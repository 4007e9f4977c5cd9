--------------------------- MODULE DesignTurn_proofs ----------------------------
(***************************************************************************)
(* Proofs about DesignTurn, for any number of threads, request ids, turns  *)
(* and runs and for any budget.                                            *)
(*                                                                         *)
(* Most steps move one thread and leave the run table alone (Quiet).  The  *)
(* others open a run, close one, or are a restart.                         *)
(***************************************************************************)
EXTENDS DesignTurn, FiniteSetTheorems, SequenceTheorems, TLAPS

Asking == {"lookup", "start"}

\* What a thread may rely on.  Up to its claim, if the revision its client named
\* is still the session's, its copy is what it keeps of the session's chat and its
\* message.
ThreadInv(t) ==
    /\ t \in Thread
    /\ t.pc \in Asking \cup {"idle"} => t.run = 0
    /\ t.pc \notin {"idle", "finish"} => t.turn \in Turns
    /\ t.run <= started
    /\ t.pc \in {"claim_read", "claim"} /\ t.wants /\ t.fresh =>
           t.copy = Append(Recent(chat), Said(t.turn, "user"))

\* Requests that are about to open a run differ in their ids.
AskedOnce ==
    \A c, d \in Clients :
        /\ thread[c].pc \in Asking /\ thread[d].pc \in Asking
        /\ thread[c].key = thread[d].key /\ thread[c].key \in Keys \ Racing
        => c = d

\* A closed run without an answer does not stop a retry.
Retryable(r) == ~Running(r) /\ ~runs[r].answered

StartsClean ==
    \A c \in Clients, r \in Kept :
        /\ thread[c].pc = "start"
        /\ runs[r].key = thread[c].key /\ thread[c].key \in Keys \ Racing
        => Retryable(r)

\* Only a run that left room for a retry has a successor.
Superseded ==
    \A r, k \in Kept :
        runs[r].key \in Keys \ Racing /\ runs[k].key = runs[r].key /\ k > r =>
            Retryable(r)

Inv ==
    /\ TypeOK
    /\ \A c \in Clients : ThreadInv(thread[c])
    /\ RunsMatchThreads
    /\ NewestRunsKept
    /\ AskedOnce
    /\ StartsClean
    /\ Superseded

--------------------------------------------------------------------------------
(* Steps that leave the run table alone *)

Forgets(t) == [t EXCEPT !.fresh = FALSE]

\* Thread c has moved, and the others have at most lost a revision, which they
\* did if the chat changed.
Quiet(c) ==
    /\ UNCHANGED <<runs, started, orphans>>
    /\ chat' \in Seq(Message)
    /\ received' \in 0 .. MaxTurns
    /\ DOMAIN thread' = Clients
    /\ thread' = [d \in Clients |-> thread'[d]]
    /\ ThreadInv(thread[c])'
    /\ thread'[c].run = thread[c].run
    /\ \A d \in Clients \ {c} :
          \/ thread'[d] = thread[d] /\ chat' = chat
          \/ thread'[d] = Forgets(thread[d])

LEMMA ForgetsFields ==
    ASSUME NEW t \in Thread
    PROVE  /\ Forgets(t) \in Thread
           /\ Forgets(t).pc = t.pc
           /\ Forgets(t).turn = t.turn
           /\ Forgets(t).key = t.key
           /\ Forgets(t).run = t.run
           /\ ~Forgets(t).fresh
BY DEF Forgets, Thread

\* A quiet step keeps what the invariant says of the other threads.
LEMMA QuietThreads ==
    ASSUME Inv, NEW c \in Clients, Quiet(c)
    PROVE  /\ \A d \in Clients : ThreadInv(thread[d])'
           /\ \A d \in Clients : thread'[d].run = thread[d].run
           /\ \A d \in Clients \ {c} : /\ thread'[d].pc = thread[d].pc
                                       /\ thread'[d].key = thread[d].key
<1>1. ASSUME NEW d \in Clients \ {c}
      PROVE  /\ ThreadInv(thread[d])'
             /\ thread'[d].run = thread[d].run
             /\ thread'[d].pc = thread[d].pc
             /\ thread'[d].key = thread[d].key
  <2>1. ThreadInv(thread[d])
    BY <1>1 DEF Inv
  <2>2. CASE thread'[d] = thread[d] /\ chat' = chat
    BY <2>1, <2>2 DEF Quiet, ThreadInv
  <2>3. CASE thread'[d] = Forgets(thread[d])
    BY <2>1, <2>3, ForgetsFields DEF Quiet, ThreadInv
  <2> QED BY <1>1, <2>2, <2>3 DEF Quiet
<1> QED BY <1>1 DEF Quiet

LEMMA QuietKeeps ==
    ASSUME Inv, NEW c \in Clients, Quiet(c), AskedOnce', StartsClean'
    PROVE  Inv'
<1>1. TypeOK'
  <2>1. \A d \in Clients : thread'[d] \in Thread
    BY QuietThreads DEF ThreadInv
  <2> QED BY <2>1 DEF Quiet, Inv, TypeOK
<1>2. RunsMatchThreads'
  BY QuietThreads DEF Quiet, Inv, RunsMatchThreads, Running, Kept
<1>3. NewestRunsKept' /\ Superseded'
  BY DEF Quiet, Inv, NewestRunsKept, Superseded, Retryable, Running, Kept
<1> QED BY <1>1, <1>2, <1>3, QuietThreads DEF Inv

\* A quiet step that asks for nothing keeps what is said of those who ask.
LEMMA QuietAsks ==
    ASSUME Inv, NEW c \in Clients, Quiet(c), thread'[c].pc \notin Asking
    PROVE  Inv'
<1>1. AskedOnce'
  BY QuietThreads DEF Inv, AskedOnce
<1>2. StartsClean'
  BY QuietThreads DEF Quiet, Inv, StartsClean, Retryable, Running, Kept, Asking
<1> QED BY <1>1, <1>2, QuietKeeps

\* Thread c goes on as t and nothing else happens to the other threads.
LEMMA GoesQuiet ==
    ASSUME Inv, NEW c \in Clients, NEW t, Goes(c, t),
           UNCHANGED <<chat, runs, started, orphans>>, received' \in 0 .. MaxTurns,
           ThreadInv(t), t.run = thread[c].run
    PROVE  Quiet(c)
BY DEF Inv, TypeOK, Quiet, Goes, ThreadInv

\* Thread c goes on as t after a write of the session.
LEMMA WritesQuiet ==
    ASSUME Inv, NEW c \in Clients, NEW t, Writes(c, t), chat' \in Seq(Message),
           UNCHANGED <<runs, started, orphans, received>>,
           ThreadInv(t), ~t.fresh, t.run = thread[c].run
    PROVE  Quiet(c)
BY DEF Inv, TypeOK, Quiet, Writes, Forgets, ThreadInv

--------------------------------------------------------------------------------
(* The records threads go on as *)

\* What is kept of a chat is its newest messages, no more than the limit.
LEMMA RecentKept ==
    ASSUME NEW messages \in Seq(Message)
    PROVE  /\ Recent(messages) \in Seq(Message)
           /\ Len(Recent(messages)) <= HistoryLimit
           /\ \A k \in 1 .. Len(Recent(messages)) :
                 Recent(messages)[k] =
                     messages[Len(messages) - Len(Recent(messages)) + k]
<1> DEFINE first == Len(messages) - HistoryLimit + 1
<1>1. HistoryLimit \in Nat \ {0} /\ Len(messages) \in Nat
  BY TurnAssumption
<1>2. CASE Len(messages) <= HistoryLimit
  BY <1>1, <1>2 DEF Recent
<1>3. CASE ~(Len(messages) <= HistoryLimit)
  <2>1. Recent(messages) = SubSeq(messages, first, Len(messages))
    BY <1>3 DEF Recent
  <2>2. first \in Int /\ first >= 1 /\ first <= Len(messages)
    BY <1>1, <1>3
  <2>3. \A i \in first .. Len(messages) : messages[i] \in Message
    BY <1>1, <2>2
  <2> HIDE DEF first
  <2>4. /\ SubSeq(messages, first, Len(messages)) \in Seq(Message)
        /\ Len(SubSeq(messages, first, Len(messages))) = Len(messages) - first + 1
        /\ \A i \in 1 .. Len(messages) - first + 1 :
              SubSeq(messages, first, Len(messages))[i] = messages[first + i - 1]
    BY <1>1, <2>2, <2>3, SubSeqProperties
  <2>5. Len(messages) - first + 1 = HistoryLimit
    BY <1>1 DEF first
  <2>6. \A k \in 1 .. HistoryLimit :
           first + k - 1 = Len(messages) - HistoryLimit + k
    BY <1>1 DEF first
  <2> QED BY <1>1, <2>1, <2>4, <2>5, <2>6
<1> QED BY <1>2, <1>3

LEMMA SaidMessage ==
    ASSUME NEW turn \in Turns, NEW role \in {"user", "assistant"}
    PROVE  Said(turn, role) \in Message
BY DEF Said, Message

LEMMA AtRestInv == ASSUME TypeOK PROVE ThreadInv(AtRest)
BY TurnAssumption DEF TypeOK, ThreadInv, AtRest, Thread, Points, Asking, Turns

LEMMA EndedInv ==
    ASSUME NEW t \in Thread, ThreadInv(t), t.pc \notin Asking \cup {"idle", "finish"},
           NEW outcome \in {"completed", "failed"}
    PROVE  /\ ThreadInv(Ended(t, outcome))
           /\ Ended(t, outcome).run = t.run
           /\ Ended(t, outcome).pc = "end_read"
           /\ ~Ended(t, outcome).fresh
<1>1. Ended(t, outcome) \in Thread
  <2>1. t.turn \in Turns /\ t.copy \in Seq(Message)
    BY DEF ThreadInv, Thread, Asking
  <2>2. Append(t.copy, Said(t.turn, "assistant")) \in Seq(Message)
    BY <2>1, SaidMessage
  <2> QED BY <2>1, <2>2, TurnAssumption DEF Ended, ThreadInv, Thread, Points
<1> QED BY <1>1 DEF Ended, ThreadInv, Asking

LEMMA ClosingInv ==
    ASSUME TypeOK, NEW t \in Thread, ThreadInv(t),
           NEW outcome \in {"completed", "failed", "raised"}
    PROVE  /\ ThreadInv(Closing(t, outcome))
           /\ Closing(t, outcome).run = t.run
           /\ Closing(t, outcome).pc \notin Asking
           /\ ~Closing(t, outcome).fresh
<1>1. CASE t.run = 0
  BY <1>1, AtRestInv DEF Closing, AtRest, Asking
<1>2. CASE t.run # 0
  <2>1. Closing(t, outcome) =
          [pc |-> "finish", turn |-> 0, key |-> NoKey, wants |-> FALSE, stale |-> FALSE,
           run |-> t.run, fresh |-> FALSE, copy |-> <<>>, decisions |-> 0,
           repairs |-> 0, late |-> FALSE, outcome |-> outcome]
    BY <1>2 DEF Closing, AtRest
  <2>2. Closing(t, outcome) \in Thread
    BY <2>1, TurnAssumption DEF TypeOK, ThreadInv, Thread, Points
  <2> QED BY <2>1, <2>2 DEF ThreadInv, Asking
<1> QED BY <1>1, <1>2

LEMMA RaisedInv ==
    ASSUME TypeOK, NEW c \in Clients, ThreadInv(thread[c])
    PROVE  /\ ThreadInv(Raised(c))
           /\ Raised(c).run = thread[c].run
           /\ Raised(c).pc \notin Asking
           /\ ~Raised(c).fresh
BY ClosingInv DEF Raised, ThreadInv

\* What the head of the loop, or an answer that did not help, leads to.
LEMMA LoopInv ==
    ASSUME NEW t \in Thread, ThreadInv(t), t.pc \in {"model", "tool", "tool_commit"},
           NEW n \in NextDecision(t) \cup Repair(t)
    PROVE  /\ ThreadInv(n)
           /\ n.run = t.run
           /\ n.pc \notin Asking
<1>1. ASSUME NEW u \in Thread, ThreadInv(u), u.pc \in {"model", "tool", "tool_commit"},
             NEW m \in NextDecision(u)
      PROVE  ThreadInv(m) /\ m.run = u.run /\ m.pc \notin Asking
  <2>1. CASE m = [u EXCEPT !.pc = "model"]
    BY <1>1, <2>1 DEF ThreadInv, Thread, Points, Asking
  <2>2. CASE m = Ended(u, "failed")
    BY <1>1, <2>2, EndedInv DEF Asking
  <2> QED BY <1>1, <2>1, <2>2 DEF NextDecision
<1>2. CASE n \in NextDecision(t)
  BY <1>1, <1>2
<1>3. CASE n \in Repair(t)
  <2> DEFINE used == [t EXCEPT !.repairs = @ + 1]
  <2>1. CASE used.repairs > MaxRepairs
    <3>1. n = Ended(used, "failed")
      BY <1>3, <2>1 DEF Repair
    <3>2. n = Ended(t, "failed")
      BY <3>1 DEF Ended, Thread
    <3> QED BY <3>2, EndedInv DEF Asking
  <2>2. CASE ~(used.repairs > MaxRepairs)
    <3>1. n \in NextDecision(used)
      BY <1>3, <2>2 DEF Repair
    <3>2. used \in Thread /\ ThreadInv(used) /\ used.pc = t.pc /\ used.run = t.run
      BY <2>2, TurnAssumption DEF Thread, ThreadInv
    <3> HIDE DEF used
    <3> QED BY <1>1, <3>1, <3>2
  <2> QED BY <2>1, <2>2
<1> QED BY <1>2, <1>3

--------------------------------------------------------------------------------
(* Each action keeps the invariant *)

LEMMA Typing == ASSUME Inv, NEW c \in Clients
                PROVE  ThreadInv(thread[c]) /\ thread[c] \in Thread
BY DEF Inv, ThreadInv

LEMMA ReceiveInv ==
    ASSUME Inv, NEW c \in Clients, NEW key \in Keys \cup {NoKey}, NEW wants \in BOOLEAN,
           NEW stale \in BOOLEAN, Receive(c, key, wants, stale)
    PROVE  Inv'
<1> DEFINE t == Arrived(IF key = NoKey THEN "start" ELSE "lookup", key, wants, stale)
<1>1. Goes(c, t) /\ received' = received + 1
  BY DEF Receive
<1>2. received' \in Turns /\ received' \in 0 .. MaxTurns
  BY TurnAssumption DEF Receive, Inv, TypeOK, Turns
<1>3. ThreadInv(t) /\ t.run = thread[c].run
  <2>1. t \in Thread
    BY <1>1, <1>2, TurnAssumption DEF Arrived, Thread, Points
  <2>2. thread[c].run = 0
    BY Typing DEF Receive, At, ThreadInv
  <2> QED BY <1>1, <1>2, <2>1, <2>2 DEF Arrived, ThreadInv, Inv, TypeOK, Asking
<1>4. Quiet(c)
  <2> HIDE DEF t
  <2> QED BY <1>1, <1>2, <1>3, GoesQuiet DEF Receive
<1>5. thread'[c] = t
  BY <1>1 DEF Goes, Inv, TypeOK
<1>6. AskedOnce'
  <2>1. \A d \in Clients \ {c} :
           key \in Keys \ Racing /\ thread[d].key = key => thread[d].pc \notin Asking
    BY DEF Receive, Asking
  <2>2. thread'[c].key = key
    BY <1>5 DEF Arrived
  <2> HIDE DEF t
  <2> QED BY <1>4, <2>1, <2>2, QuietThreads DEF Inv, AskedOnce
<1>7. StartsClean'
  <2>1. thread'[c].pc = "start" => thread'[c].key = NoKey
    BY <1>5 DEF Arrived
  <2>2. Kept' = Kept /\ \A r \in Kept : Retryable(r)' = Retryable(r)
    BY <1>4 DEF Quiet, Kept, Retryable, Running
  <2> HIDE DEF t
  <2> QED BY <1>4, <2>1, <2>2, QuietThreads, TurnAssumption DEF Inv, StartsClean, Quiet
<1> QED BY <1>4, <1>6, <1>7, QuietKeeps

LEMMA ReceiveLoopInv ==
    ASSUME Inv, NEW c \in Clients, NEW wants \in BOOLEAN, ReceiveLoop(c, wants)
    PROVE  Inv'
<1> DEFINE t == Arrived("open", NoKey, wants, FALSE)
<1>1. Goes(c, t) /\ received' = received + 1
  BY DEF ReceiveLoop
<1>2. received' \in Turns /\ received' \in 0 .. MaxTurns
  BY TurnAssumption DEF ReceiveLoop, Inv, TypeOK, Turns
<1>3. ThreadInv(t) /\ t.run = thread[c].run
  <2>1. t \in Thread
    BY <1>1, <1>2, TurnAssumption DEF Arrived, Thread, Points
  <2>2. thread[c].run = 0
    BY Typing DEF ReceiveLoop, At, ThreadInv
  <2> QED BY <1>1, <1>2, <2>1, <2>2 DEF Arrived, ThreadInv, Inv, TypeOK, Asking
<1>4. thread'[c].pc \notin Asking
  BY <1>1 DEF Goes, Arrived, Inv, TypeOK, Asking
<1>5. Quiet(c)
  <2> HIDE DEF t
  <2> QED BY <1>1, <1>2, <1>3, GoesQuiet DEF ReceiveLoop
<1> QED BY <1>4, <1>5, QuietAsks

\* If the newest run with this id is closed without an answer, so are they all.
LEMMA LookupInv ==
    ASSUME Inv, NEW c \in Clients, Lookup(c)
    PROVE  Inv'
<1> DEFINE t == [thread[c] EXCEPT !.pc = "start"]
<1>1. CASE Settled(thread[c].key)
  <2>1. Goes(c, AtRest)
    BY <1>1 DEF Lookup
  <2>2. ThreadInv(AtRest) /\ AtRest.run = thread[c].run /\ AtRest.pc \notin Asking
    BY Typing, AtRestInv DEF Inv, Lookup, At, ThreadInv, AtRest, Asking
  <2>3. Quiet(c)
    BY <2>1, <2>2, GoesQuiet DEF Lookup, Inv, TypeOK
  <2>4. thread'[c].pc \notin Asking
    BY <2>1, <2>2 DEF Goes, Inv, TypeOK
  <2> QED BY <2>3, <2>4, QuietAsks
<1>2. CASE ~Settled(thread[c].key)
  <2>1. Goes(c, t)
    BY <1>2 DEF Lookup
  <2>2. t \in Thread /\ t.key = thread[c].key /\ t.pc = "start" /\ t.run = thread[c].run
    BY Typing DEF Thread, Points
  <2>3. ThreadInv(t)
    BY <2>2, Typing DEF ThreadInv, Lookup, At, Thread, Asking
  <2>4. thread'[c] = t
    BY <2>1 DEF Goes, Inv, TypeOK
  <2> HIDE DEF t
  <2>5. Quiet(c)
    BY <2>1, <2>2, <2>3, GoesQuiet DEF Lookup, Inv, TypeOK
  <2>6. AskedOnce'
    BY <2>2, <2>4, <2>5, QuietThreads DEF Inv, AskedOnce, Lookup, At, Asking
  <2>7. ASSUME NEW r \in Kept, runs[r].key = thread[c].key, thread[c].key \in Keys \ Racing
        PROVE  Retryable(r)
    <3>1. SUFFICES ASSUME ~Retryable(r) PROVE FALSE
      OBVIOUS
    <3>2. \A k \in Kept : runs[k].key = thread[c].key => ~(k > r)
      BY <2>7, <3>1 DEF Inv, Superseded
    <3>3. NewestWith(thread[c].key, r)
      BY <2>7, <3>2 DEF NewestWith, Kept, Turns
    <3> QED BY <1>2, <3>1, <3>3 DEF Settled, Retryable, Kept
  <2>8. Kept' = Kept /\ (\A r \in Kept : Retryable(r)' = Retryable(r)) /\ runs' = runs
    BY <2>5 DEF Quiet, Kept, Retryable, Running
  <2>9. StartsClean'
    BY <2>2, <2>4, <2>5, <2>7, <2>8, QuietThreads DEF Inv, StartsClean
  <2> QED BY <2>5, <2>6, <2>9, QuietKeeps
<1> QED BY <1>1, <1>2

\* A thread that goes on within its turn, leaving the session alone.
LEMMA MovesInv ==
    ASSUME Inv, NEW c \in Clients, NEW t, Goes(c, t),
           UNCHANGED <<chat, runs, received, started, orphans>>,
           ThreadInv(t), t.run = thread[c].run, t.pc \notin Asking
    PROVE  Inv'
<1>1. Quiet(c)
  BY GoesQuiet DEF Inv, TypeOK
<1>2. thread'[c].pc \notin Asking
  BY DEF Goes, Inv, TypeOK
<1> QED BY <1>1, <1>2, QuietAsks

\* A thread that commits and goes on as t, or raises.
LEMMA CommitInv ==
    ASSUME Inv, NEW c \in Clients, NEW messages \in Seq(Message), NEW t,
           Commit(c, messages, t), UNCHANGED <<runs, received, started, orphans>>,
           t \in Thread, ThreadInv(t), t.run = thread[c].run, t.pc \notin Asking
    PROVE  Inv'
<1>1. CASE thread[c].fresh
  <2>1. chat' = messages /\ Writes(c, Forgets(t))
    BY <1>1 DEF Commit, Forgets
  <2>2. /\ Forgets(t).pc = t.pc
        /\ Forgets(t).run = t.run
        /\ ~Forgets(t).fresh
        /\ ThreadInv(Forgets(t))
    BY ForgetsFields DEF ThreadInv
  <2>3. Quiet(c)
    BY <2>1, <2>2, WritesQuiet
  <2>4. thread'[c].pc \notin Asking
    BY <2>1, <2>2 DEF Writes
  <2> QED BY <2>3, <2>4, QuietAsks
<1>2. CASE ~thread[c].fresh
  <2>1. Goes(c, Raised(c)) /\ UNCHANGED chat
    BY <1>2 DEF Commit
  <2> QED BY <2>1, RaisedInv, Typing, MovesInv DEF Inv
<1> QED BY <1>1, <1>2

LEMMA NoModelInv ==
    ASSUME Inv, NEW c \in Clients, NoModel(c)
    PROVE  Inv'
BY RaisedInv, Typing, MovesInv DEF NoModel, Inv

LEMMA OpenInv ==
    ASSUME Inv, NEW c \in Clients, Open(c)
    PROVE  Inv'
<1> DEFINE t == [thread[c] EXCEPT !.pc = "claim_read",
                                  !.copy = Append(Recent(chat), Said(thread[c].turn, "user"))]
<1>1. thread[c] \in Thread /\ thread[c].turn \in Turns /\ ThreadInv(thread[c])
  BY Typing DEF ThreadInv, Open, At
<1>2. t \in Thread
  <2>1. t.copy \in Seq(Message)
    BY <1>1, RecentKept, SaidMessage DEF Thread, Inv, TypeOK
  <2> QED BY <1>1, <2>1 DEF Thread, Points
<1>3. ThreadInv(t) /\ t.run = thread[c].run /\ t.pc \notin Asking
  BY <1>1, <1>2 DEF ThreadInv, Thread, Asking
<1> HIDE DEF t
<1> QED BY <1>3, MovesInv DEF Open, t

LEMMA ClaimReadInv ==
    ASSUME Inv, NEW c \in Clients, ClaimRead(c)
    PROVE  Inv'
<1> DEFINE t == [thread[c] EXCEPT !.pc = "claim", !.fresh = ClaimRevision(c)]
<1>1. thread[c] \in Thread /\ ThreadInv(thread[c]) /\ thread[c].pc = "claim_read"
  BY Typing DEF ClaimRead, At
<1>2. ClaimRevision(c) \in BOOLEAN /\ (thread[c].wants => ClaimRevision(c) = thread[c].fresh)
  BY <1>1 DEF ClaimRevision, Thread
<1>3. t \in Thread
  BY <1>1, <1>2 DEF Thread, Points
<1>4. ThreadInv(t) /\ t.run = thread[c].run /\ t.pc \notin Asking
  BY <1>1, <1>2, <1>3 DEF ThreadInv, Thread, Asking
<1> HIDE DEF t
<1> QED BY <1>4, MovesInv DEF ClaimRead, t

LEMMA ClaimInv ==
    ASSUME Inv, NEW c \in Clients, Claim(c)
    PROVE  Inv'
<1> DEFINE t == [thread[c] EXCEPT !.pc = "model", !.wants = FALSE]
<1>1. thread[c] \in Thread /\ ThreadInv(thread[c]) /\ thread[c].pc = "claim"
  BY Typing DEF Claim, At
<1>2. t \in Thread
  BY <1>1 DEF Thread, Points
<1>3. ThreadInv(t) /\ t.run = thread[c].run /\ t.pc \notin Asking
  BY <1>1, <1>2 DEF ThreadInv, Thread, Asking
<1>4. thread[c].copy \in Seq(Message)
  BY <1>1 DEF Thread
<1> HIDE DEF t
<1> QED BY <1>2, <1>3, <1>4, CommitInv DEF Claim, t

LEMMA ExpireInv ==
    ASSUME Inv, NEW c \in Clients, Expire(c)
    PROVE  Inv'
<1> DEFINE t == [thread[c] EXCEPT !.late = TRUE]
<1>1. thread[c] \in Thread /\ ThreadInv(thread[c])
      /\ thread[c].pc \in {"model", "tool", "tool_commit"}
  BY Typing DEF Expire
<1>2. t \in Thread
  BY <1>1 DEF Thread
<1>3. ThreadInv(t) /\ t.run = thread[c].run /\ t.pc \notin Asking
  BY <1>1, <1>2 DEF ThreadInv, Thread, Asking
<1> HIDE DEF t
<1> QED BY <1>3, MovesInv DEF Expire, t

\* The steps that end the loop.
LEMMA EndsInv ==
    ASSUME Inv, NEW c \in Clients, OutOfBudget(c) \/ ModelFails(c)
    PROVE  Inv'
<1>1. thread[c] \in Thread /\ ThreadInv(thread[c]) /\ thread[c].pc = "model"
  BY Typing DEF OutOfBudget, ModelFails, At
<1>2. /\ ThreadInv(Ended(thread[c], "failed"))
      /\ Ended(thread[c], "failed").run = thread[c].run
      /\ Ended(thread[c], "failed").pc \notin Asking
  BY <1>1, EndedInv DEF Asking
<1> QED BY <1>2, MovesInv DEF OutOfBudget, ModelFails

LEMMA ModelAnswersInv ==
    ASSUME Inv, NEW c \in Clients, ModelAnswers(c)
    PROVE  Inv'
<1> DEFINE t == [thread[c] EXCEPT !.decisions = @ + 1]
<1>1. thread[c] \in Thread /\ ThreadInv(thread[c]) /\ thread[c].pc = "model"
  BY Typing DEF ModelAnswers, At
<1>2. t \in Thread /\ t.run = thread[c].run /\ t.pc = "model"
  <2>1. thread[c].decisions \in 0 .. MaxDecisions /\ thread[c].decisions < MaxDecisions
    BY <1>1 DEF Thread, ModelAnswers, MayAsk
  <2>2. thread[c].decisions + 1 \in 0 .. MaxDecisions
    BY <2>1, TurnAssumption
  <2> QED BY <1>1, <2>2 DEF Thread
<1>3. ThreadInv(t)
  BY <1>1, <1>2 DEF ThreadInv, Thread
<1>4. PICK next \in {[t EXCEPT !.pc = "tool"]} \cup Repair(t) : Goes(c, next)
  BY DEF ModelAnswers
<1> HIDE DEF t
<1>5. CASE next = [t EXCEPT !.pc = "tool"]
  <2>1. next \in Thread
    BY <1>2, <1>5 DEF Thread, Points
  <2>2. ThreadInv(next) /\ next.run = thread[c].run /\ next.pc \notin Asking
    BY <1>2, <1>3, <1>5, <2>1 DEF ThreadInv, Thread, Asking
  <2> QED BY <1>4, <2>2, MovesInv DEF ModelAnswers
<1>6. CASE next \in Repair(t)
  <2>1. ThreadInv(next) /\ next.run = t.run /\ next.pc \notin Asking
    BY <1>2, <1>3, <1>6, LoopInv
  <2> QED BY <1>2, <1>4, <2>1, MovesInv DEF ModelAnswers
<1> QED BY <1>4, <1>5, <1>6

LEMMA RunToolInv ==
    ASSUME Inv, NEW c \in Clients, RunTool(c)
    PROVE  Inv'
<1>1. thread[c] \in Thread /\ ThreadInv(thread[c]) /\ thread[c].pc = "tool"
  BY Typing DEF RunTool, At
<1>2. PICK next \in {[thread[c] EXCEPT !.pc = "tool_commit", !.fresh = TRUE],
                     Ended(thread[c], "failed")}
                    \cup NextDecision(thread[c]) \cup Repair(thread[c]) :
              Goes(c, next)
  BY DEF RunTool
<1>3. ThreadInv(next) /\ next.run = thread[c].run /\ next.pc \notin Asking
  <2>1. CASE next = [thread[c] EXCEPT !.pc = "tool_commit", !.fresh = TRUE]
    <3>1. next \in Thread
      BY <1>1, <2>1 DEF Thread, Points
    <3> QED BY <1>1, <2>1, <3>1 DEF ThreadInv, Thread, Asking
  <2>2. CASE next = Ended(thread[c], "failed")
    BY <1>1, <2>2, EndedInv DEF Asking
  <2>3. CASE next \in NextDecision(thread[c]) \cup Repair(thread[c])
    BY <1>1, <2>3, LoopInv
  <2> QED BY <1>2, <2>1, <2>2, <2>3
<1> QED BY <1>2, <1>3, MovesInv DEF RunTool

LEMMA CommitToolInv ==
    ASSUME Inv, NEW c \in Clients, CommitTool(c)
    PROVE  Inv'
<1>1. thread[c] \in Thread /\ ThreadInv(thread[c]) /\ thread[c].pc = "tool_commit"
  BY Typing DEF CommitTool, At
<1>2. \A o \in {"completed", "failed"} :
         /\ Ended(thread[c], o) \in Thread
         /\ ThreadInv(Ended(thread[c], o))
         /\ Ended(thread[c], o).run = thread[c].run
         /\ Ended(thread[c], o).pc \notin Asking
         /\ ~Ended(thread[c], o).fresh
  BY <1>1, EndedInv DEF ThreadInv, Asking
<1>3. CASE thread[c].late
  <2> DEFINE t == Ended(thread[c], "failed")
  <2>1. UNCHANGED chat /\ (IF thread[c].fresh THEN Writes(c, t) ELSE Goes(c, t))
    BY <1>3 DEF CommitTool
  <2>2. CASE Writes(c, t)
    <3>1. Quiet(c)
      BY <1>2, <2>1, <2>2, WritesQuiet DEF CommitTool, Inv, TypeOK
    <3>2. thread'[c].pc \notin Asking
      BY <1>2, <2>2 DEF Writes
    <3> QED BY <3>1, <3>2, QuietAsks
  <2>3. CASE Goes(c, t)
    BY <1>2, <2>1, <2>3, MovesInv DEF CommitTool
  <2> QED BY <2>1, <2>2, <2>3
<1>4. CASE ~thread[c].late
  <2>1. PICK next \in {Ended(thread[c], "completed")}
                      \cup NextDecision(thread[c]) \cup Repair(thread[c]) :
                Commit(c, chat, next)
    BY <1>4 DEF CommitTool
  <2>2. /\ next \in Thread
        /\ ThreadInv(next)
        /\ next.run = thread[c].run
        /\ next.pc \notin Asking
    BY <1>1, <1>2, <2>1, LoopInv DEF ThreadInv
  <2> QED BY <2>1, <2>2, CommitInv DEF CommitTool, Inv, TypeOK
<1> QED BY <1>3, <1>4

LEMMA EndReadInv ==
    ASSUME Inv, NEW c \in Clients, EndRead(c)
    PROVE  Inv'
<1> DEFINE t == [thread[c] EXCEPT !.pc = "end", !.fresh = TRUE]
<1>1. thread[c] \in Thread /\ ThreadInv(thread[c]) /\ thread[c].pc = "end_read"
  BY Typing DEF EndRead, At
<1>2. t \in Thread
  BY <1>1 DEF Thread, Points
<1>3. ThreadInv(t) /\ t.run = thread[c].run /\ t.pc \notin Asking
  BY <1>1, <1>2 DEF ThreadInv, Thread, Asking
<1> HIDE DEF t
<1> QED BY <1>3, MovesInv DEF EndRead, t

LEMMA EndInv ==
    ASSUME Inv, NEW c \in Clients, End(c)
    PROVE  Inv'
<1> DEFINE t == Closing(thread[c], thread[c].outcome)
<1>1. thread[c] \in Thread /\ ThreadInv(thread[c]) /\ thread[c].copy \in Seq(Message)
      /\ thread[c].outcome \in {"completed", "failed", "raised"}
  BY Typing DEF Thread
<1>2. t \in Thread /\ ThreadInv(t) /\ t.run = thread[c].run /\ t.pc \notin Asking
  BY <1>1, ClosingInv DEF Inv, ThreadInv
<1> HIDE DEF t
<1> QED BY <1>1, <1>2, CommitInv DEF End, t

LEMMA OtherWriteInv ==
    ASSUME Inv, OtherWrite
    PROVE  Inv'
<1>1. \A d \in Clients : thread'[d] = Forgets(thread[d])
  BY DEF OtherWrite, Forgets
<1>2. \A d \in Clients : /\ ThreadInv(thread[d])'
                        /\ thread'[d].pc = thread[d].pc
                        /\ thread'[d].key = thread[d].key
                        /\ thread'[d].run = thread[d].run
  BY <1>1, Typing, ForgetsFields DEF OtherWrite, ThreadInv
<1>3. TypeOK'
  BY <1>2 DEF OtherWrite, Inv, TypeOK, ThreadInv
<1>4. RunsMatchThreads'
  <2>1. runs' = runs /\ orphans' = orphans
    BY DEF OtherWrite
  <2> QED BY <1>2, <2>1 DEF Inv, RunsMatchThreads, Running, Kept
<1>5. NewestRunsKept' /\ Superseded'
  BY DEF OtherWrite, Inv, NewestRunsKept, Superseded, Retryable, Running, Kept
<1>6. AskedOnce'
  BY <1>2 DEF Inv, AskedOnce
<1>7. StartsClean'
  <2>1. Kept' = Kept /\ \A r \in Kept : Retryable(r)' = Retryable(r)
    BY DEF OtherWrite, Retryable, Running, Kept
  <2>2. runs' = runs
    BY DEF OtherWrite
  <2> QED BY <1>2, <2>1, <2>2 DEF Inv, StartsClean
<1> QED BY <1>2, <1>3, <1>4, <1>5, <1>6, <1>7 DEF Inv

--------------------------------------------------------------------------------
(* The run table *)

\* The number of runs above r in a table without gaps.
LEMMA NewerCount ==
    ASSUME NEW table, NEW last \in Turns, NEW first \in 1 .. last, NEW r \in first .. last,
           {k \in Turns : table[k] # NoRun} = first .. last
    PROVE  Cardinality(Newer(table, r)) = last - r
<1>1. Newer(table, r) = r + 1 .. last
  BY TurnAssumption DEF Newer, Turns
<1>2. Cardinality(r + 1 .. last) = IF r + 1 > last THEN 0 ELSE last - (r + 1) + 1
  BY FS_Interval, TurnAssumption DEF Turns
<1> QED BY <1>1, <1>2, TurnAssumption DEF Turns

\* The next run takes the next number, and pruning keeps the newest.
LEMMA StartedRun ==
    ASSUME Inv, NEW seq \in Turns, IsNextSeq(seq), NEW row \in Run,
           NEW table \in [Turns -> Run \cup {NoRun}], table[seq] = row,
           \A r \in Turns \ {seq} : table[r] = runs[r]
    PROVE  /\ seq = started + 1
           /\ seq \notin Kept
           /\ Prune(table) \in [Turns -> Run \cup {NoRun}]
           /\ Prune(table)[seq] = row
           /\ \A r \in Turns \ {seq} : Prune(table)[r] \in {runs[r], NoRun}
           /\ {r \in Turns : Prune(table)[r] # NoRun}
                   = {r \in 1 .. started + 1 : r + MaxKept > started + 1}
<1> DEFINE first == IF started + 1 > MaxKept THEN started + 1 - MaxKept ELSE 1
<1>1. /\ started \in 0 .. MaxTurns /\ runs \in [Turns -> Run \cup {NoRun}]
      /\ Kept = {r \in 1 .. started : r + MaxKept > started}
  BY DEF Inv, TypeOK, NewestRunsKept
<1>2. seq = started + 1 /\ seq \notin Kept
  <2>1. CASE started = 0
    BY <1>1, <2>1, TurnAssumption DEF IsNextSeq, Turns
  <2>2. CASE started # 0
    <3>1. started \in Kept /\ \A r \in Kept : r <= started
      BY <1>1, <2>2, TurnAssumption
    <3> QED BY <3>1, <1>1, TurnAssumption DEF IsNextSeq, Turns
  <2> QED BY <2>1, <2>2
<1>3. first \in 1 .. seq
  BY <1>1, <1>2, TurnAssumption DEF Turns
<1>4. {k \in Turns : table[k] # NoRun} = first .. seq
  <2>1. {k \in Turns : table[k] # NoRun} = Kept \cup {seq}
    BY <1>1, RunAssumption DEF Kept
  <2>2. Kept \cup {seq} = first .. seq
    BY <1>1, <1>2, TurnAssumption DEF Turns
  <2> QED BY <2>1, <2>2
<1>6. ASSUME NEW r \in Turns
      PROVE  (Prune(table)[r] # NoRun) <=> (r \in 1 .. seq /\ r + MaxKept > seq)
  <2>1. CASE r \in first .. seq
    <3>1. Cardinality(Newer(table, r)) = seq - r
      BY <1>3, <1>4, <2>1, NewerCount
    <3>2. table[r] # NoRun
      BY <1>4, <2>1
    <3>3. Prune(table)[r] = IF seq - r < MaxKept THEN table[r] ELSE NoRun
      BY <3>1 DEF Prune
    <3> QED BY <2>1, <3>2, <3>3, <1>1, <1>2, TurnAssumption DEF Turns
  <2>2. CASE r \notin first .. seq
    <3>1. table[r] = NoRun
      BY <1>4, <2>2
    <3>2. Prune(table)[r] = NoRun
      BY <3>1 DEF Prune
    <3> QED BY <2>2, <3>2, <1>1, <1>2, TurnAssumption DEF Turns
  <2> QED BY <2>1, <2>2
<1>7. {r \in Turns : Prune(table)[r] # NoRun}
          = {r \in 1 .. started + 1 : r + MaxKept > started + 1}
  BY <1>1, <1>2, <1>6, TurnAssumption DEF Turns
<1>8. Prune(table)[seq] = row
  <2>1. seq \in first .. seq
    BY <1>1, <1>2, <1>3, TurnAssumption DEF Turns
  <2>2. Cardinality(Newer(table, seq)) = 0
    <3>1. Cardinality(Newer(table, seq)) = seq - seq
      BY <1>3, <1>4, <2>1, NewerCount
    <3> QED BY <3>1, TurnAssumption DEF Turns
  <2> QED BY <2>2, TurnAssumption DEF Prune
<1>9. Prune(table) \in [Turns -> Run \cup {NoRun}]
      /\ \A r \in Turns \ {seq} : Prune(table)[r] \in {runs[r], NoRun}
  BY DEF Prune
<1> QED BY <1>2, <1>7, <1>8, <1>9

\* A thread opens a run: it has the next number, and only pruning changes others.
LEMMA OpenedRun ==
    ASSUME Inv, NEW c \in Clients, Start(c), ~thread[c].stale
    PROVE  \E seq \in Turns :
              /\ Goes(c, [thread[c] EXCEPT !.pc = "open", !.run = seq])
              /\ seq = started + 1 /\ seq \notin Kept
              /\ runs' \in [Turns -> Run \cup {NoRun}]
              /\ runs'[seq] = [key |-> thread[c].key, status |-> "running",
                               answered |-> FALSE]
              /\ runs'[seq] \in Run /\ runs'[seq] # NoRun
              /\ \A r \in Turns \ {seq} : runs'[r] \in {runs[r], NoRun}
              /\ Kept' = {r \in 1 .. started + 1 : r + MaxKept > started + 1}
<1> DEFINE row == [key |-> thread[c].key, status |-> "running", answered |-> FALSE]
<1>1. PICK seq \in Turns :
         /\ IsNextSeq(seq)
         /\ runs' = Prune([runs EXCEPT ![seq] = row])
         /\ Goes(c, [thread[c] EXCEPT !.pc = "open", !.run = seq])
  BY DEF Start
<1>2. row \in Run /\ row # NoRun
  <2>1. thread[c].key \in Keys \cup {NoKey}
    BY Typing DEF Thread
  <2>2. row \in Run
    BY <2>1 DEF Run
  <2> HIDE DEF row
  <2> QED BY <2>2, RunAssumption
<1> DEFINE table == [runs EXCEPT ![seq] = row]
<1>3. runs' = Prune(table)
  BY <1>1
<1>4. /\ table \in [Turns -> Run \cup {NoRun}]
      /\ table[seq] = row
      /\ \A r \in Turns \ {seq} : table[r] = runs[r]
  <2> HIDE DEF row
  <2> QED BY <1>2 DEF Inv, TypeOK
<1>5. /\ seq = started + 1
      /\ seq \notin Kept
      /\ Prune(table) \in [Turns -> Run \cup {NoRun}]
      /\ Prune(table)[seq] = row
      /\ \A r \in Turns \ {seq} : Prune(table)[r] \in {runs[r], NoRun}
      /\ {r \in Turns : Prune(table)[r] # NoRun}
              = {r \in 1 .. started + 1 : r + MaxKept > started + 1}
  <2> HIDE DEF row, table
  <2> QED BY <1>1, <1>2, <1>4, StartedRun
<1>6. Kept' = {r \in 1 .. started + 1 : r + MaxKept > started + 1}
  <2> HIDE DEF row, table
  <2> QED BY <1>3, <1>5 DEF Kept
<1>7. runs' \in [Turns -> Run \cup {NoRun}] /\ runs'[seq] = row
      /\ \A r \in Turns \ {seq} : runs'[r] \in {runs[r], NoRun}
  <2> HIDE DEF row, table
  <2> QED BY <1>3, <1>5
<1>8. runs'[seq] \in Run /\ runs'[seq] # NoRun
  <2> HIDE DEF row
  <2> QED BY <1>2, <1>7
<1> QED BY <1>1, <1>5, <1>6, <1>7, <1>8

LEMMA StartInv ==
    ASSUME Inv, NEW c \in Clients, Start(c)
    PROVE  Inv'
<1>1. /\ thread[c] \in Thread /\ ThreadInv(thread[c]) /\ thread[c].pc = "start"
      /\ thread[c].run = 0 /\ thread[c].turn \in Turns
  BY Typing DEF Start, At, ThreadInv, Asking
<1>2. CASE thread[c].stale
  <2>1. Goes(c, AtRest) /\ UNCHANGED <<chat, runs, received, started, orphans>>
    BY <1>2 DEF Start
  <2>2. ThreadInv(AtRest) /\ AtRest.run = thread[c].run /\ AtRest.pc \notin Asking
    BY <1>1, AtRestInv DEF Inv, AtRest, Asking
  <2> QED BY <2>1, <2>2, MovesInv
<1>3. CASE ~thread[c].stale
  <2> DEFINE row == [key |-> thread[c].key, status |-> "running", answered |-> FALSE]
  <2>1. PICK seq \in Turns :
           /\ Goes(c, [thread[c] EXCEPT !.pc = "open", !.run = seq])
           /\ seq = started + 1 /\ seq \notin Kept
           /\ runs' \in [Turns -> Run \cup {NoRun}]
           /\ runs'[seq] = row
           /\ runs'[seq] \in Run /\ runs'[seq] # NoRun
           /\ \A r \in Turns \ {seq} : runs'[r] \in {runs[r], NoRun}
           /\ Kept' = {r \in 1 .. started + 1 : r + MaxKept > started + 1}
    BY <1>3, OpenedRun
  <2> DEFINE t == [thread[c] EXCEPT !.pc = "open", !.run = seq]
  <2>2. row \in Run /\ row # NoRun
    BY <2>1
  <2>3. /\ seq = started + 1 /\ seq \notin Kept
        /\ runs' \in [Turns -> Run \cup {NoRun}]
        /\ runs'[seq] = row
        /\ \A r \in Turns \ {seq} : runs'[r] \in {runs[r], NoRun}
        /\ Kept' = {r \in 1 .. started + 1 : r + MaxKept > started + 1}
    BY <2>1
  <2>4. started' = started + 1 /\ UNCHANGED <<chat, received, orphans>>
    BY <1>3 DEF Start
  <2>5. thread' = [thread EXCEPT ![c] = t]
    BY <2>1 DEF Goes
  <2>6. t \in Thread /\ t.run = seq /\ t.pc = "open" /\ t.turn = thread[c].turn
    <3>1. seq \in 0 .. MaxTurns
      BY TurnAssumption DEF Turns
    <3> QED BY <1>1, <3>1 DEF Thread, Points
  <2> HIDE DEF t
  <2>7. thread'[c] = t /\ \A d \in Clients \ {c} : thread'[d] = thread[d]
    BY <2>5 DEF Inv, TypeOK
  <2>8. started \in 0 .. MaxTurns /\ started' \in 0 .. MaxTurns
    BY <2>3, <2>4, TurnAssumption DEF Inv, TypeOK, Turns
  <2>9. \A d \in Clients : thread[d].run \in 0 .. started
    BY <2>8, Typing, TurnAssumption DEF ThreadInv, Thread
  <2>10. TypeOK'
    BY <2>3, <2>4, <2>5, <2>6, <2>8 DEF Inv, TypeOK
  <2>11. ASSUME NEW d \in Clients PROVE ThreadInv(thread[d])'
    <3>1. CASE d = c
      BY <1>1, <2>3, <2>4, <2>6, <2>7, <2>8, <3>1, TurnAssumption DEF ThreadInv, Asking
    <3>2. CASE d # c
      BY <2>4, <2>7, <2>8, <2>9, <3>2, Typing, TurnAssumption DEF ThreadInv
    <3> QED BY <3>1, <3>2
  <2>12. Running(seq)' /\ seq \in Kept'
    BY <2>2, <2>3 DEF Running, Kept
  <2>13. ASSUME NEW r \in Kept', r # seq
         PROVE  r \in Kept /\ runs'[r] = runs[r] /\ Running(r)' = Running(r)
    BY <2>3, <2>13 DEF Kept, Running
  <2>14. RunsMatchThreads'
    <3>1. ASSUME NEW r \in Turns, Running(r)'
          PROVE  r \in orphans' \/ \E d \in Clients : thread'[d].run = r
      <4>1. CASE r = seq
        BY <2>6, <2>7, <4>1
      <4>2. CASE r # seq
        <5>1. Running(r)
          BY <2>13, <3>1, <4>2 DEF Running, Kept
        <5>2. r \in orphans \/ \E d \in Clients \ {c} : thread[d].run = r
          BY <1>1, <5>1, TurnAssumption DEF Inv, RunsMatchThreads, Turns
        <5> QED BY <2>4, <2>7, <5>2
      <4> QED BY <4>1, <4>2
    <3>2. ASSUME NEW d \in Clients, thread'[d].run \in Kept'
          PROVE  Running(thread[d].run)'
      <4>1. CASE d = c
        BY <2>6, <2>7, <2>12, <4>1
      <4>2. CASE d # c
        <5>1. thread'[d].run = thread[d].run /\ thread[d].run # seq
          BY <2>3, <2>7, <2>8, <2>9, <4>2
        <5> QED BY <2>13, <3>2, <5>1 DEF Inv, RunsMatchThreads
      <4> QED BY <4>1, <4>2
    <3>3. ASSUME NEW d \in Clients, NEW e \in Clients,
                 thread'[d].run = thread'[e].run, thread'[d].run # 0
          PROVE  d = e
      <4>1. \A f \in Clients \ {c} : thread'[f].run = thread[f].run /\ thread[f].run # seq
        BY <2>3, <2>7, <2>8, <2>9
      <4> QED BY <2>6, <2>7, <3>3, <4>1 DEF Inv, RunsMatchThreads
    <3> QED BY <3>1, <3>2, <3>3 DEF RunsMatchThreads
  <2>15. NewestRunsKept'
    BY <2>3, <2>4 DEF NewestRunsKept
  <2>16. AskedOnce'
    BY <2>6, <2>7 DEF Inv, AskedOnce, Asking
  <2>17. runs'[seq].key = thread[c].key
    BY <2>3
  <2>18. \A r \in Kept' : r # seq => Retryable(r)' = Retryable(r)
    BY <2>13 DEF Retryable
  <2>19. StartsClean'
    <3>1. ASSUME NEW d \in Clients, NEW r \in Kept', thread'[d].pc = "start",
                 runs'[r].key = thread'[d].key, thread'[d].key \in Keys \ Racing
          PROVE  Retryable(r)'
      <4>1. d # c /\ thread'[d] = thread[d]
        BY <2>6, <2>7, <3>1
      <4>2. r # seq
        BY <1>1, <2>17, <3>1, <4>1 DEF Inv, AskedOnce, Asking
      <4> QED BY <2>13, <2>18, <3>1, <4>1, <4>2 DEF Inv, StartsClean
    <3> QED BY <3>1 DEF StartsClean
  <2>20. Superseded'
    <3>1. ASSUME NEW r \in Kept', NEW k \in Kept', runs'[r].key \in Keys \ Racing,
                 runs'[k].key = runs'[r].key, k > r
          PROVE  Retryable(r)'
      <4>1. r # seq
        BY <2>3, <2>8, <3>1
      <4>2. CASE k = seq
        BY <1>1, <2>13, <2>17, <2>18, <3>1, <4>1, <4>2 DEF Inv, StartsClean
      <4>3. CASE k # seq
        BY <2>13, <2>18, <3>1, <4>1, <4>3 DEF Inv, Superseded
      <4> QED BY <4>2, <4>3
    <3> QED BY <3>1 DEF Superseded
  <2> QED BY <2>10, <2>11, <2>14, <2>15, <2>16, <2>19, <2>20 DEF Inv
<1> QED BY <1>2, <1>3

\* A thread closes its own run, which is still running, and no other.
LEMMA FinishedRun ==
    ASSUME Inv, NEW c \in Clients, Finish(c)
    PROVE  /\ runs' \in [Turns -> Run \cup {NoRun}]
           /\ Kept' = Kept
           /\ \A r \in Kept : runs'[r].key = runs[r].key
           /\ \A r \in Turns : r # thread[c].run => runs'[r] = runs[r]
           /\ \A r \in Kept : r = thread[c].run => Running(r) /\ ~Running(r)'
<1> DEFINE r == thread[c].run
           raised == thread[c].outcome = "raised"
           row == [key |-> runs[r].key, answered |-> ~raised,
                   status |-> IF raised THEN "failed" ELSE thread[c].outcome]
<1>1. runs \in [Turns -> Run \cup {NoRun}]
  BY DEF Inv, TypeOK
<1>2. thread[c].outcome \in {"completed", "failed", "raised"}
  BY Typing DEF Thread
<1>3. runs' = IF r \in Kept THEN [runs EXCEPT ![r] = row] ELSE runs
  BY DEF Finish
<1>4. CASE r \in Kept
  <2>1. runs[r] \in Run /\ r \in Turns
    BY <1>1, <1>4 DEF Kept
  <2>2. row \in Run /\ row.key = runs[r].key /\ row.status # "running"
    BY <1>2, <2>1 DEF Run
  <2>3. row # NoRun
    <3> HIDE DEF row
    <3> QED BY <2>2, RunAssumption
  <2> HIDE DEF row
  <2>4. /\ runs' \in [Turns -> Run \cup {NoRun}]
        /\ runs'[r] = row
        /\ \A k \in Turns : k # r => runs'[k] = runs[k]
    BY <1>1, <1>3, <1>4, <2>1, <2>2
  <2>5. \A k \in Kept : k = r => Running(k) /\ ~Running(k)'
    BY <1>4, <2>2, <2>4 DEF Inv, RunsMatchThreads, Running
  <2>6. Kept' = Kept /\ \A k \in Kept : runs'[k].key = runs[k].key
    BY <2>1, <2>2, <2>3, <2>4, <1>4 DEF Kept
  <2> QED BY <2>4, <2>5, <2>6
<1>5. CASE r \notin Kept
  BY <1>1, <1>3, <1>5 DEF Kept
<1> QED BY <1>4, <1>5

LEMMA FinishInv ==
    ASSUME Inv, NEW c \in Clients, Finish(c)
    PROVE  Inv'
<1>1. /\ thread'[c] = AtRest
      /\ \A d \in Clients \ {c} : thread'[d] = thread[d]
      /\ thread' \in [Clients -> Thread]
      /\ UNCHANGED <<chat, received, started, orphans>>
  BY AtRestInv DEF Finish, Goes, Inv, TypeOK, ThreadInv
<1>2. AtRest.run = 0 /\ AtRest.pc = "idle" /\ ThreadInv(AtRest)
  BY AtRestInv DEF Inv, AtRest
<1>3. TypeOK'
  BY <1>1, FinishedRun DEF Inv, TypeOK
<1>4. \A d \in Clients : ThreadInv(thread[d])'
  BY <1>1, <1>2, Typing DEF ThreadInv
<1>5. \A r \in Turns : r # thread[c].run =>
         Running(r)' = Running(r) /\ (r \in Kept => Retryable(r)' = Retryable(r))
  BY FinishedRun DEF Running, Retryable
<1>6. \A r \in Turns : r = thread[c].run => ~Running(r)'
  BY FinishedRun DEF Running, Kept
<1>7. RunsMatchThreads'
  <2>1. ASSUME NEW r \in Turns, Running(r)'
        PROVE  r \in orphans' \/ \E d \in Clients : thread'[d].run = r
    <3>1. r # thread[c].run /\ Running(r)
      BY <1>5, <1>6, <2>1
    <3> QED BY <1>1, <3>1 DEF Inv, RunsMatchThreads
  <2>2. ASSUME NEW d \in Clients, thread'[d].run \in Kept'
        PROVE  Running(thread[d].run)'
    <3>1. thread'[d].run \in Turns /\ d # c /\ thread'[d].run = thread[d].run
          /\ thread[d].run \in Kept /\ thread[d].run # 0
      BY <1>1, <1>2, <2>2, FinishedRun DEF Kept, Turns
    <3>2. thread[d].run # thread[c].run
      BY <3>1 DEF Inv, RunsMatchThreads
    <3>3. Running(thread[d].run)
      BY <3>1 DEF Inv, RunsMatchThreads
    <3>4. runs'[thread[d].run] = runs[thread[d].run]
      BY <3>1, <3>2, FinishedRun
    <3> QED BY <3>1, <3>3, <3>4 DEF Running
  <2>3. ASSUME NEW d \in Clients, NEW e \in Clients,
               thread'[d].run = thread'[e].run, thread'[d].run # 0
        PROVE  d = e
    BY <1>1, <1>2, <2>3 DEF Inv, RunsMatchThreads
  <2> QED BY <2>1, <2>2, <2>3 DEF RunsMatchThreads
<1>8. NewestRunsKept'
  BY <1>1, FinishedRun DEF Inv, NewestRunsKept
<1>9. AskedOnce'
  BY <1>1, <1>2 DEF Inv, AskedOnce, Asking
\* The run that is closed was running, so it is not one that others rely on.
<1>10. \A r \in Kept : Retryable(r) => r # thread[c].run
  BY FinishedRun DEF Retryable
<1>11. StartsClean'
  BY <1>1, <1>2, <1>5, <1>10, FinishedRun DEF Inv, StartsClean, Kept
<1>12. Superseded'
  BY <1>5, <1>10, FinishedRun DEF Inv, Superseded, Kept
<1> QED BY <1>3, <1>4, <1>7, <1>8, <1>9, <1>11, <1>12 DEF Inv

\* A restart closes running runs, and changes no other.
LEMMA ReapedRuns ==
    ASSUME Inv, NEW old \in 0 .. MaxTurns, Restart(old)
    PROVE  /\ runs' \in [Turns -> Run \cup {NoRun}]
           /\ Kept' = Kept
           /\ \A r \in Kept : /\ runs'[r].key = runs[r].key
                              /\ runs'[r].answered = runs[r].answered
           /\ \A r \in Turns : Running(r)' <=> Running(r) /\ ~Reaped(r, old)
           /\ \A r \in Turns : ~Running(r) => runs'[r] = runs[r]
<1>1. ASSUME NEW r \in Turns
      PROVE  /\ runs'[r] \in Run \cup {NoRun}
             /\ runs'[r] = NoRun <=> runs[r] = NoRun
             /\ runs[r] # NoRun => /\ runs'[r].key = runs[r].key
                                  /\ runs'[r].answered = runs[r].answered
             /\ Running(r)' <=> Running(r) /\ ~Reaped(r, old)
             /\ ~Running(r) => runs'[r] = runs[r]
  <2> DEFINE row == [key |-> runs[r].key, status |-> "failed", answered |-> runs[r].answered]
  <2>1. runs[r] \in Run \cup {NoRun}
    BY DEF Inv, TypeOK
  <2>2. CASE Reaped(r, old)
    <3>1. runs'[r] = row
      BY <2>2 DEF Restart
    <3>2. runs[r] \in Run /\ Running(r)
      BY <2>1, <2>2 DEF Reaped, Running
    <3>3. row \in Run /\ row.key = runs[r].key /\ row.answered = runs[r].answered
          /\ row.status # "running"
      BY <3>2 DEF Run
    <3> HIDE DEF row
    <3>4. row # NoRun /\ runs[r] # NoRun
      BY <3>2, <3>3, RunAssumption
    <3> QED BY <2>2, <3>1, <3>2, <3>3, <3>4 DEF Running
  <2>3. CASE ~Reaped(r, old)
    <3>1. runs'[r] = runs[r]
      BY <2>3 DEF Restart
    <3> QED BY <2>1, <2>3, <3>1 DEF Running
  <2> QED BY <2>2, <2>3
<1>2. runs' \in [Turns -> Run \cup {NoRun}]
  <2>1. runs' = [r \in Turns |-> runs'[r]]
    BY DEF Restart
  <2> QED BY <1>1, <2>1
<1> QED BY <1>1, <1>2 DEF Kept

LEMMA RestartInv ==
    ASSUME Inv, NEW old \in 0 .. MaxTurns, Restart(old)
    PROVE  Inv'
<1>1. /\ \A d \in Clients : thread'[d] = AtRest
      /\ thread' \in [Clients -> Thread]
      /\ UNCHANGED <<chat, received, started>>
  BY AtRestInv DEF Restart, Inv, ThreadInv
<1>2. AtRest.run = 0 /\ AtRest.pc = "idle" /\ ThreadInv(AtRest)
  BY AtRestInv DEF Inv, AtRest
<1>3. orphans' = {r \in Kept : Running(r) /\ ~Reaped(r, old)}
  BY DEF Restart
<1>4. TypeOK'
  BY <1>1, <1>3, ReapedRuns DEF Inv, TypeOK, Kept
<1>5. \A d \in Clients : ThreadInv(thread[d])'
  BY <1>1, <1>2 DEF ThreadInv
<1>6. RunsMatchThreads'
  <2>1. \A r \in Turns : Running(r)' => r \in orphans'
    BY <1>3, ReapedRuns DEF Running, Kept
  <2>2. 0 \notin Kept'
    BY DEF Kept, Turns
  <2> QED BY <1>1, <1>2, <2>1, <2>2 DEF RunsMatchThreads
<1>7. NewestRunsKept'
  BY <1>1, ReapedRuns DEF Inv, NewestRunsKept
<1>8. AskedOnce' /\ StartsClean'
  BY <1>1, <1>2 DEF AskedOnce, StartsClean, Asking
<1>9. Superseded'
  BY ReapedRuns DEF Inv, Superseded, Retryable, Kept
<1> QED BY <1>4, <1>5, <1>6, <1>7, <1>8, <1>9 DEF Inv

--------------------------------------------------------------------------------
(* The invariant holds *)

LEMMA InitInv ==
    ASSUME Init
    PROVE  Inv
<1>1. /\ chat = <<>> /\ received = 0 /\ started = 0 /\ orphans = {}
      /\ runs = [r \in Turns |-> NoRun]
      /\ thread = [c \in Clients |-> AtRest]
  BY DEF Init
<1>2. AtRest \in Thread /\ AtRest.run = 0 /\ AtRest.pc = "idle"
  BY TurnAssumption DEF AtRest, Thread, Points
<1>3. Kept = {} /\ \A r \in Turns : ~Running(r)
  BY <1>1 DEF Kept, Running
<1>4. TypeOK
  BY <1>1, <1>2, TurnAssumption DEF TypeOK
<1>5. \A c \in Clients : ThreadInv(thread[c])
  BY <1>1, <1>2, TurnAssumption DEF ThreadInv
<1>6. RunsMatchThreads
  BY <1>1, <1>2, <1>3 DEF RunsMatchThreads
<1>7. NewestRunsKept
  BY <1>1, <1>3 DEF NewestRunsKept
<1>8. AskedOnce /\ StartsClean /\ Superseded
  BY <1>1, <1>2, <1>3 DEF AskedOnce, StartsClean, Superseded, Asking
<1> QED BY <1>4, <1>5, <1>6, <1>7, <1>8 DEF Inv

\* A step that changes nothing.
LEMMA OtherStepInv ==
    ASSUME Inv, UNCHANGED vars
    PROVE  Inv'
BY DEF vars, Inv, TypeOK, ThreadInv, RunsMatchThreads, NewestRunsKept, AskedOnce,
       StartsClean, Superseded, Retryable, Running, Kept

LEMMA HostStepInv ==
    ASSUME Inv, NEW c \in Clients, HostStep(c)
    PROVE  Inv'
<1>1. CASE Lookup(c)
  BY <1>1, LookupInv
<1>2. CASE Start(c)
  BY <1>2, StartInv
<1>3. CASE NoModel(c)
  BY <1>3, NoModelInv
<1>4. CASE Open(c)
  BY <1>4, OpenInv
<1>5. CASE ClaimRead(c)
  BY <1>5, ClaimReadInv
<1>6. CASE Claim(c)
  BY <1>6, ClaimInv
<1>7. CASE OutOfBudget(c)
  BY <1>7, EndsInv
<1>8. CASE RunTool(c)
  BY <1>8, RunToolInv
<1>9. CASE CommitTool(c)
  BY <1>9, CommitToolInv
<1>10. CASE EndRead(c)
  BY <1>10, EndReadInv
<1>11. CASE End(c)
  BY <1>11, EndInv
<1>12. CASE Finish(c)
  BY <1>12, FinishInv
<1> QED BY <1>1, <1>2, <1>3, <1>4, <1>5, <1>6, <1>7, <1>8, <1>9, <1>10, <1>11, <1>12
        DEF HostStep

LEMMA NextInv ==
    ASSUME Inv, [Next]_vars
    PROVE  Inv'
<1>1. ASSUME NEW c \in Clients, NEW key \in Keys \cup {NoKey}, NEW wants \in BOOLEAN,
             NEW stale \in BOOLEAN, Receive(c, key, wants, stale)
      PROVE  Inv'
  BY <1>1, ReceiveInv
<1>2. ASSUME NEW c \in Clients, NEW wants \in BOOLEAN, ReceiveLoop(c, wants)
      PROVE  Inv'
  BY <1>2, ReceiveLoopInv
<1>3. ASSUME NEW c \in Clients, HostStep(c) PROVE Inv'
  BY <1>3, HostStepInv
<1>4. ASSUME NEW c \in Clients, Expire(c) PROVE Inv'
  BY <1>4, ExpireInv
<1>5. ASSUME NEW c \in Clients, ModelAnswers(c) PROVE Inv'
  BY <1>5, ModelAnswersInv
<1>6. ASSUME NEW c \in Clients, ModelFails(c) PROVE Inv'
  BY <1>6, EndsInv
<1>7. CASE OtherWrite
  BY <1>7, OtherWriteInv
<1>8. ASSUME NEW old \in 0 .. MaxTurns, Restart(old) PROVE Inv'
  BY <1>8, RestartInv
<1>9. CASE UNCHANGED vars
  BY <1>9, OtherStepInv
<1> QED BY <1>1, <1>2, <1>3, <1>4, <1>5, <1>6, <1>7, <1>8, <1>9 DEF Next

\* The inductive invariant: the types, what every thread may rely on, and what
\* the run table owes to threads, to polls and to retries.
THEOREM Invariance == Spec => []Inv
<1>1. Init => Inv
  BY InitInv
<1>2. Inv /\ [Next]_vars => Inv'
  BY NextInv
<1> QED BY <1>1, <1>2, PTL DEF Spec

--------------------------------------------------------------------------------
(* What follows from it *)

\* The session, the run table and the threads keep their types.
THEOREM TypeCorrect == Spec => []TypeOK
<1>1. Inv => TypeOK
  BY DEF Inv
<1> QED BY <1>1, Invariance, PTL

\* A running run has the one thread that works on it, or was cut off by a
\* restart; nobody closes a run under its thread.
THEOREM RunsMatch == Spec => []RunsMatchThreads
<1>1. Inv => RunsMatchThreads
  BY DEF Inv
<1> QED BY <1>1, Invariance, PTL

\* Pruning keeps the newest runs, and nothing but pruning deletes one.
THEOREM NewestKept == Spec => []NewestRunsKept
<1>1. Inv => NewestRunsKept
  BY DEF Inv
<1> QED BY <1>1, Invariance, PTL

\* A request id that has an answer starts no second turn.
THEOREM NoRerun == Spec => []AnsweredNotRerun
<1>1. Inv => AnsweredNotRerun
  BY DEF Inv, Superseded, Retryable, AnsweredNotRerun
<1> QED BY <1>1, Invariance, PTL

\* No step rewrites a closed run: a new one takes a number of its own, a thread
\* closes the run that it holds, and a restart closes runs that are running.
THEOREM ClosedStay == Spec => ClosedRunsStay
<1> DEFINE Stays == \A r \in Turns :
                       r \in Kept /\ ~Running(r) => runs'[r] \in {runs[r], NoRun}
<1>1. ASSUME Inv, [Next]_vars PROVE Stays
  <2>1. CASE UNCHANGED runs
    BY <2>1
  <2>2. ASSUME NEW c \in Clients, Start(c) PROVE Stays
    <3>1. CASE thread[c].stale
      BY <2>2, <3>1 DEF Start
    <3>2. CASE ~thread[c].stale
      BY <1>1, <2>2, <3>2, OpenedRun
    <3> QED BY <3>1, <3>2
  <2>3. ASSUME NEW c \in Clients, Finish(c) PROVE Stays
    BY <1>1, <2>3, FinishedRun
  <2>4. ASSUME NEW old \in 0 .. MaxTurns, Restart(old) PROVE Stays
    BY <1>1, <2>4, ReapedRuns
  <2> HIDE DEF Stays
  <2>5. \/ UNCHANGED runs
        \/ \E c \in Clients : Start(c) \/ Finish(c)
        \/ \E old \in 0 .. MaxTurns : Restart(old)
    BY <1>1 DEF Next, HostStep, Receive, ReceiveLoop, Lookup, NoModel, Open, ClaimRead,
                Claim, OutOfBudget, RunTool, CommitTool, EndRead, End, Expire,
                ModelAnswers, ModelFails, OtherWrite, vars
  <2> QED BY <2>1, <2>2, <2>3, <2>4, <2>5
<1> QED BY <1>1, Invariance, PTL DEF Spec, ClosedRunsStay

\* A thread moves on its own, unless the process restarts.
LEMMA OthersWait ==
    ASSUME Inv, Next, NEW c \in Clients, thread'[c].pc # thread[c].pc,
           thread'[c].pc # "idle"
    PROVE  \/ \E key \in Keys \cup {NoKey}, wants \in BOOLEAN, stale \in BOOLEAN :
                  Receive(c, key, wants, stale)
           \/ \E wants \in BOOLEAN : ReceiveLoop(c, wants)
           \/ HostStep(c) \/ Expire(c) \/ ModelAnswers(c) \/ ModelFails(c)
<1>1. ASSUME NEW d \in Clients, NEW t, Goes(d, t) \/ Writes(d, t) PROVE d = c
  BY <1>1, Typing, ForgetsFields DEF Goes, Writes, Forgets, Inv, TypeOK
<1>2. ~OtherWrite
  BY Typing, ForgetsFields DEF OtherWrite, Forgets
<1>3. \A old \in 0 .. MaxTurns : ~Restart(old)
  BY DEF Restart, AtRest
<1>4. ASSUME NEW d \in Clients, NEW messages, NEW next, Commit(d, messages, next)
      PROVE  d = c
  BY <1>1, <1>4 DEF Commit
<1>5. ASSUME NEW d \in Clients,
             \/ \E key \in Keys \cup {NoKey}, wants \in BOOLEAN, stale \in BOOLEAN :
                    Receive(d, key, wants, stale)
             \/ \E wants \in BOOLEAN : ReceiveLoop(d, wants)
      PROVE  d = c
  BY <1>1, <1>5 DEF Receive, ReceiveLoop
<1>6. ASSUME NEW d \in Clients, HostStep(d) PROVE d = c
  <2>1. CASE Lookup(d) \/ Start(d)
    BY <1>1, <2>1 DEF Lookup, Start
  <2>2. CASE NoModel(d) \/ Open(d) \/ ClaimRead(d) \/ OutOfBudget(d)
    BY <1>1, <2>2 DEF NoModel, Open, ClaimRead, OutOfBudget
  <2>3. CASE RunTool(d) \/ EndRead(d) \/ Finish(d)
    BY <1>1, <2>3 DEF RunTool, EndRead, Finish
  <2>4. CASE Claim(d) \/ End(d)
    BY <1>4, <2>4 DEF Claim, End
  <2>5. CASE CommitTool(d)
    BY <1>1, <1>4, <2>5 DEF CommitTool
  <2> QED BY <1>6, <2>1, <2>2, <2>3, <2>4, <2>5 DEF HostStep
<1>7. ASSUME NEW d \in Clients, Expire(d) \/ ModelAnswers(d) \/ ModelFails(d)
      PROVE  d = c
  BY <1>1, <1>7 DEF Expire, ModelAnswers, ModelFails
<1> QED BY <1>2, <1>3, <1>5, <1>6, <1>7 DEF Next

\* A turn that names a revision stores its message behind the newest messages of
\* the session's chat, as many as are kept: its copy of the chat was read at that
\* revision, or its claim fails.
THEOREM ClaimKeeps == Spec => ClaimDoesNotRebase
<1> DEFINE Keeps(c) == At(c, "claim") /\ thread[c].wants /\ thread'[c].pc = "model" =>
                          chat' = Append(Recent(chat), Said(thread[c].turn, "user"))
<1>1. ASSUME Inv, [Next]_vars, NEW c \in Clients PROVE Keeps(c)
  <2> SUFFICES ASSUME At(c, "claim"), thread[c].wants, thread'[c].pc = "model"
               PROVE  chat' = Append(Recent(chat), Said(thread[c].turn, "user"))
    OBVIOUS
  <2>1. ThreadInv(thread[c]) /\ thread[c] \in Thread /\ thread[c].pc = "claim"
    BY <1>1 DEF Inv, ThreadInv, At
  <2>2. Claim(c)
    <3>1. Next
      BY <1>1, <2>1 DEF vars
    <3>2. HostStep(c) \/ Expire(c) \/ ModelAnswers(c) \/ ModelFails(c)
      BY <1>1, <2>1, <3>1, OthersWait DEF Receive, ReceiveLoop, At
    <3> QED BY <2>1, <3>2 DEF HostStep, At, Lookup, Start, NoModel, Open, ClaimRead,
                OutOfBudget, RunTool, CommitTool, EndRead, End, Finish, Expire,
                ModelAnswers, ModelFails
  <2>3. Raised(c).pc # "model"
    BY DEF Raised, Closing, AtRest
  <2>4. \/ thread'[c] = Raised(c)
        \/ thread[c].fresh /\ chat' = thread[c].copy
    <3> HIDE DEF Keeps
    <3>1. thread \in [Clients -> Thread]
      BY <1>1 DEF Inv, TypeOK
    <3>2. CASE thread[c].fresh
      BY <2>2, <3>2 DEF Claim, Commit
    <3>3. CASE ~thread[c].fresh
      BY <2>2, <3>1, <3>3 DEF Claim, Commit, Goes
    <3> QED BY <3>2, <3>3
  <2>5. thread[c].fresh /\ chat' = thread[c].copy
    BY <2>3, <2>4
  <2> QED BY <2>1, <2>5 DEF ThreadInv
<1>2. Inv /\ [Next]_vars => \A c \in Clients : Keeps(c)
  BY <1>1
<1> QED BY <1>2, Invariance, PTL DEF Spec, ClaimDoesNotRebase

================================================================================
