------------------------------- MODULE DesignTurn -------------------------------
(***************************************************************************)
(* Design turns and the runs that record them.                             *)
(*                                                                         *)
(* A turn is one POST /messages (or POST /agent/loop with a design id): it *)
(* claims the session with the user's message, lets a model choose one     *)
(* tool after another within a budget, and writes the chat back when it    *)
(* ends.  POST /messages opens a durable run first and closes it with the  *)
(* answer, so that a client polls the run, and a retry with the same       *)
(* request id gets the stored answer instead of a second turn.             *)
(*                                                                         *)
(* The module follows one design session.  A thread performs one store     *)
(* operation, or one call of the model, per step.  What the tools do to    *)
(* the rules is DesignLifecycle; here a write of a tool, or of any other   *)
(* request, is a new revision.  A message of the chat is its turn and its  *)
(* role: texts, which are cut to 4000 characters, are left out, and none   *)
(* of them is blank.                                                       *)
(*                                                                         *)
(* A revision only grows and is only ever compared with the session's.  Of *)
(* a revision that a thread commits at, the module therefore keeps whether *)
(* it still is the session's (`fresh`): every write of the session ends    *)
(* that for all the other threads.                                         *)
(***************************************************************************)
EXTENDS Integers, FiniteSets, Sequences

CONSTANTS
    Clients,       \* the server threads that may serve a turn at the same time
    Keys,          \* the request ids clients choose
    Racing,        \* those of them that a client may send again before its
                   \* first request has opened a run
    NoKey,         \* a turn without a request id
    NoRun,         \* a row of the run table that is not there
    MaxKept,       \* MAX_RUNS_PER_SESSION
    MaxDecisions,  \* the budget of a turn: answers of the model
    MaxRepairs,    \* the budget of a turn: answers that did not help
    HistoryLimit,  \* the messages of the prior chat that a turn keeps
    MaxTurns       \* bound: the turns that are ever requested

Turns == 1 .. MaxTurns

ASSUME TurnAssumption ==
    /\ MaxKept \in Nat \ {0}
    /\ MaxDecisions \in Nat \ {0}
    /\ MaxRepairs \in Nat
    /\ HistoryLimit \in Nat \ {0}
    /\ MaxTurns \in Nat \ {0}
    /\ Racing \subseteq Keys
    /\ NoKey \notin Keys

\* A run: its request id, its status, and whether the response is stored.
Run == [key : Keys \cup {NoKey},
        status : {"running", "completed", "failed"},
        answered : BOOLEAN]

ASSUME RunAssumption == NoRun \notin Run

\* A message of the chat: what the user said in a turn, or the answer to it.
Message == [turn : Turns, role : {"user", "assistant"}]

VARIABLES
    chat,      \* the chat of the design session, oldest message first
    runs,      \* the run table, by sequence number
    thread,    \* the turn each thread is in the middle of
    received,  \* the turns requested so far
    started,   \* history: the runs opened so far
    orphans    \* history: the runs whose thread a restart has ended

vars == <<chat, runs, thread, received, started, orphans>>

\* The program points: the operation the thread performs next.
Points == {"idle", "lookup", "start", "open", "claim_read", "claim", "model",
           "tool", "tool_commit", "end_read", "end", "finish"}

Thread ==
    [pc        : Points,
     turn      : 0 .. MaxTurns,            \* 0: none
     key       : Keys \cup {NoKey},
     wants     : BOOLEAN,                  \* the client names expected_revision
     stale     : BOOLEAN,                  \* it was stale on arrival
     run       : 0 .. MaxTurns,            \* the run it holds, 0: none
     fresh     : BOOLEAN,                  \* the revision it commits at still
                                           \* is the session's
     copy      : Seq(Message),             \* its own copy of the chat
     decisions : 0 .. MaxDecisions,
     repairs   : 0 .. MaxRepairs,
     late      : BOOLEAN,                  \* max_seconds have passed
     outcome   : {"completed", "failed", "raised"}]

AtRest ==
    [pc |-> "idle", turn |-> 0, key |-> NoKey, wants |-> FALSE, stale |-> FALSE,
     run |-> 0, fresh |-> FALSE, copy |-> <<>>, decisions |-> 0, repairs |-> 0,
     late |-> FALSE, outcome |-> "failed"]

Init ==
    /\ chat = <<>>
    /\ runs = [r \in Turns |-> NoRun]
    /\ thread = [c \in Clients |-> AtRest]
    /\ received = 0
    /\ started = 0
    /\ orphans = {}

Goes(c, t) == thread' = [thread EXCEPT ![c] = t]

At(c, pc) == thread[c].pc = pc

--------------------------------------------------------------------------------
(* The run table *)

Kept == {r \in Turns : runs[r] # NoRun}

Running(r) == runs[r] # NoRun /\ runs[r].status = "running"

\* _next_seq: one more than the highest number in the table.
IsNextSeq(seq) ==
    /\ \A r \in Kept : r < seq
    /\ seq = 1 \/ seq - 1 \in Kept

\* Mutant of Newer: the rows come in ascending order.
Older(table, r) == {k \in Turns : table[k] # NoRun /\ k < r}

Newer(table, r) == {k \in Turns : table[k] # NoRun /\ k > r}

\* _prune: what is beyond the newest MaxKept runs is deleted.
Prune(table) ==
    [r \in Turns |-> IF Cardinality(Newer(table, r)) < MaxKept THEN table[r] ELSE NoRun]

\* Mutant of NewestWith: the scan starts with the oldest run.
OldestWith(key, r) ==
    /\ r \in Kept /\ runs[r].key = key
    /\ \A k \in Kept : runs[k].key = key => r <= k

\* find_by_request returns r for this request id.
NewestWith(key, r) ==
    /\ r \in Kept /\ runs[r].key = key
    /\ \A k \in Kept : runs[k].key = key => k <= r

--------------------------------------------------------------------------------
(* The request arrives *)

\* What a thread carries for a turn that has just arrived.
Arrived(pc, key, wants, stale) ==
    [pc |-> pc, turn |-> received + 1, key |-> key, wants |-> wants, stale |-> stale,
     run |-> 0, fresh |-> wants /\ ~stale, copy |-> <<>>, decisions |-> 0, repairs |-> 0,
     late |-> FALSE, outcome |-> "failed"]

\* The session is read, and the client names a revision it has seen (the current
\* one, unless it is stale), or none.
\* A client repeats a request id whenever it likes, but unless the id is in
\* Racing, not before the earlier request has opened its run.
Receive(c, key, wants, stale) ==
    /\ At(c, "idle")
    /\ received < MaxTurns
    /\ stale => wants
    /\ key \in Keys \ Racing =>
           \A d \in Clients : thread[d].key = key => thread[d].pc \notin {"lookup", "start"}
    /\ received' = received + 1
    /\ Goes(c, Arrived(IF key = NoKey THEN "start" ELSE "lookup", key, wants, stale))
    /\ UNCHANGED <<chat, runs, started, orphans>>

\* POST /agent/loop with a design id: a turn that no run records.
ReceiveLoop(c, wants) ==
    /\ At(c, "idle")
    /\ received < MaxTurns
    /\ received' = received + 1
    /\ Goes(c, Arrived("open", NoKey, wants, FALSE))
    /\ UNCHANGED <<chat, runs, started, orphans>>

\* The newest run with this request id is running, or has the stored response.
Settled(key) ==
    \E r \in Turns : NewestWith(key, r) /\ (Running(r) \/ runs[r].answered)

\* The request id decides before the revision does: a running run refuses the
\* request and a stored answer is replayed.
Lookup(c) ==
    /\ At(c, "lookup")
    /\ \/ Settled(thread[c].key) /\ Goes(c, AtRest)
       \/ ~Settled(thread[c].key) /\ Goes(c, [thread[c] EXCEPT !.pc = "start"])
    /\ UNCHANGED <<chat, runs, received, started, orphans>>

\* The run is opened before the model is asked anything.
Start(c) ==
    /\ At(c, "start")
    /\ IF thread[c].stale
       THEN Goes(c, AtRest) /\ UNCHANGED <<runs, started>>
       ELSE LET row == [key |-> thread[c].key, status |-> "running", answered |-> FALSE]
            IN  /\ \E seq \in Turns :
                     /\ IsNextSeq(seq)
                     /\ runs' = Prune([runs EXCEPT ![seq] = row])
                     /\ Goes(c, [thread[c] EXCEPT !.pc = "open", !.run = seq])
                /\ started' = started + 1
    /\ UNCHANGED <<chat, received, orphans>>

--------------------------------------------------------------------------------
(* The turn *)

\* clean_history: the last messages, in their order.
Recent(messages) ==
    IF Len(messages) <= HistoryLimit THEN messages
    ELSE SubSeq(messages, Len(messages) - HistoryLimit + 1, Len(messages))

Said(turn, role) == [turn |-> turn, role |-> role]

\* The loop is over; what only the loop uses is forgotten.  A turn that completes
\* adds its answer to the thread's copy of the chat.
Ended(t, outcome) ==
    [pc |-> "end_read", turn |-> t.turn, key |-> NoKey, wants |-> FALSE,
     stale |-> FALSE, run |-> t.run, fresh |-> FALSE,
     copy |-> IF outcome = "completed" THEN Append(t.copy, Said(t.turn, "assistant"))
              ELSE t.copy,
     decisions |-> 0, repairs |-> 0, late |-> FALSE, outcome |-> outcome]

\* The turn is over: only its run, if it has one, is still to be closed.
Closing(t, outcome) ==
    IF t.run = 0 THEN AtRest
    ELSE [AtRest EXCEPT !.pc = "finish", !.run = t.run, !.outcome = outcome]

\* Mutant of Raised: the exception is not caught, and the run is not closed.
RaisedUncaught(c) == AtRest

\* An exception ends the turn.
Raised(c) == Closing(thread[c], "raised")

\* The model is not configured.
NoModel(c) ==
    /\ At(c, "open")
    /\ Goes(c, Raised(c))
    /\ UNCHANGED <<chat, runs, received, started, orphans>>

\* The turn's clock starts, and the chat is read: the thread's copy is what is
\* kept of it and the message of the user.
Open(c) ==
    /\ At(c, "open")
    /\ Goes(c, [thread[c] EXCEPT !.pc = "claim_read",
                                 !.copy = Append(Recent(chat), Said(thread[c].turn, "user"))])
    /\ UNCHANGED <<chat, runs, received, started, orphans>>

\* Mutant of ClaimRevision: the turn rebases onto the state it finds.
ClaimLatest(c) == TRUE

\* The claim is made at the client's revision, or else at the one just read.
ClaimRevision(c) == IF thread[c].wants THEN thread[c].fresh ELSE TRUE

ClaimRead(c) ==
    /\ At(c, "claim_read")
    /\ Goes(c, [thread[c] EXCEPT !.pc = "claim", !.fresh = ClaimRevision(c)])
    /\ UNCHANGED <<chat, runs, received, started, orphans>>

\* Thread c has written the session and goes on as t; what any other thread has
\* read of it, or was told by its client, is stale.
Writes(c, t) ==
    thread' = [d \in Clients |-> IF d = c THEN t ELSE [thread[d] EXCEPT !.fresh = FALSE]]

\* DesignStore.commit at the thread's revision: a stale one raises and changes
\* nothing.
Commit(c, messages, next) ==
    IF thread[c].fresh
    THEN chat' = messages /\ Writes(c, [next EXCEPT !.fresh = FALSE])
    ELSE Goes(c, Raised(c)) /\ UNCHANGED chat

Claim(c) ==
    /\ At(c, "claim")
    /\ Commit(c, thread[c].copy, [thread[c] EXCEPT !.pc = "model", !.wants = FALSE])
    /\ UNCHANGED <<runs, received, started, orphans>>

\* max_seconds pass.  The clock runs since Open, and only the loop looks at it.
Expire(c) ==
    /\ thread[c].pc \in {"model", "tool", "tool_commit"}
    /\ ~thread[c].late
    /\ Goes(c, [thread[c] EXCEPT !.late = TRUE])
    /\ UNCHANGED <<chat, runs, received, started, orphans>>

\* Mutant of MayAsk: the loop runs once too often.
MayAskOnceMore(t) == t.decisions <= MaxDecisions

\* The budget leaves the model another decision.
MayAsk(t) == t.decisions < MaxDecisions

\* Mutant of OutOfBudget: no deadline on the call of the model.
OutOfDecisions(c) ==
    /\ At(c, "model")
    /\ ~MayAsk(thread[c])
    /\ Goes(c, Ended(thread[c], "failed"))
    /\ UNCHANGED <<chat, runs, received, started, orphans>>

\* The decisions are used up, or the deadline has passed; an answer that the
\* model gives after the deadline is never looked at.
OutOfBudget(c) ==
    /\ At(c, "model")
    /\ thread[c].late \/ ~MayAsk(thread[c])
    /\ Goes(c, Ended(thread[c], "failed"))
    /\ UNCHANGED <<chat, runs, received, started, orphans>>

\* The host is at the head of the loop again, where the tokens may be used up.
NextDecision(t) ==
    {[t EXCEPT !.pc = "model"], Ended(t, "failed")}

\* The last answer did not help: a repair, or the end of the turn after too many.
Repair(t) ==
    LET used == [t EXCEPT !.repairs = @ + 1]
    IN  IF used.repairs > MaxRepairs
        THEN {Ended(used, "failed")}
        ELSE NextDecision(used)

\* The model answers in time: with a tool to call, or with nothing of use.
ModelAnswers(c) ==
    /\ At(c, "model")
    /\ ~thread[c].late
    /\ MayAsk(thread[c])
    /\ LET t == [thread[c] EXCEPT !.decisions = @ + 1]
       IN  \E next \in {[t EXCEPT !.pc = "tool"]} \cup Repair(t) : Goes(c, next)
    /\ UNCHANGED <<chat, runs, received, started, orphans>>

\* The transport or the credential of the model fails.
ModelFails(c) ==
    /\ At(c, "model")
    /\ ~thread[c].late
    /\ MayAsk(thread[c])
    /\ Goes(c, Ended(thread[c], "failed"))
    /\ UNCHANGED <<chat, runs, received, started, orphans>>

\* A tool that has been dispatched reads the session.  It is about to write it
\* back, or it is done: it helped, it did not, or it crashed.  After the
\* deadline no tool is dispatched, and nothing follows one that ran past it.
RunTool(c) ==
    /\ At(c, "tool")
    /\ IF thread[c].late
       THEN Goes(c, Ended(thread[c], "failed"))
       ELSE \E next \in {[thread[c] EXCEPT !.pc = "tool_commit", !.fresh = TRUE],
                         Ended(thread[c], "failed")}
                        \cup NextDecision(thread[c]) \cup Repair(thread[c]) :
                Goes(c, next)
    /\ UNCHANGED <<chat, runs, received, started, orphans>>

\* The tool's write.  A question, an `unsupported` and a finalize complete the
\* turn.  A stale write ends it as a conflict, which the model cannot repair.
CommitTool(c) ==
    /\ At(c, "tool_commit")
    /\ IF thread[c].late
       THEN LET t == Ended(thread[c], "failed")
            IN  (IF thread[c].fresh THEN Writes(c, t) ELSE Goes(c, t)) /\ UNCHANGED chat
       ELSE \E next \in {Ended(thread[c], "completed")}
                        \cup NextDecision(thread[c]) \cup Repair(thread[c]) :
                Commit(c, chat, next)
    /\ UNCHANGED <<runs, received, started, orphans>>

EndRead(c) ==
    /\ At(c, "end_read")
    /\ Goes(c, [thread[c] EXCEPT !.pc = "end", !.fresh = TRUE])
    /\ UNCHANGED <<chat, runs, received, started, orphans>>

\* turn_end: the thread's copy of the chat replaces the session's.
End(c) ==
    /\ At(c, "end")
    /\ Commit(c, thread[c].copy, Closing(thread[c], thread[c].outcome))
    /\ UNCHANGED <<runs, received, started, orphans>>

\* The run is closed, with the answer if the turn has one.  A run that newer ones
\* have pruned is not found, and the client gets a 404.
Finish(c) ==
    LET r == thread[c].run
        raised == thread[c].outcome = "raised"
    IN  /\ At(c, "finish")
        /\ runs' = IF r \in Kept
                   THEN [runs EXCEPT ![r] =
                           [key |-> runs[r].key, answered |-> ~raised,
                            status |-> IF raised THEN "failed" ELSE thread[c].outcome]]
                   ELSE runs
        /\ Goes(c, AtRest)
        /\ UNCHANGED <<chat, received, started, orphans>>

--------------------------------------------------------------------------------
(* The rest of the world *)

\* Another request writes the session, and leaves its chat alone.
OtherWrite ==
    /\ thread' = [d \in Clients |-> [thread[d] EXCEPT !.fresh = FALSE]]
    /\ UNCHANGED <<chat, runs, received, started, orphans>>

\* Mutant of Reaped: the status is not looked at.
ReapedOld(r, old) == runs[r] # NoRun /\ r <= old

\* recover_stale closes the running runs that were started long ago.
Reaped(r, old) == Running(r) /\ r <= old

\* The process stops and starts again.  Runs up to `old` were started more than
\* DEFAULT_RUN_STALE_SECONDS ago.
Restart(old) ==
    /\ runs' = [r \in Turns |->
                   IF Reaped(r, old)
                   THEN [key |-> runs[r].key, status |-> "failed",
                         answered |-> runs[r].answered]
                   ELSE runs[r]]
    /\ orphans' = {r \in Kept : Running(r) /\ ~Reaped(r, old)}
    /\ thread' = [c \in Clients |-> AtRest]
    /\ UNCHANGED <<chat, received, started>>

\* What a thread does on its own, without an answer of the model.
HostStep(c) ==
    \/ Lookup(c)
    \/ Start(c)
    \/ NoModel(c)
    \/ Open(c)
    \/ ClaimRead(c)
    \/ Claim(c)
    \/ OutOfBudget(c)
    \/ RunTool(c)
    \/ CommitTool(c)
    \/ EndRead(c)
    \/ End(c)
    \/ Finish(c)

Next ==
    \/ \E c \in Clients, wants \in BOOLEAN :
          \/ \E key \in Keys \cup {NoKey}, stale \in BOOLEAN : Receive(c, key, wants, stale)
          \/ ReceiveLoop(c, wants)
    \/ \E c \in Clients :
          HostStep(c) \/ Expire(c) \/ ModelAnswers(c) \/ ModelFails(c)
    \/ OtherWrite
    \/ \E old \in 0 .. MaxTurns : Restart(old)

Spec == Init /\ [][Next]_vars

\* A thread of the server is scheduled, and time passes.  Nothing makes the model
\* answer, a client send a request, or the process restart.
Fairness == \A c \in Clients : WF_vars(HostStep(c)) /\ WF_vars(Expire(c))

FairSpec == Spec /\ Fairness

--------------------------------------------------------------------------------
(* Properties *)

\* The types of the state: the session, the run table and what a thread carries
\* keep the shape that the stores and run_design_loop give them.
TypeOK ==
    /\ chat \in Seq(Message)
    /\ runs \in [Turns -> Run \cup {NoRun}]
    /\ thread \in [Clients -> Thread]
    /\ received \in 0 .. MaxTurns
    /\ started \in 0 .. MaxTurns
    /\ orphans \subseteq Turns

\* "never leave a run running" (app.py): a run that says `running` is one that a
\* thread is working on, or one that a restart has cut off; and while a thread
\* works on a run, nobody has closed it.
RunsMatchThreads ==
    /\ \A r \in Turns :
          Running(r) => r \in orphans \/ \E c \in Clients : thread[c].run = r
    /\ \A c \in Clients :
          thread[c].run \in Kept => Running(thread[c].run)
    /\ \A c, d \in Clients :
          thread[c].run = thread[d].run /\ thread[c].run # 0 => c = d

\* design_runs.py: the oldest runs are pruned on insert.  The table always holds
\* the newest runs, all of them up to the limit: a run that a client has just
\* been told of can be polled, however many turns there were before.
NewestRunsKept ==
    Kept = {r \in 1 .. started : r + MaxKept > started}

\* A run that has been closed is a record of what happened: no step of any turn
\* and no restart rewrites it, until it is pruned.
ClosedRunsStay ==
    [][\A r \in Turns :
          r \in Kept /\ ~Running(r) => runs'[r] \in {runs[r], NoRun}]_vars

\* ADR-0016: a retried turn replays the stored response and the model is not
\* called again.  Once a run has an answer for a request id, no later run has
\* that id, whatever failed, was cut off or was pruned before.
AnsweredNotRerun ==
    \A r, k \in Kept :
        runs[r].key \in Keys \ Racing /\ runs[r].answered /\ k > r =>
            runs[k].key # runs[r].key

\* run_design_loop: a turn with an expected_revision fails on a concurrent update
\* "instead of the turn silently rebasing onto newer state".  When such a turn
\* claims the session, it stores its message behind the newest HistoryLimit
\* messages the session has at that moment, all of them in their order, although
\* it read the chat two operations earlier.  Older messages go: clean_history
\* keeps no more of a chat.
ClaimDoesNotRebase ==
    [][\A c \in Clients :
          At(c, "claim") /\ thread[c].wants /\ thread'[c].pc = "model" =>
                chat' = Append(Recent(chat), Said(thread[c].turn, "user"))]_vars

\* Every run that a live thread works on is closed or pruned in the end, even if
\* the model never answers: a client that polls it stops polling.
RunsEnd ==
    \A r \in Turns : Running(r) ~> (~Running(r) \/ r \in orphans)

\* development-overview.md: recovery at startup keeps a client from showing a run
\* as running forever.  A run that says `running` has a thread that works on it.
RunningIsLive ==
    \A r \in Turns : Running(r) => \E c \in Clients : thread[c].run = r

\* design_service.py: a concurrent writer yields stale_revision "instead of a
\* silent overwrite".  None of the messages that a turn keeps of a chat, the
\* newest HistoryLimit, is gone from the chat after a write.
ChatKept ==
    [][\A k \in DOMAIN Recent(chat) :
          \E j \in DOMAIN chat' : chat'[j] = Recent(chat)[k]]_vars

================================================================================
