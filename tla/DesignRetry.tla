------------------------------- MODULE DesignRetry -------------------------------
(***************************************************************************)
(* Repeated requests to one design session: what a client may send again   *)
(* after an answer was lost, and what the host does about it.              *)
(*                                                                         *)
(* Three handlers of app.py take a request_id.  POST /update commits in    *)
(* one store operation; /verify and /confirm read the session first and    *)
(* commit later, on a pool of threads.  Two bounded tables of the session  *)
(* remember ids: processed, which DesignStore.commit keeps for every       *)
(* commit that names an id, and verify_requests, which verify_game keeps   *)
(* in the context for its own answers.                                     *)
(*                                                                         *)
(* Any body may arrive at any time under any id: that covers the client    *)
(* that sends the same request again, two copies of one request that are   *)
(* served at once, a copy that arrives late, and an id that another        *)
(* request uses too.  An answer that is lost is one nobody reads.  Whoever *)
(* was served and is refused when it asks again is noted in `denied`: its  *)
(* client learns from the refusal that nothing was done.                   *)
(*                                                                         *)
(* Abstractions.  A rules IR is an element of Rules and stands for its     *)
(* hash.  A fingerprint is the record of what it hashes; the tables that   *)
(* verify_game puts into its commit are left out of it, for two reads at   *)
(* one revision see the same tables.  The answer of a commit is the        *)
(* revision of the snapshot it returns, and a refusal changes nothing.     *)
(* /publish does not look at its id before it commits and is in            *)
(* DesignLifecycle; turns are in DesignTurn.                               *)
(***************************************************************************)
EXTENDS Integers, Sequences, FiniteSets

CONSTANTS
    Threads,      \* the server threads that may be busy at the same time
    Ids,          \* request ids
    NoId,         \* a request without an id
    Rules,        \* the rules IRs, by hash
    NoIR,         \* a session's ir before the first proposal
    Compiling,    \* the rules that compile
    Passing,      \* the rules that pass the formal gate
    NoRevision,   \* a request without an expected_revision
    MaxProcessed, \* MAX_PROCESSED_REQUESTS
    MaxVerifies,  \* MAX_VERIFY_REQUESTS
    MaxRevision   \* bound: the revision of the session

ASSUME BoundsAssumption ==
    MaxProcessed \in Nat \ {0} /\ MaxVerifies \in Nat \ {0} /\ MaxRevision \in Nat

ASSUME ValuesAssumption ==
    /\ NoId \notin Ids
    /\ NoIR \notin Rules
    /\ NoRevision \notin Nat
    /\ Passing \subseteq Compiling
    /\ Compiling \subseteq Rules

VARIABLES
    design,    \* the row of the session
    thread,    \* the request each thread is in the middle of
    applied,   \* history: the requests that changed the session, with the
               \* revision each of them made
    answered,  \* history: the requests that were told ok, with the revision
               \* that the answer names
    denied     \* history: if the last step refused a request that had been
               \* applied before, the changes it made

vars == <<design, thread, applied, answered, denied>>

Kinds == {"update", "verify", "confirm"}
Revisions == 0 .. MaxRevision

\* What DesignStore.commit hashes into a fingerprint: the event, the expected
\* revision and the changes.  `at` is the revision that the changes contain: the
\* one a confirmation was given at, or a verification read.
Fingerprint ==
    [kind : Kinds, exp : Nat, ir : Rules, at : Nat]

Change == [id : Ids \cup {NoId}, print : Fingerprint, rev : Nat]

Processed == [id : Ids, print : Fingerprint, rev : Nat]
VerifyRequest == [id : Ids, ir : Rules, rev : Nat]

Design ==
    [rev       : Nat,
     ir        : Rules \cup {NoIR},
     ver       : Rules \cup {NoIR},     \* the rules the stored evidence is about
     processed : Seq(Processed),        \* oldest first
     verifies  : Seq(VerifyRequest)]    \* context.verify_requests, oldest first

\* The program points: the store operation the thread performs next.
Points == {"free", "verify_read", "verify_commit", "unbuilt_commit", "confirm_commit"}

\* print is what the thread commits, once it has read the session.
Thread ==
    [pc : Points, id : Ids \cup {NoId}, print : Fingerprint \cup {NoIR}]

Idle == [pc |-> "free", id |-> NoId, print |-> NoIR]

Init ==
    /\ design = [rev |-> 0, ir |-> NoIR, ver |-> NoIR, processed |-> <<>>, verifies |-> <<>>]
    /\ thread = [t \in Threads |-> Idle]
    /\ applied = {}
    /\ answered = {}
    /\ denied = {}

--------------------------------------------------------------------------------
(* DesignStore.commit *)

\* Mutants of Remember: nothing is ever forgotten; a full table drops an entry more.
RememberAll(table, entry, limit) == Append(table, entry)
RememberFewer(table, entry, limit) ==
    IF Len(table) + 1 < limit THEN Append(table, entry)
    ELSE Append(IF table = <<>> THEN table ELSE Tail(table), entry)

\* A table keeps its newest entries.
Remember(table, entry, limit) ==
    IF Len(table) < limit THEN Append(table, entry) ELSE Append(Tail(table), entry)

Known(table, i) == \E k \in DOMAIN table : table[k].id = i
Entry(table, i) == table[CHOOSE k \in DOMAIN table : table[k].id = i]

\* Mutant of Repeats: the contents of the two requests are not compared.
RepeatsId(i, print) == Known(design.processed, i)

\* The id is remembered, for this very content.
Repeats(i, print) ==
    /\ Known(design.processed, i)
    /\ Entry(design.processed, i).print = print

\* Mutants of Verdict: the revision is compared first, or not at all.
VerdictLockFirst(i, print) ==
    CASE design.rev # print.exp -> "stale"
      [] design.rev = print.exp /\ Repeats(i, print) -> "replay"
      [] design.rev = print.exp /\ ~ Known(design.processed, i) -> "apply"
      [] OTHER -> "conflict"
VerdictUnlocked(i, print) ==
    CASE Repeats(i, print) -> "replay"
      [] ~ Known(design.processed, i) -> "apply"
      [] OTHER -> "conflict"

\* _prepare looks the id up first: the revision of a repeated request is old.
Verdict(i, print) ==
    CASE Repeats(i, print) -> "replay"
      [] ~ Repeats(i, print) /\ Known(design.processed, i) -> "conflict"
      [] ~ Known(design.processed, i) /\ design.rev = print.exp -> "apply"
      [] OTHER -> "stale"

\* The row that a commit writes; a request without an id is not remembered.
Written(row, i, print) ==
    [row EXCEPT
       !.rev = design.rev + 1,
       !.processed = IF i = NoId THEN @
                     ELSE Remember(@, [id |-> i, print |-> print, rev |-> design.rev + 1],
                                   MaxProcessed)]

Says(i, print, rev) == [id |-> i, print |-> print, rev |-> rev]

\* The changes under i that this request, which is about to commit print, was sent
\* again after.  Whoever sends an update again sends the same fingerprint; a
\* verification or a confirmation names the rules, and has read the session since.
ServedBefore(i, print) ==
    {change \in applied :
        /\ change.id = i /\ i # NoId
        /\ \/ change.print = print
           \/ /\ print.kind # "update"
              /\ change.print.kind = print.kind /\ change.print.ir = print.ir
              /\ change.rev <= print.exp}

\* The request i commits row: it is applied, or its first answer is given again,
\* or it is refused.
Commit(i, print, row) ==
    \/ /\ Verdict(i, print) = "apply"
       /\ design.rev < MaxRevision
       /\ design' = Written(row, i, print)
       /\ applied' = applied \cup {Says(i, print, design.rev + 1)}
       /\ answered' = answered \cup {Says(i, print, design.rev + 1)}
       /\ denied' = {}
    \/ /\ Verdict(i, print) = "replay"
       /\ answered' = answered \cup {Says(i, print, Entry(design.processed, i).rev)}
       /\ denied' = {}
       /\ UNCHANGED <<design, applied>>
    \/ /\ Verdict(i, print) \in {"conflict", "stale"}
       /\ denied' = ServedBefore(i, print)
       /\ UNCHANGED <<design, applied, answered>>

--------------------------------------------------------------------------------
(* The handlers *)

Goes(t, pc, i, print) == thread' = [thread EXCEPT ![t] = [pc |-> pc, id |-> i, print |-> print]]
Ends(t) == thread' = [thread EXCEPT ![t] = Idle]

\* POST /update replaces the rules, in one store operation.  A client names a
\* revision that the session has had; an update without an id moves the revision
\* just as the tools of a design turn do.
Update(i, exp, r) ==
    /\ exp <= design.rev
    /\ Commit(i, [kind |-> "update", exp |-> exp, ir |-> r, at |-> 0],
              [design EXCEPT !.ir = r])
    /\ UNCHANGED thread

\* POST /verify compares the revision it reads, unless none is expected; nothing
\* is looked up yet.
AskVerify(t, i, exp) ==
    /\ thread[t].pc = "free"
    /\ exp \in {NoRevision, design.rev}
    /\ Goes(t, "verify_read", i, NoIR)
    /\ denied' = {}
    /\ UNCHANGED <<design, applied, answered>>

\* The change that a verification of r makes at revision rev.
Verification(r, rev) == [kind |-> "verify", exp |-> rev, ir |-> r, at |-> rev]

\* Mutant of Answers: whatever the rules were.
AnswersAnyRules(i) == Known(design.verifies, i)

\* verify_game has answered the id for the rules the session has now.
Answers(i) ==
    /\ Known(design.verifies, i)
    /\ Entry(design.verifies, i).ir = design.ir

\* verify_game reads the session again.  Without rules it refuses.  It repeats the
\* answer that it stored for the id, and refuses an id it used for other rules.
AnswerVerify(t) ==
    LET i == thread[t].id
        first == Entry(design.verifies, i).rev
    IN
    /\ thread[t].pc = "verify_read"
    /\ design.ir = NoIR \/ Known(design.verifies, i)
    /\ answered' = IF design.ir # NoIR /\ Answers(i)
                   THEN answered \cup {Says(i, Verification(design.ir, first - 1), first)}
                   ELSE answered
    /\ Ends(t)
    /\ denied' = {}
    /\ UNCHANGED <<design, applied>>

\* Otherwise it compiles the rules and runs the gate, which ends long after.
ReadVerify(t) ==
    /\ thread[t].pc = "verify_read"
    /\ design.ir # NoIR
    /\ ~ Known(design.verifies, thread[t].id)
    /\ Goes(t, IF design.ir \in Compiling THEN "verify_commit" ELSE "unbuilt_commit",
            thread[t].id, Verification(design.ir, design.rev))
    /\ denied' = {}
    /\ UNCHANGED <<design, applied, answered>>

\* The verification is stored with the answer, whether the rules passed or not.
CommitVerify(t) ==
    LET i == thread[t].id
        print == thread[t].print
        answer == [id |-> i, ir |-> print.ir, rev |-> print.at + 1]
    IN
    /\ thread[t].pc = "verify_commit"
    /\ Commit(i, print,
              [design EXCEPT
                 !.ver = print.ir,
                 !.verifies = IF i = NoId THEN @ ELSE Remember(@, answer, MaxVerifies)])
    /\ Ends(t)

\* Rules that do not compile: the failure is committed without the id.
CommitUnbuilt(t) ==
    LET print == thread[t].print IN
    /\ thread[t].pc = "unbuilt_commit"
    /\ Ends(t)
    /\ \/ /\ design.rev = print.exp
          /\ design.rev < MaxRevision
          /\ design' = [design EXCEPT !.rev = @ + 1]
          /\ applied' = applied \cup {Says(thread[t].id, print, design.rev + 1)}
       \/ /\ design.rev # print.exp
          /\ UNCHANGED <<design, applied>>
    /\ denied' = {}
    /\ UNCHANGED answered

\* POST /confirm reads the session: it must hold the rules that the user names and
\* evidence that they passed.  The revision it commits at is the one that was read.
\* A client may name an older one instead: its commit finds neither that revision
\* nor an entry with its content, for none was ever applied, and is refused.
AskConfirm(t, i, r) ==
    /\ thread[t].pc = "free"
    /\ design.ir = r /\ design.ver = r /\ r \in Passing
    /\ Goes(t, "confirm_commit", i,
            [kind |-> "confirm", exp |-> design.rev, ir |-> r, at |-> design.rev])
    /\ denied' = {}
    /\ UNCHANGED <<design, applied, answered>>

\* The confirmation, which holds the revision that was read, is committed.
CommitConfirm(t) ==
    /\ thread[t].pc = "confirm_commit"
    /\ Commit(thread[t].id, thread[t].print, design)
    /\ Ends(t)

\* The process stops: the requests that were being served get no answer, and the
\* row of the session survives.
Restart ==
    /\ thread' = [t \in Threads |-> Idle]
    /\ denied' = {}
    /\ UNCHANGED <<design, applied, answered>>

Step(t) ==
    \/ \E i \in Ids \cup {NoId}, exp \in Revisions \cup {NoRevision} : AskVerify(t, i, exp)
    \/ AnswerVerify(t)
    \/ ReadVerify(t)
    \/ CommitVerify(t)
    \/ CommitUnbuilt(t)
    \/ \E i \in Ids \cup {NoId}, r \in Rules : AskConfirm(t, i, r)
    \/ CommitConfirm(t)

Next ==
    \/ \E i \in Ids \cup {NoId}, exp \in Revisions, r \in Rules : Update(i, exp, r)
    \/ \E t \in Threads : Step(t)
    \/ Restart

Spec == Init /\ [][Next]_vars

--------------------------------------------------------------------------------
(* Properties *)

\* The row, the requests and the history are well formed, and the two tables of
\* the session (design_store.py, design_service.py) stay within their limits.
TypeOK ==
    /\ design \in Design
    /\ Len(design.processed) <= MaxProcessed
    /\ Len(design.verifies) <= MaxVerifies
    /\ thread \in [Threads -> Thread]
    /\ applied \subseteq Change
    /\ answered \subseteq Change
    /\ denied \subseteq applied

\* A client that is told ok was served: the revision in the answer is one that a
\* request of its id and its content made, now or the first time, whatever else was
\* sent under the id, and whatever was remembered or forgotten meanwhile.  For a
\* verification the content is the rules (_prepare, _cached_verification).
AnswersAreOwn == answered \subseteq applied

\* POST /update is applied at most once however often it is sent, also when its id
\* has been forgotten: then the revision it expects has passed (_prepare).
UpdatesApplyOnce ==
    \A one, other \in applied :
        one.print.kind = "update" /\ one.id = other.id /\ one.print = other.print
            => one = other

\* What DesignStore.commit remembers the id of: not the failure to compile.
Remembered(change) ==
    change.id # NoId /\ (change.print.kind = "verify" => change.print.ir \in Compiling)

\* Two changes under one id are MaxProcessed changes under other ids apart: until
\* then the id is remembered, and a copy of the request, a late one or one served
\* at the same time, changes nothing (_prepare, _remember_verification).
IdsAreKept ==
    \A one, other \in applied :
        (/\ one.id = other.id
         /\ one.rev < other.rev
         /\ Remembered(one) /\ Remembered(other)) =>
            Cardinality({change \in applied :
                Remembered(change) /\ one.rev < change.rev /\ change.rev < other.rev})
                >= MaxProcessed

\* Enough has been committed since a change for a table of that length to have
\* forgotten its id.
Forgotten(change, length) ==
    Cardinality({newer \in applied : Remembered(newer) /\ change.rev < newer.rev}) >= length

\* A client whose update is refused may send it again at another revision, for a
\* refusal says that nothing was done.  An update that was done is refused only
\* after MaxProcessed newer changes under other ids: until then every copy of it
\* gets its first answer, although the revision it expects has passed (_prepare
\* looks up the id before it compares the revision).
RefusedUpdateWasForgotten ==
    \A change \in denied :
        change.print.kind = "update" => Forgotten(change, MaxProcessed)

\* A request has one effect: an update for good, any other as long as its id is
\* remembered.
OneEffect == UpdatesApplyOnce /\ IdsAreKept

\* ADR-0017 says: a verification that is sent again under its id gets the same
\* answer while the rules are the same, and the revision does not move.
VerifiesAreIdempotent ==
    \A one, other \in applied :
        (/\ one.id = other.id
         /\ one.id # NoId
         /\ one.print.kind = "verify"
         /\ other.print.kind = "verify"
         /\ one.print.ir = other.print.ir) => one = other

\* development-overview.md:154 says: request_id replays the same request.  A
\* confirmation that was recorded is not refused when it is sent again.
ConfirmsAreAnswered ==
    \A change \in denied :
        change.print.kind = "confirm" => Forgotten(change, MaxProcessed)
================================================================================
