------------------------------ MODULE PlaySession ------------------------------
(***************************************************************************)
(* A game that is played from several browser tabs.                        *)
(*                                                                         *)
(* The server keeps one row per session: a revision, an append-only log of *)
(* events, and the answers to the last MaxProcessed actions by request id. *)
(* act_generic applies an action and the moves of the bots in one step, at *)
(* the revision the client names, or replays the answer to a repeated id.  *)
(*                                                                         *)
(* A tab keeps the revision it shows, a cursor into the log and the        *)
(* timeline on its screen.  It adds the events in the answer to an action, *)
(* and pages through the log when it resumes, refreshes or meets a         *)
(* conflict.  It stores cursor and timeline for the next reload.           *)
(*                                                                         *)
(* The log only grows, so an event is its position in it, and the log is   *)
(* its length.  What the events say is up to the interpreter.  Each tab is *)
(* in a browser of its own.  The server is persistent: a restart between   *)
(* two requests changes nothing, and no session is lost.                   *)
(***************************************************************************)
EXTENDS Integers, Sequences, Functions

CONSTANTS
    Tabs,
    Unsteady,      \* the tabs on a connection that may break in the middle of a
                   \* sync or leave a request behind, and whose user does not
                   \* wait for the sync of a resume
    Inputs,        \* an action with its input values
    Nobody,        \* the receiver of an answer that no tab waits for
    None,          \* no request
    Conflict,      \* the answer 409
    Rejected,      \* the answer 422
    MaxProcessed,  \* MAX_PROCESSED_REQUESTS
    MaxWindow,     \* MAX_EVENT_WINDOW
    MaxStored,     \* MAX_STORED_EVENTS
    MaxBatch,      \* bound: the events of an action and of the bots after it
    MaxClicks      \* bound: the request ids that are ever made

ASSUME PlayAssumption ==
    /\ Unsteady \subseteq Tabs
    /\ Nobody \notin Tabs
    /\ MaxProcessed \in Nat \ {0}
    /\ MaxWindow \in Nat \ {0}
    /\ MaxStored \in Nat
    /\ MaxBatch \in Nat \ {0}
    /\ MaxClicks \in Nat

\* A click is a request: its id, the inputs and the revision that was on screen.
Click == [id : 1 .. MaxClicks, input : Inputs, rev : Nat]

\* The answer to an applied action: the events it added, which are some, and the
\* new revision.
Applied ==
    {answer \in [id : 1 .. MaxClicks, first : Nat \ {0}, last : Nat, rev : Nat] :
        answer.first <= answer.last}

ASSUME AnswerAssumption ==
    /\ None \notin Click
    /\ {None, Conflict, Rejected} \cap Applied = {}
    /\ None \notin {Conflict, Rejected} /\ Conflict # Rejected

VARIABLES
    rev,        \* the revision of the session
    total,      \* the length of its log
    processed,  \* the stored answers, oldest first
    tab,        \* the tabs
    stored,     \* localStorage: cursor and timeline
    late,       \* requests that a tab has given up and the server has not seen
    clicks,     \* request ids made so far
    history     \* history: every application, oldest first

server == <<rev, total, processed, history>>
vars == <<rev, total, processed, tab, stored, late, clicks, history>>

Closed ==
    [open |-> FALSE, rev |-> 0, cursor |-> 0, timeline |-> <<>>,
     pending |-> None, sent |-> None, answer |-> None,
     job |-> "none", busy |-> FALSE, seen |-> 0, page |-> 0, from |-> 0, collected |-> <<>>]

Tab ==
    [open      : BOOLEAN,              \* a session is on the screen
     rev       : Nat,                  \* the revision it shows
     cursor    : Nat,                  \* cursorRef
     timeline  : Seq(Nat),             \* eventsRef
     pending   : Click \cup {None},    \* pendingAct
     sent      : Click \cup {None},    \* the action it waits for
     answer    : Applied \cup {None, Conflict, Rejected},
     job       : {"none", "get", "sync", "commit"},
     busy      : BOOLEAN,              \* the job disables the controls
     seen      : Nat,                  \* the revision in an answer underway
     page      : {0, 1},               \* 1: a page of the sync has been read
     from      : Nat,                  \* the cursor of the sync
     collected : Seq(Nat)]             \* the events of the sync

\* The setup and the bots before the first human turn may have added events.
Init ==
    /\ rev = 0
    /\ total \in 0 .. MaxBatch
    /\ processed = <<>>
    /\ tab = [t \in Tabs |-> Closed]
    /\ stored = [t \in Tabs |-> [cursor |-> 0, timeline |-> <<>>]]
    /\ late = {}
    /\ clicks = 0
    /\ history = <<>>

Becomes(t, new) == tab' = [tab EXCEPT ![t] = new]

\* The events after position i, up to position j.
Events(i, j) == [k \in 1 .. j - i |-> i + k]

--------------------------------------------------------------------------------
(* The server *)

\* A request that has reached the server: the one a tab waits for, or a late one.
Reaches(t, click) ==
    IF t \in Tabs
    THEN tab[t].sent = click /\ click # None /\ tab[t].answer = None
    ELSE click \in late

Answers(t, click, answer) ==
    /\ tab' = IF t \in Tabs THEN [tab EXCEPT ![t].answer = answer] ELSE tab
    /\ late' = IF t \in Tabs THEN late ELSE late \ {click}
    /\ UNCHANGED <<stored, clicks>>

\* Mutant of Known: only a request for the current revision is looked up.
KnownCurrent(click) ==
    {answer \in Range(processed) : answer.id = click.id /\ click.rev = rev}

\* _cached_response.
Known(click) == {answer \in Range(processed) : answer.id = click.id}

Replay(t, click) ==
    /\ Reaches(t, click)
    /\ \E answer \in Known(click) : Answers(t, click, answer)
    /\ UNCHANGED server

\* Mutant of Current: the revision is not compared.
CurrentAlways(click) == TRUE

Current(click) == click.rev = rev

Refuse(t, click) ==
    /\ Reaches(t, click)
    /\ Known(click) = {}
    /\ ~Current(click)
    /\ Answers(t, click, Conflict)
    /\ UNCHANGED server

\* An illegal action, or an error in the interpreter: the state is rolled back.
Reject(t, click) ==
    /\ Reaches(t, click)
    /\ Known(click) = {}
    /\ Current(click)
    /\ Answers(t, click, Rejected)
    /\ UNCHANGED server

\* Mutant of Remembered: every answer is kept.
RememberedAll(answers) == answers

\* Only the newest MaxProcessed answers are kept.
Remembered(answers) ==
    SubSeq(answers, Len(answers) - MaxProcessed + 1, Len(answers))

\* The action and the moves of the bots add n events.
Apply(t, click, n) ==
    /\ Reaches(t, click)
    /\ Known(click) = {}
    /\ Current(click)
    /\ rev' = rev + 1
    /\ total' = total + n
    /\ LET answer == [id |-> click.id, first |-> total + 1, last |-> total + n, rev |-> rev + 1]
           answers == Append(processed, answer)
       IN  /\ processed' = IF Len(answers) > MaxProcessed THEN Remembered(answers) ELSE answers
           /\ history' = Append(history, answer)
           /\ Answers(t, click, answer)

--------------------------------------------------------------------------------
(* An action of the user *)

\* The user sends the same action at the same revision again.
Retries(t, input) ==
    /\ tab[t].pending # None
    /\ tab[t].pending.input = input
    /\ tab[t].pending.rev = tab[t].rev

\* Mutant of Enabled: the controls stay enabled during a refresh.
EnabledBusy(t) == tab[t].open /\ tab[t].sent = None

\* The controls are enabled.  They are during a resume, too, but only the user of
\* an unsteady tab does not wait for its end.
Enabled(t) ==
    /\ tab[t].open
    /\ tab[t].sent = None
    /\ tab[t].job = "none" \/ (t \in Unsteady /\ ~tab[t].busy)

Sends(t, click) == Becomes(t, [tab[t] EXCEPT !.pending = click, !.sent = click])

Act(t, input) ==
    /\ Enabled(t)
    /\ \/ Retries(t, input) /\ Sends(t, tab[t].pending) /\ UNCHANGED clicks
       \/ /\ ~Retries(t, input)
          /\ clicks < MaxClicks
          /\ clicks' = clicks + 1
          /\ Sends(t, [id |-> clicks + 1, input |-> input, rev |-> tab[t].rev])
    /\ UNCHANGED <<server, stored, late>>

\* commitEvents: cursor, timeline and cache are written together.
Commits(t, new, cursor, timeline) ==
    /\ Becomes(t, [new EXCEPT !.cursor = cursor, !.timeline = timeline])
    /\ stored' = [stored EXCEPT ![t] =
           [cursor |-> cursor,
            timeline |-> SubSeq(timeline, IF Len(timeline) > MaxStored
                                          THEN Len(timeline) - MaxStored + 1 ELSE 1,
                                Len(timeline))]]

\* Mutant of AfterDelta: the cursor is taken to be the revision.
AfterRevision(t, answer) == answer.rev

AfterDelta(t, answer) == tab[t].cursor + (answer.last - answer.first + 1)

TakeApplied(t) ==
    LET answer == tab[t].answer
    IN  /\ answer \notin {None, Conflict, Rejected}
        /\ Commits(t, [tab[t] EXCEPT !.pending = None, !.sent = None, !.answer = None,
                                     !.rev = answer.rev],
                   AfterDelta(t, answer),
                   tab[t].timeline \o Events(answer.first - 1, answer.last))
        /\ UNCHANGED <<server, late, clicks>>

\* GET /sessions: the session is read, and the answer is on its way.
Fetches(t, new, busy) ==
    Becomes(t, [new EXCEPT !.job = "get", !.busy = busy, !.seen = rev])

\* The state is fetched anew, and the timeline caught up.
TakeConflict(t) ==
    /\ tab[t].answer = Conflict
    /\ tab[t].job = "none"
    /\ Fetches(t, [tab[t] EXCEPT !.sent = None, !.answer = None], TRUE)
    /\ UNCHANGED <<server, stored, late, clicks>>

TakeRejected(t) ==
    /\ tab[t].answer = Rejected
    /\ Becomes(t, [tab[t] EXCEPT !.sent = None, !.answer = None])
    /\ UNCHANGED <<server, stored, late, clicks>>

\* The request of a tab that stops waiting for it is lost, or, if the connection
\* is unsteady, may reach the server later.
LeavesBehind(t) ==
    IF t \in Unsteady /\ tab[t].sent # None /\ tab[t].answer = None
    THEN late' \in {late, late \cup {tab[t].sent}}
    ELSE late' = late

\* The answer does not arrive.
GiveUp(t) ==
    /\ tab[t].sent # None
    /\ LeavesBehind(t)
    /\ Becomes(t, [tab[t] EXCEPT !.sent = None, !.answer = None])
    /\ UNCHANGED <<server, stored, clicks>>

--------------------------------------------------------------------------------
(* Resume, refresh, and the sync with the log *)

\* The page is loaded with the session that the browser has stored.
Resume(t) ==
    /\ ~tab[t].open /\ tab[t].job = "none"
    /\ Fetches(t, tab[t], FALSE)
    /\ UNCHANGED <<server, stored, late, clicks>>

Refresh(t) ==
    /\ tab[t].open /\ tab[t].sent = None /\ tab[t].job = "none"
    /\ Fetches(t, tab[t], TRUE)
    /\ UNCHANGED <<server, stored, late, clicks>>

\* The page is reloaded at any time; what was underway is lost.
Reload(t) ==
    /\ tab[t].open
    /\ LeavesBehind(t)
    /\ Becomes(t, Closed)
    /\ UNCHANGED <<server, stored, clicks>>

\* The session is shown.  A resume restores the stored timeline; then the log is
\* read from the cursor on.
TakeSession(t) ==
    /\ tab[t].job = "get"
    /\ LET shown == IF tab[t].open
                    THEN [cursor |-> tab[t].cursor, timeline |-> tab[t].timeline]
                    ELSE stored[t]
       IN  Becomes(t, [tab[t] EXCEPT !.open = TRUE, !.rev = tab[t].seen, !.seen = 0,
                                     !.cursor = shown.cursor, !.timeline = shown.timeline,
                                     !.job = "sync", !.page = 0,
                                     !.from = shown.cursor, !.collected = shown.timeline])
    /\ UNCHANGED <<server, stored, late, clicks>>

FetchFails(t) ==
    /\ tab[t].job = "get"
    /\ Becomes(t, [tab[t] EXCEPT !.job = "none", !.busy = FALSE, !.seen = 0])
    /\ UNCHANGED <<server, stored, late, clicks>>

\* A cursor beyond the log: the timeline is rebuilt from zero.
Rebuild(t) ==
    /\ tab[t].job = "sync"
    /\ tab[t].page = 0 /\ total < tab[t].from
    /\ Becomes(t, [tab[t] EXCEPT !.page = 1, !.from = 0, !.collected = <<>>])
    /\ UNCHANGED <<server, stored, late, clicks>>

\* Mutant of HasMore: a page that is not full is not asked for.
HasMoreFull(upto) == upto + MaxWindow < total

HasMore(upto) == upto < total

\* One page of the log; without more pages the sync is about to end.
Page(t) ==
    LET upto == IF tab[t].from + MaxWindow < total THEN tab[t].from + MaxWindow ELSE total
    IN  /\ tab[t].job = "sync"
        /\ tab[t].page > 0 \/ tab[t].from <= total
        /\ Becomes(t, [tab[t] EXCEPT !.page = 1, !.from = upto,
                                     !.collected = @ \o Events(tab[t].from, upto),
                                     !.job = IF HasMore(upto) THEN "sync" ELSE "commit"])
        /\ UNCHANGED <<server, stored, late, clicks>>

AfterSync(new) ==
    [new EXCEPT !.job = "none", !.busy = FALSE, !.page = 0, !.from = 0, !.collected = <<>>]

EndSync(t) ==
    /\ tab[t].job = "commit"
    /\ Commits(t, AfterSync(tab[t]), tab[t].from, tab[t].collected)
    /\ UNCHANGED <<server, late, clicks>>

\* A page does not arrive: nothing of the sync is kept.
SyncFails(t) ==
    /\ t \in Unsteady
    /\ tab[t].job \in {"sync", "commit"}
    /\ Becomes(t, AfterSync(tab[t]))
    /\ UNCHANGED <<server, stored, late, clicks>>

Serve(t, click) ==
    \/ Replay(t, click)
    \/ Refuse(t, click)
    \/ Reject(t, click)
    \/ \E n \in 1 .. MaxBatch : Apply(t, click, n)

Next ==
    \/ \E t \in Tabs : Serve(t, tab[t].sent)
    \/ \E click \in late : Serve(Nobody, click)
    \/ \E t \in Tabs, input \in Inputs : Act(t, input)
    \/ \E t \in Tabs :
          \/ TakeApplied(t) \/ TakeConflict(t) \/ TakeRejected(t) \/ GiveUp(t)
          \/ Resume(t) \/ Refresh(t) \/ Reload(t) \/ TakeSession(t)
          \/ FetchFails(t) \/ Rebuild(t) \/ Page(t) \/ EndSync(t) \/ SyncFails(t)

Spec == Init /\ [][Next]_vars

--------------------------------------------------------------------------------
(* Properties *)

\* The types of the state of server and tabs.
TypeOK ==
    /\ rev \in Nat
    /\ total \in Nat
    /\ processed \in Seq(Applied) /\ Len(processed) <= MaxProcessed
    /\ tab \in [Tabs -> Tab]
    /\ stored \in [Tabs -> [cursor : Nat, timeline : Seq(Nat)]]
    /\ late \subseteq Click
    /\ clicks \in 0 .. MaxClicks
    /\ history \in Seq(Applied)

\* act: a repeated request id never applies an action twice, however often a tab
\* retries, whatever is still on its way, and even when the answer is forgotten.
AppliedOnce ==
    \A i, j \in DOMAIN history : history[i].id = history[j].id => i = j

\* act_generic: a retry is answered before the revision is checked.  A user whose
\* action was applied is not told of a conflict, unless MaxProcessed newer
\* actions have been applied since.
RetryAnswered ==
    [][\A t \in Tabs :
          tab'[t].answer = Conflict /\ tab[t].answer # Conflict =>
              \A i \in DOMAIN history :
                  history[i].id = tab[t].sent.id => i + MaxProcessed <= Len(history)]_vars

\* A tab never goes back to an older state, although a replayed answer carries
\* the state of the time when the action was applied.
ScreenMovesForward ==
    [][\A t \in Tabs :
          tab[t].open /\ tab'[t].open => tab'[t].rev >= tab[t].rev]_vars

\* The timeline is the stretch of the log that ends at the cursor.
EndsAtCursor(t) ==
    LET shown == tab[t].timeline
    IN  \A i \in DOMAIN shown : shown[i] = tab[t].cursor - Len(shown) + i

\* App.tsx: cursor and events on screen never disagree about what has been shown.
\* What a steady tab shows has no gap and no repetition, although it is fed both
\* by the answers to actions and by the log, in whose tail others write.
SteadyTimelines ==
    \A t \in Tabs \ Unsteady : EndsAtCursor(t)

\* The length of the log at revision r.
LogAt(r) ==
    IF r < rev THEN history[r + 1].first - 1 ELSE total

\* act, refresh: a steady tab at rest has shown every event that led to the state
\* on its screen, whichever of its own and of the others' actions those come
\* from.  It may have shown later events, which are in the log before the tab
\* fetches the state they lead to.
ScreenIsExplained ==
    \A t \in Tabs \ Unsteady :
        tab[t].open /\ tab[t].job = "none" => tab[t].cursor >= LogAt(tab[t].rev)

\* m5-browser.mjs: the displayed events match the cursor, no loss, no duplication,
\* once nothing is underway that could repair it.
TimelinesMatch ==
    \A t \in Tabs : tab[t].job = "none" => EndsAtCursor(t)

================================================================================
