--------------------------- MODULE PlaySession_proofs --------------------------
(***************************************************************************)
(* Proofs about PlaySession, for any number of tabs, inputs and requests,  *)
(* and for lists and pages of any length.                                  *)
(*                                                                         *)
(* Only two steps matter to the server's side: a tab makes a request id,   *)
(* and the server applies a request.  All others are Quiet.                *)
(***************************************************************************)
EXTENDS PlaySession, SequenceTheorems, TLAPS

\* The requests that the server may still see, or a tab may still repeat.
Requests(s) == {s.pending, s.sent} \ {None}
Alive == late \cup UNION {Requests(tab[t]) : t \in Tabs}

\* The revision counts the actions that were applied.
Counted ==
    /\ rev = Len(history)
    /\ \A i \in DOMAIN history : history[i].rev = i

\* The list p has the last MaxProcessed elements of h.
LastOf(p, h) ==
    /\ Len(p) = IF Len(h) < MaxProcessed THEN Len(h) ELSE MaxProcessed
    /\ \A i \in 1 .. Len(p) : p[i] = h[Len(h) - Len(p) + i]

\* The answers kept are those to the last MaxProcessed actions.
LastKept == LastOf(processed, history)

\* An id belongs to one request, and was made.
IdsMade ==
    /\ \A c \in Alive : c.id <= clicks
    /\ \A c, d \in Alive : c.id = d.id => c = d
    /\ \A i \in DOMAIN history : history[i].id <= clicks

\* A request that was applied was applied at the revision it names, which the
\* server has left since.
AppliedAtItsRevision ==
    \A c \in Alive, i \in DOMAIN history : history[i].id = c.id => i = c.rev + 1

IsApplied(answer) == answer \notin {None, Conflict, Rejected}

\* A tab that waits for an answer shows the revision it has named, and one that
\* waits for the session shows no newer one than it will get.
TabInv(s) ==
    /\ s.rev <= rev
    /\ s.job = "get" => s.rev <= s.seen /\ s.seen <= rev /\ (s.open => s.busy)
    /\ s.sent # None => s.open /\ s.job # "get" /\ s.sent.rev = s.rev
    /\ s.answer # None => s.sent # None
    /\ IsApplied(s.answer) => s.answer.rev = s.sent.rev + 1 /\ s.answer.rev <= rev

Inv ==
    /\ TypeOK
    /\ Counted
    /\ LastKept
    /\ IdsMade
    /\ AppliedAtItsRevision
    /\ AppliedOnce
    /\ \A t \in Tabs : TabInv(tab[t])

--------------------------------------------------------------------------------
(* Types *)

\* A stretch of the log is a sequence of positions.
LEMMA EventsType ==
    ASSUME NEW i \in Int, NEW j \in Int, i >= -1
    PROVE  Events(i, j) \in Seq(Nat)
<1>1. CASE j - i \in Nat
  BY <1>1 DEF Events
<1>2. CASE j - i \notin Nat
  <2>1. 1 .. j - i = 1 .. 0
    BY <1>2
  <2>2. Events(i, j) = [k \in 1 .. 0 |-> i + k]
    BY <2>1 DEF Events
  <2> QED BY <2>2
<1> QED BY <1>1, <1>2

\* An answer that was applied is one.
LEMMA AppliedType ==
    ASSUME NEW s \in Tab, IsApplied(s.answer)
    PROVE  s.answer \in Applied
BY DEF Tab, IsApplied

\* The types of the parts of a tab.
LEMMA TabFields ==
    ASSUME NEW s \in Tab
    PROVE  /\ s.rev \in Nat /\ s.cursor \in Nat /\ s.seen \in Nat /\ s.from \in Nat
           /\ s.timeline \in Seq(Nat) /\ s.collected \in Seq(Nat)
           /\ s.pending \in Click \cup {None} /\ s.sent \in Click \cup {None}
           /\ Requests(s) \subseteq Click
BY DEF Tab, Requests

--------------------------------------------------------------------------------
(* Quiet steps *)

\* The tabs and the connection change, and no request id is made.
Quiet ==
    /\ UNCHANGED <<server, clicks>>
    /\ tab' \in [Tabs -> Tab]
    /\ stored' \in [Tabs -> [cursor : Nat, timeline : Seq(Nat)]]
    /\ Alive' \subseteq Alive
    /\ \A t \in Tabs : TabInv(tab[t])'

LEMMA AliveType ==
    ASSUME TypeOK
    PROVE  Alive \subseteq Click
BY TabFields DEF TypeOK, Alive

LEMMA QuietKeeps ==
    ASSUME Inv, Quiet
    PROVE  Inv'
<1>1. TypeOK'
  <2>1. late' \subseteq Click
    BY AliveType DEF Inv, Quiet, Alive
  <2> QED BY <2>1 DEF Inv, Quiet, TypeOK, server
<1>2. Counted' /\ LastKept' /\ AppliedOnce'
  BY DEF Inv, Quiet, server, Counted, LastKept, LastOf, AppliedOnce
<1>3. IdsMade' /\ AppliedAtItsRevision'
  BY DEF Inv, Quiet, server, IdsMade, AppliedAtItsRevision
<1> QED BY <1>1, <1>2, <1>3 DEF Inv, Quiet

\* One tab moves, and the server does not.
LEMMA MoveIsQuiet ==
    ASSUME Inv, NEW t \in Tabs, NEW new \in Tab, Becomes(t, new),
           UNCHANGED <<server, clicks>>,
           stored' \in [Tabs -> [cursor : Nat, timeline : Seq(Nat)]],
           late' \subseteq late \cup Requests(tab[t]),
           Requests(new) \subseteq Requests(tab[t]),
           TabInv(new)
    PROVE  Inv'
<1>1. tab' \in [Tabs -> Tab] /\ tab'[t] = new /\ \A u \in Tabs \ {t} : tab'[u] = tab[u]
  BY DEF Inv, TypeOK, Becomes
<1>2. Alive' \subseteq Alive
  BY <1>1 DEF Alive
<1>3. ASSUME NEW u \in Tabs
      PROVE  TabInv(tab[u])'
  <2>1. CASE u = t
    BY <1>1, <2>1 DEF TabInv, server
  <2>2. CASE u # t
    <3>1. TabInv(tab[u]) /\ tab'[u] = tab[u]
      BY <1>1, <2>2 DEF Inv
    <3> QED BY <3>1 DEF TabInv, server
  <2> QED BY <2>1, <2>2
<1> QED BY <1>1, <1>2, <1>3, QuietKeeps DEF Quiet

--------------------------------------------------------------------------------
(* Answers *)

\* An answer that is found was given to the request, and is no newer than the row.
LEMMA KnownAnswers ==
    ASSUME Inv, NEW click \in Alive, NEW answer \in Known(click)
    PROVE  /\ answer \in Applied
           /\ answer.id = click.id
           /\ answer.rev = click.rev + 1
           /\ answer.rev <= rev
           /\ answer.rev \in DOMAIN history /\ history[answer.rev] = answer
<1>1. PICK k \in DOMAIN processed : processed[k] = answer /\ answer.id = click.id
  BY DEF Known, Range
<1>2. /\ processed \in Seq(Applied) /\ history \in Seq(Applied)
      /\ Len(processed) \in Nat /\ Len(history) \in Nat
      /\ DOMAIN processed = 1 .. Len(processed)
      /\ DOMAIN history = 1 .. Len(history)
  BY LenProperties DEF Inv, TypeOK
<1> DEFINE i == Len(history) - Len(processed) + k
<1>3. i \in DOMAIN history /\ history[i] = answer
  <2>1. /\ Len(processed) = IF Len(history) < MaxProcessed THEN Len(history) ELSE MaxProcessed
        /\ processed[k] = history[i]
    BY <1>1, <1>2 DEF Inv, LastKept, LastOf
  <2> QED BY <1>1, <1>2, <2>1, PlayAssumption
<1>4. answer \in Applied
  BY <1>1, <1>2
<1>5. i = click.rev + 1
  BY <1>1, <1>3 DEF Inv, AppliedAtItsRevision
<1>6. answer.rev = i /\ i <= rev
  BY <1>2, <1>3 DEF Inv, Counted
<1> QED BY <1>1, <1>3, <1>4, <1>5, <1>6

\* An answer that changes nothing at the server.
LEMMA AnswerKeeps ==
    ASSUME Inv, NEW t \in Tabs \cup {Nobody}, NEW click, NEW answer,
           Reaches(t, click), Answers(t, click, answer), UNCHANGED server,
           \/ answer \in {Conflict, Rejected}
           \/ answer \in Known(click)
    PROVE  Inv'
<1>1. CASE t \in Tabs
  <2> DEFINE new == [tab[t] EXCEPT !.answer = answer]
  <2>1. tab[t] \in Tab /\ TabInv(tab[t])
    BY <1>1 DEF Inv, TypeOK
  <2>2. tab[t].sent = click /\ click # None /\ click \in Alive
    BY <1>1 DEF Reaches, Alive, Requests
  <2>3. \/ answer \in {Conflict, Rejected}
        \/ answer \in Applied /\ answer.rev = click.rev + 1 /\ answer.rev <= rev
    BY <2>2, KnownAnswers
  <2>4. new \in Tab /\ Requests(new) = Requests(tab[t])
    BY <2>1, <2>3 DEF Tab, Requests
  <2>5. TabInv(new)
    BY <2>1, <2>2, <2>3, AnswerAssumption DEF TabInv, IsApplied, Tab
  <2>6. Becomes(t, new) /\ UNCHANGED <<stored, late, clicks>>
    BY <1>1 DEF Answers, Becomes
  <2> QED BY <1>1, <2>4, <2>5, <2>6, MoveIsQuiet DEF Inv, TypeOK
<1>2. CASE t \notin Tabs
  <2>1. UNCHANGED <<tab, stored, clicks>> /\ late' \subseteq late
    BY <1>2 DEF Answers
  <2>2. Alive' \subseteq Alive
    BY <2>1 DEF Alive
  <2>3. \A u \in Tabs : TabInv(tab[u])'
    BY <2>1 DEF Inv, TabInv, server
  <2> QED BY <2>1, <2>2, <2>3, QuietKeeps DEF Quiet, Inv, TypeOK
<1> QED BY <1>1, <1>2

LEMMA ReplayKeeps ==
    ASSUME Inv, NEW t \in Tabs \cup {Nobody}, NEW click, Replay(t, click)
    PROVE  Inv'
BY AnswerKeeps DEF Replay

LEMMA RefuseKeeps ==
    ASSUME Inv, NEW t \in Tabs \cup {Nobody}, NEW click, Refuse(t, click)
    PROVE  Inv'
BY AnswerKeeps DEF Refuse

LEMMA RejectKeeps ==
    ASSUME Inv, NEW t \in Tabs \cup {Nobody}, NEW click, Reject(t, click)
    PROVE  Inv'
BY AnswerKeeps DEF Reject

--------------------------------------------------------------------------------
(* An action is applied *)

LEMMA ReachesAlive ==
    ASSUME Inv, NEW t \in Tabs \cup {Nobody}, NEW click, Reaches(t, click)
    PROVE  click \in Alive /\ click \in Click
<1>1. click \in Alive
  BY DEF Reaches, Alive, Requests
<1> QED BY <1>1, AliveType DEF Inv

\* A request for the current revision was not applied before.
LEMMA CurrentIsNew ==
    ASSUME Inv, NEW click \in Alive, Current(click)
    PROVE  \A i \in DOMAIN history : history[i].id # click.id
<1>1. DOMAIN history = 1 .. Len(history) /\ Len(history) \in Nat
  BY LenProperties DEF Inv, TypeOK
<1> QED BY <1>1 DEF Inv, Counted, AppliedAtItsRevision, Current

\* What is left without the first element.
LEMMA WithoutFirst ==
    ASSUME NEW S, NEW a \in Seq(S), NEW n \in Nat, n + 1 = Len(a)
    PROVE  /\ SubSeq(a, 2, n + 1) \in Seq(S)
           /\ Len(SubSeq(a, 2, n + 1)) = n
           /\ \A i \in 1 .. n : SubSeq(a, 2, n + 1)[i] = a[i + 1]
<1>1. PICK m \in Int : m = n + 1
  OBVIOUS
<1>2. \A i \in 2 .. m : a[i] \in S
  BY <1>1, ElementOfSeq
<1>3. SubSeq(a, 2, m) \in Seq(S)
  BY <1>2, SubSeqProperties
<1>4. Len(SubSeq(a, 2, m)) = IF 2 <= m THEN m - 1 ELSE 0
  BY <1>2, SubSeqProperties
<1>5. ASSUME NEW i \in 1 .. m - 1
      PROVE  SubSeq(a, 2, m)[i] = a[i + 1]
  BY <1>2, <1>5, SubSeqProperties
<1>6. m - 1 = n /\ (IF 2 <= m THEN m - 1 ELSE 0) = n
  BY <1>1
<1> QED BY <1>1, <1>3, <1>4, <1>5, <1>6, Zenon

\* Appending to both, and forgetting the oldest answer if there are too many,
\* keeps the list in step with the history.
LEMMA TrimKeeps ==
    ASSUME NEW p \in Seq(Applied), NEW h \in Seq(Applied), NEW answer \in Applied,
           LastOf(p, h), NEW q,
           q = IF Len(Append(p, answer)) > MaxProcessed
                      THEN Remembered(Append(p, answer))
                      ELSE Append(p, answer)
    PROVE  /\ q \in Seq(Applied) /\ Len(q) <= MaxProcessed
           /\ LastOf(q, Append(h, answer))
<1>1. PICK P, H : P = Len(p) /\ H = Len(h)
  OBVIOUS
<1>2. PICK a, g : a = Append(p, answer) /\ g = Append(h, answer)
  OBVIOUS
<1>3. /\ P \in Nat /\ H \in Nat /\ MaxProcessed \in Nat \ {0}
      /\ P = IF H < MaxProcessed THEN H ELSE MaxProcessed
      /\ \A i \in 1 .. P : p[i] = h[H - P + i]
  BY <1>1, LenProperties, PlayAssumption DEF LastOf
<1>4. /\ a \in Seq(Applied) /\ Len(a) = P + 1
      /\ \A i \in 1 .. P : a[i] = p[i]
      /\ a[P + 1] = answer
  BY <1>1, <1>2, AppendProperties
<1>5. /\ Len(g) = H + 1
      /\ \A i \in 1 .. H : g[i] = h[i]
      /\ g[H + 1] = answer
  BY <1>1, <1>2, AppendProperties
<1>6. \A i \in 1 .. P + 1 : a[i] = g[H - P + i]
  BY <1>3, <1>4, <1>5
<1>7. q = IF P + 1 > MaxProcessed THEN Remembered(a) ELSE a
  BY <1>2, <1>4
<1> SUFFICES q \in Seq(Applied) /\ Len(q) <= MaxProcessed /\ LastOf(q, g)
  BY <1>2
<1>8. CASE P + 1 <= MaxProcessed
  <2>1. q = a /\ P = H
    BY <1>3, <1>7, <1>8
  <2>2. \A i \in 1 .. Len(q) : q[i] = g[Len(g) - Len(q) + i]
    <3>1. ASSUME NEW i \in 1 .. P + 1
          PROVE  a[i] = g[(H + 1) - (P + 1) + i]
      <4>1. PICK j : j = H - P + i /\ j = (H + 1) - (P + 1) + i
        <5>1. H - P + i = (H + 1) - (P + 1) + i
          BY <1>3
        <5> QED BY <5>1, Zenon
      <4>2. a[i] = g[j]
        BY <1>6, <4>1, Zenon
      <4> QED BY <4>1, <4>2, Zenon
    <3>2. Len(q) = P + 1 /\ Len(g) = H + 1
      BY <1>4, <1>5, <2>1
    <3> QED BY <2>1, <3>1, <3>2
  <2>3. Len(q) = IF Len(g) < MaxProcessed THEN Len(g) ELSE MaxProcessed
    BY <1>3, <1>4, <1>5, <1>8, <2>1
  <2> QED BY <1>3, <1>4, <1>8, <2>1, <2>2, <2>3 DEF LastOf
<1>9. CASE P + 1 > MaxProcessed
  <2>1. P = MaxProcessed /\ P <= H
    BY <1>3, <1>9
  <2>2. q = SubSeq(a, 2, P + 1)
    <3>1. Len(a) - MaxProcessed + 1 = 2
      BY <1>3, <1>4, <2>1
    <3>2. q = SubSeq(a, Len(a) - MaxProcessed + 1, Len(a))
      BY <1>7, <1>9 DEF Remembered
    <3> QED BY <1>4, <3>1, <3>2
  <2>3. P \in Nat /\ P + 1 = Len(a) /\ a \in Seq(Applied)
    BY <1>3, <1>4
  <2>4. /\ SubSeq(a, 2, P + 1) \in Seq(Applied)
        /\ Len(SubSeq(a, 2, P + 1)) = P
        /\ \A i \in 1 .. P : SubSeq(a, 2, P + 1)[i] = a[i + 1]
    BY <2>3, WithoutFirst, Zenon
  <2>5. q \in Seq(Applied) /\ Len(q) = P
    BY <2>2, <2>4, Zenon
  <2>6. \A i \in 1 .. P : q[i] = a[i + 1]
    BY <2>2, <2>4, Zenon
  <2>7. \A i \in 1 .. P : q[i] = g[(H + 1) - P + i]
    <3>1. ASSUME NEW i \in 1 .. P
          PROVE  q[i] = g[(H + 1) - P + i]
      <4>1. i + 1 \in 1 .. P + 1
        BY <1>3
      <4>2. PICK j : j = H - P + (i + 1) /\ j = (H + 1) - P + i
        <5>1. H - P + (i + 1) = (H + 1) - P + i
          BY <1>3
        <5> QED BY <5>1, Zenon
      <4>3. q[i] = g[j]
        BY <1>6, <2>6, <4>1, <4>2, Zenon
      <4> QED BY <4>2, <4>3, Zenon
    <3> QED BY <3>1
  <2>8. Len(q) = IF Len(g) < MaxProcessed THEN Len(g) ELSE MaxProcessed
    BY <1>3, <1>5, <2>1, <2>5
  <2>9. \A i \in 1 .. Len(q) : q[i] = g[Len(g) - Len(q) + i]
    <3>1. Len(q) = P /\ Len(g) = H + 1
      BY <1>5, <2>5
    <3> QED BY <2>7, <3>1
  <2>10. Len(q) <= MaxProcessed
    BY <1>3, <2>1, <2>5
  <2> QED BY <2>5, <2>8, <2>9, <2>10, Zenon DEF LastOf
<1>10. P + 1 <= MaxProcessed \/ P + 1 > MaxProcessed
  BY <1>3
<1> QED BY <1>8, <1>9, <1>10, Zenon

LEMMA ApplyKeeps ==
    ASSUME Inv, NEW t \in Tabs \cup {Nobody}, NEW click, NEW n \in 1 .. MaxBatch,
           Apply(t, click, n)
    PROVE  Inv'
<1> DEFINE answer == [id |-> click.id, first |-> total + 1, last |-> total + n, rev |-> rev + 1]
<1>1. click \in Alive /\ click \in Click /\ Reaches(t, click) /\ click.rev = rev
  BY ReachesAlive DEF Apply, Current
<1>2. \A i \in DOMAIN history : history[i].id # click.id
  BY <1>1, CurrentIsNew DEF Current
<1>3. /\ rev \in Nat /\ total \in Nat /\ n \in Nat /\ rev' = rev + 1 /\ total' = total + n
      /\ history \in Seq(Applied) /\ Len(history) = rev /\ DOMAIN history = 1 .. rev
  BY LenProperties, PlayAssumption DEF Apply, Inv, TypeOK, Counted
<1>4. answer \in Applied
  BY <1>1, <1>3 DEF Click, Applied
<1>5. Answers(t, click, answer) /\ history' = Append(history, answer)
  BY DEF Apply
<1>6. /\ history' \in Seq(Applied) /\ Len(history') = rev + 1 /\ DOMAIN history' = 1 .. rev + 1
      /\ \A i \in 1 .. rev : history'[i] = history[i]
      /\ history'[rev + 1] = answer
  BY <1>3, <1>4, <1>5, AppendProperties, LenProperties
<1> HIDE DEF answer
<1>7. answer.id = click.id /\ answer.rev = rev + 1
  BY DEF answer
<1>8. /\ processed' \in Seq(Applied) /\ Len(processed') <= MaxProcessed
      /\ LastKept'
  <2>1. processed \in Seq(Applied) /\ LastOf(processed, history)
    BY DEF Inv, TypeOK, LastKept
  <2>2. processed' = IF Len(Append(processed, answer)) > MaxProcessed
                     THEN Remembered(Append(processed, answer))
                     ELSE Append(processed, answer)
    BY DEF Apply, answer
  <2> QED BY <1>3, <1>4, <1>5, <2>1, <2>2, TrimKeeps DEF LastKept
<1>9. \A u \in Tabs : tab'[u] = tab[u] \/ (u = t /\ tab'[u] = [tab[u] EXCEPT !.answer = answer])
  BY <1>5 DEF Answers, Inv, TypeOK
<1>19. ASSUME NEW s \in Tab
       PROVE  LET new == [s EXCEPT !.answer = answer]
              IN  new \in Tab /\ Requests(new) = Requests(s)
  BY <1>4, <1>19 DEF Tab, Requests
<1>18. /\ tab' \in [Tabs -> Tab]
       /\ \A u \in Tabs : Requests(tab'[u]) = Requests(tab[u])
  <2>1. tab \in [Tabs -> Tab] /\ tab' = [u \in Tabs |-> tab'[u]]
    BY <1>5 DEF Answers, Inv, TypeOK
  <2>2. \A u \in Tabs : tab'[u] \in Tab /\ Requests(tab'[u]) = Requests(tab[u])
    BY <1>9, <1>19, <2>1
  <2> QED BY <2>1, <2>2
<1>10. late' \subseteq late /\ UNCHANGED <<stored, clicks>>
  BY <1>5 DEF Answers
<1>11. Alive' \subseteq Alive /\ Alive \subseteq Click
  BY <1>18, <1>10, AliveType DEF Alive, Inv
<1>12. TypeOK'
  BY <1>3, <1>6, <1>8, <1>18, <1>10 DEF Inv, TypeOK
<1>13. Counted'
  BY <1>3, <1>6, <1>7 DEF Inv, Counted
<1>14. IdsMade'
  BY <1>1, <1>3, <1>6, <1>7, <1>10, <1>11 DEF Inv, IdsMade
<1>15. AppliedAtItsRevision'
  <2>1. ASSUME NEW c \in Alive, NEW i \in 1 .. rev + 1, history'[i].id = c.id
        PROVE  i = c.rev + 1
    <3>1. CASE i \in 1 .. rev
      BY <1>3, <1>6, <2>1, <3>1 DEF Inv, AppliedAtItsRevision
    <3>2. CASE i = rev + 1
      BY <1>1, <1>6, <1>7, <2>1, <3>2 DEF Inv, IdsMade
    <3> QED BY <1>3, <3>1, <3>2
  <2> QED BY <1>6, <1>11, <2>1 DEF AppliedAtItsRevision
<1>16. AppliedOnce'
  BY <1>2, <1>3, <1>6, <1>7 DEF Inv, AppliedOnce
<1>17. ASSUME NEW u \in Tabs
       PROVE  TabInv(tab[u])'
  <2>1. TabInv(tab[u]) /\ tab[u] \in Tab
    BY DEF Inv, TypeOK
  <2>2. CASE tab'[u] = tab[u]
    <3>1. tab[u].rev \in Nat /\ tab[u].seen \in Nat
      BY <2>1, TabFields
    <3>2. IsApplied(tab[u].answer) => tab[u].answer.rev \in Nat
      BY <2>1, AppliedType DEF Applied
    <3> QED BY <1>3, <2>1, <2>2, <3>1, <3>2 DEF TabInv
  <2>3. CASE u = t /\ tab'[u] = [tab[u] EXCEPT !.answer = answer]
    <3>1. tab[u].sent = click /\ click # None
      BY <1>1, <2>3 DEF Reaches
    <3>2. /\ tab'[u].rev = tab[u].rev /\ tab'[u].job = tab[u].job
          /\ tab'[u].seen = tab[u].seen /\ tab'[u].open = tab[u].open
          /\ tab'[u].busy = tab[u].busy /\ tab'[u].sent = tab[u].sent
          /\ tab'[u].answer = answer
      BY <2>1, <2>3 DEF Tab
    <3>3. tab[u].rev \in Nat /\ tab[u].seen \in Nat
      BY <2>1, TabFields
    <3> QED BY <1>1, <1>3, <1>7, <2>1, <3>1, <3>2, <3>3 DEF TabInv
  <2> QED BY <1>9, <2>2, <2>3
<1> QED BY <1>8, <1>12, <1>13, <1>14, <1>15, <1>16, <1>17 DEF Inv

--------------------------------------------------------------------------------
(* A request id is made *)

\* An action that is not a retry.
LEMMA NewRequestKeeps ==
    ASSUME Inv, NEW t \in Tabs, NEW input \in Inputs, Enabled(t),
           clicks < MaxClicks, clicks' = clicks + 1,
           Sends(t, [id |-> clicks + 1, input |-> input, rev |-> tab[t].rev]),
           UNCHANGED <<server, stored, late>>
    PROVE  Inv'
<1> DEFINE click == [id |-> clicks + 1, input |-> input, rev |-> tab[t].rev]
           new == [tab[t] EXCEPT !.pending = click, !.sent = click]
<1>1. /\ tab[t] \in Tab /\ TabInv(tab[t]) /\ tab[t].rev \in Nat /\ rev \in Nat
      /\ clicks \in Nat /\ MaxClicks \in Nat
  BY PlayAssumption, TabFields DEF Inv, TypeOK
<1>2. click \in Click /\ click # None
  BY <1>1, AnswerAssumption DEF Click
<1>3. /\ click.id = clicks + 1 /\ click.rev = tab[t].rev
  OBVIOUS
<1> HIDE DEF click
<1>4. /\ tab' \in [Tabs -> Tab] /\ tab'[t] = new /\ \A u \in Tabs \ {t} : tab'[u] = tab[u]
  <2>1. new \in Tab
    BY <1>1, <1>2 DEF Tab
  <2>2. tab' = [tab EXCEPT ![t] = new]
    BY DEF Sends, Becomes, click
  <2> HIDE DEF new
  <2> QED BY <2>1, <2>2 DEF Inv, TypeOK
<1>5. Requests(new) = {click}
  BY <1>1, <1>2 DEF Requests, Tab
<1>6. Alive' \subseteq Alive \cup {click}
  BY <1>4, <1>5 DEF Alive
<1>7. late' \subseteq Click /\ clicks' \in 0 .. MaxClicks
  BY <1>1 DEF Inv, TypeOK
<1>8. TypeOK'
  BY <1>4, <1>7 DEF Inv, TypeOK, server
<1>9. Counted' /\ LastKept' /\ AppliedOnce'
  BY DEF Inv, server, Counted, LastKept, LastOf, AppliedOnce
<1>10. /\ Alive \subseteq Click /\ history \in Seq(Applied)
       /\ \A c \in Alive : c.id \in Nat /\ c.id <= clicks
       /\ \A i \in DOMAIN history : history[i].id \in Nat /\ history[i].id <= clicks
  <2>1. Alive \subseteq Click
    BY AliveType DEF Inv
  <2>2. \A i \in DOMAIN history : history[i] \in Applied
    BY ElementOfSeq, LenProperties DEF Inv, TypeOK
  <2> QED BY <2>1, <2>2, <1>1 DEF Inv, TypeOK, IdsMade, Click, Applied
<1>11. IdsMade'
  <2>1. \A c \in Alive : c.id # click.id
    BY <1>1, <1>3, <1>10
  <2>2. \A c \in Alive' : c.id <= clicks'
    BY <1>1, <1>3, <1>6, <1>10
  <2>3. \A i \in DOMAIN history : history[i].id <= clicks'
    BY <1>1, <1>10
  <2> QED BY <1>6, <2>1, <2>2, <2>3 DEF Inv, IdsMade, server
<1>12. AppliedAtItsRevision'
  <2>1. \A i \in DOMAIN history : history[i].id # click.id
    BY <1>1, <1>3, <1>10
  <2> QED BY <1>6, <2>1 DEF Inv, AppliedAtItsRevision, server
<1>13. ASSUME NEW u \in Tabs
       PROVE  TabInv(tab[u])'
  <2>1. CASE u = t
    <3>1. /\ new.rev = tab[t].rev /\ new.job = tab[t].job /\ new.seen = tab[t].seen
          /\ new.open = tab[t].open /\ new.busy = tab[t].busy /\ new.sent = click
          /\ new.answer = tab[t].answer
      BY <1>1 DEF Tab
    <3>2. tab[t].sent = None /\ tab[t].open /\ tab[t].job # "get"
      BY <1>1 DEF Enabled, TabInv
    <3>3. tab[t].answer = None
      BY <1>1, <3>2 DEF TabInv
    <3> QED BY <1>1, <1>3, <1>4, <2>1, <3>1, <3>2, <3>3 DEF TabInv, IsApplied, server
  <2>2. CASE u # t
    <3>1. TabInv(tab[u]) /\ tab'[u] = tab[u]
      BY <1>4, <2>2 DEF Inv
    <3> QED BY <3>1 DEF TabInv, server
  <2> QED BY <2>1, <2>2
<1> QED BY <1>8, <1>9, <1>11, <1>12, <1>13 DEF Inv

--------------------------------------------------------------------------------
(* What a tab does *)

LEMMA ActKeeps ==
    ASSUME Inv, NEW t \in Tabs, NEW input \in Inputs, Act(t, input)
    PROVE  Inv'
<1>1. CASE Retries(t, input) /\ Sends(t, tab[t].pending)
  <2> DEFINE new == [tab[t] EXCEPT !.pending = tab[t].pending, !.sent = tab[t].pending]
  <2>1. /\ tab[t] \in Tab /\ TabInv(tab[t]) /\ tab[t].pending \in Click
        /\ tab[t].pending # None /\ tab[t].pending.rev = tab[t].rev
    BY <1>1, TabFields DEF Inv, TypeOK, Retries
  <2>2. new \in Tab /\ Requests(new) \subseteq Requests(tab[t])
    BY <2>1 DEF Tab, Requests
  <2>3. tab[t].sent = None /\ tab[t].open /\ tab[t].job # "get"
    BY <2>1 DEF Act, Enabled, TabInv
  <2>4. TabInv(new)
    <3>1. /\ new.rev = tab[t].rev /\ new.job = tab[t].job /\ new.open = tab[t].open
          /\ new.sent = tab[t].pending /\ new.answer = tab[t].answer
      BY <2>1 DEF Tab
    <3>2. tab[t].answer = None
      BY <2>1, <2>3 DEF TabInv
    <3> QED BY <2>1, <2>3, <3>1, <3>2 DEF TabInv, IsApplied
  <2>5. Becomes(t, new) /\ UNCHANGED <<server, clicks, stored, late>>
    BY <1>1 DEF Sends, Act
  <2> QED BY <2>2, <2>4, <2>5, MoveIsQuiet DEF Inv, TypeOK
<1>2. CASE ~Retries(t, input)
  BY <1>2, NewRequestKeeps DEF Act
<1> QED BY <1>1, <1>2 DEF Act

\* cursor, timeline and cache are of the right types after a commit.
LEMMA CommitType ==
    ASSUME Inv, NEW t \in Tabs, NEW new \in Tab, NEW cursor \in Nat,
           NEW timeline \in Seq(Nat), Commits(t, new, cursor, timeline)
    PROVE  stored' \in [Tabs -> [cursor : Nat, timeline : Seq(Nat)]]
<1>1. Len(timeline) \in Nat /\ \A i \in 1 .. Len(timeline) : timeline[i] \in Nat
  BY LenProperties, ElementOfSeq
<1>2. PICK m \in Int : m = IF Len(timeline) > MaxStored THEN Len(timeline) - MaxStored + 1 ELSE 1
  <2>1. Len(timeline) - MaxStored + 1 \in Int /\ 1 \in Int
    BY <1>1, PlayAssumption
  <2> QED BY <2>1, Zenon
<1>3. m >= 1
  BY <1>1, <1>2, PlayAssumption
<1>4. SubSeq(timeline, m, Len(timeline)) \in Seq(Nat)
  BY <1>1, <1>3, SubSeqProperties
<1> QED BY <1>2, <1>4 DEF Commits, Inv, TypeOK

LEMMA TakeAppliedKeeps ==
    ASSUME Inv, NEW t \in Tabs, TakeApplied(t)
    PROVE  Inv'
<1> DEFINE answer == tab[t].answer
           cursor == AfterDelta(t, answer)
           timeline == tab[t].timeline \o Events(answer.first - 1, answer.last)
           taken == [tab[t] EXCEPT !.pending = None, !.sent = None, !.answer = None,
                                   !.rev = answer.rev]
           new == [taken EXCEPT !.cursor = cursor, !.timeline = timeline]
<1>1. tab[t] \in Tab /\ TabInv(tab[t]) /\ IsApplied(answer)
  BY DEF Inv, TypeOK, TakeApplied, IsApplied
<1>2. /\ answer \in Applied /\ answer.first \in Nat /\ answer.last \in Nat /\ answer.rev \in Nat
      /\ answer.rev <= rev
  BY <1>1, AppliedType DEF Applied, TabInv
<1>3. timeline \in Seq(Nat)
  <2>1. Events(answer.first - 1, answer.last) \in Seq(Nat)
    <3>1. answer.first - 1 \in Int /\ answer.last \in Int /\ answer.first - 1 >= -1
      BY <1>2
    <3> QED BY <3>1, EventsType, Zenon
  <2> QED BY <1>1, <2>1, TabFields, ConcatProperties
<1>4. cursor \in Nat
  <2>1. answer.first <= answer.last /\ tab[t].cursor \in Nat
    BY <1>1, <1>2, TabFields DEF Applied
  <2> QED BY <1>2, <2>1 DEF AfterDelta
<1>5. taken \in Tab /\ Commits(t, taken, cursor, timeline)
  BY <1>1, <1>2 DEF Tab, TakeApplied
<1> HIDE DEF cursor, timeline
<1>6. stored' \in [Tabs -> [cursor : Nat, timeline : Seq(Nat)]]
  BY <1>3, <1>4, <1>5, CommitType
<1>7. new \in Tab /\ Requests(new) = {}
  BY <1>1, <1>2, <1>3, <1>4 DEF Tab, Requests
<1>8. TabInv(new)
  <2>1. /\ new.rev = answer.rev /\ new.job = tab[t].job /\ new.sent = None
        /\ new.answer = None
    BY <1>1 DEF Tab
  <2>2. new.job # "get"
    BY <1>1, <2>1, AnswerAssumption DEF TabInv, IsApplied
  <2> QED BY <1>2, <2>1, <2>2 DEF TabInv, IsApplied
<1>9. Becomes(t, new) /\ UNCHANGED <<server, late, clicks>>
  BY <1>5 DEF Commits, TakeApplied
<1> HIDE DEF new
<1> QED BY <1>6, <1>7, <1>8, <1>9, MoveIsQuiet

\* The session is fetched for a tab that waits for no action.
LEMMA FetchKeeps ==
    ASSUME Inv, NEW t \in Tabs, NEW new \in Tab, NEW busy \in BOOLEAN,
           Fetches(t, new, busy), UNCHANGED <<server, stored, late, clicks>>,
           Requests(new) \subseteq Requests(tab[t]),
           new.rev = tab[t].rev, new.sent = None, new.answer = None,
           new.open => busy
    PROVE  Inv'
<1> DEFINE got == [new EXCEPT !.job = "get", !.busy = busy, !.seen = rev]
<1>1. tab[t].rev <= rev /\ rev \in Nat
  BY DEF Inv, TypeOK, TabInv
<1>2. got \in Tab /\ Requests(got) = Requests(new)
  BY <1>1 DEF Tab, Requests
<1>3. /\ got.rev = tab[t].rev /\ got.seen = rev /\ got.job = "get" /\ got.busy = busy
      /\ got.open = new.open /\ got.sent = None /\ got.answer = None
  BY DEF Tab
<1>4. TabInv(got)
  <2> HIDE DEF got
  <2> QED BY <1>1, <1>3 DEF TabInv, IsApplied
<1>5. Becomes(t, got)
  BY DEF Fetches
<1> HIDE DEF got
<1> QED BY <1>2, <1>4, <1>5, MoveIsQuiet DEF Inv, TypeOK

LEMMA TakeConflictKeeps ==
    ASSUME Inv, NEW t \in Tabs, TakeConflict(t)
    PROVE  Inv'
<1> DEFINE new == [tab[t] EXCEPT !.sent = None, !.answer = None]
<1>1. tab[t] \in Tab
  BY DEF Inv, TypeOK
<1>2. /\ new \in Tab /\ Requests(new) \subseteq Requests(tab[t])
      /\ new.rev = tab[t].rev /\ new.sent = None /\ new.answer = None
  BY <1>1 DEF Tab, Requests
<1>3. Fetches(t, new, TRUE) /\ UNCHANGED <<server, stored, late, clicks>>
  BY DEF TakeConflict
<1> HIDE DEF new
<1> QED BY <1>2, <1>3, FetchKeeps

\* A tab at rest waits for no answer.
LEMMA RestingTab ==
    ASSUME Inv, NEW t \in Tabs, tab[t].sent = None
    PROVE  tab[t] \in Tab /\ tab[t].answer = None
BY DEF Inv, TypeOK, TabInv

LEMMA ResumeKeeps ==
    ASSUME Inv, NEW t \in Tabs, Resume(t)
    PROVE  Inv'
<1>1. tab[t] \in Tab /\ tab[t].sent = None /\ tab[t].answer = None
  BY DEF Inv, TypeOK, TabInv, Resume
<1> QED BY <1>1, FetchKeeps DEF Resume

LEMMA RefreshKeeps ==
    ASSUME Inv, NEW t \in Tabs, Refresh(t)
    PROVE  Inv'
BY RestingTab, FetchKeeps DEF Refresh

\* A tab that stops waiting, or is closed, leaves at most its request behind.
LEMMA LeavesBehindAlive ==
    ASSUME NEW t \in Tabs, LeavesBehind(t)
    PROVE  late' \subseteq late \cup Requests(tab[t])
BY DEF LeavesBehind, Requests

LEMMA TakeRejectedKeeps ==
    ASSUME Inv, NEW t \in Tabs, TakeRejected(t) \/ GiveUp(t)
    PROVE  Inv'
<1> DEFINE new == [tab[t] EXCEPT !.sent = None, !.answer = None]
<1>1. tab[t] \in Tab /\ TabInv(tab[t]) /\ tab[t].sent # None
  BY AnswerAssumption DEF Inv, TypeOK, TakeRejected, GiveUp, TabInv
<1>2. new \in Tab /\ Requests(new) \subseteq Requests(tab[t])
  BY <1>1 DEF Tab, Requests
<1>3. TabInv(new)
  BY <1>1 DEF TabInv, IsApplied, Tab
<1>4. Becomes(t, new) /\ UNCHANGED <<server, stored, clicks>>
  BY DEF TakeRejected, GiveUp
<1>5. late' \subseteq late \cup Requests(tab[t])
  BY LeavesBehindAlive DEF TakeRejected, GiveUp
<1> QED BY <1>2, <1>3, <1>4, <1>5, MoveIsQuiet DEF Inv, TypeOK

LEMMA ReloadKeeps ==
    ASSUME Inv, NEW t \in Tabs, Reload(t)
    PROVE  Inv'
<1>1. Closed \in Tab /\ Requests(Closed) = {} /\ rev \in Nat
  BY DEF Closed, Tab, Requests, Inv, TypeOK
<1>2. TabInv(Closed)
  BY <1>1 DEF TabInv, Closed, IsApplied
<1> QED BY <1>1, <1>2, LeavesBehindAlive, MoveIsQuiet DEF Reload, Inv, TypeOK

--------------------------------------------------------------------------------
(* What a sync does *)

\* A tab whose session, job and timeline change, but whose action does not.
LEMMA JobKeeps ==
    ASSUME Inv, NEW t \in Tabs, NEW new \in Tab, Becomes(t, new),
           UNCHANGED <<server, late, clicks>>,
           stored' \in [Tabs -> [cursor : Nat, timeline : Seq(Nat)]],
           new.pending = tab[t].pending, new.sent = tab[t].sent, new.answer = tab[t].answer,
           new.rev = tab[t].rev, new.open = tab[t].open, new.job # "get"
    PROVE  Inv'
<1>1. TabInv(new)
  BY DEF Inv, TabInv, IsApplied
<1>2. Requests(new) = Requests(tab[t])
  BY DEF Requests
<1> QED BY <1>1, <1>2, MoveIsQuiet

LEMMA TakeSessionKeeps ==
    ASSUME Inv, NEW t \in Tabs, TakeSession(t)
    PROVE  Inv'
<1> DEFINE shown == IF tab[t].open
                    THEN [cursor |-> tab[t].cursor, timeline |-> tab[t].timeline]
                    ELSE stored[t]
           new == [tab[t] EXCEPT !.open = TRUE, !.rev = tab[t].seen, !.seen = 0,
                                 !.cursor = shown.cursor, !.timeline = shown.timeline,
                                 !.job = "sync", !.page = 0,
                                 !.from = shown.cursor, !.collected = shown.timeline]
<1>1. /\ tab[t] \in Tab /\ TabInv(tab[t]) /\ tab[t].job = "get" /\ tab[t].seen \in Nat
      /\ tab[t].cursor \in Nat /\ tab[t].timeline \in Seq(Nat)
  BY TabFields DEF Inv, TypeOK, TakeSession
<1>2. stored[t] \in [cursor : Nat, timeline : Seq(Nat)]
  BY DEF Inv, TypeOK
<1>3. shown.cursor \in Nat /\ shown.timeline \in Seq(Nat)
  BY <1>1, <1>2
<1>4. Becomes(t, new) /\ UNCHANGED <<server, stored, late, clicks>>
  BY DEF TakeSession
<1> HIDE DEF shown
<1>5. new \in Tab /\ Requests(new) = Requests(tab[t])
  BY <1>1, <1>3 DEF Tab, Requests
<1>6. /\ new.rev = tab[t].seen /\ new.job = "sync"
      /\ new.sent = tab[t].sent /\ new.answer = tab[t].answer
  BY <1>1 DEF Tab
<1>7. TabInv(new)
  <2> HIDE DEF new
  <2>1. new.sent = None /\ new.answer = None
    BY <1>1, <1>6 DEF TabInv
  <2> QED BY <1>1, <1>6, <2>1 DEF TabInv, IsApplied
<1> HIDE DEF new
<1> QED BY <1>4, <1>5, <1>7, MoveIsQuiet DEF Inv, TypeOK

LEMMA FetchFailsKeeps ==
    ASSUME Inv, NEW t \in Tabs, FetchFails(t)
    PROVE  Inv'
<1> DEFINE new == [tab[t] EXCEPT !.job = "none", !.busy = FALSE, !.seen = 0]
<1>1. tab[t] \in Tab
  BY DEF Inv, TypeOK
<1>2. /\ new \in Tab /\ new.pending = tab[t].pending /\ new.sent = tab[t].sent
      /\ new.answer = tab[t].answer /\ new.rev = tab[t].rev /\ new.open = tab[t].open
      /\ new.job = "none"
  BY <1>1 DEF Tab
<1> QED BY <1>2, JobKeeps DEF FetchFails, Inv, TypeOK

LEMMA RebuildKeeps ==
    ASSUME Inv, NEW t \in Tabs, Rebuild(t)
    PROVE  Inv'
<1> DEFINE new == [tab[t] EXCEPT !.page = 1, !.from = 0, !.collected = <<>>]
<1>1. tab[t] \in Tab /\ tab[t].job = "sync"
  BY DEF Inv, TypeOK, Rebuild
<1>2. new \in Tab
  <2>1. PICK e \in Seq(Nat) : e = <<>>
    BY EmptySeq
  <2>2. [tab[t] EXCEPT !.page = 1, !.from = 0, !.collected = e] \in Tab
    BY <1>1 DEF Tab
  <2> QED BY <2>1, <2>2, Zenon
<1>3. /\ new.pending = tab[t].pending /\ new.sent = tab[t].sent
      /\ new.answer = tab[t].answer /\ new.rev = tab[t].rev /\ new.open = tab[t].open
      /\ new.job = "sync"
  BY <1>1 DEF Tab
<1> QED BY <1>2, <1>3, JobKeeps DEF Rebuild, Inv, TypeOK

LEMMA PageKeeps ==
    ASSUME Inv, NEW t \in Tabs, Page(t)
    PROVE  Inv'
<1> DEFINE upto == IF tab[t].from + MaxWindow < total THEN tab[t].from + MaxWindow ELSE total
           read == tab[t].collected \o Events(tab[t].from, upto)
           job == IF HasMore(upto) THEN "sync" ELSE "commit"
           new == [tab[t] EXCEPT !.page = 1, !.from = upto, !.collected = read, !.job = job]
<1>1. tab[t] \in Tab /\ tab[t].from \in Nat /\ tab[t].collected \in Seq(Nat) /\ total \in Nat
  BY TabFields DEF Inv, TypeOK
<1>2. upto \in Nat /\ tab[t].from \in Int /\ tab[t].from >= -1
  BY <1>1, PlayAssumption
<1>3. Becomes(t, new) /\ UNCHANGED <<server, stored, late, clicks>>
  BY DEF Page
<1> HIDE DEF upto
<1>4. read \in Seq(Nat)
  <2>1. upto \in Int
    BY <1>2
  <2>2. Events(tab[t].from, upto) \in Seq(Nat)
    BY <1>2, <2>1, EventsType, Zenon
  <2> QED BY <1>1, <2>2, ConcatProperties
<1> HIDE DEF read
<1>5. job \in {"sync", "commit"}
  OBVIOUS
<1> HIDE DEF job
<1>6. new \in Tab
  BY <1>1, <1>2, <1>4, <1>5 DEF Tab
<1>7. /\ new.pending = tab[t].pending /\ new.sent = tab[t].sent
      /\ new.answer = tab[t].answer /\ new.rev = tab[t].rev /\ new.open = tab[t].open
      /\ new.job = job
  BY <1>1 DEF Tab
<1> HIDE DEF new
<1> QED BY <1>3, <1>5, <1>6, <1>7, JobKeeps DEF Inv, TypeOK

\* After a sync, kept or not.
LEMMA AfterSyncFields ==
    ASSUME NEW s \in Tab
    PROVE  /\ AfterSync(s) \in Tab
           /\ AfterSync(s).pending = s.pending /\ AfterSync(s).sent = s.sent
           /\ AfterSync(s).answer = s.answer /\ AfterSync(s).rev = s.rev
           /\ AfterSync(s).open = s.open /\ AfterSync(s).job = "none"
<1>1. AfterSync(s) \in Tab
  <2>1. PICK e \in Seq(Nat) : e = <<>>
    BY EmptySeq
  <2>2. [s EXCEPT !.job = "none", !.busy = FALSE, !.page = 0, !.from = 0, !.collected = e] \in Tab
    BY DEF Tab
  <2> QED BY <2>1, <2>2, Zenon DEF AfterSync
<1>2. /\ AfterSync(s).pending = s.pending /\ AfterSync(s).sent = s.sent
      /\ AfterSync(s).answer = s.answer
  BY DEF AfterSync, Tab
<1>3. /\ AfterSync(s).rev = s.rev /\ AfterSync(s).open = s.open
      /\ AfterSync(s).job = "none"
  BY DEF AfterSync, Tab
<1> QED BY <1>1, <1>2, <1>3

LEMMA SyncFailsKeeps ==
    ASSUME Inv, NEW t \in Tabs, SyncFails(t)
    PROVE  Inv'
<1>1. tab[t] \in Tab
  BY DEF Inv, TypeOK
<1> QED BY <1>1, AfterSyncFields, JobKeeps DEF SyncFails, Inv, TypeOK

LEMMA EndSyncKeeps ==
    ASSUME Inv, NEW t \in Tabs, EndSync(t)
    PROVE  Inv'
<1> DEFINE after == AfterSync(tab[t])
           new == [after EXCEPT !.cursor = tab[t].from, !.timeline = tab[t].collected]
<1>1. tab[t] \in Tab /\ tab[t].from \in Nat /\ tab[t].collected \in Seq(Nat)
  BY TabFields DEF Inv, TypeOK
<1>2. /\ after \in Tab /\ after.pending = tab[t].pending /\ after.sent = tab[t].sent
      /\ after.answer = tab[t].answer /\ after.rev = tab[t].rev /\ after.open = tab[t].open
      /\ after.job = "none"
  BY <1>1, AfterSyncFields
<1>3. Commits(t, after, tab[t].from, tab[t].collected) /\ UNCHANGED <<server, late, clicks>>
  BY DEF EndSync
<1> HIDE DEF after
<1>4. stored' \in [Tabs -> [cursor : Nat, timeline : Seq(Nat)]]
  BY <1>1, <1>2, <1>3, CommitType
<1>5. /\ new \in Tab /\ new.pending = tab[t].pending /\ new.sent = tab[t].sent
      /\ new.answer = tab[t].answer /\ new.rev = tab[t].rev /\ new.open = tab[t].open
      /\ new.job = "none"
  BY <1>1, <1>2 DEF Tab
<1>6. Becomes(t, new)
  BY <1>3 DEF Commits
<1> HIDE DEF new
<1> QED BY <1>3, <1>4, <1>5, <1>6, JobKeeps

--------------------------------------------------------------------------------
(* The theorems *)

LEMMA InitHolds == Init => Inv
<1> SUFFICES ASSUME Init PROVE Inv
  OBVIOUS
<1>1. Closed \in Tab /\ Requests(Closed) = {}
  BY DEF Closed, Tab, Requests
<1>2. /\ <<>> \in Seq(Applied) /\ <<>> \in Seq(Nat) /\ Len(<<>>) = 0 /\ DOMAIN <<>> = 1 .. 0
  BY EmptySeq, LenProperties
<1>3. TypeOK
  BY <1>1, <1>2, PlayAssumption DEF Init, TypeOK
<1>4. Counted /\ LastKept /\ AppliedOnce
  BY <1>2, PlayAssumption DEF Init, Counted, LastKept, LastOf, AppliedOnce
<1>5. Alive = {}
  BY <1>1 DEF Init, Alive
<1>6. IdsMade /\ AppliedAtItsRevision
  BY <1>2, <1>5 DEF Init, IdsMade, AppliedAtItsRevision
<1>7. \A t \in Tabs : TabInv(tab[t])
  BY DEF Init, Closed, TabInv, IsApplied
<1> QED BY <1>3, <1>4, <1>6, <1>7 DEF Inv

LEMMA ServeKeeps ==
    ASSUME Inv, NEW t \in Tabs \cup {Nobody}, NEW click, Serve(t, click)
    PROVE  Inv'
BY ReplayKeeps, RefuseKeeps, RejectKeeps, ApplyKeeps DEF Serve

LEMMA StepHolds == Inv /\ [Next]_vars => Inv'
<1> SUFFICES ASSUME Inv, [Next]_vars PROVE Inv'
  OBVIOUS
<1>1. ASSUME NEW t \in Tabs, Serve(t, tab[t].sent)
      PROVE  Inv'
  BY <1>1, ServeKeeps
<1>2. ASSUME NEW click \in late, Serve(Nobody, click)
      PROVE  Inv'
  BY <1>2, ServeKeeps
<1>3. ASSUME NEW t \in Tabs, NEW input \in Inputs, Act(t, input)
      PROVE  Inv'
  BY <1>3, ActKeeps
<1>4. ASSUME NEW t \in Tabs,
             \/ TakeApplied(t) \/ TakeConflict(t) \/ TakeRejected(t) \/ GiveUp(t)
      PROVE  Inv'
  BY <1>4, TakeAppliedKeeps, TakeConflictKeeps, TakeRejectedKeeps
<1>5. ASSUME NEW t \in Tabs,
             \/ Resume(t) \/ Refresh(t) \/ Reload(t) \/ TakeSession(t)
             \/ FetchFails(t) \/ Rebuild(t) \/ Page(t) \/ EndSync(t) \/ SyncFails(t)
      PROVE  Inv'
  BY <1>5, ResumeKeeps, RefreshKeeps, ReloadKeeps, TakeSessionKeeps, FetchFailsKeeps,
     RebuildKeeps, PageKeeps, EndSyncKeeps, SyncFailsKeeps
<1>6. CASE UNCHANGED vars
  <2>1. Alive' = Alive
    BY <1>6 DEF vars, Alive
  <2>2. \A t \in Tabs : TabInv(tab[t])'
    BY <1>6 DEF vars, Inv, TabInv
  <2> QED BY <1>6, <2>1, <2>2, QuietKeeps DEF Quiet, vars, server, Inv, TypeOK
<1> QED BY <1>1, <1>2, <1>3, <1>4, <1>5, <1>6 DEF Next

\* The inductive invariant holds in every reachable state.
THEOREM Invariance == Spec => []Inv
BY InitHolds, StepHolds, PTL DEF Spec

\* The state of server and tabs is well typed, and no more answers are kept than
\* MaxProcessed (_commit_action).
THEOREM TypeCorrect == Spec => []TypeOK
<1>1. Inv => TypeOK
  BY DEF Inv
<1> QED BY <1>1, Invariance, PTL

\* No action is applied twice, for any number of tabs that retry, give up and
\* come back late, and however few answers are kept (act_generic).
THEOREM NeverTwice == Spec => []AppliedOnce
<1>1. Inv => AppliedOnce
  BY DEF Inv
<1> QED BY <1>1, Invariance, PTL

--------------------------------------------------------------------------------
(* What a step does to one tab *)

\* The tab is told nothing new, and does not go back.
Proceeds(t) ==
    /\ tab'[t].answer \in {tab[t].answer, None}
    /\ tab[t].open /\ tab'[t].open => tab'[t].rev >= tab[t].rev

LEMMA BecomesProceeds ==
    ASSUME Inv, NEW t \in Tabs, NEW u \in Tabs, NEW new, Becomes(u, new),
           new.answer \in {tab[u].answer, None},
           tab[u].open /\ new.open => new.rev >= tab[u].rev
    PROVE  Proceeds(t)
<1>1. tab[t].rev \in Nat /\ tab \in [Tabs -> Tab]
  BY TabFields DEF Inv, TypeOK
<1>2. CASE t = u
  BY <1>1, <1>2 DEF Becomes, Proceeds
<1>3. CASE t # u
  BY <1>1, <1>3 DEF Becomes, Proceeds
<1> QED BY <1>2, <1>3

LEMMA ActProceeds ==
    ASSUME Inv, NEW t \in Tabs, NEW u \in Tabs, NEW input, Act(u, input)
    PROVE  Proceeds(t)
<1>1. PICK click : Sends(u, click)
  BY DEF Act
<1> DEFINE new == [tab[u] EXCEPT !.pending = click, !.sent = click]
<1>2. tab[u] \in Tab /\ tab[u].rev \in Nat
  BY TabFields DEF Inv, TypeOK
<1>3. new.answer = tab[u].answer /\ new.rev = tab[u].rev
  BY <1>2 DEF Tab
<1>4. Becomes(u, new)
  BY <1>1 DEF Sends
<1> HIDE DEF new
<1> QED BY <1>2, <1>3, <1>4, BecomesProceeds

LEMMA AnswerTakenProceeds ==
    ASSUME Inv, NEW t \in Tabs, NEW u \in Tabs,
           TakeApplied(u) \/ TakeConflict(u) \/ TakeRejected(u) \/ GiveUp(u)
    PROVE  Proceeds(t)
<1>1. tab[u] \in Tab /\ TabInv(tab[u]) /\ tab[u].rev \in Nat
  BY TabFields DEF Inv, TypeOK
<1>2. CASE TakeApplied(u)
  <2>1. IsApplied(tab[u].answer) /\ tab[u].sent # None
    BY <1>1, <1>2 DEF TakeApplied, IsApplied, TabInv
  <2>2. tab[u].answer.rev = tab[u].rev + 1
    BY <1>1, <2>1 DEF TabInv
  <2>3. PICK cursor, timeline :
            Becomes(u, [[tab[u] EXCEPT !.pending = None, !.sent = None, !.answer = None,
                                       !.rev = tab[u].answer.rev]
                        EXCEPT !.cursor = cursor, !.timeline = timeline])
    BY <1>2 DEF TakeApplied, Commits
  <2> DEFINE new == [[tab[u] EXCEPT !.pending = None, !.sent = None, !.answer = None,
                                    !.rev = tab[u].answer.rev]
                     EXCEPT !.cursor = cursor, !.timeline = timeline]
  <2>4. new.answer = None /\ new.rev = tab[u].answer.rev
    BY <1>1 DEF Tab
  <2>5. new.rev >= tab[u].rev
    BY <1>1, <2>2, <2>4
  <2> HIDE DEF new
  <2> QED BY <2>3, <2>4, <2>5, BecomesProceeds DEF new
<1>3. CASE TakeConflict(u)
  <2> DEFINE new == [[tab[u] EXCEPT !.sent = None, !.answer = None]
                     EXCEPT !.job = "get", !.busy = TRUE, !.seen = rev]
  <2>1. Becomes(u, new)
    BY <1>3 DEF TakeConflict, Fetches
  <2>2. new.answer = None /\ new.rev = tab[u].rev
    BY <1>1 DEF Tab
  <2> HIDE DEF new
  <2> QED BY <1>1, <2>1, <2>2, BecomesProceeds
<1>4. CASE TakeRejected(u) \/ GiveUp(u)
  <2> DEFINE new == [tab[u] EXCEPT !.sent = None, !.answer = None]
  <2>1. Becomes(u, new)
    BY <1>4 DEF TakeRejected, GiveUp
  <2>2. new.answer = None /\ new.rev = tab[u].rev
    BY <1>1 DEF Tab
  <2> HIDE DEF new
  <2> QED BY <1>1, <2>1, <2>2, BecomesProceeds
<1> QED BY <1>2, <1>3, <1>4

LEMMA SessionProceeds ==
    ASSUME Inv, NEW t \in Tabs, NEW u \in Tabs,
           Resume(u) \/ Refresh(u) \/ Reload(u) \/ TakeSession(u) \/ FetchFails(u)
    PROVE  Proceeds(t)
<1>1. tab[u] \in Tab /\ TabInv(tab[u]) /\ tab[u].rev \in Nat
  BY TabFields DEF Inv, TypeOK
<1>2. CASE Resume(u) \/ Refresh(u)
  <2>1. PICK busy : Fetches(u, tab[u], busy)
    BY <1>2 DEF Resume, Refresh
  <2> DEFINE new == [tab[u] EXCEPT !.job = "get", !.busy = busy, !.seen = rev]
  <2>2. Becomes(u, new)
    BY <2>1 DEF Fetches
  <2>3. new.answer = tab[u].answer /\ new.rev = tab[u].rev
    BY <1>1 DEF Tab
  <2> HIDE DEF new
  <2> QED BY <1>1, <2>2, <2>3, BecomesProceeds
<1>3. CASE Reload(u)
  <2>1. Becomes(u, Closed) /\ Closed.answer = None /\ ~Closed.open
    BY <1>3 DEF Reload, Closed
  <2> QED BY <2>1, BecomesProceeds
<1>4. CASE TakeSession(u)
  <2>1. PICK cursor, timeline :
            Becomes(u, [tab[u] EXCEPT !.open = TRUE, !.rev = tab[u].seen, !.seen = 0,
                                      !.cursor = cursor, !.timeline = timeline,
                                      !.job = "sync", !.page = 0,
                                      !.from = cursor, !.collected = timeline])
    BY <1>4 DEF TakeSession
  <2> DEFINE new == [tab[u] EXCEPT !.open = TRUE, !.rev = tab[u].seen, !.seen = 0,
                                   !.cursor = cursor, !.timeline = timeline,
                                   !.job = "sync", !.page = 0,
                                   !.from = cursor, !.collected = timeline]
  <2>2. new.answer = tab[u].answer /\ new.rev = tab[u].seen
    BY <1>1 DEF Tab
  <2>3. tab[u].seen >= tab[u].rev
    BY <1>1, <1>4, TabFields DEF TakeSession, TabInv
  <2> HIDE DEF new
  <2> QED BY <2>1, <2>2, <2>3, BecomesProceeds DEF new
<1>5. CASE FetchFails(u)
  <2> DEFINE new == [tab[u] EXCEPT !.job = "none", !.busy = FALSE, !.seen = 0]
  <2>1. Becomes(u, new)
    BY <1>5 DEF FetchFails
  <2>2. new.answer = tab[u].answer /\ new.rev = tab[u].rev
    BY <1>1 DEF Tab
  <2> HIDE DEF new
  <2> QED BY <1>1, <2>1, <2>2, BecomesProceeds
<1> QED BY <1>2, <1>3, <1>4, <1>5

LEMMA SyncProceeds ==
    ASSUME Inv, NEW t \in Tabs, NEW u \in Tabs,
           Rebuild(u) \/ Page(u) \/ EndSync(u) \/ SyncFails(u)
    PROVE  Proceeds(t)
<1>1. tab[u] \in Tab /\ tab[u].rev \in Nat
  BY TabFields DEF Inv, TypeOK
<1>2. CASE Rebuild(u)
  <2> DEFINE new == [tab[u] EXCEPT !.page = 1, !.from = 0, !.collected = <<>>]
  <2>1. Becomes(u, new)
    BY <1>2 DEF Rebuild
  <2>2. new.answer = tab[u].answer /\ new.rev = tab[u].rev
    BY <1>1 DEF Tab
  <2> HIDE DEF new
  <2> QED BY <1>1, <2>1, <2>2, BecomesProceeds
<1>5. CASE Page(u)
  <2> DEFINE upto == IF tab[u].from + MaxWindow < total THEN tab[u].from + MaxWindow ELSE total
             new == [tab[u] EXCEPT !.page = 1, !.from = upto,
                                   !.collected = tab[u].collected \o Events(tab[u].from, upto),
                                   !.job = IF HasMore(upto) THEN "sync" ELSE "commit"]
  <2>1. Becomes(u, new)
    BY <1>5 DEF Page
  <2> HIDE DEF upto
  <2>2. new.answer = tab[u].answer /\ new.rev = tab[u].rev
    BY <1>1 DEF Tab
  <2> HIDE DEF new
  <2> QED BY <1>1, <2>1, <2>2, BecomesProceeds
<1>3. CASE EndSync(u)
  <2> DEFINE after == AfterSync(tab[u])
             new == [after EXCEPT !.cursor = tab[u].from, !.timeline = tab[u].collected]
  <2>1. Becomes(u, new)
    BY <1>3 DEF EndSync, Commits
  <2>2. after \in Tab /\ after.answer = tab[u].answer /\ after.rev = tab[u].rev
    BY <1>1, AfterSyncFields
  <2> HIDE DEF after
  <2>3. new.answer = tab[u].answer /\ new.rev = tab[u].rev
    BY <2>2 DEF Tab
  <2> HIDE DEF new
  <2> QED BY <1>1, <2>1, <2>3, BecomesProceeds
<1>4. CASE SyncFails(u)
  <2>1. Becomes(u, AfterSync(tab[u]))
    BY <1>4 DEF SyncFails
  <2>2. AfterSync(tab[u]).answer = tab[u].answer /\ AfterSync(tab[u]).rev = tab[u].rev
    BY <1>1, AfterSyncFields
  <2> QED BY <1>1, <2>1, <2>2, BecomesProceeds
<1> QED BY <1>2, <1>3, <1>4, <1>5

\* Only the server tells a tab of a conflict, and it moves no screen.
LEMMA StepProceeds ==
    ASSUME Inv, Next, NEW t \in Tabs
    PROVE  \/ Proceeds(t)
           \/ \E click : Serve(t, click)
           \/ tab'[t] = tab[t]
<1>1. CASE \E u \in Tabs : Serve(u, tab[u].sent)
  <2>1. PICK u \in Tabs : Serve(u, tab[u].sent)
    BY <1>1
  <2>2. CASE u # t
    BY <2>1, <2>2 DEF Serve, Replay, Refuse, Reject, Apply, Answers, Inv, TypeOK
  <2> QED BY <2>1, <2>2
<1>2. CASE \E click \in late : Serve(Nobody, click)
  BY <1>2, PlayAssumption DEF Serve, Replay, Refuse, Reject, Apply, Answers
<1>3. CASE \E u \in Tabs, input \in Inputs : Act(u, input)
  BY <1>3, ActProceeds
<1>4. CASE \E u \in Tabs :
          \/ TakeApplied(u) \/ TakeConflict(u) \/ TakeRejected(u) \/ GiveUp(u)
          \/ Resume(u) \/ Refresh(u) \/ Reload(u) \/ TakeSession(u)
          \/ FetchFails(u) \/ Rebuild(u) \/ Page(u) \/ EndSync(u) \/ SyncFails(u)
  BY <1>4, AnswerTakenProceeds, SessionProceeds, SyncProceeds
<1> QED BY <1>1, <1>2, <1>3, <1>4 DEF Next

\* The server changes only the answer that a tab waits for.
LEMMA ServedFields ==
    ASSUME Inv, NEW t \in Tabs, NEW click, Serve(t, click)
    PROVE  tab'[t].rev = tab[t].rev /\ tab[t].rev \in Nat
<1>1. tab[t] \in Tab /\ tab[t].rev \in Nat
  BY TabFields DEF Inv, TypeOK
<1>2. PICK answer : Answers(t, click, answer)
  BY DEF Serve, Replay, Refuse, Reject, Apply
<1>3. tab'[t] = [tab[t] EXCEPT !.answer = answer]
  BY <1>2 DEF Answers, Inv, TypeOK
<1> QED BY <1>1, <1>3 DEF Tab

\* The answer to a request that is not known was forgotten, or never given.
LEMMA UnknownIsOld ==
    ASSUME Inv, NEW click, Known(click) = {},
           NEW i \in DOMAIN history, history[i].id = click.id
    PROVE  i + MaxProcessed <= Len(history)
<1>1. PICK P, H : P = Len(processed) /\ H = Len(history)
  OBVIOUS
<1>2. /\ P \in Nat /\ H \in Nat /\ MaxProcessed \in Nat \ {0}
      /\ DOMAIN processed = 1 .. P /\ i \in 1 .. H
      /\ P = IF H < MaxProcessed THEN H ELSE MaxProcessed
      /\ \A k \in 1 .. P : processed[k] = history[H - P + k]
  BY <1>1, LenProperties, PlayAssumption DEF Inv, TypeOK, LastKept, LastOf
<1>3. \A k \in 1 .. P : processed[k].id # click.id
  BY <1>2 DEF Known, Range
<1>4. H - P >= i
  <2>1. ASSUME H - P < i
        PROVE  FALSE
    <3>1. i - (H - P) \in 1 .. P /\ H - P + (i - (H - P)) = i
      BY <1>2, <2>1
    <3>2. processed[i - (H - P)] = history[i]
      BY <1>2, <3>1
    <3> QED BY <1>3, <3>1, <3>2
  <2> QED BY <1>2, <2>1
<1>5. H >= MaxProcessed /\ P = MaxProcessed
  BY <1>2, <1>4
<1>6. i + MaxProcessed <= H
  BY <1>2, <1>4, <1>5
<1> QED BY <1>1, <1>6

LEMMA ConflictStep ==
    ASSUME Inv, [Next]_vars, NEW t \in Tabs,
           tab'[t].answer = Conflict, tab[t].answer # Conflict,
           NEW i \in DOMAIN history, history[i].id = tab[t].sent.id
    PROVE  i + MaxProcessed <= Len(history)
<1>1. ~Proceeds(t) /\ tab'[t] # tab[t]
  BY AnswerAssumption DEF Proceeds
<1>2. PICK click : Serve(t, click)
  BY <1>1, StepProceeds DEF vars
<1>3. tab[t].sent = click /\ tab \in [Tabs -> Tab]
  BY <1>2 DEF Serve, Replay, Refuse, Reject, Apply, Reaches, Inv, TypeOK
<1>4. tab[t] \in Tab /\ click \in Alive
  BY <1>2, ReachesAlive DEF Serve, Replay, Refuse, Reject, Apply, Inv, TypeOK
<1>5. ASSUME NEW answer, Answers(t, click, answer)
      PROVE  answer = Conflict
  <2>1. tab'[t].answer = answer
    BY <1>3, <1>4, <1>5 DEF Answers, Tab
  <2> QED BY <2>1
<1>6. ~Replay(t, click)
  <2>1. ASSUME NEW answer \in Known(click), Answers(t, click, answer)
        PROVE  FALSE
    BY <1>4, <1>5, <2>1, KnownAnswers, AnswerAssumption
  <2> QED BY <2>1 DEF Replay
<1>7. Known(click) = {}
  BY <1>2, <1>6 DEF Serve, Refuse, Reject, Apply
<1> QED BY <1>3, <1>7, UnknownIsOld

LEMMA ScreenStep ==
    ASSUME Inv, [Next]_vars, NEW t \in Tabs, tab[t].open, tab'[t].open
    PROVE  tab'[t].rev >= tab[t].rev
<1>1. tab[t].rev \in Nat
  BY TabFields DEF Inv, TypeOK
<1>2. CASE Proceeds(t)
  BY <1>2 DEF Proceeds
<1>3. CASE \E click : Serve(t, click)
  BY <1>3, ServedFields
<1>4. CASE tab'[t] = tab[t]
  BY <1>1, <1>4
<1> QED BY <1>2, <1>3, <1>4, StepProceeds DEF vars

\* A user whose action was applied is told of a conflict only after MaxProcessed
\* newer actions: the id is looked up before the revision is checked.
THEOREM RetriesAnswered == Spec => RetryAnswered
<1>1. Inv /\ [Next]_vars =>
          [\A t \in Tabs :
              tab'[t].answer = Conflict /\ tab[t].answer # Conflict =>
                  \A i \in DOMAIN history :
                      history[i].id = tab[t].sent.id => i + MaxProcessed <= Len(history)]_vars
  BY ConflictStep
<1> QED BY <1>1, Invariance, PTL DEF Spec, RetryAnswered

\* No tab goes back to an older revision, whatever answers are replayed to it and
\* in whatever order sessions are fetched and actions answered (App.tsx).
THEOREM NeverBack == Spec => ScreenMovesForward
<1>1. Inv /\ [Next]_vars =>
          [\A t \in Tabs :
              tab[t].open /\ tab'[t].open => tab'[t].rev >= tab[t].rev]_vars
  BY ScreenStep
<1> QED BY <1>1, Invariance, PTL DEF Spec, ScreenMovesForward

-----------------------------------------------------------------------------
(***************************************************************************)
(* Proofs about what a steady tab shows: its timeline has no gap and no    *)
(* repetition, and explains the state on its screen.                       *)
(*                                                                         *)
(* A tab that is at rest has shown the log up to its revision at least.    *)
(* If the server has applied the action that the tab would repeat, the tab *)
(* has shown exactly that much, so that the events of the answer are the   *)
(* next ones.  Whatever else moves the cursor of a tab also moves its      *)
(* revision away from such an action.                                      *)
(***************************************************************************)

Steady == Tabs \ Unsteady

\* The events are the stretch of the log that ends at position i.
EndsAt(events, i) == \A k \in DOMAIN events : events[k] = i - Len(events) + k

\* The answers partition the log.
LogInv ==
    /\ \A i \in DOMAIN history : history[i].first - 1 <= total
    /\ \A i \in DOMAIN history : LogAt(i) = history[i].last

\* The requests of a steady tab are nobody else's.
Own ==
    \A t \in Steady :
        /\ Requests(tab[t]) \cap late = {}
        /\ \A u \in Tabs \ {t} : Requests(tab[t]) \cap Requests(tab[u]) = {}

\* The action that the tab would repeat at revision r was applied.
Took(s, r) ==
    /\ s.pending # None
    /\ s.pending.rev = r
    /\ r < rev
    /\ history[r + 1].id = s.pending.id

\* What is shown, fetched and stored is in the log, without gaps.
Gapless(s, saved) ==
    /\ s.cursor <= total /\ EndsAt(s.timeline, s.cursor)
    /\ s.from <= total /\ EndsAt(s.collected, s.from)
    /\ saved.cursor <= total /\ EndsAt(saved.timeline, saved.cursor)

\* A steady tab asks for nothing while it fetches or syncs, and an answer is that
\* to its own request.
Asks(s) ==
    /\ s.sent # None => s.sent = s.pending /\ s.job = "none"
    /\ IsApplied(s.answer) => s.answer = history[s.rev + 1] /\ s.answer.id = s.pending.id

\* The cursor, and what the job is about to make of it.
Explains(s) ==
    /\ s.open /\ s.job \in {"none", "get"} =>
           /\ s.cursor >= LogAt(s.rev)
           /\ Took(s, s.rev) => s.cursor = LogAt(s.rev)
    /\ s.job = "get" => ~Took(s, s.seen)
    /\ s.job \in {"sync", "commit"} => ~Took(s, s.rev)
    /\ s.job = "commit" => s.from >= LogAt(s.rev)

SteadyTab(s, saved) == Gapless(s, saved) /\ Asks(s) /\ Explains(s)

SteadyInv ==
    /\ LogInv
    /\ Own
    /\ \A t \in Steady : SteadyTab(tab[t], stored[t])

--------------------------------------------------------------------------------
(* Stretches of the log *)

\* The events that follow a stretch extend it.
LEMMA EndsAtConcat ==
    ASSUME NEW events \in Seq(Nat), NEW i \in Nat, NEW j \in Nat, i <= j, EndsAt(events, i)
    PROVE  EndsAt(events \o Events(i, j), j)
<1>1. /\ Len(events) \in Nat /\ DOMAIN events = 1 .. Len(events)
  BY LenProperties
<1>2. Events(i, j) \in Seq(Nat) /\ Len(Events(i, j)) = j - i
  <2>1. Events(i, j) \in Seq(Nat)
    <3>1. i \in Int /\ j \in Int /\ i >= -1
      OBVIOUS
    <3> QED BY <3>1, EventsType, Zenon
  <2>2. j - i \in Nat /\ DOMAIN Events(i, j) = 1 .. j - i
    BY DEF Events
  <2>3. DOMAIN Events(i, j) = 1 .. Len(Events(i, j)) /\ Len(Events(i, j)) \in Nat
    BY <2>1, LenProperties
  <2> QED BY <2>1, <2>2, <2>3
<1>3. PICK more \in Seq(Nat) : more = Events(i, j)
  BY <1>2
<1>4. PICK n, m : n = Len(events) /\ m = j - i
  OBVIOUS
<1>5. /\ n \in Nat /\ m \in Nat /\ i = j - m
      /\ Len(more) = m
      /\ \A k \in 1 .. m : more[k] = i + k
  BY <1>1, <1>2, <1>3, <1>4 DEF Events
<1>6. PICK both \in Seq(Nat) : both = events \o more
  BY <1>3, ConcatProperties
<1>7. /\ Len(both) = n + m /\ DOMAIN both = 1 .. n + m
      /\ \A k \in 1 .. n + m : both[k] = IF k <= n THEN events[k] ELSE more[k - n]
  <2>1. /\ Len(both) = Len(events) + Len(more)
        /\ \A k \in 1 .. Len(events) + Len(more) :
               both[k] = IF k <= Len(events) THEN events[k] ELSE more[k - Len(events)]
    BY <1>6, ConcatProperties, Zenon
  <2>2. Len(events) = n /\ Len(more) = m
    BY <1>4, <1>5
  <2>3. DOMAIN both = 1 .. Len(both)
    BY LenProperties
  <2> QED BY <2>1, <2>2, <2>3, Zenon
<1>8. ASSUME NEW k \in 1 .. n + m
      PROVE  both[k] = j - (n + m) + k
  <2>1. CASE k <= n
    <3>1. both[k] = events[k] /\ k \in DOMAIN events
      BY <1>1, <1>4, <1>5, <1>7, <2>1
    <3>2. events[k] = i - n + k
      BY <1>4, <3>1 DEF EndsAt
    <3> QED BY <1>5, <3>1, <3>2
  <2>2. CASE k > n
    <3>1. PICK l \in 1 .. m : l = k - n
      BY <1>5, <2>2
    <3>2. both[k] = more[l] /\ more[l] = i + l
      BY <1>5, <1>7, <2>2, <3>1
    <3> QED BY <1>5, <3>1, <3>2
  <2> QED BY <1>5, <2>1, <2>2
<1>9. EndsAt(both, j)
  BY <1>7, <1>8 DEF EndsAt
<1> QED BY <1>3, <1>6, <1>9

\* The end of a stretch ends where it does.
LEMMA EndsAtSuffix ==
    ASSUME NEW events \in Seq(Nat), NEW i \in Nat, NEW m \in Nat \ {0},
           EndsAt(events, i)
    PROVE  EndsAt(SubSeq(events, m, Len(events)), i)
<1>1. PICK n \in Nat : n = Len(events)
  BY LenProperties
<1>2. DOMAIN events = 1 .. n /\ \A k \in m .. n : events[k] \in Nat
  BY <1>1, LenProperties, ElementOfSeq
<1> DEFINE end == SubSeq(events, m, n)
<1>3. /\ end \in Seq(Nat) /\ Len(end) = IF m <= n THEN n - m + 1 ELSE 0
      /\ \A k \in 1 .. n - m + 1 : end[k] = events[m + k - 1]
  BY <1>2, SubSeqProperties
<1>4. DOMAIN end = 1 .. Len(end)
  BY <1>3, LenProperties
<1> HIDE DEF end
<1>5. ASSUME NEW k \in 1 .. Len(end)
      PROVE  end[k] = i - Len(end) + k
  <2>1. m <= n /\ Len(end) = n - m + 1 /\ k \in 1 .. n - m + 1
    BY <1>3
  <2>2. PICK l \in 1 .. n : l = m + k - 1
    BY <2>1
  <2>3. end[k] = events[l] /\ events[l] = i - n + l
    BY <1>1, <1>2, <1>3, <2>1, <2>2 DEF EndsAt
  <2> QED BY <2>1, <2>2, <2>3
<1> QED BY <1>1, <1>4, <1>5 DEF EndsAt, end

--------------------------------------------------------------------------------
(* The log *)

LEMMA HistoryFields ==
    ASSUME Inv
    PROVE  /\ rev \in Nat /\ total \in Nat /\ Len(history) = rev /\ DOMAIN history = 1 .. rev
           /\ \A i \in 1 .. rev :
                  /\ history[i] \in Applied
                  /\ history[i].first \in Nat \ {0} /\ history[i].last \in Nat
                  /\ history[i].first <= history[i].last
                  /\ history[i].rev = i
<1>1. rev \in Nat /\ total \in Nat /\ history \in Seq(Applied) /\ Len(history) = rev
  BY DEF Inv, TypeOK, Counted
<1>2. DOMAIN history = 1 .. rev /\ \A i \in 1 .. rev : history[i] \in Applied
  BY <1>1, LenProperties, ElementOfSeq
<1> QED BY <1>1, <1>2 DEF Applied, Inv, Counted

\* The log at a revision is a part of the log.
LEMMA LogAtBound ==
    ASSUME Inv, LogInv, NEW r \in Nat, r <= rev
    PROVE  LogAt(r) \in Nat /\ LogAt(r) <= total
<1>1. CASE r < rev
  <2>1. r + 1 \in 1 .. rev
    BY <1>1, HistoryFields
  <2>2. history[r + 1].first \in Nat \ {0} /\ history[r + 1].first - 1 <= total
    BY <2>1, HistoryFields DEF LogInv
  <2> QED BY <1>1, <2>2 DEF LogAt
<1>2. CASE r = rev
  BY <1>2, HistoryFields DEF LogAt
<1> QED BY <1>1, <1>2, HistoryFields

--------------------------------------------------------------------------------
(* One tab moves *)

\* A tab keeps its requests, and only an unsteady one leaves them behind.
LEMMA OwnMoves ==
    ASSUME Inv, Own, NEW u \in Tabs, NEW new, Becomes(u, new),
           Requests(new) \subseteq Requests(tab[u]),
           late' \subseteq late \cup Requests(tab[u]),
           u \in Steady => late' = late
    PROVE  Own'
<1>1. tab'[u] = new /\ \A v \in Tabs \ {u} : tab'[v] = tab[v]
  BY DEF Inv, TypeOK, Becomes
<1>2. \A v \in Tabs : Requests(tab'[v]) \subseteq Requests(tab[v])
  BY <1>1
<1>3. ASSUME NEW t \in Steady
      PROVE  Requests(tab'[t]) \cap late' = {}
  <2>1. Requests(tab[t]) \cap late = {} /\ t \in Tabs
    BY DEF Own, Steady
  <2>2. CASE t = u
    BY <1>2, <2>1, <2>2
  <2>3. CASE t # u
    <3>1. Requests(tab[t]) \cap Requests(tab[u]) = {}
      BY <2>3 DEF Own
    <3> QED BY <1>2, <2>1, <3>1
  <2> QED BY <2>2, <2>3
<1>4. ASSUME NEW t \in Steady, NEW v \in Tabs \ {t}
      PROVE  Requests(tab'[t]) \cap Requests(tab'[v]) = {}
  <2>1. Requests(tab[t]) \cap Requests(tab[v]) = {} /\ t \in Tabs
    BY DEF Own, Steady
  <2> QED BY <1>2, <2>1
<1> QED BY <1>3, <1>4 DEF Own, Steady

\* What is true of a tab stays true while neither it nor the server changes.
LEMMA SameTab ==
    ASSUME UNCHANGED server, NEW t \in Tabs, NEW s, NEW saved,
           tab'[t] = s, stored'[t] = saved, SteadyTab(s, saved)
    PROVE  SteadyTab(tab[t], stored[t])'
<1>1. Gapless(tab[t], stored[t])'
  BY DEF SteadyTab, Gapless, server
<1>2. Asks(tab[t])'
  BY DEF SteadyTab, Asks, server
<1>3. Took(tab[t], tab[t].rev)' <=> Took(s, s.rev)
  BY DEF Took, server
<1>4. Took(tab[t], tab[t].seen)' <=> Took(s, s.seen)
  BY DEF Took, server
<1>5. LogAt(tab[t].rev)' = LogAt(s.rev)
  BY DEF LogAt, server
<1>6. Explains(tab[t])'
  BY <1>3, <1>4, <1>5 DEF SteadyTab, Explains
<1> QED BY <1>1, <1>2, <1>6 DEF SteadyTab

LEMMA SameLog ==
    ASSUME LogInv, UNCHANGED server
    PROVE  LogInv'
BY DEF LogInv, LogAt, server

\* If a steady tab moves, all that matters is what it becomes.
LEMMA MoveKeepsSteady ==
    ASSUME Inv, SteadyInv, NEW u \in Tabs, NEW new, Becomes(u, new),
           UNCHANGED server, Own',
           \A v \in Tabs \ {u} : stored'[v] = stored[v],
           u \in Steady => SteadyTab(new, stored'[u])
    PROVE  SteadyInv'
<1>1. tab'[u] = new /\ \A v \in Tabs \ {u} : tab'[v] = tab[v]
  BY DEF Inv, TypeOK, Becomes
<1>2. ASSUME NEW t \in Steady
      PROVE  SteadyTab(tab[t], stored[t])'
  <2>1. t \in Tabs
    BY DEF Steady
  <2>2. CASE t = u
    BY <1>1, <2>1, <2>2, SameTab
  <2>3. CASE t # u
    <3>1. SteadyTab(tab[t], stored[t])
      BY DEF SteadyInv
    <3> QED BY <1>1, <2>1, <2>3, <3>1, SameTab
  <2> QED BY <2>2, <2>3
<1>3. LogInv'
  BY SameLog DEF SteadyInv
<1> QED BY <1>2, <1>3 DEF SteadyInv, Steady

--------------------------------------------------------------------------------
(* The server answers *)

\* What is shown does not depend on what is asked.
LEMMA ShowsSame ==
    ASSUME NEW s, NEW new, NEW saved, Gapless(s, saved), Explains(s),
           new.open = s.open, new.rev = s.rev, new.cursor = s.cursor,
           new.timeline = s.timeline, new.pending = s.pending, new.job = s.job,
           new.seen = s.seen, new.from = s.from, new.collected = s.collected
    PROVE  Gapless(new, saved) /\ Explains(new)
<1>1. Gapless(new, saved)
  BY DEF Gapless
<1>2. \A r : Took(new, r) <=> Took(s, r)
  BY DEF Took
<1>3. Explains(new)
  BY <1>2 DEF Explains
<1> QED BY <1>1, <1>3

\* A tab with another answer.
LEMMA AnswerFields ==
    ASSUME NEW s \in Tab, NEW answer
    PROVE  LET new == [s EXCEPT !.answer = answer]
           IN  /\ new.open = s.open /\ new.rev = s.rev /\ new.cursor = s.cursor
               /\ new.timeline = s.timeline /\ new.pending = s.pending /\ new.job = s.job
               /\ new.seen = s.seen /\ new.from = s.from /\ new.collected = s.collected
               /\ new.sent = s.sent /\ new.answer = answer
               /\ Requests(new) = Requests(s)
BY DEF Tab, Requests

\* An answer that changes nothing at the server.
LEMMA AnswerKeepsSteady ==
    ASSUME Inv, SteadyInv, NEW t \in Tabs \cup {Nobody}, NEW click, NEW answer,
           Reaches(t, click), Answers(t, click, answer), UNCHANGED server,
           \/ answer \in {Conflict, Rejected}
           \/ answer \in Known(click)
    PROVE  SteadyInv'
<1>1. CASE t \in Tabs
  <2>1. PICK s : s = tab[t]
    OBVIOUS
  <2>2. PICK new : new = [s EXCEPT !.answer = answer]
    OBVIOUS
  <2>3. s \in Tab /\ TabInv(s)
    BY <1>1, <2>1 DEF Inv, TypeOK
  <2>4. s.sent = click /\ click # None /\ click \in Alive
    BY <1>1, <2>1 DEF Reaches, Alive, Requests
  <2>5. /\ new.open = s.open /\ new.rev = s.rev /\ new.cursor = s.cursor
        /\ new.timeline = s.timeline /\ new.pending = s.pending /\ new.job = s.job
        /\ new.seen = s.seen /\ new.from = s.from /\ new.collected = s.collected
        /\ new.sent = s.sent /\ new.answer = answer
        /\ Requests(new) = Requests(s)
    BY <2>2, <2>3, AnswerFields
  <2>6. Becomes(t, new) /\ UNCHANGED <<stored, late, clicks>>
    BY <1>1, <2>1, <2>2 DEF Answers, Becomes
  <2>7. Own'
    BY <1>1, <2>1, <2>5, <2>6, OwnMoves DEF SteadyInv
  <2>8. ASSUME t \in Steady
        PROVE  SteadyTab(new, stored[t])
    <3>1. Gapless(s, stored[t]) /\ Explains(s) /\ Asks(s)
      BY <2>1, <2>8 DEF SteadyInv, SteadyTab
    <3>2. Gapless(new, stored[t]) /\ Explains(new)
      BY <2>5, <3>1, ShowsSame
    <3>3. s.sent = s.pending /\ s.job = "none" /\ s.pending = click /\ click.rev = s.rev
      BY <2>3, <2>4, <3>1 DEF Asks, TabInv
    <3>4. IsApplied(answer) => answer = history[s.rev + 1] /\ answer.id = click.id
      <4>1. ASSUME IsApplied(answer)
            PROVE  answer = history[s.rev + 1] /\ answer.id = click.id
        BY <2>4, <3>3, <4>1, KnownAnswers DEF IsApplied
      <4> QED BY <4>1
    <3>5. Asks(new)
      BY <2>5, <3>3, <3>4 DEF Asks
    <3> QED BY <3>2, <3>5 DEF SteadyTab
  <2> QED BY <1>1, <2>6, <2>7, <2>8, MoveKeepsSteady
<1>2. CASE t \notin Tabs
  <2>1. UNCHANGED <<tab, stored>> /\ late' \subseteq late
    BY <1>2 DEF Answers
  <2>2. Own'
    BY <2>1 DEF SteadyInv, Own, Steady
  <2>3. ASSUME NEW u \in Steady
        PROVE  SteadyTab(tab[u], stored[u])'
    <3>1. SteadyTab(tab[u], stored[u]) /\ u \in Tabs
      BY DEF SteadyInv, Steady
    <3> QED BY <2>1, <3>1, SameTab
  <2>4. LogInv'
    BY SameLog DEF SteadyInv
  <2> QED BY <2>2, <2>3, <2>4 DEF SteadyInv, Steady
<1> QED BY <1>1, <1>2

LEMMA QuietServeKeepsSteady ==
    ASSUME Inv, SteadyInv, NEW t \in Tabs \cup {Nobody}, NEW click,
           Replay(t, click) \/ Refuse(t, click) \/ Reject(t, click)
    PROVE  SteadyInv'
BY AnswerKeepsSteady DEF Replay, Refuse, Reject

--------------------------------------------------------------------------------
(* The server applies an action *)

\* What becomes of server and tabs.
AppliedBy(w, click, n) ==
    LET answer == [id |-> click.id, first |-> total + 1, last |-> total + n, rev |-> rev + 1]
    IN  /\ rev' = rev + 1 /\ total' = total + n
        /\ DOMAIN history' = 1 .. rev + 1
        /\ \A i \in 1 .. rev : history'[i] = history[i]
        /\ history'[rev + 1] = answer
        /\ \A u \in Tabs : tab'[u] = IF u = w THEN [tab[u] EXCEPT !.answer = answer] ELSE tab[u]
        /\ late' \subseteq late /\ stored' = stored

LEMMA ApplyEffect ==
    ASSUME Inv, NEW w \in Tabs \cup {Nobody}, NEW click, NEW n \in 1 .. MaxBatch,
           Apply(w, click, n)
    PROVE  /\ AppliedBy(w, click, n)
           /\ click \in Alive /\ click.rev = rev /\ n \in Nat \ {0}
<1> DEFINE answer == [id |-> click.id, first |-> total + 1, last |-> total + n, rev |-> rev + 1]
<1>1. click \in Alive /\ click \in Click /\ click.rev = rev
  BY ReachesAlive DEF Apply, Current
<1>2. /\ rev \in Nat /\ total \in Nat /\ n \in Nat \ {0} /\ history \in Seq(Applied)
      /\ Len(history) = rev
  BY PlayAssumption DEF Inv, TypeOK, Counted
<1>3. answer \in Applied
  BY <1>1, <1>2 DEF Click, Applied
<1>4. Answers(w, click, answer) /\ history' = Append(history, answer)
  BY DEF Apply
<1> HIDE DEF answer
<1>5. /\ DOMAIN history' = 1 .. rev + 1
      /\ \A i \in 1 .. rev : history'[i] = history[i]
      /\ history'[rev + 1] = answer
  BY <1>2, <1>3, <1>4, AppendProperties, LenProperties
<1>6. /\ \A u \in Tabs : tab'[u] = IF u = w THEN [tab[u] EXCEPT !.answer = answer] ELSE tab[u]
      /\ late' \subseteq late /\ stored' = stored
  BY <1>4 DEF Answers, Inv, TypeOK
<1>7. rev' = rev + 1 /\ total' = total + n
  BY DEF Apply
<1> QED BY <1>1, <1>2, <1>5, <1>6, <1>7 DEF AppliedBy, answer

\* The log at a revision never changes.
LEMMA LogAtStays ==
    ASSUME Inv, NEW w, NEW click, NEW n \in Nat \ {0}, AppliedBy(w, click, n)
    PROVE  /\ \A r \in 0 .. rev : LogAt(r)' = LogAt(r)
           /\ \A r \in {rev + 1} : LogAt(r)' = total + n
<1>1. /\ rev \in Nat /\ total \in Nat /\ rev' = rev + 1 /\ total' = total + n
      /\ \A i \in 1 .. rev : history'[i] = history[i]
      /\ history'[rev + 1].first = total + 1
  BY HistoryFields DEF AppliedBy
<1>2. ASSUME NEW r \in 0 .. rev
      PROVE  LogAt(r)' = LogAt(r)
  <2>1. LogAt(r)' = history'[r + 1].first - 1
    BY <1>1, <1>2 DEF LogAt
  <2>2. CASE r < rev
    <3>1. r + 1 \in 1 .. rev
      BY <1>1, <2>2
    <3>2. history'[r + 1] = history[r + 1]
      BY <1>1, <3>1
    <3> QED BY <2>1, <2>2, <3>2 DEF LogAt
  <2>3. CASE r = rev
    BY <1>1, <2>1, <2>3 DEF LogAt
  <2> QED BY <1>1, <2>2, <2>3
<1>3. ASSUME NEW r \in {rev + 1}
      PROVE  LogAt(r)' = total + n
  BY <1>1, <1>3 DEF LogAt
<1> QED BY <1>2, <1>3

LEMMA ApplyKeepsLog ==
    ASSUME Inv, LogInv, NEW w, NEW click, NEW n \in Nat \ {0}, AppliedBy(w, click, n)
    PROVE  LogInv'
<1>1. /\ rev \in Nat /\ total \in Nat /\ total' = total + n
      /\ DOMAIN history = 1 .. rev /\ DOMAIN history' = 1 .. rev + 1
      /\ \A i \in 1 .. rev : history'[i] = history[i]
      /\ history'[rev + 1].first = total + 1 /\ history'[rev + 1].last = total + n
      /\ \A i \in 1 .. rev : history[i].first \in Nat
  BY HistoryFields DEF AppliedBy
<1>2. ASSUME NEW i \in 1 .. rev + 1
      PROVE  history'[i].first - 1 <= total' /\ LogAt(i)' = history'[i].last
  <2>1. CASE i \in 1 .. rev
    <3>1. history[i].first - 1 <= total /\ LogAt(i) = history[i].last
      BY <1>1, <2>1 DEF LogInv
    <3>2. LogAt(i)' = LogAt(i)
      BY <1>1, <2>1, LogAtStays
    <3> QED BY <1>1, <2>1, <3>1, <3>2
  <2>2. CASE i = rev + 1
    <3>1. LogAt(i)' = total + n
      BY <2>2, LogAtStays
    <3> QED BY <1>1, <2>2, <3>1
  <2> QED BY <1>1, <2>1, <2>2
<1> QED BY <1>1, <1>2 DEF LogInv

\* Only the action that is applied is taken.
LEMMA TookStays ==
    ASSUME Inv, NEW w, NEW click \in Alive, NEW n \in Nat \ {0}, AppliedBy(w, click, n),
           NEW s, Requests(s) \subseteq Alive, NEW r \in Nat, r <= rev,
           Took(s, r)'
    PROVE  Took(s, r) \/ (s.pending = click /\ r = rev)
<1>1. /\ rev \in Nat /\ \A i \in 1 .. rev : history'[i] = history[i]
      /\ history'[rev + 1].id = click.id
  BY HistoryFields DEF AppliedBy
<1>2. s.pending # None /\ s.pending.rev = r /\ history'[r + 1].id = s.pending.id
  BY DEF Took
<1>3. CASE r < rev
  <2>1. history'[r + 1] = history[r + 1]
    BY <1>1, <1>3
  <2> QED BY <1>2, <1>3, <2>1 DEF Took
<1>4. CASE r = rev
  <2>1. s.pending.id = click.id /\ s.pending \in Alive
    BY <1>1, <1>2, <1>4 DEF Requests
  <2> QED BY <1>4, <2>1 DEF Inv, IdsMade
<1> QED BY <1>1, <1>3, <1>4

\* A tab that has not asked is where it was, compared with the log.
LEMMA BystanderKeeps ==
    ASSUME Inv, SteadyInv, NEW w \in Tabs \cup {Nobody}, NEW click, Reaches(w, click),
           click \in Alive, NEW n \in Nat \ {0}, AppliedBy(w, click, n),
           NEW t \in Steady, t # w
    PROVE  SteadyTab(tab[t], stored[t])'
<1>1. PICK s, saved : s = tab[t] /\ saved = stored[t]
  OBVIOUS
<1>2. t \in Tabs /\ tab'[t] = s /\ stored'[t] = saved
  BY <1>1 DEF AppliedBy, Steady
<1>3. /\ s \in Tab /\ TabInv(s) /\ Gapless(s, saved) /\ Asks(s) /\ Explains(s)
  BY <1>1, <1>2 DEF Inv, TypeOK, SteadyInv, SteadyTab
<1>4. /\ rev \in Nat /\ rev' = rev + 1 /\ total \in Nat /\ total' = total + n
      /\ \A i \in 1 .. rev : history'[i] = history[i]
  BY HistoryFields DEF AppliedBy
<1>5. /\ s.rev \in Nat /\ s.cursor \in Nat /\ s.from \in Nat /\ s.seen \in Nat
      /\ s.rev <= rev /\ saved.cursor \in Nat
  BY <1>1, <1>2, <1>3, TabFields DEF TabInv, Inv, TypeOK
<1>6. Requests(s) \subseteq Alive /\ click \notin Requests(s)
  BY <1>1, <1>2 DEF SteadyInv, Own, Alive, Reaches, Requests
<1>7. s.pending # None => s.pending # click
  BY <1>6 DEF Requests
<1>8. ASSUME NEW r \in Nat, r <= rev, Took(s, r)'
      PROVE  Took(s, r)
  BY <1>6, <1>7, <1>8, TookStays DEF Took
<1>9. LogAt(s.rev) \in Nat /\ \A r \in Nat : r = s.rev => LogAt(r)' = LogAt(r)
  BY <1>4, <1>5, LogAtBound, LogAtStays DEF SteadyInv
<1>10. Gapless(s, saved)'
  BY <1>3, <1>4, <1>5 DEF Gapless, EndsAt
<1>11. Asks(s)'
  <2>1. ASSUME IsApplied(s.answer)
        PROVE  history'[s.rev + 1] = history[s.rev + 1]
    <3>1. s.rev + 1 \in 1 .. rev
      BY <1>3, <1>4, <1>5, <2>1 DEF TabInv, IsApplied
    <3> QED BY <1>4, <3>1
  <2> QED BY <1>3, <2>1 DEF Asks
<1>12. Explains(s)'
  <2>1. Took(s, s.rev)' => Took(s, s.rev)
    BY <1>5, <1>8
  <2>2. s.job = "get" => (Took(s, s.seen)' => Took(s, s.seen))
    BY <1>3, <1>5, <1>8 DEF TabInv
  <2>3. LogAt(s.rev)' = LogAt(s.rev)
    BY <1>5, <1>9
  <2> QED BY <1>3, <2>1, <2>2, <2>3 DEF Explains
<1>13. SteadyTab(s, saved)'
  BY <1>10, <1>11, <1>12 DEF SteadyTab
<1> QED BY <1>2, <1>13 DEF SteadyTab, Gapless, Asks, Explains, Took, LogAt

\* The tab whose action is applied has shown the log as it was before.
LEMMA ActorKeeps ==
    ASSUME Inv, SteadyInv, NEW t \in Steady, NEW click, Reaches(t, click),
           click \in Alive, click.rev = rev, NEW n \in Nat \ {0}, AppliedBy(t, click, n)
    PROVE  SteadyTab(tab[t], stored[t])'
<1> DEFINE answer == [id |-> click.id, first |-> total + 1, last |-> total + n, rev |-> rev + 1]
<1>1. PICK s, saved, new : s = tab[t] /\ saved = stored[t] /\ new = [s EXCEPT !.answer = answer]
  OBVIOUS
<1>2. t \in Tabs /\ tab'[t] = new /\ stored'[t] = saved /\ history'[rev + 1] = answer
  BY <1>1 DEF AppliedBy, Steady
<1> HIDE DEF answer
<1>3. s \in Tab /\ TabInv(s) /\ Gapless(s, saved) /\ Asks(s) /\ Explains(s)
  BY <1>1, <1>2 DEF Inv, TypeOK, SteadyInv, SteadyTab
<1>4. /\ rev \in Nat /\ rev' = rev + 1 /\ total \in Nat /\ total' = total + n
  BY HistoryFields DEF AppliedBy
<1>5. /\ s.cursor \in Nat /\ s.from \in Nat /\ saved.cursor \in Nat
  BY <1>1, <1>2, <1>3, TabFields DEF Inv, TypeOK
<1>6. /\ new.open = s.open /\ new.rev = s.rev /\ new.cursor = s.cursor
      /\ new.timeline = s.timeline /\ new.pending = s.pending /\ new.job = s.job
      /\ new.from = s.from /\ new.collected = s.collected
      /\ new.sent = s.sent /\ new.answer = answer
  BY <1>1, <1>3, AnswerFields
<1>7. /\ s.pending = click /\ s.job = "none" /\ s.open /\ s.rev = rev
  BY <1>1, <1>2, <1>3 DEF Reaches, Asks, TabInv
<1>8. s.cursor = total
  <2>1. s.cursor >= LogAt(rev) /\ s.cursor <= total /\ LogAt(rev) = total
    BY <1>3, <1>4, <1>7 DEF Explains, Gapless, LogAt
  <2> QED BY <1>4, <1>5, <2>1
<1>9. \A r \in {rev} : LogAt(r)' = total
  BY <1>4, LogAtStays DEF LogAt
<1>10. Gapless(new, saved)'
  BY <1>3, <1>4, <1>5, <1>6 DEF Gapless, EndsAt
<1>11. Asks(new)'
  <2>1. answer.id = click.id
    BY DEF answer
  <2> QED BY <1>2, <1>3, <1>6, <1>7, <2>1 DEF Asks
<1>12. Explains(new)'
  BY <1>4, <1>6, <1>7, <1>8, <1>9 DEF Explains
<1>13. SteadyTab(new, saved)'
  BY <1>10, <1>11, <1>12 DEF SteadyTab
<1> QED BY <1>2, <1>13 DEF SteadyTab, Gapless, Asks, Explains, Took, LogAt

LEMMA ApplyKeepsSteady ==
    ASSUME Inv, SteadyInv, NEW w \in Tabs \cup {Nobody}, NEW click, NEW n \in 1 .. MaxBatch,
           Apply(w, click, n)
    PROVE  SteadyInv'
<1>1. AppliedBy(w, click, n) /\ click \in Alive /\ click.rev = rev /\ n \in Nat \ {0}
  BY ApplyEffect
<1>2. LogInv'
  BY <1>1, ApplyKeepsLog DEF SteadyInv
<1>3. Own'
  <2>1. ASSUME NEW u \in Tabs
        PROVE  Requests(tab'[u]) = Requests(tab[u])
    <3>1. tab[u] \in Tab
      BY DEF Inv, TypeOK
    <3>2. PICK answer : tab'[u] = tab[u] \/ tab'[u] = [tab[u] EXCEPT !.answer = answer]
      BY <1>1 DEF AppliedBy
    <3> QED BY <3>1, <3>2, AnswerFields
  <2>2. late' \subseteq late
    BY <1>1 DEF AppliedBy
  <2> QED BY <2>1, <2>2 DEF SteadyInv, Own, Steady
<1>4. ASSUME NEW t \in Steady
      PROVE  SteadyTab(tab[t], stored[t])'
  BY <1>1, BystanderKeeps, ActorKeeps DEF Apply
<1> QED BY <1>2, <1>3, <1>4 DEF SteadyInv, Steady

--------------------------------------------------------------------------------
(* A tab acts, and takes the answer *)

\* A steady tab and what it has stored.
LEMMA SteadyFields ==
    ASSUME Inv, SteadyInv, NEW t \in Steady
    PROVE  /\ t \in Tabs /\ t \notin Unsteady
           /\ tab[t] \in Tab /\ TabInv(tab[t])
           /\ stored[t] \in [cursor : Nat, timeline : Seq(Nat)]
           /\ Gapless(tab[t], stored[t]) /\ Asks(tab[t]) /\ Explains(tab[t])
BY DEF Inv, TypeOK, SteadyInv, SteadyTab, Steady

\* A tab moves and leaves nothing behind.
LEMMA StaysOwn ==
    ASSUME Inv, SteadyInv, NEW u \in Tabs, NEW new, Becomes(u, new),
           UNCHANGED server, late' = late,
           Requests(new) \subseteq Requests(tab[u]),
           \A v \in Tabs \ {u} : stored'[v] = stored[v],
           u \in Steady => SteadyTab(new, stored'[u])
    PROVE  SteadyInv'
BY OwnMoves, MoveKeepsSteady DEF SteadyInv

\* The same action is sent again.
LEMMA RetryKeepsSteady ==
    ASSUME Inv, SteadyInv, NEW t \in Tabs, NEW input \in Inputs, Act(t, input),
           Sends(t, tab[t].pending)
    PROVE  SteadyInv'
<1>1. PICK s : s = tab[t]
  OBVIOUS
<1>2. PICK new : new = [s EXCEPT !.pending = s.pending, !.sent = s.pending]
  OBVIOUS
<1>3. s \in Tab
  BY <1>1 DEF Inv, TypeOK
<1>4. /\ new.open = s.open /\ new.rev = s.rev /\ new.cursor = s.cursor
      /\ new.timeline = s.timeline /\ new.pending = s.pending /\ new.job = s.job
      /\ new.seen = s.seen /\ new.from = s.from /\ new.collected = s.collected
      /\ new.sent = s.pending /\ new.answer = s.answer
      /\ Requests(new) \subseteq Requests(s)
  BY <1>2, <1>3 DEF Tab, Requests
<1>5. ASSUME t \in Steady
      PROVE  SteadyTab(new, stored[t])
  <2>1. Gapless(s, stored[t]) /\ Explains(s) /\ Asks(s) /\ t \notin Unsteady
    BY <1>1, <1>5, SteadyFields
  <2>2. s.job = "none"
    BY <1>1, <2>1 DEF Act, Enabled
  <2>3. Asks(new)
    BY <1>4, <2>1, <2>2 DEF Asks
  <2> QED BY <1>4, <2>1, <2>3, ShowsSame DEF SteadyTab
<1>6. Becomes(t, new) /\ UNCHANGED <<server, late, stored>>
  BY <1>1, <1>2 DEF Act, Sends
<1> QED BY <1>1, <1>4, <1>5, <1>6, StaysOwn

\* A request that is made is of a new id, which nobody else has and which was
\* not applied.
LEMMA NewRequestKeepsSteady ==
    ASSUME Inv, SteadyInv, NEW t \in Tabs, NEW input \in Inputs, Act(t, input),
           Sends(t, [id |-> clicks + 1, input |-> input, rev |-> tab[t].rev])
    PROVE  SteadyInv'
<1>1. PICK s, click : s = tab[t] /\ click = [id |-> clicks + 1, input |-> input, rev |-> s.rev]
  OBVIOUS
<1>2. PICK new : new = [s EXCEPT !.pending = click, !.sent = click]
  OBVIOUS
<1>3. s \in Tab /\ TabInv(s) /\ clicks \in Nat /\ rev \in Nat
  BY <1>1, PlayAssumption DEF Inv, TypeOK
<1>4. /\ new.open = s.open /\ new.rev = s.rev /\ new.cursor = s.cursor
      /\ new.timeline = s.timeline /\ new.pending = click /\ new.job = s.job
      /\ new.seen = s.seen /\ new.from = s.from /\ new.collected = s.collected
      /\ new.sent = click /\ new.answer = s.answer
      /\ Requests(new) \subseteq {click}
  BY <1>2, <1>3 DEF Tab, Requests
<1>5. Becomes(t, new) /\ UNCHANGED <<server, late, stored>>
  BY <1>1, <1>2 DEF Act, Sends
<1>6. click.id = clicks + 1
  BY <1>1
<1>7. /\ tab'[t] = new /\ \A v \in Tabs \ {t} : tab'[v] = tab[v]
  BY <1>5 DEF Inv, TypeOK, Becomes
<1>8. click \notin Alive /\ \A i \in 1 .. rev : history[i].id # click.id
  <2>1. \A c \in Alive : c.id <= clicks /\ c.id \in Nat
    BY AliveType DEF Inv, IdsMade, Click
  <2>2. \A i \in 1 .. rev : history[i].id <= clicks /\ history[i].id \in Nat
    BY HistoryFields DEF Inv, IdsMade, Applied
  <2> QED BY <1>3, <1>6, <2>1, <2>2
<1>9. Own'
  <2>1. \A v \in Tabs : Requests(tab'[v]) \subseteq Requests(tab[v]) \/ (v = t /\ Requests(tab'[v]) \subseteq {click})
    BY <1>4, <1>7
  <2>2. \A v \in Tabs : click \notin Requests(tab[v])
    BY <1>8 DEF Alive
  <2>3. click \notin late /\ late' = late
    BY <1>5, <1>8 DEF Alive
  <2>4. ASSUME NEW u \in Steady
        PROVE  Requests(tab'[u]) \cap late' = {}
    <3>1. Requests(tab[u]) \cap late = {} /\ u \in Tabs
      BY DEF SteadyInv, Own, Steady
    <3> QED BY <2>1, <2>3, <3>1
  <2>5. ASSUME NEW u \in Steady, NEW v \in Tabs \ {u}
        PROVE  Requests(tab'[u]) \cap Requests(tab'[v]) = {}
    <3>1. Requests(tab[u]) \cap Requests(tab[v]) = {} /\ u \in Tabs
      BY DEF SteadyInv, Own, Steady
    <3> QED BY <2>1, <2>2, <3>1
  <2> QED BY <2>4, <2>5 DEF Own, Steady
<1>10. ASSUME t \in Steady
       PROVE  SteadyTab(new, stored[t])
  <2>1. Gapless(s, stored[t]) /\ Explains(s) /\ Asks(s) /\ t \notin Unsteady
    BY <1>1, <1>10, SteadyFields
  <2>2. s.job = "none" /\ s.sent = None
    BY <1>1, <2>1 DEF Act, Enabled
  <2>3. s.answer = None
    BY <1>3, <2>2 DEF TabInv
  <2>4. ~Took(new, s.rev)
    <3>1. s.rev < rev => s.rev + 1 \in 1 .. rev
      BY <1>3, TabFields
    <3> QED BY <1>4, <1>8, <3>1 DEF Took
  <2>5. Gapless(new, stored[t])
    BY <1>4, <2>1 DEF Gapless
  <2>6. Asks(new)
    BY <1>4, <2>2, <2>3 DEF Asks, IsApplied
  <2>7. Explains(new)
    BY <1>4, <2>1, <2>2, <2>4 DEF Explains
  <2> QED BY <2>5, <2>6, <2>7 DEF SteadyTab
<1> QED BY <1>5, <1>9, <1>10, MoveKeepsSteady

LEMMA ActKeepsSteady ==
    ASSUME Inv, SteadyInv, NEW t \in Tabs, NEW input \in Inputs, Act(t, input)
    PROVE  SteadyInv'
BY RetryKeepsSteady, NewRequestKeepsSteady DEF Act

\* The stretch of the timeline that is stored.
LEMMA CommitKeeps ==
    ASSUME Inv, NEW t \in Tabs, NEW new, NEW cursor \in Nat, NEW timeline \in Seq(Nat),
           Commits(t, new, cursor, timeline), EndsAt(timeline, cursor)
    PROVE  /\ stored'[t].cursor = cursor
           /\ EndsAt(stored'[t].timeline, cursor)
           /\ \A v \in Tabs \ {t} : stored'[v] = stored[v]
<1>1. PICK m : m = IF Len(timeline) > MaxStored THEN Len(timeline) - MaxStored + 1 ELSE 1
  OBVIOUS
<1>2. m \in Nat \ {0}
  <2>1. Len(timeline) \in Nat
    BY LenProperties
  <2> QED BY <1>1, <2>1, PlayAssumption
<1>3. stored' = [stored EXCEPT ![t] =
                    [cursor |-> cursor, timeline |-> SubSeq(timeline, m, Len(timeline))]]
  BY <1>1 DEF Commits
<1>4. EndsAt(SubSeq(timeline, m, Len(timeline)), cursor)
  BY <1>2, EndsAtSuffix
<1> QED BY <1>3, <1>4 DEF Inv, TypeOK

\* The events of the answer follow those on the screen, up to the new revision.
LEMMA TakeAppliedKeepsSteady ==
    ASSUME Inv, SteadyInv, NEW t \in Tabs, TakeApplied(t)
    PROVE  SteadyInv'
<1>1. PICK s, answer : s = tab[t] /\ answer = s.answer
  OBVIOUS
<1>2. s \in Tab /\ TabInv(s) /\ IsApplied(answer)
  BY <1>1 DEF Inv, TypeOK, TakeApplied, IsApplied
<1>3. /\ answer \in Applied /\ answer.first \in Nat \ {0} /\ answer.last \in Nat
      /\ answer.first <= answer.last /\ answer.rev \in Nat
      /\ s.cursor \in Nat /\ s.timeline \in Seq(Nat) /\ s.rev \in Nat
  BY <1>1, <1>2, AppliedType, TabFields DEF Applied
<1>4. PICK cursor, timeline : /\ cursor = s.cursor + (answer.last - answer.first + 1)
                              /\ timeline = s.timeline \o Events(answer.first - 1, answer.last)
  OBVIOUS
<1>5. PICK taken : taken = [s EXCEPT !.pending = None, !.sent = None, !.answer = None,
                                     !.rev = answer.rev]
  OBVIOUS
<1>6. PICK new : new = [taken EXCEPT !.cursor = cursor, !.timeline = timeline]
  OBVIOUS
<1>7. Commits(t, taken, cursor, timeline) /\ UNCHANGED <<server, late, clicks>>
  BY <1>1, <1>4, <1>5 DEF TakeApplied, AfterDelta
<1>8. /\ new.open = s.open /\ new.rev = answer.rev /\ new.cursor = cursor
      /\ new.timeline = timeline /\ new.pending = None /\ new.job = s.job
      /\ new.seen = s.seen /\ new.from = s.from /\ new.collected = s.collected
      /\ new.sent = None /\ new.answer = None
  BY <1>2, <1>5, <1>6 DEF Tab
<1>9. Becomes(t, new)
  BY <1>6, <1>7 DEF Commits
<1>10. Own'
  <2>1. Requests(new) = {}
    BY <1>8 DEF Requests
  <2> QED BY <1>7, <1>9, <2>1, OwnMoves DEF SteadyInv
<1>11. ASSUME t \in Steady
       PROVE  SteadyTab(new, stored'[t])
  <2>1. Gapless(s, stored[t]) /\ Explains(s) /\ Asks(s)
    BY <1>1, <1>11, SteadyFields
  <2>2. s.sent # None /\ s.answer = answer
    BY <1>1, <1>2 DEF TabInv, IsApplied
  <2>3. /\ s.job = "none" /\ s.pending = s.sent /\ s.open
        /\ answer = history[s.rev + 1] /\ answer.id = s.pending.id
        /\ s.pending.rev = s.rev /\ answer.rev = s.rev + 1 /\ answer.rev <= rev
    BY <1>1, <1>2, <2>1, <2>2 DEF Asks, TabInv
  <2>4. rev \in Nat /\ total \in Nat /\ s.rev < rev
    BY <1>3, <2>3, HistoryFields
  <2>5. s.cursor = answer.first - 1
    <3>1. Took(s, s.rev)
      BY <2>2, <2>3, <2>4 DEF Took
    <3>2. s.cursor = LogAt(s.rev)
      BY <2>1, <2>3, <3>1 DEF Explains
    <3> QED BY <2>3, <2>4, <3>2 DEF LogAt
  <2>6. cursor = answer.last /\ cursor \in Nat
    BY <1>3, <1>4, <2>5
  <2>7. LogAt(answer.rev) = answer.last /\ answer.last <= total
    <3>1. answer.rev \in DOMAIN history
      BY <1>3, <2>3, <2>4, HistoryFields
    <3>2. LogAt(answer.rev) = answer.last
      BY <2>3, <3>1 DEF SteadyInv, LogInv
    <3> QED BY <1>3, <2>3, <3>2, LogAtBound DEF SteadyInv
  <2>8. timeline \in Seq(Nat) /\ EndsAt(timeline, cursor)
    <3>1. PICK i \in Nat : i = answer.first - 1 /\ i <= answer.last /\ i = s.cursor
      BY <1>3, <2>5
    <3>2. EndsAt(s.timeline, i)
      BY <2>1, <3>1 DEF Gapless
    <3>3. timeline = s.timeline \o Events(i, answer.last)
      BY <1>4, <3>1
    <3>4. EndsAt(timeline, answer.last)
      BY <1>3, <3>1, <3>2, <3>3, EndsAtConcat
    <3>5. Events(i, answer.last) \in Seq(Nat)
      <4>1. i \in Int /\ answer.last \in Int /\ i >= -1
        BY <1>3, <3>1
      <4> QED BY <4>1, EventsType, Zenon
    <3> QED BY <1>3, <2>6, <3>3, <3>4, <3>5, ConcatProperties
  <2>9. Gapless(new, stored'[t])
    BY <1>7, <1>8, <2>1, <2>6, <2>7, <2>8, CommitKeeps DEF Gapless
  <2>10. Asks(new)
    BY <1>8 DEF Asks, IsApplied
  <2>11. Explains(new)
    BY <1>8, <2>3, <2>6, <2>7, <1>3 DEF Explains, Took
  <2> QED BY <2>9, <2>10, <2>11 DEF SteadyTab
<1>12. \A v \in Tabs \ {t} : stored'[v] = stored[v]
  BY <1>7 DEF Commits, Inv, TypeOK
<1> QED BY <1>7, <1>9, <1>10, <1>11, <1>12, MoveKeepsSteady

\* An action that was rejected, or whose answer does not arrive, may be repeated.
LEMMA GiveUpKeepsSteady ==
    ASSUME Inv, SteadyInv, NEW t \in Tabs, TakeRejected(t) \/ GiveUp(t)
    PROVE  SteadyInv'
<1>1. PICK s : s = tab[t]
  OBVIOUS
<1>2. PICK new : new = [s EXCEPT !.sent = None, !.answer = None]
  OBVIOUS
<1>3. s \in Tab
  BY <1>1 DEF Inv, TypeOK
<1>4. /\ new.open = s.open /\ new.rev = s.rev /\ new.cursor = s.cursor
      /\ new.timeline = s.timeline /\ new.pending = s.pending /\ new.job = s.job
      /\ new.seen = s.seen /\ new.from = s.from /\ new.collected = s.collected
      /\ new.sent = None /\ new.answer = None
      /\ Requests(new) \subseteq Requests(s)
  BY <1>2, <1>3 DEF Tab, Requests
<1>5. Becomes(t, new) /\ UNCHANGED <<server, stored>>
  BY <1>1, <1>2 DEF TakeRejected, GiveUp
<1>6. /\ late' \subseteq late \cup Requests(s)
      /\ t \in Steady => late' = late
  BY <1>1 DEF TakeRejected, GiveUp, LeavesBehind, Requests, Steady
<1>7. Own'
  BY <1>1, <1>4, <1>5, <1>6, OwnMoves DEF SteadyInv
<1>8. ASSUME t \in Steady
      PROVE  SteadyTab(new, stored[t])
  <2>1. Gapless(s, stored[t]) /\ Explains(s)
    BY <1>1, <1>8, SteadyFields
  <2>2. Asks(new)
    BY <1>4 DEF Asks, IsApplied
  <2> QED BY <1>4, <2>1, <2>2, ShowsSame DEF SteadyTab
<1> QED BY <1>5, <1>7, <1>8, MoveKeepsSteady

--------------------------------------------------------------------------------
(* A tab fetches the session, and syncs *)

\* The session is fetched at a revision after that of any action applied so far.
LEMMA FetchKeepsSteady ==
    ASSUME Inv, SteadyInv, NEW t \in Tabs, NEW busy,
           UNCHANGED <<server, stored, late>>, tab[t].job = "none",
           NEW new,
           new = [tab[t] EXCEPT !.sent = None, !.answer = None,
                                !.job = "get", !.busy = busy, !.seen = rev],
           Becomes(t, new)
    PROVE  SteadyInv'
<1>1. PICK s : s = tab[t]
  OBVIOUS
<1>2. s \in Tab
  BY <1>1 DEF Inv, TypeOK
<1>3. /\ new.open = s.open /\ new.rev = s.rev /\ new.cursor = s.cursor
      /\ new.timeline = s.timeline /\ new.pending = s.pending /\ new.job = "get"
      /\ new.seen = rev /\ new.from = s.from /\ new.collected = s.collected
      /\ new.sent = None /\ new.answer = None
      /\ Requests(new) \subseteq Requests(s)
  BY <1>1, <1>2 DEF Tab, Requests
<1>4. ASSUME t \in Steady
      PROVE  SteadyTab(new, stored[t])
  <2>1. Gapless(s, stored[t]) /\ Explains(s)
    BY <1>1, <1>4, SteadyFields
  <2>2. Gapless(new, stored[t])
    BY <1>3, <2>1 DEF Gapless
  <2>3. Asks(new)
    BY <1>3 DEF Asks, IsApplied
  <2>4. Took(new, s.rev) <=> Took(s, s.rev)
    BY <1>3 DEF Took
  <2>5. ~Took(new, rev)
    BY HistoryFields DEF Took
  <2>6. Explains(new)
    BY <1>1, <1>3, <2>1, <2>4, <2>5 DEF Explains
  <2> QED BY <2>2, <2>3, <2>6 DEF SteadyTab
<1> QED BY <1>1, <1>3, <1>4, StaysOwn

LEMMA GetKeepsSteady ==
    ASSUME Inv, SteadyInv, NEW t \in Tabs, TakeConflict(t) \/ Resume(t) \/ Refresh(t)
    PROVE  SteadyInv'
<1>1. tab[t] \in Tab /\ TabInv(tab[t]) /\ tab[t].job = "none"
  BY DEF Inv, TypeOK, TakeConflict, Resume, Refresh
<1>2. CASE TakeConflict(t)
  <2>1. Becomes(t, [tab[t] EXCEPT !.sent = None, !.answer = None,
                                  !.job = "get", !.busy = TRUE, !.seen = rev])
    BY <1>1, <1>2 DEF TakeConflict, Fetches, Tab
  <2> QED BY <1>1, <1>2, <2>1, FetchKeepsSteady DEF TakeConflict
<1>3. CASE Resume(t) \/ Refresh(t)
  <2>1. tab[t].sent = None /\ tab[t].answer = None
    BY <1>1, <1>3 DEF TabInv, Resume, Refresh
  <2>2. PICK busy : Becomes(t, [tab[t] EXCEPT !.job = "get", !.busy = busy, !.seen = rev])
    BY <1>3 DEF Resume, Refresh, Fetches
  <2>3. [tab[t] EXCEPT !.job = "get", !.busy = busy, !.seen = rev]
            = [tab[t] EXCEPT !.sent = None, !.answer = None,
                             !.job = "get", !.busy = busy, !.seen = rev]
    BY <1>1, <2>1 DEF Tab
  <2>4. UNCHANGED <<server, stored, late>>
    BY <1>3 DEF Resume, Refresh
  <2> QED BY <1>1, <2>2, <2>3, <2>4, FetchKeepsSteady
<1> QED BY <1>2, <1>3

\* A tab that is reloaded starts from what it has stored.
LEMMA ReloadKeepsSteady ==
    ASSUME Inv, SteadyInv, NEW t \in Tabs, Reload(t)
    PROVE  SteadyInv'
<1>1. Becomes(t, Closed) /\ UNCHANGED <<server, stored>>
  BY DEF Reload
<1>2. /\ late' \subseteq late \cup Requests(tab[t])
      /\ t \in Steady => late' = late
  BY DEF Reload, LeavesBehind, Requests, Steady
<1>3. Requests(Closed) = {}
  BY DEF Closed, Requests
<1>4. Own'
  BY <1>1, <1>2, <1>3, OwnMoves DEF SteadyInv
<1>5. ASSUME t \in Steady
      PROVE  SteadyTab(Closed, stored[t])
  <2>1. Gapless(tab[t], stored[t]) /\ total \in Nat
    BY <1>5, SteadyFields, HistoryFields
  <2>2. Gapless(Closed, stored[t])
    BY <2>1 DEF Gapless, Closed, EndsAt
  <2>3. Asks(Closed) /\ Explains(Closed)
    BY DEF Asks, Explains, Closed, IsApplied
  <2> QED BY <2>2, <2>3 DEF SteadyTab
<1> QED BY <1>1, <1>4, <1>5, MoveKeepsSteady

LEMMA TakeSessionKeepsSteady ==
    ASSUME Inv, SteadyInv, NEW t \in Tabs, TakeSession(t)
    PROVE  SteadyInv'
<1>1. PICK s, cursor, timeline :
        /\ s = tab[t]
        /\ cursor = IF s.open THEN s.cursor ELSE stored[t].cursor
        /\ timeline = IF s.open THEN s.timeline ELSE stored[t].timeline
  OBVIOUS
<1>2. PICK new : new = [s EXCEPT !.open = TRUE, !.rev = s.seen, !.seen = 0,
                                 !.cursor = cursor, !.timeline = timeline,
                                 !.job = "sync", !.page = 0,
                                 !.from = cursor, !.collected = timeline]
  OBVIOUS
<1>3. s \in Tab /\ TabInv(s) /\ s.job = "get"
  BY <1>1 DEF Inv, TypeOK, TakeSession
<1>4. /\ new.open = TRUE /\ new.rev = s.seen /\ new.cursor = cursor
      /\ new.timeline = timeline /\ new.pending = s.pending /\ new.job = "sync"
      /\ new.from = cursor /\ new.collected = timeline
      /\ new.sent = s.sent /\ new.answer = s.answer
      /\ Requests(new) = Requests(s)
  BY <1>2, <1>3 DEF Tab, Requests
<1>5. Becomes(t, new) /\ UNCHANGED <<server, stored, late>>
  BY <1>1, <1>2 DEF TakeSession
<1>6. ASSUME t \in Steady
      PROVE  SteadyTab(new, stored[t])
  <2>1. Gapless(s, stored[t]) /\ Explains(s)
    BY <1>1, <1>6, SteadyFields
  <2>2. cursor <= total /\ EndsAt(timeline, cursor)
    BY <1>1, <2>1 DEF Gapless
  <2>3. Gapless(new, stored[t])
    BY <1>4, <2>1, <2>2 DEF Gapless
  <2>4. Asks(new)
    BY <1>3, <1>4 DEF Asks, TabInv, IsApplied
  <2>5. ~Took(new, s.seen)
    BY <1>3, <1>4, <2>1 DEF Explains, Took
  <2>6. Explains(new)
    BY <1>4, <2>5 DEF Explains
  <2> QED BY <2>3, <2>4, <2>6 DEF SteadyTab
<1> QED BY <1>1, <1>4, <1>5, <1>6, StaysOwn

LEMMA FetchFailsKeepsSteady ==
    ASSUME Inv, SteadyInv, NEW t \in Tabs, FetchFails(t)
    PROVE  SteadyInv'
<1>1. PICK s : s = tab[t]
  OBVIOUS
<1>2. PICK new : new = [s EXCEPT !.job = "none", !.busy = FALSE, !.seen = 0]
  OBVIOUS
<1>3. s \in Tab /\ TabInv(s) /\ s.job = "get"
  BY <1>1 DEF Inv, TypeOK, FetchFails
<1>4. /\ new.open = s.open /\ new.rev = s.rev /\ new.cursor = s.cursor
      /\ new.timeline = s.timeline /\ new.pending = s.pending /\ new.job = "none"
      /\ new.from = s.from /\ new.collected = s.collected
      /\ new.sent = s.sent /\ new.answer = s.answer
      /\ Requests(new) = Requests(s)
  BY <1>2, <1>3 DEF Tab, Requests
<1>5. Becomes(t, new) /\ UNCHANGED <<server, stored, late>>
  BY <1>1, <1>2 DEF FetchFails
<1>6. ASSUME t \in Steady
      PROVE  SteadyTab(new, stored[t])
  <2>1. Gapless(s, stored[t]) /\ Explains(s)
    BY <1>1, <1>6, SteadyFields
  <2>2. Gapless(new, stored[t])
    BY <1>4, <2>1 DEF Gapless
  <2>3. Asks(new)
    BY <1>3, <1>4 DEF Asks, TabInv, IsApplied
  <2>4. Took(new, s.rev) <=> Took(s, s.rev)
    BY <1>4 DEF Took
  <2>5. Explains(new)
    BY <1>3, <1>4, <2>1, <2>4 DEF Explains
  <2> QED BY <2>2, <2>3, <2>5 DEF SteadyTab
<1> QED BY <1>1, <1>4, <1>5, <1>6, StaysOwn

\* A steady tab is never beyond the log.
LEMMA RebuildKeepsSteady ==
    ASSUME Inv, SteadyInv, NEW t \in Tabs, Rebuild(t)
    PROVE  SteadyInv'
<1>1. PICK s : s = tab[t]
  OBVIOUS
<1>2. PICK new : new = [s EXCEPT !.page = 1, !.from = 0, !.collected = <<>>]
  OBVIOUS
<1>3. s \in Tab /\ s.from \in Nat /\ total \in Nat
  BY <1>1, TabFields DEF Inv, TypeOK
<1>4. Requests(new) = Requests(s)
  BY <1>2, <1>3 DEF Tab, Requests
<1>5. Becomes(t, new) /\ UNCHANGED <<server, stored, late>> /\ total < s.from
  BY <1>1, <1>2 DEF Rebuild
<1>6. t \notin Steady
  BY <1>1, <1>3, <1>5, SteadyFields DEF Gapless
<1> QED BY <1>1, <1>4, <1>5, <1>6, StaysOwn

\* The last page ends at the end of the log.
LEMMA PageKeepsSteady ==
    ASSUME Inv, SteadyInv, NEW t \in Tabs, Page(t)
    PROVE  SteadyInv'
<1>1. PICK s, upto :
        /\ s = tab[t]
        /\ upto = IF s.from + MaxWindow < total THEN s.from + MaxWindow ELSE total
  OBVIOUS
<1>2. PICK read, job : /\ read = s.collected \o Events(s.from, upto)
                       /\ job = IF HasMore(upto) THEN "sync" ELSE "commit"
  OBVIOUS
<1>3. PICK new : new = [s EXCEPT !.page = 1, !.from = upto, !.collected = read, !.job = job]
  OBVIOUS
<1>4. /\ s \in Tab /\ TabInv(s) /\ s.from \in Nat /\ s.collected \in Seq(Nat)
      /\ s.rev \in Nat /\ total \in Nat /\ s.job = "sync"
  BY <1>1, TabFields DEF Inv, TypeOK, Page
<1>5. /\ new.open = s.open /\ new.rev = s.rev /\ new.cursor = s.cursor
      /\ new.timeline = s.timeline /\ new.pending = s.pending /\ new.job = job
      /\ new.from = upto /\ new.collected = read
      /\ new.sent = s.sent /\ new.answer = s.answer
      /\ Requests(new) = Requests(s)
  BY <1>3, <1>4 DEF Tab, Requests
<1>6. Becomes(t, new) /\ UNCHANGED <<server, stored, late>>
  BY <1>1, <1>2, <1>3 DEF Page
<1>7. ASSUME t \in Steady
      PROVE  SteadyTab(new, stored[t])
  <2>1. Gapless(s, stored[t]) /\ Explains(s) /\ Asks(s)
    BY <1>1, <1>7, SteadyFields
  <2>2. upto \in Nat /\ s.from <= upto /\ upto <= total
    BY <1>1, <1>4, <2>1, PlayAssumption DEF Gapless
  <2>3. EndsAt(read, upto)
    BY <1>2, <1>4, <2>1, <2>2, EndsAtConcat DEF Gapless
  <2>4. Gapless(new, stored[t])
    BY <1>5, <2>1, <2>2, <2>3 DEF Gapless
  <2>5. Asks(new)
    BY <1>4, <1>5, <2>1 DEF Asks, TabInv, IsApplied
  <2>6. job \in {"sync", "commit"} /\ (job = "commit" => upto = total)
    BY <1>2, <1>4, <2>2 DEF HasMore
  <2>7. LogAt(s.rev) \in Nat /\ LogAt(s.rev) <= total
    BY <1>4, LogAtBound DEF TabInv, SteadyInv
  <2>8. ~Took(new, s.rev)
    BY <1>4, <1>5, <2>1 DEF Explains, Took
  <2>9. Explains(new)
    BY <1>4, <1>5, <2>6, <2>7, <2>8 DEF Explains
  <2> QED BY <2>4, <2>5, <2>9 DEF SteadyTab
<1> QED BY <1>1, <1>5, <1>6, <1>7, StaysOwn

LEMMA EndSyncKeepsSteady ==
    ASSUME Inv, SteadyInv, NEW t \in Tabs, EndSync(t)
    PROVE  SteadyInv'
<1>1. PICK s, after : s = tab[t] /\ after = AfterSync(s)
  OBVIOUS
<1>2. PICK new : new = [after EXCEPT !.cursor = s.from, !.timeline = s.collected]
  OBVIOUS
<1>3. /\ s \in Tab /\ TabInv(s) /\ s.from \in Nat /\ s.collected \in Seq(Nat)
      /\ total \in Nat /\ s.job = "commit"
  BY <1>1, TabFields DEF Inv, TypeOK, EndSync
<1>4. /\ after \in Tab /\ after.pending = s.pending /\ after.sent = s.sent
      /\ after.answer = s.answer /\ after.rev = s.rev /\ after.job = "none"
      /\ after.from = 0 /\ after.collected = <<>>
  BY <1>1, <1>3, AfterSyncFields DEF AfterSync, Tab
<1>5. Commits(t, after, s.from, s.collected) /\ UNCHANGED <<server, late, clicks>>
  BY <1>1 DEF EndSync
<1>6. /\ new.rev = s.rev /\ new.cursor = s.from
      /\ new.timeline = s.collected /\ new.pending = s.pending /\ new.job = "none"
      /\ new.from = 0 /\ new.collected = <<>>
      /\ new.sent = s.sent /\ new.answer = s.answer
  BY <1>2, <1>4 DEF Tab
<1>7. Becomes(t, new) /\ Requests(new) = Requests(s)
  BY <1>2, <1>5, <1>6 DEF Commits, Requests
<1>8. ASSUME t \in Steady
      PROVE  SteadyTab(new, stored'[t])
  <2>1. Gapless(s, stored[t]) /\ Explains(s) /\ Asks(s)
    BY <1>1, <1>8, SteadyFields
  <2>2. Gapless(new, stored'[t])
    <3>1. EndsAt(<<>>, 0)
      BY DEF EndsAt
    <3>2. s.from <= total /\ EndsAt(s.collected, s.from)
      BY <2>1 DEF Gapless
    <3>3. stored'[t].cursor = s.from /\ EndsAt(stored'[t].timeline, s.from)
      BY <1>3, <1>5, <3>2, CommitKeeps
    <3> QED BY <1>3, <1>6, <3>1, <3>2, <3>3 DEF Gapless
  <2>3. Asks(new)
    BY <1>3, <1>6, <2>1 DEF Asks, TabInv, IsApplied
  <2>4. Took(new, s.rev) <=> Took(s, s.rev)
    BY <1>6 DEF Took
  <2>5. Explains(new)
    BY <1>3, <1>6, <2>1, <2>4 DEF Explains
  <2> QED BY <2>2, <2>3, <2>5 DEF SteadyTab
<1>9. \A v \in Tabs \ {t} : stored'[v] = stored[v]
  BY <1>5 DEF Commits, Inv, TypeOK
<1> QED BY <1>1, <1>5, <1>7, <1>8, <1>9, StaysOwn

\* The syncs of a steady tab do not break off.
LEMMA SyncFailsKeepsSteady ==
    ASSUME Inv, SteadyInv, NEW t \in Tabs, SyncFails(t)
    PROVE  SteadyInv'
<1>1. tab[t] \in Tab /\ t \notin Steady
  BY DEF Inv, TypeOK, SyncFails, Steady
<1>2. Requests(AfterSync(tab[t])) = Requests(tab[t])
  BY <1>1, AfterSyncFields DEF Requests
<1> QED BY <1>1, <1>2, StaysOwn DEF SyncFails

--------------------------------------------------------------------------------
(* The theorems *)

LEMMA SteadyInit == Init => SteadyInv
<1> SUFFICES ASSUME Init PROVE SteadyInv
  OBVIOUS
<1>1. total \in Nat /\ DOMAIN history = {}
  BY PlayAssumption DEF Init
<1>2. LogInv
  BY <1>1 DEF LogInv
<1>3. \A t \in Tabs : tab[t] = Closed /\ stored[t] = [cursor |-> 0, timeline |-> <<>>]
  BY DEF Init
<1>4. Own
  BY <1>3 DEF Own, Steady, Requests, Closed
<1>5. ASSUME NEW t \in Steady
      PROVE  SteadyTab(tab[t], stored[t])
  <2>1. EndsAt(<<>>, 0)
    BY DEF EndsAt
  <2>2. Gapless(tab[t], stored[t])
    BY <1>1, <1>3, <2>1 DEF Gapless, Closed, Steady
  <2>3. Asks(tab[t]) /\ Explains(tab[t])
    BY <1>3 DEF Asks, Explains, Closed, IsApplied, Steady
  <2> QED BY <2>2, <2>3 DEF SteadyTab
<1> QED BY <1>2, <1>4, <1>5 DEF SteadyInv

LEMMA SteadyStep == Inv /\ SteadyInv /\ [Next]_vars => SteadyInv'
<1> SUFFICES ASSUME Inv, SteadyInv, [Next]_vars PROVE SteadyInv'
  OBVIOUS
<1>1. ASSUME NEW t \in Tabs \cup {Nobody}, NEW click, Serve(t, click)
      PROVE  SteadyInv'
  BY <1>1, QuietServeKeepsSteady, ApplyKeepsSteady DEF Serve
<1>2. ASSUME NEW t \in Tabs, NEW input \in Inputs, Act(t, input)
      PROVE  SteadyInv'
  BY <1>2, ActKeepsSteady
<1>3. ASSUME NEW t \in Tabs,
             \/ TakeApplied(t) \/ TakeConflict(t) \/ TakeRejected(t) \/ GiveUp(t)
             \/ Resume(t) \/ Refresh(t) \/ Reload(t)
      PROVE  SteadyInv'
  BY <1>3, TakeAppliedKeepsSteady, GiveUpKeepsSteady, GetKeepsSteady, ReloadKeepsSteady
<1>4. ASSUME NEW t \in Tabs,
             \/ TakeSession(t) \/ FetchFails(t) \/ Rebuild(t) \/ Page(t)
             \/ EndSync(t) \/ SyncFails(t)
      PROVE  SteadyInv'
  BY <1>4, TakeSessionKeepsSteady, FetchFailsKeepsSteady, RebuildKeepsSteady,
     PageKeepsSteady, EndSyncKeepsSteady, SyncFailsKeepsSteady
<1>5. CASE UNCHANGED vars
  <2>1. UNCHANGED <<server, tab, stored, late>>
    BY <1>5 DEF vars, server
  <2>2. \A t \in Steady : SteadyTab(tab[t], stored[t])'
    BY <2>1, SameTab DEF SteadyInv, Steady
  <2>3. LogInv' /\ Own'
    BY <2>1, SameLog DEF SteadyInv, Own, Steady
  <2> QED BY <2>2, <2>3 DEF SteadyInv, Steady
<1> QED BY <1>1, <1>2, <1>3, <1>4, <1>5 DEF Next

THEOREM SteadyInvariance == Spec => []SteadyInv
BY Invariance, SteadyInit, SteadyStep, PTL DEF Spec

\* What a steady tab shows has no gap and no repetition, however its own actions,
\* its syncs and the actions of others interleave (App.tsx, commitEvents).
THEOREM NoGaps == Spec => []SteadyTimelines
<1>1. SteadyInv => SteadyTimelines
  BY DEF SteadyInv, SteadyTab, Gapless, EndsAt, SteadyTimelines, EndsAtCursor, Steady
<1> QED BY <1>1, SteadyInvariance, PTL

\* A steady tab at rest has shown every event that led to the state on its screen
\* (App.tsx, act and refresh).
THEOREM ScreenExplained == Spec => []ScreenIsExplained
<1>1. SteadyInv => ScreenIsExplained
  BY DEF SteadyInv, SteadyTab, Explains, ScreenIsExplained, Steady
<1> QED BY <1>1, SteadyInvariance, PTL
=============================================================================
