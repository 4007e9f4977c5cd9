--------------------------- MODULE DesignRetry_proofs ---------------------------
(***************************************************************************)
(* Proofs about DesignRetry, for any number of threads, ids and rules, and *)
(* for tables of any size.                                                 *)
(*                                                                         *)
(* A step changes the store in one of three ways: a commit that remembers  *)
(* its id, a commit that does not, or none.  What holds the tables and the *)
(* history together is that processed is, in order, the newest of the      *)
(* changes that are remembered.                                            *)
(***************************************************************************)
EXTENDS DesignRetry, FiniteSetTheorems, SequenceTheorems, TLAPS

\* A change is made at the revision it expects, and the session has moved on.
Locked ==
    \A change \in applied :
        change.rev = change.print.exp + 1 /\ change.rev <= design.rev

\* The entries of processed are changes, in the order of their revisions, and no
\* two have one id.
Kept ==
    /\ \A k \in DOMAIN design.processed :
          design.processed[k] \in applied /\ Remembered(design.processed[k])
    /\ \A j, k \in DOMAIN design.processed :
          j < k => design.processed[j].rev < design.processed[k].rev
    /\ \A j, k \in DOMAIN design.processed :
          design.processed[j].id = design.processed[k].id => j = k

\* A change that is no longer in processed is older than all MaxProcessed of them.
Newest ==
    \A change \in applied : Remembered(change) =>
        \/ \E k \in DOMAIN design.processed : design.processed[k] = change
        \/ /\ Len(design.processed) = MaxProcessed
           /\ \A k \in DOMAIN design.processed : change.rev < design.processed[k].rev

\* What verify_game would say again is a change.
VerifiesKept ==
    \A k \in DOMAIN design.verifies :
        LET answer == design.verifies[k] IN
        Says(answer.id, Verification(answer.ir, answer.rev - 1), answer.rev) \in applied

\* What a thread is about to commit.
Carries(s) ==
    /\ s.pc \in {"verify_commit", "unbuilt_commit"} =>
          /\ s.print \in Fingerprint
          /\ s.print = Verification(s.print.ir, s.print.at)
          /\ s.print.ir \in Compiling <=> s.pc = "verify_commit"
    /\ s.pc = "confirm_commit" => s.print \in Fingerprint /\ s.print.kind = "confirm"

StoreInv ==
    /\ IsFiniteSet(applied)
    /\ AnswersAreOwn
    /\ Locked
    /\ Kept
    /\ Newest
    /\ VerifiesKept
    /\ IdsAreKept

\* The part of TypeOK that is not about the threads or the last refusal.
StoreType ==
    /\ design \in Design
    /\ Len(design.processed) <= MaxProcessed
    /\ Len(design.verifies) <= MaxVerifies
    /\ applied \subseteq Change
    /\ answered \subseteq Change

\* TypeOK without the last refusal.
Shape ==
    /\ StoreType
    /\ thread \in [Threads -> Thread]

Inv ==
    /\ Shape
    /\ StoreInv
    /\ \A t \in Threads : Carries(thread[t])

\* The last refusal.
Refused == denied \subseteq applied /\ RefusedUpdateWasForgotten

--------------------------------------------------------------------------------
(* Tables *)

\* How many entries Remember drops.
Gone(table, limit) == IF Len(table) < limit THEN 0 ELSE 1

\* The table new is old with e at its end, and without its first entry when it was
\* full.
Extends(new, old, e, limit) ==
    /\ Len(new) \in 1 .. limit
    /\ Len(old) = Len(new) - 1 + Gone(old, limit)
    /\ Gone(old, limit) = 1 => Len(new) = limit
    /\ new[Len(new)] = e
    /\ \A k \in 1 .. Len(new) - 1 :
          /\ k + Gone(old, limit) \in 1 .. Len(old)
          /\ new[k] = old[k + Gone(old, limit)]
    /\ \A k \in 1 .. Len(old) :
          \/ k - Gone(old, limit) \in 1 .. Len(new) - 1
          \/ k = 1 /\ Gone(old, limit) = 1

\* That is what Remember does.
LEMMA RememberTable ==
    ASSUME NEW S, NEW table \in Seq(S), NEW e \in S, NEW limit \in Nat \ {0},
           Len(table) <= limit
    PROVE  /\ Remember(table, e, limit) \in Seq(S)
           /\ Extends(Remember(table, e, limit), table, e, limit)
<1> DEFINE new == Remember(table, e, limit)
<1> USE DEF Gone, Extends
<1>1. CASE Len(table) < limit
  BY <1>1 DEF Remember
<1>2. CASE ~ Len(table) < limit
  <2>1. Len(table) = limit /\ table # <<>>
    BY <1>2
  <2>2. /\ Tail(table) \in Seq(S)
        /\ Len(Tail(table)) = Len(table) - 1
        /\ \A k \in 1 .. Len(table) - 1 : Tail(table)[k] = table[k + 1]
    BY <2>1
  <2>3. new = Append(Tail(table), e)
    BY <1>2 DEF Remember
  <2> QED BY <1>2, <2>1, <2>2, <2>3
<1> QED BY <1>1, <1>2

\* An id that a table knows has an entry in it.
LEMMA KnownEntry ==
    ASSUME NEW S, NEW table \in Seq(S), NEW i, Known(table, i)
    PROVE  \E k \in DOMAIN table : Entry(table, i) = table[k] /\ table[k].id = i
BY DEF Known, Entry

\* A change is made of its parts.
LEMMA ChangeParts ==
    ASSUME NEW change \in Change
    PROVE  change = Says(change.id, change.print, change.rev)
BY DEF Change, Says

\* A replay says what the first answer said.
LEMMA ReplaysAreOwn ==
    ASSUME StoreType, Kept, NEW i, NEW print, Repeats(i, print)
    PROVE  Says(i, print, Entry(design.processed, i).rev) \in applied
<1>1. design.processed \in Seq(Processed) /\ applied \subseteq Change
  BY DEF StoreType, Design
<1>2. PICK k \in DOMAIN design.processed :
          Entry(design.processed, i) = design.processed[k] /\ design.processed[k].id = i
  BY <1>1, KnownEntry DEF Repeats
<1>3. design.processed[k] \in Change /\ design.processed[k] \in applied
  BY <1>1, <1>2 DEF Kept
<1>4. design.processed[k].print = print
  BY <1>2 DEF Repeats
<1> QED BY <1>2, <1>3, <1>4, ChangeParts

\* What the verdict of _prepare means.
LEMMA VerdictMeans ==
    ASSUME NEW i, NEW print
    PROVE  /\ Verdict(i, print) = "apply" =>
                 ~ Known(design.processed, i) /\ design.rev = print.exp
           /\ Verdict(i, print) = "replay" => Repeats(i, print)
           /\ Repeats(i, print) => Verdict(i, print) = "replay"
BY DEF Verdict, Repeats

--------------------------------------------------------------------------------
(* Commits *)

\* A commit that is not remembered: one without an id, or of rules that do not
\* compile.
LEMMA ForgottenKeeps ==
    ASSUME StoreType, StoreInv,
           NEW change \in Change, ~ Remembered(change),
           change.rev = design.rev + 1, change.print.exp = design.rev,
           design' \in Design,
           design'.rev = design.rev + 1,
           design'.processed = design.processed,
           design'.verifies = design.verifies,
           applied' = applied \cup {change},
           answered' \subseteq answered \cup {change}
    PROVE  StoreType' /\ StoreInv'
<1> USE DEF StoreType, StoreInv
<1>1. StoreType'
  OBVIOUS
<1>2. IsFiniteSet(applied')
  BY FS_AddElement
<1>3. AnswersAreOwn'
  BY DEF AnswersAreOwn
<1>4. Locked'
  <2>1. design.rev \in Nat
    BY DEF Design
  <2>2. \A old \in applied : old.rev \in Nat
    BY DEF Change
  <2> QED BY <2>1, <2>2 DEF Locked
<1>5. Kept'
  BY DEF Kept, Remembered
<1>6. Newest'
  BY DEF Newest, Remembered
<1>7. VerifiesKept'
  BY DEF VerifiesKept, Says, Verification
<1>8. IdsAreKept'
  <2> SUFFICES ASSUME NEW one \in applied', NEW other \in applied',
                      one.id = other.id, one.rev < other.rev,
                      Remembered(one), Remembered(other)
               PROVE  Cardinality({c \in applied' :
                          Remembered(c) /\ one.rev < c.rev /\ c.rev < other.rev})
                          >= MaxProcessed
    BY DEF IdsAreKept, Remembered
  <2>1. one \in applied /\ other \in applied
    OBVIOUS
  <2>2. {c \in applied' : Remembered(c) /\ one.rev < c.rev /\ c.rev < other.rev}
          = {c \in applied : Remembered(c) /\ one.rev < c.rev /\ c.rev < other.rev}
    OBVIOUS
  <2> QED BY <2>1, <2>2 DEF IdsAreKept
<1> QED BY <1>1, <1>2, <1>3, <1>4, <1>5, <1>6, <1>7, <1>8

\* The entries of processed that are newer than a change that is gone from it are
\* MaxProcessed changes.
LEMMA FullTable ==
    ASSUME StoreType, StoreInv, NEW one \in applied,
           Len(design.processed) = MaxProcessed,
           \A k \in DOMAIN design.processed : one.rev < design.processed[k].rev
    PROVE  Cardinality({c \in applied :
               Remembered(c) /\ one.rev < c.rev /\ c.rev < design.rev + 1})
               >= MaxProcessed
<1> DEFINE P == design.processed
           Between == {c \in applied :
               Remembered(c) /\ one.rev < c.rev /\ c.rev < design.rev + 1}
           Entries == [k \in 1 .. MaxProcessed |-> P[k]]
<1>1. /\ P \in Seq(Processed) /\ DOMAIN P = 1 .. MaxProcessed
      /\ MaxProcessed \in Nat /\ design.rev \in Nat
  BY BoundsAssumption DEF StoreType, Design
<1>2. \A k \in 1 .. MaxProcessed : P[k] \in Between
  <2> SUFFICES ASSUME NEW k \in 1 .. MaxProcessed
               PROVE  P[k] \in Between
    OBVIOUS
  <2>1. P[k] \in applied /\ Remembered(P[k])
    BY <1>1 DEF StoreInv, Kept
  <2>2. P[k].rev <= design.rev /\ P[k].rev \in Nat
    BY <2>1 DEF StoreInv, Locked, StoreType, Change
  <2>3. one.rev < P[k].rev
    BY <1>1
  <2> QED BY <1>1, <2>1, <2>2, <2>3
<1>3. Entries \in Injection(1 .. MaxProcessed, Between)
  <2>1. Entries \in [1 .. MaxProcessed -> Between]
    BY <1>2
  <2>2. \A j, k \in 1 .. MaxProcessed : Entries[j] = Entries[k] => j = k
    BY <1>1 DEF StoreInv, Kept
  <2> QED BY <2>1, <2>2 DEF Injection, IsInjective
<1>4. IsFiniteSet(Between) /\ Cardinality(Between) \in Nat
  BY FS_Subset, FS_CardinalityType DEF StoreInv
<1>5. Cardinality(1 .. MaxProcessed) = MaxProcessed
  BY <1>1, FS_Interval
<1>6. Cardinality(1 .. MaxProcessed) <= Cardinality(Between)
  BY <1>3, <1>4, FS_Injection
<1> QED BY <1>1, <1>4, <1>5, <1>6

\* A commit that is remembered.
LEMMA RememberedKeeps ==
    ASSUME StoreType, StoreInv,
           NEW change \in Processed, Remembered(change),
           ~ Known(design.processed, change.id),
           change.rev = design.rev + 1, change.print.exp = design.rev,
           design' \in Design,
           design'.rev = design.rev + 1,
           design'.processed = Remember(design.processed, change, MaxProcessed),
           Len(design'.verifies) <= MaxVerifies,
           applied' = applied \cup {change},
           answered' = answered \cup {change},
           VerifiesKept'
    PROVE  StoreType' /\ StoreInv'
<1> DEFINE P == design.processed
           Q == design'.processed
           gone == Gone(P, MaxProcessed)
<1> USE DEF StoreType, StoreInv
<1>1. /\ P \in Seq(Processed) /\ Len(P) <= MaxProcessed
      /\ MaxProcessed \in Nat \ {0} /\ design.rev \in Nat
  BY BoundsAssumption DEF Design
<1>2. /\ Q \in Seq(Processed)
      /\ Len(Q) \in 1 .. MaxProcessed
      /\ Len(P) = Len(Q) - 1 + gone
      /\ gone = 1 => Len(Q) = MaxProcessed
      /\ Q[Len(Q)] = change
      /\ \A k \in 1 .. Len(Q) - 1 : k + gone \in 1 .. Len(P) /\ Q[k] = P[k + gone]
      /\ \A k \in 1 .. Len(P) : k - gone \in 1 .. Len(Q) - 1 \/ (k = 1 /\ gone = 1)
  <2>1. Q \in Seq(Processed) /\ Extends(Q, P, change, MaxProcessed)
    BY <1>1, RememberTable
  <2> QED BY <2>1 DEF Extends
<1>3. /\ DOMAIN P = 1 .. Len(P) /\ DOMAIN Q = 1 .. Len(Q)
      /\ Len(Q) \in DOMAIN Q /\ DOMAIN Q \subseteq Int /\ DOMAIN P \subseteq Int
      /\ gone \in {0, 1}
      /\ Len(P) = MaxProcessed => gone = 1
  BY <1>1, <1>2 DEF Gone
<1> HIDE DEF gone
<1>4. \A k \in DOMAIN Q :
         k # Len(Q) => k + gone \in DOMAIN P /\ Q[k] = P[k + gone] /\ k < Len(Q)
  <2> SUFFICES ASSUME NEW k \in DOMAIN Q, k # Len(Q)
               PROVE  k + gone \in DOMAIN P /\ Q[k] = P[k + gone] /\ k < Len(Q)
    OBVIOUS
  <2>1. k \in 1 .. Len(Q) - 1 /\ k < Len(Q)
    BY <1>2, <1>3
  <2> QED BY <1>2, <1>3, <2>1
<1>5. \A k \in DOMAIN P :
         \/ k - gone \in DOMAIN Q /\ Q[k - gone] = P[k]
         \/ gone = 1 /\ k = 1
  <2> SUFFICES ASSUME NEW k \in DOMAIN P, ~ (gone = 1 /\ k = 1)
               PROVE  k - gone \in DOMAIN Q /\ Q[k - gone] = P[k]
    OBVIOUS
  <2>1. k - gone \in 1 .. Len(Q) - 1
    BY <1>2, <1>3
  <2>2. (k - gone) + gone = k
    BY <1>3
  <2>3. Q[k - gone] = P[k]
    BY <1>2, <2>1, <2>2
  <2>4. 1 .. Len(Q) - 1 \subseteq DOMAIN Q
    BY <1>2, <1>3
  <2> QED BY <2>1, <2>3, <2>4
<1>6. change \in Change
  BY DEF Processed, Change
<1>7. \A old \in applied : old.rev \in Nat /\ old.rev < change.rev
  BY <1>1 DEF Locked, Change
<1>8. StoreType'
  BY <1>2, <1>6
<1>9. IsFiniteSet(applied') /\ AnswersAreOwn'
  BY FS_AddElement DEF AnswersAreOwn
<1>10. Locked'
  BY <1>1, <1>7 DEF Locked
<1>11. Kept'
  <2>1. ASSUME NEW k \in DOMAIN Q
        PROVE  Q[k] \in applied' /\ Remembered(Q[k])
    BY <1>2, <1>4 DEF Kept
  <2>2. ASSUME NEW j \in DOMAIN Q, NEW k \in DOMAIN Q, j < k
        PROVE  Q[j].rev < Q[k].rev
    <3>1. j # Len(Q)
      BY <1>3, <1>4, <2>2
    <3>2. j + gone \in DOMAIN P /\ Q[j] = P[j + gone] /\ P[j + gone] \in applied
      BY <1>4, <3>1 DEF Kept
    <3>3. CASE k = Len(Q)
      BY <1>2, <1>7, <3>2, <3>3
    <3>4. CASE k # Len(Q)
      <4>1. k + gone \in DOMAIN P /\ Q[k] = P[k + gone]
        BY <1>4, <3>4
      <4>2. j + gone < k + gone
        BY <1>3, <2>2
      <4> QED BY <3>2, <4>1, <4>2 DEF Kept
    <3> QED BY <3>3, <3>4
  <2>3. ASSUME NEW j \in DOMAIN Q, NEW k \in DOMAIN Q, Q[j].id = Q[k].id
        PROVE  j = k
    <3>1. \A n \in DOMAIN Q : n # Len(Q) => Q[n].id # change.id
      BY <1>4 DEF Known
    <3>2. CASE j = Len(Q) \/ k = Len(Q)
      BY <1>2, <2>3, <3>1, <3>2
    <3>3. CASE j # Len(Q) /\ k # Len(Q)
      <4>1. /\ j + gone \in DOMAIN P /\ Q[j] = P[j + gone]
            /\ k + gone \in DOMAIN P /\ Q[k] = P[k + gone]
        BY <1>4, <3>3
      <4>2. j + gone = k + gone
        BY <2>3, <4>1 DEF Kept
      <4> QED BY <1>3, <4>2
    <3> QED BY <3>2, <3>3
  <2> QED BY <2>1, <2>2, <2>3 DEF Kept, Remembered
<1>12. Newest'
  <2> SUFFICES ASSUME NEW old \in applied', Remembered(old)
               PROVE  \/ \E k \in DOMAIN Q : Q[k] = old
                      \/ Len(Q) = MaxProcessed /\ \A k \in DOMAIN Q : old.rev < Q[k].rev
    BY DEF Newest, Remembered
  <2>1. CASE old = change
    BY <1>2, <1>3, <2>1
  <2>2. ASSUME old \in applied, gone = 1,
               \A n \in DOMAIN Q : n # Len(Q) => old.rev < P[n + gone].rev
        PROVE  Len(Q) = MaxProcessed /\ \A k \in DOMAIN Q : old.rev < Q[k].rev
    BY <1>2, <1>4, <1>7, <2>2
  <2>3. CASE old \in applied /\ \E k \in DOMAIN P : P[k] = old
    <3>1. PICK k \in DOMAIN P : P[k] = old
      BY <2>3
    <3>2. CASE k - gone \in DOMAIN Q /\ Q[k - gone] = P[k]
      BY <3>1, <3>2
    <3>3. CASE gone = 1 /\ k = 1
      <4>1. \A n \in DOMAIN Q : n # Len(Q) => n + gone \in DOMAIN P /\ 1 < n + gone
        BY <1>3, <1>4, <3>3
      <4>2. \A n \in DOMAIN Q : n # Len(Q) => old.rev < P[n + gone].rev
        BY <3>1, <3>3, <4>1 DEF Kept
      <4> QED BY <2>2, <2>3, <3>3, <4>2
    <3> QED BY <1>5, <3>2, <3>3
  <2>4. CASE old \in applied /\ ~ \E k \in DOMAIN P : P[k] = old
    <3>1. Len(P) = MaxProcessed /\ \A k \in DOMAIN P : old.rev < P[k].rev
      BY <2>4 DEF Newest
    <3>2. gone = 1
      BY <1>3, <3>1
    <3> QED BY <1>4, <2>2, <2>4, <3>1, <3>2
  <2> QED BY <2>1, <2>3, <2>4
<1>13. IdsAreKept'
  <2> DEFINE Between(one, other, changes) ==
        {c \in changes : Remembered(c) /\ one.rev < c.rev /\ c.rev < other.rev}
  <2> SUFFICES ASSUME NEW one \in applied', NEW other \in applied',
                      one.id = other.id, one.rev < other.rev,
                      Remembered(one), Remembered(other)
               PROVE  Cardinality(Between(one, other, applied')) >= MaxProcessed
    BY DEF IdsAreKept, Remembered
  <2>1. one \in applied
    BY <1>6, <1>7 DEF Change
  <2>2. IsFiniteSet(Between(one, other, applied'))
    BY <1>9, FS_Subset
  <2>3. Between(one, other, applied) \in SUBSET Between(one, other, applied')
    OBVIOUS
  <2>4. Cardinality(Between(one, other, applied)) >= MaxProcessed
    <3>1. CASE other = change
      <4>1. ~ \E k \in DOMAIN P : P[k] = one
        BY <3>1 DEF Known
      <4>2. Len(P) = MaxProcessed /\ \A k \in DOMAIN P : one.rev < P[k].rev
        BY <2>1, <4>1 DEF Newest
      <4> QED BY <2>1, <3>1, <4>2, FullTable
    <3>2. CASE other \in applied
      BY <2>1, <3>2 DEF IdsAreKept
    <3> QED BY <3>1, <3>2
  <2>5. /\ Cardinality(Between(one, other, applied)) <= Cardinality(Between(one, other, applied'))
        /\ Cardinality(Between(one, other, applied')) \in Nat
        /\ Cardinality(Between(one, other, applied)) \in Nat
    BY <2>2, <2>3, FS_Subset, FS_CardinalityType
  <2> QED BY <1>1, <2>4, <2>5
<1> QED BY <1>8, <1>9, <1>10, <1>11, <1>12, <1>13

\* An answer that repeats a change, or none: the session stays.
LEMMA AnswerKeeps ==
    ASSUME StoreType, StoreInv, UNCHANGED <<design, applied>>,
           answered' \subseteq answered \cup applied
    PROVE  StoreType' /\ StoreInv'
<1> USE DEF StoreType, StoreInv
<1>1. StoreType'
  BY DEF AnswersAreOwn
<1>2. AnswersAreOwn'
  BY DEF AnswersAreOwn
<1>3. IsFiniteSet(applied') /\ Locked' /\ Kept' /\ VerifiesKept'
  BY DEF Locked, Kept, VerifiesKept, Remembered, Says, Verification
<1>4. Newest' /\ IdsAreKept'
  BY DEF Newest, IdsAreKept, Remembered
<1> QED BY <1>1, <1>2, <1>3, <1>4

\* The row that a commit writes.
RowOf(row, rev, table) == [row EXCEPT !.rev = rev, !.processed = table]

LEMMA RowParts ==
    ASSUME NEW row \in Design, NEW rev \in Nat, NEW table \in Seq(Processed)
    PROVE  /\ RowOf(row, rev, table) \in Design
           /\ RowOf(row, rev, table).rev = rev
           /\ RowOf(row, rev, table).processed = table
           /\ RowOf(row, rev, table).verifies = row.verifies
BY DEF Design, RowOf

\* A commit through DesignStore.commit.  Without an id it leaves verify_requests as
\* it is; with one, all that verify_requests says afterwards is a change.
LEMMA CommitKeeps ==
    ASSUME StoreType, StoreInv,
           NEW i \in Ids \cup {NoId}, NEW print \in Fingerprint, NEW row \in Design,
           row.processed = design.processed,
           Len(row.verifies) <= MaxVerifies,
           i = NoId => row.verifies = design.verifies,
           i # NoId => Remembered(Says(i, print, design.rev + 1)),
           design.rev = print.exp =>
               \A k \in DOMAIN row.verifies :
                   LET answer == row.verifies[k] IN
                   Says(answer.id, Verification(answer.ir, answer.rev - 1), answer.rev)
                       \in applied \cup {Says(i, print, design.rev + 1)},
           Commit(i, print, row)
    PROVE  StoreType' /\ StoreInv'
<1> DEFINE change == Says(i, print, design.rev + 1)
<1>1. design.rev \in Nat /\ design.rev + 1 \in Nat
      /\ design.processed \in Seq(Processed)
      /\ Len(design.processed) <= MaxProcessed /\ MaxProcessed \in Nat \ {0}
  BY BoundsAssumption DEF StoreType, Design
<1>2. change \in Change /\ change.id = i /\ change.print = print
      /\ change.rev = design.rev + 1
  BY <1>1 DEF Says, Change
<1>3. CASE Verdict(i, print) = "apply"
  <2>1. ~ Known(design.processed, i) /\ design.rev = print.exp
    BY <1>3, VerdictMeans
  <2>2. /\ design' = Written(row, i, print)
        /\ applied' = applied \cup {change}
        /\ answered' = answered \cup {change}
    BY <1>3 DEF Commit
  <2>3. CASE i = NoId
    <3>1. design' = RowOf(row, design.rev + 1, design.processed)
      BY <2>2, <2>3 DEF Written, RowOf, Design
    <3>2. /\ design' \in Design /\ design'.rev = design.rev + 1
          /\ design'.processed = design.processed /\ design'.verifies = design.verifies
      BY <1>1, <2>3, <3>1, RowParts
    <3>3. ~ Remembered(change)
      BY <1>2, <2>3 DEF Remembered
    <3> QED BY <1>2, <2>1, <2>2, <3>2, <3>3, ForgottenKeeps
  <2>4. CASE i # NoId
    <3>1. change \in Processed
      BY <1>1, <2>4 DEF Says, Processed
    <3>2. design' = RowOf(row, design.rev + 1,
                           Remember(design.processed, change, MaxProcessed))
      BY <2>2, <2>4 DEF Written, Says, RowOf, Design
    <3>3. Remember(design.processed, change, MaxProcessed) \in Seq(Processed)
      BY <1>1, <3>1, RememberTable
    <3>4. /\ design' \in Design /\ design'.rev = design.rev + 1
          /\ design'.processed = Remember(design.processed, change, MaxProcessed)
          /\ design'.verifies = row.verifies
      BY <1>1, <3>2, <3>3, RowParts
    <3>5. VerifiesKept'
      BY <2>1, <2>2, <3>4 DEF VerifiesKept
    <3> QED BY <1>2, <2>1, <2>2, <2>4, <3>1, <3>4, <3>5, RememberedKeeps
  <2> QED BY <2>3, <2>4
<1>4. CASE Verdict(i, print) = "replay"
  <2>1. Says(i, print, Entry(design.processed, i).rev) \in applied
    BY <1>4, VerdictMeans, ReplaysAreOwn DEF StoreInv
  <2> QED BY <1>4, <2>1, AnswerKeeps DEF Commit
<1>5. CASE Verdict(i, print) \in {"conflict", "stale"}
  BY <1>5, AnswerKeeps DEF Commit
<1> QED BY <1>3, <1>4, <1>5 DEF Commit

--------------------------------------------------------------------------------
(* Actions *)

\* What a step does to a thread: it rests, or carries what it read.
LEMMA ThreadKeeps ==
    ASSUME thread \in [Threads -> Thread], \A t \in Threads : Carries(thread[t]),
           NEW t \in Threads, NEW s \in Thread, Carries(s),
           thread' = [thread EXCEPT ![t] = s]
    PROVE  thread' \in [Threads -> Thread] /\ \A u \in Threads : Carries(thread'[u])
OBVIOUS

LEMMA IdleCarries == Idle \in Thread /\ Carries(Idle)
BY DEF Idle, Thread, Points, Carries

LEMMA UpdateKeeps ==
    ASSUME Inv, NEW i \in Ids \cup {NoId}, NEW exp \in Revisions, NEW r \in Rules,
           Update(i, exp, r)
    PROVE  Inv'
<1> DEFINE print == [kind |-> "update", exp |-> exp, ir |-> r, at |-> 0]
           row == [design EXCEPT !.ir = r]
<1>1. StoreType /\ StoreInv
  BY DEF Inv, Shape, StoreType
<1>2. print \in Fingerprint
  BY BoundsAssumption DEF Fingerprint, Kinds, Revisions
<1>3. /\ row \in Design /\ row.processed = design.processed
      /\ row.verifies = design.verifies
  BY <1>1 DEF StoreType, Design
<1>4. Remembered(Says(i, print, design.rev + 1)) \/ i = NoId
  BY DEF Remembered, Says
<1>5. Commit(i, print, row) /\ UNCHANGED thread
  BY DEF Update
<1>6. Len(row.verifies) <= MaxVerifies
  BY <1>1, <1>3 DEF StoreType
<1>7. \A k \in DOMAIN row.verifies :
          LET answer == row.verifies[k] IN
          Says(answer.id, Verification(answer.ir, answer.rev - 1), answer.rev)
              \in applied \cup {Says(i, print, design.rev + 1)}
  BY <1>1, <1>3 DEF StoreInv, VerifiesKept
<1>8. StoreType' /\ StoreInv'
  <2> HIDE DEF print, row
  <2> QED BY <1>1, <1>2, <1>3, <1>4, <1>5, <1>6, <1>7, CommitKeeps
<1> QED BY <1>5, <1>8 DEF Inv, Shape, StoreType, Carries

LEMMA AskVerifyKeeps ==
    ASSUME Inv, NEW t \in Threads, NEW i \in Ids \cup {NoId},
           NEW exp \in Revisions \cup {NoRevision}, AskVerify(t, i, exp)
    PROVE  Inv'
<1> DEFINE s == [pc |-> "verify_read", id |-> i, print |-> NoIR]
<1>1. StoreType' /\ StoreInv'
  BY AnswerKeeps DEF AskVerify, Inv, Shape, StoreType
<1>2. s \in Thread /\ Carries(s)
  BY DEF Thread, Points, Carries
<1>3. thread' = [thread EXCEPT ![t] = s]
  BY DEF AskVerify, Goes
<1>4. thread' \in [Threads -> Thread] /\ \A u \in Threads : Carries(thread'[u])
  BY <1>2, <1>3, ThreadKeeps DEF Inv, Shape, StoreType
<1> QED BY <1>1, <1>4 DEF Inv, Shape, StoreType, Carries

\* A handler that ends without writing the session.
LEMMA EndKeeps ==
    ASSUME Inv, NEW t \in Threads, Ends(t), StoreType', StoreInv'
    PROVE  Inv'
<1>1. thread' \in [Threads -> Thread] /\ \A u \in Threads : Carries(thread'[u])
  BY IdleCarries, ThreadKeeps DEF Inv, Shape, StoreType, Ends
<1> QED BY <1>1 DEF Inv, Shape, StoreType, Carries

LEMMA AnswerVerifyKeeps ==
    ASSUME Inv, NEW t \in Threads, AnswerVerify(t)
    PROVE  Inv'
<1> DEFINE i == thread[t].id
           first == Entry(design.verifies, i).rev
<1>1. StoreType /\ StoreInv /\ design.verifies \in Seq(VerifyRequest)
  BY DEF Inv, Shape, StoreType, Design
<1>2. answered' \subseteq answered \cup applied
  <2>1. CASE Answers(i)
    <3>1. PICK k \in DOMAIN design.verifies :
              Entry(design.verifies, i) = design.verifies[k] /\ design.verifies[k].id = i
      BY <1>1, <2>1, KnownEntry DEF Answers
    <3>2. Says(i, Verification(design.ir, first - 1), first) \in applied
      BY <1>1, <2>1, <3>1 DEF Answers, StoreInv, VerifiesKept
    <3> QED BY <3>2 DEF AnswerVerify
  <2>2. CASE ~ Answers(i)
    BY <2>2 DEF AnswerVerify
  <2> QED BY <2>1, <2>2
<1>3. StoreType' /\ StoreInv'
  BY <1>1, <1>2, AnswerKeeps DEF AnswerVerify
<1> QED BY <1>3, EndKeeps DEF AnswerVerify

LEMMA ReadVerifyKeeps ==
    ASSUME Inv, NEW t \in Threads, ReadVerify(t)
    PROVE  Inv'
<1> DEFINE s == [pc |-> IF design.ir \in Compiling THEN "verify_commit" ELSE "unbuilt_commit",
                 id |-> thread[t].id,
                 print |-> Verification(design.ir, design.rev)]
<1>1. StoreType' /\ StoreInv'
  BY AnswerKeeps DEF ReadVerify, Inv, Shape, StoreType
<1>2. design.rev \in Nat /\ design.ir \in Rules
  BY DEF ReadVerify, Inv, Shape, StoreType, Design
<1>3. Verification(design.ir, design.rev) \in Fingerprint
  BY <1>2 DEF Verification, Fingerprint, Kinds
<1>4. s \in Thread
  BY <1>3 DEF Thread, Points, Inv, Shape, StoreType
<1>5. Carries(s)
  BY <1>3 DEF Carries, Verification
<1>6. thread' = [thread EXCEPT ![t] = s]
  BY DEF ReadVerify, Goes
<1>7. thread' \in [Threads -> Thread] /\ \A u \in Threads : Carries(thread'[u])
  <2> HIDE DEF s
  <2> QED BY <1>4, <1>5, <1>6, ThreadKeeps DEF Inv, Shape, StoreType
<1> QED BY <1>1, <1>7 DEF Inv, Shape, StoreType, Carries

LEMMA CommitVerifyKeeps ==
    ASSUME Inv, NEW t \in Threads, CommitVerify(t)
    PROVE  Inv'
<1> DEFINE i == thread[t].id
           print == thread[t].print
           answer == [id |-> i, ir |-> print.ir, rev |-> print.at + 1]
           table == IF i = NoId THEN design.verifies
                    ELSE Remember(design.verifies, answer, MaxVerifies)
           row == [design EXCEPT !.ver = print.ir, !.verifies = table]
<1>1. /\ StoreType /\ StoreInv
      /\ design.verifies \in Seq(VerifyRequest) /\ Len(design.verifies) <= MaxVerifies
      /\ MaxVerifies \in Nat \ {0} /\ design \in Design
  BY BoundsAssumption DEF Inv, Shape, StoreType, Design
<1>2. /\ i \in Ids \cup {NoId} /\ print \in Fingerprint
      /\ print = Verification(print.ir, print.at) /\ print.ir \in Compiling
  BY DEF CommitVerify, Inv, Shape, StoreType, Thread, Carries
<1>3. Commit(i, print, row) /\ Ends(t)
  BY DEF CommitVerify
<1>4. print.at \in Nat /\ print.exp = print.at /\ print.ir \in Rules /\ print.kind = "verify"
  BY <1>2 DEF Fingerprint, Verification
<1>5. /\ table \in Seq(VerifyRequest) /\ Len(table) <= MaxVerifies
      /\ \A k \in DOMAIN table :
            \/ i # NoId /\ table[k] = answer
            \/ \E j \in DOMAIN design.verifies : table[k] = design.verifies[j]
  <2>1. CASE i = NoId
    BY <1>1, <2>1
  <2>2. CASE i # NoId
    <3>1. answer \in VerifyRequest
      BY <1>2, <1>4, <2>2 DEF VerifyRequest
    <3> HIDE DEF answer
    <3>2. table \in Seq(VerifyRequest) /\ Extends(table, design.verifies, answer, MaxVerifies)
      BY <1>1, <2>2, <3>1, RememberTable
    <3> HIDE DEF table
    <3>3. DOMAIN table = 1 .. Len(table) /\ DOMAIN design.verifies = 1 .. Len(design.verifies)
      BY <1>1, <3>2
    <3>4. ASSUME NEW k \in DOMAIN table, k # Len(table)
          PROVE  \E j \in DOMAIN design.verifies : table[k] = design.verifies[j]
      <4>1. Len(table) \in Nat /\ k \in 1 .. Len(table)
        BY <3>2, <3>3, <3>4
      <4>2. k \in 1 .. Len(table) - 1
        BY <3>4, <4>1
      <4> QED BY <3>2, <3>3, <4>2 DEF Extends
    <3> QED BY <1>1, <2>2, <3>2, <3>4 DEF Extends
  <2> QED BY <2>1, <2>2
<1>6. /\ row \in Design /\ row.processed = design.processed /\ row.verifies = table
  <2> HIDE DEF table, print
  <2> QED BY <1>1, <1>4, <1>5 DEF Design
<1>7. i # NoId => Remembered(Says(i, print, design.rev + 1))
  BY <1>2 DEF Remembered, Says
<1>8. ASSUME design.rev = print.exp, NEW k \in DOMAIN row.verifies
      PROVE  LET said == row.verifies[k] IN
             Says(said.id, Verification(said.ir, said.rev - 1), said.rev)
                 \in applied \cup {Says(i, print, design.rev + 1)}
  <2>1. k \in DOMAIN table /\ row.verifies[k] = table[k]
    BY <1>6, <1>8
  <2>2. CASE table[k] = answer
    <3>1. /\ answer.id = i /\ answer.ir = print.ir
          /\ answer.rev = design.rev + 1 /\ answer.rev - 1 = print.at
      BY <1>4, <1>8
    <3> QED BY <1>2, <2>1, <2>2, <3>1
  <2>3. CASE \E j \in DOMAIN design.verifies : table[k] = design.verifies[j]
    BY <1>1, <2>1, <2>3 DEF StoreInv, VerifiesKept
  <2> QED BY <1>5, <2>1, <2>2, <2>3
<1>9. StoreType' /\ StoreInv'
  <2>1. i = NoId => row.verifies = design.verifies
    BY <1>6
  <2>2. Len(row.verifies) <= MaxVerifies
    BY <1>5, <1>6
  <2> HIDE DEF i, print, row, table
  <2> QED BY <1>1, <1>2, <1>3, <1>6, <1>7, <1>8, <2>1, <2>2, CommitKeeps
<1> QED BY <1>3, <1>9, EndKeeps

LEMMA CommitUnbuiltKeeps ==
    ASSUME Inv, NEW t \in Threads, CommitUnbuilt(t)
    PROVE  Inv'
<1> DEFINE i == thread[t].id
           print == thread[t].print
           change == Says(i, print, design.rev + 1)
<1>1. StoreType /\ StoreInv /\ design \in Design /\ design.rev \in Nat
  BY DEF Inv, Shape, StoreType, Design
<1>2. /\ i \in Ids \cup {NoId} /\ print \in Fingerprint
      /\ print = Verification(print.ir, print.at) /\ print.ir \notin Compiling
  BY DEF CommitUnbuilt, Inv, Shape, StoreType, Thread, Carries
<1>3. CASE design.rev = print.exp
  <2>1. /\ design' = [design EXCEPT !.rev = @ + 1]
        /\ applied' = applied \cup {change}
        /\ answered' = answered
    BY <1>3 DEF CommitUnbuilt
  <2>2. /\ design' \in Design /\ design'.rev = design.rev + 1
        /\ design'.processed = design.processed /\ design'.verifies = design.verifies
    BY <1>1, <2>1 DEF Design
  <2>3. /\ change \in Change /\ change.rev = design.rev + 1
        /\ change.print = print
    BY <1>1, <1>2 DEF Says, Change
  <2>4. ~ Remembered(change)
    BY <1>2, <2>3 DEF Remembered, Verification
  <2>5. answered' \subseteq answered \cup {change}
    BY <2>1
  <2> HIDE DEF change, print
  <2> QED BY <1>1, <1>3, <2>1, <2>2, <2>3, <2>4, <2>5, ForgottenKeeps, EndKeeps DEF CommitUnbuilt
<1>4. CASE design.rev # print.exp
  <2>1. UNCHANGED <<design, applied>> /\ answered' = answered
    BY <1>4 DEF CommitUnbuilt
  <2> QED BY <1>1, <2>1, AnswerKeeps, EndKeeps DEF CommitUnbuilt
<1> QED BY <1>3, <1>4

LEMMA AskConfirmKeeps ==
    ASSUME Inv, NEW t \in Threads, NEW i \in Ids \cup {NoId}, NEW r \in Rules,
           AskConfirm(t, i, r)
    PROVE  Inv'
<1> DEFINE print == [kind |-> "confirm", exp |-> design.rev, ir |-> r, at |-> design.rev]
           s == [pc |-> "confirm_commit", id |-> i, print |-> print]
<1>1. StoreType' /\ StoreInv'
  BY AnswerKeeps DEF AskConfirm, Inv, Shape, StoreType
<1>2. print \in Fingerprint
  BY BoundsAssumption DEF Inv, Shape, StoreType, Design, Fingerprint, Kinds, Revisions
<1>3. s \in Thread
  BY <1>2 DEF Thread, Points
<1>4. Carries(s)
  BY <1>2 DEF Carries
<1>5. thread' = [thread EXCEPT ![t] = s]
  BY DEF AskConfirm, Goes
<1>6. thread' \in [Threads -> Thread] /\ \A u \in Threads : Carries(thread'[u])
  <2> HIDE DEF s
  <2> QED BY <1>3, <1>4, <1>5, ThreadKeeps DEF Inv, Shape, StoreType
<1> QED BY <1>1, <1>6 DEF Inv, Shape, StoreType, Carries

LEMMA CommitConfirmKeeps ==
    ASSUME Inv, NEW t \in Threads, CommitConfirm(t)
    PROVE  Inv'
<1> DEFINE i == thread[t].id
           print == thread[t].print
<1>1. /\ StoreType /\ StoreInv /\ design \in Design
      /\ Len(design.verifies) <= MaxVerifies
  BY DEF Inv, Shape, StoreType
<1>2. i \in Ids \cup {NoId} /\ print \in Fingerprint /\ print.kind = "confirm"
  BY DEF CommitConfirm, Inv, Shape, StoreType, Thread, Carries
<1>3. Commit(i, print, design) /\ Ends(t)
  BY DEF CommitConfirm
<1>4. i # NoId => Remembered(Says(i, print, design.rev + 1))
  BY <1>2 DEF Remembered, Says
<1>5. \A k \in DOMAIN design.verifies :
          LET answer == design.verifies[k] IN
          Says(answer.id, Verification(answer.ir, answer.rev - 1), answer.rev)
              \in applied \cup {Says(i, print, design.rev + 1)}
  BY <1>1 DEF StoreInv, VerifiesKept
<1>6. StoreType' /\ StoreInv'
  <2> HIDE DEF i, print
  <2> QED BY <1>1, <1>2, <1>3, <1>4, <1>5, CommitKeeps
<1> QED BY <1>3, <1>6, EndKeeps

LEMMA RestartKeeps ==
    ASSUME Inv, Restart
    PROVE  Inv'
<1>1. StoreType' /\ StoreInv'
  BY AnswerKeeps DEF Restart, Inv, Shape, StoreType
<1>2. thread' \in [Threads -> Thread] /\ \A u \in Threads : Carries(thread'[u])
  BY IdleCarries DEF Restart
<1> QED BY <1>1, <1>2 DEF Inv, Shape, StoreType, Carries

--------------------------------------------------------------------------------
(* Refusals *)

\* An update that the session refuses is no longer in processed, and so it is older
\* than all MaxProcessed entries.
LEMMA RefusedIsGone ==
    ASSUME StoreType, StoreInv, NEW i, NEW print, ~ Repeats(i, print),
           NEW change \in applied, Remembered(change),
           change.id = i, change.print = print
    PROVE  Forgotten(change, MaxProcessed)
<1> DEFINE P == design.processed
<1>1. P \in Seq(Processed)
  BY DEF StoreType, Design
<1>2. ~ \E k \in DOMAIN P : P[k] = change
  <2> SUFFICES ASSUME NEW k \in DOMAIN P, P[k] = change
               PROVE  Repeats(i, print)
    OBVIOUS
  <2>1. Known(P, i)
    BY DEF Known
  <2>2. PICK j \in DOMAIN P : Entry(P, i) = P[j] /\ P[j].id = i
    BY <1>1, <2>1, KnownEntry
  <2>3. j = k
    BY <2>2 DEF StoreInv, Kept
  <2> QED BY <2>1, <2>2, <2>3 DEF Repeats
<1>3. Len(P) = MaxProcessed /\ \A k \in DOMAIN P : change.rev < P[k].rev
  BY <1>2 DEF StoreInv, Newest
<1>4. Cardinality({c \in applied :
          Remembered(c) /\ change.rev < c.rev /\ c.rev < design.rev + 1}) >= MaxProcessed
  BY <1>3, FullTable
<1>5. design.rev \in Nat /\ \A c \in applied : c.rev \in Nat /\ c.rev < design.rev + 1
  BY DEF StoreType, StoreInv, Locked, Design, Change
<1>6. {c \in applied : Remembered(c) /\ change.rev < c.rev /\ c.rev < design.rev + 1}
        = {c \in applied : Remembered(c) /\ change.rev < c.rev}
  BY <1>5
<1> QED BY <1>4, <1>6 DEF Forgotten

\* A commit refuses no update that it would answer.
LEMMA CommitRefuses ==
    ASSUME StoreType, StoreInv, NEW i, NEW print, NEW row, Commit(i, print, row)
    PROVE  Refused'
<1>1. CASE denied' = {}
  BY <1>1 DEF Refused, RefusedUpdateWasForgotten
<1>2. CASE Verdict(i, print) \in {"conflict", "stale"}
  <2>1. denied' = ServedBefore(i, print) /\ applied' = applied
    BY <1>2 DEF Commit
  <2>2. ~ Repeats(i, print)
    BY <1>2, VerdictMeans
  <2>3. ASSUME NEW change \in denied', change.print.kind = "update"
        PROVE  Forgotten(change, MaxProcessed)
    <3>1. /\ change \in applied /\ change.id = i /\ i # NoId
          /\ change.print = print
      BY <2>1, <2>3 DEF ServedBefore
    <3>2. Remembered(change)
      BY <2>3, <3>1 DEF Remembered
    <3> QED BY <2>2, <3>1, <3>2, RefusedIsGone
  <2>4. denied' \subseteq applied'
    BY <2>1 DEF ServedBefore
  <2>5. RefusedUpdateWasForgotten'
    BY <2>1, <2>3 DEF RefusedUpdateWasForgotten, Forgotten, Remembered
  <2> QED BY <2>4, <2>5 DEF Refused
<1> QED BY <1>1, <1>2 DEF Commit

LEMMA RefusalHolds ==
    ASSUME Inv, Refused, [Next]_vars
    PROVE  Refused'
<1>1. StoreType /\ StoreInv
  BY DEF Inv, Shape, StoreType
<1>2. CASE denied' = {}
  BY <1>2 DEF Refused, RefusedUpdateWasForgotten
<1>3. CASE UNCHANGED vars
  BY <1>3 DEF vars, Refused, RefusedUpdateWasForgotten, Forgotten, Remembered
<1>4. ASSUME NEW i \in Ids \cup {NoId}, NEW exp \in Revisions, NEW r \in Rules,
             Update(i, exp, r)
      PROVE  Refused'
  BY <1>1, <1>4, CommitRefuses DEF Update
<1>5. ASSUME NEW t \in Threads, Step(t)
      PROVE  Refused'
  <2>1. CASE CommitVerify(t)
    BY <1>1, <2>1, CommitRefuses DEF CommitVerify
  <2>2. CASE CommitConfirm(t)
    BY <1>1, <2>2, CommitRefuses DEF CommitConfirm
  <2>3. CASE denied' = {}
    BY <1>2, <2>3
  <2> QED BY <1>5, <2>1, <2>2, <2>3
          DEF Step, AskVerify, AnswerVerify, ReadVerify, CommitUnbuilt, AskConfirm
<1>6. ASSUME Restart
      PROVE  Refused'
  BY <1>2, <1>6 DEF Restart
<1> QED BY <1>3, <1>4, <1>5, <1>6 DEF Next

--------------------------------------------------------------------------------
(* Theorems *)

LEMMA InitHolds == Init => Inv
<1> SUFFICES ASSUME Init
             PROVE  Inv
  OBVIOUS
<1>1. Shape /\ \A t \in Threads : Carries(thread[t])
  BY IdleCarries, BoundsAssumption DEF Init, Shape, StoreType, Design
<1>2. StoreInv
  BY FS_EmptySet DEF Init, StoreInv, AnswersAreOwn, Locked, Kept, Newest, VerifiesKept,
     IdsAreKept
<1> QED BY <1>1, <1>2 DEF Inv

LEMMA StepHolds == Inv /\ [Next]_vars => Inv'
<1> SUFFICES ASSUME Inv, [Next]_vars
             PROVE  Inv'
  OBVIOUS
<1>1. ASSUME NEW t \in Threads, Step(t)
      PROVE  Inv'
  BY <1>1, AskVerifyKeeps, AnswerVerifyKeeps, ReadVerifyKeeps, CommitVerifyKeeps,
     CommitUnbuiltKeeps, AskConfirmKeeps, CommitConfirmKeeps DEF Step
<1>2. CASE UNCHANGED vars
  <2>1. StoreType' /\ StoreInv'
    BY <1>2, AnswerKeeps DEF vars, Inv, Shape, StoreType
  <2> QED BY <1>2, <2>1 DEF vars, Inv, Shape, StoreType, Carries
<1> QED BY <1>1, <1>2, UpdateKeeps, RestartKeeps DEF Next

\* The invariant that the others follow from.
THEOREM Invariance == Spec => [](Inv /\ Refused)
<1>1. Init => Inv /\ Refused
  BY InitHolds DEF Init, Refused, RefusedUpdateWasForgotten
<1>2. Inv /\ Refused /\ [Next]_vars => (Inv /\ Refused)'
  BY StepHolds, RefusalHolds
<1> QED BY <1>1, <1>2, PTL DEF Spec

\* Every reachable state is well formed, and the tables keep their limits.
THEOREM RetryTypes == Spec => []TypeOK
<1>1. Inv /\ Refused => TypeOK
  BY DEF Inv, Shape, StoreType, Refused, TypeOK
<1> QED BY <1>1, Invariance, PTL

\* A client that is told ok was served (_prepare, _cached_verification).
THEOREM AnswersOwn == Spec => []AnswersAreOwn
<1>1. Inv => AnswersAreOwn
  BY DEF Inv, StoreInv
<1> QED BY <1>1, Invariance, PTL

\* An update is applied once for good, any other request once while its id is
\* remembered (_prepare).
THEOREM EffectsOnce == Spec => []OneEffect
<1>1. Inv => OneEffect
  <2> SUFFICES ASSUME Inv
               PROVE  OneEffect
    OBVIOUS
  <2>1. ASSUME NEW one \in applied, NEW other \in applied,
               one.id = other.id, one.print = other.print
        PROVE  one = other
    <3>1. one.rev = other.rev
      BY <2>1 DEF Inv, StoreInv, Locked
    <3>2. one \in Change /\ other \in Change
      BY <2>1 DEF Inv, Shape, StoreType
    <3> QED BY <2>1, <3>1, <3>2, ChangeParts
  <2> QED BY <2>1 DEF Inv, StoreInv, OneEffect, UpdatesApplyOnce
<1> QED BY <1>1, Invariance, PTL

\* An update that was done is refused only after enough newer changes for its id to
\* be forgotten (_prepare looks up the id before it compares the revision).
THEOREM RefusedForgotten == Spec => []RefusedUpdateWasForgotten
<1>1. Refused => RefusedUpdateWasForgotten
  BY DEF Refused
<1> QED BY <1>1, Invariance, PTL
================================================================================
