------------------------------- MODULE TreeFold --------------------------------
(***************************************************************************)
(* What a recursive visit of a tree computes, as a function on a set of    *)
(* nodes that holds the arguments of its members: the value of a node is   *)
(* given by Rule from the values of its arguments and a context.  The      *)
(* visitors of core/rules/expr.py and core/tools.py are instances of it.   *)
(*                                                                         *)
(* A set of finitely many levels has such a function, which is what a      *)
(* proof about a visitor needs to know.                                    *)
(***************************************************************************)
EXTENDS Integers, Functions, WellFoundedInduction, TLAPS

CONSTANTS
  Args(_),        \* the arguments of a node, a sequence
  Rule(_, _, _)   \* of a node, the values of its arguments, and the context

\* The nodes below the root by their distance from it, and all of them.
Levels(root, depth) ==
  LET level[k \in 0 .. depth] ==
        IF k = 0 THEN {root} ELSE UNION {Range(Args(t)) : t \in level[k - 1]}
  IN level
Parts(root, depth) == UNION {Levels(root, depth)[k] : k \in 0 .. depth}

Fold(S, context) ==
  LET value[t \in S] == Rule(t, [i \in DOMAIN Args(t) |-> value[Args(t)[i]]], context)
  IN value

-----------------------------------------------------------------------------
\* A set of numbers has a first member.
LEMMA LeastMember ==
    ASSUME NEW T, T \subseteq Nat, T # {}
    PROVE  \E m \in T : \A n \in T : m <= n
<1>1. PICK m \in T : \A n \in T : ~ (<<n, m>> \in OpToRel(<, Nat))
  BY WFMin, NatLessThanWellFounded
<1>2. \A n \in Nat : <<n, m>> \in OpToRel(<, Nat) <=> n < m
  BY DEF OpToRel
<1>3. \A n \in T : n \in Nat /\ m \in Nat /\ ~ (n < m)
  BY <1>1, <1>2
<1>4. \A n \in T : m <= n
  BY <1>3
<1> QED BY <1>4

LevelAfter(f, e, k) == IF k = 0 THEN {e} ELSE UNION {Range(Args(t)) : t \in f[k - 1]}

LEMMA LevelsExist ==
    ASSUME NEW e
    PROVE  \A n \in Nat : \E f : f = [k \in 0 .. n |-> LevelAfter(f, e, k)]
<1> DEFINE T == {n \in Nat : ~ \E f : f = [k \in 0 .. n |-> LevelAfter(f, e, k)]}
<1> SUFFICES ASSUME T # {} PROVE FALSE
  OBVIOUS
<1>1. PICK m \in T : \A n \in T : m <= n
  <2>1. T \subseteq Nat
    OBVIOUS
  <2> HIDE DEF T
  <2> QED BY <2>1, LeastMember
<1>2. m \in Nat /\ ~ \E f : f = [k \in 0 .. m |-> LevelAfter(f, e, k)]
  BY <1>1
<1>3. CASE m = 0
  <2>1. [k \in 0 .. 0 |-> {e}] = [k \in 0 .. 0 |-> LevelAfter([j \in 0 .. 0 |-> {e}], e, k)]
    BY DEF LevelAfter
  <2> QED BY <1>2, <1>3, <2>1
<1>4. CASE m # 0
  <2>1. m - 1 \in Nat /\ ~ (m <= m - 1)
    BY <1>2, <1>4
  <2>2. m - 1 \notin T
    <3> HIDE DEF T
    <3> QED BY <1>1, <2>1
  <2>3. PICK f : f = [k \in 0 .. m - 1 |-> LevelAfter(f, e, k)]
    BY <2>1, <2>2
  <2>4. PICK g : g = [k \in 0 .. m |-> LevelAfter(f, e, k)]
    OBVIOUS
  <2>5. \A k \in 0 .. m - 1 : g[k] = f[k]
    BY <1>2, <2>1, <2>3, <2>4
  <2>6. ASSUME NEW k \in 0 .. m
        PROVE  LevelAfter(f, e, k) = LevelAfter(g, e, k)
    <3>1. k = 0 \/ k - 1 \in 0 .. m - 1
      BY <1>2
    <3> QED BY <2>5, <3>1 DEF LevelAfter
  <2>7. g = [k \in 0 .. m |-> LevelAfter(g, e, k)]
    BY <2>4, <2>6
  <2> QED BY <1>2, <2>7
<1> QED BY <1>3, <1>4

LEMMA LevelsAre ==
    ASSUME NEW e, NEW depth \in Nat
    PROVE  Levels(e, depth) = [k \in 0 .. depth |-> LevelAfter(Levels(e, depth), e, k)]
<1>1. \E f : f = [k \in 0 .. depth |-> LevelAfter(f, e, k)]
  BY LevelsExist
<1> QED BY <1>1 DEF Levels, LevelAfter

\* The first level is the root, and each level holds the arguments of the one above.
LEMMA RootAndArguments ==
    ASSUME NEW e, NEW depth \in Nat
    PROVE  /\ Levels(e, depth)[0] = {e}
           /\ \A k \in 0 .. depth - 1 :
                /\ k \in 0 .. depth /\ k + 1 \in 0 .. depth
                /\ Levels(e, depth)[k + 1] = UNION {Range(Args(t)) : t \in Levels(e, depth)[k]}
<1>1. Levels(e, depth)[0] = {e}
  BY LevelsAre DEF LevelAfter
<1>2. ASSUME NEW k \in 0 .. depth - 1
      PROVE  /\ k \in 0 .. depth /\ k + 1 \in 0 .. depth
             /\ Levels(e, depth)[k + 1] = UNION {Range(Args(t)) : t \in Levels(e, depth)[k]}
  <2>1. k \in 0 .. depth /\ k + 1 \in 0 .. depth /\ k + 1 # 0 /\ (k + 1) - 1 = k
    OBVIOUS
  <2>2. Levels(e, depth)[k + 1] = LevelAfter(Levels(e, depth), e, k + 1)
    BY <2>1, LevelsAre
  <2> QED BY <2>1, <2>2 DEF LevelAfter
<1> QED BY <1>1, <1>2

\* Below an empty level there is nothing.
LEMMA NothingBelow ==
    ASSUME NEW e, NEW depth \in Nat, NEW k \in 0 .. depth, Levels(e, depth)[k] = {}
    PROVE  Levels(e, depth)[depth] = {}
<1> DEFINE T == {n \in 0 .. depth : n >= k /\ Levels(e, depth)[n] # {}}
<1>1. T = {}
  <2> SUFFICES ASSUME T # {} PROVE FALSE
    OBVIOUS
  <2>1. PICK m \in T : \A n \in T : m <= n
    <3>1. T \subseteq Nat
      OBVIOUS
    <3> HIDE DEF T
    <3> QED BY <3>1, LeastMember
  <2>2. m \in 0 .. depth /\ m >= k /\ Levels(e, depth)[m] # {}
    BY <2>1
  <2>3. m - 1 \in 0 .. depth - 1 /\ m - 1 >= k /\ (m - 1) + 1 = m /\ ~ (m <= m - 1)
    BY <2>2
  <2>4. m - 1 \notin T
    <3> HIDE DEF T
    <3> QED BY <2>1, <2>3
  <2>5. Levels(e, depth)[m - 1] = {}
    BY <2>3, <2>4, RootAndArguments
  <2>6. Levels(e, depth)[m] = UNION {Range(Args(t)) : t \in Levels(e, depth)[m - 1]}
    BY <2>3, RootAndArguments
  <2> QED BY <2>2, <2>5, <2>6
<1> QED BY <1>1

\* The arguments of the nodes of one level belong to the next; the last is empty.
Levelled(S, level, last) ==
  /\ S = UNION {level[k] : k \in 0 .. last}
  /\ level[last] = {}
  /\ \A k \in 0 .. last - 1 : \A t \in level[k] :
       \A i \in DOMAIN Args(t) : Args(t)[i] \in level[k + 1]

\* The parts of a tree that ends above the depth are such a set.
LEMMA PartsAreLevelled ==
    ASSUME NEW e, NEW depth \in Nat, Levels(e, depth)[depth] = {}
    PROVE  Levelled(Parts(e, depth), Levels(e, depth), depth)
<1>1. ASSUME NEW k \in 0 .. depth - 1, NEW t \in Levels(e, depth)[k], NEW i \in DOMAIN Args(t)
      PROVE  Args(t)[i] \in Levels(e, depth)[k + 1]
  BY RootAndArguments DEF Range
<1> QED BY <1>1 DEF Parts, Levelled

\* They hold the root, and the arguments of each of them.
LEMMA PartsAreClosed ==
    ASSUME NEW e, NEW depth \in Nat, Levels(e, depth)[depth] = {}
    PROVE  /\ e \in Parts(e, depth)
           /\ \A t \in Parts(e, depth) : \A i \in DOMAIN Args(t) : Args(t)[i] \in Parts(e, depth)
<1>1. e \in Parts(e, depth)
  BY RootAndArguments DEF Parts
<1>2. ASSUME NEW t \in Parts(e, depth), NEW i \in DOMAIN Args(t)
      PROVE  Args(t)[i] \in Parts(e, depth)
  <2>1. PICK k \in 0 .. depth : t \in Levels(e, depth)[k]
    BY DEF Parts
  <2>2. k \in 0 .. depth - 1
    BY <2>1
  <2>3. Args(t)[i] \in Levels(e, depth)[k + 1] /\ k + 1 \in 0 .. depth
    BY <2>1, <2>2, RootAndArguments DEF Range
  <2> QED BY <2>3 DEF Parts
<1> QED BY <1>1, <1>2

LEMMA ValuesExist ==
    ASSUME NEW S, NEW context, NEW last \in Nat, NEW level, Levelled(S, level, last)
    PROVE  \E f : f = [t \in S |-> Rule(t, [i \in DOMAIN Args(t) |-> f[Args(t)[i]]], context)]
<1> DEFINE From(k) == UNION {level[j] : j \in k .. last}
           Solves(f, D) == f = [t \in D |-> Rule(t, [i \in DOMAIN Args(t) |-> f[Args(t)[i]]], context)]
           T == {m \in 0 .. last : ~ \E f : Solves(f, From(last - m))}
<1>1. T = {}
  <2> SUFFICES ASSUME T # {} PROVE FALSE
    OBVIOUS
  <2>1. PICK m \in T : \A n \in T : m <= n
    <3>1. T \subseteq Nat
      OBVIOUS
    <3> HIDE DEF T
    <3> QED BY <3>1, LeastMember
  <2>2. m \in 0 .. last /\ ~ \E f : Solves(f, From(last - m))
    BY <2>1
  <2>3. CASE m = 0
    <3>1. From(last - m) = {}
      BY <2>2, <2>3 DEF Levelled
    <3>2. PICK f : f = [t \in {} |-> 0]
      OBVIOUS
    <3>3. Solves(f, {})
      BY <3>2
    <3> QED BY <2>2, <3>1, <3>3
  <2>4. CASE m # 0
    <3> DEFINE k == last - m
    <3>1. k \in 0 .. last - 1 /\ k + 1 \in 0 .. last /\ k + 1 = last - (m - 1) /\ m - 1 \in 0 .. last
      BY <2>2, <2>4
    <3>2. m - 1 \notin T
      <4>1. m \in Nat /\ ~ (m <= m - 1)
        BY <2>2
      <4> HIDE DEF T
      <4> QED BY <2>1, <4>1
    <3>3. PICK f : Solves(f, From(k + 1))
      BY <3>1, <3>2
    <3>4. PICK g : g = [t \in From(k) |-> Rule(t, [i \in DOMAIN Args(t) |-> f[Args(t)[i]]], context)]
      OBVIOUS
    <3>5. From(k + 1) \subseteq From(k)
      BY <3>1
    <3>6. ASSUME NEW t \in From(k), NEW i \in DOMAIN Args(t)
          PROVE  Args(t)[i] \in From(k + 1)
      <4>1. PICK j \in k .. last : t \in level[j]
        OBVIOUS
      <4>2. j # last
        BY <4>1 DEF Levelled
      <4>3. j \in 0 .. last - 1 /\ j + 1 \in (k + 1) .. last
        BY <4>1, <4>2, <3>1
      <4>4. Args(t)[i] \in level[j + 1]
        BY <4>1, <4>3 DEF Levelled
      <4> QED BY <4>3, <4>4
    <3> HIDE DEF From, k
    <3>7. \A s \in From(k + 1) : g[s] = f[s]
      BY <3>3, <3>4, <3>5
    <3>8. \A t \in From(k) : [i \in DOMAIN Args(t) |-> f[Args(t)[i]]] = [i \in DOMAIN Args(t) |-> g[Args(t)[i]]]
      BY <3>6, <3>7
    <3>9. Solves(g, From(k))
      BY <3>4, <3>8
    <3> QED BY <2>2, <3>9 DEF k
  <2> QED BY <2>3, <2>4
<1>2. \E f : Solves(f, From(0))
  <2>1. \A m \in 0 .. last : \E f : Solves(f, From(last - m))
    BY <1>1
  <2>2. last \in 0 .. last /\ last - last = 0
    OBVIOUS
  <2> HIDE DEF Solves, From
  <2> QED BY <2>1, <2>2
<1>3. From(0) = S
  BY DEF Levelled
<1> HIDE DEF From
<1> QED BY <1>2, <1>3

\* The visit computes what its rule says.
THEOREM FoldIs ==
    ASSUME NEW S, NEW context, NEW last \in Nat, NEW level, Levelled(S, level, last)
    PROVE  Fold(S, context)
             = [t \in S |-> Rule(t, [i \in DOMAIN Args(t) |-> Fold(S, context)[Args(t)[i]]], context)]
<1>1. \E f : f = [t \in S |-> Rule(t, [i \in DOMAIN Args(t) |-> f[Args(t)[i]]], context)]
  BY ValuesExist
<1> QED BY <1>1 DEF Fold

\* A set of nodes each of which has an argument in the set is empty: the ground
\* for an induction over a tree.
THEOREM NoEndlessDescent ==
    ASSUME NEW S, NEW last \in Nat, NEW level, Levelled(S, level, last),
           NEW T, T \subseteq S, \A t \in T : \E i \in DOMAIN Args(t) : Args(t)[i] \in T
    PROVE  T = {}
<1> SUFFICES ASSUME T # {} PROVE FALSE
  OBVIOUS
<1> DEFINE K == {m \in 0 .. last : T \cap level[last - m] # {}}
<1>1. K # {}
  <2>1. PICK t \in T : TRUE
    OBVIOUS
  <2>2. PICK k \in 0 .. last : t \in level[k]
    BY <2>1 DEF Levelled
  <2>3. last - k \in 0 .. last /\ last - (last - k) = k
    BY <2>2
  <2>4. last - k \in K
    BY <2>1, <2>2, <2>3
  <2> QED BY <2>4
<1>2. PICK m \in K : \A n \in K : m <= n
  <2>1. K \subseteq Nat
    OBVIOUS
  <2> HIDE DEF K
  <2> QED BY <1>1, <2>1, LeastMember
<1>3. PICK k \in 0 .. last : k = last - m
  BY <1>2
<1>4. PICK t \in T : t \in level[k]
  BY <1>2, <1>3
<1>5. k \in 0 .. last - 1
  BY <1>3, <1>4 DEF Levelled
<1>6. PICK i \in DOMAIN Args(t) : Args(t)[i] \in T
  BY <1>4
<1>7. Args(t)[i] \in level[k + 1]
  BY <1>4, <1>5, <1>6 DEF Levelled
<1>8. m - 1 \in 0 .. last /\ last - (m - 1) = k + 1
  BY <1>2, <1>3, <1>5
<1>9. m - 1 \in K
  BY <1>6, <1>7, <1>8
<1>10. m \in Nat /\ ~ (m <= m - 1)
  BY <1>2
<1> HIDE DEF K
<1> QED BY <1>2, <1>9, <1>10
=============================================================================
