--------------------------- MODULE ComposedPlan_proofs ---------------------------
(***************************************************************************)
(* Theorems about the step machine (Interpreter), for every plan that the  *)
(* checks let pass, every deck and every input: no card lies in two        *)
(* places, no call loses one, and a rejected step leaves nothing behind.   *)
(* For the plans that the compiler makes (RuleCompiler), of every rule: no *)
(* call that the rule is not derived to need, and a state of its shape.    *)
(*                                                                         *)
(* What an operator that walks along a list computes is proved by looking  *)
(* at the first place where it would go wrong.                             *)
(***************************************************************************)
EXTENDS ComposedPlan, WellFoundedInduction, SequenceTheorems, TLAPS

-----------------------------------------------------------------------------
(* Lists *)

LEMMA FirstOne ==
    ASSUME NEW T, T \subseteq Nat, T # {}
    PROVE  \E m \in T : \A n \in 0 .. m - 1 : n \notin T
<1>1. PICK m \in T : \A n \in T : ~ (<<n, m>> \in OpToRel(<, Nat))
  BY WFMin, NatLessThanWellFounded
<1>2. \A n \in Nat : <<n, m>> \in OpToRel(<, Nat) <=> n < m
  BY DEF OpToRel
<1>3. \A n \in 0 .. m - 1 : n \in Nat /\ n < m
  OBVIOUS
<1> QED BY <1>1, <1>2, <1>3

\* One step of the walk along a pile.
Keeps(f, pile, gone, i) ==
  IF i = 0 THEN <<>> ELSE IF pile[i] \in gone THEN f[i - 1] ELSE Append(f[i - 1], pile[i])

LEMMA KeepsExists ==
    ASSUME NEW pile, NEW gone
    PROVE  \A n \in Nat : \E f : f = [i \in 0 .. n |-> Keeps(f, pile, gone, i)]
<1> DEFINE T == {n \in Nat : ~ \E f : f = [i \in 0 .. n |-> Keeps(f, pile, gone, i)]}
<1> SUFFICES ASSUME T # {} PROVE FALSE
  OBVIOUS
<1>1. PICK m \in T : \A n \in 0 .. m - 1 : n \notin T
  BY FirstOne
<1>2. m \in Nat
  OBVIOUS
<1>3. CASE m = 0
  <2>1. [i \in 0 .. 0 |-> <<>>] = [i \in 0 .. 0 |-> Keeps([j \in 0 .. 0 |-> <<>>], pile, gone, i)]
    BY DEF Keeps
  <2> QED BY <1>3, <2>1
<1>4. CASE m # 0
  <2>1. m - 1 \in 0 .. m - 1 /\ m - 1 \in Nat
    BY <1>2, <1>4
  <2>2. PICK f : f = [i \in 0 .. m - 1 |-> Keeps(f, pile, gone, i)]
    BY <1>1, <2>1
  <2>3. PICK g : g = [i \in 0 .. m |-> IF i = m THEN Keeps(f, pile, gone, m) ELSE f[i]]
    OBVIOUS
  <2>4. ASSUME NEW i \in 0 .. m
        PROVE  g[i] = Keeps(g, pile, gone, i)
    <3>1. i = 0 \/ (i - 1 \in 0 .. m /\ i - 1 # m /\ g[i - 1] = f[i - 1])
      BY <1>2, <2>3
    <3>2. CASE i = m
      BY <1>2, <2>3, <3>1, <3>2 DEF Keeps
    <3>3. CASE i # m
      <4>1. i \in 0 .. m - 1
        BY <1>2, <3>3
      <4>2. g[i] = f[i] /\ f[i] = Keeps(f, pile, gone, i)
        BY <2>2, <2>3, <3>3, <4>1
      <4> QED BY <3>1, <4>2 DEF Keeps
    <3> QED BY <3>2, <3>3
  <2>5. g = [i \in 0 .. m |-> Keeps(g, pile, gone, i)]
    BY <2>3, <2>4
  <2> QED BY <2>5
<1> QED BY <1>3, <1>4

LEMMA WithoutWalks ==
    ASSUME NEW pile, NEW gone, Len(pile) \in Nat
    PROVE  \E f : /\ f = [i \in 0 .. Len(pile) |-> Keeps(f, pile, gone, i)]
                  /\ Without(pile, gone) = f[Len(pile)]
<1> DEFINE F == CHOOSE f : f = [i \in 0 .. Len(pile) |-> Keeps(f, pile, gone, i)]
<1>1. F = [i \in 0 .. Len(pile) |-> Keeps(F, pile, gone, i)]
  BY KeepsExists
<1>2. Without(pile, gone) = F[Len(pile)]
  BY DEF Without, Keeps
<1> QED BY <1>1, <1>2

\* What a pile is after some of its cards have gone.
LEMMA WithoutKeeps ==
    ASSUME NEW S, NEW pile \in Seq(S), NEW gone
    PROVE  /\ Without(pile, gone) \in Seq(S)
           /\ Range(Without(pile, gone)) = Range(pile) \ gone
           /\ IsInjective(pile) => IsInjective(Without(pile, gone))
<1> DEFINE n == Len(pile)
<1>1. n \in Nat /\ DOMAIN pile = 1 .. n /\ \A i \in 1 .. n : pile[i] \in S
  OBVIOUS
<1>2. PICK f : /\ f = [i \in 0 .. n |-> Keeps(f, pile, gone, i)]
               /\ Without(pile, gone) = f[n]
  BY <1>1, WithoutWalks
<1> HIDE DEF n
<1> DEFINE Good(i) == /\ f[i] \in Seq(S)
                      /\ \A k \in DOMAIN f[i] : \E j \in 1 .. i : f[i][k] = pile[j] /\ pile[j] \notin gone
                      /\ \A j \in 1 .. i : pile[j] \notin gone => \E k \in DOMAIN f[i] : f[i][k] = pile[j]
                      /\ IsInjective(pile) => IsInjective(f[i])
<1> DEFINE T == {i \in 0 .. n : ~ Good(i)}
<1>3. ASSUME T # {} PROVE FALSE
  <2>1. PICK m \in T : \A i \in 0 .. m - 1 : i \notin T
    <3>1. T \subseteq Nat
      BY <1>1
    <3> HIDE DEF T
    <3> QED BY <1>3, <3>1, FirstOne
  <2>2. m \in 0 .. n /\ ~ Good(m)
    OBVIOUS
  <2>3. f[m] = Keeps(f, pile, gone, m)
    BY <1>2, <2>2
  <2>4. CASE m = 0
    BY <2>2, <2>3, <2>4 DEF Keeps, IsInjective
  <2>5. CASE m # 0
    <3>1. m \in 1 .. n /\ m - 1 \in 0 .. n /\ m - 1 \in 0 .. m - 1
      BY <1>1, <2>2, <2>5
    <3>2. Good(m - 1)
      BY <2>1, <3>1
    <3>3. PICK old : old = f[m - 1]
      OBVIOUS
    <3>4. /\ old \in Seq(S)
          /\ \A k \in DOMAIN old : \E j \in 1 .. m - 1 : old[k] = pile[j] /\ pile[j] \notin gone
          /\ \A j \in 1 .. m - 1 : pile[j] \notin gone => \E k \in DOMAIN old : old[k] = pile[j]
          /\ IsInjective(pile) => IsInjective(old)
      BY <3>2, <3>3
    <3>5. \A j \in 1 .. m : j = m \/ j \in 1 .. m - 1
      BY <1>1, <3>1
    <3>6. \A j \in 1 .. m - 1 : j \in 1 .. m /\ j # m /\ j \in 1 .. n
      BY <1>1, <3>1
    <3>7. CASE pile[m] \in gone
      <4>1. f[m] = old
        BY <2>3, <2>5, <3>3, <3>7 DEF Keeps
      <4> QED BY <2>2, <3>4, <3>5, <3>6, <3>7, <4>1
    <3>8. CASE pile[m] \notin gone
      <4>1. f[m] = Append(old, pile[m])
        BY <2>3, <2>5, <3>3, <3>8 DEF Keeps
      <4>2. pile[m] \in S /\ Len(old) \in Nat /\ DOMAIN old = 1 .. Len(old)
        BY <1>1, <3>1, <3>4
      <4>3. /\ f[m] \in Seq(S)
            /\ DOMAIN f[m] = 1 .. Len(old) + 1
            /\ \A k \in 1 .. Len(old) : f[m][k] = old[k]
            /\ f[m][Len(old) + 1] = pile[m]
        BY <3>4, <4>1, <4>2
      <4>4. \A k \in DOMAIN f[m] : k = Len(old) + 1 \/ k \in DOMAIN old
        BY <4>2, <4>3
      <4>5. Len(old) + 1 \in DOMAIN f[m] /\ DOMAIN old \subseteq DOMAIN f[m]
        BY <4>2, <4>3
      <4>6. ASSUME NEW k \in DOMAIN f[m]
            PROVE  \E j \in 1 .. m : f[m][k] = pile[j] /\ pile[j] \notin gone
        <5>1. CASE k = Len(old) + 1
          <6>1. m \in 1 .. m
            BY <1>1, <3>1
          <6> QED BY <3>8, <4>3, <5>1, <6>1
        <5>2. CASE k \in DOMAIN old
          <6>1. PICK j \in 1 .. m - 1 : old[k] = pile[j] /\ pile[j] \notin gone
            BY <3>4, <5>2
          <6> QED BY <3>6, <4>2, <4>3, <5>2, <6>1
        <5> QED BY <4>4, <5>1, <5>2
      <4>7. \A j \in 1 .. m : pile[j] \notin gone => \E k \in DOMAIN f[m] : f[m][k] = pile[j]
        BY <3>4, <3>5, <4>2, <4>3, <4>5
      <4>8. ASSUME IsInjective(pile) PROVE IsInjective(f[m])
        <5>1. \A k \in DOMAIN old : old[k] # pile[m]
          BY <1>1, <3>1, <3>4, <3>6, <4>8 DEF IsInjective
        <5>2. \A k, l \in DOMAIN old : old[k] = old[l] => k = l
          BY <3>4, <4>8 DEF IsInjective
        <5> QED BY <4>2, <4>3, <4>4, <5>1, <5>2 DEF IsInjective
      <4> QED BY <2>2, <4>3, <4>6, <4>7, <4>8
    <3> QED BY <3>7, <3>8
  <2> QED BY <2>4, <2>5
<1>4. Good(n)
  BY <1>1, <1>3
<1>5. Range(f[n]) = Range(pile) \ gone
  <2>1. \A x \in Range(f[n]) : x \in Range(pile) \ gone
    BY <1>1, <1>4 DEF Range
  <2>2. \A x \in Range(pile) \ gone : x \in Range(f[n])
    BY <1>1, <1>4 DEF Range
  <2> QED BY <2>1, <2>2
<1> QED BY <1>2, <1>4, <1>5

-----------------------------------------------------------------------------
(* A move *)

Cards == DOMAIN Plan.faces
HasPiles(table) == \A z \in DOMAIN table : table[z] \in Seq(Cards)
CardsIn(table) == UNION {Range(table[z]) : z \in DOMAIN table}

\* The cards a move is not refused for are cards of the zone it takes from.
LEMMA MoveIsLegal ==
    ASSUME NEW a, NEW zs, MoveError(a, zs) = "none"
    PROVE  /\ a.from[2] \in DOMAIN zs /\ a.to[2] \in DOMAIN zs /\ a.from[2] # a.to[2]
           /\ Ids(a.card_ids) \in Seq(Cards) /\ IsInjective(Ids(a.card_ids))
           /\ Range(Ids(a.card_ids)) \subseteq Range(zs[a.from[2]])
<1>1. /\ a.from[2] # a.to[2]
      /\ ~ UnknownZone(a.from, zs) /\ ~ UnknownZone(a.to, zs)
      /\ SelectionError(a, a.from, zs) = "none"
  BY DEF MoveError
<1>2. /\ Ids(a.card_ids) \in Seq(Cards) /\ IsInjective(Ids(a.card_ids))
      /\ Range(Ids(a.card_ids)) \subseteq Range(zs[a.from[2]])
  BY <1>1 DEF SelectionError, Cards
<1> QED BY <1>1, <1>2 DEF UnknownZone

\* What a pile has after cards have come on top of it.
LEMMA JoinKeeps ==
    ASSUME NEW S, NEW p \in Seq(S), NEW q \in Seq(S)
    PROVE  /\ p \o q \in Seq(S)
           /\ Range(p \o q) = Range(p) \cup Range(q)
           /\ IsInjective(p) /\ IsInjective(q) /\ Range(p) \cap Range(q) = {} => IsInjective(p \o q)
<1>1. /\ p \o q \in Seq(S)
      /\ DOMAIN p = 1 .. Len(p) /\ DOMAIN q = 1 .. Len(q) /\ DOMAIN (p \o q) = 1 .. Len(p) + Len(q)
      /\ Len(p) \in Nat /\ Len(q) \in Nat
      /\ \A k \in 1 .. Len(p) : (p \o q)[k] = p[k]
      /\ \A k \in 1 .. Len(q) : (p \o q)[Len(p) + k] = q[k]
  OBVIOUS
<1>2. \A k \in DOMAIN (p \o q) : k \in DOMAIN p \/ (k - Len(p) \in DOMAIN q /\ k = Len(p) + (k - Len(p)))
  BY <1>1
<1>3. Range(p \o q) = Range(p) \cup Range(q)
  <2>1. \A x \in Range(p \o q) : x \in Range(p) \cup Range(q)
    BY <1>1, <1>2 DEF Range
  <2>2. \A k \in DOMAIN q : Len(p) + k \in DOMAIN (p \o q)
    BY <1>1
  <2>3. \A k \in DOMAIN p : k \in DOMAIN (p \o q)
    BY <1>1
  <2>4. \A x \in Range(p) \cup Range(q) : x \in Range(p \o q)
    BY <1>1, <2>2, <2>3 DEF Range
  <2> QED BY <2>1, <2>4
<1>4. ASSUME IsInjective(p), IsInjective(q), Range(p) \cap Range(q) = {}
      PROVE  IsInjective(p \o q)
  <2>1. \A k \in DOMAIN p, l \in DOMAIN q : p[k] # q[l]
    BY <1>4 DEF Range
  <2> SUFFICES ASSUME NEW k \in DOMAIN (p \o q), NEW l \in DOMAIN (p \o q), (p \o q)[k] = (p \o q)[l]
               PROVE  k = l
    BY DEF IsInjective
  <2>2. CASE k \in DOMAIN p
    BY <1>1, <1>2, <1>4, <2>1, <2>2 DEF IsInjective
  <2>3. CASE k \notin DOMAIN p
    BY <1>1, <1>2, <1>4, <2>1, <2>3 DEF IsInjective
  <2> QED BY <2>2, <2>3
<1> QED BY <1>1, <1>3, <1>4

\* A move that is not refused keeps every card, and no card twice: the audits
\* of apply_moves have nothing to find.
LEMMA MoveKeeps ==
    ASSUME NEW a, NEW zs, MoveError(a, zs) = "none", HasPiles(zs), OnceEach(zs)
    PROVE  /\ HasPiles(Moved(a, zs)) /\ OnceEach(Moved(a, zs))
           /\ CardsIn(Moved(a, zs)) = CardsIn(zs)
           /\ DOMAIN Moved(a, zs) = DOMAIN zs
<1>1. PICK from, to, ids : from = a.from[2] /\ to = a.to[2] /\ ids = Ids(a.card_ids)
  OBVIOUS
<1>2. /\ from \in DOMAIN zs /\ to \in DOMAIN zs /\ from # to
      /\ ids \in Seq(Cards) /\ IsInjective(ids) /\ Range(ids) \subseteq Range(zs[from])
  BY <1>1, MoveIsLegal
<1>3. PICK new : new = Moved(a, zs)
  OBVIOUS
<1>4. /\ DOMAIN new = DOMAIN zs
      /\ new[from] = Without(zs[from], Range(ids))
      /\ new[to] = zs[to] \o ids
      /\ \A z \in DOMAIN zs : z # from /\ z # to => new[z] = zs[z]
  BY <1>1, <1>2, <1>3 DEF Moved
<1>5. zs[from] \in Seq(Cards) /\ zs[to] \in Seq(Cards) /\ Range(zs[from]) \cap Range(zs[to]) = {}
  BY <1>2 DEF HasPiles, OnceEach
<1>6. /\ new[from] \in Seq(Cards) /\ IsInjective(new[from])
      /\ Range(new[from]) = Range(zs[from]) \ Range(ids)
  BY <1>2, <1>4, <1>5, WithoutKeeps DEF OnceEach
<1>7. /\ new[to] \in Seq(Cards) /\ IsInjective(new[to])
      /\ Range(new[to]) = Range(zs[to]) \cup Range(ids)
  <2>1. Range(zs[to]) \cap Range(ids) = {} /\ IsInjective(zs[to])
    BY <1>2, <1>5 DEF OnceEach
  <2> QED BY <1>2, <1>4, <1>5, <2>1, JoinKeeps
<1>8. HasPiles(new)
  BY <1>4, <1>6, <1>7 DEF HasPiles
<1>9. OnceEach(new)
  <2>1. \A z \in DOMAIN zs : IsInjective(new[z])
    BY <1>4, <1>6, <1>7 DEF OnceEach
  <2>2. \A y, z \in DOMAIN zs : y # z => Range(zs[y]) \cap Range(zs[z]) = {}
    BY DEF OnceEach
  <2>3. \A z \in DOMAIN zs : /\ z # to => Range(new[z]) \subseteq Range(zs[z])
                             /\ z # from /\ z # to => Range(new[z]) = Range(zs[z])
    BY <1>4, <1>6
  <2>4. ASSUME NEW z \in DOMAIN zs, z # to
        PROVE  Range(new[to]) \cap Range(new[z]) = {}
    <3>1. CASE z = from
      BY <1>2, <1>5, <1>6, <1>7, <3>1
    <3>2. CASE z # from
      BY <1>2, <1>7, <2>2, <2>3, <2>4, <3>2
    <3> QED BY <3>1, <3>2
  <2>5. \A y, z \in DOMAIN zs : y # z => Range(new[y]) \cap Range(new[z]) = {}
    BY <2>2, <2>3, <2>4
  <2> QED BY <1>4, <2>1, <2>5 DEF OnceEach
<1>10. CardsIn(new) = CardsIn(zs)
  <2>1. ASSUME NEW x \in CardsIn(new) PROVE x \in CardsIn(zs)
    <3>1. PICK z \in DOMAIN zs : x \in Range(new[z])
      BY <1>4, <2>1 DEF CardsIn
    <3>2. x \in Range(zs[z]) \/ x \in Range(zs[from])
      BY <1>2, <1>4, <1>6, <1>7, <3>1
    <3> QED BY <1>2, <3>2 DEF CardsIn
  <2>2. ASSUME NEW x \in CardsIn(zs) PROVE x \in CardsIn(new)
    <3>1. PICK z \in DOMAIN zs : x \in Range(zs[z])
      BY <2>2 DEF CardsIn
    <3>2. x \in Range(new[z]) \/ x \in Range(new[to])
      BY <1>4, <1>6, <1>7, <3>1
    <3> QED BY <1>2, <1>4, <3>2 DEF CardsIn
  <2> QED BY <2>1, <2>2
<1> QED BY <1>3, <1>4, <1>8, <1>9, <1>10
-----------------------------------------------------------------------------
(* A deal.  Every part of it is a stretch of the deck; a stretch is a pair  *)
(* of positions, its first card comes after the first of them.             *)

\* A walk along a path leads where every such walk does.
LEMMA WithinWalks ==
    ASSUME NEW v, NEW path, NEW g,
           g = [i \in 0 .. Len(path) |-> IF i = 0 THEN v ELSE Member(g[i - 1], path[i])]
    PROVE  \E f : /\ f = [i \in 0 .. Len(path) |-> IF i = 0 THEN v ELSE Member(f[i - 1], path[i])]
                  /\ Within(v, path) = f[Len(path)]
<1> DEFINE F == CHOOSE f : f = [i \in 0 .. Len(path) |-> IF i = 0 THEN v ELSE Member(f[i - 1], path[i])]
<1>1. F = [i \in 0 .. Len(path) |-> IF i = 0 THEN v ELSE Member(F[i - 1], path[i])]
  OBVIOUS
<1>2. Within(v, path) = F[Len(path)]
  BY DEF Within
<1> QED BY <1>1, <1>2

LEMMA WithinOne ==
    ASSUME NEW v, NEW p
    PROVE  Within(v, <<p>>) = Member(v, p)
<1>1. PICK path : path = <<p>>
  OBVIOUS
<1>2. Len(path) = 1 /\ path[1] = p
  BY <1>1
<1>3. PICK g : g = [i \in 0 .. 1 |-> IF i = 0 THEN v ELSE Member(v, p)]
  OBVIOUS
<1>4. \A i \in 0 .. 1 : i = 0 \/ (i = 1 /\ g[i - 1] = v /\ path[i] = p)
  BY <1>2, <1>3
<1>5. g = [i \in 0 .. Len(path) |-> IF i = 0 THEN v ELSE Member(g[i - 1], path[i])]
  BY <1>2, <1>3, <1>4
<1>6. PICK f : /\ f = [i \in 0 .. Len(path) |-> IF i = 0 THEN v ELSE Member(f[i - 1], path[i])]
               /\ Within(v, path) = f[Len(path)]
  BY <1>5, WithinWalks
<1>7. f[0] = v /\ f[1] = Member(f[1 - 1], path[1])
  BY <1>2, <1>6
<1> QED BY <1>1, <1>2, <1>6, <1>7

LEMMA WithinTwo ==
    ASSUME NEW v, NEW p, NEW q
    PROVE  Within(v, <<p, q>>) = Member(Member(v, p), q)
<1>1. PICK path : path = <<p, q>>
  OBVIOUS
<1>2. Len(path) = 2 /\ path[1] = p /\ path[2] = q
  BY <1>1
<1>3. PICK g : g = [i \in 0 .. 2 |-> IF i = 0 THEN v ELSE IF i = 1 THEN Member(v, p)
                                     ELSE Member(Member(v, p), q)]
  OBVIOUS
<1>4. \A i \in 0 .. 2 : \/ i = 0
                        \/ i = 1 /\ g[i - 1] = v /\ path[i] = p
                        \/ i = 2 /\ g[i - 1] = Member(v, p) /\ path[i] = q
  BY <1>2, <1>3
<1>5. g = [i \in 0 .. Len(path) |-> IF i = 0 THEN v ELSE Member(g[i - 1], path[i])]
  BY <1>2, <1>3, <1>4
<1>6. PICK f : /\ f = [i \in 0 .. Len(path) |-> IF i = 0 THEN v ELSE Member(f[i - 1], path[i])]
               /\ Within(v, path) = f[Len(path)]
  BY <1>5, WithinWalks
<1>7. f[0] = v /\ f[1] = Member(f[1 - 1], path[1]) /\ f[2] = Member(f[2 - 1], path[2])
  BY <1>2, <1>6
<1> QED BY <1>1, <1>2, <1>6, <1>7

\* A reference into the deal.
LEMMA ResolvesInside ==
    ASSUME NEW v, NEW dict, NEW rest,
           v[1] = "string", v[2] # <<>>, v[2][1] = "$state", Len(v[2]) # 1, v[2][2] = "deal",
           "deal" \in DOMAIN dict, SubSeq(v[2], 3, Len(v[2])) = rest
    PROVE  Resolve(v, dict) = Within(dict["deal"], rest)
BY Zenon DEF Resolve, IsReference

LEMMA RestOfThree ==
    ASSUME NEW a, NEW b, NEW c
    PROVE  SubSeq(<<a, b, c>>, 3, 3) = <<c>>
<1>1. PICK s : s = <<a, b, c>>
  OBVIOUS
<1>2. s \in Seq({a, b, c}) /\ Len(s) = 3 /\ s[3] = c
  BY <1>1
<1>3. PICK r : r = SubSeq(s, 3, 3)
  OBVIOUS
<1>4. r \in Seq({a, b, c}) /\ Len(r) = 1 /\ r[1] = s[3]
  BY <1>2, <1>3
<1>5. r = <<c>>
  BY <1>2, <1>4
<1> QED BY <1>1, <1>3, <1>5

LEMMA RestOfFour ==
    ASSUME NEW a, NEW b, NEW c, NEW d
    PROVE  SubSeq(<<a, b, c, d>>, 3, 4) = <<c, d>>
<1>1. PICK s : s = <<a, b, c, d>>
  OBVIOUS
<1>2. s \in Seq({a, b, c, d}) /\ Len(s) = 4 /\ s[3] = c /\ s[4] = d
  BY <1>1
<1>3. PICK r : r = SubSeq(s, 3, 4)
  OBVIOUS
<1>4. r \in Seq({a, b, c, d}) /\ Len(r) = 2 /\ r[1] = s[3] /\ r[2] = s[4]
  BY <1>2, <1>3
<1>5. r = <<c, d>>
  BY <1>2, <1>4
<1> QED BY <1>1, <1>3, <1>5

\* The hand that a token of a path names, and the stretch a zone is set to.
HandOf(args, h) == CHOOSE i \in 1 .. args.hands[2] : ToString(i - 1) = h
Stretch(args, n, v) ==
  CASE v = NoCards -> <<0, 0>>
    [] v = StrV(<<"$state", "deal", "kitty">>) ->
         <<args.hands[2] * args.cards_each[2], args.hands[2] * args.cards_each[2] + args.kitty[2]>>
    [] v = StrV(<<"$state", "deal", "deck">>) -> <<args.hands[2] * args.cards_each[2] + args.kitty[2], n>>
    [] OTHER -> <<(HandOf(args, v[2][4]) - 1) * args.cards_each[2], HandOf(args, v[2][4]) * args.cards_each[2]>>
Cut(deck, at) == SubSeq(deck, at[1] + 1, at[2])

\* What a zone is set to from its source.
SourceOf(deck, args, v) == IF v = NoCards THEN <<>> ELSE Cut(deck, Stretch(args, Len(deck), v))

\* A source of a zone that names a part which exists.
InTheDeal(args, v) ==
  \/ v \in {NoCards, StrV(<<"$state", "deal", "deck">>), StrV(<<"$state", "deal", "kitty">>)}
  \/ /\ v = StrV(<<"$state", "deal", "hands", v[2][4]>>)
     /\ HandOf(args, v[2][4]) \in 1 .. args.hands[2]
     /\ ToString(HandOf(args, v[2][4]) - 1) = v[2][4]

Literal(args) == \A k \in Amounts : args[k][1] = "integer" /\ args[k][2] \in Nat

\* What a reference to a part of the deal resolves to.
LEMMA PartOfTheDeal ==
    ASSUME NEW deck, NEW args, NEW dict, NEW v,
           Literal(args), FromTheDeal(v),
           "deal" \in DOMAIN dict, dict["deal"] = DealFrom(deck, args),
           ~ IsError(DealFrom(deck, args)), ~ IsError(Resolve(v, dict))
    PROVE  Resolve(v, dict)[2] = SourceOf(deck, args, v) /\ InTheDeal(args, v)
<1> USE DEF SourceOf, InTheDeal
<1>1. PICK H, E, K : H = args.hands[2] /\ E = args.cards_each[2] /\ K = args.kitty[2]
  OBVIOUS
<1>2. H \in Nat /\ E \in Nat /\ K \in Nat
  BY <1>1 DEF Literal, Amounts
<1>3. PICK parts : parts = [hands |-> <<"hands", [h \in 1 .. H |-> SubSeq(deck, (h - 1) * E + 1, h * E)]>>,
                            kitty |-> CardsV(SubSeq(deck, H * E + 1, H * E + K)),
                            deck |-> CardsV(SubSeq(deck, H * E + K + 1, Len(deck)))]
  OBVIOUS
<1>4. dict["deal"] = <<"dict", parts>>
  BY <1>1, <1>3 DEF DealFrom, IsError, Error, Dict
<1>5. /\ parts.hands = <<"hands", [h \in 1 .. H |-> SubSeq(deck, (h - 1) * E + 1, h * E)]>>
      /\ parts.kitty = CardsV(SubSeq(deck, H * E + 1, H * E + K))
      /\ parts.deck = CardsV(SubSeq(deck, H * E + K + 1, Len(deck)))
      /\ DOMAIN parts = {"hands", "kitty", "deck"}
  BY <1>3
<1>6. \A p \in {"hands", "kitty", "deck"} : Member(<<"dict", parts>>, p) = parts[p]
  BY <1>5 DEF Member, ItemType
<1>7. CASE v = NoCards
  <2>1. Resolve(v, dict) = v
    BY <1>7 DEF Resolve, IsReference, NoCards, CardsV
  <2> QED BY <1>7, <2>1 DEF NoCards, CardsV
<1>8. ASSUME NEW p \in {"kitty", "deck"}, v = StrV(<<"$state", "deal", p>>)
      PROVE  Resolve(v, dict) = parts[p]
  <2>1. v[2] = <<"$state", "deal", p>> /\ v[1] = "string"
    BY <1>8 DEF StrV
  <2>2. Len(v[2]) = 3 /\ v[2][1] = "$state" /\ v[2][2] = "deal" /\ v[2] # <<>>
    BY <2>1
  <2>3. SubSeq(v[2], 3, Len(v[2])) = <<p>>
    BY <2>1, <2>2, RestOfThree, Zenon
  <2>4. Resolve(v, dict) = Within(dict["deal"], <<p>>)
    <3>1. Len(v[2]) # 1
      BY <2>2
    <3> QED BY <2>1, <2>2, <2>3, <3>1, ResolvesInside, Zenon
  <2> QED BY <1>4, <1>6, <2>4, WithinOne
<1>9. CASE v = StrV(<<"$state", "deal", "kitty">>)
  <2>1. v # NoCards
    BY <1>9 DEF StrV, NoCards, CardsV
  <2> QED BY <1>1, <1>2, <1>5, <1>8, <1>9, <2>1 DEF Stretch, Cut, CardsV
<1>10. CASE v = StrV(<<"$state", "deal", "deck">>)
  <2>1. v # NoCards /\ v # StrV(<<"$state", "deal", "kitty">>)
    BY <1>10 DEF StrV, NoCards, CardsV
  <2> QED BY <1>1, <1>2, <1>5, <1>8, <1>10, <2>1 DEF Stretch, Cut, CardsV
<1>11. CASE v = StrV(<<"$state", "deal", "hands", v[2][4]>>)
  <2>1. PICK h : h = v[2][4]
    OBVIOUS
  <2>2. v[1] = "string" /\ v[2] = <<"$state", "deal", "hands", h>>
    BY <1>11, <2>1 DEF StrV
  <2>3. Len(v[2]) = 4 /\ v[2][1] = "$state" /\ v[2][2] = "deal" /\ v[2][3] = "hands" /\ v[2] # <<>>
    BY <2>2
  <2>4. SubSeq(v[2], 3, Len(v[2])) = <<"hands", h>>
    <3>1. SubSeq(<<"$state", "deal", "hands", h>>, 3, 4) = <<"hands", h>>
      BY RestOfFour, Zenon
    <3> QED BY <2>2, <2>3, <3>1, Zenon
  <2>5. Resolve(v, dict) = Within(dict["deal"], <<"hands", h>>)
    <3>1. Len(v[2]) # 1
      BY <2>3
    <3> QED BY <2>2, <2>3, <2>4, <3>1, ResolvesInside, Zenon
  <2>6. Resolve(v, dict) = Member(parts.hands, h)
    BY <1>4, <1>6, <2>5, WithinTwo
  <2>7. PICK hands : hands = [i \in 1 .. H |-> SubSeq(deck, (i - 1) * E + 1, i * E)]
    OBVIOUS
  <2>8. Member(<<"hands", hands>>, h) =
          IF \E i \in 1 .. H : ToString(i - 1) = h
          THEN <<"cards", hands[CHOOSE i \in 1 .. H : ToString(i - 1) = h]>>
          ELSE Error("state_reference_not_found")
    BY <2>7 DEF Member, ItemType
  <2>9. \E i \in 1 .. H : ToString(i - 1) = h
    BY <1>5, <2>6, <2>7, <2>8 DEF IsError, Error
  <2>10. PICK k : k = HandOf(args, h)
    OBVIOUS
  <2>11. k \in 1 .. H /\ ToString(k - 1) = h
    BY <1>1, <2>9, <2>10 DEF HandOf
  <2>12. Resolve(v, dict)[2] = SubSeq(deck, (k - 1) * E + 1, k * E)
    <3>1. Resolve(v, dict) = <<"cards", hands[k]>>
      BY <1>1, <1>5, <2>6, <2>7, <2>8, <2>9, <2>10, Zenon DEF HandOf
    <3>2. hands[k] = SubSeq(deck, (k - 1) * E + 1, k * E)
      BY <2>7, <2>11
    <3>3. Resolve(v, dict)[2] = hands[k]
      BY <3>1
    <3> QED BY <3>2, <3>3, Zenon
  <2>13. /\ v # NoCards /\ v # StrV(<<"$state", "deal", "kitty">>) /\ v # StrV(<<"$state", "deal", "deck">>)
    BY <2>2, <2>3 DEF StrV, NoCards, CardsV
  <2>14. Stretch(args, Len(deck), v) = <<(k - 1) * E, k * E>>
    BY <1>1, <2>1, <2>10, <2>13 DEF Stretch
  <2>15. Cut(deck, Stretch(args, Len(deck), v)) = SubSeq(deck, (k - 1) * E + 1, k * E)
    <3>1. PICK lo, hi : lo = (k - 1) * E /\ hi = k * E
      OBVIOUS
    <3>2. Stretch(args, Len(deck), v) = <<lo, hi>>
      BY <2>14, <3>1, Zenon
    <3>3. <<lo, hi>>[1] = lo /\ <<lo, hi>>[2] = hi
      OBVIOUS
    <3> QED BY <3>1, <3>2, <3>3, Zenon DEF Cut
  <2>16. v = StrV(<<"$state", "deal", "hands", v[2][4]>>)
    BY <1>11
  <2>17. HandOf(args, v[2][4]) \in 1 .. args.hands[2] /\ ToString(HandOf(args, v[2][4]) - 1) = v[2][4]
    BY <1>1, <2>1, <2>10, <2>11, Zenon
  <2>18. Resolve(v, dict)[2] = SourceOf(deck, args, v)
    BY <2>12, <2>13, <2>15, Zenon
  <2> QED BY <2>16, <2>17, <2>18, Zenon
<1> QED BY <1>7, <1>9, <1>10, <1>11 DEF FromTheDeal

LEMMA TimesGrows ==
    ASSUME NEW a \in Nat, NEW b \in Nat, NEW e \in Nat, a <= b
    PROVE  a * e \in Nat /\ b * e \in Nat /\ a * e <= b * e
<1>1. PICK d \in Nat : b = a + d
  <2>1. b - a \in Nat /\ b = a + (b - a)
    OBVIOUS
  <2> QED BY <2>1
<1>2. b * e = a * e + d * e /\ d * e \in Nat /\ a * e \in Nat
  BY <1>1
<1> QED BY <1>2

\* The stretches of two parts of a deal do not overlap.
LEMMA StretchesApart ==
    ASSUME NEW args, NEW n \in Nat, Literal(args),
           args.hands[2] * args.cards_each[2] + args.kitty[2] <= n,
           NEW u, NEW v, InTheDeal(args, u), InTheDeal(args, v), u # NoCards, v # NoCards
    PROVE  \E a, b, c, d \in 0 .. n :
              /\ Stretch(args, n, u) = <<a, b>> /\ Stretch(args, n, v) = <<c, d>>
              /\ a <= b /\ c <= d
              /\ u # v => b <= c \/ d <= a
<1>1. PICK H, E, K : H = args.hands[2] /\ E = args.cards_each[2] /\ K = args.kitty[2]
  OBVIOUS
<1>2. H \in Nat /\ E \in Nat /\ K \in Nat
  BY <1>1 DEF Literal, Amounts
<1>3. PICK D : D = H * E
  OBVIOUS
<1>4. D \in Nat /\ D + K \in Nat /\ D + K <= n
  BY <1>1, <1>2, <1>3
<1> DEFINE kitty == StrV(<<"$state", "deal", "kitty">>)
           deck == StrV(<<"$state", "deal", "deck">>)
<1>5. kitty # NoCards /\ deck # NoCards /\ deck # kitty
  BY DEF StrV, NoCards, CardsV
<1>6. Stretch(args, n, kitty) = <<D, D + K>>
  BY <1>1, <1>3, <1>5, Zenon DEF Stretch
<1>7. Stretch(args, n, deck) = <<D + K, n>>
  BY <1>1, <1>3, <1>5, Zenon DEF Stretch
<1> DEFINE Hand(x, k) == /\ k \in 1 .. H
                         /\ x = StrV(<<"$state", "deal", "hands", ToString(k - 1)>>)
                         /\ Stretch(args, n, x) = <<(k - 1) * E, k * E>>
<1>8. ASSUME NEW x, InTheDeal(args, x), x # NoCards
      PROVE  x = kitty \/ x = deck \/ \E k \in 1 .. H : Hand(x, k)
  <2> SUFFICES ASSUME x # kitty, x # deck PROVE \E k \in 1 .. H : Hand(x, k)
    OBVIOUS
  <2>1. PICK k : k = HandOf(args, x[2][4])
    OBVIOUS
  <2>2. /\ x = StrV(<<"$state", "deal", "hands", x[2][4]>>)
        /\ k \in 1 .. H /\ ToString(k - 1) = x[2][4]
    BY <1>1, <1>8, <2>1, Zenon DEF InTheDeal
  <2>3. Stretch(args, n, x) = <<(k - 1) * E, k * E>>
    BY <1>1, <1>8, <2>1, Zenon DEF Stretch
  <2>4. x = StrV(<<"$state", "deal", "hands", ToString(k - 1)>>)
    BY <2>2, Zenon
  <2> QED BY <2>2, <2>3, <2>4
<1>9. \A k \in 1 .. H : /\ (k - 1) * E \in Nat /\ k * E \in Nat
                        /\ (k - 1) * E <= k * E /\ k * E <= D
  <2>1. ASSUME NEW k \in 1 .. H
        PROVE  (k - 1) * E \in Nat /\ k * E \in Nat /\ (k - 1) * E <= k * E /\ k * E <= D
    <3>1. k \in Nat /\ k - 1 \in Nat /\ k - 1 <= k /\ k <= H
      BY <1>2
    <3> QED BY <1>2, <1>3, <3>1, TimesGrows
  <2> QED BY <2>1
<1>10. \A j, k \in 1 .. H : j < k => j * E <= (k - 1) * E
  <2>1. \A j, k \in 1 .. H : j < k => j \in Nat /\ k - 1 \in Nat /\ j <= k - 1
    BY <1>2
  <2> QED BY <1>2, <2>1, TimesGrows
<1> HIDE DEF kitty, deck, Hand
<1>11. \A k \in 1 .. H : /\ (k - 1) * E \in 0 .. n /\ k * E \in 0 .. n
  <2>1. \A p, q \in Nat : p <= q /\ q <= D => p \in 0 .. n /\ q \in 0 .. n
    BY <1>2, <1>4
  <2> QED BY <1>9, <2>1
<1>12. D \in 0 .. n /\ D + K \in 0 .. n /\ n \in 0 .. n /\ D <= D + K /\ D + K <= n
  BY <1>2, <1>4
<1>13. \A x, k : Hand(x, k) => k \in 1 .. H /\ Stretch(args, n, x) = <<(k - 1) * E, k * E>>
  BY DEF Hand
<1>14. \A k : \A x, y : Hand(x, k) /\ Hand(y, k) => x = y
  BY DEF Hand
<1>15. CASE u = kitty
  <2>1. CASE v = kitty
    BY <1>6, <1>12, <1>15, <2>1
  <2>2. CASE v = deck
    BY <1>6, <1>7, <1>12, <1>15, <2>2
  <2>3. ASSUME NEW k \in 1 .. H, Hand(v, k)
        PROVE  \E a, b, c, d \in 0 .. n :
                  /\ Stretch(args, n, u) = <<a, b>> /\ Stretch(args, n, v) = <<c, d>>
                  /\ a <= b /\ c <= d /\ d <= a
    BY <1>6, <1>9, <1>11, <1>12, <1>13, <1>15, <2>3
  <2> QED BY <1>8, <2>1, <2>2, <2>3
<1>16. CASE u = deck
  <2>1. CASE v = kitty
    BY <1>6, <1>7, <1>12, <1>16, <2>1
  <2>2. CASE v = deck
    BY <1>7, <1>12, <1>16, <2>2
  <2>3. ASSUME NEW k \in 1 .. H, Hand(v, k)
        PROVE  \E a, b, c, d \in 0 .. n :
                  /\ Stretch(args, n, u) = <<a, b>> /\ Stretch(args, n, v) = <<c, d>>
                  /\ a <= b /\ c <= d /\ d <= a
    <3>1. k * E <= D + K
      BY <1>2, <1>4, <1>9
    <3> QED BY <1>7, <1>9, <1>11, <1>12, <1>13, <1>16, <2>3, <3>1
  <2> QED BY <1>8, <2>1, <2>2, <2>3
<1>17. ASSUME NEW j \in 1 .. H, Hand(u, j)
       PROVE  \E a, b, c, d \in 0 .. n :
                 /\ Stretch(args, n, u) = <<a, b>> /\ Stretch(args, n, v) = <<c, d>>
                 /\ a <= b /\ c <= d
                 /\ u # v => b <= c \/ d <= a
  <2>1. CASE v = kitty
    BY <1>6, <1>9, <1>11, <1>12, <1>13, <1>17, <2>1
  <2>2. CASE v = deck
    <3>1. j * E <= D + K
      BY <1>2, <1>4, <1>9
    <3> QED BY <1>7, <1>9, <1>11, <1>12, <1>13, <1>17, <2>2, <3>1
  <2>3. ASSUME NEW k \in 1 .. H, Hand(v, k)
        PROVE  \E a, b, c, d \in 0 .. n :
                  /\ Stretch(args, n, u) = <<a, b>> /\ Stretch(args, n, v) = <<c, d>>
                  /\ a <= b /\ c <= d
                  /\ u # v => b <= c \/ d <= a
    <3>1. u # v => j < k \/ k < j
      BY <1>2, <1>14, <1>17, <2>3
    <3>2. u # v => j * E <= (k - 1) * E \/ k * E <= (j - 1) * E
      BY <1>10, <3>1
    <3> QED BY <1>9, <1>11, <1>13, <1>17, <2>3, <3>2
  <2> QED BY <1>8, <2>1, <2>2, <2>3
<1> QED BY <1>8, <1>15, <1>16, <1>17
\* Two stretches of a deck that do not overlap share no card.
LEMMA CutKeeps ==
    ASSUME NEW S, NEW o \in Seq(S), IsInjective(o),
           NEW a \in 0 .. Len(o), NEW b \in 0 .. Len(o), a <= b
    PROVE  /\ Cut(o, <<a, b>>) \in Seq(S) /\ IsInjective(Cut(o, <<a, b>>))
           /\ Range(Cut(o, <<a, b>>)) = {o[i] : i \in a + 1 .. b}
<1>1. PICK p : p = Cut(o, <<a, b>>)
  OBVIOUS
<1>2. Len(o) \in Nat /\ DOMAIN o = 1 .. Len(o) /\ \A i \in 1 .. Len(o) : o[i] \in S
  OBVIOUS
<1>3. p = SubSeq(o, a + 1, b)
  BY <1>1 DEF Cut
<1>4. p = [i \in 1 .. b - a |-> o[a + i]]
  BY <1>2, <1>3
<1>5. p \in Seq(S) /\ DOMAIN p = 1 .. b - a /\ \A i \in 1 .. b - a : p[i] = o[a + i]
  BY <1>2, <1>3, <1>4
<1>6. \A i \in 1 .. b - a : a + i \in a + 1 .. b /\ a + i \in DOMAIN o
  BY <1>2
<1>7. \A i \in a + 1 .. b : i - a \in 1 .. b - a /\ a + (i - a) = i
  BY <1>2
<1>8. IsInjective(p)
  <2> SUFFICES ASSUME NEW i \in DOMAIN p, NEW j \in DOMAIN p, p[i] = p[j] PROVE i = j
    BY DEF IsInjective
  <2>1. o[a + i] = o[a + j] /\ a + i \in DOMAIN o /\ a + j \in DOMAIN o
    BY <1>5, <1>6
  <2>2. a + i = a + j
    BY <2>1 DEF IsInjective
  <2> QED BY <1>2, <1>5, <2>2
<1>9. Range(p) = {o[i] : i \in a + 1 .. b}
  <2>1. \A x \in Range(p) : \E i \in a + 1 .. b : x = o[i]
    BY <1>5, <1>6 DEF Range
  <2>2. ASSUME NEW i \in a + 1 .. b PROVE o[i] \in Range(p)
    <3>1. p[i - a] = o[i] /\ i - a \in DOMAIN p
      BY <1>5, <1>7
    <3> QED BY <3>1 DEF Range
  <2> QED BY <2>1, <2>2
<1> QED BY <1>1, <1>5, <1>8, <1>9

LEMMA CutsApart ==
    ASSUME NEW S, NEW o \in Seq(S), IsInjective(o),
           NEW a \in 0 .. Len(o), NEW b \in 0 .. Len(o), a <= b,
           NEW c \in 0 .. Len(o), NEW d \in 0 .. Len(o), c <= d,
           b <= c \/ d <= a
    PROVE  Range(Cut(o, <<a, b>>)) \cap Range(Cut(o, <<c, d>>)) = {}
<1>1. /\ Range(Cut(o, <<a, b>>)) = {o[i] : i \in a + 1 .. b}
      /\ Range(Cut(o, <<c, d>>)) = {o[i] : i \in c + 1 .. d}
  BY CutKeeps
<1>2. Len(o) \in Nat /\ DOMAIN o = 1 .. Len(o)
  OBVIOUS
<1>3. \A i \in a + 1 .. b, j \in c + 1 .. d : i # j /\ i \in DOMAIN o /\ j \in DOMAIN o
  BY <1>2
<1>4. \A i \in a + 1 .. b, j \in c + 1 .. d : o[i] # o[j]
  BY <1>3 DEF IsInjective
<1> QED BY <1>1, <1>4

\* The zones as a deal fills them.
Dealt(deck, args, table) == [z \in DOMAIN table |-> SourceOf(deck, args, table[z])]

\* Zones that are set to parts of a deal, each to one of its own, hold each card
\* of the deck once at most.
LEMMA DealtOnce ==
    ASSUME NEW S, NEW deck \in Seq(S), IsInjective(deck), NEW args, Literal(args),
           ~ IsError(DealFrom(deck, args)),
           NEW table, \A z \in DOMAIN table : InTheDeal(args, table[z]),
           \A y, z \in DOMAIN table : table[y] = table[z] /\ table[y] # NoCards => y = z
    PROVE  /\ \A z \in DOMAIN table : Dealt(deck, args, table)[z] \in Seq(S)
           /\ OnceEach(Dealt(deck, args, table))
<1>1. PICK new : new = Dealt(deck, args, table)
  OBVIOUS
<1>2. /\ DOMAIN new = DOMAIN table
      /\ \A z \in DOMAIN table : table[z] = NoCards => new[z] = <<>>
      /\ \A z \in DOMAIN table : table[z] # NoCards => new[z] = Cut(deck, Stretch(args, Len(deck), table[z]))
  BY <1>1 DEF Dealt, SourceOf
<1>3. PICK n : n = Len(deck) /\ n \in Nat
  OBVIOUS
<1>4. args.hands[2] * args.cards_each[2] + args.kitty[2] <= n
  <2>1. PICK H, E, K : H = args.hands[2] /\ E = args.cards_each[2] /\ K = args.kitty[2]
    OBVIOUS
  <2>2. H \in Nat /\ E \in Nat /\ K \in Nat
    BY <2>1 DEF Literal, Amounts
  <2>3. PICK D : D = H * E
    OBVIOUS
  <2>4. D + K \in Nat
    BY <2>2, <2>3
  <2>5. ~ (D + K > n)
    BY <1>3, <2>1, <2>3 DEF DealFrom, IsError, Error
  <2> QED BY <1>3, <2>1, <2>3, <2>4, <2>5
<1>5. ASSUME NEW z \in DOMAIN table
      PROVE  new[z] \in Seq(S) /\ IsInjective(new[z])
  <2>1. CASE table[z] = NoCards
    <3>1. new[z] = <<>>
      BY <1>2, <2>1
    <3> QED BY <3>1 DEF IsInjective
  <2>2. CASE table[z] # NoCards
    <3>1. PICK a, b \in 0 .. n : Stretch(args, n, table[z]) = <<a, b>> /\ a <= b
      BY <1>3, <1>4, <2>2, StretchesApart
    <3>2. new[z] = Cut(deck, <<a, b>>)
      BY <1>2, <1>3, <2>2, <3>1
    <3> QED BY <1>3, <3>1, <3>2, CutKeeps
  <2> QED BY <2>1, <2>2
<1>6. ASSUME NEW y \in DOMAIN table, NEW z \in DOMAIN table, y # z
      PROVE  Range(new[y]) \cap Range(new[z]) = {}
  <2>1. CASE table[y] = NoCards \/ table[z] = NoCards
    <3>1. new[y] = <<>> \/ new[z] = <<>>
      BY <1>2, <2>1
    <3>2. Range(<<>>) = {}
      BY DEF Range
    <3> QED BY <3>1, <3>2
  <2>2. CASE table[y] # NoCards /\ table[z] # NoCards
    <3>1. table[y] # table[z]
      BY <1>6, <2>2
    <3>2. PICK a, b, c, d \in 0 .. n :
             /\ Stretch(args, n, table[y]) = <<a, b>> /\ Stretch(args, n, table[z]) = <<c, d>>
             /\ a <= b /\ c <= d
             /\ table[y] # table[z] => b <= c \/ d <= a
      BY <1>3, <1>4, <2>2, StretchesApart
    <3>3. new[y] = Cut(deck, <<a, b>>) /\ new[z] = Cut(deck, <<c, d>>)
      BY <1>2, <1>3, <2>2, <3>2
    <3> QED BY <1>3, <3>1, <3>2, <3>3, CutsApart
  <2> QED BY <2>1, <2>2
<1> QED BY <1>1, <1>2, <1>5, <1>6 DEF OnceEach
-----------------------------------------------------------------------------
(* What a step does *)

NodeOf(g, n) == PlanOf[g].nodes[n]
Nodes(g)   == DOMAIN PlanOf[g].nodes

\* The zones hold what a deal of the plan has put there, each card once.
Sound(g, o, table) ==
  /\ \A z \in DOMAIN table : table[z] \in Seq(DOMAIN PlanOf[g].faces)
  /\ OnceEach(table)
  /\ table # <<>> =>
       \E w, n \in Nodes(g) :
          /\ SetsTable(NodeOf(g, w)) /\ w \in Leads(NodeOf(g, n))
          /\ CardsIn(table) = CardsIn(Dealt(o, NodeOf(g, n).args, TableOfNode(NodeOf(g, w))))

\* A state between two steps.
Rests(g, o, h) ==
  /\ h.mode \in {"new", "waiting", "over"}
  /\ h.pc \in Nodes(g) /\ ~ SetsTable(NodeOf(g, h.pc))
  /\ h.mode = "waiting" => NodeOf(g, h.pc).kind = "wait"
  /\ Sound(g, o, h.zones)
  /\ h = [zones |-> h.zones, st |-> h.st, pc |-> h.pc, mode |-> h.mode]

\* Where the zones are about to be set, a deal has just been made.
JustDealt(g, o, at, s) ==
  SetsTable(NodeOf(g, at)) =>
    \E n \in Nodes(g) : /\ at \in Leads(NodeOf(g, n))
                        /\ "deal" \in DOMAIN s /\ s["deal"] = DealFrom(o, NodeOf(g, n).args)
                        /\ ~ IsError(s["deal"])

MachineInv ==
  /\ game \in Games /\ order \in ShufflesOf[game]
  /\ pc \in Nodes(game)
  /\ Sound(game, order, zones)
  /\ mode = "running" => Rests(game, order, backup) /\ JustDealt(game, order, pc, st)
  /\ mode # "running" => Rests(game, order, Held)

\* Only a deal leads to where the zones are set.
LEMMA WayIn ==
    ASSUME NEW g \in Games, NEW n \in Nodes(g), NEW w \in Leads(NodeOf(g, n))
    PROVE  /\ w \in Nodes(g)
           /\ SetsTable(NodeOf(g, w)) => DealsCards(NodeOf(g, n))
BY FlowAssumption, DealAssumption DEF Nodes, NodeOf

LEMMA CallLeads ==
    ASSUME NEW node, node.kind = "call" PROVE Leads(node) = {node.next}
BY DEF Leads
LEMMA BranchLeads ==
    ASSUME NEW node, node.kind = "branch" PROVE Leads(node) = {node.next} \cup Range(node.cases)
BY DEF Leads
LEMMA WaitLeads ==
    ASSUME NEW node, node.kind = "wait" PROVE Leads(node) = Range(node.inputs)
BY DEF Leads

\* A literal argument is itself.
LEMMA LiteralArgument ==
    ASSUME NEW v, NEW s, NEW zs, v[1] = "integer"
    PROVE  Argument(v, s, zs) = v
BY DEF Argument, ResolveIn, Resolve, IsReference

\* What a deal leaves in the dictionary.
LEMMA DealAnswers ==
    ASSUME NEW node, NEW s, NEW zs, DealsCards(node), FaultOf(Answer(node, s, zs)) = "none"
    PROVE  /\ Answer(node, s, zs) = DealFrom(order, node.args)
           /\ ~ IsError(DealFrom(order, node.args))
<1>1. PICK a : a = Arguments(node.args, s, zs)
  OBVIOUS
<1>2. Answer(node, s, zs) = IF Unresolved(a) THEN Error("state_reference_not_found") ELSE Deal(a)
  BY <1>1 DEF Answer, DealsCards
<1>3. \A k \in Amounts : a[k] = node.args[k]
  BY <1>1, LiteralArgument DEF DealsCards, Arguments
<1>4. a.hands = node.args.hands /\ a.cards_each = node.args.cards_each /\ a.kitty = node.args.kitty
  BY <1>3 DEF Amounts
<1>5. Deal(a) = DealFrom(order, node.args)
  BY <1>4 DEF Deal, DealFrom
<1>6. \/ DealFrom(order, node.args) = Error("deck_exhausted")
      \/ ~ IsError(DealFrom(order, node.args))
  BY DEF DealFrom, Dict, IsError
<1>7. ~ IsError(Answer(node, s, zs))
  BY <1>2, <1>5, <1>6 DEF FaultOf, IsError, Error
<1> QED BY <1>2, <1>5, <1>7 DEF IsError, Error

\* What a zone is set to, the rest of the state being what it is.
LEMMA SourceResolves ==
    ASSUME NEW v, NEW s, NEW zs, FromTheDeal(v), "deal" \in DOMAIN s
    PROVE  \E dict : /\ "deal" \in DOMAIN dict /\ dict["deal"] = s["deal"]
                     /\ Argument(v, s, zs) = Resolve(v, dict)
<1>1. v[1] # "list"
  BY DEF FromTheDeal, NoCards, CardsV, StrV
<1>2. Argument(v, s, zs) = Resolve(v, s) \/ Argument(v, s, zs) = Resolve(v, Whole(s, zs))
  BY <1>1 DEF Argument, ResolveIn
<1>3. "deal" \in DOMAIN Whole(s, zs) /\ Whole(s, zs)["deal"] = s["deal"]
  BY DEF Whole, Put
<1> QED BY <1>2, <1>3

\* The zones after the call that sets them: a deal, each card once.
LEMMA WriteDeals ==
    ASSUME NEW g \in Games, NEW o \in ShufflesOf[g], NEW w \in Nodes(g), SetsTable(NodeOf(g, w)),
           NEW s, NEW zs, JustDealt(g, o, w, s),
           NEW given, given = Arguments(TableOfNode(NodeOf(g, w)), s, zs), ~ Unresolved(given)
    PROVE  Sound(g, o, [z \in DOMAIN given |-> given[z][2]])
<1>1. PICK n \in Nodes(g) : /\ w \in Leads(NodeOf(g, n))
                            /\ "deal" \in DOMAIN s /\ s["deal"] = DealFrom(o, NodeOf(g, n).args)
                            /\ ~ IsError(s["deal"])
  BY DEF JustDealt
<1>2. PICK args : args = NodeOf(g, n).args
  OBVIOUS
<1>3. Literal(args)
  BY <1>1, <1>2, WayIn DEF DealsCards, Literal
<1>4. PICK table : table = TableOfNode(NodeOf(g, w))
  OBVIOUS
<1>5. /\ \A z \in DOMAIN table : FromTheDeal(table[z])
      /\ \A y, z \in DOMAIN table : table[y] = table[z] /\ table[y] # NoCards => y = z
  BY <1>4, DealAssumption DEF Nodes, NodeOf
<1>6. PICK new : new = [z \in DOMAIN given |-> given[z][2]]
  OBVIOUS
<1>7. DOMAIN given = DOMAIN table /\ \A z \in DOMAIN table : given[z] = Argument(table[z], s, zs)
  BY <1>4 DEF Arguments
<1>8. ASSUME NEW z \in DOMAIN table
      PROVE  /\ new[z] = SourceOf(o, args, table[z])
             /\ InTheDeal(args, table[z])
  <2>1. PICK v : v = table[z] /\ FromTheDeal(v)
    BY <1>5
  <2>2. PICK dict : /\ "deal" \in DOMAIN dict /\ dict["deal"] = s["deal"]
                    /\ Argument(v, s, zs) = Resolve(v, dict)
    BY <1>1, <2>1, SourceResolves
  <2>3. new[z] = Resolve(v, dict)[2] /\ ~ IsError(Resolve(v, dict))
    BY <1>6, <1>7, <2>1, <2>2 DEF Unresolved
  <2>4. dict["deal"] = DealFrom(o, args) /\ ~ IsError(DealFrom(o, args))
    BY <1>1, <1>2, <2>2
  <2>5. Resolve(v, dict)[2] = SourceOf(o, args, v) /\ InTheDeal(args, v)
    BY <1>3, <2>1, <2>2, <2>3, <2>4, PartOfTheDeal
  <2> QED BY <2>1, <2>3, <2>5
<1>9. new = Dealt(o, args, table)
  BY <1>6, <1>7, <1>8 DEF Dealt
<1>10. o \in Seq(DOMAIN PlanOf[g].faces) /\ IsInjective(o)
  BY DeckAssumption
<1>11. /\ \A z \in DOMAIN table : new[z] \in Seq(DOMAIN PlanOf[g].faces)
       /\ OnceEach(new)
  BY <1>1, <1>2, <1>3, <1>5, <1>8, <1>9, <1>10, DealtOnce
<1>12. DOMAIN new = DOMAIN table
  BY <1>6, <1>7
<1>13. CardsIn(new) = CardsIn(Dealt(o, NodeOf(g, n).args, TableOfNode(NodeOf(g, w))))
  BY <1>2, <1>4, <1>9
<1> QED BY <1>1, <1>6, <1>11, <1>12, <1>13 DEF Sound

\* What is true of every state of the machine, at its start.
LEMMA MachineInit == Init => MachineInv
<1> SUFFICES ASSUME Init PROVE MachineInv
  OBVIOUS
<1>1. /\ game \in Games /\ order \in ShufflesOf[game] /\ mode = "new" /\ zones = <<>>
      /\ pc = PlanOf[game].entry
  BY DEF Init, Plan
<1>2. pc \in Nodes(game)
  BY <1>1, FlowAssumption DEF Nodes
<1>3. ~ SetsTable(NodeOf(game, pc))
  BY <1>1, <1>2, DealAssumption DEF Nodes, NodeOf
<1>4. Sound(game, order, zones)
  BY <1>1 DEF Sound, OnceEach
<1>5. Rests(game, order, Held)
  BY <1>1, <1>2, <1>3, <1>4 DEF Rests, Held
<1> QED BY <1>1, <1>2, <1>4, <1>5 DEF MachineInv

\* A call moves on to a node of the plan, and to where the zones are set only
\* from a deal.
LEMMA CallMoves ==
    ASSUME MachineInv, NodeAt.kind = "call", NEW at, at = NodeAt.next
    PROVE  /\ at \in Nodes(game)
           /\ SetsTable(NodeOf(game, at)) => DealsCards(NodeAt)
<1>1. game \in Games /\ pc \in Nodes(game) /\ NodeAt = NodeOf(game, pc)
  BY DEF MachineInv, NodeAt, Plan, NodeOf
<1>2. at \in Leads(NodeOf(game, pc))
  BY <1>1, CallLeads
<1> QED BY <1>1, <1>2, WayIn

\* What stays when a call or a branch is carried out.
Stays == /\ game' = game /\ order' = order /\ mode' = "running" /\ mode = "running" /\ backup' = backup
LEMMA Carries ==
    ASSUME MachineInv, Stays, pc' \in Nodes(game), Sound(game, order, zones'), JustDealt(game, order, pc', st')
    PROVE  MachineInv'
BY DEF MachineInv, Stays

LEMMA SetupKeeps == MachineInv /\ Setup => MachineInv'
<1> SUFFICES ASSUME MachineInv, Setup PROVE MachineInv'
  OBVIOUS
<1>1. /\ mode = "new" /\ mode' = "running" /\ backup' = Held
      /\ game' = game /\ order' = order /\ zones' = zones /\ st' = st /\ pc' = pc
  BY DEF Setup, Begin
<1>2. Rests(game, order, Held)
  BY <1>1 DEF MachineInv
<1>3. ~ SetsTable(NodeOf(game, pc))
  BY <1>2 DEF Rests, Held
<1> QED BY <1>1, <1>2, <1>3 DEF MachineInv, JustDealt

LEMMA StepKeeps ==
    ASSUME NEW action, NEW payload, MachineInv, Step(action, payload)
    PROVE  MachineInv'
<1>1. /\ mode = "waiting" /\ mode' = "running" /\ backup' = Held
      /\ game' = game /\ order' = order /\ zones' = zones
      /\ action \in DOMAIN NodeAt.inputs /\ pc' = NodeAt.inputs[action]
  BY DEF Step, Begin
<1>2. game \in Games /\ pc \in Nodes(game) /\ NodeAt = NodeOf(game, pc)
  BY DEF MachineInv, NodeAt, Plan, NodeOf
<1>3. Rests(game, order, Held)
  BY <1>1 DEF MachineInv
<1>4. NodeAt.kind = "wait"
  BY <1>1, <1>2, <1>3 DEF Rests, Held
<1>5. pc' \in Leads(NodeOf(game, pc))
  BY <1>1, <1>2, <1>4, WaitLeads DEF Range
<1>6. pc' \in Nodes(game) /\ ~ SetsTable(NodeOf(game, pc'))
  BY <1>2, <1>4, <1>5, WayIn DEF DealsCards
<1> QED BY <1>1, <1>3, <1>6 DEF MachineInv, JustDealt

LEMMA ReadKeeps == MachineInv /\ Read => MachineInv'
<1> SUFFICES ASSUME MachineInv, Read PROVE MachineInv'
  OBVIOUS
<1>1. /\ NodeAt.kind = "call" /\ NodeAt.op \notin Writers
      /\ st' = Put(st, NodeAt.result_key, Answer(NodeAt, st, zones))
      /\ pc' = NodeAt.next /\ zones' = zones
  BY DEF Read, Calls, Readers
<1>2. Stays
  BY DEF Read, Calls, Running, Walks, Stays
<1>3. FaultOf(Answer(NodeAt, st, zones)) = "none"
  BY <1>1 DEF Read, CallFault, Writers
<1>4. pc' \in Nodes(game) /\ (SetsTable(NodeOf(game, pc')) => DealsCards(NodeAt))
  BY <1>1, CallMoves
<1>5. JustDealt(game, order, pc', st')
  <2> SUFFICES ASSUME SetsTable(NodeOf(game, pc'))
               PROVE  \E n \in Nodes(game) : /\ pc' \in Leads(NodeOf(game, n))
                                             /\ "deal" \in DOMAIN st' /\ st'["deal"] = DealFrom(order, NodeOf(game, n).args)
                                             /\ ~ IsError(st'["deal"])
    BY DEF JustDealt
  <2>1. pc \in Nodes(game) /\ NodeAt = NodeOf(game, pc)
    BY DEF MachineInv, NodeAt, Plan, NodeOf
  <2>2. DealsCards(NodeAt)
    BY <1>4
  <2>3. /\ Answer(NodeAt, st, zones) = DealFrom(order, NodeAt.args)
        /\ ~ IsError(DealFrom(order, NodeAt.args))
    BY <1>3, <2>2, DealAnswers
  <2>4. NodeAt.result_key = "deal"
    BY <2>2 DEF DealsCards
  <2>5. "deal" \in DOMAIN st' /\ st'["deal"] = DealFrom(order, NodeAt.args)
    BY <1>1, <2>3, <2>4 DEF Put
  <2>6. pc' \in Leads(NodeOf(game, pc))
    BY <1>1, <2>1, CallLeads
  <2> QED BY <2>1, <2>3, <2>5, <2>6
<1>6. Sound(game, order, zones')
  BY <1>1 DEF MachineInv
<1> QED BY <1>2, <1>4, <1>5, <1>6, Carries

LEMMA WriteKeeps == MachineInv /\ Write => MachineInv'
<1> SUFFICES ASSUME MachineInv, Write PROVE MachineInv'
  OBVIOUS
<1>1. /\ NodeAt.kind = "call" /\ NodeAt.op = "state.update" /\ CallFault = "none"
      /\ zones' = IF "zones" \in DOMAIN NodeAt.args.values THEN [z \in DOMAIN TableArgs |-> TableArgs[z][2]] ELSE zones
      /\ pc' = NodeAt.next
  BY DEF Write, Calls
<1>2. Stays
  BY DEF Write, Calls, Running, Walks, Stays
<1>3. pc' \in Nodes(game) /\ ~ SetsTable(NodeOf(game, pc'))
  BY <1>1, CallMoves DEF DealsCards
<1>4. JustDealt(game, order, pc', st')
  BY <1>3 DEF JustDealt
<1>5. ~ Unresolved(TableArgs)
  BY <1>1 DEF CallFault
<1>6. /\ game \in Games /\ order \in ShufflesOf[game] /\ pc \in Nodes(game)
      /\ NodeAt = NodeOf(game, pc) /\ JustDealt(game, order, pc, st) /\ Sound(game, order, zones)
  BY <1>2 DEF MachineInv, NodeAt, Plan, NodeOf, Stays
<1>7. CASE "zones" \in DOMAIN NodeAt.args.values
  <2>1. SetsTable(NodeOf(game, pc))
    BY <1>1, <1>6, <1>7 DEF SetsTable
  <2>2. TableArgs = Arguments(TableOfNode(NodeOf(game, pc)), st, zones)
    BY <1>6, <1>7 DEF TableArgs, TableOfNode
  <2>3. zones' = [z \in DOMAIN TableArgs |-> TableArgs[z][2]]
    BY <1>1, <1>7
  <2>4. PICK given : given = TableArgs
    OBVIOUS
  <2>5. Sound(game, order, [z \in DOMAIN given |-> given[z][2]])
    BY <1>5, <1>6, <2>1, <2>2, <2>4, WriteDeals
  <2>6. Sound(game, order, zones')
    BY <2>3, <2>4, <2>5
  <2> QED BY <1>2, <1>3, <1>4, <2>6, Carries
<1>8. CASE "zones" \notin DOMAIN NodeAt.args.values
  <2>1. zones' = zones
    BY <1>1, <1>8
  <2> QED BY <1>2, <1>3, <1>4, <1>6, <2>1, Carries
<1> QED BY <1>7, <1>8

LEMMA MoveCallKeeps == MachineInv /\ MoveCall => MachineInv'
<1> SUFFICES ASSUME MachineInv, MoveCall PROVE MachineInv'
  OBVIOUS
<1>1. /\ NodeAt.kind = "call" /\ NodeAt.op = "zones.move" /\ CallFault = "none"
      /\ zones' = Moved(MoveArgs, zones) /\ pc' = NodeAt.next
  BY DEF MoveCall, Calls
<1>2. Stays
  BY DEF MoveCall, Calls, Running, Walks, Stays
<1>3. pc' \in Nodes(game) /\ ~ SetsTable(NodeOf(game, pc'))
  BY <1>1, CallMoves DEF DealsCards
<1>4. JustDealt(game, order, pc', st')
  BY <1>3 DEF JustDealt
<1>5. MoveError(MoveArgs, zones) = "none"
  BY <1>1 DEF CallFault
<1>6. Sound(game, order, zones)
  BY DEF MachineInv
<1>7. HasPiles(zones) /\ OnceEach(zones)
  BY <1>6 DEF Sound, HasPiles, Cards, Plan
<1>8. PICK new : new = Moved(MoveArgs, zones)
  OBVIOUS
<1>9. HasPiles(new) /\ OnceEach(new) /\ CardsIn(new) = CardsIn(zones) /\ DOMAIN new = DOMAIN zones
  BY <1>5, <1>7, <1>8, MoveKeeps
<1>10. zones # <<>>
  <2>1. MoveArgs.from[2] \in DOMAIN zones
    BY <1>5, MoveIsLegal
  <2> QED BY <2>1
<1>11. Sound(game, order, new)
  BY <1>6, <1>9, <1>10 DEF Sound, HasPiles, Cards, Plan
<1> QED BY <1>1, <1>2, <1>3, <1>4, <1>8, <1>11, Carries

LEMMA BranchKeeps == MachineInv /\ TakeBranch => MachineInv'
<1> SUFFICES ASSUME MachineInv, TakeBranch PROVE MachineInv'
  OBVIOUS
<1>1. PICK v : v = Resolve(NodeAt.value, st)
  OBVIOUS
<1>2. NodeAt.kind = "branch" /\ pc' = Target(NodeAt, v) /\ zones' = zones
  BY <1>1 DEF TakeBranch
<1>3. Stays
  BY DEF TakeBranch, Running, Walks, Stays
<1>4. game \in Games /\ pc \in Nodes(game) /\ NodeAt = NodeOf(game, pc) /\ Sound(game, order, zones)
  BY DEF MachineInv, NodeAt, Plan, NodeOf
<1>5. pc' \in {NodeAt.next} \cup Range(NodeAt.cases)
  BY <1>2 DEF Target, Range
<1>6. pc' \in Leads(NodeOf(game, pc))
  BY <1>2, <1>4, <1>5, BranchLeads
<1>7. pc' \in Nodes(game) /\ ~ SetsTable(NodeOf(game, pc'))
  BY <1>2, <1>4, <1>6, WayIn DEF DealsCards
<1> QED BY <1>2, <1>3, <1>4, <1>7, Carries DEF JustDealt

LEMMA StopKeeps ==
    ASSUME NEW kind, NEW to, <<kind, to>> \in {<<"wait", "waiting">>, <<"end", "over">>},
           MachineInv, Stop(kind, to)
    PROVE  MachineInv'
<1>1. /\ mode' = to /\ NodeAt.kind = kind
      /\ game' = game /\ order' = order /\ zones' = zones /\ st' = st /\ pc' = pc
  BY DEF Stop
<1>2. NodeAt = NodeOf(game, pc) /\ pc \in Nodes(game) /\ Sound(game, order, zones)
  BY DEF MachineInv, NodeAt, Plan, NodeOf
<1>3. ~ SetsTable(NodeOf(game, pc))
  BY <1>1, <1>2 DEF SetsTable
<1>4. PICK h : h = [zones |-> zones, st |-> st, pc |-> pc, mode |-> to]
  OBVIOUS
<1>5. h.zones = zones /\ h.st = st /\ h.pc = pc /\ h.mode = to
  BY <1>4
<1>6. Rests(game, order, h)
  BY <1>1, <1>2, <1>3, <1>4, <1>5 DEF Rests
<1>7. Held' = h
  BY <1>1, <1>4 DEF Held
<1> QED BY <1>1, <1>2, <1>6, <1>7 DEF MachineInv

LEMMA AbortKeeps == MachineInv /\ Abort => MachineInv' /\ Accepted' = Accepted
<1> SUFFICES ASSUME MachineInv, Abort PROVE MachineInv' /\ Accepted' = Accepted
  OBVIOUS
<1>1. /\ mode = "running" /\ game' = game /\ order' = order
      /\ zones' = backup.zones /\ st' = backup.st /\ pc' = backup.pc /\ mode' = backup.mode
  BY DEF Abort
<1>2. Rests(game, order, backup)
  BY <1>1 DEF MachineInv
<1>3. Held' = backup
  BY <1>1, <1>2 DEF Rests, Held
<1>4. mode' # "running" /\ pc' \in Nodes(game) /\ Sound(game, order, zones')
  BY <1>1, <1>2 DEF Rests
<1> QED BY <1>1, <1>2, <1>3, <1>4 DEF MachineInv, Accepted

LEMMA StutterKeeps == MachineInv /\ UNCHANGED vars => MachineInv'
<1> SUFFICES ASSUME MachineInv, UNCHANGED vars PROVE MachineInv'
  OBVIOUS
<1>1. Held' = Held
  BY DEF vars, Held
<1> QED BY <1>1 DEF MachineInv, vars

-----------------------------------------------------------------------------
(* The machine, for every plan *)

THEOREM MachineInvariance == Spec => []MachineInv
<1>1. MachineInv /\ [Next]_vars => MachineInv'
  <2> SUFFICES ASSUME MachineInv, [Next]_vars PROVE MachineInv'
    OBVIOUS
  <2>1. CASE Setup
    BY <2>1, SetupKeeps
  <2>2. CASE Play
    BY <2>2, StepKeeps DEF Play
  <2>3. CASE Advance
    <3>1. CASE WaitForInput \/ EndGame
      BY <3>1, StopKeeps DEF WaitForInput, EndGame
    <3>2. CASE Read \/ Write \/ MoveCall \/ TakeBranch \/ Abort
      BY <3>2, ReadKeeps, WriteKeeps, MoveCallKeeps, BranchKeeps, AbortKeeps
    <3> QED BY <2>3, <3>1, <3>2 DEF Advance
  <2>4. CASE UNCHANGED vars
    BY <2>4, StutterKeeps
  <2> QED BY <2>1, <2>2, <2>3, <2>4 DEF Next
<1> QED BY <1>1, MachineInit, PTL DEF Spec

(* No card lies in two zones, or twice in one, at any node of any plan: not *)
(* while a step is carried out, and not after it was refused either         *)
(* (zones.py, one owner per card).                                          *)
THEOREM CardsHaveOneHome == Spec => []OneHome
<1>1. MachineInv => OneHome
  BY DEF MachineInv, Sound, OneHome
<1> QED BY <1>1, MachineInvariance, PTL

(* The cards on the table are those that a deal of the plan has put there:  *)
(* no call and no refusal loses a card or brings in another.                *)
CardsOfTheDeal ==
  zones # <<>> =>
    \E w, n \in Nodes(game) :
       /\ SetsTable(NodeOf(game, w)) /\ w \in Leads(NodeOf(game, n))
       /\ CardsIn(zones) = CardsIn(Dealt(order, NodeOf(game, n).args, TableOfNode(NodeOf(game, w))))
THEOREM NoCardIsLost == Spec => []CardsOfTheDeal
<1>1. MachineInv => CardsOfTheDeal
  BY DEF MachineInv, Sound, CardsOfTheDeal
<1> QED BY <1>1, MachineInvariance, PTL

(* What a step does shows only once the whole of it is accepted, at a wait  *)
(* or at the end: nothing of a refused setup or step is left behind, not    *)
(* even of the calls carried out before the refusal (interpreter.py, setup  *)
(* and step restore the copy they took).                                    *)
OnlyWholeSteps == Accepted' # Accepted => WaitForInput \/ EndGame
THEOREM StepsAreWhole == Spec => [][OnlyWholeSteps]_vars
<1>1. MachineInv /\ [Next]_vars => [OnlyWholeSteps]_vars
  <2> SUFFICES ASSUME MachineInv, [Next]_vars, ~ (WaitForInput \/ EndGame)
               PROVE  Accepted' = Accepted
    BY DEF OnlyWholeSteps
  <2>1. CASE Setup
    BY <2>1 DEF Setup, Begin, Accepted
  <2>2. CASE Play
    <3>1. PICK action, payload : Step(action, payload)
      BY <2>2 DEF Play
    <3> QED BY <3>1 DEF Step, Begin, Accepted
  <2>3. CASE Advance
    <3>1. CASE Read \/ Write \/ MoveCall \/ TakeBranch
      BY <3>1 DEF Read, Write, MoveCall, TakeBranch, Calls, Running, Walks, Accepted
    <3>2. CASE Abort
      BY <3>2, AbortKeeps
    <3> QED BY <2>3, <3>1, <3>2 DEF Advance
  <2>4. CASE UNCHANGED vars
    BY <2>4 DEF vars, Accepted, Held
  <2> QED BY <2>1, <2>2, <2>3, <2>4 DEF Next
<1> QED BY <1>1, MachineInvariance, PTL DEF Spec

-----------------------------------------------------------------------------
(* What a plan calls.  Every line of a plan is fine: the operation of its   *)
(* call is one that the rule is derived to need.                            *)

\* The first place of a list of lists is walked like any other.
Joins(f, seqs, i) == IF i = 1 THEN seqs[i] ELSE f[i - 1] \o seqs[i]

LEMMA JoinsExist ==
    ASSUME NEW seqs
    PROVE  \A n \in Nat : \E f : f = [i \in 1 .. n |-> Joins(f, seqs, i)]
<1> DEFINE T == {n \in Nat : ~ \E f : f = [i \in 1 .. n |-> Joins(f, seqs, i)]}
<1> SUFFICES ASSUME T # {} PROVE FALSE
  OBVIOUS
<1>1. PICK m \in T : \A n \in 0 .. m - 1 : n \notin T
  BY FirstOne
<1>2. m \in Nat
  OBVIOUS
<1>3. CASE m = 0
  <2>1. PICK f : f = [i \in {} |-> 0]
    OBVIOUS
  <2>2. f = [i \in 1 .. 0 |-> Joins(f, seqs, i)]
    BY <2>1
  <2> QED BY <1>3, <2>2
<1>4. CASE m # 0
  <2>1. m - 1 \in 0 .. m - 1 /\ m - 1 \in Nat
    BY <1>2, <1>4
  <2>2. PICK f : f = [i \in 1 .. m - 1 |-> Joins(f, seqs, i)]
    BY <1>1, <2>1
  <2>3. PICK g : g = [i \in 1 .. m |-> Joins(f, seqs, i)]
    OBVIOUS
  <2>4. \A i \in 1 .. m - 1 : g[i] = f[i]
    BY <1>2, <2>2, <2>3
  <2>5. ASSUME NEW i \in 1 .. m
        PROVE  Joins(f, seqs, i) = Joins(g, seqs, i)
    <3>1. i = 1 \/ i - 1 \in 1 .. m - 1
      BY <1>2
    <3> QED BY <2>4, <3>1 DEF Joins
  <2>6. g = [i \in 1 .. m |-> Joins(g, seqs, i)]
    BY <2>3, <2>5
  <2> QED BY <2>6
<1> QED BY <1>3, <1>4

\* The lists of a list, one after the other, are a list of the same things.
LEMMA FlatOfLists ==
    ASSUME NEW S, NEW seqs \in Seq(Seq(S))
    PROVE  FlattenSeq(seqs) \in Seq(S)
<1> DEFINE n == Len(seqs)
<1>1. n \in Nat /\ \A i \in 1 .. n : seqs[i] \in Seq(S)
  OBVIOUS
<1> HIDE DEF n
<1>2. CASE n = 0
  <2>1. seqs = <<>> /\ Len(seqs) = 0
    BY <1>2 DEF n
  <2> QED BY <2>1 DEF FlattenSeq
<1>3. CASE n # 0
  <2> DEFINE F == CHOOSE f : f = [i \in 1 .. n |-> Joins(f, seqs, i)]
  <2>1. F = [i \in 1 .. n |-> Joins(F, seqs, i)]
    BY <1>1, JoinsExist
  <2>2. FlattenSeq(seqs) = F[n]
    BY <1>3 DEF FlattenSeq, Joins, n
  <2> HIDE DEF F
  <2> DEFINE T == {i \in 1 .. n : F[i] \notin Seq(S)}
  <2>3. ASSUME T # {} PROVE FALSE
    <3>1. PICK m \in T : \A i \in 0 .. m - 1 : i \notin T
      <4>1. T \subseteq Nat
        BY <1>1
      <4> HIDE DEF T
      <4> QED BY <2>3, <4>1, FirstOne
    <3>2. m \in 1 .. n /\ F[m] \notin Seq(S) /\ F[m] = Joins(F, seqs, m)
      BY <2>1
    <3>3. seqs[m] \in Seq(S)
      BY <1>1, <3>2
    <3>4. CASE m = 1
      BY <3>2, <3>3, <3>4 DEF Joins
    <3>5. CASE m # 1
      <4>1. m - 1 \in 1 .. n /\ m - 1 \in 0 .. m - 1
        BY <1>1, <3>2, <3>5
      <4>2. F[m - 1] \in Seq(S)
        BY <3>1, <4>1
      <4>3. F[m - 1] \o seqs[m] \in Seq(S)
        BY <3>3, <4>2
      <4> QED BY <3>2, <3>5, <4>3 DEF Joins
    <3> QED BY <3>4, <3>5
  <2>4. n \in 1 .. n
    BY <1>1, <1>3
  <2> QED BY <2>2, <2>3, <2>4
<1> QED BY <1>2, <1>3

\* The leaves of a guard that read a zone.
ZoneLeaves(e) == {n \in Parts(e) : n.op \in GuardOnly}

\* A condition that the validators accept, as the schema reads it.
Readable(e) == ~ TooDeep(e) /\ \A t \in Parts(e) : IsList(Children(t))

LEMMA ReadableEnds ==
    ASSUME NEW e, Readable(e)
    PROVE  /\ EvaluationDepth \in Nat
           /\ Gathering!Levelled(Parts(e), Levels(e), EvaluationDepth)
           /\ e \in Parts(e)
           /\ \A t \in Parts(e) : \A i \in DOMAIN Children(t) : Children(t)[i] \in Parts(e)
<1>1. EvaluationDepth \in Nat /\ MaxExprDepth \in 0 .. EvaluationDepth
  BY MaxExprDepthAssumption
<1>2. Typing!Levels(e, EvaluationDepth)[MaxExprDepth] = {}
  BY DEF Readable, TooDeep, Levels
<1>3. Typing!Levels(e, EvaluationDepth)[EvaluationDepth] = {}
  BY <1>1, <1>2, Typing!NothingBelow
<1>4. Typing!Levelled(Parts(e), Levels(e), EvaluationDepth)
  BY <1>1, <1>3, Typing!PartsAreLevelled DEF Parts, Levels
<1>5. /\ e \in Parts(e)
      /\ \A t \in Parts(e) : \A i \in DOMAIN Children(t) : Children(t)[i] \in Parts(e)
  BY <1>1, <1>3, Typing!PartsAreClosed DEF Parts
<1> QED BY <1>1, <1>4, <1>5 DEF Typing!Levelled, Gathering!Levelled

\* What the guard builder gathers are such leaves.
LEMMA LeavesAreParts ==
    ASSUME NEW e, Readable(e)
    PROVE  LeavesOf(e) \in Seq(ZoneLeaves(e))
<1> DEFINE F == Gathering!Fold(Parts(e), {})
           T == {t \in Parts(e) : F[t] \notin Seq(ZoneLeaves(e))}
<1>1. F = [t \in Parts(e) |-> LeafRule(t, [i \in DOMAIN Children(t) |-> F[Children(t)[i]]], {})]
  BY ReadableEnds, Gathering!FoldIs
<1> HIDE DEF F
<1>2. ASSUME NEW t \in T
      PROVE  \E i \in DOMAIN Children(t) : Children(t)[i] \in T
  <2> SUFFICES ASSUME \A i \in DOMAIN Children(t) : Children(t)[i] \notin T PROVE FALSE
    OBVIOUS
  <2>1. t \in Parts(e) /\ F[t] \notin Seq(ZoneLeaves(e))
    OBVIOUS
  <2>2. PICK of : of = [i \in DOMAIN Children(t) |-> F[Children(t)[i]]]
    OBVIOUS
  <2>3. F[t] = LeafRule(t, of, {})
    BY <1>1, <2>1, <2>2
  <2>4. CASE t.op \in GuardOnly
    <3>1. t \in ZoneLeaves(e)
      BY <2>1, <2>4 DEF ZoneLeaves
    <3>2. <<t>> \in Seq(ZoneLeaves(e))
      BY <3>1
    <3> QED BY <2>1, <2>3, <2>4, <3>2 DEF LeafRule
  <2>5. CASE t.op \notin GuardOnly
    <3>1. \A i \in DOMAIN Children(t) : F[Children(t)[i]] \in Seq(ZoneLeaves(e))
      BY <2>1, ReadableEnds
    <3>2. Children(t) \in Seq(Range(Children(t)))
      BY <2>1 DEF Readable, IsList
    <3>3. of \in Seq(Seq(ZoneLeaves(e)))
      <4>1. PICK n \in Nat : DOMAIN Children(t) = 1 .. n
        BY <3>2
      <4>2. of \in [1 .. n -> Seq(ZoneLeaves(e))]
        BY <2>2, <3>1, <4>1
      <4> QED BY <4>2
    <3>4. FlattenSeq(of) \in Seq(ZoneLeaves(e))
      BY <3>3, FlatOfLists
    <3> QED BY <2>1, <2>3, <2>5, <3>4 DEF LeafRule
  <2> QED BY <2>4, <2>5
<1>3. T = {}
  <2>1. T \subseteq Parts(e)
    OBVIOUS
  <2> HIDE DEF T
  <2> QED BY <1>2, <2>1, ReadableEnds, Gathering!NoEndlessDescent
<1>4. F[e] \in Seq(ZoneLeaves(e))
  BY <1>3, ReadableEnds
<1> QED BY <1>4 DEF LeavesOf, F

\* A node that is no call, or calls one of some operations; lines of such nodes.
Allows(O, node) == node.kind = "call" => node.op \in O
OnlyCalls(O, lines) == \A l \in lines : Allows(O, l[2])

LEMMA CallAllowed ==
    ASSUME NEW O, NEW op \in O, NEW args, NEW key, NEW next
    PROVE  Allows(O, Call(op, args, key, next))
BY DEF Allows, Call

LEMMA PlainAllowed ==
    ASSUME NEW O, AlwaysOperations \subseteq O
    PROVE  /\ \A v, key, next : Allows(O, EvalNode(v, key, next))
           /\ \A v, next : Allows(O, Update(v, next))
           /\ \A v, points, next : Allows(O, Settle(v, points, next))
<1>1. "logic.evaluate" \in O /\ "state.update" \in O /\ "score_settle.call" \in O
  BY DEF AlwaysOperations
<1> QED BY <1>1 DEF Allows, EvalNode, Update, Settle, Call

LEMMA MovesAllowed ==
    ASSUME NEW O, "zones.move" \in O
    PROVE  /\ \A from, to, ids, least, most, next : Allows(O, MoveCards(from, to, ids, least, most, next))
           /\ \A from, to, key, next : Allows(O, MoveOne(from, to, key, next))
BY DEF Allows, MoveOne, MoveCards, Call

LEMMA OthersAllowed ==
    ASSUME NEW O
    PROVE  /\ \A path, cases, next : Allows(O, Branch(path, cases, next))
           /\ \A key, target, next : Allows(O, IfTrue(key, target, next))
           /\ \A action, target : Allows(O, Wait(action, target))
           /\ Allows(O, EndNode)
BY DEF Allows, IfTrue, Branch, Wait, EndNode

LEMMA OneLine ==
    ASSUME NEW O, NEW id, NEW node, Allows(O, node)
    PROVE  OnlyCalls(O, {<<id, node>>})
BY DEF OnlyCalls

LEMMA ManyLines ==
    ASSUME NEW O, NEW A, NEW B
    PROVE  OnlyCalls(O, A \cup B) <=> OnlyCalls(O, A) /\ OnlyCalls(O, B)
BY DEF OnlyCalls

LEMMA LinesOfLines ==
    ASSUME NEW O, NEW U, \A A \in U : OnlyCalls(O, A)
    PROVE  OnlyCalls(O, UNION U)
BY DEF OnlyCalls

LEMMA CountLeafCalls ==
    ASSUME NEW O, "zones.count_zone" \in O, NEW r, NEW zone, NEW n, NEW next
    PROVE  OnlyCalls(O, CountLeaf(r, zone, n, next))
BY CallAllowed, OneLine DEF CountLeaf

LEMMA TopLeafCalls ==
    ASSUME NEW O, AlwaysOperations \subseteq O, {"zones.count_zone", "zones.top"} \subseteq O,
           NEW r, NEW zone, NEW n, NEW next
    PROVE  OnlyCalls(O, TopLeaf(r, zone, n, next))
<1>1. OnlyCalls(O, CountLeaf(r, zone, n, G(n, "has")))
  BY CountLeafCalls
<1>2. \A args, key, after : Allows(O, Call("zones.top", args, key, after))
  BY CallAllowed
<1>3. /\ \A v, key, after : Allows(O, EvalNode(v, key, after))
      /\ \A v, after : Allows(O, Update(v, after))
      /\ \A key, target, after : Allows(O, IfTrue(key, target, after))
  BY PlainAllowed, OthersAllowed
<1> QED BY <1>1, <1>2, <1>3 DEF OnlyCalls, TopLeaf

LEMMA MatchLeafCalls ==
    ASSUME NEW O, AlwaysOperations \subseteq O, {"zones.cards", "pattern.choices"} \subseteq O,
           NEW r, NEW zone, NEW topZone, NEW n, NEW next
    PROVE  OnlyCalls(O, MatchLeaf(r, zone, topZone, n, next))
<1>1. \A args, key, after : /\ Allows(O, Call("zones.cards", args, key, after))
                            /\ Allows(O, Call("pattern.choices", args, key, after))
  BY CallAllowed
<1> QED BY <1>1, PlainAllowed DEF OnlyCalls, MatchLeaf

LEMMA LeafCalls ==
    ASSUME NEW O, AlwaysOperations \subseteq O, NEW leaf, leaf.op \in GuardOnly, LeafMechanisms(leaf) \subseteq O,
           NEW r, NEW n, NEW next
    PROVE  OnlyCalls(O, LeafNodes(r, leaf, n, next))
<1>1. CASE leaf.op = "zone_count"
  <2>1. LeafNodes(r, leaf, n, next) = CountLeaf(r, leaf.zone, n, next) /\ "zones.count_zone" \in O
    BY <1>1 DEF LeafNodes, LeafMechanisms
  <2> QED BY <2>1, CountLeafCalls
<1>2. CASE leaf.op = "top"
  <2>1. LeafNodes(r, leaf, n, next) = TopLeaf(r, leaf.zone, n, next) /\ {"zones.count_zone", "zones.top"} \subseteq O
    BY <1>2 DEF LeafNodes, LeafMechanisms
  <2> QED BY <2>1, TopLeafCalls
<1>3. CASE leaf.op = "has_match"
  <2>1. /\ LeafNodes(r, leaf, n, next) = MatchLeaf(r, leaf.zone, leaf.top.zone, n, next)
        /\ {"zones.cards", "pattern.choices"} \subseteq O
    BY <1>3 DEF LeafNodes, LeafMechanisms
  <2> QED BY <2>1, MatchLeafCalls
<1> QED BY <1>1, <1>2, <1>3 DEF GuardOnly

\* A guard calls what the static pass over its tree says.
LEMMA GuardCalls ==
    ASSUME NEW O, AlwaysOperations \subseteq O, NEW e, Readable(e), GuardMechanisms(e) \subseteq O,
           NEW r, NEW n, NEW plain, NEW key, NEW next
    PROVE  OnlyCalls(O, GuardNodes(r, e, n, plain, key, next))
<1>1. PICK leaves : leaves = LeavesOf(e)
  OBVIOUS
<1>2. ASSUME NEW k \in DOMAIN leaves, NEW m, NEW after
      PROVE  OnlyCalls(O, LeafNodes(r, leaves[k], m, after))
  <2>1. leaves[k] \in ZoneLeaves(e)
    BY <1>1, LeavesAreParts
  <2>2. leaves[k].op \in GuardOnly /\ LeafMechanisms(leaves[k]) \subseteq O
    BY <2>1 DEF ZoneLeaves, GuardMechanisms
  <2> QED BY <2>2, LeafCalls
<1> DEFINE After(k) == IF k = Len(leaves) THEN GuardEnd(e, n, plain) ELSE LeafEntry(leaves[k + 1], n + k + 1)
           Pieces == {LeafNodes(r, leaves[k], n + k, After(k)) : k \in DOMAIN leaves}
<1>3. OnlyCalls(O, UNION Pieces)
  <2>1. \A A \in Pieces : OnlyCalls(O, A)
    BY <1>2
  <2> HIDE DEF Pieces
  <2> QED BY <2>1, LinesOfLines
<1>4. OnlyCalls(O, {<<GuardEnd(e, n, plain), EvalNode(GuardPayload(e, n + 1), key, next)>>})
  BY PlainAllowed, OneLine
<1>5. GuardNodes(r, e, n, plain, key, next)
        = {<<GuardEnd(e, n, plain), EvalNode(GuardPayload(e, n + 1), key, next)>>} \cup UNION Pieces
  BY <1>1 DEF GuardNodes
<1> HIDE DEF Pieces, After
<1> QED BY <1>3, <1>4, <1>5, ManyLines

-----------------------------------------------------------------------------
(* The effects of an action *)

LEMMA SelectCalls ==
    ASSUME NEW O, NEW r, NEW a, NEW i, NEW e, NEW next,
           (IF e.match_top # "" THEN "zones.select_matching" ELSE "zones.select") \in O
    PROVE  OnlyCalls(O, SelectNodes(r, a, i, e, next))
<1>1. CASE e.match_top = ""
  BY <1>1, CallAllowed, OneLine DEF SelectNodes
<1>2. CASE e.match_top # ""
  BY <1>2, CallAllowed, OneLine DEF SelectNodes
<1> QED BY <1>1, <1>2

LEMMA MoveCalls ==
    ASSUME NEW O, "zones.move" \in O, NEW r, NEW a, NEW i, NEW e, NEW next
    PROVE  OnlyCalls(O, MoveNodes(r, a, i, e, next))
<1>1. \A from, to, ids, least, most : Allows(O, MoveCards(from, to, ids, least, most, next))
  BY MovesAllowed
<1> QED BY <1>1 DEF OnlyCalls, MoveNodes

LEMMA AssignCalls ==
    ASSUME NEW O, AlwaysOperations \subseteq O, NEW a, NEW i, NEW e, NEW next
    PROVE  OnlyCalls(O, AssignNodes(a, i, e, next))
<1>1. \A v, key, after : Allows(O, EvalNode(v, key, after)) /\ Allows(O, Update(v, after))
  BY PlainAllowed
<1> QED BY <1>1 DEF OnlyCalls, AssignNodes

LEMMA RemovePairsCalls ==
    ASSUME NEW O, AlwaysOperations \subseteq O, {"zones.select_duplicates", "zones.move"} \subseteq O,
           NEW r, NEW a, NEW i, NEW e, NEW next
    PROVE  OnlyCalls(O, RemovePairsNodes(r, a, i, e, next))
<1>1. /\ \A v, key, after : Allows(O, EvalNode(v, key, after))
      /\ \A v, points, after : Allows(O, Settle(v, points, after))
  BY PlainAllowed
<1>2. \A args, key, after : Allows(O, Call("zones.select_duplicates", args, key, after))
  BY CallAllowed
<1>3. \A found, after : Allows(O, MoveGroups(r, e, found, after))
  BY MovesAllowed DEF MoveGroups
<1> QED BY <1>1, <1>2, <1>3 DEF OnlyCalls, RemovePairsNodes

LEMMA TakeTopCalls ==
    ASSUME NEW O, AlwaysOperations \subseteq O, {"zones.top", "zones.move"} \subseteq O,
           NEW r, NEW a, NEW i, NEW e, NEW what, NEW step, NEW test, NEW after
    PROVE  OnlyCalls(O, TakeTop(r, a, i, e, what, step, test, after))
<1>1. /\ \A v, key, next : Allows(O, EvalNode(v, key, next))
      /\ \A key, target, next : Allows(O, IfTrue(key, target, next))
  BY PlainAllowed, OthersAllowed
<1>2. \A args, key, next : Allows(O, Call("zones.top", args, key, next))
  BY CallAllowed
<1>3. \A from, to, key, next : Allows(O, MoveOne(from, to, key, next))
  BY MovesAllowed
<1> QED BY <1>1, <1>2, <1>3 DEF OnlyCalls, TakeTop

LEMMA RefillCalls ==
    ASSUME NEW O, AlwaysOperations \subseteq O, {"zones.count_zone", "zones.top", "zones.move"} \subseteq O,
           NEW r, NEW a, NEW i, NEW e, NEW next
    PROVE  OnlyCalls(O, RefillNodes(r, a, i, e, next))
<1>1. ASSUME NEW step PROVE OnlyCalls(O, RefillStep(r, a, i, e, step))
  <2>1. \A test, after : OnlyCalls(O, TakeTop(r, a, i, e, "refill", step, test, after))
    BY TakeTopCalls
  <2>2. \A args, key, after : Allows(O, Call("zones.count_zone", args, key, after))
    BY CallAllowed
  <2> QED BY <2>1, <2>2 DEF OnlyCalls, RefillStep
<1>2. PICK steps : steps = UNION {RefillStep(r, a, i, e, n - 1) : n \in 1 .. e.max_draw}
  OBVIOUS
<1>3. OnlyCalls(O, steps)
  BY <1>1, <1>2 DEF OnlyCalls
<1>4. PICK done : done = <<ActNode(a, i, "refill_done"), Update(<<>>, next)>>
  OBVIOUS
<1>5. OnlyCalls(O, {done})
  BY <1>4, PlainAllowed, OneLine
<1>6. RefillNodes(r, a, i, e, next) = {done} \cup steps
  BY <1>2, <1>4 DEF RefillNodes
<1> QED BY <1>3, <1>5, <1>6, ManyLines

LEMMA DrawCalls ==
    ASSUME NEW O, AlwaysOperations \subseteq O, {"zones.count_zone", "zones.top", "zones.move"} \subseteq O,
           NEW r, NEW a, NEW i, NEW e, NEW next
    PROVE  OnlyCalls(O, DrawNodes(r, a, i, e, next))
<1>1. ASSUME NEW step PROVE OnlyCalls(O, DrawStep(r, a, i, e, step))
  <2>1. \A test, after : OnlyCalls(O, TakeTop(r, a, i, e, "draw", step, test, after))
    BY TakeTopCalls
  <2>2. \A args, key, after : Allows(O, Call("zones.count_zone", args, key, after))
    BY CallAllowed
  <2> QED BY <2>1, <2>2 DEF OnlyCalls, DrawStep
<1>2. PICK steps : steps = UNION {DrawStep(r, a, i, e, n - 1) : n \in 1 .. e.count}
  OBVIOUS
<1>3. OnlyCalls(O, steps)
  BY <1>1, <1>2 DEF OnlyCalls
<1>4. PICK done : done = <<ActNode(a, i, "draw_done"), Update(<<>>, next)>>
  OBVIOUS
<1>5. OnlyCalls(O, {done})
  BY <1>4, PlainAllowed, OneLine
<1>6. DrawNodes(r, a, i, e, next) = {done} \cup steps
  BY <1>2, <1>4 DEF DrawNodes
<1> QED BY <1>3, <1>5, <1>6, ManyLines

LEMMA ScoreTopCalls ==
    ASSUME NEW O, AlwaysOperations \subseteq O, "zones.top" \in O, NEW r, NEW a, NEW i, NEW e, NEW next
    PROVE  OnlyCalls(O, ScoreTopNodes(r, a, i, e, next))
<1>1. /\ \A v, points, after : Allows(O, Settle(v, points, after))
      /\ \A path, cases, after : Allows(O, Branch(path, cases, after))
  BY PlainAllowed, OthersAllowed
<1>2. \A args, key, after : Allows(O, Call("zones.top", args, key, after))
  BY CallAllowed
<1> DEFINE card == "score_card_" \o a \o "_" \o Num(i - 1)
           Award(k) == ActNode(a, i, "score_" \o k)
<1>3. PICK cases : cases = [v \in {StrV(<<k>>) : k \in DOMAIN e.points} |-> Award(v[2][1])]
  OBVIOUS
<1>4. PICK awards : awards = {<<Award(k), Settle(At("current_player"), IntV(e.points[k]), next)>> : k \in DOMAIN e.points}
  OBVIOUS
<1>5. OnlyCalls(O, awards)
  BY <1>1, <1>4 DEF OnlyCalls
<1>6. PICK reads : reads = <<ActNode(a, i, "score_top"),
                             Call("zones.top", [zone |-> ZoneArg(r, e.zone)], card, ActNode(a, i, "score_branch"))>>
  OBVIOUS
<1>7. PICK chooses : chooses = <<ActNode(a, i, "score_branch"), Branch(Path(<<card, e.by>>), cases, next)>>
  OBVIOUS
<1>8. OnlyCalls(O, {reads}) /\ OnlyCalls(O, {chooses})
  BY <1>1, <1>2, <1>6, <1>7, OneLine
<1>9. ScoreTopNodes(r, a, i, e, next) = {reads, chooses} \cup awards
  BY <1>3, <1>4, <1>6, <1>7 DEF ScoreTopNodes
<1> QED BY <1>5, <1>8, <1>9 DEF OnlyCalls

\* An effect is lowered to calls of the operations it is derived to need.
LEMMA EffectCalls ==
    ASSUME NEW O, AlwaysOperations \subseteq O, NEW r, NEW a, NEW i, NEW next,
           EffectOperations(r.actions[a].effects[i]) \subseteq O
    PROVE  OnlyCalls(O, EffectNodes(r, a, i, next))
<1>1. PICK e : e = r.actions[a].effects[i]
  OBVIOUS
<1>2. CASE e.kind = "select"
  <2>1. EffectNodes(r, a, i, next) = SelectNodes(r, a, i, e, next)
    BY <1>1, <1>2 DEF EffectNodes
  <2>2. (IF e.match_top # "" THEN "zones.select_matching" ELSE "zones.select") \in O
    BY <1>1, <1>2 DEF EffectOperations
  <2> QED BY <2>1, <2>2, SelectCalls
<1>3. CASE e.kind = "move"
  <2>1. EffectNodes(r, a, i, next) = MoveNodes(r, a, i, e, next) /\ "zones.move" \in O
    BY <1>1, <1>3 DEF EffectNodes, EffectOperations
  <2> QED BY <2>1, MoveCalls
<1>4. CASE e.kind = "assign"
  <2>1. EffectNodes(r, a, i, next) = AssignNodes(a, i, e, next)
    BY <1>1, <1>4 DEF EffectNodes
  <2> QED BY <2>1, AssignCalls
<1>5. CASE e.kind = "remove_pairs"
  <2>1. /\ EffectNodes(r, a, i, next) = RemovePairsNodes(r, a, i, e, next)
        /\ {"zones.select_duplicates", "zones.move"} \subseteq O
    BY <1>1, <1>5 DEF EffectNodes, EffectOperations
  <2> QED BY <2>1, RemovePairsCalls
<1>6. CASE e.kind = "refill"
  <2>1. /\ EffectNodes(r, a, i, next) = RefillNodes(r, a, i, e, next)
        /\ {"zones.count_zone", "zones.top", "zones.move"} \subseteq O
    BY <1>1, <1>6 DEF EffectNodes, EffectOperations
  <2> QED BY <2>1, RefillCalls
<1>7. CASE e.kind = "draw"
  <2>1. /\ EffectNodes(r, a, i, next) = DrawNodes(r, a, i, e, next)
        /\ {"zones.count_zone", "zones.top", "zones.move"} \subseteq O
    BY <1>1, <1>7 DEF EffectNodes, EffectOperations
  <2> QED BY <2>1, DrawCalls
<1>8. CASE e.kind = "score_top"
  <2>1. EffectNodes(r, a, i, next) = ScoreTopNodes(r, a, i, e, next) /\ "zones.top" \in O
    BY <1>1, <1>8 DEF EffectNodes, EffectOperations
  <2> QED BY <2>1, ScoreTopCalls
<1>9. CASE e.kind \notin {"select", "move", "assign", "remove_pairs", "refill", "draw", "score_top"}
  <2>1. EffectNodes(r, a, i, next) = {}
    BY <1>1, <1>9 DEF EffectNodes
  <2> QED BY <2>1 DEF OnlyCalls
<1> QED BY <1>2, <1>3, <1>4, <1>5, <1>6, <1>7, <1>8, <1>9

-----------------------------------------------------------------------------
(* What a rule is derived to need *)

\* A rule that passes the checks, as the schema reads it.
Proper(r) ==
  /\ Executable(r)
  /\ IsList(r.turn_actions)
  /\ \A a \in DOMAIN r.actions : LET act == r.actions[a] IN
       /\ IsList(act.effects) /\ IsList(act.trigger)
       /\ \A e \in {act.guard} \cup {s.condition : s \in Range(act.trigger)} :
            \A t \in Parts(e) : IsList(Children(t))

LEMMA GamesAreProper ==
    ASSUME NEW g \in Games PROVE Proper(RulesOf[g])
BY CompiledAssumption DEF Proper

LEMMA OfferedActions ==
    ASSUME NEW r, Proper(r)
    PROVE  /\ ActionSequence(r) \in Seq(DOMAIN r.actions)
           /\ Triggered(r) \in Seq(DOMAIN r.actions)
<1>1. ActionSequence(r) \in Seq(Range(ActionSequence(r)))
  <2>1. CASE r.turn_actions # <<>>
    BY <2>1 DEF ActionSequence, Proper, IsList
  <2>2. CASE r.turn_actions = <<>>
    <3>1. ActionSequence(r) = <<r.round_action>>
      BY <2>2 DEF ActionSequence
    <3> QED BY <3>1 DEF Range
  <2> QED BY <2>1, <2>2
<1>2. Range(ActionSequence(r)) \subseteq DOMAIN r.actions
  BY DEF Proper, Executable, FlowOk
<1>3. ActionSequence(r) \in Seq(DOMAIN r.actions)
  BY <1>1, <1>2
<1> QED BY <1>3, WithoutKeeps DEF Triggered

\* The members of two lists, one after the other.
LEMMA BothLists ==
    ASSUME NEW p, NEW q, IsList(p), IsList(q)
    PROVE  Range(p \o q) = Range(p) \cup Range(q)
<1>1. PICK S : S = Range(p) \cup Range(q)
  OBVIOUS
<1>2. p \in Seq(S) /\ q \in Seq(S)
  BY <1>1 DEF IsList
<1> QED BY <1>2, JoinKeeps

LEMMA NeededByAction ==
    ASSUME NEW r, Proper(r), NEW a \in DOMAIN r.actions
    PROVE  /\ r.actions[a].guard # NoExpr =>
                Readable(r.actions[a].guard) /\ GuardMechanisms(r.actions[a].guard) \subseteq Operations(r)
           /\ \A i \in DOMAIN r.actions[a].effects : EffectOperations(r.actions[a].effects[i]) \subseteq Operations(r)
           /\ \A j \in DOMAIN r.actions[a].trigger : r.actions[a].trigger[j].condition # NoExpr =>
                /\ Readable(r.actions[a].trigger[j].condition)
                /\ GuardMechanisms(r.actions[a].trigger[j].condition) \subseteq Operations(r)
<1>1. PICK act : act = r.actions[a]
  OBVIOUS
<1>2. /\ IsList(act.effects) /\ IsList(act.trigger)
      /\ \A t \in Parts(act.guard) : IsList(Children(t))
      /\ \A s \in Range(act.trigger) : \A t \in Parts(s.condition) : IsList(Children(t))
  BY <1>1 DEF Proper
<1>3. ActionOk(r, act)
  BY <1>1 DEF Proper, Executable
<1>4. ActionOperations(act) \subseteq Operations(r)
  BY <1>1 DEF Operations
<1>5. /\ GuardMechanisms(act.guard) \subseteq Operations(r)
      /\ \A e \in Range(act.effects) \cup Range(act.trigger) : EffectOperations(e) \subseteq Operations(r)
  BY <1>2, <1>4, BothLists DEF ActionOperations
<1>6. act.guard # NoExpr => Readable(act.guard)
  BY <1>2, <1>3 DEF ActionOk, GuardAccepted, ValidExpression, Readable
<1>7. \A i \in DOMAIN act.effects : EffectOperations(act.effects[i]) \subseteq Operations(r)
  BY <1>5 DEF Range
<1>8. ASSUME NEW j \in DOMAIN act.trigger, act.trigger[j].condition # NoExpr
      PROVE  /\ Readable(act.trigger[j].condition)
             /\ GuardMechanisms(act.trigger[j].condition) \subseteq Operations(r)
  <2>1. PICK s : s = act.trigger[j] /\ s \in Range(act.trigger)
    BY DEF Range
  <2>2. s.kind = "skip" /\ ~ TooDeep(s.condition)
    BY <1>3, <1>8, <2>1 DEF ActionOk, TriggerOk, GuardAccepted, ValidExpression
  <2>3. EffectOperations(s) = {"state.update"} \cup GuardMechanisms(s.condition)
    BY <2>2 DEF EffectOperations
  <2> QED BY <1>2, <1>5, <2>1, <2>2, <2>3 DEF Readable
<1> QED BY <1>1, <1>5, <1>6, <1>7, <1>8

LEMMA AlwaysNeeded ==
    ASSUME NEW r PROVE AlwaysOperations \subseteq Operations(r)
BY DEF Operations

-----------------------------------------------------------------------------
(* The rest of a plan *)

LEMMA ActionCalls ==
    ASSUME NEW r, Proper(r), NEW a \in DOMAIN r.actions
    PROVE  OnlyCalls(Operations(r), ActionNodes(r, a))
<1> DEFINE last == Len(r.actions[a].effects)
           After(i) == IF i = last THEN "advance_turn" ELSE EffectEntry(r, a, i + 1)
           Pieces == {EffectNodes(r, a, i, After(i)) : i \in 1 .. last}
<1>1. ASSUME NEW i \in 1 .. last PROVE OnlyCalls(Operations(r), EffectNodes(r, a, i, After(i)))
  <2>1. IsList(r.actions[a].effects)
    BY DEF Proper
  <2>2. i \in DOMAIN r.actions[a].effects
    BY <2>1 DEF IsList
  <2>3. EffectOperations(r.actions[a].effects[i]) \subseteq Operations(r)
    BY <2>2, NeededByAction
  <2> HIDE DEF After
  <2> QED BY <2>3, AlwaysNeeded, EffectCalls
<1>2. OnlyCalls(Operations(r), UNION Pieces)
  <2>1. \A A \in Pieces : OnlyCalls(Operations(r), A)
    BY <1>1
  <2> HIDE DEF Pieces
  <2> QED BY <2>1, LinesOfLines
<1>3. ActionNodes(r, a) = UNION Pieces
  BY DEF ActionNodes
<1> HIDE DEF Pieces
<1> QED BY <1>2, <1>3

LEMMA CandidateCalls ==
    ASSUME NEW r, Proper(r), NEW i \in DOMAIN ActionSequence(r)
    PROVE  OnlyCalls(Operations(r), CandidateNodes(r, i))
<1>1. PICK a \in DOMAIN r.actions : a = ActionSequence(r)[i] /\ Guard(r, i) = r.actions[a].guard
  BY OfferedActions DEF Guard
<1>2. PICK offered : offered = {<<WaitId(r, i), Wait(a, ActionEntry(r, a))>>}
  OBVIOUS
<1>3. OnlyCalls(Operations(r), offered)
  BY <1>2, OthersAllowed, OneLine
<1>4. PICK test : test = GuardNodes(r, Guard(r, i), GuardBase(r, i), PlainId(r, i), GuardKey(r, i), GuardBranch(r, i))
  OBVIOUS
<1>5. PICK chosen : chosen = {<<GuardBranch(r, i), IfTrue(GuardKey(r, i), WaitId(r, i), CandidateEntry(r, i + 1))>>}
  OBVIOUS
<1>6. CandidateNodes(r, i) = offered \cup (IF Guard(r, i) = NoExpr THEN {} ELSE test \cup chosen)
  BY <1>1, <1>2, <1>4, <1>5 DEF CandidateNodes
<1>7. OnlyCalls(Operations(r), chosen)
  BY <1>5, OthersAllowed, OneLine
<1>8. Guard(r, i) # NoExpr => OnlyCalls(Operations(r), test)
  BY <1>1, <1>4, AlwaysNeeded, NeededByAction, GuardCalls
<1> QED BY <1>3, <1>6, <1>7, <1>8 DEF OnlyCalls

LEMMA SkipCalls ==
    ASSUME NEW r, Proper(r), NEW a \in DOMAIN r.actions, NEW j \in DOMAIN r.actions[a].trigger
    PROVE  OnlyCalls(Operations(r), SkipNodes(r, a, j))
<1> DEFINE e == r.actions[a].trigger[j]
           next == TriggerStart(r, a, j + 1)
           key == "trig_ok_" \o a \o "_" \o Num(j - 1)
<1>1. PICK sets : sets = {<<TrigNode(a, j, "set"), Update("skip_next" :> IntV(e.count), next)>>}
  OBVIOUS
<1>2. PICK test : test = GuardNodes(r, e.condition, TriggerBase(r, a, j), TrigNode(a, j, "eval"), key, TrigNode(a, j, "branch"))
  OBVIOUS
<1>3. PICK chosen : chosen = {<<TrigNode(a, j, "branch"), IfTrue(key, TrigNode(a, j, "set"), next)>>}
  OBVIOUS
<1>4. SkipNodes(r, a, j) = sets \cup (IF e.condition = NoExpr THEN {} ELSE test \cup chosen)
  BY <1>1, <1>2, <1>3 DEF SkipNodes
<1>5. OnlyCalls(Operations(r), sets) /\ OnlyCalls(Operations(r), chosen)
  BY <1>1, <1>3, AlwaysNeeded, PlainAllowed, OthersAllowed, OneLine
<1>6. e.condition # NoExpr => OnlyCalls(Operations(r), test)
  BY <1>2, AlwaysNeeded, NeededByAction, GuardCalls
<1> QED BY <1>4, <1>5, <1>6 DEF OnlyCalls

LEMMA TriggerCalls ==
    ASSUME NEW r, Proper(r), NEW k \in DOMAIN Triggered(r)
    PROVE  OnlyCalls(Operations(r), TriggerNodes(r, k))
<1>1. PICK a \in DOMAIN r.actions : a = Triggered(r)[k]
  BY OfferedActions
<1> DEFINE key == "trigger_" \o a \o "_hit"
           Skips == {SkipNodes(r, a, j) : j \in DOMAIN r.actions[a].trigger}
<1>2. PICK test : test = <<TriggerEntry(r, k), EvalNode(Payload("eq", <<State(<<"input", "action">>), Const(StrV(<<a>>))>>),
                                                        key, "trigger_" \o a \o "_branch")>>
  OBVIOUS
<1>3. PICK chosen : chosen = <<"trigger_" \o a \o "_branch", IfTrue(key, TriggerStart(r, a, 1), TriggerEntry(r, k + 1))>>
  OBVIOUS
<1>4. TriggerNodes(r, k) = {test, chosen} \cup UNION Skips
  BY <1>1, <1>2, <1>3 DEF TriggerNodes
<1>5. OnlyCalls(Operations(r), {test}) /\ OnlyCalls(Operations(r), {chosen})
  BY <1>2, <1>3, AlwaysNeeded, PlainAllowed, OthersAllowed, OneLine
<1>6. OnlyCalls(Operations(r), UNION Skips)
  <2>1. \A A \in Skips : OnlyCalls(Operations(r), A)
    BY SkipCalls
  <2> HIDE DEF Skips
  <2> QED BY <2>1, LinesOfLines
<1> HIDE DEF Skips
<1> QED BY <1>4, <1>5, <1>6 DEF OnlyCalls

LEMMA CompareCalls ==
    ASSUME NEW O, AlwaysOperations \subseteq O, "rank_compare.call" \in O, NEW r, NEW i, NEW next
    PROVE  OnlyCalls(O, CompareNodes(r, i, next))
<1>1. /\ \A v, points, after : Allows(O, Settle(v, points, after))
      /\ \A path, cases, after : Allows(O, Branch(path, cases, after))
  BY PlainAllowed, OthersAllowed
<1>2. \A args, key, after : Allows(O, Call("rank_compare.call", args, key, after))
  BY CallAllowed
<1> DEFINE e == r.resolve[i]
           n == Num(i - 1)
           key == "cmp_" \o n
           RulesFor(o) == SelectSeq(e.rules, LAMBDA x : r.scoring[x].on_outcome = o)
           Award(o, k) == "resolve_award_" \o n \o "_" \o o \o "_" \o Num(k - 1)
           AwardNode(o, k) ==
             LET rule == r.scoring[RulesFor(o)[k]]
             IN Settle(At(IF rule.recipient = "left" THEN "first_seat" ELSE "second_seat"), IntV(rule.points),
                       IF k = Len(RulesFor(o)) THEN next ELSE Award(o, k + 1))
           Outcomes == {r.scoring[x].on_outcome : x \in Range(e.rules)}
           Position(p) == Path(<<"zones", e.zone, "cards", Num(p)>>)
           Awards == UNION {{<<Award(o, k), AwardNode(o, k)>> : k \in DOMAIN RulesFor(o)} : o \in {"left", "right", "tie"}}
<1>3. \A o, k : Allows(O, AwardNode(o, k))
  BY <1>1
<1>4. OnlyCalls(O, Awards)
  <2> HIDE DEF Award, AwardNode, RulesFor
  <2> QED BY <1>3 DEF OnlyCalls
<1>5. PICK compares : compares = <<"resolve_cmp_" \o n, Call("rank_compare.call", [left |-> Position(e.left), right |-> Position(e.right)],
                                                             key, "resolve_cmp_branch_" \o n)>>
  OBVIOUS
<1>6. PICK chooses : chooses = <<"resolve_cmp_branch_" \o n,
          Branch(Path(<<key, "outcome">>), [v \in {StrV(<<o>>) : o \in Outcomes} |-> Award(v[2][1], 1)], next)>>
  OBVIOUS
<1>7. Allows(O, compares[2]) /\ Allows(O, chooses[2])
  BY <1>1, <1>2, <1>5, <1>6
<1>8. CompareNodes(r, i, next) = {compares, chooses} \cup Awards
  BY <1>5, <1>6 DEF CompareNodes
<1> HIDE DEF Awards
<1> QED BY <1>4, <1>7, <1>8 DEF OnlyCalls

LEMMA FlushCalls ==
    ASSUME NEW O, {"zones.top", "zones.move"} \subseteq O, NEW r, NEW i, NEW next
    PROVE  OnlyCalls(O, FlushNodes(r, i, next))
<1>1. \A from, to, key, after : Allows(O, MoveOne(from, to, key, after))
  BY MovesAllowed
<1>2. \A args, key, after : Allows(O, Call("zones.top", args, key, after))
  BY CallAllowed
<1> DEFINE e == r.resolve[i]
           Id(what, step) == "resolve_" \o what \o "_" \o Num(i - 1) \o "_" \o Num(step - 1)
           key(step) == "t_top_" \o Num(i - 1) \o "_" \o Num(step - 1)
           After(step) == IF step = e.count THEN next ELSE Id("top", step + 1)
           Takes(step) == {<<Id("top", step), Call("zones.top", [zone |-> StrV(<<e.from_zone>>)], key(step), Id("movetop", step))>>}
           Puts(step) == {<<Id("movetop", step), MoveOne(StrV(<<e.from_zone>>), StrV(<<e.to_zone>>), key(step), After(step))>>}
           Pieces == {Takes(step) \cup Puts(step) : step \in 1 .. e.count}
<1>3. \A step : OnlyCalls(O, Takes(step)) /\ OnlyCalls(O, Puts(step))
  BY <1>1, <1>2, OneLine
<1>4. \A step : {<<Id("top", step), Call("zones.top", [zone |-> StrV(<<e.from_zone>>)], key(step), Id("movetop", step))>>,
                 <<Id("movetop", step), MoveOne(StrV(<<e.from_zone>>), StrV(<<e.to_zone>>), key(step), After(step))>>}
                = Takes(step) \cup Puts(step)
  OBVIOUS
<1>5. FlushNodes(r, i, next) = UNION Pieces
  BY <1>4 DEF FlushNodes
<1> HIDE DEF Takes, Puts
<1>6. \A A \in Pieces : OnlyCalls(O, A)
  BY <1>3 DEF OnlyCalls
<1> HIDE DEF Pieces
<1> QED BY <1>5, <1>6, LinesOfLines

LEMMA ResolveCalls ==
    ASSUME NEW r, Proper(r)
    PROVE  OnlyCalls(Operations(r), ResolveNodes(r))
<1> DEFINE Piece(i) == IF r.resolve[i].kind = "compare" THEN CompareNodes(r, i, SegmentEntry(r, i + 1))
                       ELSE FlushNodes(r, i, SegmentEntry(r, i + 1))
           Pieces == {Piece(i) : i \in DOMAIN r.resolve}
<1>1. ASSUME NEW i \in DOMAIN r.resolve PROVE OnlyCalls(Operations(r), Piece(i))
  <2>1. ResolveOk(r, i)
    BY DEF Proper, Executable, FlowOk
  <2>2. EffectOperations(r.resolve[i]) \subseteq Operations(r)
    BY DEF Operations, Range
  <2>3. CASE r.resolve[i].kind = "compare"
    <3>1. "rank_compare.call" \in Operations(r)
      BY <2>2, <2>3 DEF EffectOperations
    <3> QED BY <2>3, <3>1, AlwaysNeeded, CompareCalls
  <2>4. CASE r.resolve[i].kind # "compare"
    <3>1. r.resolve[i].kind = "move_top"
      BY <2>1, <2>4 DEF ResolveOk
    <3>2. {"zones.top", "zones.move"} \subseteq Operations(r)
      BY <2>2, <3>1 DEF EffectOperations
    <3> QED BY <2>4, <3>2, FlushCalls
  <2> QED BY <2>3, <2>4
<1>2. OnlyCalls(Operations(r), UNION Pieces)
  <2>1. \A A \in Pieces : OnlyCalls(Operations(r), A)
    BY <1>1
  <2> HIDE DEF Pieces
  <2> QED BY <2>1, LinesOfLines
<1>3. ResolveNodes(r) = UNION Pieces
  BY DEF ResolveNodes
<1> HIDE DEF Pieces
<1> QED BY <1>2, <1>3

LEMMA SetupCalls ==
    ASSUME NEW O, AlwaysOperations \subseteq O, NEW r
    PROVE  OnlyCalls(O, SetupNodes(r))
<1>1. \A v, key, after : Allows(O, EvalNode(v, key, after)) /\ Allows(O, Update(v, after))
  BY PlainAllowed
<1>2. \A args, key, after : Allows(O, Call("deck.deal", args, key, after))
  BY CallAllowed DEF AlwaysOperations
<1> QED BY <1>1, <1>2 DEF OnlyCalls, SetupNodes

LEMMA GateCalls ==
    ASSUME NEW O, AlwaysOperations \subseteq O, NEW r, NEW prefix, NEW budget, NEW next
    PROVE  OnlyCalls(O, GateNodes(r, prefix, budget, next))
<1>1. /\ \A v, key, after : Allows(O, EvalNode(v, key, after))
      /\ \A key, target, after : Allows(O, IfTrue(key, target, after))
  BY PlainAllowed, OthersAllowed
<1> QED BY <1>1 DEF OnlyCalls, GateNodes

LEMMA RoundCalls ==
    ASSUME NEW O, AlwaysOperations \subseteq O, NEW r
    PROVE  OnlyCalls(O, RoundNodes(r)) /\ OnlyCalls(O, ZoneNodes(r))
<1>1. \A v, key, after : Allows(O, EvalNode(v, key, after)) /\ Allows(O, Update(v, after))
  BY PlainAllowed
<1>2. OnlyCalls(O, RoundNodes(r))
  BY <1>1 DEF OnlyCalls, RoundNodes
<1>3. PICK zs : zs = SortedZones(r)
  OBVIOUS
<1> DEFINE Line(k) == <<ZoneKey(zs[k]), EvalNode(Payload("join", <<Const(StrV(<<zs[k] \o "-">>)), StateKey("current_player")>>),
                                  ZoneKey(zs[k]), IF k = Len(zs) THEN TurnEntry(r) ELSE ZoneKey(zs[k + 1]))>>
<1>4. \A k : Allows(O, Line(k)[2])
  BY <1>1
<1>5. ZoneNodes(r) = {Line(k) : k \in DOMAIN zs}
  BY <1>3 DEF ZoneNodes
<1> HIDE DEF Line
<1>6. OnlyCalls(O, ZoneNodes(r))
  BY <1>4, <1>5 DEF OnlyCalls
<1> QED BY <1>2, <1>6

LEMMA AfterTurnCalls ==
    ASSUME NEW O, AlwaysOperations \subseteq O, NEW r
    PROVE  OnlyCalls(O, AfterTurnNodes(r))
<1> DEFINE bump == IF HasTrigger(r) THEN Payload("add", <<Increment("turn_index"), StateKey("skip_next")>>)
                   ELSE Increment("turn_index")
           turn == "turn_index" :> At("next_turn_index") @@ (IF HasTrigger(r) THEN "skip_next" :> IntV(0) ELSE <<>>)
           seat == Payload("mod", <<Payload("add", <<StateKey("first_seat"), StateKey("turn_index")>>), Value(r.players)>>)
           over == Payload("ge", <<StateKey("turn_index"), Value(r.players)>>)
           gate == GateEntry(r, "after_action", TurnBudget(r), TriggerEntry(r, 1))
<1>1. /\ \A v, key, after : Allows(O, EvalNode(v, key, after)) /\ Allows(O, Update(v, after))
      /\ \A key, target, after : Allows(O, IfTrue(key, target, after))
  BY PlainAllowed, OthersAllowed
<1>2. OnlyCalls(O, GateNodes(r, "after_action", TurnBudget(r), TriggerEntry(r, 1)))
  BY GateCalls
<1>3. PICK counts : counts = {<<"advance_turn", EvalNode(Increment("action_count"), "next_action_count", "set_action_count")>>,
                              <<"set_action_count", Update("action_count" :> At("next_action_count"), gate)>>}
  OBVIOUS
<1>4. PICK turns : turns = {<<"bump_turn", EvalNode(bump, "next_turn_index", "set_turn_index")>>,
                            <<"set_turn_index", Update(turn, "turn_check")>>,
                            <<"turn_check", EvalNode(over, "round_done", "turn_check_branch")>>,
                            <<"turn_check_branch", IfTrue("round_done", SegmentEntry(r, 1), "next_turn")>>}
  OBVIOUS
<1>5. PICK seats : seats = {<<"next_turn", EvalNode(seat, "next_seat", "set_next_seat")>>,
                            <<"set_next_seat", Update("current_player" :> At("next_seat"), ZoneEntry(r))>>}
  OBVIOUS
<1>6. AfterTurnNodes(r) = counts \cup turns \cup seats \cup GateNodes(r, "after_action", TurnBudget(r), TriggerEntry(r, 1))
  BY <1>3, <1>4, <1>5 DEF AfterTurnNodes
<1> HIDE DEF bump, turn, seat, over, gate
<1>7. OnlyCalls(O, counts)
  BY <1>1, <1>3 DEF OnlyCalls
<1>8. OnlyCalls(O, turns)
  BY <1>1, <1>4 DEF OnlyCalls
<1>9. OnlyCalls(O, seats)
  BY <1>1, <1>5 DEF OnlyCalls
<1> QED BY <1>2, <1>6, <1>7, <1>8, <1>9 DEF OnlyCalls

LEMMA EndRoundCalls ==
    ASSUME NEW O, AlwaysOperations \subseteq O, NEW r
    PROVE  OnlyCalls(O, EndRoundNodes(r))
<1> DEFINE last == Payload("gt", <<StateKey("round"), Value(r.max_rounds)>>)
           result == "finished" :> BoolV(TRUE) @@ "winners" :> At("winner_indexes") @@ "phase" :> StrV(<<"finished">>)
<1>1. /\ \A v, key, after : Allows(O, EvalNode(v, key, after)) /\ Allows(O, Update(v, after))
      /\ \A key, target, after : Allows(O, IfTrue(key, target, after))
      /\ Allows(O, EndNode)
  BY PlainAllowed, OthersAllowed
<1>2. \A args, key, after : Allows(O, Call("winner_resolve.call", args, key, after))
  BY CallAllowed DEF AlwaysOperations
<1>3. PICK limit : limit = {<<"round_check", EvalNode(last, "at_end", "round_check_branch")>>,
                            <<"round_check_branch", IfTrue("at_end", "finish", "round_start")>>}
  OBVIOUS
<1>4. PICK rounds : rounds = {<<"end_round", EvalNode(Increment("round"), "next_round", "set_round")>>,
                              <<"set_round", Update("round" :> At("next_round"),
                                                    IF r.max_rounds = 0 THEN "round_start" ELSE "round_check")>>}
  OBVIOUS
<1>5. PICK ends : ends = {<<"finish", Call("winner_resolve.call", [values |-> At("scores")], "winner_indexes", "declare")>>,
                          <<"declare", Update(result, "end")>>,
                          <<"end", EndNode>>}
  OBVIOUS
<1>6. EndRoundNodes(r) = rounds \cup ends \cup (IF r.max_rounds = 0 THEN {} ELSE limit)
  BY <1>3, <1>4, <1>5 DEF EndRoundNodes
<1> HIDE DEF last, result
<1>7. OnlyCalls(O, limit) /\ OnlyCalls(O, rounds) /\ OnlyCalls(O, ends)
  BY <1>1, <1>2, <1>3, <1>4, <1>5 DEF OnlyCalls
<1> QED BY <1>6, <1>7 DEF OnlyCalls

\* No line of a plan calls what the rule is not derived to need.
LEMMA LinesCall ==
    ASSUME NEW r, Proper(r)
    PROVE  OnlyCalls(Operations(r), Lines(r))
<1> DEFINE Turns == {CandidateNodes(r, i) \cup ActionNodes(r, ActionSequence(r)[i]) : i \in DOMAIN ActionSequence(r)}
           Triggers == {TriggerNodes(r, k) : k \in DOMAIN Triggered(r)}
<1>1. OnlyCalls(Operations(r), UNION Turns)
  <2>1. ASSUME NEW i \in DOMAIN ActionSequence(r)
        PROVE  OnlyCalls(Operations(r), CandidateNodes(r, i) \cup ActionNodes(r, ActionSequence(r)[i]))
    <3>1. ActionSequence(r)[i] \in DOMAIN r.actions
      BY OfferedActions
    <3> QED BY <3>1, CandidateCalls, ActionCalls, ManyLines
  <2>2. \A A \in Turns : OnlyCalls(Operations(r), A)
    BY <2>1
  <2> HIDE DEF Turns
  <2> QED BY <2>2, LinesOfLines
<1>2. OnlyCalls(Operations(r), UNION Triggers)
  <2>1. \A A \in Triggers : OnlyCalls(Operations(r), A)
    BY TriggerCalls
  <2> HIDE DEF Triggers
  <2> QED BY <2>1, LinesOfLines
<1>3. Lines(r) = SetupNodes(r) \cup RoundNodes(r) \cup ZoneNodes(r) \cup AfterTurnNodes(r) \cup ResolveNodes(r)
                 \cup EndRoundNodes(r) \cup GateNodes(r, "after_resolve", TRUE, "end_round")
                 \cup (UNION Turns) \cup (UNION Triggers)
  BY DEF Lines
<1> HIDE DEF Turns, Triggers
<1>4. /\ OnlyCalls(Operations(r), SetupNodes(r))
      /\ OnlyCalls(Operations(r), RoundNodes(r)) /\ OnlyCalls(Operations(r), ZoneNodes(r))
      /\ OnlyCalls(Operations(r), AfterTurnNodes(r)) /\ OnlyCalls(Operations(r), EndRoundNodes(r))
      /\ OnlyCalls(Operations(r), GateNodes(r, "after_resolve", TRUE, "end_round"))
  BY AlwaysNeeded, SetupCalls, RoundCalls, AfterTurnCalls, EndRoundCalls, GateCalls
<1>5. OnlyCalls(Operations(r), ResolveNodes(r))
  BY ResolveCalls
<1> QED BY <1>1, <1>2, <1>3, <1>4, <1>5 DEF OnlyCalls

LEMMA NodesAreLines ==
    ASSUME NEW r, NEW id \in DOMAIN PlanNodes(r)
    PROVE  \E l \in Lines(r) : l[1] = id /\ PlanNodes(r)[id] = l[2]
<1>1. PICK lines : lines = Lines(r)
  OBVIOUS
<1>2. PlanNodes(r) = [i \in {l[1] : l \in lines} |-> (CHOOSE l \in lines : l[1] = i)[2]]
  BY <1>1 DEF PlanNodes
<1>3. \E l \in lines : l[1] = id
  BY <1>2
<1> QED BY <1>1, <1>2, <1>3

(* A plan calls no operation that required_mechanisms does not derive from  *)
(* the rule, at any node of the plan of any rule that the checks let pass:  *)
(* what the gate has checked of a rule is all that runs (requirements.py,   *)
(* compiler.py).                                                            *)
THEOREM CallsAreRequired == Spec => []EveryCallIsRequired
<1>1. MachineInv => EveryCallIsRequired
  <2> SUFFICES ASSUME MachineInv, NodeAt.kind = "call" PROVE NodeAt.op \in Operations(Rule)
    BY DEF EveryCallIsRequired
  <2>1. game \in Games /\ pc \in DOMAIN PlanOf[game].nodes /\ NodeAt = PlanOf[game].nodes[pc]
    BY DEF MachineInv, Nodes, NodeAt, Plan
  <2>2. PICK r : r = RulesOf[game] /\ PlanOf[game].nodes = PlanNodes(r)
    BY <2>1, CompiledAssumption
  <2>3. OnlyCalls(Operations(r), Lines(r))
    BY <2>1, <2>2, GamesAreProper, LinesCall
  <2>4. PICK l \in Lines(r) : PlanNodes(r)[pc] = l[2]
    BY <2>1, <2>2, NodesAreLines
  <2> QED BY <2>1, <2>2, <2>3, <2>4 DEF OnlyCalls, Allows, Rule
<1> QED BY <1>1, MachineInvariance, PTL

-----------------------------------------------------------------------------
(* The shape of the state *)

\* The node that sets the zones sets every zone of the rule.
LEMMA TableIsWhole ==
    ASSUME NEW g \in Games, NEW n \in Nodes(g), SetsTable(NodeOf(g, n))
    PROVE  DOMAIN TableOfNode(NodeOf(g, n)) = ZoneIds(RulesOf[g])
<1>1. n = "init"
  BY OneTableAssumption DEF Nodes, NodeOf
<1>2. PICK r : /\ r = RulesOf[g] /\ PlanOf[g].nodes = PlanNodes(r) /\ ~ DuplicateNode(r)
  BY CompiledAssumption
<1>3. PICK line : line = <<"init", Update(InitialValues(r), "round_start")>>
  OBVIOUS
<1>4. line \in Lines(r)
  <2>1. line \in SetupNodes(r)
    BY <1>3 DEF SetupNodes
  <2> QED BY <2>1 DEF Lines
<1>5. PICK l \in Lines(r) : l[1] = "init" /\ PlanNodes(r)["init"] = l[2]
  BY <1>1, <1>2, NodesAreLines DEF Nodes
<1>6. l = line
  BY <1>2, <1>3, <1>4, <1>5 DEF DuplicateNode
<1>7. NodeOf(g, n) = Update(InitialValues(r), "round_start")
  BY <1>1, <1>2, <1>3, <1>5, <1>6 DEF NodeOf
<1>8. TableOfNode(NodeOf(g, n)) = InitialValues(r)["zones"][2]
  <2>1. \A values, next : Update(values, next).args.values = values
    BY DEF Update, Call
  <2> QED BY <1>7, <2>1 DEF TableOfNode
<1>9. InitialValues(r)["zones"] = ZoneTable(r)
  <2> DEFINE host == [zones |-> ZoneTable(r),
               scores |-> ListV([s \in 1 .. r.players |-> 0]), round |-> IntV(1), action_count |-> IntV(0),
               turn_index |-> IntV(0), finished |-> BoolV(FALSE), winners |-> ListV(<<>>), phase |-> StrV(<<"play">>)]
             skip == IF HasTrigger(r) THEN {"skip_next"} ELSE {}
             keys == {VarKey(x) : x \in DOMAIN r.variables}
             Initial(k) == r.variables[CHOOSE x \in DOMAIN r.variables : VarKey(x) = k].initial
  <2>1. "zones" \in DOMAIN host /\ host["zones"] = ZoneTable(r)
    OBVIOUS
  <2>2. InitialValues(r) = [k \in DOMAIN host \cup skip \cup keys |->
            IF k \in DOMAIN host THEN host[k] ELSE IF k \in skip THEN IntV(0) ELSE Initial(k)]
    BY DEF InitialValues
  <2> HIDE DEF host, skip, keys, Initial
  <2> QED BY <2>1, <2>2
<1>10. DOMAIN ZoneTable(r)[2] = ZoneIds(r)
  BY DEF ZoneTable
<1> QED BY <1>2, <1>8, <1>9, <1>10

WholeTable(table) == table # <<>> => DOMAIN table = ZoneIds(Rule)
ShapeInv ==
  /\ mode \in {"new", "running", "waiting", "over"}
  /\ fuel \in 0 .. StepLimit
  /\ WholeTable(zones)
  /\ mode = "running" => backup.mode \in {"new", "waiting"} /\ WholeTable(backup.zones)
  /\ mode # "running" => backup = NoBackup

LEMMA ShapeInit == Init => ShapeInv
<1> SUFFICES ASSUME Init PROVE ShapeInv
  OBVIOUS
<1>1. mode = "new" /\ zones = <<>> /\ fuel = 0 /\ backup = NoBackup
  BY DEF Init
<1>2. fuel \in 0 .. StepLimit
  BY <1>1, StepLimitAssumption
<1> QED BY <1>1, <1>2 DEF ShapeInv, WholeTable

LEMMA BeginShapes ==
    ASSUME MachineInv, MachineInv', ShapeInv, Begin, mode \in {"new", "waiting"}
    PROVE  ShapeInv'
<1>1. /\ backup' = Held /\ mode' = "running" /\ fuel' = Plan.step_limit /\ game' = game /\ zones' = zones
  BY DEF Begin
<1>2. Plan.step_limit = StepLimit
  BY CompiledAssumption DEF MachineInv, Plan
<1>3. backup'.mode = mode /\ backup'.zones = zones
  BY <1>1 DEF Held
<1>4. \A table : WholeTable(table)' <=> WholeTable(table)
  BY <1>1 DEF WholeTable, Rule
<1> QED BY <1>1, <1>2, <1>3, StepLimitAssumption DEF ShapeInv, WholeTable, Rule

LEMMA CallShapes ==
    ASSUME MachineInv, ShapeInv, Read \/ Write \/ MoveCall \/ TakeBranch
    PROVE  ShapeInv'
<1>1. /\ mode = "running" /\ mode' = "running" /\ backup' = backup /\ game' = game
      /\ fuel > 0 /\ fuel' = fuel - 1
  BY DEF Read, Write, MoveCall, TakeBranch, Calls, Running, Walks
<1>2. fuel' \in 0 .. StepLimit
  BY <1>1, StepLimitAssumption DEF ShapeInv
<1>3. Rule' = Rule
  BY <1>1 DEF Rule
<1>4. game \in Games /\ pc \in Nodes(game) /\ NodeAt = NodeOf(game, pc)
  BY DEF MachineInv, NodeAt, Plan, NodeOf
<1>5. WholeTable(zones)'
  <2>1. CASE zones' = zones
    BY <1>3, <2>1 DEF ShapeInv, WholeTable
  <2>2. CASE Write /\ "zones" \in DOMAIN NodeAt.args.values
    <3>1. SetsTable(NodeAt) /\ zones' = [z \in DOMAIN TableArgs |-> TableArgs[z][2]]
      BY <2>2 DEF Write, Calls, SetsTable
    <3>2. DOMAIN TableArgs = DOMAIN TableOfNode(NodeAt)
      BY <2>2 DEF TableArgs, TableOfNode, Arguments
    <3>3. DOMAIN TableOfNode(NodeAt) = ZoneIds(Rule)
      BY <1>4, <3>1, TableIsWhole DEF Rule
    <3> QED BY <1>3, <3>1, <3>2, <3>3 DEF WholeTable
  <2>3. CASE MoveCall
    <3>1. zones' = Moved(MoveArgs, zones) /\ MoveError(MoveArgs, zones) = "none"
      BY <2>3 DEF MoveCall, Calls, CallFault
    <3>2. DOMAIN zones' = DOMAIN zones
      BY <3>1 DEF Moved
    <3>3. MoveArgs.from[2] \in DOMAIN zones
      BY <3>1, MoveIsLegal
    <3>4. zones # <<>>
      BY <3>3
    <3> QED BY <1>3, <3>2, <3>4 DEF ShapeInv, WholeTable
  <2>4. zones' = zones \/ (Write /\ "zones" \in DOMAIN NodeAt.args.values) \/ MoveCall
    BY DEF Read, Write, TakeBranch
  <2> QED BY <2>1, <2>2, <2>3, <2>4
<1> QED BY <1>1, <1>2, <1>3, <1>5 DEF ShapeInv, WholeTable

LEMMA ReturnShapes ==
    ASSUME MachineInv, ShapeInv, WaitForInput \/ EndGame \/ Abort
    PROVE  ShapeInv'
<1>1. /\ mode = "running" /\ backup' = NoBackup /\ fuel' = 0 /\ game' = game
      /\ \/ zones' = zones /\ mode' \in {"waiting", "over"}
         \/ zones' = backup.zones /\ mode' = backup.mode
  BY DEF WaitForInput, EndGame, Stop, Abort, Running
<1>2. fuel' \in 0 .. StepLimit
  BY <1>1, StepLimitAssumption
<1>3. Rule' = Rule
  BY <1>1 DEF Rule
<1> QED BY <1>1, <1>2, <1>3 DEF ShapeInv, WholeTable

(* The state dictionary has its shape at every node of every plan: once     *)
(* they are set, every declared zone exists and holds cards of the deck,    *)
(* advance never takes more nodes than the plan allows, and a step in       *)
(* progress always has a way back (interpreter.py; compiler.py,             *)
(* _zone_table).                                                            *)
THEOREM TypeCorrect == Spec => []TypeOK
<1>1. MachineInv /\ ShapeInv /\ MachineInv' /\ [Next]_vars => ShapeInv'
  <2> SUFFICES ASSUME MachineInv, ShapeInv, MachineInv', [Next]_vars PROVE ShapeInv'
    OBVIOUS
  <2>1. CASE Setup
    BY <2>1, BeginShapes DEF Setup
  <2>2. CASE Play
    BY <2>2, BeginShapes DEF Play, Step
  <2>3. CASE Advance
    BY <2>3, CallShapes, ReturnShapes DEF Advance
  <2>4. CASE UNCHANGED vars
    BY <2>4 DEF vars, ShapeInv, WholeTable, Rule, NoBackup
  <2> QED BY <2>1, <2>2, <2>3, <2>4 DEF Next
<1>2. MachineInv /\ ShapeInv => TypeOK
  <2> SUFFICES ASSUME MachineInv, ShapeInv PROVE TypeOK
    OBVIOUS
  <2>1. game \in Games /\ pc \in DOMAIN Plan.nodes /\ Plan.step_limit = StepLimit
    BY CompiledAssumption DEF MachineInv, Nodes, Plan
  <2>2. \A z \in DOMAIN zones : Range(zones[z]) \subseteq DOMAIN Plan.faces
    BY DEF MachineInv, Sound, Plan, Range
  <2>3. mode = "running" => backup # NoBackup
    <3>1. NoBackup.mode = "none"
      BY DEF NoBackup
    <3> QED BY <3>1 DEF ShapeInv
  <2> QED BY <2>1, <2>2, <2>3 DEF TypeOK, ShapeInv, WholeTable
<1> QED BY <1>1, <1>2, MachineInvariance, ShapeInit, PTL DEF Spec
=============================================================================
