----------------------------- MODULE Betting_proofs -----------------------------
(***************************************************************************)
(* For any table and any least raise: the seat that is asked has something *)
(* to decide, a finished round can be settled, and no action and no        *)
(* settlement makes or loses a chip or pays a seat for what it has not     *)
(* matched.                                                                *)
(*                                                                         *)
(* _next_seat goes to the next seat with chips, whether it has acted or    *)
(* not.  That this seat still has to decide follows from an order: going   *)
(* round from the current seat, the seats that have matched the bet come   *)
(* after those that have not (InTurn).  Whoever holds the highest bet is   *)
(* therefore never asked to fold it, and every pot keeps a contributor.    *)
(*                                                                         *)
(* What a settlement pays out is a sum over pots of what a pot pays each   *)
(* seat.  The layers below a commitment add up to it (LayersAddUp); summed *)
(* over the seats, layer by layer, they are the pots (PotsHoldAll).  A pot *)
(* is paid out in full (PotIsPaid), for as many seats get an odd chip as   *)
(* there are odd chips (LowerCount).  So the seats get what they have put  *)
(* in (AllIsPaid), and each of them no more than the pots would hold were  *)
(* every commitment cut down to its own (AwardIsMatched).                  *)
(***************************************************************************)
EXTENDS Betting, TLAPS, FiniteSetTheorems, WellFoundedInduction

\* Steps from the current seat; the current seat itself comes first.
From(s) == IF s >= current_player THEN s - current_player ELSE s - current_player + players

InTurn ==
  ~ street_done =>
    \A s, t \in Seats \ folded :
      stacks[s] > 0 /\ stacks[t] > 0 /\ ~ Matched(s) /\ Matched(t) => From(s) < From(t)

\* Chips are put in by acting, and the bet is held by a seat that is in.
BetIsHeld ==
  ~ finished => /\ \A s \in Seats : committed[s] > 0 => s \in acted
                /\ current_bet > 0 => \E s \in Seats \ folded : committed[s] = current_bet

SomeoneIsIn ==
  /\ \E s \in Seats : s \notin folded
  /\ ~ street_done => ~ \A s, t \in Seats \ folded : s = t
  /\ finished => street_done

IInv == TypeOK /\ AskedHasToDecide /\ InTurn /\ BetIsHeld /\ SomeoneIsIn

-----------------------------------------------------------------------------
(* Initially *)

LEMMA SeatsAtTheTable ==
  ASSUME Init
  PROVE  players \in Nat \ {0, 1} /\ stacks \in [0 .. players - 1 -> Nat \ {0}]
  BY TablesAssumption DEF Init

LEMMA InitIInv == Init => IInv
<1> SUFFICES ASSUME Init PROVE IInv OBVIOUS
<1>1. players \in Nat \ {0, 1} /\ stacks \in [Seats -> Nat \ {0}]
  BY SeatsAtTheTable DEF Seats
<1>2. 0 \in Seats /\ 1 \in Seats
  BY <1>1 DEF Seats
<1>a. stacks \in [Seats -> Nat]
  BY <1>1
<1>b. committed \in [Seats -> Nat] /\ \A s \in Seats : committed[s] = 0
  BY DEF Init
<1>c. current_player \in Seats /\ folded \subseteq Seats /\ acted \subseteq Seats /\ min_raise \in Nat \ {0}
  BY <1>2, MinRaiseAssumption DEF Init
<1>d. current_bet = 0 /\ street_done = FALSE /\ finished = FALSE
  BY DEF Init
<1>e. current_bet \in Nat /\ \A s \in Seats : committed[s] <= current_bet
  BY <1>b, <1>d
<1>3. TypeOK
  BY <1>1, <1>a, <1>b, <1>c, <1>d, <1>e DEF TypeOK
<1>4. AskedHasToDecide /\ InTurn
  BY <1>1, <1>2 DEF Init, AskedHasToDecide, InTurn, Matched
<1>5. BetIsHeld
  BY DEF Init, BetIsHeld
<1>6. SomeoneIsIn
  BY <1>2 DEF Init, SomeoneIsIn
<1> QED BY <1>3, <1>4, <1>5, <1>6 DEF IInv

-----------------------------------------------------------------------------
(* What every action of the round does to the seat that acts *)

\* Only the acting seat's chips change, and the bet never falls.
Moves ==
  /\ players' = players /\ finished' = finished
  /\ acted' = acted \cup {current_player}
  /\ stacks' \in [Seats -> Nat] /\ committed' \in [Seats -> Nat]
  /\ \A s \in Seats \ {current_player} : stacks'[s] = stacks[s] /\ committed'[s] = committed[s]
  /\ folded' \in {folded, folded \cup {current_player}}
  /\ current_bet' \in Nat /\ current_bet' >= current_bet
  /\ min_raise' \in Nat \ {0}
  /\ committed'[current_player] <= current_bet'
  /\ committed'[current_player] >= committed[current_player]

\* It is out, or has no chips left, or has put in the bet.
Answers ==
  current_player \in folded' \/ stacks'[current_player] = 0 \/ committed'[current_player] = current_bet'
\* A higher bet is its own.
Leads == current_bet' > current_bet => committed'[current_player] = current_bet' /\ folded' = folded

LEMMA FoldMoves == ASSUME TypeOK, Fold PROVE Moves /\ Answers /\ Leads
  BY DEF TypeOK, Fold, Acted, Moves, Answers, Leads

LEMMA CheckMoves == ASSUME TypeOK, Check PROVE Moves /\ Answers /\ Leads
<1>1. committed[current_player] = current_bet
  BY DEF TypeOK, Check, Asked, Legal, ToCall
<1> QED BY <1>1 DEF TypeOK, Check, Acted, Moves, Answers, Leads

LEMMA CommitMoves ==
  ASSUME TypeOK, NEW amount \in Nat, amount <= stacks[current_player], Commit(amount)
  PROVE  /\ stacks' \in [Seats -> Nat] /\ committed' \in [Seats -> Nat]
         /\ \A s \in Seats \ {current_player} : stacks'[s] = stacks[s] /\ committed'[s] = committed[s]
         /\ stacks'[current_player] = stacks[current_player] - amount
         /\ committed'[current_player] = committed[current_player] + amount
  BY DEF TypeOK, Commit

LEMMA CallMoves == ASSUME TypeOK, Call PROVE Moves /\ Answers /\ Leads
<1> DEFINE amount == Least(ToCall, stacks[current_player])
<1>1. /\ ToCall = current_bet - committed[current_player] /\ ToCall \in Nat
      /\ stacks[current_player] \in Nat /\ committed[current_player] \in Nat /\ current_bet \in Nat
  BY DEF TypeOK, ToCall
<1>2. amount \in Nat /\ amount <= stacks[current_player] /\ amount <= ToCall
  BY <1>1 DEF Least
<1>3. amount = ToCall \/ amount = stacks[current_player]
  BY DEF Least
<1>4. Commit(amount) /\ UNCHANGED <<folded, current_bet, min_raise>> /\ Acted
  BY DEF Call
<1> HIDE DEF amount
<1>5. /\ stacks' \in [Seats -> Nat] /\ committed' \in [Seats -> Nat]
      /\ \A s \in Seats \ {current_player} : stacks'[s] = stacks[s] /\ committed'[s] = committed[s]
      /\ stacks'[current_player] = stacks[current_player] - amount
      /\ committed'[current_player] = committed[current_player] + amount
  BY <1>2, <1>4, CommitMoves
<1>6. stacks'[current_player] = 0 \/ committed'[current_player] = current_bet'
  BY <1>1, <1>2, <1>3, <1>4, <1>5
<1>7. committed'[current_player] <= current_bet' /\ committed'[current_player] >= committed[current_player]
  BY <1>1, <1>2, <1>4, <1>5
<1> QED BY <1>1, <1>4, <1>5, <1>6, <1>7 DEF TypeOK, Acted, Moves, Answers, Leads

LEMMA LargerIsPositive ==
  ASSUME TypeOK, NEW bet \in Nat PROVE Larger(bet) \in Nat \ {0}
  BY DEF TypeOK, Larger

LEMMA RaiseMoves == ASSUME TypeOK, Raise PROVE Moves /\ Answers /\ Leads
<1>1. /\ stacks[current_player] \in Nat /\ committed[current_player] \in Nat
      /\ current_bet \in Nat /\ min_raise \in Nat \ {0} /\ committed[current_player] <= current_bet
  BY DEF TypeOK
<1>2. PICK target \in current_bet + min_raise .. committed[current_player] + stacks[current_player] :
        Commit(target - committed[current_player]) /\ min_raise' = Larger(target) /\ current_bet' = target
  BY DEF Raise
<1>3. target \in Nat /\ target > current_bet
  BY <1>1, <1>2
<1>4. PICK amount \in Nat : amount = target - committed[current_player] /\ amount <= stacks[current_player]
  BY <1>1, <1>2, <1>3
<1>5. /\ stacks' \in [Seats -> Nat] /\ committed' \in [Seats -> Nat]
      /\ \A s \in Seats \ {current_player} : stacks'[s] = stacks[s] /\ committed'[s] = committed[s]
      /\ committed'[current_player] = committed[current_player] + amount
  BY <1>2, <1>4, CommitMoves
<1>6. committed'[current_player] = target /\ committed'[current_player] >= committed[current_player]
  BY <1>1, <1>3, <1>4, <1>5
<1>7. min_raise' \in Nat \ {0}
  BY <1>2, <1>3, LargerIsPositive
<1>8. folded' = folded /\ Acted
  BY DEF Raise
<1> QED BY <1>1, <1>2, <1>3, <1>5, <1>6, <1>7, <1>8 DEF Acted, Moves, Answers, Leads

LEMMA AllInMoves == ASSUME TypeOK, AllIn PROVE Moves /\ Answers /\ Leads
<1>1. /\ stacks[current_player] \in Nat /\ committed[current_player] \in Nat /\ current_bet \in Nat
      /\ committed[current_player] <= current_bet
  BY DEF TypeOK
<1>2. /\ stacks' \in [Seats -> Nat] /\ committed' \in [Seats -> Nat]
      /\ \A s \in Seats \ {current_player} : stacks'[s] = stacks[s] /\ committed'[s] = committed[s]
      /\ stacks'[current_player] = 0
      /\ committed'[current_player] = committed[current_player] + stacks[current_player]
  <2>1. Commit(stacks[current_player]) BY DEF AllIn
  <2> QED BY <1>1, <2>1, CommitMoves
<1>3. /\ current_bet' \in Nat /\ current_bet' >= current_bet /\ committed'[current_player] <= current_bet'
      /\ current_bet' > current_bet => committed'[current_player] = current_bet'
  BY <1>1, <1>2 DEF AllIn, AllInBet
<1>4. min_raise' \in Nat \ {0}
  BY <1>3, LargerIsPositive DEF AllIn
<1>5. folded' = folded /\ Acted
  BY DEF AllIn
<1> QED BY <1>1, <1>2, <1>3, <1>4, <1>5 DEF Acted, Moves, Answers, Leads

LEMMA ActMoves ==
  ASSUME TypeOK, Act
  PROVE  Moves /\ Answers /\ Leads /\ Acted /\ ~ street_done
<1>1. Moves /\ Answers /\ Leads
  BY FoldMoves, CheckMoves, CallMoves, RaiseMoves, AllInMoves DEF Act
<1>2. Acted /\ ~ street_done
  BY DEF Act, Fold, Check, Call, Raise, AllIn, Asked
<1> QED BY <1>1, <1>2

-----------------------------------------------------------------------------
(* The turn *)

LEMMA SeatsDoNotMove == ASSUME players' = players PROVE Seats' = Seats
  BY DEF Seats

\* The next seat is the nearest with chips, and somebody has to decide.
LEMMA NextIsNearest ==
  ASSUME TypeOK, Moves, Answers, Acted, ~ street_done'
  PROVE  /\ current_player' \in Seats \ folded' /\ stacks'[current_player'] > 0
         /\ \A t \in Seats \ folded' : stacks'[t] > 0 => Ahead(current_player') <= Ahead(t)
         /\ \E w \in Seats \ folded' : /\ stacks'[w] > 0 /\ w # current_player
                                       /\ ~ (w \in acted' /\ committed'[w] = current_bet')
         /\ ~ \A s, t \in Seats \ folded' : s = t
<1>1. /\ ~ \A s, t \in Seats \ folded' : s = t
      /\ \E w \in Seats \ folded' : stacks'[w] # 0 /\ ~ (w \in acted' /\ committed'[w] = current_bet')
  <2>1. Seats' = Seats
    BY SeatsDoNotMove DEF Moves
  <2>2. ~ Complete(stacks', committed', folded', acted', current_bet')
    BY DEF Acted
  <2> QED BY <2>2 DEF Complete
<1>2. PICK w \in Seats \ folded' : stacks'[w] # 0 /\ ~ (w \in acted' /\ committed'[w] = current_bet')
  BY <1>1
<1>3. stacks'[w] > 0
  BY <1>2 DEF Moves
<1>4. w # current_player
  BY <1>2 DEF Answers, Moves
<1>5. current_player' \in NextSeats(stacks', folded')
  BY DEF Acted
<1>6. /\ current_player' \in {s \in Seats \ folded' : stacks'[s] > 0}
      /\ \A t \in {s \in Seats \ folded' : stacks'[s] > 0} : Ahead(current_player') <= Ahead(t)
  BY <1>2, <1>3, <1>5 DEF NextSeats
<1> QED BY <1>1, <1>2, <1>3, <1>4, <1>6

\* Who has matched after the action is the seat that acted, or had matched before.
LEMMA WhoHasMatched ==
  ASSUME TypeOK, Moves, Leads, NEW s \in Seats \ {current_player}
  PROVE  /\ Matched(s)' => current_bet' = current_bet /\ Matched(s)
         /\ current_bet' = current_bet => (Matched(s)' <=> Matched(s))
<1>1. committed'[s] = committed[s] /\ committed[s] \in Nat /\ committed[s] <= current_bet
  BY DEF Moves, TypeOK
<1>2. s \in acted' <=> s \in acted
  BY DEF Moves
<1>3. current_bet' \in Nat /\ current_bet \in Nat /\ current_bet' >= current_bet
  BY DEF Moves, TypeOK
<1> QED BY <1>1, <1>2, <1>3 DEF Matched

LEMMA Distances ==
  ASSUME TypeOK, NEW q \in Seats, NEW s \in Seats, NEW t \in Seats
  PROVE  LET FromQ(x) == IF x >= q THEN x - q ELSE x - q + players
         IN /\ s # current_player => Ahead(s) = From(s)
            /\ s # current_player /\ Ahead(q) <= Ahead(s) /\ Ahead(q) <= Ahead(t) /\ t # current_player /\ From(s) < From(t)
                 => FromQ(s) < FromQ(t)
            /\ s # current_player /\ Ahead(q) <= Ahead(s) /\ q # current_player => FromQ(s) < FromQ(current_player)
            /\ Ahead(current_player) = players
            /\ s # current_player => Ahead(s) < players
<1>1. /\ players \in Nat /\ current_player \in Nat /\ q \in Nat /\ s \in Nat /\ t \in Nat
      /\ current_player < players /\ q < players /\ s < players /\ t < players
  BY DEF TypeOK, Seats
<1> QED BY <1>1 DEF Ahead, From

LEMMA TurnIsKept ==
  ASSUME IInv, Moves, Answers, Leads, Acted, ~ street_done, ~ street_done'
  PROVE  AskedHasToDecide' /\ InTurn'
<1>a. TypeOK /\ InTurn /\ Seats' = Seats /\ current_player \in Seats
  BY SeatsDoNotMove DEF IInv, Moves, TypeOK
<1>b. /\ current_player' \in Seats \ folded' /\ stacks'[current_player'] > 0
      /\ \A t \in Seats \ folded' : stacks'[t] > 0 => Ahead(current_player') <= Ahead(t)
  BY <1>a, NextIsNearest
<1>c. PICK p \in Seats : p = current_player
  BY <1>a
<1>d. PICK q \in Seats : q = current_player'
  BY <1>b
<1>0. TypeOK /\ InTurn /\ Seats' = Seats /\ p = current_player
  BY <1>a, <1>c
<1>1. /\ q \in Seats \ folded' /\ stacks'[q] > 0
      /\ \A t \in Seats \ folded' : stacks'[t] > 0 => Ahead(q) <= Ahead(t)
  BY <1>b, <1>d
<1>2. PICK w \in Seats : w \notin folded' /\ stacks'[w] > 0 /\ w # p /\ ~ Matched(w)'
  BY <1>0, NextIsNearest DEF Matched
<1>3. \A x \in Seats \ {p} : stacks'[x] = stacks[x] /\ (x \in folded' <=> x \in folded)
  BY <1>0 DEF Moves
<1>4. q # p
  <2>1. Ahead(q) <= Ahead(w) /\ Ahead(w) < players
    BY <1>0, <1>1, <1>2, Distances
  <2>2. Ahead(p) = players
    BY <1>0, <1>1, Distances
  <2>3. Ahead(w) \in Int /\ players \in Int
    BY <1>0, <1>2 DEF TypeOK, Seats, Ahead
  <2> QED BY <2>1, <2>2, <2>3
<1>5. ASSUME NEW s \in Seats \ folded', NEW t \in Seats \ folded', stacks'[s] > 0, stacks'[t] > 0,
             s # p, t # p, ~ Matched(s)', Matched(t)'
      PROVE  From(s) < From(t)
  <2>1. current_bet' = current_bet /\ Matched(t)
    BY <1>0, <1>5, WhoHasMatched
  <2>2. ~ Matched(s)
    BY <1>0, <1>5, <2>1, WhoHasMatched
  <2>3. s \in Seats \ folded /\ t \in Seats \ folded /\ stacks[s] > 0 /\ stacks[t] > 0
    BY <1>3, <1>5
  <2> QED BY <1>0, <2>1, <2>2, <2>3 DEF InTurn
<1>6. ~ Matched(q)'
  <2> SUFFICES ASSUME Matched(q)' PROVE FALSE OBVIOUS
  <2>1. From(w) < From(q)
    BY <1>1, <1>2, <1>4, <1>5
  <2>2. Ahead(q) <= Ahead(w) /\ Ahead(q) = From(q) /\ Ahead(w) = From(w)
    BY <1>0, <1>1, <1>2, <1>4, Distances
  <2>3. From(w) \in Int /\ From(q) \in Int
    BY <1>0, <1>1, <1>2 DEF TypeOK, Seats, From
  <2> QED BY <2>1, <2>2, <2>3
<1>7. AskedHasToDecide'
  BY <1>0, <1>1, <1>6, <1>d DEF AskedHasToDecide, Matched
<1>8. ASSUME NEW s \in Seats \ folded', NEW t \in Seats \ folded', stacks'[s] > 0, stacks'[t] > 0,
             ~ Matched(s)', Matched(t)'
      PROVE  From(s)' < From(t)'
  <2>1. s # p
    BY <1>0, <1>8 DEF Answers, Matched, Moves
  <2>2. From(s)' = (IF s >= q THEN s - q ELSE s - q + players)
        /\ From(t)' = (IF t >= q THEN t - q ELSE t - q + players)
    BY <1>d DEF From, Moves
  <2>3. CASE t = p
    <3>1. Ahead(q) <= Ahead(s)
      BY <1>1, <1>8
    <3> QED BY <1>0, <1>1, <1>4, <1>8, <2>1, <2>2, <2>3, <3>1, Distances
  <2>4. CASE t # p
    <3>1. Ahead(q) <= Ahead(s) /\ Ahead(q) <= Ahead(t) /\ From(s) < From(t)
      BY <1>1, <1>5, <1>8, <2>1, <2>4
    <3> QED BY <1>0, <1>1, <1>4, <1>8, <2>1, <2>2, <2>4, <3>1, Distances
  <2> QED BY <2>3, <2>4
<1>9. InTurn'
  BY <1>0, <1>8 DEF InTurn
<1> QED BY <1>7, <1>9

-----------------------------------------------------------------------------
(* The bet, the seats that are in, and the types *)

LEMMA ActKeepsTypes ==
  ASSUME IInv, Moves, Acted, Answers PROVE TypeOK'
<1>1. TypeOK /\ Seats' = Seats
  BY SeatsDoNotMove DEF IInv, Moves
<1>2. current_player' \in Seats
  <2>1. CASE street_done'
    BY <1>1, <2>1 DEF Acted, TypeOK
  <2>2. CASE ~ street_done'
    BY <1>1, <2>2, NextIsNearest
  <2> QED BY <2>1, <2>2
<1>3. folded' \subseteq Seats /\ acted' \subseteq Seats
  BY <1>1 DEF TypeOK, Moves
<1>4. street_done' \in BOOLEAN
  BY DEF Acted, Complete
<1>5. \A s \in Seats : committed'[s] <= current_bet'
  <2> SUFFICES ASSUME NEW s \in Seats PROVE committed'[s] <= current_bet' OBVIOUS
  <2>1. CASE s = current_player
    BY <2>1 DEF Moves
  <2>2. CASE s # current_player
    <3>1. committed'[s] = committed[s] /\ committed[s] <= current_bet /\ committed[s] \in Nat
      BY <1>1, <2>2 DEF Moves, TypeOK
    <3> QED BY <1>1, <3>1 DEF Moves, TypeOK
  <2> QED BY <2>1, <2>2
<1> QED BY <1>1, <1>2, <1>3, <1>4, <1>5 DEF TypeOK, Moves

\* Whoever is asked has not matched the bet: it is held by another seat.
LEMMA ActKeepsBet ==
  ASSUME IInv, Moves, Acted, Leads, ~ street_done PROVE BetIsHeld'
<1>1. TypeOK /\ BetIsHeld /\ AskedHasToDecide /\ Seats' = Seats /\ ~ finished /\ ~ finished'
  BY SeatsDoNotMove DEF IInv, Moves, SomeoneIsIn
<1>2. \A s \in Seats : committed'[s] > 0 => s \in acted'
  BY <1>1 DEF BetIsHeld, Moves
<1>3. ASSUME current_bet' > 0 PROVE \E s \in Seats \ folded' : committed'[s] = current_bet'
  <2>1. CASE current_bet' > current_bet
    <3>1. current_player \in Seats \ folded' /\ committed'[current_player] = current_bet'
      BY <1>1, <2>1 DEF Leads, AskedHasToDecide, TypeOK
    <3> QED BY <3>1
  <2>2. CASE ~ current_bet' > current_bet
    <3>1. current_bet' = current_bet
      BY <1>1, <2>2 DEF Moves, TypeOK
    <3>2. PICK s \in Seats \ folded : committed[s] = current_bet
      BY <1>1, <1>3, <3>1 DEF BetIsHeld
    <3>3. s \in acted
      BY <1>1, <1>3, <3>1, <3>2 DEF BetIsHeld
    <3>4. s # current_player
      BY <1>1, <3>2, <3>3 DEF AskedHasToDecide, Matched
    <3>5. s \in Seats \ folded' /\ committed'[s] = current_bet'
      BY <3>1, <3>2, <3>4 DEF Moves
    <3> QED BY <3>5
  <2> QED BY <2>1, <2>2
<1> QED BY <1>1, <1>2, <1>3 DEF BetIsHeld

LEMMA ActKeepsSomeone ==
  ASSUME IInv, Moves, Acted, Answers, ~ street_done PROVE SomeoneIsIn'
<1>1. TypeOK /\ SomeoneIsIn /\ Seats' = Seats
  BY SeatsDoNotMove DEF IInv, Moves
<1>2. PICK s, t \in Seats \ folded : s # t
  BY DEF IInv, SomeoneIsIn
<1>3. \E x \in Seats : x \notin folded'
  <2>1. s # current_player \/ t # current_player
    BY <1>2
  <2> QED BY <1>2, <2>1 DEF Moves
<1>4. ~ street_done' => ~ \A x, y \in Seats \ folded' : x = y
  BY <1>1, NextIsNearest
<1>5. finished' => street_done'
  BY <1>1 DEF Moves, SomeoneIsIn
<1> QED BY <1>1, <1>3, <1>4, <1>5 DEF SomeoneIsIn

LEMMA ActKeepsIInv == ASSUME IInv, Act PROVE IInv'
<1>1. TypeOK
  BY DEF IInv
<1>2. Moves /\ Answers /\ Leads /\ Acted /\ ~ street_done
  BY <1>1, ActMoves
<1>3. TypeOK' /\ BetIsHeld' /\ SomeoneIsIn'
  BY <1>2, ActKeepsTypes, ActKeepsBet, ActKeepsSomeone
<1>4. AskedHasToDecide' /\ InTurn'
  <2>1. CASE street_done'
    BY <2>1 DEF AskedHasToDecide, InTurn
  <2>2. CASE ~ street_done'
    BY <1>2, <2>2, TurnIsKept
  <2> QED BY <2>1, <2>2
<1> QED BY <1>3, <1>4 DEF IInv

-----------------------------------------------------------------------------
(* The pots *)

\* The holder of the highest bet, who is in, has contributed to every pot.
LEMMA PotsHaveContributors ==
  ASSUME IInv, ~ finished, NEW l \in Levels
  PROVE  l \in Nat \ {0} /\ Eligible(l) # {}
<1>1. PICK s \in Seats : l = committed[s] /\ l # 0
  BY DEF Levels
<1>2. l \in Nat \ {0} /\ l <= current_bet /\ current_bet \in Nat
  BY <1>1 DEF IInv, TypeOK
<1>3. PICK h \in Seats \ folded : committed[h] = current_bet
  BY <1>2 DEF IInv, BetIsHeld
<1>4. h \in Contributors(l)
  BY <1>2, <1>3 DEF Contributors
<1> QED BY <1>2, <1>3, <1>4 DEF Eligible

\* Heads-up, both seats are in a contested pot, which is the lowest.
LEMMA HeadsUpPot ==
  ASSUME IInv, ~ finished, HeadsUp, NEW l \in Contested
  PROVE  Contributors(l) = Seats /\ Below(l) = 0
<1>1. Seats = {0, 1} /\ l \in Levels /\ Cardinality(Contributors(l)) # 1
  BY DEF HeadsUp, Seats, Contested, Refunded
<1>2. l \in Nat \ {0}
  BY <1>1, PotsHaveContributors
<1>3. PICK s \in Seats : s \in Contributors(l)
  <2>1. PICK s \in Seats : l = committed[s]
    BY <1>1 DEF Levels
  <2> QED BY <1>2, <2>1 DEF Contributors
<1>4. Contributors(l) \subseteq Seats
  BY DEF Contributors
<1>5. Contributors(l) # {s}
  BY <1>1, FS_Singleton
<1>6. Contributors(l) = Seats
  BY <1>1, <1>3, <1>4, <1>5
<1>7. {k \in Levels : k < l} = {}
  <2> SUFFICES ASSUME NEW k \in Levels, k < l PROVE FALSE OBVIOUS
  <2>1. PICK x \in Seats : k = committed[x]
    BY DEF Levels
  <2>2. committed[x] >= l /\ committed[x] \in Nat
    BY <1>6, <2>1 DEF Contributors, IInv, TypeOK
  <2> QED BY <1>2, <2>1, <2>2
<1>8. Below(l) = Max({0})
  BY <1>7 DEF Below
<1>9. Max({0}) = 0
  BY DEF Max
<1> QED BY <1>6, <1>8, <1>9

LEMMA PlanNamesWhoIsIn ==
  ASSUME IInv, HeadsUp, NEW w \in (IF Cardinality(folded) = 1 THEN {Seats \ folded} ELSE {{0}, {1}, {0, 1}})
  PROVE  w # {} /\ w \subseteq Seats \ folded
<1>1. Seats = {0, 1} /\ folded \subseteq Seats
  BY DEF HeadsUp, Seats, IInv, TypeOK
<1>2. PICK x \in Seats : x \notin folded
  BY DEF IInv, SomeoneIsIn
<1>3. CASE Cardinality(folded) = 1
  BY <1>2, <1>3
<1>4. CASE Cardinality(folded) # 1
  <2>1. folded # {0} /\ folded # {1}
    BY <1>4, FS_Singleton
  <2>2. folded = {}
    BY <1>1, <1>2, <2>1
  <2> QED BY <1>1, <1>4, <2>2
<1> QED BY <1>3, <1>4

LEMMA PlanIsNotRefused ==
  ASSUME IInv, ~ finished, HeadsUp, NEW winners \in PlanWinners
  PROVE  Refusal(winners) = "none"
<1> DEFINE lowest == {l \in Levels : Below(l) = 0}
<1>1. PICK w \in (IF Cardinality(folded) = 1 THEN {Seats \ folded} ELSE {{0}, {1}, {0, 1}}) :
        winners = [l \in lowest |-> w]
  BY DEF PlanWinners
<1>2. w # {} /\ w \subseteq Seats \ folded
  BY <1>1, PlanNamesWhoIsIn
<1>3. ASSUME NEW l \in Contested
      PROVE  l \in DOMAIN winners /\ winners[l] = w /\ w \subseteq Eligible(l)
  <2>1. Contributors(l) = Seats /\ Below(l) = 0 /\ l \in Levels
    BY HeadsUpPot DEF Contested
  <2> QED BY <1>1, <1>2, <2>1 DEF Eligible
<1> QED BY <1>2, <1>3 DEF Refusal

LEMMA RoundCanBeSettled == IInv => CanBeSettled
<1> SUFFICES ASSUME IInv, street_done, ~ finished
             PROVE  /\ \A l \in Contested : Eligible(l) # {}
                    /\ HeadsUp => \A winners \in PlanWinners : Refusal(winners) = "none"
  BY DEF CanBeSettled
<1>1. \A l \in Contested : Eligible(l) # {}
  BY PotsHaveContributors DEF Contested
<1> QED BY <1>1, PlanIsNotRefused

-----------------------------------------------------------------------------
(* Sums over finite sets *)

LEMMA FirstOne ==
    ASSUME NEW T, T \subseteq Nat, T # {}
    PROVE  \E m \in T : \A n \in 0 .. m - 1 : n \notin T
<1>1. PICK m \in T : \A n \in T : ~ (<<n, m>> \in OpToRel(<, Nat))
  BY WFMin, NatLessThanWellFounded
<1>2. \A n \in Nat : <<n, m>> \in OpToRel(<, Nat) <=> n < m
  BY DEF OpToRel
<1>3. \A n \in 0 .. m - 1 : n \in Nat /\ n < m
  OBVIOUS
<1> QED BY <1>1, <1>2, <1>3

LEMMA Smallest ==
    ASSUME NEW F, F # {}, \A S \in F : IsFiniteSet(S)
    PROVE  \E S \in F : \A x \in S : S \ {x} \notin F
<1> DEFINE T == {n \in Nat : \E S \in F : Cardinality(S) = n}
<1>1. \A S \in F : Cardinality(S) \in T
  BY FS_CardinalityType
<1>2. T \subseteq Nat /\ T # {}
  BY <1>1
<1>3. PICK m \in T : \A n \in 0 .. m - 1 : n \notin T
  BY <1>2, FirstOne
<1>4. PICK S \in F : Cardinality(S) = m /\ m \in Nat
  OBVIOUS
<1> HIDE DEF T
<1>5. ASSUME NEW x \in S PROVE S \ {x} \notin F
  <2>1. Cardinality(S \ {x}) = m - 1 /\ Cardinality(S \ {x}) \in Nat
    BY <1>4, FS_RemoveElement, FS_CardinalityType
  <2>2. m - 1 \in 0 .. m - 1
    BY <1>4, <2>1
  <2> QED BY <1>1, <1>3, <2>1, <2>2
<1> QED BY <1>5

Chosen(t) == CHOOSE x \in t : TRUE
Sums(g, f, t) == IF t = {} THEN 0 ELSE f[Chosen(t)] + g[t \ {Chosen(t)}]
Adds(g, f, S) == g = [t \in SUBSET S |-> Sums(g, f, t)]

LEMMA TotalIs ==
    ASSUME NEW f, NEW S, NEW g, Adds(g, f, S)
    PROVE  \E h : Adds(h, f, S) /\ Total(f, S) = h[S]
<1> DEFINE H == CHOOSE h : h = [t \in SUBSET S |-> Sums(h, f, t)]
<1>1. H = [t \in SUBSET S |-> Sums(H, f, t)]
  BY DEF Adds
<1>2. Total(f, S) = H[S]
  BY Zenon DEF Total, MapThenSumSet, MapThenFoldSet, Sums, Chosen
<1> QED BY <1>1, <1>2 DEF Adds

LEMMA AddsExists ==
    ASSUME NEW f, NEW S, IsFiniteSet(S)
    PROVE  \E g : Adds(g, f, S)
<1> DEFINE Small(n) == {t \in SUBSET S : Cardinality(t) <= n}
<1> DEFINE T == {n \in Nat : ~ \E g : g = [t \in Small(n) |-> Sums(g, f, t)]}
<1>1. \A t \in SUBSET S : IsFiniteSet(t) /\ Cardinality(t) \in Nat /\ Cardinality(t) <= Cardinality(S)
  BY FS_Subset, FS_CardinalityType
<1>2. \A t \in SUBSET S : t # {} => /\ Chosen(t) \in t
                                    /\ t \ {Chosen(t)} \in SUBSET S
                                    /\ Cardinality(t \ {Chosen(t)}) = Cardinality(t) - 1
  <2> SUFFICES ASSUME NEW t \in SUBSET S, t # {}
               PROVE  /\ Chosen(t) \in t /\ t \ {Chosen(t)} \in SUBSET S
                      /\ Cardinality(t \ {Chosen(t)}) = Cardinality(t) - 1
    OBVIOUS
  <2>1. Chosen(t) \in t
    BY DEF Chosen
  <2> QED BY <1>1, <2>1, FS_RemoveElement
<1>3. ASSUME T # {} PROVE FALSE
  <2>1. PICK m \in T : \A n \in 0 .. m - 1 : n \notin T
    <3>1. T \subseteq Nat
      OBVIOUS
    <3> HIDE DEF T
    <3> QED BY <1>3, <3>1, FirstOne
  <2>2. m \in Nat
    OBVIOUS
  <2>3. CASE m = 0
    <3>1. \A t \in Small(0) : t = {}
      BY <1>1, FS_EmptySet
    <3>2. PICK g : g = [t \in Small(0) |-> 0]
      OBVIOUS
    <3>3. g = [t \in Small(0) |-> Sums(g, f, t)]
      BY <3>1, <3>2 DEF Sums
    <3> QED BY <2>3, <3>3
  <2>4. CASE m # 0
    <3>1. m - 1 \in 0 .. m - 1 /\ m - 1 \in Nat
      BY <2>2, <2>4
    <3>2. PICK g : g = [t \in Small(m - 1) |-> Sums(g, f, t)]
      BY <2>1, <3>1
    <3>3. PICK h : h = [t \in Small(m) |-> Sums(g, f, t)]
      OBVIOUS
    <3>4. ASSUME NEW t \in Small(m) PROVE Sums(h, f, t) = Sums(g, f, t)
      <4>1. CASE t = {}
        BY <4>1 DEF Sums
      <4>2. CASE t # {}
        <5>1. PICK u : u = t \ {Chosen(t)}
          OBVIOUS
        <5>2. u \in Small(m - 1) /\ u \in Small(m)
          BY <1>1, <1>2, <2>2, <4>2, <5>1
        <5>3. h[u] = Sums(g, f, u) /\ g[u] = Sums(g, f, u)
          BY <3>2, <3>3, <5>2
        <5> QED BY <5>1, <5>3 DEF Sums
      <4> QED BY <4>1, <4>2
    <3>5. h = [t \in Small(m) |-> Sums(h, f, t)]
      BY <3>3, <3>4
    <3> QED BY <3>5
  <2> QED BY <2>3, <2>4
<1>4. Cardinality(S) \in Nat /\ Small(Cardinality(S)) = SUBSET S
  BY <1>1
<1>5. Cardinality(S) \notin T
  BY <1>3
<1>6. PICK g : g = [t \in SUBSET S |-> Sums(g, f, t)]
  BY <1>4, <1>5
<1> QED BY <1>6 DEF Adds

LEMMA AddsAgree ==
    ASSUME NEW f, NEW S, IsFiniteSet(S), NEW R \in SUBSET S, NEW g, Adds(g, f, S), NEW h, Adds(h, f, R)
    PROVE  g[R] = h[R]
<1> DEFINE F == {t \in SUBSET R : g[t] # h[t]}
<1> SUFFICES ASSUME F # {} PROVE FALSE
  OBVIOUS
<1>1. PICK t \in F : \A x \in t : t \ {x} \notin F
  <2>1. \A t \in F : IsFiniteSet(t)
    BY FS_Subset
  <2> HIDE DEF F
  <2> QED BY <2>1, Smallest
<1>2. g[t] = Sums(g, f, t) /\ h[t] = Sums(h, f, t)
  BY DEF Adds
<1>3. CASE t = {}
  BY <1>2, <1>3 DEF Sums
<1>4. CASE t # {}
  <2>1. Chosen(t) \in t
    BY <1>4 DEF Chosen
  <2>2. g[t \ {Chosen(t)}] = h[t \ {Chosen(t)}]
    BY <1>1, <2>1
  <2> QED BY <1>2, <2>2 DEF Sums
<1> QED BY <1>3, <1>4

LEMMA TotalEmpty == \A f : Total(f, {}) = 0
<1> SUFFICES ASSUME NEW f PROVE Total(f, {}) = 0
  OBVIOUS
<1>1. PICK h : Adds(h, f, {}) /\ Total(f, {}) = h[{}]
  BY AddsExists, TotalIs, FS_EmptySet
<1> QED BY <1>1 DEF Adds, Sums

LEMMA TotalStep ==
    ASSUME NEW f, NEW S, IsFiniteSet(S), S # {}
    PROVE  Chosen(S) \in S /\ Total(f, S) = f[Chosen(S)] + Total(f, S \ {Chosen(S)})
<1>1. PICK c, R : c = Chosen(S) /\ R = S \ {c}
  OBVIOUS
<1>2. c \in S /\ R \in SUBSET S /\ IsFiniteSet(R)
  BY <1>1, FS_Subset DEF Chosen
<1>3. PICK g : Adds(g, f, S) /\ Total(f, S) = g[S]
  BY AddsExists, TotalIs
<1>4. PICK h : Adds(h, f, R) /\ Total(f, R) = h[R]
  BY <1>2, AddsExists, TotalIs
<1>5. g[R] = h[R]
  BY <1>2, <1>3, <1>4, AddsAgree
<1>6. g[S] = f[c] + g[R]
  BY <1>1, <1>3 DEF Adds, Sums
<1> QED BY <1>1, <1>2, <1>3, <1>4, <1>5, <1>6

LEMMA TotalType ==
    ASSUME NEW f, NEW S, IsFiniteSet(S), \A x \in S : f[x] \in Int
    PROVE  Total(f, S) \in Int
<1> DEFINE F == {t \in SUBSET S : Total(f, t) \notin Int}
<1> SUFFICES ASSUME F # {} PROVE FALSE
  OBVIOUS
<1>1. PICK t \in F : \A x \in t : t \ {x} \notin F
  <2>1. \A t \in F : IsFiniteSet(t)
    BY FS_Subset
  <2> HIDE DEF F
  <2> QED BY <2>1, Smallest
<1>2. CASE t = {}
  BY <1>2, TotalEmpty
<1>3. CASE t # {}
  <2>1. Chosen(t) \in t /\ Total(f, t) = f[Chosen(t)] + Total(f, t \ {Chosen(t)})
    BY <1>3, TotalStep, FS_Subset
  <2>2. Total(f, t \ {Chosen(t)}) \in Int
    BY <1>1, <2>1
  <2> QED BY <2>1, <2>2
<1> QED BY <1>2, <1>3

\* A sum does not depend on which element comes first.
LEMMA TotalTakes ==
    ASSUME NEW f, NEW S, IsFiniteSet(S), \A x \in S : f[x] \in Int, NEW x \in S
    PROVE  Total(f, S) = f[x] + Total(f, S \ {x})
<1> DEFINE F == {t \in SUBSET S : \E y \in t : Total(f, t) # f[y] + Total(f, t \ {y})}
<1> SUFFICES ASSUME F # {} PROVE FALSE
  OBVIOUS
<1>1. PICK t \in F : \A y \in t : t \ {y} \notin F
  <2>1. \A t \in F : IsFiniteSet(t)
    BY FS_Subset
  <2> HIDE DEF F
  <2> QED BY <2>1, Smallest
<1>2. PICK y \in t : Total(f, t) # f[y] + Total(f, t \ {y})
  OBVIOUS
<1>3. PICK c : c = Chosen(t)
  OBVIOUS
<1>4. c \in t /\ Total(f, t) = f[c] + Total(f, t \ {c})
  BY <1>2, <1>3, TotalStep, FS_Subset
<1>5. c # y
  BY <1>2, <1>4
<1>6. t \ {c} \in SUBSET S /\ t \ {c} \notin F /\ t \ {y} \in SUBSET S /\ t \ {y} \notin F
  BY <1>1, <1>2, <1>4
<1>7. /\ Total(f, t \ {c}) = f[y] + Total(f, (t \ {c}) \ {y})
      /\ Total(f, t \ {y}) = f[c] + Total(f, (t \ {y}) \ {c})
  BY <1>2, <1>4, <1>5, <1>6
<1>8. (t \ {c}) \ {y} = (t \ {y}) \ {c}
  OBVIOUS
<1>9. Total(f, (t \ {c}) \ {y}) \in Int /\ f[c] \in Int /\ f[y] \in Int
  <2>1. (t \ {c}) \ {y} \in SUBSET S /\ IsFiniteSet((t \ {c}) \ {y})
    BY FS_Subset
  <2> QED BY <1>2, <1>4, <2>1, TotalType
<1> QED BY <1>2, <1>4, <1>7, <1>8, <1>9

LEMMA TotalPlus ==
    ASSUME NEW S, IsFiniteSet(S), NEW f, NEW g, NEW h,
           \A x \in S : f[x] \in Int /\ g[x] \in Int /\ h[x] = f[x] + g[x]
    PROVE  Total(h, S) = Total(f, S) + Total(g, S)
<1> DEFINE F == {t \in SUBSET S : Total(h, t) # Total(f, t) + Total(g, t)}
<1> SUFFICES ASSUME F # {} PROVE FALSE
  OBVIOUS
<1>1. PICK t \in F : \A x \in t : t \ {x} \notin F
  <2>1. \A t \in F : IsFiniteSet(t)
    BY FS_Subset
  <2> HIDE DEF F
  <2> QED BY <2>1, Smallest
<1>2. t \in SUBSET S /\ IsFiniteSet(t) /\ Total(h, t) # Total(f, t) + Total(g, t)
  BY FS_Subset
<1>3. CASE t = {}
  BY <1>2, <1>3, TotalEmpty
<1>4. CASE t # {}
  <2>1. PICK c, u : c = Chosen(t) /\ u = t \ {c}
    OBVIOUS
  <2>2. /\ c \in t /\ Total(f, t) = f[c] + Total(f, u)
        /\ Total(g, t) = g[c] + Total(g, u) /\ Total(h, t) = h[c] + Total(h, u)
    BY <1>2, <1>4, <2>1, TotalStep
  <2>3. u \in SUBSET S /\ Total(h, u) = Total(f, u) + Total(g, u)
    BY <1>1, <1>2, <2>1, <2>2
  <2>4. Total(f, u) \in Int /\ Total(g, u) \in Int
    BY <2>3, FS_Subset, TotalType
  <2>5. f[c] \in Int /\ g[c] \in Int /\ h[c] = f[c] + g[c]
    BY <1>2, <2>2
  <2> QED BY <1>2, <2>2, <2>3, <2>4, <2>5
<1> QED BY <1>3, <1>4

LEMMA TotalLess ==
    ASSUME NEW S, IsFiniteSet(S), NEW f, NEW g,
           \A x \in S : f[x] \in Int /\ g[x] \in Int /\ f[x] <= g[x]
    PROVE  Total(f, S) <= Total(g, S)
<1> DEFINE F == {t \in SUBSET S : ~ Total(f, t) <= Total(g, t)}
<1> SUFFICES ASSUME F # {} PROVE FALSE
  OBVIOUS
<1>1. PICK t \in F : \A x \in t : t \ {x} \notin F
  <2>1. \A t \in F : IsFiniteSet(t)
    BY FS_Subset
  <2> HIDE DEF F
  <2> QED BY <2>1, Smallest
<1>2. t \in SUBSET S /\ IsFiniteSet(t) /\ ~ Total(f, t) <= Total(g, t)
  BY FS_Subset
<1>3. CASE t = {}
  BY <1>2, <1>3, TotalEmpty
<1>4. CASE t # {}
  <2>1. PICK c, u : c = Chosen(t) /\ u = t \ {c}
    OBVIOUS
  <2>2. c \in t /\ Total(f, t) = f[c] + Total(f, u) /\ Total(g, t) = g[c] + Total(g, u)
    BY <1>2, <1>4, <2>1, TotalStep
  <2>3. u \in SUBSET S /\ Total(f, u) <= Total(g, u)
    BY <1>1, <1>2, <2>1, <2>2
  <2>4. Total(f, u) \in Int /\ Total(g, u) \in Int
    BY <2>3, FS_Subset, TotalType
  <2>5. f[c] \in Int /\ g[c] \in Int /\ f[c] <= g[c]
    BY <1>2, <2>2
  <2> QED BY <1>2, <2>2, <2>3, <2>4, <2>5
<1> QED BY <1>3, <1>4

LEMMA TotalSame ==
    ASSUME NEW S, IsFiniteSet(S), NEW f, NEW g, \A x \in S : f[x] \in Int /\ g[x] = f[x]
    PROVE  Total(g, S) = Total(f, S)
<1>1. Total(f, S) <= Total(g, S) /\ Total(g, S) <= Total(f, S)
  BY TotalLess
<1>2. Total(f, S) \in Int /\ Total(g, S) \in Int
  BY TotalType
<1> QED BY <1>1, <1>2

\* A sum of which a few terms are the same.
LEMMA TotalCount ==
    ASSUME NEW S, IsFiniteSet(S), NEW A \in SUBSET S, NEW d \in Int, NEW f,
           \A x \in S : f[x] = IF x \in A THEN d ELSE 0
    PROVE  Total(f, S) = d * Cardinality(A)
<1> DEFINE F == {t \in SUBSET S : Total(f, t) # d * Cardinality(A \cap t)}
<1> SUFFICES ASSUME F # {} PROVE FALSE
  <2>1. A \cap S = A
    OBVIOUS
  <2> QED BY <2>1
<1>1. PICK t \in F : \A x \in t : t \ {x} \notin F
  <2>1. \A t \in F : IsFiniteSet(t)
    BY FS_Subset
  <2> HIDE DEF F
  <2> QED BY <2>1, Smallest
<1>2. t \in SUBSET S /\ IsFiniteSet(t) /\ Total(f, t) # d * Cardinality(A \cap t)
  BY FS_Subset
<1>3. CASE t = {}
  <2>1. A \cap t = {}
    BY <1>3
  <2>2. Cardinality({}) = 0
    BY FS_EmptySet
  <2> QED BY <1>2, <1>3, <2>1, <2>2, TotalEmpty
<1>4. CASE t # {}
  <2>1. PICK c, u : c = Chosen(t) /\ u = t \ {c}
    OBVIOUS
  <2>2. c \in t /\ Total(f, t) = f[c] + Total(f, u)
    BY <1>2, <1>4, <2>1, TotalStep
  <2>3. u \in SUBSET S /\ Total(f, u) = d * Cardinality(A \cap u)
    BY <1>1, <1>2, <2>1, <2>2
  <2>4. A \cap u = (A \cap t) \ {c} /\ IsFiniteSet(A \cap t)
    BY <1>2, <2>1, FS_Subset
  <2>5. PICK k, m : k = Cardinality(A \cap u) /\ m = Cardinality(A \cap t)
    OBVIOUS
  <2>6. k \in Nat /\ m \in Nat /\ k = IF c \in A THEN m - 1 ELSE m
    <3>1. IsFiniteSet(A \cap u)
      BY <2>4, FS_Subset
    <3>2. k = IF c \in A \cap t THEN m - 1 ELSE m
      BY <2>4, <2>5, FS_RemoveElement
    <3> QED BY <2>2, <2>4, <2>5, <3>1, <3>2, FS_CardinalityType
  <2>7. f[c] = IF c \in A THEN d ELSE 0
    BY <1>2, <2>2
  <2>8. m = k + 1 => d * m = d * k + d
    BY <2>6
  <2>9. d * k \in Int
    BY <2>6
  <2>10. CASE c \in A
    <3>1. m = k + 1 /\ f[c] = d
      BY <2>6, <2>7, <2>10
    <3> QED BY <1>2, <2>2, <2>3, <2>5, <2>8, <2>9, <3>1
  <2>11. CASE c \notin A
    <3>1. m = k /\ f[c] = 0
      BY <2>6, <2>7, <2>11
    <3> QED BY <1>2, <2>2, <2>3, <2>5, <2>9, <3>1
  <2> QED BY <2>10, <2>11
<1> QED BY <1>3, <1>4

LEMMA TotalZero ==
    ASSUME NEW S, IsFiniteSet(S), NEW f, \A x \in S : f[x] = 0
    PROVE  Total(f, S) = 0
<1>1. Total(f, S) = 0 * Cardinality({})
  BY TotalCount
<1> QED BY <1>1, FS_EmptySet

\* A sum whose other terms are nothing.
LEMMA TotalWithin ==
    ASSUME NEW S, IsFiniteSet(S), NEW R \in SUBSET S, NEW f,
           \A x \in S : f[x] \in Int, \A x \in S \ R : f[x] = 0
    PROVE  Total(f, S) = Total(f, R)
<1> DEFINE F == {t \in SUBSET S : Total(f, t) # Total(f, R \cap t)}
<1> SUFFICES ASSUME F # {} PROVE FALSE
  <2>1. R \cap S = R
    OBVIOUS
  <2> QED BY <2>1
<1>1. PICK t \in F : \A x \in t : t \ {x} \notin F
  <2>1. \A t \in F : IsFiniteSet(t)
    BY FS_Subset
  <2> HIDE DEF F
  <2> QED BY <2>1, Smallest
<1>2. t \in SUBSET S /\ IsFiniteSet(t) /\ Total(f, t) # Total(f, R \cap t)
  BY FS_Subset
<1>3. CASE t = {}
  <2>1. R \cap t = t
    BY <1>3
  <2> QED BY <1>2, <2>1
<1>4. CASE t # {}
  <2>1. PICK c, u : c = Chosen(t) /\ u = t \ {c}
    OBVIOUS
  <2>2. c \in t /\ Total(f, t) = f[c] + Total(f, u)
    BY <1>2, <1>4, <2>1, TotalStep
  <2>3. u \in SUBSET S /\ Total(f, u) = Total(f, R \cap u)
    BY <1>1, <1>2, <2>1, <2>2
  <2>4. Total(f, u) \in Int
    BY <2>3, FS_Subset, TotalType
  <2>5. CASE c \in R
    <3>1. R \cap u = (R \cap t) \ {c} /\ c \in R \cap t /\ IsFiniteSet(R \cap t) /\ R \cap t \in SUBSET S
      BY <1>2, <2>1, <2>2, <2>5, FS_Subset
    <3>2. Total(f, R \cap t) = f[c] + Total(f, R \cap u)
      BY <3>1, TotalTakes
    <3> QED BY <1>2, <2>2, <2>3, <3>2
  <2>6. CASE c \notin R
    <3>1. R \cap u = R \cap t /\ f[c] = 0
      BY <1>2, <2>1, <2>2, <2>6
    <3>2. Total(f, R \cap u) = Total(f, R \cap t)
      BY <3>1
    <3>3. Total(f, t) = 0 + Total(f, u)
      BY <2>2, <3>1
    <3>4. Total(f, t) = Total(f, u)
      BY <2>4, <3>3
    <3> QED BY <1>2, <2>3, <3>2, <3>4
  <2> QED BY <2>5, <2>6
<1> QED BY <1>3, <1>4

\* The terms of a table may be added by rows or by columns.
LEMMA TotalSwaps ==
    ASSUME NEW S, IsFiniteSet(S), NEW L, IsFiniteSet(L), NEW h, \A s \in S, l \in L : h[s][l] \in Int
    PROVE  Total([s \in S |-> Total(h[s], L)], S) = Total([l \in L |-> Total([s \in S |-> h[s][l]], S)], L)
<1>1. PICK rows : rows = [s \in S |-> Total(h[s], L)]
  OBVIOUS
<1>2. PICK col : col = [l \in L |-> [s \in S |-> h[s][l]]]
  OBVIOUS
<1> DEFINE Sides(t) == [l \in L |-> Total(col[l], t)]
<1> DEFINE F == {t \in SUBSET S : Total(rows, t) # Total(Sides(t), L)}
<1>3. ASSUME F # {} PROVE FALSE
  <2>1. PICK t \in F : \A x \in t : t \ {x} \notin F
    <3>1. \A t \in F : IsFiniteSet(t)
      BY FS_Subset
    <3> HIDE DEF F
    <3> QED BY <1>3, <3>1, Smallest
  <2>2. t \in SUBSET S /\ IsFiniteSet(t) /\ Total(rows, t) # Total(Sides(t), L)
    BY FS_Subset
  <2>3. CASE t = {}
    <3>1. \A l \in L : Sides(t)[l] = 0
      BY <2>3, TotalEmpty
    <3>2. Total(Sides(t), L) = 0
      <4> HIDE DEF Sides
      <4> QED BY <3>1, TotalZero
    <3> QED BY <2>2, <2>3, <3>2, TotalEmpty
  <2>4. CASE t # {}
    <3>1. PICK c, u : c = Chosen(t) /\ u = t \ {c}
      OBVIOUS
    <3>2. c \in t /\ Total(rows, t) = rows[c] + Total(rows, u)
      BY <2>2, <2>4, <3>1, TotalStep
    <3>3. u \in SUBSET S /\ u \notin F
      BY <2>1, <2>2, <3>1, <3>2
    <3>4. Total(rows, u) = Total(Sides(u), L)
      BY <3>3
    <3>5. ASSUME NEW l \in L
          PROVE  h[c][l] \in Int /\ Sides(u)[l] \in Int /\ Sides(t)[l] = h[c][l] + Sides(u)[l]
      <4>1. \A s \in S : col[l][s] = h[s][l] /\ col[l][s] \in Int
        BY <1>2
      <4>2. Total(col[l], t) = col[l][c] + Total(col[l], u)
        BY <2>2, <2>4, <3>1, TotalStep
      <4>3. Total(col[l], u) \in Int
        BY <3>3, <4>1, FS_Subset, TotalType
      <4> QED BY <2>2, <3>2, <4>1, <4>2, <4>3
    <3>6. Total(Sides(t), L) = Total(h[c], L) + Total(Sides(u), L)
      <4> HIDE DEF Sides
      <4> QED BY <3>5, TotalPlus
    <3>7. rows[c] = Total(h[c], L)
      BY <1>1, <2>2, <3>2
    <3> QED BY <2>2, <3>2, <3>4, <3>6, <3>7
  <2> QED BY <2>3, <2>4
<1>4. Total(rows, S) = Total(Sides(S), L)
  BY <1>3
<1>5. Sides(S) = [l \in L |-> Total([s \in S |-> h[s][l]], S)]
  BY <1>2
<1> QED BY <1>1, <1>4, <1>5

\* No term is more than the whole.
LEMMA TotalBounds ==
    ASSUME NEW S, IsFiniteSet(S), NEW f, \A x \in S : f[x] \in Nat, NEW x \in S
    PROVE  Total(f, S) \in Nat /\ f[x] <= Total(f, S)
<1>1. PICK z : z = [y \in S |-> 0]
  OBVIOUS
<1>2. ASSUME NEW R \in SUBSET S PROVE Total(f, R) \in Nat
  <2>1. IsFiniteSet(R)
    BY FS_Subset
  <2>2. Total(z, R) = 0
    BY <1>1, <2>1, TotalZero
  <2>3. \A y \in R : z[y] \in Int /\ f[y] \in Int /\ z[y] <= f[y]
    BY <1>1
  <2>4. Total(z, R) <= Total(f, R)
    BY <2>1, <2>3, TotalLess
  <2>5. Total(f, R) \in Int
    BY <2>1, <2>3, TotalType
  <2> QED BY <2>2, <2>4, <2>5
<1>3. Total(f, S) = f[x] + Total(f, S \ {x})
  BY TotalTakes
<1>4. Total(f, S) \in Nat /\ Total(f, S \ {x}) \in Nat /\ f[x] \in Nat
  BY <1>2
<1> QED BY <1>3, <1>4

LEMMA MaxIs ==
    ASSUME NEW S, IsFiniteSet(S), S \in SUBSET Int, S # {}
    PROVE  Max(S) \in S /\ \A x \in S : x <= Max(S)
<1> DEFINE F == {t \in SUBSET S : t # {} /\ ~ \E m \in t : \A x \in t : x <= m}
<1>1. F = {}
  <2> SUFFICES ASSUME F # {} PROVE FALSE
    OBVIOUS
  <2>1. PICK t \in F : \A x \in t : t \ {x} \notin F
    <3>1. \A t \in F : IsFiniteSet(t)
      BY FS_Subset
    <3> HIDE DEF F
    <3> QED BY <3>1, Smallest
  <2>2. PICK c \in t : TRUE
    OBVIOUS
  <2>3. PICK u : u = t \ {c}
    OBVIOUS
  <2>4. u \in SUBSET S /\ u \notin F /\ t \in SUBSET S
    BY <2>1, <2>2, <2>3
  <2>5. CASE u = {}
    <3>1. \A x \in t : x <= c
      BY <2>2, <2>3, <2>4, <2>5
    <3> QED BY <2>2, <3>1
  <2>6. CASE u # {}
    <3>1. PICK m \in u : \A x \in u : x <= m
      BY <2>4, <2>6
    <3>2. CASE c <= m
      <4>1. m \in t /\ \A x \in t : x <= m
        BY <2>3, <3>1, <3>2
      <4> QED BY <4>1
    <3>3. CASE ~ c <= m
      <4>1. c \in Int /\ m \in Int /\ \A x \in u : x \in Int
        BY <2>2, <2>4, <3>1
      <4>2. \A x \in t : x <= c
        BY <2>3, <3>1, <3>3, <4>1
      <4> QED BY <2>2, <4>2
    <3> QED BY <3>2, <3>3
  <2> QED BY <2>5, <2>6
<1>2. PICK m \in S : \A x \in S : x <= m
  BY <1>1
<1>3. \A x \in S : m >= x
  BY <1>2
<1>4. Max(S) \in S /\ \A x \in S : Max(S) >= x
  BY <1>3 DEF Max
<1> QED BY <1>4

\* Of r or more elements, r have fewer than r below them.
LowerOf(A, r) == {s \in A : Cardinality({t \in A : t < s}) < r}
LEMMA LowerCount ==
    ASSUME NEW A \in SUBSET Int, IsFiniteSet(A), NEW r \in 0 .. Cardinality(A)
    PROVE  Cardinality(LowerOf(A, r)) = r
<1> DEFINE F == {t \in SUBSET A : \E n \in 0 .. Cardinality(t) : Cardinality(LowerOf(t, n)) # n}
<1> SUFFICES ASSUME F # {} PROVE FALSE
  OBVIOUS
<1>1. PICK B \in F : \A x \in B : B \ {x} \notin F
  <2>1. \A t \in F : IsFiniteSet(t)
    BY FS_Subset
  <2> HIDE DEF F
  <2> QED BY <2>1, Smallest
<1>2. B \in SUBSET Int /\ IsFiniteSet(B) /\ B \in SUBSET A
  BY FS_Subset
<1>3. PICK n \in 0 .. Cardinality(B) : Cardinality(LowerOf(B, n)) # n
  OBVIOUS
<1>4. CASE B = {}
  <2>1. LowerOf(B, n) = {} /\ n = 0
    BY <1>4, FS_EmptySet DEF LowerOf
  <2> QED BY <1>3, <2>1, FS_EmptySet
<1>5. CASE B # {}
  <2>1. PICK m \in B : \A x \in B : x <= m
    BY <1>2, <1>5, MaxIs
  <2>2. PICK C, k : C = B \ {m} /\ k = Cardinality(C)
    OBVIOUS
  <2>3. IsFiniteSet(C) /\ k \in Nat /\ Cardinality(B) = k + 1 /\ C \in SUBSET A /\ C \notin F
    <3>1. IsFiniteSet(C) /\ Cardinality(C) = Cardinality(B) - 1
      BY <1>2, <2>1, <2>2, FS_RemoveElement
    <3>2. k \in Nat /\ Cardinality(B) \in Nat
      BY <1>2, <2>2, <3>1, FS_CardinalityType
    <3> QED BY <1>1, <1>2, <2>1, <2>2, <3>1, <3>2
  <2>4. \A s \in C : {t \in B : t < s} = {t \in C : t < s}
    BY <1>2, <2>1, <2>2
  <2>5. {t \in B : t < m} = C
    <3>1. \A t \in B : t \in Int /\ m \in Int /\ t <= m
      BY <1>2, <2>1
    <3>2. \A t \in B : t < m <=> t # m
      BY <3>1
    <3>3. \A t : t \in C <=> t \in B /\ t # m
      BY <2>2
    <3> HIDE DEF F
    <3> QED BY <3>2, <3>3
  <2>6. CASE n <= k
    <3>1. n \in 0 .. k /\ Cardinality(LowerOf(C, n)) = n
      BY <1>3, <2>2, <2>3, <2>6
    <3>2. m \notin LowerOf(B, n)
      <4>1. Cardinality({t \in B : t < m}) = k
        BY <2>2, <2>5
      <4>2. ~ k < n
        BY <2>3, <3>1
      <4> HIDE DEF F
      <4> QED BY <4>1, <4>2 DEF LowerOf
    <3>3. LowerOf(B, n) = LowerOf(C, n)
      <4>1. ASSUME NEW s \in C PROVE s \in LowerOf(B, n) <=> s \in LowerOf(C, n)
        BY <2>2, <2>4 DEF LowerOf
      <4>2. LowerOf(B, n) \subseteq B /\ LowerOf(C, n) \subseteq C /\ C = B \ {m}
        BY <2>2 DEF LowerOf
      <4> HIDE DEF F
      <4> QED BY <3>2, <4>1, <4>2
    <3> QED BY <1>3, <3>1, <3>3
  <2>7. CASE ~ n <= k
    <3>1. n = k + 1
      BY <1>3, <2>3, <2>7
    <3>2. ASSUME NEW s \in B PROVE Cardinality({t \in B : t < s}) < n
      <4>1. {t \in B : t < s} \in SUBSET (B \ {s})
        BY <1>2
      <4>2. IsFiniteSet(B \ {s}) /\ Cardinality(B \ {s}) = k
        <5>1. IsFiniteSet(B) /\ Cardinality(B) = k + 1 /\ k \in Nat
          BY <1>2, <2>3
        <5>2. IsFiniteSet(B \ {s}) /\ Cardinality(B \ {s}) = Cardinality(B) - 1
          <6> HIDE DEF F
          <6> QED BY <3>2, <5>1, FS_RemoveElement
        <5> QED BY <5>1, <5>2
      <4>3. PICK D : D = {t \in B : t < s}
        OBVIOUS
      <4>4. IsFiniteSet(D) /\ Cardinality(D) <= k
        BY <4>1, <4>2, <4>3, FS_Subset
      <4>5. Cardinality(D) \in Nat
        BY <4>4, FS_CardinalityType
      <4>6. Cardinality(D) < n
        BY <2>3, <3>1, <4>4, <4>5
      <4> QED BY <4>3, <4>6
    <3>3. LowerOf(B, n) = B
      BY <3>2 DEF LowerOf
    <3> QED BY <1>3, <2>3, <3>1, <3>3
  <2> QED BY <2>6, <2>7
<1> QED BY <1>4, <1>5

-----------------------------------------------------------------------------
(* What a settlement pays out *)

LEMMA TableTypes ==
    ASSUME TypeOK
    PROVE  /\ Seats \in SUBSET Int /\ IsFiniteSet(Seats) /\ current_player \in Seats
           /\ \A s \in Seats : stacks[s] \in Nat /\ committed[s] \in Nat
<1>1. players \in Nat
  BY DEF TypeOK
<1>2. 0 \in Int /\ players - 1 \in Int
  BY <1>1
<1>3. IsFiniteSet(0 .. players - 1)
  BY <1>2, FS_Interval
<1>4. Seats \in SUBSET Int /\ IsFiniteSet(Seats)
  BY <1>2, <1>3 DEF Seats
<1>5. current_player \in Seats /\ \A s \in Seats : stacks[s] \in Nat /\ committed[s] \in Nat
  BY DEF TypeOK
<1> QED BY <1>4, <1>5

LEMMA LevelTypes ==
    ASSUME TypeOK
    PROVE  /\ Levels \in SUBSET (Nat \ {0}) /\ IsFiniteSet(Levels)
           /\ \A s \in Seats : committed[s] \in Levels \cup {0}
<1>1. Levels \in SUBSET (Nat \ {0}) /\ \A s \in Seats : committed[s] \in Levels \cup {0}
  BY TableTypes DEF Levels
<1>2. current_bet \in Nat /\ \A l \in Levels : l <= current_bet
  BY DEF TypeOK, Levels
<1>3. Levels \in SUBSET Nat
  BY <1>1
<1> QED BY <1>1, <1>2, <1>3, FS_BoundedSetOfNaturals

\* The level below is the next one, or nothing.
LEMMA BelowIs ==
    ASSUME TypeOK, NEW l \in Levels
    PROVE  /\ Below(l) \in Levels \cup {0} /\ Below(l) \in Nat /\ Below(l) < l
           /\ \A k \in Levels : k < l <=> k <= Below(l)
<1>1. PICK K : K = {0} \cup {k \in Levels : k < l}
  OBVIOUS
<1>2. Levels \in SUBSET (Nat \ {0}) /\ IsFiniteSet(Levels) /\ l \in Nat \ {0}
  BY LevelTypes
<1>3. K \in SUBSET Int /\ K # {} /\ IsFiniteSet(K)
  <2>1. IsFiniteSet({k \in Levels : k < l})
    BY <1>2, FS_Subset
  <2>2. IsFiniteSet({k \in Levels : k < l} \cup {0})
    BY <2>1, FS_AddElement
  <2>3. K = {k \in Levels : k < l} \cup {0}
    BY <1>1
  <2>4. IsFiniteSet(K)
    BY <2>2, <2>3
  <2>5. \A k \in K : k \in Int
    BY <1>1, <1>2
  <2>6. K # {}
    BY <1>1
  <2> QED BY <2>4, <2>5, <2>6
<1>4. Max(K) \in K /\ \A x \in K : x <= Max(K)
  BY <1>3, MaxIs
<1>5. PICK m : m = Max(K)
  OBVIOUS
<1>6. m \in K /\ (\A x \in K : x <= m) /\ Below(l) = m
  BY <1>1, <1>4, <1>5 DEF Below
<1>7. m \in Levels \cup {0} /\ m \in Nat /\ m < l
  BY <1>1, <1>2, <1>6
<1>8. \A k \in Levels : k < l <=> k <= m
  <2> SUFFICES ASSUME NEW k \in Levels PROVE k < l <=> k <= m
    OBVIOUS
  <2>1. k \in Nat
    BY <1>2
  <2>2. k < l => k <= m
    BY <1>1, <1>6
  <2> QED BY <1>2, <1>7, <2>1, <2>2
<1> QED BY <1>6, <1>7, <1>8

\* The layers up to an amount.
Layers(c) == [l \in Levels |-> IF l <= c THEN l - Below(l) ELSE 0]

LEMMA LayerTypes ==
    ASSUME TypeOK, NEW c, NEW l \in Levels
    PROVE  Layers(c)[l] = (IF l <= c THEN l - Below(l) ELSE 0) /\ Layers(c)[l] \in Nat
<1>1. l \in Nat /\ Below(l) \in Nat /\ Below(l) < l
  BY LevelTypes, BelowIs
<1>2. l - Below(l) \in Nat
  BY <1>1
<1> QED BY <1>2 DEF Layers

LEMMA LayersAddUp ==
    ASSUME TypeOK, NEW c \in Levels \cup {0}
    PROVE  Total(Layers(c), Levels) = c
<1> DEFINE T == {n \in Levels \cup {0} : Total(Layers(n), Levels) # n}
<1> SUFFICES ASSUME T # {} PROVE FALSE
  OBVIOUS
<1>1. Levels \in SUBSET (Nat \ {0}) /\ IsFiniteSet(Levels)
  BY LevelTypes
<1>2. PICK m \in T : \A n \in 0 .. m - 1 : n \notin T
  <2>1. \A n \in Levels \cup {0} : n \in Nat
    BY <1>1
  <2>2. \A n \in T : n \in Nat
    BY <2>1
  <2>3. T \subseteq Nat
    <3> HIDE DEF T
    <3> QED BY <2>2
  <2> HIDE DEF T
  <2> QED BY <2>3, FirstOne
<1>3. CASE m = 0
  <2>1. \A l \in Levels : ~ l <= 0
    BY <1>1
  <2>2. \A l \in Levels : Layers(0)[l] = 0
    BY <2>1, LayerTypes
  <2>3. Total(Layers(0), Levels) = 0
    BY <1>1, <2>2, TotalZero
  <2> QED BY <1>3, <2>3
<1>4. CASE m # 0
  <2>1. m \in Levels /\ m \in Nat
    BY <1>1, <1>4
  <2>2. PICK b : b = Below(m)
    OBVIOUS
  <2>3. b \in Levels \cup {0} /\ b \in Nat /\ b < m /\ \A k \in Levels : k < m <=> k <= b
    BY <2>1, <2>2, BelowIs
  <2>4. Total(Layers(b), Levels) = b
    <3>1. b \in 0 .. m - 1
      BY <2>1, <2>3
    <3> QED BY <1>2, <2>3, <3>1
  <2>5. PICK top : top = [l \in Levels |-> IF l \in {m} THEN m - b ELSE 0]
    OBVIOUS
  <2>6. Total(top, Levels) = m - b
    <3>1. m - b \in Int /\ {m} \in SUBSET Levels /\ Cardinality({m}) = 1
      BY <2>1, <2>3, FS_Singleton
    <3>2. Total(top, Levels) = (m - b) * Cardinality({m})
      BY <1>1, <2>5, <3>1, TotalCount
    <3> QED BY <3>1, <3>2
  <2>7. ASSUME NEW l \in Levels
        PROVE  Layers(b)[l] \in Int /\ top[l] \in Int /\ Layers(m)[l] = Layers(b)[l] + top[l]
    <3>1. l \in Nat /\ Layers(b)[l] = (IF l <= b THEN l - Below(l) ELSE 0) /\ Layers(b)[l] \in Int
      BY <1>1, LayerTypes
    <3>2. Layers(m)[l] = (IF l <= m THEN l - Below(l) ELSE 0) /\ Layers(m)[l] \in Int
      BY LayerTypes
    <3>3. top[l] = IF l = m THEN m - b ELSE 0
      BY <2>5
    <3>4. l < m <=> l <= b
      BY <2>3
    <3>5. CASE l = m
      BY <2>1, <2>2, <2>3, <3>1, <3>2, <3>3, <3>4, <3>5
    <3>6. CASE l # m
      <4>1. l <= m <=> l <= b
        BY <2>1, <3>1, <3>4, <3>6
      <4>2. Layers(m)[l] = Layers(b)[l] /\ top[l] = 0
        BY <3>1, <3>2, <3>3, <3>6, <4>1
      <4> QED BY <3>1, <4>2
    <3> QED BY <3>5, <3>6
  <2>8. Total(Layers(m), Levels) = Total(Layers(b), Levels) + Total(top, Levels)
    BY <1>1, <2>7, TotalPlus
  <2>9. Total(Layers(m), Levels) = m
    BY <2>1, <2>3, <2>4, <2>6, <2>8
  <2> QED BY <2>9
<1> QED BY <1>3, <1>4

Amounts == [l \in Levels |-> Amount(l)]

LEMMA AmountIs ==
    ASSUME TypeOK, NEW l \in Levels
    PROVE  /\ Contributors(l) \in SUBSET Seats /\ IsFiniteSet(Contributors(l)) /\ Cardinality(Contributors(l)) \in Nat
           /\ l - Below(l) \in Nat /\ Amount(l) \in Nat
<1>1. Contributors(l) \in SUBSET Seats
  BY DEF Contributors
<1>2. IsFiniteSet(Contributors(l)) /\ Cardinality(Contributors(l)) \in Nat
  BY <1>1, TableTypes, FS_Subset, FS_CardinalityType
<1>3. l \in Nat /\ Below(l) \in Nat /\ Below(l) < l
  BY LevelTypes, BelowIs
<1>4. l - Below(l) \in Nat
  BY <1>3
<1>5. PICK k, d : k = Cardinality(Contributors(l)) /\ d = l - Below(l)
  OBVIOUS
<1>6. d * k \in Nat
  BY <1>2, <1>4, <1>5
<1> QED BY <1>1, <1>2, <1>4, <1>5, <1>6 DEF Amount

\* The pots hold what the seats have put in.
LEMMA PotsHoldAll ==
    ASSUME TypeOK PROVE Total(Amounts, Levels) = Total(committed, Seats)
<1>1. PICK h : h = [s \in Seats |-> Layers(committed[s])]
  OBVIOUS
<1>2. IsFiniteSet(Seats) /\ IsFiniteSet(Levels)
  BY TableTypes, LevelTypes
<1>3. \A s \in Seats, l \in Levels : h[s][l] \in Int
  BY <1>1, LayerTypes
<1>4. Total([s \in Seats |-> Total(h[s], Levels)], Seats)
      = Total([l \in Levels |-> Total([s \in Seats |-> h[s][l]], Seats)], Levels)
  BY <1>2, <1>3, TotalSwaps
<1>5. PICK rows, cols : /\ rows = [s \in Seats |-> Total(h[s], Levels)]
                        /\ cols = [l \in Levels |-> Total([s \in Seats |-> h[s][l]], Seats)]
  OBVIOUS
<1>6. Total(rows, Seats) = Total(committed, Seats)
  <2>1. \A s \in Seats : committed[s] \in Int /\ rows[s] = committed[s]
    <3> SUFFICES ASSUME NEW s \in Seats PROVE committed[s] \in Int /\ rows[s] = committed[s]
      OBVIOUS
    <3>1. committed[s] \in Int /\ committed[s] \in Levels \cup {0}
      BY TableTypes, LevelTypes
    <3>2. Total(Layers(committed[s]), Levels) = committed[s]
      BY <3>1, LayersAddUp
    <3> QED BY <1>1, <1>5, <3>1, <3>2
  <2> QED BY <1>2, <2>1, TotalSame
<1>7. Total(Amounts, Levels) = Total(cols, Levels)
  <2>1. ASSUME NEW l \in Levels PROVE cols[l] \in Int /\ Amounts[l] = cols[l]
    <3>1. PICK col : col = [s \in Seats |-> h[s][l]]
      OBVIOUS
    <3>2. PICK d : d = l - Below(l)
      OBVIOUS
    <3>3. d \in Int /\ Contributors(l) \in SUBSET Seats /\ Amount(l) \in Int
      BY <3>2, AmountIs
    <3>4. \A s \in Seats : col[s] = IF s \in Contributors(l) THEN d ELSE 0
      <4> SUFFICES ASSUME NEW s \in Seats PROVE col[s] = IF s \in Contributors(l) THEN d ELSE 0
        OBVIOUS
      <4>1. col[s] = Layers(committed[s])[l]
        BY <1>1, <3>1
      <4>2. Layers(committed[s])[l] = IF l <= committed[s] THEN d ELSE 0
        BY <3>2, LayerTypes
      <4>3. s \in Contributors(l) <=> l <= committed[s]
        BY TableTypes, LevelTypes DEF Contributors
      <4> QED BY <4>1, <4>2, <4>3
    <3>5. Total(col, Seats) = d * Cardinality(Contributors(l))
      BY <1>2, <3>3, <3>4, TotalCount
    <3>6. Amounts[l] = Amount(l) /\ cols[l] = Total(col, Seats)
      BY <1>5, <3>1 DEF Amounts
    <3>7. Amount(l) = d * Cardinality(Contributors(l))
      BY <3>2 DEF Amount
    <3> QED BY <3>3, <3>5, <3>6, <3>7
  <2> QED BY <1>2, <2>1, TotalSame
<1> QED BY <1>4, <1>5, <1>6, <1>7

\* Every contested pot goes to seats that may win it.
Fair(winners) == \A l \in Contested : winners[l] # {} /\ winners[l] \subseteq Eligible(l)

LEMMA NotRefused ==
    ASSUME NEW winners, Refusal(winners) = "none" PROVE Fair(winners)
  BY DEF Refusal, Fair

Paid(level, winners) == [s \in Seats |-> PaidFrom(level, winners, s)]

LEMMA RefundIsPaid ==
    ASSUME TypeOK, NEW winners, NEW l \in Levels, Refunded(l)
    PROVE  /\ \A s \in Seats : Paid(l, winners)[s] \in Nat
           /\ \A s \in Seats \ Contributors(l) : Paid(l, winners)[s] = 0
           /\ Total(Paid(l, winners), Seats) = Amount(l)
<1>1. PICK f, a : f = Paid(l, winners) /\ a = Amount(l)
  OBVIOUS
<1>2. a \in Nat /\ Contributors(l) \in SUBSET Seats /\ Cardinality(Contributors(l)) = 1
  BY <1>1, AmountIs DEF Refunded
<1>3. \A s \in Seats : f[s] = IF s \in Contributors(l) THEN a ELSE 0
  BY <1>1 DEF Paid, PaidFrom
<1>4. Total(f, Seats) = a * Cardinality(Contributors(l))
  BY <1>2, <1>3, TableTypes, TotalCount
<1>5. Total(f, Seats) = a
  BY <1>2, <1>4
<1>6. (\A s \in Seats : f[s] \in Nat) /\ \A s \in Seats \ Contributors(l) : f[s] = 0
  BY <1>2, <1>3
<1> QED BY <1>1, <1>5, <1>6

LEMMA Division ==
    ASSUME NEW a \in Nat, NEW k \in Nat \ {0}
    PROVE  /\ a \div k \in Nat /\ a % k \in 0 .. k - 1
           /\ (a \div k) * k + (a % k) = a
  OBVIOUS

LEMMA SharesArePaid ==
    ASSUME TypeOK, NEW winners, NEW l \in Levels, Fair(winners), ~ Refunded(l)
    PROVE  /\ \A s \in Seats : Paid(l, winners)[s] \in Nat
           /\ \A s \in Seats \ Contributors(l) : Paid(l, winners)[s] = 0
           /\ Total(Paid(l, winners), Seats) = Amount(l)
<1>1. PICK w, a, k : w = winners[l] /\ a = Amount(l) /\ k = Cardinality(w)
  OBVIOUS
<1>2. /\ w # {} /\ w \in SUBSET Seats /\ w \in SUBSET Contributors(l)
      /\ w \in SUBSET Int /\ IsFiniteSet(w) /\ IsFiniteSet(Seats)
  <2>1. l \in Contested
    BY DEF Contested
  <2>2. w # {} /\ w \in SUBSET Contributors(l)
    BY <1>1, <2>1 DEF Fair, Eligible
  <2>3. w \in SUBSET Seats /\ Seats \in SUBSET Int /\ IsFiniteSet(Seats)
    BY <2>2, AmountIs, TableTypes
  <2> QED BY <2>2, <2>3, FS_Subset
<1>3. a \in Nat /\ k \in Nat \ {0}
  <2>1. k \in Nat /\ k # 0
    BY <1>1, <1>2, FS_CardinalityType, FS_EmptySet
  <2> QED BY <1>1, <2>1, AmountIs
<1>4. PICK q, r : q = a \div k /\ r = a % k
  OBVIOUS
<1>5. q \in Nat /\ r \in 0 .. k - 1 /\ q * k + r = a
  BY <1>3, <1>4, Division
<1>6. PICK odd : odd = LowerOf(w, r)
  OBVIOUS
<1>7. odd \in SUBSET w /\ Cardinality(odd) = r
  <2>1. r \in 0 .. Cardinality(w)
    BY <1>1, <1>3, <1>5
  <2>2. odd \in SUBSET w
    BY <1>6 DEF LowerOf
  <2> QED BY <1>2, <1>6, <2>1, <2>2, LowerCount
<1>8. PICK f, g, h : /\ f = [s \in Seats |-> IF s \in w THEN q ELSE 0]
                     /\ g = [s \in Seats |-> IF s \in odd THEN 1 ELSE 0]
                     /\ h = Paid(l, winners)
  OBVIOUS
<1>9. ASSUME NEW s \in Seats PROVE f[s] \in Nat /\ g[s] \in Nat /\ h[s] = f[s] + g[s]
  <2>1. h[s] = IF s \in w THEN Share(l, w, s) ELSE 0
    BY <1>1, <1>8 DEF Paid, PaidFrom
  <2>2. Share(l, w, s) = q + (IF Cardinality({t \in w : t < s}) < r THEN 1 ELSE 0)
    BY <1>1, <1>4 DEF Share
  <2>3. s \in w => (s \in odd <=> Cardinality({t \in w : t < s}) < r)
    BY <1>6 DEF LowerOf
  <2>4. f[s] = (IF s \in w THEN q ELSE 0) /\ g[s] = (IF s \in odd THEN 1 ELSE 0)
    BY <1>8
  <2>5. CASE s \in w
    <3>1. h[s] = q + (IF s \in odd THEN 1 ELSE 0)
      BY <2>1, <2>2, <2>3, <2>5
    <3> QED BY <1>5, <2>4, <2>5, <3>1
  <2>6. CASE s \notin w
    <3>1. h[s] = 0 /\ f[s] = 0 /\ g[s] = 0
      BY <1>7, <2>1, <2>4, <2>6
    <3> QED BY <3>1
  <2> QED BY <2>5, <2>6
<1>10. Total(h, Seats) = Total(f, Seats) + Total(g, Seats)
  <2>1. \A s \in Seats : f[s] \in Int /\ g[s] \in Int /\ h[s] = f[s] + g[s]
    BY <1>9
  <2>2. IsFiniteSet(Seats)
    BY <1>2
  <2> QED BY <2>1, <2>2, TotalPlus
<1>11. Total(f, Seats) = q * k
  <2>1. \A s \in Seats : f[s] = IF s \in w THEN q ELSE 0
    BY <1>8
  <2>2. IsFiniteSet(Seats) /\ w \in SUBSET Seats /\ q \in Int
    BY <1>2, <1>5
  <2>3. Total(f, Seats) = q * Cardinality(w)
    BY <2>1, <2>2, TotalCount
  <2> QED BY <1>1, <2>3
<1>12. Total(g, Seats) = r
  <2>1. IsFiniteSet(Seats) /\ odd \in SUBSET Seats /\ 1 \in Int
    BY <1>2, <1>7
  <2>2. \A s \in Seats : g[s] = IF s \in odd THEN 1 ELSE 0
    BY <1>8
  <2>3. Total(g, Seats) = 1 * Cardinality(odd)
    BY <2>1, <2>2, TotalCount
  <2> QED BY <1>5, <1>7, <2>3
<1>13. Total(h, Seats) = a
  BY <1>5, <1>10, <1>11, <1>12
<1>14. \A s \in Seats : h[s] \in Nat
  BY <1>9
<1>15. \A s \in Seats \ Contributors(l) : h[s] = 0
  BY <1>1, <1>2, <1>8 DEF Paid, PaidFrom
<1> QED BY <1>1, <1>8, <1>13, <1>14, <1>15

\* A pot is paid out to those who have contributed to it, and no more of it than it holds.
LEMMA PotIsPaid ==
    ASSUME TypeOK, NEW winners, NEW l \in Levels, Fair(winners)
    PROVE  /\ \A s \in Seats : Paid(l, winners)[s] \in Nat
           /\ \A s \in Seats \ Contributors(l) : Paid(l, winners)[s] = 0
           /\ Total(Paid(l, winners), Seats) = Amount(l)
  BY RefundIsPaid, SharesArePaid

Awards(winners) == [s \in Seats |-> Awarded(winners, s)]

LEMMA AwardsAreChips ==
    ASSUME TypeOK, NEW winners, Fair(winners), NEW s \in Seats
    PROVE  Awards(winners)[s] = Awarded(winners, s) /\ Awarded(winners, s) \in Nat
<1>1. PICK f : f = [l \in Levels |-> PaidFrom(l, winners, s)]
  OBVIOUS
<1>2. \A l \in Levels : f[l] = Paid(l, winners)[s] /\ f[l] \in Nat
  BY <1>1, PotIsPaid DEF Paid
<1>3. Total(f, Levels) \in Nat
  <2>1. IsFiniteSet(Levels)
    BY LevelTypes
  <2>2. CASE Levels = {}
    BY <2>2, TotalEmpty
  <2>3. CASE Levels # {}
    BY <1>2, <2>1, <2>3, TotalBounds
  <2> QED BY <2>2, <2>3
<1> QED BY <1>1, <1>3 DEF Awards, Awarded

\* All that the seats have put in is paid out.
LEMMA AllIsPaid ==
    ASSUME TypeOK, NEW winners, Fair(winners)
    PROVE  Total(Awards(winners), Seats) = Total(committed, Seats)
<1>1. PICK h : h = [s \in Seats |-> [l \in Levels |-> PaidFrom(l, winners, s)]]
  OBVIOUS
<1>2. IsFiniteSet(Seats) /\ IsFiniteSet(Levels)
  BY TableTypes, LevelTypes
<1>3. ASSUME NEW s \in Seats, NEW l \in Levels PROVE h[s][l] \in Int
  <2>1. h[s][l] = Paid(l, winners)[s]
    BY <1>1 DEF Paid
  <2> QED BY <2>1, PotIsPaid
<1>4. Total([s \in Seats |-> Total(h[s], Levels)], Seats)
      = Total([l \in Levels |-> Total([s \in Seats |-> h[s][l]], Seats)], Levels)
  BY <1>2, <1>3, TotalSwaps
<1>5. Awards(winners) = [s \in Seats |-> Total(h[s], Levels)]
  BY <1>1 DEF Awards, Awarded
<1>6. ASSUME NEW l \in Levels PROVE Total([s \in Seats |-> h[s][l]], Seats) = Amount(l)
  <2>1. [s \in Seats |-> h[s][l]] = Paid(l, winners)
    BY <1>1 DEF Paid
  <2> QED BY <2>1, PotIsPaid
<1>7. [l \in Levels |-> Total([s \in Seats |-> h[s][l]], Seats)] = Amounts
  BY <1>6 DEF Amounts
<1> QED BY <1>4, <1>5, <1>7, PotsHoldAll

\* A seat gets no more of a pot than the pot holds up to the seat's own stake.
LEMMA AwardIsMatched ==
    ASSUME TypeOK, NEW winners, Fair(winners), NEW s \in Seats
    PROVE  Awarded(winners, s) <= Total([t \in Seats |-> Least(committed[s], committed[t])], Seats)
<1>1. PICK f : f = [l \in Levels |-> PaidFrom(l, winners, s)]
  OBVIOUS
<1>2. PICK h : h = [t \in Seats |-> Layers(Least(committed[s], committed[t]))]
  OBVIOUS
<1>3. PICK rows, cols : /\ rows = [t \in Seats |-> Total(h[t], Levels)]
                        /\ cols = [l \in Levels |-> Total([t \in Seats |-> h[t][l]], Seats)]
  OBVIOUS
<1>4. IsFiniteSet(Seats) /\ IsFiniteSet(Levels)
  BY TableTypes, LevelTypes
<1>5. \A t \in Seats, l \in Levels : h[t][l] \in Int
  BY <1>2, LayerTypes
<1>6. Total(rows, Seats) = Total(cols, Levels)
  BY <1>3, <1>4, <1>5, TotalSwaps
<1>7. rows = [t \in Seats |-> Least(committed[s], committed[t])]
  <2>1. ASSUME NEW t \in Seats PROVE rows[t] = Least(committed[s], committed[t])
    <3>1. Least(committed[s], committed[t]) \in Levels \cup {0}
      BY LevelTypes DEF Least
    <3> QED BY <1>2, <1>3, <3>1, LayersAddUp
  <2> QED BY <1>3, <2>1
<1>8. ASSUME NEW l \in Levels PROVE f[l] \in Int /\ cols[l] \in Int /\ f[l] <= cols[l]
  <2>1. f[l] = Paid(l, winners)[s] /\ f[l] \in Nat
    BY <1>1, PotIsPaid DEF Paid
  <2>2. PICK col : col = [t \in Seats |-> h[t][l]]
    OBVIOUS
  <2>3. PICK d : d = l - Below(l)
    OBVIOUS
  <2>4. cols[l] = Total(col, Seats) /\ d \in Int
    BY <1>3, <2>2, <2>3, AmountIs
  <2>5. s \in Contributors(l) <=> l <= committed[s]
    BY TableTypes, LevelTypes DEF Contributors
  <2>6. \A t \in Seats : col[t] = IF l <= Least(committed[s], committed[t]) THEN d ELSE 0
    BY <1>2, <2>2, <2>3, LayerTypes
  <2>7. CASE s \in Contributors(l)
    <3>1. \A t \in Seats : col[t] = IF t \in Contributors(l) THEN d ELSE 0
      <4> SUFFICES ASSUME NEW t \in Seats PROVE col[t] = IF t \in Contributors(l) THEN d ELSE 0
        OBVIOUS
      <4>1. l \in Nat /\ committed[s] \in Nat /\ committed[t] \in Nat
        BY TableTypes, LevelTypes
      <4>2. l <= Least(committed[s], committed[t]) <=> l <= committed[t]
        BY <2>5, <2>7, <4>1 DEF Least
      <4>3. t \in Contributors(l) <=> l <= committed[t]
        BY <4>1 DEF Contributors
      <4> QED BY <2>6, <4>2, <4>3
    <3>2. Total(col, Seats) = d * Cardinality(Contributors(l))
      BY <1>4, <2>4, <3>1, AmountIs, TotalCount
    <3>3. Total(col, Seats) = Amount(l) /\ Amount(l) \in Nat
      BY <2>3, <3>2, AmountIs DEF Amount
    <3>4. Paid(l, winners)[s] <= Amount(l)
      BY <1>4, PotIsPaid, TotalBounds
    <3> QED BY <2>1, <2>4, <3>3, <3>4
  <2>8. CASE s \notin Contributors(l)
    <3>1. f[l] = 0
      BY <2>1, <2>8, PotIsPaid
    <3>2. \A t \in Seats : col[t] = 0
      <4> SUFFICES ASSUME NEW t \in Seats PROVE col[t] = 0
        OBVIOUS
      <4>1. l \in Nat /\ committed[s] \in Nat /\ committed[t] \in Nat
        BY TableTypes, LevelTypes
      <4>2. ~ l <= Least(committed[s], committed[t])
        BY <2>5, <2>8, <4>1 DEF Least
      <4> QED BY <2>6, <4>2
    <3>3. Total(col, Seats) = 0
      BY <1>4, <3>2, TotalZero
    <3> QED BY <2>4, <3>1, <3>3
  <2> QED BY <2>7, <2>8
<1>9. Total(f, Levels) <= Total(cols, Levels)
  BY <1>4, <1>8, TotalLess
<1>10. Awarded(winners, s) = Total(f, Levels)
  BY <1>1 DEF Awarded
<1> QED BY <1>6, <1>7, <1>9, <1>10

-----------------------------------------------------------------------------
(* Every step *)

LEMMA ActMovesChips ==
  ASSUME TypeOK, Act
  PROVE  stacks'[current_player] + committed'[current_player] = stacks[current_player] + committed[current_player]
<1>1. current_player \in Seats /\ stacks[current_player] \in Nat /\ committed[current_player] \in Nat
  BY TableTypes
<1>2. ASSUME NEW amount \in Int, Commit(amount)
      PROVE  stacks'[current_player] + committed'[current_player] = stacks[current_player] + committed[current_player]
  <2>1. /\ stacks'[current_player] = stacks[current_player] - amount
        /\ committed'[current_player] = committed[current_player] + amount
    BY <1>1, <1>2 DEF Commit, TypeOK
  <2> QED BY <1>1, <2>1
<1>3. current_bet \in Nat /\ min_raise \in Nat
  BY DEF TypeOK
<1>4. CASE Fold \/ Check
  BY <1>4 DEF Fold, Check
<1>5. CASE Call
  <2>1. Least(ToCall, stacks[current_player]) \in Int
    BY <1>1, <1>3 DEF ToCall, Least
  <2> QED BY <1>2, <1>5, <2>1 DEF Call
<1>6. CASE Raise
  <2>1. PICK target \in current_bet + min_raise .. committed[current_player] + stacks[current_player] :
          Commit(target - committed[current_player])
    BY <1>6 DEF Raise
  <2>2. target - committed[current_player] \in Int
    BY <1>1
  <2> QED BY <1>2, <2>1, <2>2
<1>7. CASE AllIn
  <2>1. stacks[current_player] \in Int /\ Commit(stacks[current_player])
    BY <1>1, <1>7 DEF AllIn
  <2> QED BY <1>2, <2>1
<1> QED BY <1>4, <1>5, <1>6, <1>7 DEF Act

\* A sum of which one term changes.
LEMMA TotalChanges ==
  ASSUME NEW S, IsFiniteSet(S), NEW c \in S, NEW f, NEW g,
         \A s \in S : f[s] \in Int /\ g[s] \in Int, \A s \in S \ {c} : g[s] = f[s]
  PROVE  /\ Total(g, S) = Total(f, S) + g[c] - f[c]
         /\ Total(f, S) \in Int /\ Total(g, S) \in Int
<1>1. PICK R : R = S \ {c}
  OBVIOUS
<1>2. IsFiniteSet(R) /\ \A s \in R : f[s] \in Int /\ g[s] = f[s]
  BY <1>1, FS_RemoveElement
<1>3. Total(f, S) = f[c] + Total(f, R) /\ Total(g, S) = g[c] + Total(g, R)
  BY <1>1, TotalTakes
<1>4. Total(g, R) = Total(f, R)
  BY <1>2, TotalSame
<1>5. Total(f, R) \in Int
  BY <1>2, TotalType
<1> QED BY <1>3, <1>4, <1>5

LEMMA ActKeepsChips == ASSUME TypeOK, Act PROVE Chips' = Chips
<1>1. Moves
  BY ActMoves
<1>2. PICK S, c, f, g, x, y : /\ S = Seats /\ c = current_player /\ f = stacks /\ g = stacks'
                              /\ x = committed /\ y = committed'
  OBVIOUS
<1>3. IsFiniteSet(S) /\ c \in S /\ g[c] + y[c] = f[c] + x[c]
  BY <1>2, TableTypes, ActMovesChips
<1>4. \A s \in S : f[s] \in Int /\ g[s] \in Int /\ x[s] \in Int /\ y[s] \in Int
  BY <1>1, <1>2, TableTypes DEF Moves
<1>5. \A s \in S \ {c} : g[s] = f[s] /\ y[s] = x[s]
  BY <1>1, <1>2 DEF Moves
<1>6. /\ Total(g, S) = Total(f, S) + g[c] - f[c] /\ Total(f, S) \in Int /\ Total(g, S) \in Int
      /\ Total(y, S) = Total(x, S) + y[c] - x[c] /\ Total(x, S) \in Int /\ Total(y, S) \in Int
  BY <1>3, <1>4, <1>5, TotalChanges
<1>7. Total(g, S) + Total(y, S) = Total(f, S) + Total(x, S)
  BY <1>3, <1>4, <1>6
<1>8. Chips = Total(f, S) + Total(x, S)
  BY <1>2 DEF Chips
<1>9. Seats' = S
  BY <1>1, <1>2, SeatsDoNotMove DEF Moves
<1>10. Chips' = Total(g, S) + Total(y, S)
  BY <1>2, <1>9 DEF Chips
<1> QED BY <1>7, <1>8, <1>10

\* What a settlement does to the chips.
LEMMA SettleMoves ==
  ASSUME TypeOK, NEW winners, Settle(winners)
  PROVE  /\ Fair(winners) /\ Seats' = Seats
         /\ stacks' = [s \in Seats |-> stacks[s] + Awarded(winners, s)]
         /\ committed' = [s \in Seats |-> 0]
<1>1. Fair(winners)
  BY NotRefused DEF Settle
<1>2. Seats' = Seats
  BY SeatsDoNotMove DEF Settle
<1> QED BY <1>1, <1>2 DEF Settle

LEMMA SettleKeepsTypes ==
  ASSUME TypeOK, NEW winners, Settle(winners) PROVE TypeOK'
<1>1. /\ Fair(winners) /\ Seats' = Seats
      /\ stacks' = [s \in Seats |-> stacks[s] + Awarded(winners, s)]
      /\ committed' = [s \in Seats |-> 0]
  BY SettleMoves
<1>2. \A s \in Seats : stacks[s] \in Nat /\ Awarded(winners, s) \in Nat
  BY <1>1, TableTypes, AwardsAreChips
<1>3. stacks' \in [Seats -> Nat]
  BY <1>1, <1>2
<1>4. committed' \in [Seats -> Nat] /\ \A s \in Seats : committed'[s] = 0
  BY <1>1
<1>5. /\ current_bet' \in Nat /\ finished' \in BOOLEAN
      /\ UNCHANGED <<players, folded, acted, current_bet, min_raise, current_player, street_done>>
  BY DEF Settle, TypeOK
<1>6. \A s \in Seats : committed'[s] <= current_bet'
  BY <1>4, <1>5
<1> QED BY <1>1, <1>3, <1>4, <1>5, <1>6 DEF TypeOK

LEMMA SettleKeepsChips ==
  ASSUME TypeOK, NEW winners, Settle(winners) PROVE Chips' = Chips
<1>1. PICK S, a, f, g, x, y : /\ S = Seats /\ a = Awards(winners) /\ f = stacks /\ g = stacks'
                              /\ x = committed /\ y = committed'
  OBVIOUS
<1>2. /\ Fair(winners) /\ Seats' = S /\ y = [s \in S |-> 0]
      /\ g = [s \in S |-> f[s] + Awarded(winners, s)]
  BY <1>1, SettleMoves
<1>3. IsFiniteSet(S) /\ \A s \in S : f[s] \in Int /\ x[s] \in Int
  BY <1>1, TableTypes
<1>4. \A s \in S : a[s] = Awarded(winners, s) /\ a[s] \in Int
  BY <1>1, <1>2, AwardsAreChips
<1>5. \A s \in S : f[s] \in Int /\ a[s] \in Int /\ g[s] = f[s] + a[s]
  BY <1>2, <1>3, <1>4
<1>6. Total(g, S) = Total(f, S) + Total(a, S)
  BY <1>3, <1>5, TotalPlus
<1>7. Total(a, S) = Total(x, S)
  BY <1>1, <1>2, AllIsPaid
<1>8. Total(y, S) = 0
  BY <1>2, <1>3, TotalZero
<1>9. Total(f, S) \in Int /\ Total(x, S) \in Int
  BY <1>3, TotalType
<1>10. Chips = Total(f, S) + Total(x, S)
  BY <1>1 DEF Chips
<1>11. Chips' = Total(g, S) + Total(y, S)
  BY <1>1, <1>2 DEF Chips
<1> QED BY <1>6, <1>7, <1>8, <1>9, <1>10, <1>11

Inv == TypeOK /\ (finished => street_done) /\ (~ finished => IInv)

LEMMA InvActs == ASSUME Inv, Act PROVE Inv' /\ ~ finished'
<1>1. ~ finished
  BY DEF Act, Fold, Check, Call, Raise, AllIn, Asked, Inv
<1>2. IInv'
  BY <1>1, ActKeepsIInv DEF Inv
<1>3. finished' = finished
  BY ActMoves DEF Moves, Inv
<1> QED BY <1>1, <1>2, <1>3 DEF Inv, IInv

LEMMA InvSettles == ASSUME Inv, NEW winners, Settle(winners) PROVE Inv'
<1>1. TypeOK'
  BY SettleKeepsTypes DEF Inv
<1> QED BY <1>1 DEF Inv, Settle

LEMMA Steps ==
  ASSUME [Next]_vars PROVE Act \/ (\E winners : Settle(winners)) \/ UNCHANGED vars
  BY DEF Next, PlanSettles, HostSettles

LEMMA InvHolds == Spec => []Inv
<1>1. Init => Inv
  BY InitIInv DEF Inv, IInv, SomeoneIsIn
<1>2. Inv /\ [Next]_vars => Inv'
  <2> SUFFICES ASSUME Inv, [Next]_vars PROVE Inv' OBVIOUS
  <2>1. CASE Act
    BY <2>1, InvActs
  <2>2. CASE \E winners : Settle(winners)
    BY <2>2, InvSettles
  <2>3. CASE UNCHANGED vars
    <3>1. Seats' = Seats /\ \A s : Matched(s)' = Matched(s) /\ From(s)' = From(s)
      BY <2>3 DEF vars, Seats, Matched, From
    <3>2. (TypeOK => TypeOK') /\ (IInv => IInv')
      BY <2>3, <3>1 DEF vars, IInv, TypeOK, AskedHasToDecide, InTurn, BetIsHeld, SomeoneIsIn
    <3> QED BY <2>3, <3>2 DEF Inv, vars
  <2> QED BY <2>1, <2>2, <2>3, Steps
<1> QED BY <1>1, <1>2, PTL DEF Spec

(* The state keeps its shape at any table, after a settlement too: no      *)
(* stack of poker_tools.py is ever negative, and none is ever a fraction.  *)
THEOREM TypeCorrect == Spec => []TypeOK
<1>1. Inv => TypeOK
  BY DEF Inv
<1> QED BY <1>1, InvHolds, PTL

(* No seat is asked that has nothing to decide, at any table: _next_seat   *)
(* in poker_tools.py needs to look at chips only.                          *)
THEOREM NobodyIsAskedTwice == Spec => []AskedHasToDecide
<1>1. Inv => AskedHasToDecide
  BY DEF Inv, IInv, AskedHasToDecide
<1> QED BY <1>1, InvHolds, PTL

(* A finished round can be settled, at any table: every contested pot has  *)
(* an eligible winner, and the heads-up plan's settlement is not refused.  *)
THEOREM RoundsCanBeSettled == Spec => []CanBeSettled
<1>1. Inv => CanBeSettled
  <2>1. CASE finished
    BY <2>1 DEF CanBeSettled
  <2>2. CASE ~ finished
    BY <2>2, RoundCanBeSettled DEF Inv
  <2> QED BY <2>1, <2>2
<1> QED BY <1>1, InvHolds, PTL

(* Every action and every settlement leaves the chips of the table what    *)
(* they are: the layers and the odd chips of pots and settle in            *)
(* poker_tools.py neither make nor lose one, however the stacks differ.    *)
THEOREM ChipsAreKept == Spec => ChipsAreConserved
<1>1. Inv /\ [Next]_vars => [Chips' = Chips]_vars
  <2> SUFFICES ASSUME Inv, [Next]_vars, ~ UNCHANGED vars PROVE Chips' = Chips OBVIOUS
  <2>1. CASE Act
    BY <2>1, ActKeepsChips DEF Inv
  <2>2. CASE \E winners : Settle(winners)
    BY <2>2, SettleKeepsChips DEF Inv
  <2> QED BY <2>1, <2>2, Steps
<1> QED BY <1>1, InvHolds, PTL DEF Spec, ChipsAreConserved

(* A settlement pays no seat more than each seat has put in up to that     *)
(* seat's own stake, whoever wins the pots and however odd chips fall.     *)
THEOREM AwardsAreMatched == Spec => NobodyWinsMoreThanMatched
<1> DEFINE Gains == finished' /\ ~ finished =>
                      \A s \in Seats : stacks'[s] - stacks[s]
                                       <= Total([t \in Seats |-> Least(committed[s], committed[t])], Seats)
<1>1. Inv /\ [Next]_vars => [Gains]_vars
  <2> SUFFICES ASSUME Inv, [Next]_vars, finished', ~ finished, NEW s \in Seats
               PROVE  stacks'[s] - stacks[s] <= Total([t \in Seats |-> Least(committed[s], committed[t])], Seats)
    OBVIOUS
  <2>1. PICK winners : Settle(winners)
    <3>1. ~ UNCHANGED vars
      BY DEF vars
    <3> QED BY <3>1, InvActs, Steps
  <2>2. /\ TypeOK /\ Fair(winners) /\ stacks'[s] = stacks[s] + Awarded(winners, s)
    BY <2>1, SettleMoves DEF Inv
  <2>3. stacks[s] \in Nat /\ Awarded(winners, s) \in Nat
    BY <2>2, TableTypes, AwardsAreChips
  <2>4. stacks'[s] - stacks[s] = Awarded(winners, s)
    BY <2>2, <2>3
  <2> QED BY <2>2, <2>4, AwardIsMatched
<1> QED BY <1>1, InvHolds, PTL DEF Spec, NobodyWinsMoreThanMatched
=============================================================================
