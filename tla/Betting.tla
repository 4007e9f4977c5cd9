--------------------------------- MODULE Betting ---------------------------------
(***************************************************************************)
(* A no-limit betting round and its settlement: the betting and ledger     *)
(* tools (core/poker_tools.py) and the heads-up plan that drives them      *)
(* (five_card_poker_plan in core/plans.py).  There is one street, so that  *)
(* committed and hand_committed are the same and one variable stands for   *)
(* both.  Cards are left out: a showdown may be won by anyone or tied.     *)
(***************************************************************************)
EXTENDS Integers, FiniteSets, FiniteSetsExt

CONSTANTS
  Tables,     \* the stacks a game may start with: functions from seats to chips
  MinRaise    \* min_raise of the tool's configuration
ASSUME TablesAssumption ==
  \A t \in Tables : LET n == Cardinality(DOMAIN t)
                    IN n \in Nat \ {0, 1} /\ t \in [0 .. n - 1 -> Nat \ {0}]
ASSUME MinRaiseAssumption == MinRaise \in Nat \ {0}

VARIABLES
  players,          \* the number of seats
  stacks,           \* chips in front of each seat
  committed,        \* chips each seat has put in
  folded, acted,    \* seats
  current_bet, min_raise,
  current_player,
  street_done,      \* the round is complete
  finished          \* the pots are settled
vars == <<players, stacks, committed, folded, acted, current_bet, min_raise, current_player,
          street_done, finished>>

Seats == 0 .. players - 1
Least(a, b) == IF a <= b THEN a ELSE b
Total(f, S) == MapThenSumSet(LAMBDA x : f[x], S)

Init ==
  /\ stacks \in Tables
  /\ players = Cardinality(DOMAIN stacks)
  /\ committed = [s \in Seats |-> 0]
  /\ folded = {} /\ acted = {}
  /\ current_bet = 0 /\ min_raise = MinRaise
  /\ current_player = 0
  /\ street_done = FALSE /\ finished = FALSE

-----------------------------------------------------------------------------
(* The betting tool *)

ToCall == IF committed[current_player] < current_bet THEN current_bet - committed[current_player] ELSE 0

\* The actions offered to the seat whose turn it is.
Legal ==
  IF current_player \in folded \/ stacks[current_player] = 0 THEN {}
  ELSE {"fold", "all_in"}
       \cup (IF ToCall = 0 THEN {"check"} ELSE {"call"})
       \cup (IF stacks[current_player] > ToCall THEN {"raise"} ELSE {})

\* Mutant of Complete: a seat that is all in has to match, too.
CompleteWhenMatched(stk, com, fol, act, bet) ==
  LET live == Seats \ fol
  IN (\A s, t \in live : s = t) \/ \A s \in live : s \in act /\ com[s] = bet
\* At most one seat is left, or every seat with chips has acted and matched.
Complete(stk, com, fol, act, bet) ==
  LET live == Seats \ fol
  IN (\A s, t \in live : s = t) \/ \A s \in live : stk[s] = 0 \/ (s \in act /\ com[s] = bet)

\* Seats after the current one, going round; the current one comes last.
Ahead(s) == IF s > current_player THEN s - current_player ELSE s - current_player + players
\* Mutant of NextSeats: the turn goes to the lowest seat that can act.
LowestSeats(stk, fol) ==
  LET able == {s \in Seats \ fol : stk[s] > 0}
  IN {s \in able : \A t \in able : s <= t}
NextSeats(stk, fol) ==
  LET live == Seats \ fol
      able == {s \in live : stk[s] > 0}
  IN IF able # {} THEN {s \in able : \A t \in able : Ahead(s) <= Ahead(t)}
     ELSE {s \in live : \A t \in live : s <= t}

Asked(action) == ~ street_done /\ action \in Legal

\* What every action ends with: the seat has acted, the round may be complete.
Acted ==
  /\ acted' = acted \cup {current_player}
  /\ street_done' = Complete(stacks', committed', folded', acted', current_bet')
  /\ IF street_done' THEN UNCHANGED current_player
     ELSE current_player' \in NextSeats(stacks', folded')
  /\ UNCHANGED <<players, finished>>

Commit(amount) ==
  /\ stacks' = [stacks EXCEPT ![current_player] = @ - amount]
  /\ committed' = [committed EXCEPT ![current_player] = @ + amount]

\* A bet above the current one makes the least raise at least as large.
Larger(bet) == IF bet - current_bet > min_raise THEN bet - current_bet ELSE min_raise

Fold ==
  /\ Asked("fold")
  /\ folded' = folded \cup {current_player}
  /\ UNCHANGED <<stacks, committed, current_bet, min_raise>>
  /\ Acted

Check ==
  /\ Asked("check")
  /\ UNCHANGED <<stacks, committed, folded, current_bet, min_raise>>
  /\ Acted

Call ==
  /\ Asked("call")
  /\ Commit(Least(ToCall, stacks[current_player]))
  /\ UNCHANGED <<folded, current_bet, min_raise>>
  /\ Acted

Raise ==
  /\ Asked("raise")
  /\ \E target \in current_bet + min_raise .. committed[current_player] + stacks[current_player] :
       /\ Commit(target - committed[current_player])
       /\ min_raise' = Larger(target)
       /\ current_bet' = target
  /\ UNCHANGED folded
  /\ Acted

\* Mutant of AllInBet: an all-in never raises the bet.
AllInCalls(total) == current_bet
\* An all-in below the current bet leaves it.
AllInBet(total) == IF total > current_bet THEN total ELSE current_bet
AllIn ==
  /\ Asked("all_in")
  /\ Commit(stacks[current_player])
  /\ current_bet' = AllInBet(committed'[current_player])
  /\ min_raise' = Larger(current_bet')
  /\ UNCHANGED folded
  /\ Acted

Act == Fold \/ Check \/ Call \/ Raise \/ AllIn

-----------------------------------------------------------------------------
(* The ledger.  A pot is named by its level: the i-th pot of the code is    *)
(* the one of the i-th smallest level.                                      *)

Levels == {committed[s] : s \in Seats} \ {0}
Below(level) == Max({0} \cup {l \in Levels : l < level})
\* Mutant of Contributors: who is in the pot at all is in every pot.
AllContributors(level) == {s \in Seats : committed[s] > 0}
Contributors(level) == {s \in Seats : committed[s] >= level}
Amount(level) == (level - Below(level)) * Cardinality(Contributors(level))
Eligible(level) == Contributors(level) \ folded
\* Mutant of Refunded: nothing is given back.
NeverRefunded(level) == FALSE
\* A level that one seat alone has reached is given back.
Refunded(level) == Cardinality(Contributors(level)) = 1
Contested == {l \in Levels : ~ Refunded(l)}

\* Mutant of Share: the odd chips are dropped.
EvenShare(level, chosen, seat) == Amount(level) \div Cardinality(chosen)
\* The odd chips of a pot go to the lowest of its winners, one each.
Share(level, chosen, seat) ==
  Amount(level) \div Cardinality(chosen)
  + (IF Cardinality({s \in chosen : s < seat}) < Amount(level) % Cardinality(chosen) THEN 1 ELSE 0)

\* What a seat gets of a pot, and of all of them.
PaidFrom(level, winners, seat) ==
  IF Refunded(level) THEN IF seat \in Contributors(level) THEN Amount(level) ELSE 0
  ELSE IF seat \in winners[level] THEN Share(level, winners[level], seat) ELSE 0
Awarded(winners, seat) == Total([l \in Levels |-> PaidFrom(l, winners, seat)], Levels)

\* Why a settlement is refused.
Refusal(winners) ==
  IF \E l \in Contested : l \notin DOMAIN winners \/ winners[l] = {} THEN "every_contested_pot_requires_winners"
  ELSE IF \E l \in Contested : ~ winners[l] \subseteq Eligible(l) THEN "ineligible_pot_winner"
  ELSE "none"

Settle(winners) ==
  /\ street_done /\ ~ finished
  /\ Refusal(winners) = "none"
  /\ stacks' = [s \in Seats |-> stacks[s] + Awarded(winners, s)]
  /\ committed' = [s \in Seats |-> 0]
  /\ finished' = TRUE
  /\ UNCHANGED <<players, folded, acted, current_bet, min_raise, current_player, street_done>>

-----------------------------------------------------------------------------
(* Who wins *)

\* The plan names the winners of pot 0 only: the seat that has not folded, or
\* whom the compared hands name.
HeadsUp == players = 2
PlanWinners ==
  LET best == IF Cardinality(folded) = 1 THEN {Seats \ folded} ELSE {{0}, {1}, {0, 1}}
      lowest == {l \in Levels : Below(l) = 0}
  IN {[l \in lowest |-> w] : w \in best}

\* With more seats the host names the winners of every contested pot.
HostWinners == {w \in [Contested -> SUBSET Seats] : \A l \in Contested : w[l] # {} /\ w[l] \subseteq Eligible(l)}

PlanSettles == HeadsUp /\ \E winners \in PlanWinners : Settle(winners)
HostSettles == ~ HeadsUp /\ \E winners \in HostWinners : Settle(winners)

Next == Act \/ PlanSettles \/ HostSettles
\* The policies of the host (core/policy.py) play until the game is finished.
Spec == Init /\ [][Next]_vars
FairSpec == Spec /\ WF_vars(Next)

-----------------------------------------------------------------------------
(* Properties *)

\* The state has its shape; the bet is the most any seat has committed.
TypeOK ==
  /\ players \in Nat \ {0}
  /\ stacks \in [Seats -> Nat] /\ committed \in [Seats -> Nat]
  /\ folded \subseteq Seats /\ acted \subseteq Seats
  /\ current_bet \in Nat /\ min_raise \in Nat \ {0}
  /\ current_player \in Seats
  /\ street_done \in BOOLEAN /\ finished \in BOOLEAN
  /\ \A s \in Seats : committed[s] <= current_bet

Matched(s) == s \in acted /\ committed[s] = current_bet
(* While the round goes on, the seat that is asked has something to decide: *)
(* it is in, has chips, and has not acted or owes the bet.  _next_seat      *)
(* looks at chips only; the rest is due to the order of the seats.          *)
AskedHasToDecide ==
  ~ street_done => /\ current_player \notin folded /\ stacks[current_player] > 0
                   /\ ~ Matched(current_player)

(* A finished round can be settled: every contested pot has a contributor   *)
(* who has not folded, and heads-up the plan, which names the winners of    *)
(* the first pot only, is never refused.                                    *)
CanBeSettled ==
  street_done /\ ~ finished =>
    /\ \A l \in Contested : Eligible(l) # {}
    /\ HeadsUp => \A winners \in PlanWinners : Refusal(winners) = "none"

Chips == Total(stacks, Seats) + Total(committed, Seats)
\* No action and no settlement makes or loses a chip.
ChipsAreConserved == [][Chips' = Chips]_vars

(* A settlement gives a seat at most what each other seat has put in up to  *)
(* the seat's own stake: who is all in for less wins no more than that.     *)
NobodyWinsMoreThanMatched ==
  [][finished' /\ ~ finished =>
       \A s \in Seats : stacks'[s] - stacks[s]
                        <= Total([t \in Seats |-> Least(committed[s], committed[t])], Seats)]_vars

\* A game that is played on is settled.
GameEnds == <>finished
=============================================================================
