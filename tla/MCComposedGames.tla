---------------------------- MODULE MCComposedGames ----------------------------
(***************************************************************************)
(* A catalogue of small rules for TLC.  The games are those of the rules   *)
(* that compile; the others are near misses a check has to refuse.         *)
(***************************************************************************)
EXTENDS ContractCheck, RuleAcceptance

Player == [scope |-> "player", visibility |-> "owner_only"]
Table  == [scope |-> "shared", visibility |-> "public"]
Hand(z, lo, hi) == [zone |-> z, scope |-> "actor", min_count |-> lo, max_count |-> hi]
Common(z, lo, hi) == [zone |-> z, scope |-> "shared", min_count |-> lo, max_count |-> hi]
EachSeat(z, n) == [zone |-> z, count |-> n, per_seat |-> TRUE]
Once(z, n)     == [zone |-> z, count |-> n, per_seat |-> FALSE]
Number(n)  == Lit(IntV(n))
Vars(x) == Ref(<<"variables", x>>)
Act(guard, inputs, effects, trigger) ==
  [guard |-> guard, inputs |-> inputs, effects |-> effects, trigger |-> trigger]

\* Two seats, six cards, a hand and a pot, one action.
Basic ==
  [players |-> 2, ranks |-> <<"7", "8", "9">>, suits |-> <<"S", "H">>, copies |-> 1, values |-> <<>>,
   zones |-> [hand |-> Player, pot |-> Table, rest |-> Table],
   deals |-> <<EachSeat("hand", 2)>>, stock_zone |-> "rest", variables |-> <<>>,
   actions |-> [play |-> Act(NoExpr, [card |-> Hand("hand", 1, 1)],
                             <<Select("card", "picked", ""), Move("hand", "pot", "picked")>>, <<>>)],
   round_action |-> "play", turn_actions |-> <<>>, start_seat |-> "seat0", resolve |-> <<>>,
   scoring |-> <<>>, max_rounds |-> 2, max_actor_actions |-> 0, score_reaches |-> 0]

\* The cards of a round are compared and put away; the first seat changes.
Win(outcome, recipient, points) == [on_outcome |-> outcome, points |-> points, recipient |-> recipient]
Duel ==
  [Basic EXCEPT
     !.start_seat = "round_parity",
     !.resolve = <<CompareCards("pot", 0, 1, <<"l", "r", "t1", "t2">>), MoveTop("pot", "rest", 2)>>,
     !.scoring = [l |-> Win("left", "left", 2), r |-> Win("right", "right", 2),
                  t1 |-> Win("tie", "left", 1), t2 |-> Win("tie", "right", 1)],
     !.max_rounds = 0, !.max_actor_actions = 4]

\* A tie pays one side only; the pot, which starts with two cards, loses one a round.
Draining ==
  [Duel EXCEPT
     !.deals = <<EachSeat("hand", 2), Once("pot", 2)>>,
     !.resolve = <<CompareCards("pot", 0, 2, <<"l", "r", "t1">>), MoveTop("pot", "rest", 3)>>]

\* A round in which both seats pass leaves the pot empty when it is compared.
Uneven ==
  [Duel EXCEPT
     !.actions = [play |-> [Duel.actions.play EXCEPT !.guard = Node("lt", <<Ref(<<"round">>), Number(2)>>)],
                  pass |-> Act(NoExpr, <<>>, <<>>, <<>>)],
     !.turn_actions = <<"play", "pass">>]

\* Pairs leave the hand, the hand is filled up again.
Pairing ==
  [Basic EXCEPT
     !.zones = [hand |-> Player, done |-> Player, rest |-> Table],
     !.deals = <<EachSeat("hand", 2)>>,
     !.actions = [play |-> Act(NoExpr, <<>>,
                    <<RemovePairs("hand", "done", 2, 1), Refill("rest", "hand", 2, 3)>>, <<>>)],
     !.max_rounds = 0, !.max_actor_actions = 6, !.score_reaches = 2]

\* A card that matches the top of the pot is played and scores its suit; a seven
\* skips the next seat; who cannot play draws, and passes when nothing is left.
Matching ==
  [Basic EXCEPT
     !.players = 3, !.copies = 2, !.ranks = <<"7", "8">>,
     !.deals = <<EachSeat("hand", 1), Once("pot", 1)>>,
     !.actions =
        [play |-> Act(HasMatch("hand", "pot"), [card |-> Hand("hand", 1, 1)],
                      <<Select("card", "picked", "pot"), Move("hand", "pot", "picked"),
                        ScoreTop("pot", "suit", [S |-> 2])>>,
                      <<Skip(1, Node("eq", <<Top("pot", "rank"), Lit(StrV(<<"7">>))>>))>>),
         draw |-> Act(Node("gt", <<ZoneCount("rest"), Number(0)>>), <<>>, <<Draw("rest", "hand", 2)>>, <<>>),
         pass |-> Act(NoExpr, <<>>, <<>>, <<>>)],
     !.turn_actions = <<"play", "draw", "pass">>, !.max_rounds = 3]

\* Every card played skips the other seat; the game ends with an action, not a round.
Hasty ==
  [Basic EXCEPT
     !.start_seat = "round_parity", !.actions.play.trigger = <<Skip(1, NoExpr)>>,
     !.max_rounds = 0, !.max_actor_actions = 3]

\* All three ways to score in one rule.
Mixed ==
  [Duel EXCEPT
     !.zones = [hand |-> Player, done |-> Player, pot |-> Table, rest |-> Table],
     !.deals = <<EachSeat("hand", 3)>>,
     !.actions.play.effects = @ \o <<ScoreTop("pot", "suit", [S |-> 2]), RemovePairs("hand", "done", 2, 1)>>,
     !.resolve = <<CompareCards("pot", 0, 1, <<"l", "r", "t1">>), MoveTop("pot", "rest", 2)>>]

\* A variable counts what the seats take from the table; a seat that would take
\* more than is left to take has no action at all.
Taking ==
  [Basic EXCEPT
     !.zones = [hand |-> Player, pot |-> Table],
     !.deals = <<EachSeat("hand", 1), Once("pot", 4)>>, !.stock_zone = "",
     !.variables = [taken |-> [type |-> "integer", initial |-> IntV(0)],
                    first |-> [type |-> "boolean", initial |-> BoolV(FALSE)]],
     !.actions =
        [play |-> Act(Node("lt", <<Vars("taken"), Number(2)>>), [cards |-> Common("pot", 0, 2)],
                      <<Select("cards", "kept", ""), Move("pot", "hand", "kept"),
                        Assign("taken", Node("add", <<Vars("taken"), Number(1)>>)),
                        Assign("first", Node("eq", <<Ref(<<"actor">>), Ref(<<"scores", "0">>)>>))>>, <<>>)]]

\* No seat ever has an action: the whole game is one setup.
Idle(seats, rounds) ==
  [Basic EXCEPT !.players = seats, !.deals = <<EachSeat("hand", 1)>>, !.max_rounds = rounds,
                !.actions.play.guard = Node("gt", <<Ref(<<"round">>), Number(rounds)>>)]

\* A round more than there are cards in a hand.
Emptied == [Basic EXCEPT !.max_rounds = 3]

\* Near misses.
Playing(r, guard, effects) == [r EXCEPT !.actions.play.guard = guard, !.actions.play.effects = effects]
Effects == Basic.actions.play.effects
NearMisses ==
  [past_the_pot  |-> [Duel EXCEPT !.resolve[1].right = 2],
   drained_pot   |-> [Draining EXCEPT !.resolve[1].right = 3],
   early_flush   |-> [Duel EXCEPT !.resolve = <<MoveTop("pot", "rest", 1), Duel.resolve[1]>>],
   torn_round    |-> [Duel EXCEPT !.max_actor_actions = 3],
   deep_deal     |-> [Basic EXCEPT !.deals = <<EachSeat("hand", 2), Once("pot", 3)>>],
   hidden_choice |-> Playing(Basic, NoExpr, <<Effects[2], Effects[1]>>),
   seat_compare  |-> [Duel EXCEPT !.players = 3, !.max_actor_actions = 6],
   text_guard    |-> Playing(Basic, Node("lt", <<Top("rest", "rank"), Number(8)>>), Effects),
   no_budget     |-> [Basic EXCEPT !.max_rounds = 0],
   stalled       |-> [Basic EXCEPT !.max_rounds = 0, !.max_actor_actions = 8,
                                   !.actions.play.guard = Node("gt", <<ZoneCount("rest"), Number(9)>>)],
   shared_match  |-> Playing(Basic, NoExpr, <<Select("card", "picked", "hand"), Effects[2]>>),
   bare_compare  |-> [Duel EXCEPT !.resolve[1].rules = <<>>]]

Catalogue ==
  [duel |-> Duel, draining |-> Draining, uneven |-> Uneven, pairing |-> Pairing,
   matching |-> Matching, hasty |-> Hasty, mixed |-> Mixed, taking |-> Taking,
   emptied |-> Emptied,
   idle |-> Idle(2, 2), spinning |-> Idle(3, 8)] @@ NearMisses

GamesThatCompile == {g \in DOMAIN Catalogue : Outcome(Catalogue[g]) = "compiled"}
\* Written with :> and @@, which TLC evaluates once.
Tabled(f) == f @@ <<>>
Evaluated(plan) == [plan EXCEPT !.nodes = Tabled(@), !.faces = Tabled(@)]
Tabulate(Of(_)) == FoldSet(LAMBDA g, f : g :> Of(g) @@ f, <<>>, GamesThatCompile)
CompiledPlans == Tabulate(LAMBDA g : Evaluated(Compile(Catalogue[g])))
CompiledRules == Tabulate(LAMBDA g : Catalogue[g])

\* Orders of the deck that differ in who holds pairs, matches and high cards.
Orders(r) ==
  LET ids == [i \in DOMAIN Catalog(r) |-> Catalog(r)[i].id]
      Stride(k, from) == [i \in DOMAIN ids |-> ids[1 + ((k * (i - 1) + from) % Len(ids))]]
      half == Len(ids) \div 2
      BySuit == [i \in DOMAIN ids |-> IF i <= half THEN ids[2 * i - 1] ELSE ids[2 * (i - half)]]
  IN {Stride(1, 0), Stride(Len(ids) - 1, 1), BySuit}
SomeOrders == Tabulate(LAMBDA g : Orders(Catalogue[g]))

\* The games of single rules.
UnevenGame   == {"uneven"}
UnevenPlan   == "uneven" :> Evaluated(Compile(Uneven))
UnevenRule   == "uneven" :> Uneven
UnevenOrders == "uneven" :> Orders(Uneven)
ASSUME UnevenAssumption == Outcome(Uneven) = "compiled"

\* TLC evaluates a definition of a constant once, but what a configuration
\* substitutes for a constant at every use: the names below stand in between.
\* The LET keeps TLC's coverage statistics, too, from going into them at each use.
TheGames  == LET games == GamesThatCompile IN games
ThePlans  == LET plans == CompiledPlans IN plans
TheRules  == LET rules == CompiledRules IN rules
TheOrders == LET orders == SomeOrders IN orders
=============================================================================
