----------------------------- MODULE ComposedRules -----------------------------
(***************************************************************************)
(* The declarative rules of a composed game (core/rules/composed.py,       *)
(* ComposedRulesIR), the checks a rule must pass, and the host operations  *)
(* and features it is derived to need (core/rules/requirements.py).        *)
(*                                                                         *)
(* A rule is a record.  Zones, variables, actions, inputs and scoring      *)
(* rules are functions of their ids, so that ids are unique by             *)
(* construction; what is absent is "" for an id, 0 for a bound and NoExpr  *)
(* for an expression.  Titles, texts and the clauses that say which        *)
(* requirement a path realises are left out.                               *)
(***************************************************************************)
EXTENDS Expressions

NoExpr == [op |-> "none"]

Select(input, result, matchTop) ==
  [kind |-> "select", input |-> input, result |-> result, match_top |-> matchTop]
Move(from, to, selection) ==
  [kind |-> "move", from_zone |-> from, to_zone |-> to, selection |-> selection]
MoveTop(from, to, n) == [kind |-> "move_top", from_zone |-> from, to_zone |-> to, count |-> n]
RemovePairs(from, to, size, points) ==
  [kind |-> "remove_pairs", from_zone |-> from, to_zone |-> to, group_size |-> size, points |-> points]
Refill(from, to, target, most) ==
  [kind |-> "refill", from_zone |-> from, to_zone |-> to, target_count |-> target, max_draw |-> most]
Draw(from, to, n) == [kind |-> "draw", from_zone |-> from, to_zone |-> to, count |-> n]
Skip(n, condition) == [kind |-> "skip", count |-> n, condition |-> condition]
ScoreTop(zone, by, points) == [kind |-> "score_top", zone |-> zone, by |-> by, points |-> points]
CompareCards(zone, left, right, rules) ==
  [kind |-> "compare", zone |-> zone, left |-> left, right |-> right, rules |-> rules]
Assign(variable, value) == [kind |-> "assign", variable |-> variable, value |-> value]

OfKind(effects, k) == SelectSeq(effects, LAMBDA e : e.kind = k)
Kinds(effects) == {e.kind : e \in Range(effects)}
TotalOf(Amount(_), s) == FoldLeft(LAMBDA sum, x : sum + Amount(x), 0, s)

Seats(r) == 0 .. r.players - 1
HandDeals(r) == SelectSeq(r.deals, LAMBDA d : d.per_seat)
SharedDeals(r) == SelectSeq(r.deals, LAMBDA d : ~ d.per_seat)
ActionSequence(r) == IF r.turn_actions # <<>> THEN r.turn_actions ELSE <<r.round_action>>
HasCompare(r) == "compare" \in Kinds(r.resolve)
Types(r) == [x \in DOMAIN r.variables |-> r.variables[x].type]
DeckSize(r) == Len(r.ranks) * Len(r.suits) * r.copies

Declared(r, z)   == z \in DOMAIN r.zones
Shared(r, z)     == Declared(r, z) /\ r.zones[z].scope = "shared"
PlayerZone(r, z) == Declared(r, z) /\ r.zones[z].scope = "player"

-----------------------------------------------------------------------------
(* Validation *)

MaxCards == 108

DeckOk(r) ==
  /\ IsInjective(r.ranks) /\ IsInjective(r.suits)
  /\ \A k \in DOMAIN r.values : k \in Range(r.ranks) /\ r.values[k] \in 1 .. 100
  /\ DeckSize(r) <= MaxCards

ZonesOk(r) == \E z \in DOMAIN r.zones : Shared(r, z)

SetupOk(r) ==
  /\ Len(HandDeals(r)) = 1
  /\ PlayerZone(r, HandDeals(r)[1].zone)
  /\ \A d \in Range(r.deals) : Declared(r, d.zone)
  /\ r.stock_zone # "" => Shared(r, r.stock_zone)
  /\ HandDeals(r)[1].count * r.players + TotalOf(LAMBDA d : d.count, SharedDeals(r)) <= DeckSize(r)

\* The keys of the state dictionary the plan itself writes, and those of other plans.
ReservedNames ==
  {"input", "seed", "zones", "scores", "round", "current_player", "action_count", "finished",
   "winners", "phase", "deal", "deal_seed", "first_seat", "second_seat", "turn_index",
   "next_turn_index", "next_seat", "next_round", "round_done", "at_end", "reveal",
   "legal_card_indices"}

\* A bool is an int: an integer variable may start as True.
VariablesOk(r) ==
  \A x \in DOMAIN r.variables :
    /\ x \notin ReservedNames
    /\ r.variables[x].initial[1] \in {r.variables[x].type}
         \cup (IF r.variables[x].type = "integer" THEN {"boolean"} ELSE {})

InputOk(r, i) ==
  /\ IF i.scope = "actor" THEN PlayerZone(r, i.zone) ELSE Shared(r, i.zone)
  /\ i.max_count >= i.min_count

\* The j-th effect of an action; the selections made before it are in scope.
ActionEffectOk(r, a, j) ==
  LET e == a.effects[j]
      selected == {a.effects[i].result : i \in {k \in 1 .. j - 1 : a.effects[k].kind = "select"}}
  IN CASE e.kind = "select" ->
            /\ e.input \in DOMAIN a.inputs
            /\ e.result \notin selected
            /\ e.match_top # "" => Shared(r, e.match_top)
       [] e.kind = "move" ->
            Declared(r, e.from_zone) /\ Declared(r, e.to_zone) /\ e.selection \in selected
       [] e.kind = "move_top" -> Shared(r, e.from_zone) /\ Shared(r, e.to_zone)
       [] e.kind = "remove_pairs" -> PlayerZone(r, e.from_zone) /\ PlayerZone(r, e.to_zone)
       [] e.kind = "refill" ->
            Shared(r, e.from_zone) /\ PlayerZone(r, e.to_zone) /\ e.max_draw >= e.target_count
       [] e.kind = "draw" -> Shared(r, e.from_zone) /\ PlayerZone(r, e.to_zone)
       [] e.kind = "score_top" ->
            /\ Shared(r, e.zone)
            /\ DOMAIN e.points # {} /\ \A k \in DOMAIN e.points : e.points[k] \in 0 .. 100
       [] e.kind = "assign" ->
            /\ e.variable \in DOMAIN r.variables
            /\ ValidExpression(e.value, DOMAIN r.variables)
            /\ InferType(e.value, Types(r)) # "error"
            /\ Assignable(InferType(e.value, Types(r)), r.variables[e.variable].type)
       [] OTHER -> FALSE

TriggerOk(r, e) ==
  e.kind = "skip" /\ (e.condition # NoExpr => GuardAccepted(e.condition, Types(r), DOMAIN r.zones))

ActionOk(r, a) ==
  /\ a.guard # NoExpr => GuardAccepted(a.guard, Types(r), DOMAIN r.zones)
  /\ \A j \in DOMAIN a.effects : ActionEffectOk(r, a, j)
  /\ \A e \in Range(a.trigger) : TriggerOk(r, e)
  /\ \A i \in DOMAIN a.inputs : InputOk(r, a.inputs[i])

\* Mutant of RoundsPlayed: one round less of a budget of actions.
RoundsBegun(r) ==
  IF r.max_rounds # 0 THEN r.max_rounds ELSE Max({1, (r.max_actor_actions - 1) \div r.players})
RoundsPlayed(r) ==
  IF r.max_rounds # 0 THEN r.max_rounds ELSE Max({1, r.max_actor_actions \div r.players})

\* The fewest cards the compared zone is reckoned to hold at any resolve: a
\* selection adds at least its min_count and takes at most its max_count, and
\* every seat is taken to play round_action once a round.
FewestCompared(r, i) ==
  LET zone == r.resolve[i].zone
      a == r.actions[r.round_action]
      PickedBy(m) == a.inputs[(CHOOSE s \in Range(OfKind(a.effects, "select")) : s.result = m.selection).input]
      TurnIn == r.players * TotalOf(LAMBDA m : IF m.to_zone = zone THEN PickedBy(m).min_count ELSE 0,
                                    OfKind(a.effects, "move"))
      TurnOut == r.players * TotalOf(LAMBDA m : IF m.from_zone = zone THEN PickedBy(m).max_count ELSE 0,
                                     OfKind(a.effects, "move"))
      Net(effects) == TotalOf(LAMBDA m : (IF m.to_zone = zone THEN m.count ELSE 0)
                                         - (IF m.from_zone = zone THEN m.count ELSE 0),
                              OfKind(effects, "move_top"))
      Initial == TotalOf(LAMBDA d : IF d.zone = zone THEN d.count ELSE 0, SharedDeals(r))
      FirstRound == Initial + TurnIn - TurnOut + Net(SubSeq(r.resolve, 1, i - 1))
      RoundNet == TurnIn - TurnOut + Net(r.resolve)
  IN IF RoundNet >= 0 THEN FirstRound ELSE FirstRound + (RoundsPlayed(r) - 1) * RoundNet

ResolveOk(r, i) ==
  LET e == r.resolve[i]
  IN CASE e.kind = "compare" ->
            /\ Declared(r, e.zone) /\ e.left # e.right
            /\ Range(e.rules) \subseteq DOMAIN r.scoring
            /\ FewestCompared(r, i) >= Max({e.left, e.right}) + 1
       [] e.kind = "move_top" -> Shared(r, e.from_zone) /\ Shared(r, e.to_zone)
       [] OTHER -> FALSE

\* Without a round bound a turn whose guards all fail would spin for ever.
FlowOk(r) ==
  /\ r.round_action \in DOMAIN r.actions
  /\ IsInjective(ActionSequence(r)) /\ Range(ActionSequence(r)) \subseteq DOMAIN r.actions
  /\ r.round_action \in Range(ActionSequence(r))
  /\ r.max_rounds = 0 => \E a \in Range(ActionSequence(r)) : r.actions[a].guard = NoExpr
  /\ \A i \in DOMAIN r.resolve : ResolveOk(r, i)
  /\ HasCompare(r) => r.max_actor_actions % r.players = 0

TerminalOk(r) == r.max_rounds # 0 \/ r.max_actor_actions # 0

Executable(r) ==
  /\ TerminalOk(r)
  /\ DeckOk(r) /\ ZonesOk(r) /\ SetupOk(r) /\ VariablesOk(r)
  /\ \A a \in DOMAIN r.actions : ActionOk(r, r.actions[a])
  /\ FlowOk(r)

-----------------------------------------------------------------------------
(* Derived requirements *)

AlwaysOperations ==
  {"deck.deal", "logic.evaluate", "score_settle.call", "state.update", "winner_resolve.call"}

EffectOperations(e) ==
  CASE e.kind = "select" -> {IF e.match_top # "" THEN "zones.select_matching" ELSE "zones.select"}
    [] e.kind = "move" -> {"zones.move"}
    [] e.kind = "move_top" -> {"zones.top", "zones.move"}
    [] e.kind = "compare" ->
         {"rank_compare.call"} \cup {"score_settle.call" : x \in Range(e.rules)}
    [] e.kind = "remove_pairs" -> {"zones.select_duplicates", "zones.move", "score_settle.call"}
    [] e.kind \in {"refill", "draw"} -> {"zones.count_zone", "zones.top", "zones.move"}
    [] e.kind = "score_top" -> {"zones.top", "score_settle.call"}
    [] e.kind = "skip" -> {"state.update"} \cup GuardMechanisms(e.condition)
    [] OTHER -> {}

\* Every action counts, those that no turn offers included.
\* Mutant of ActionOperations: what a guard calls is forgotten.
UnguardedOperations(a) == UNION {EffectOperations(e) : e \in Range(a.effects \o a.trigger)}
ActionOperations(a) ==
  GuardMechanisms(a.guard) \cup UNION {EffectOperations(e) : e \in Range(a.effects \o a.trigger)}
Operations(r) ==
  AlwaysOperations
  \cup (UNION {ActionOperations(r.actions[a]) : a \in DOMAIN r.actions})
  \cup (UNION {EffectOperations(e) : e \in Range(r.resolve)})

\* The features the registry declares for an operation, of those a rule asks for.
Provided(operation) ==
  CASE operation \in {"zones.select", "zones.select_matching", "zones.select_duplicates"} ->
         {"card_identity", "multi_zone", "matching"}
    [] operation = "zones.move" -> {"card_identity", "multi_zone", "explicit_order"}
    [] operation \in {"zones.top", "zones.cards", "zones.count_zone"} -> {"card_identity", "multi_zone"}
    [] operation \in {"score_settle.call", "rank_compare.call"} -> {"scoring"}
    [] operation = "pattern.choices" -> {"matching"}
    [] operation = "deck.deal" -> {"card_identity"}
    [] operation = "state.update" -> {"explicit_order"}
    [] OTHER -> {}

NeedsMatching(r) == \E a \in DOMAIN r.actions : "pattern.choices" \in GuardMechanisms(r.actions[a].guard)
NeedsScoring(r) ==
  HasCompare(r) \/ \E a \in DOMAIN r.actions :
                     Kinds(r.actions[a].effects) \cap {"remove_pairs", "score_top"} # {}
Features(r) ==
  {"multi_zone", "card_identity", "explicit_order"}
  \cup (IF NeedsScoring(r) THEN {"scoring"} ELSE {})
  \cup (IF NeedsMatching(r) THEN {"matching"} ELSE {})

\* Every operation and axis of a composed rule exists; a feature must be
\* provided by an operation the rule really uses.
CompositionOk(r) == Features(r) \subseteq UNION {Provided(o) : o \in Operations(r)}
=============================================================================
