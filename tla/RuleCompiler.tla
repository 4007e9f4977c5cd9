------------------------------ MODULE RuleCompiler ------------------------------
(***************************************************************************)
(* The lowering of a composed rule to a plan (core/rules/compiler.py).     *)
(* The code adds nodes one by one and patches their "next" later; here     *)
(* every piece of the plan is a set of lines <<node id, node>>, and a      *)
(* function of the node it continues with.  Node ids and state keys are    *)
(* the compiler's own; zone ids are tokens: <<"hand-", "0">>, <<"pot">>.   *)
(***************************************************************************)
EXTENDS ComposedRules

CONSTANT StepLimit   \* MAX_STEP_LIMIT
ASSUME StepLimitAssumption == StepLimit \in Nat \ {0}

Call(operation, args, key, next) ==
  [kind |-> "call", op |-> operation, args |-> args, result_key |-> key, next |-> next]
EvalNode(expression, key, next) == Call("logic.evaluate", [expression |-> expression], key, next)
Update(values, next)        == Call("state.update", [values |-> values], "", next)
Branch(path, cases, next)   == [kind |-> "branch", value |-> path, cases |-> cases, next |-> next]
IfTrue(key, target, next)   == Branch(StrV(<<"$state", key>>), BoolV(TRUE) :> target, next)
Wait(action, target)        == [kind |-> "wait", inputs |-> action :> target]
EndNode                     == [kind |-> "end"]

Num(n)    == ToString(n)
Path(p)   == StrV(<<"$state">> \o p)
At(key)   == Path(<<key>>)
Value(n)  == Const(IntV(n))
ListOf(v) == <<"list", <<v>>>>

\* A player zone is always the acting seat's own instance.
ZoneKey(z) == "zone_" \o z
ZoneArg(r, z) == IF PlayerZone(r, z) THEN At(ZoneKey(z)) ELSE StrV(<<z>>)
ZoneIds(r) == {<<z>> : z \in {y \in DOMAIN r.zones : Shared(r, y)}}
              \cup {<<z \o "-", Num(s)>> : z \in {y \in DOMAIN r.zones : PlayerZone(r, y)}, s \in Seats(r)}

-----------------------------------------------------------------------------
(* Guards (_GuardBuilder): every leaf is numbered in order and becomes     *)
(* calls whose result the final expression refers to.                      *)

LeafRule(n, leaves, context) == IF n.op \in GuardOnly THEN <<n>> ELSE FlattenSeq(leaves)
Gathering == INSTANCE TreeFold WITH Args <- Children, Rule <- LeafRule
LeavesOf(e) == Gathering!Fold(Parts(e), {})[e]
Numbers(e)    == IF LeavesOf(e) = <<>> THEN 0 ELSE Len(LeavesOf(e)) + 1
G(n, what)    == "g" \o Num(n) \o "_" \o what
LeafEntry(leaf, n) == G(n, IF leaf.op = "has_match" THEN "zone" ELSE "count")

\* The final expression over what the leaves have stored, the first of them
\* numbered n.
GuardPayload(e, n) ==
  LET Before(t, i) == TotalOf(LAMBDA a : Len(LeavesOf(a)), SubSeq(t.args, 1, i - 1))
      payload[t \in Parts(e), k \in Nat] ==
        CASE t.op = "lit" -> Const(t.value)
          [] t.op = "ref" -> State(StatePath(t.path))
          [] t.op = "zone_count" -> State(<<G(k, "count"), "count">>)
          [] t.op = "top" -> State(<<G(k, "card"), t.field>>)
          [] t.op = "has_match" -> StateKey(G(k, "bool"))
          [] OTHER -> Payload(t.op, [i \in DOMAIN t.args |-> payload[t.args[i], k + Before(t, i)]])
  IN payload[e, n]

\* The top of an empty zone is a card of its own, equal to no other.
EmptyCard(n) ==
  <<"dict", [f \in {"rank", "suit", "value"} |-> StrV(<<"__empty_" \o f, Num(n)>>)]>>

CountLeaf(r, zone, n, next) ==
  {<<G(n, "count"), Call("zones.count_zone", [zone |-> ZoneArg(r, zone)], G(n, "count"), next)>>}

TopLeaf(r, zone, n, next) ==
  CountLeaf(r, zone, n, G(n, "has"))
  \cup {<<G(n, "has"), EvalNode(Payload("gt", <<State(<<G(n, "count"), "count">>), Value(0)>>),
                                G(n, "has"), G(n, "branch"))>>,
        <<G(n, "branch"), IfTrue(G(n, "has"), G(n, "top"), G(n, "empty"))>>,
        <<G(n, "top"), Call("zones.top", [zone |-> ZoneArg(r, zone)], G(n, "card"), next)>>,
        <<G(n, "empty"), Update(G(n, "card") :> EmptyCard(n), next)>>}

MatchLeaf(r, zone, topZone, n, next) ==
  {<<G(n, "zone"), Call("zones.cards", [zone |-> ZoneArg(r, zone)], G(n, "zone"), G(n, "topzone"))>>,
   <<G(n, "topzone"), Call("zones.cards", [zone |-> ZoneArg(r, topZone)], G(n, "topzone"), G(n, "choices"))>>,
   <<G(n, "choices"), Call("pattern.choices", [cards |-> Path(<<G(n, "zone"), "cards">>),
                                               top |-> Path(<<G(n, "topzone"), "cards">>)],
                           G(n, "choices"), G(n, "bool"))>>,
   <<G(n, "bool"), EvalNode(Payload("gt", <<Payload("count", <<StateKey(G(n, "choices"))>>), Value(0)>>),
                            G(n, "bool"), next)>>}

LeafNodes(r, leaf, n, next) ==
  CASE leaf.op = "zone_count" -> CountLeaf(r, leaf.zone, n, next)
    [] leaf.op = "top" -> TopLeaf(r, leaf.zone, n, next)
    [] leaf.op = "has_match" -> MatchLeaf(r, leaf.zone, leaf.top.zone, n, next)

\* The chain of a guard that stores its value under key; n is the last number
\* used before it.
GuardEnd(e, n, plain)   == IF LeavesOf(e) = <<>> THEN plain ELSE G(n + Numbers(e), "eval")
GuardEntry(e, n, plain) == IF LeavesOf(e) = <<>> THEN plain ELSE LeafEntry(LeavesOf(e)[1], n + 1)
GuardNodes(r, e, n, plain, key, next) ==
  LET leaves == LeavesOf(e)
      After(k) == IF k = Len(leaves) THEN GuardEnd(e, n, plain) ELSE LeafEntry(leaves[k + 1], n + k + 1)
  IN {<<GuardEnd(e, n, plain), EvalNode(GuardPayload(e, n + 1), key, next)>>}
     \cup UNION {LeafNodes(r, leaves[k], n + k, After(k)) : k \in DOMAIN leaves}

-----------------------------------------------------------------------------
(* The effects of an action *)

ActNode(a, i, tag) == "act_" \o a \o "_" \o Num(i - 1) \o "_" \o tag
StepNode(a, i, what, step, tag) == ActNode(a, i, what \o "_" \o Num(step) \o "_" \o tag)
Result(what, i, step) == what \o "_" \o Num(i - 1) \o "_" \o Num(step)

SelectionOf(r, a, selection) ==
  LET act == r.actions[a]
  IN act.inputs[(CHOOSE s \in Range(OfKind(act.effects, "select")) : s.result = selection).input]

MoveCards(from, to, ids, least, most, next) ==
  Call("zones.move", [from |-> from, to |-> to, card_ids |-> ids,
                      min_count |-> IntV(least), max_count |-> IntV(most)], "", next)
MoveOne(from, to, key, next) == MoveCards(from, to, ListOf(Path(<<key, "id">>)), 1, 1, next)
Settle(winner, points, next) ==
  Call("score_settle.call", [scores |-> At("scores"), winners |-> ListOf(winner), points |-> points],
       "scores", next)

EffectEntry(r, a, i) ==
  LET e == r.actions[a].effects[i]
  IN CASE e.kind = "select" -> ActNode(a, i, "select")
       [] e.kind = "move" -> ActNode(a, i, "move")
       [] e.kind = "assign" -> ActNode(a, i, "eval")
       [] e.kind = "remove_pairs" -> ActNode(a, i, "pairs")
       [] e.kind = "refill" -> StepNode(a, i, "refill", 0, "hand")
       [] e.kind = "draw" -> StepNode(a, i, "draw", 0, "stock")
       [] e.kind = "score_top" -> ActNode(a, i, "score_top")
       [] OTHER -> "unsupported_action_effect"

SelectNodes(r, a, i, e, next) ==
  LET input == r.actions[a].inputs[e.input]
      args == [zone |-> ZoneArg(r, input.zone), card_ids |-> Path(<<"input", e.input>>),
               min_count |-> IntV(input.min_count), max_count |-> IntV(input.max_count)]
  IN {<<ActNode(a, i, "select"),
        IF e.match_top = "" THEN Call("zones.select", args, "sel_" \o e.result, next)
        ELSE Call("zones.select_matching", args @@ [top_zone |-> StrV(<<e.match_top>>)],
                  "sel_" \o e.result, next)>>}

MoveNodes(r, a, i, e, next) ==
  {<<ActNode(a, i, "move"),
     MoveCards(ZoneArg(r, e.from_zone), ZoneArg(r, e.to_zone), Path(<<"sel_" \o e.selection, "ids">>),
               SelectionOf(r, a, e.selection).min_count, SelectionOf(r, a, e.selection).max_count, next)>>}

AssignNodes(a, i, e, next) ==
  LET held == "t_assign_" \o Num(i - 1)
  IN {<<ActNode(a, i, "eval"), EvalNode(CompileExpression(e.value), held, ActNode(a, i, "set"))>>,
      <<ActNode(a, i, "set"), Update(VarKey(e.variable) :> At(held), next)>>}

PairPoints(found, points) == Payload("mul", <<Payload("count", <<State(<<found, "groups">>)>>), Value(points)>>)

\* Mutant of MoveGroups: at least one group has to be there.
MoveSomeGroup(r, e, found, next) ==
  MoveCards(ZoneArg(r, e.from_zone), ZoneArg(r, e.to_zone), Path(<<found, "ids">>), e.group_size, MaxCards, next)
MoveGroups(r, e, found, next) ==
  MoveCards(ZoneArg(r, e.from_zone), ZoneArg(r, e.to_zone), Path(<<found, "ids">>), 0, MaxCards, next)

RemovePairsNodes(r, a, i, e, next) ==
  LET found == "sel_pairs_" \o Num(i - 1)
      points == "t_pairs_" \o Num(i - 1)
  IN {<<ActNode(a, i, "pairs"),
        Call("zones.select_duplicates", [zone |-> ZoneArg(r, e.from_zone), max_group |-> IntV(e.group_size)],
             found, ActNode(a, i, "pair_points"))>>,
      <<ActNode(a, i, "pair_points"), EvalNode(PairPoints(found, e.points), points, ActNode(a, i, "pair_move"))>>,
      <<ActNode(a, i, "pair_move"), MoveGroups(r, e, found, ActNode(a, i, "pair_score"))>>,
      <<ActNode(a, i, "pair_score"), Settle(At("current_player"), At(points), next)>>}

\* One step of a bounded run of draws: test, take the top card, move it.
TakeTop(r, a, i, e, what, step, test, after) ==
  LET Id(tag) == StepNode(a, i, what, step, tag)
      top == Result(what \o "_top", i, step)
      can == Result(what \o "_can", i, step)
  IN {<<Id("can"), EvalNode(test, can, Id("branch"))>>,
      <<Id("branch"), IfTrue(can, Id("top"), ActNode(a, i, what \o "_done"))>>,
      <<Id("top"), Call("zones.top", [zone |-> StrV(<<e.from_zone>>)], top, Id("move"))>>,
      <<Id("move"), MoveOne(StrV(<<e.from_zone>>), ZoneArg(r, e.to_zone), top, after)>>}

\* Mutant of RefillTest: the stock is not looked at.
RefillBlind(e, hand, stock) == Payload("lt", <<State(<<hand, "count">>), Value(e.target_count)>>)
RefillTest(e, hand, stock) ==
  Payload("all", <<Payload("lt", <<State(<<hand, "count">>), Value(e.target_count)>>),
                   Payload("gt", <<State(<<stock, "count">>), Value(0)>>)>>)

RefillStep(r, a, i, e, step) ==
  LET Id(tag) == StepNode(a, i, "refill", step, tag)
      hand == Result("refill_hand", i, step)
      stock == Result("refill_stock", i, step)
      After == IF step + 1 < e.max_draw THEN StepNode(a, i, "refill", step + 1, "hand")
               ELSE ActNode(a, i, "refill_done")
  IN {<<Id("hand"), Call("zones.count_zone", [zone |-> ZoneArg(r, e.to_zone)], hand, Id("stock"))>>,
      <<Id("stock"), Call("zones.count_zone", [zone |-> StrV(<<e.from_zone>>)], stock, Id("can"))>>}
     \cup TakeTop(r, a, i, e, "refill", step, RefillTest(e, hand, stock), After)

DrawStep(r, a, i, e, step) ==
  LET stock == Result("draw_stock", i, step)
      After == IF step + 1 < e.count THEN StepNode(a, i, "draw", step + 1, "stock")
               ELSE ActNode(a, i, "draw_done")
  IN {<<StepNode(a, i, "draw", step, "stock"),
        Call("zones.count_zone", [zone |-> StrV(<<e.from_zone>>)], stock, StepNode(a, i, "draw", step, "can"))>>}
     \cup TakeTop(r, a, i, e, "draw", step, Payload("gt", <<State(<<stock, "count">>), Value(0)>>), After)

RefillNodes(r, a, i, e, next) ==
  {<<ActNode(a, i, "refill_done"), Update(<<>>, next)>>}
  \cup UNION {RefillStep(r, a, i, e, n - 1) : n \in 1 .. e.max_draw}
DrawNodes(r, a, i, e, next) ==
  {<<ActNode(a, i, "draw_done"), Update(<<>>, next)>>}
  \cup UNION {DrawStep(r, a, i, e, n - 1) : n \in 1 .. e.count}

\* A top card whose suit or rank the table does not list scores nothing.
ScoreTopNodes(r, a, i, e, next) ==
  LET card == "score_card_" \o a \o "_" \o Num(i - 1)
      Award(k) == ActNode(a, i, "score_" \o k)
  IN {<<ActNode(a, i, "score_top"),
        Call("zones.top", [zone |-> ZoneArg(r, e.zone)], card, ActNode(a, i, "score_branch"))>>,
      <<ActNode(a, i, "score_branch"),
        Branch(Path(<<card, e.by>>), [v \in {StrV(<<k>>) : k \in DOMAIN e.points} |-> Award(v[2][1])], next)>>}
     \cup {<<Award(k), Settle(At("current_player"), IntV(e.points[k]), next)>> : k \in DOMAIN e.points}

EffectNodes(r, a, i, next) ==
  LET e == r.actions[a].effects[i]
  IN CASE e.kind = "select" -> SelectNodes(r, a, i, e, next)
       [] e.kind = "move" -> MoveNodes(r, a, i, e, next)
       [] e.kind = "assign" -> AssignNodes(a, i, e, next)
       [] e.kind = "remove_pairs" -> RemovePairsNodes(r, a, i, e, next)
       [] e.kind = "refill" -> RefillNodes(r, a, i, e, next)
       [] e.kind = "draw" -> DrawNodes(r, a, i, e, next)
       [] e.kind = "score_top" -> ScoreTopNodes(r, a, i, e, next)
       [] OTHER -> {}

ActionEntry(r, a) == IF r.actions[a].effects = <<>> THEN "advance_turn" ELSE EffectEntry(r, a, 1)
ActionNodes(r, a) ==
  LET last == Len(r.actions[a].effects)
  IN UNION {EffectNodes(r, a, i, IF i = last THEN "advance_turn" ELSE EffectEntry(r, a, i + 1)) : i \in 1 .. last}

-----------------------------------------------------------------------------
(* Setup *)

\* All that is left of the shared deals goes to the first one's zone.
ZoneSource(r, id) ==
  LET hand == HandDeals(r)[1].zone
  IN CASE \E s \in Seats(r) : id = <<hand \o "-", Num(s)>> -> Path(<<"deal", "hands", id[2]>>)
       [] id = <<r.stock_zone>> -> Path(<<"deal", "deck">>)
       [] SharedDeals(r) # <<>> /\ id = <<SharedDeals(r)[1].zone>> -> Path(<<"deal", "kitty">>)
       [] OTHER -> <<"cards", <<>>>>

HasTrigger(r) == \E a \in Range(ActionSequence(r)) : r.actions[a].trigger # <<>>

\* Mutant of ZoneTable: a zone that starts empty is left out.
DealtZoneTable(r) ==
  LET dealt == {id \in ZoneIds(r) : ZoneSource(r, id) # <<"cards", <<>>>>}
  IN <<"zone_table", [id \in dealt |-> ZoneSource(r, id)]>>
ZoneTable(r) == <<"zone_table", [id \in ZoneIds(r) |-> ZoneSource(r, id)]>>

InitialValues(r) ==
  LET host == [zones |-> ZoneTable(r),
               scores |-> ListV([s \in 1 .. r.players |-> 0]), round |-> IntV(1), action_count |-> IntV(0),
               turn_index |-> IntV(0), finished |-> BoolV(FALSE), winners |-> ListV(<<>>), phase |-> StrV(<<"play">>)]
      skip == IF HasTrigger(r) THEN {"skip_next"} ELSE {}
      keys == {VarKey(x) : x \in DOMAIN r.variables}
      Initial(k) == r.variables[CHOOSE x \in DOMAIN r.variables : VarKey(x) = k].initial
  IN [k \in DOMAIN host \cup skip \cup keys |->
        IF k \in DOMAIN host THEN host[k] ELSE IF k \in skip THEN IntV(0) ELSE Initial(k)]

SetupNodes(r) ==
  {<<"setup_seed",
     EvalNode(Payload("join", <<StateKey("seed"), Const(StrV(<<":composed">>))>>), "deal_seed", "setup_deal")>>,
   <<"setup_deal",
     Call("deck.deal",
          [seed |-> At("deal_seed"), hands |-> IntV(r.players), cards_each |-> IntV(HandDeals(r)[1].count),
           kitty |-> IntV(TotalOf(LAMBDA d : d.count, SharedDeals(r)))], "deal", "init")>>,
   <<"init", Update(InitialValues(r), "round_start")>>}

-----------------------------------------------------------------------------
(* The turn loop *)

\* The player zones the offered actions read or write, each with a node that
\* names the acting seat's instance.
ActorZones(r) ==
  LET Of(a) == {a.inputs[i].zone : i \in DOMAIN a.inputs}
               \cup UNION {{e.from_zone, e.to_zone} : e \in
                             {x \in Range(a.effects) : x.kind \in {"move", "remove_pairs", "refill", "draw"}}}
  IN {z \in UNION {Of(r.actions[a]) : a \in Range(ActionSequence(r))} : PlayerZone(r, z)}

\* Guards are lowered from the last candidate to the first.
Guard(r, i) == r.actions[ActionSequence(r)[i]].guard
GuardBase(r, i) ==
  TotalOf(LAMBDA a : Numbers(r.actions[a].guard), SubSeq(ActionSequence(r), i + 1, Len(ActionSequence(r))))

\* A single action keeps the older node names.
Single(r) == Len(ActionSequence(r)) = 1
Named(r, i, one, many) == IF Single(r) THEN one ELSE many \o ActionSequence(r)[i]
WaitId(r, i)      == Named(r, i, "turn", "turn_")
PlainId(r, i)     == Named(r, i, "pre_turn", "guard_")
GuardKey(r, i)    == Named(r, i, "guard_ok", "guard_ok_")
GuardBranch(r, i) == IF Single(r) THEN "guard_branch" ELSE PlainId(r, i) \o "_branch"

CandidateEntry(r, i) ==
  CASE i > Len(ActionSequence(r)) -> "bump_turn"
    [] Guard(r, i) = NoExpr -> WaitId(r, i)
    [] OTHER -> GuardEntry(Guard(r, i), GuardBase(r, i), PlainId(r, i))
TurnEntry(r) == CandidateEntry(r, 1)

\* The first candidate whose guard holds is offered, or no action is.
CandidateNodes(r, i) ==
  LET a == ActionSequence(r)[i]
      guarded == GuardNodes(r, Guard(r, i), GuardBase(r, i), PlainId(r, i), GuardKey(r, i), GuardBranch(r, i))
                 \cup {<<GuardBranch(r, i), IfTrue(GuardKey(r, i), WaitId(r, i), CandidateEntry(r, i + 1))>>}
  IN {<<WaitId(r, i), Wait(a, ActionEntry(r, a))>>} \cup (IF Guard(r, i) = NoExpr THEN {} ELSE guarded)

\* In some order: the code sorts them, and no property depends on it.
SortedZones(r) == SetToSeq(ActorZones(r))
ZoneEntry(r) == IF ActorZones(r) = {} THEN TurnEntry(r) ELSE ZoneKey(SortedZones(r)[1])
ZoneNodes(r) ==
  LET zs == SortedZones(r)
  IN {<<ZoneKey(zs[k]), EvalNode(Payload("join", <<Const(StrV(<<zs[k] \o "-">>)), StateKey("current_player")>>),
                                 ZoneKey(zs[k]), IF k = Len(zs) THEN TurnEntry(r) ELSE ZoneKey(zs[k + 1]))>> :
        k \in DOMAIN zs}

RoundNodes(r) ==
  LET After == IF HasCompare(r) THEN "second_seat" ELSE "turn_setup"
      first == IF r.start_seat = "round_parity"
               THEN EvalNode(Payload("mod", <<Payload("sub", <<StateKey("round"), Value(1)>>), Value(r.players)>>),
                             "first_seat", After)
               ELSE Update("first_seat" :> IntV(0), After)
      second == EvalNode(Payload("sub", <<Value(r.players - 1), StateKey("first_seat")>>), "second_seat", "turn_setup")
  IN {<<"round_start", first>>,
      <<"turn_setup", Update("turn_index" :> IntV(0) @@ "current_player" :> At("first_seat"), ZoneEntry(r))>>}
     \cup (IF HasCompare(r) THEN {<<"second_seat", second>>} ELSE {})

Increment(key) == Payload("add", <<StateKey(key), Value(1)>>)

\* The terminal gate: with nothing to test it is the node that follows.
GateTests(r, budget) ==
  (IF r.score_reaches = 0 THEN <<>>
   ELSE <<Payload("any", [s \in 1 .. r.players |->
                            Payload("ge", <<State(<<"scores", Num(s - 1)>>), Value(r.score_reaches)>>)])>>)
  \o (IF budget /\ r.max_actor_actions # 0
      THEN <<Payload("ge", <<StateKey("action_count"), Value(r.max_actor_actions)>>)>> ELSE <<>>)
GateEntry(r, prefix, budget, next) == IF GateTests(r, budget) = <<>> THEN next ELSE prefix
GateNodes(r, prefix, budget, next) ==
  LET tests == GateTests(r, budget)
      key == prefix \o "_terminal"
  IN IF tests = <<>> THEN {}
     ELSE {<<prefix, EvalNode(IF Len(tests) = 1 THEN tests[1] ELSE Payload("any", tests), key, prefix \o "_branch")>>,
           <<prefix \o "_branch", IfTrue(key, "finish", next)>>}

-----------------------------------------------------------------------------
(* Triggers: one shared phase that dispatches on the action that ran *)

Triggered(r) == Without(ActionSequence(r), {a \in Range(ActionSequence(r)) : r.actions[a].trigger = <<>>})
TrigNode(a, j, tag) == "trig_" \o a \o "_" \o Num(j - 1) \o "_" \o tag

\* Trigger conditions are lowered after the guards, in the order of the actions.
TriggerBase(r, a, j) ==
  LET k == SelectInSeq(Triggered(r), LAMBDA x : x = a)
      NumbersOf(effects) == TotalOf(LAMBDA e : Numbers(e.condition), effects)
  IN GuardBase(r, 0) + TotalOf(LAMBDA x : NumbersOf(r.actions[x].trigger), SubSeq(Triggered(r), 1, k - 1))
     + NumbersOf(SubSeq(r.actions[a].trigger, 1, j - 1))

TriggerStart(r, a, j) ==
  IF j > Len(r.actions[a].trigger) THEN "bump_turn"
  ELSE LET condition == r.actions[a].trigger[j].condition
       IN IF condition = NoExpr THEN TrigNode(a, j, "set")
          ELSE GuardEntry(condition, TriggerBase(r, a, j), TrigNode(a, j, "eval"))

SkipNodes(r, a, j) ==
  LET e == r.actions[a].trigger[j]
      next == TriggerStart(r, a, j + 1)
      key == "trig_ok_" \o a \o "_" \o Num(j - 1)
      guarded == GuardNodes(r, e.condition, TriggerBase(r, a, j), TrigNode(a, j, "eval"), key, TrigNode(a, j, "branch"))
                 \cup {<<TrigNode(a, j, "branch"), IfTrue(key, TrigNode(a, j, "set"), next)>>}
  IN {<<TrigNode(a, j, "set"), Update("skip_next" :> IntV(e.count), next)>>}
     \cup (IF e.condition = NoExpr THEN {} ELSE guarded)

TriggerEntry(r, k) == IF k > Len(Triggered(r)) THEN "bump_turn" ELSE "trigger_" \o Triggered(r)[k] \o "_check"
TriggerNodes(r, k) ==
  LET a == Triggered(r)[k]
      key == "trigger_" \o a \o "_hit"
  IN {<<TriggerEntry(r, k), EvalNode(Payload("eq", <<State(<<"input", "action">>), Const(StrV(<<a>>))>>), key,
                                     "trigger_" \o a \o "_branch")>>,
      <<"trigger_" \o a \o "_branch", IfTrue(key, TriggerStart(r, a, 1), TriggerEntry(r, k + 1))>>}
     \cup UNION {SkipNodes(r, a, j) : j \in DOMAIN r.actions[a].trigger}

-----------------------------------------------------------------------------
(* The end of a turn and of a round *)

RoundGate(r) == GateEntry(r, "after_resolve", TRUE, "end_round")
SegmentEntry(r, i) ==
  IF i > Len(r.resolve) THEN RoundGate(r)
  ELSE (IF r.resolve[i].kind = "compare" THEN "resolve_cmp_" ELSE "resolve_top_") \o Num(i - 1)
       \o (IF r.resolve[i].kind = "compare" THEN "" ELSE "_0")

CompareNodes(r, i, next) ==
  LET e == r.resolve[i]
      n == Num(i - 1)
      key == "cmp_" \o n
      RulesFor(o) == SelectSeq(e.rules, LAMBDA x : r.scoring[x].on_outcome = o)
      Award(o, k) == "resolve_award_" \o n \o "_" \o o \o "_" \o Num(k - 1)
      AwardNode(o, k) ==
        LET rule == r.scoring[RulesFor(o)[k]]
        IN Settle(At(IF rule.recipient = "left" THEN "first_seat" ELSE "second_seat"), IntV(rule.points),
                  IF k = Len(RulesFor(o)) THEN next ELSE Award(o, k + 1))
      Outcomes == {r.scoring[x].on_outcome : x \in Range(e.rules)}
      Position(p) == Path(<<"zones", e.zone, "cards", Num(p)>>)
  IN {<<"resolve_cmp_" \o n, Call("rank_compare.call", [left |-> Position(e.left), right |-> Position(e.right)],
                                  key, "resolve_cmp_branch_" \o n)>>,
      <<"resolve_cmp_branch_" \o n,
        Branch(Path(<<key, "outcome">>), [v \in {StrV(<<o>>) : o \in Outcomes} |-> Award(v[2][1], 1)], next)>>}
     \cup UNION {{<<Award(o, k), AwardNode(o, k)>> : k \in DOMAIN RulesFor(o)} : o \in {"left", "right", "tie"}}

FlushNodes(r, i, next) ==
  LET e == r.resolve[i]
      Id(what, step) == "resolve_" \o what \o "_" \o Num(i - 1) \o "_" \o Num(step - 1)
      key(step) == "t_top_" \o Num(i - 1) \o "_" \o Num(step - 1)
      After(step) == IF step = e.count THEN next ELSE Id("top", step + 1)
  IN UNION {{<<Id("top", step), Call("zones.top", [zone |-> StrV(<<e.from_zone>>)], key(step), Id("movetop", step))>>,
             <<Id("movetop", step),
               MoveOne(StrV(<<e.from_zone>>), StrV(<<e.to_zone>>), key(step), After(step))>>} : step \in 1 .. e.count}

ResolveNodes(r) ==
  UNION {IF r.resolve[i].kind = "compare" THEN CompareNodes(r, i, SegmentEntry(r, i + 1))
         ELSE FlushNodes(r, i, SegmentEntry(r, i + 1)) : i \in DOMAIN r.resolve}

\* Mutant of TurnBudget: the action budget ends a game in the middle of a round.
EveryTurnBudget(r) == TRUE
\* A rule whose rounds are compared tests the action budget after the compare.
TurnBudget(r) == ~ HasCompare(r)

AfterTurnNodes(r) ==
  LET gate == GateEntry(r, "after_action", TurnBudget(r), TriggerEntry(r, 1))
      bump == IF HasTrigger(r) THEN Payload("add", <<Increment("turn_index"), StateKey("skip_next")>>)
              ELSE Increment("turn_index")
      turn == "turn_index" :> At("next_turn_index") @@ (IF HasTrigger(r) THEN "skip_next" :> IntV(0) ELSE <<>>)
      seat == Payload("mod", <<Payload("add", <<StateKey("first_seat"), StateKey("turn_index")>>), Value(r.players)>>)
      over == Payload("ge", <<StateKey("turn_index"), Value(r.players)>>)
  IN {<<"advance_turn", EvalNode(Increment("action_count"), "next_action_count", "set_action_count")>>,
      <<"set_action_count", Update("action_count" :> At("next_action_count"), gate)>>,
      <<"bump_turn", EvalNode(bump, "next_turn_index", "set_turn_index")>>,
      <<"set_turn_index", Update(turn, "turn_check")>>,
      <<"turn_check", EvalNode(over, "round_done", "turn_check_branch")>>,
      <<"turn_check_branch", IfTrue("round_done", SegmentEntry(r, 1), "next_turn")>>,
      <<"next_turn", EvalNode(seat, "next_seat", "set_next_seat")>>,
      <<"set_next_seat", Update("current_player" :> At("next_seat"), ZoneEntry(r))>>}
     \cup GateNodes(r, "after_action", TurnBudget(r), TriggerEntry(r, 1))

EndRoundNodes(r) ==
  LET last == Payload("gt", <<StateKey("round"), Value(r.max_rounds)>>)
      limit == {<<"round_check", EvalNode(last, "at_end", "round_check_branch")>>,
                <<"round_check_branch", IfTrue("at_end", "finish", "round_start")>>}
      result == "finished" :> BoolV(TRUE) @@ "winners" :> At("winner_indexes") @@ "phase" :> StrV(<<"finished">>)
  IN {<<"end_round", EvalNode(Increment("round"), "next_round", "set_round")>>,
      <<"set_round", Update("round" :> At("next_round"), IF r.max_rounds = 0 THEN "round_start" ELSE "round_check")>>,
      <<"finish", Call("winner_resolve.call", [values |-> At("scores")], "winner_indexes", "declare")>>,
      <<"declare", Update(result, "end")>>,
      <<"end", EndNode>>}
     \cup (IF r.max_rounds = 0 THEN {} ELSE limit)

-----------------------------------------------------------------------------
(* The plan *)

Lines(r) ==
  SetupNodes(r) \cup RoundNodes(r) \cup ZoneNodes(r) \cup AfterTurnNodes(r) \cup ResolveNodes(r)
  \cup EndRoundNodes(r) \cup GateNodes(r, "after_resolve", TRUE, "end_round")
  \cup (UNION {CandidateNodes(r, i) \cup ActionNodes(r, ActionSequence(r)[i]) : i \in DOMAIN ActionSequence(r)})
  \cup (UNION {TriggerNodes(r, k) : k \in DOMAIN Triggered(r)})

\* Two lines of one id: an action called "check" is offered by "turn_check",
\* which the turn loop has.
DuplicateNode(r) == \E l, m \in Lines(r) : l[1] = m[1] /\ l # m

PlanNodes(r) ==
  LET lines == Lines(r)
  IN [id \in {l[1] : l \in lines} |-> (CHOOSE l \in lines : l[1] = id)[2]]

\* The cards of the deck the plan is bound to; a later copy has an id of its own.
Catalog(r) ==
  LET Id(k, s, c) == r.ranks[k] \o r.suits[s] \o (IF c = 1 THEN "" ELSE "#" \o Num(c))
      Strength(k) == IF r.ranks[k] \in DOMAIN r.values THEN r.values[r.ranks[k]] ELSE k
  IN FlattenSeq([c \in 1 .. r.copies |-> FlattenSeq([k \in DOMAIN r.ranks |->
       [s \in DOMAIN r.suits |-> [id |-> Id(k, s, c), rank |-> r.ranks[k], suit |-> r.suits[s], value |-> Strength(k),
                                place |-> (s - 1) * r.copies + c]]])])

\* The typed inputs the plan publishes for each action it may offer.
Descriptors(r) == [a \in DOMAIN r.actions |-> r.actions[a].inputs]

Compile(r) ==
  LET cards == Range(Catalog(r))
  IN [nodes |-> PlanNodes(r), entry |-> "setup_seed", step_limit |-> StepLimit, actions |-> Descriptors(r),
      faces |-> [id \in {c.id : c \in cards} |-> CHOOSE c \in cards : c.id = id]]
=============================================================================
