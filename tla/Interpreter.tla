------------------------------ MODULE Interpreter ------------------------------
(***************************************************************************)
(* The step machine that runs a plan (core/interpreter.py) with the host   *)
(* operations a composed plan calls (core/tools.py, core/zones.py,         *)
(* core/zone_tools.py).  One action is one node: a call, a branch, a wait, *)
(* the end.  A rejection anywhere between two waits puts the state back.   *)
(*                                                                         *)
(* The zones are kept apart from the rest of the state dictionary: cards   *)
(* by zone id, cards by their ids.  Events are left out.                   *)
(***************************************************************************)
EXTENDS Values

CONSTANTS
  Games,         \* the names of the plans
  PlanOf,        \* their plans
  ShufflesOf,    \* the orders the deck of each may be dealt in
  Eval(_, _)     \* evaluate_expression of a payload in a state

VARIABLES
  game,      \* the plan that runs
  order,     \* its deck, as the seed shuffles it
  mode,      \* "new", "running", "waiting", "over"
  zones,     \* zone id -> the cards in it, the top one last
  st,        \* the state dictionary
  pc,        \* the current node
  fuel,      \* the nodes advance may still take
  backup,    \* what a rejection restores, while running
  fault      \* why the last setup or step was rejected, or "none"
vars == <<game, order, mode, zones, st, pc, fuel, backup, fault>>

Plan    == PlanOf[game]
NodeAt  == Plan.nodes[pc]
Face(c) == Plan.faces[c]
Held    == [zones |-> zones, st |-> st, pc |-> pc, mode |-> mode]
NoBackup == [zones |-> <<>>, st |-> <<>>, pc |-> "", mode |-> "none"]

-----------------------------------------------------------------------------
(* Arguments.  A list argument is resolved item by item; the zones can be  *)
(* read through the dictionary too.                                        *)

CardsV(s) == <<"cards", s>>
Dict(f)   == <<"dict", f>>

\* The dictionary with one more entry, or another value for one it has.
Put(s, key, v) == [k \in DOMAIN s \cup {key} |-> IF k = key THEN v ELSE s[k]]

\* The dictionary with the shared zones back in it, for a path that enters them.
Whole(s, zs) ==
  Put(s, "zones", Dict([z \in {k[1] : k \in {y \in DOMAIN zs : Len(y) = 1}} |->
                          Dict([cards |-> CardsV(zs[<<z>>])])]))
ResolveIn(v, s, zs) ==
  IF IsReference(v) /\ "zones" \in Range(v[2]) THEN Resolve(v, Whole(s, zs)) ELSE Resolve(v, s)

Argument(v, s, zs) ==
  IF v[1] # "list" THEN ResolveIn(v, s, zs)
  ELSE LET items == [i \in DOMAIN v[2] |-> ResolveIn(v[2][i], s, zs)]
       IN IF \E i \in DOMAIN items : IsError(items[i])
          THEN Error("state_reference_not_found") ELSE <<"list", items>>
Arguments(args, s, zs) == [k \in DOMAIN args |-> Argument(args[k], s, zs)]
Unresolved(a) == \E k \in DOMAIN a : IsError(a[k])

\* A list of card ids: a selection, or single ids.
Ids(v) == IF v[1] = "list" THEN [i \in DOMAIN v[2] |-> v[2][i][2]] ELSE v[2]

-----------------------------------------------------------------------------
(* The host operations: a result, or an error *)

UnknownZone(v, zs) == v[1] # "string" \/ v[2] \notin DOMAIN zs

\* Whether a selection is refused: a list of card ids, its count, who owns them.
SelectionError(a, zone, zs) ==
  LET ids == Ids(a.card_ids)
  IN CASE a.card_ids[1] \notin {"ids", "list"} \/ ids \notin Seq(DOMAIN Plan.faces) -> "selection_requires_card_ids"
       [] ~ IsInjective(ids) -> "selection_has_duplicate_ids"
       [] Len(ids) \notin a.min_count[2] .. a.max_count[2] -> "selection_count_out_of_range"
       [] UnknownZone(zone, zs) -> "unknown_zone"
       [] ~ Range(ids) \subseteq Range(zs[zone[2]]) -> "selection_not_owned_by_zone"
       [] OTHER -> "none"

SameSuitOrRank(c, d) == Face(c).suit = Face(d).suit \/ Face(c).rank = Face(d).rank

SelectCards(a, zs) ==
  LET why == SelectionError(a, a.zone, zs)
  IN IF why # "none" THEN Error(why) ELSE Dict([ids |-> <<"ids", Ids(a.card_ids)>>])

SelectMatching(a, zs) ==
  LET chosen == SelectCards(a, zs)
      pile == zs[a.top_zone[2]]
  IN CASE IsError(chosen) -> chosen
       [] UnknownZone(a.top_zone, zs) -> Error("unknown_zone")
       [] pile = <<>> -> Error("zone_is_empty")
       [] \E i \in DOMAIN Ids(a.card_ids) : ~ SameSuitOrRank(Ids(a.card_ids)[i], Last(pile)) ->
            Error("selection_does_not_match")
       [] OTHER -> chosen

TopOf(a, zs) ==
  CASE UnknownZone(a.zone, zs) -> Error("unknown_zone")
    [] zs[a.zone[2]] = <<>> -> Error("zone_is_empty")
    [] OTHER -> LET c == Last(zs[a.zone[2]])
                IN Dict([id |-> <<"id", c>>, rank |-> StrV(<<Face(c).rank>>), suit |-> StrV(<<Face(c).suit>>),
                         value |-> IntV(Face(c).value)])

CardsOf(a, zs) ==
  IF UnknownZone(a.zone, zs) THEN Error("unknown_zone")
  ELSE Dict([cards |-> CardsV(zs[a.zone[2]]), count |-> IntV(Len(zs[a.zone[2]]))])

\* One group per rank held at least max_group times, by value; the cards of a
\* rank in the order of their ids.  min_count is max_group in every compiled call.
DuplicateGroups(a, zs) ==
  LET cards == Range(zs[a.zone[2]])
      size == a.max_group[2]
      OfRank(k) == {c \in cards : Face(c).rank = k}
      ValueOf(k) == Face(CHOOSE c \in OfRank(k) : TRUE).value
      ranks == SetToSortSeq({k \in {Face(c).rank : c \in cards} : Cardinality(OfRank(k)) >= size},
                            LAMBDA j, k : ValueOf(j) < ValueOf(k))
      Chosen(k) == SubSeq(SetToSortSeq(OfRank(k), LAMBDA c, d : Face(c).place < Face(d).place), 1, size)
      groups == [i \in DOMAIN ranks |-> Chosen(ranks[i])]
  IN IF UnknownZone(a.zone, zs) THEN Error("unknown_zone")
     ELSE Dict([groups |-> <<"groups", groups>>, ids |-> <<"ids", FlattenSeq(groups)>>])

\* The moved cards go on top of the target in the order they were chosen.  The
\* audits of ownership before and after the moves are left out: OneHome makes
\* the first, the proof that a move preserves it the second, pass every time.
MoveError(a, zs) ==
  CASE a.from[1] # "string" \/ a.to[1] # "string" \/ a.from[2] = a.to[2] -> "move_requires_distinct_zones"
    [] UnknownZone(a.from, zs) \/ UnknownZone(a.to, zs) -> "unknown_zone"
    [] OTHER -> SelectionError(a, a.from, zs)
\* Mutant of Moved: only the first of the chosen cards leaves its zone.
MovedFirst(a, zs) ==
  LET ids == Ids(a.card_ids)
  IN [zs EXCEPT ![a.from[2]] = Without(@, IF ids = <<>> THEN {} ELSE {ids[1]}),
                ![a.to[2]] = @ \o ids]
Moved(a, zs) ==
  LET ids == Ids(a.card_ids)
  IN [zs EXCEPT ![a.from[2]] = Without(@, Range(ids)),
                ![a.to[2]] = @ \o ids]

\* deck.deal of a shuffled deck: the hands, the kitty and what is left.
DealFrom(deck, a) ==
  LET each == a.cards_each[2]
      dealt == a.hands[2] * each
  IN IF dealt + a.kitty[2] > Len(deck) THEN Error("deck_exhausted")
     ELSE Dict([hands |-> <<"hands", [h \in 1 .. a.hands[2] |-> SubSeq(deck, (h - 1) * each + 1, h * each)]>>,
                kitty |-> CardsV(SubSeq(deck, dealt + 1, dealt + a.kitty[2])),
                deck |-> CardsV(SubSeq(deck, dealt + a.kitty[2] + 1, Len(deck)))])
Deal(a) == DealFrom(order, a)

ScoreSettle(a) ==
  LET winners == {a.winners[2][i][2] : i \in DOMAIN a.winners[2]}
  IN IF \E w \in winners : w \notin 0 .. Len(a.scores[2]) - 1 THEN Error("invalid_winners")
     ELSE ListV([i \in DOMAIN a.scores[2] |-> a.scores[2][i] + (IF i - 1 \in winners THEN a.points[2] ELSE 0)])

RankCompare(a) ==
  LET left == Face(a.left[2]).value
      right == Face(a.right[2]).value
  IN Dict([outcome |-> StrV(<<IF left = right THEN "tie" ELSE IF left > right THEN "left" ELSE "right">>)])

WinnerResolve(a) ==
  LET seats == DOMAIN a.values[2]
  IN ListV(SetToSortSeq({i - 1 : i \in {j \in seats : \A k \in seats : a.values[2][k] <= a.values[2][j]}}, <))

\* The positions of the cards that match the top card; none when there is none.
PatternChoices(a) ==
  LET hand == a.cards[2]
  IN ListV(IF a.top[2] = <<>> THEN <<>>
           ELSE SetToSortSeq({i - 1 : i \in {j \in DOMAIN hand : SameSuitOrRank(hand[j], Last(a.top[2]))}}, <))

\* The result of a call, evaluated in the dictionary s and the zones zs.
Answer(node, s, zs) ==
  IF node.op = "logic.evaluate" THEN Eval(node.args.expression, s)
  ELSE LET a == Arguments(node.args, s, zs)
       IN IF Unresolved(a) THEN Error("state_reference_not_found")
          ELSE CASE node.op = "zones.select" -> SelectCards(a, zs)
                 [] node.op = "zones.select_matching" -> SelectMatching(a, zs)
                 [] node.op = "zones.top" -> TopOf(a, zs)
                 [] node.op \in {"zones.cards", "zones.count_zone"} -> CardsOf(a, zs)
                 [] node.op = "zones.select_duplicates" -> DuplicateGroups(a, zs)
                 [] node.op = "deck.deal" -> Deal(a)
                 [] node.op = "score_settle.call" -> ScoreSettle(a)
                 [] node.op = "rank_compare.call" -> RankCompare(a)
                 [] node.op = "winner_resolve.call" -> WinnerResolve(a)
                 [] node.op = "pattern.choices" -> PatternChoices(a)

-----------------------------------------------------------------------------
(* What a plan has to be.  The checks of GamePlan (core/plan.py) and of the *)
(* program that writes the plans see to it.                                *)

\* The nodes a node may lead to.
Leads(node) ==
  CASE node.kind = "call" -> {node.next}
    [] node.kind = "branch" -> {node.next} \cup Range(node.cases)
    [] node.kind = "wait" -> Range(node.inputs)
    [] OTHER -> {}
ASSUME FlowAssumption ==
  \A g \in Games : /\ PlanOf[g].entry \in DOMAIN PlanOf[g].nodes
                   /\ \A n \in DOMAIN PlanOf[g].nodes : Leads(PlanOf[g].nodes[n]) \subseteq DOMAIN PlanOf[g].nodes

\* A deck is a list of cards, all of them different.
ASSUME DeckAssumption ==
  \A g \in Games : \A o \in ShufflesOf[g] : o \in Seq(DOMAIN PlanOf[g].faces) /\ IsInjective(o)

SetsTable(node) == node.kind = "call" /\ node.op = "state.update" /\ "zones" \in DOMAIN node.args.values
TableOfNode(node) == node.args.values["zones"][2]
Amounts == {"hands", "cards_each", "kitty"}
DealsCards(node) ==
  /\ node.kind = "call" /\ node.op = "deck.deal" /\ node.result_key = "deal"
  /\ Amounts \subseteq DOMAIN node.args
  /\ \A k \in Amounts : node.args[k][1] = "integer" /\ node.args[k][2] \in Nat
\* Where the cards of a zone come from: nowhere, or one part of the deal.
NoCards == CardsV(<<>>)
FromTheDeal(v) ==
  \/ v \in {NoCards, StrV(<<"$state", "deal", "deck">>), StrV(<<"$state", "deal", "kitty">>)}
  \/ v = StrV(<<"$state", "deal", "hands", v[2][4]>>)
\* The zones are set where a deal has just been made, each to a part of its own
\* (_setup_nodes, _zone_table).
ASSUME DealAssumption ==
  \A g \in Games : LET nodes == PlanOf[g].nodes IN
    \A w \in DOMAIN nodes : SetsTable(nodes[w]) =>
      /\ w # PlanOf[g].entry
      /\ \A n \in DOMAIN nodes : w \in Leads(nodes[n]) => DealsCards(nodes[n])
      /\ LET table == TableOfNode(nodes[w]) IN
           /\ \A z \in DOMAIN table : FromTheDeal(table[z])
           /\ \A y, z \in DOMAIN table : table[y] = table[z] /\ table[y] # NoCards => y = z

-----------------------------------------------------------------------------
(* The step machine *)

Init ==
  /\ game \in Games
  /\ order \in ShufflesOf[game]
  /\ mode = "new"
  /\ zones = <<>>
  /\ st = [seed |-> StrV(<<"seed">>), reveal |-> BoolV(FALSE), input |-> Dict(<<>>)]
  /\ pc = Plan.entry
  /\ fuel = 0
  /\ backup = NoBackup
  /\ fault = "none"

\* setup and step keep a copy of everything, then advance.
Begin ==
  /\ backup' = Held
  /\ mode' = "running"
  /\ fuel' = Plan.step_limit
  /\ fault' = "none"
  /\ UNCHANGED <<game, order, zones>>

Setup ==
  /\ mode = "new"
  /\ Begin
  /\ UNCHANGED <<st, pc>>

\* The inputs of an action: any choice among the cards of its zone and one
\* that lies elsewhere, of any length it may have or none.
ZoneOf(input) ==
  IF input.scope = "shared" THEN <<input.zone>>
  ELSE <<input.zone \o "-", ToString(st.current_player[2])>>
Strangers(z) ==
  LET others == UNION {Range(zones[y]) : y \in DOMAIN zones \ {z}}
  IN IF others = {} THEN {} ELSE {CHOOSE c \in others : TRUE}
Picks(input) ==
  LET z == ZoneOf(input)
  IN UNION {[1 .. n -> Range(zones[z]) \cup Strangers(z)] : n \in {0} \cup input.min_count .. input.max_count}
InputsOf(action) ==
  LET inputs == Plan.actions[action]
  IN {f \in [DOMAIN inputs -> UNION {Picks(inputs[i]) : i \in DOMAIN inputs}] :
        \A i \in DOMAIN inputs : f[i] \in Picks(inputs[i])}
WithInput(action, payload) ==
  [st EXCEPT !.input = Dict([i \in DOMAIN payload |-> <<"ids", payload[i]>>] @@ [action |-> StrV(<<action>>)])]

Step(action, payload) ==
  /\ mode = "waiting"
  /\ action \in DOMAIN NodeAt.inputs
  /\ Begin
  /\ st' = WithInput(action, payload)
  /\ pc' = NodeAt.inputs[action]

Running == mode = "running" /\ fuel > 0
Walks == fuel' = fuel - 1 /\ UNCHANGED <<game, order, mode, backup, fault>>
Calls(operations) == Running /\ NodeAt.kind = "call" /\ NodeAt.op \in operations
Writers == {"state.update", "zones.move"}
Readers == {NodeAt.op} \ Writers

\* What a call, or the end of the advance, is refused for.
UpdateArgs == LET values == NodeAt.args.values IN Arguments([k \in DOMAIN values \ {"zones"} |-> values[k]], st, zones)
TableArgs  == IF "zones" \in DOMAIN NodeAt.args.values THEN Arguments(NodeAt.args.values["zones"][2], st, zones) ELSE <<>>
MoveArgs   == Arguments(NodeAt.args, st, zones)
FaultOf(v) == IF IsError(v) THEN v[2] ELSE "none"
CallFault ==
  CASE NodeAt.op = "state.update" ->
         IF Unresolved(UpdateArgs) \/ Unresolved(TableArgs) THEN "state_reference_not_found" ELSE "none"
    [] NodeAt.op = "zones.move" -> IF Unresolved(MoveArgs) THEN "state_reference_not_found" ELSE MoveError(MoveArgs, zones)
    [] OTHER -> FaultOf(Answer(NodeAt, st, zones))
Finished == "finished" \in DOMAIN st /\ Truthy(st.finished)
NodeFault ==
  CASE fuel = 0 -> "flow_step_limit"
    [] NodeAt.kind = "call" -> CallFault
    [] NodeAt.kind = "branch" -> FaultOf(Resolve(NodeAt.value, st))
    [] NodeAt.kind = "wait" -> IF Finished THEN "finished_flow_cannot_wait" ELSE "none"
    [] NodeAt.kind = "end" -> IF Finished THEN "none" ELSE "flow_end_requires_finished_state"

Read ==
  /\ Calls(Readers)
  /\ CallFault = "none"
  /\ st' = Put(st, NodeAt.result_key, Answer(NodeAt, st, zones))
  /\ pc' = NodeAt.next
  /\ Walks /\ UNCHANGED zones

Write ==
  /\ Calls({"state.update"})
  /\ CallFault = "none"
  /\ st' = UpdateArgs @@ st
  /\ zones' = IF "zones" \in DOMAIN NodeAt.args.values THEN [z \in DOMAIN TableArgs |-> TableArgs[z][2]] ELSE zones
  /\ pc' = NodeAt.next
  /\ Walks

MoveCall ==
  /\ Calls({"zones.move"})
  /\ CallFault = "none"
  /\ zones' = Moved(MoveArgs, zones)
  /\ pc' = NodeAt.next
  /\ Walks /\ UNCHANGED st

\* The first case of the same type and value, else the node's next.
Target(node, v) == IF v \in DOMAIN node.cases THEN node.cases[v] ELSE node.next
TakeBranch ==
  /\ Running /\ NodeAt.kind = "branch" /\ NodeFault = "none"
  /\ pc' = Target(NodeAt, Resolve(NodeAt.value, st))
  /\ Walks /\ UNCHANGED <<zones, st>>

\* advance returns at a wait or at the end: the step is accepted.
Stop(kind, to) ==
  /\ Running /\ NodeAt.kind = kind /\ NodeFault = "none"
  /\ mode' = to
  /\ backup' = NoBackup /\ fuel' = 0
  /\ UNCHANGED <<game, order, zones, st, pc, fault>>
WaitForInput == Stop("wait", "waiting")
EndGame      == Stop("end", "over")

Abort ==
  /\ mode = "running" /\ NodeFault # "none"
  /\ fault' = NodeFault
  /\ zones' = backup.zones /\ st' = backup.st /\ pc' = backup.pc /\ mode' = backup.mode
  /\ backup' = NoBackup /\ fuel' = 0
  /\ UNCHANGED <<game, order>>

Advance == Read \/ Write \/ MoveCall \/ TakeBranch \/ WaitForInput \/ EndGame \/ Abort
Play == \E action \in DOMAIN Plan.actions : mode = "waiting" /\ \E payload \in InputsOf(action) : Step(action, payload)
Next == Setup \/ Play \/ Advance

Spec == Init /\ [][Next]_vars

-----------------------------------------------------------------------------
(* Properties *)

\* What a rejection would leave: the state of the last accepted step.
Accepted == IF mode = "running" THEN backup ELSE Held

OnceEach(table) ==
  \A y, z \in DOMAIN table : /\ IsInjective(table[y])
                             /\ y # z => Range(table[y]) \cap Range(table[z]) = {}
(* No call of a plan duplicates a card: it lies in one zone, once, in the   *)
(* middle of a step as well as between two (zones.py, one owner per card).  *)
OneHome == OnceEach(zones)
=============================================================================
