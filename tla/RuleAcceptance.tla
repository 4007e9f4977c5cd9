----------------------------- MODULE RuleAcceptance -----------------------------
(***************************************************************************)
(* What the compilation of a rule ends in (core/rules/compiler.py,         *)
(* compile_composed): the checks of the rule, of the lowering, of the plan *)
(* and of its control flow, in their order.                                *)
(***************************************************************************)
EXTENDS RuleCompiler, ControlFlow

MaxPlanNodes == 512
BoundedNodes == {"set_round", "set_turn_index"}

\* The tools bound to the plan: pattern only for the guard of an action.
BoundTools(r) ==
  {"state", "logic", "zones", "score_settle", "winner_resolve", "deck"}
  \cup (IF HasCompare(r) THEN {"rank_compare"} ELSE {})
  \cup (IF NeedsMatching(r) THEN {"pattern"} ELSE {})
ToolOf(operation) ==
  CASE operation = "logic.evaluate" -> "logic"
    [] operation = "state.update" -> "state"
    [] operation = "deck.deal" -> "deck"
    [] operation = "score_settle.call" -> "score_settle"
    [] operation = "winner_resolve.call" -> "winner_resolve"
    [] operation = "rank_compare.call" -> "rank_compare"
    [] operation = "pattern.choices" -> "pattern"
    [] OTHER -> "zones"

PlanOperations(nodes) == {nodes[n].op : n \in {m \in DOMAIN nodes : nodes[m].kind = "call"}}
PlanGraph(nodes) == [n \in DOMAIN nodes |-> Successors(nodes[n])]

\* What the plan's own model checks: its targets, its tools, its branches.
PlanOk(r, nodes) ==
  /\ \A n \in DOMAIN nodes : Range(Successors(nodes[n])) \subseteq DOMAIN nodes
  /\ {ToolOf(o) : o \in PlanOperations(nodes)} \subseteq BoundTools(r)
  /\ \A n \in DOMAIN nodes : nodes[n].kind = "branch" => DOMAIN nodes[n].cases # {}

PlainGuardOnly(e) == \E n \in Parts(e) : n.op \in GuardOnly

\* The lowering itself refuses these rules.
CannotLower(r) ==
  \/ HasCompare(r) /\ r.players # 2
  \/ \E e \in Range(r.resolve) : e.kind = "compare" /\ ~ Shared(r, e.zone)
  \/ \E a \in Range(ActionSequence(r)) : "move_top" \in Kinds(r.actions[a].effects)
  \/ DuplicateNode(r)
\* An assigned value that reads a zone is a ToolError without a place.
UnplacedError(r) ==
  \E a \in Range(ActionSequence(r)) : \E e \in Range(OfKind(r.actions[a].effects, "assign")) : PlainGuardOnly(e.value)

Outcome(r) ==
  IF ~ Executable(r) \/ ~ CompositionOk(r) THEN "compile_error"
  ELSE IF UnplacedError(r) THEN "tool_error"
  ELSE IF CannotLower(r) THEN "compile_error"
  ELSE LET nodes == PlanNodes(r)
       IN IF Cardinality(DOMAIN nodes) > MaxPlanNodes THEN "compile_error"
          ELSE IF ~ PlanOk(r, nodes) THEN "validation_error"
          ELSE IF \/ ReachableFrom(PlanGraph(nodes), {"setup_seed"}) # DOMAIN nodes
                  \/ UnboundedCycles(PlanGraph(nodes), "setup_seed", BoundedNodes) # {}
               THEN "compile_error" ELSE "compiled"
=============================================================================
