------------------------------ MODULE ComposedPlan ------------------------------
(***************************************************************************)
(* The interpreter runs the plan the compiler makes of a rule: what holds  *)
(* of every such plan at every node.                                       *)
(***************************************************************************)
EXTENDS RuleCompiler, Interpreter

CONSTANT RulesOf   \* the rule of each game

\* A plan is what the compiler makes of a rule that passes the checks, with no
\* two nodes of one id (compile_composed, _add); the schema gives lists.
IsList(s) == s \in Seq(Range(s))
ASSUME CompiledAssumption ==
  \A g \in Games : LET r == RulesOf[g] IN
    /\ Executable(r) /\ ~ DuplicateNode(r)
    /\ PlanOf[g].nodes = PlanNodes(r) /\ PlanOf[g].step_limit = StepLimit
    /\ IsList(r.turn_actions)
    /\ \A a \in DOMAIN r.actions : LET act == r.actions[a] IN
         /\ IsList(act.effects) /\ IsList(act.trigger)
         /\ \A e \in {act.guard} \cup {s.condition : s \in Range(act.trigger)} :
              \A t \in Parts(e) : IsList(Children(t))
\* No other update of a plan has a key "zones": keys of rules and guards are
\* prefixed, and the state tool's own names are fixed.
ASSUME OneTableAssumption ==
  \A g \in Games : \A n \in DOMAIN PlanOf[g].nodes : SetsTable(PlanOf[g].nodes[n]) => n = "init"

Rule == RulesOf[game]

-----------------------------------------------------------------------------
(* Properties *)

(* The state dictionary has its shape: every declared zone exists and holds *)
(* cards of the deck, pc is a node, a step in progress has a way back.      *)
TypeOK ==
  /\ mode \in {"new", "running", "waiting", "over"}
  /\ pc \in DOMAIN Plan.nodes
  /\ fuel \in 0 .. Plan.step_limit
  /\ zones # <<>> => DOMAIN zones = ZoneIds(Rule) /\ \A z \in DOMAIN zones : Range(zones[z]) \subseteq DOMAIN Plan.faces
  /\ mode = "running" <=> backup # NoBackup

(* A plan calls no operation that required_mechanisms does not derive from  *)
(* the rule, so that what the gate has checked is all that runs.            *)
EveryCallIsRequired ==
  mode = "running" /\ NodeAt.kind = "call" => NodeAt.op \in Operations(Rule)
=============================================================================
