---------------------------- MODULE ExpressionUse ----------------------------
(***************************************************************************)
(* One expression of a rule, from its declaration to a run: the rule's     *)
(* validators (core/rules/composed.py) accept or refuse it as a guard or   *)
(* as the value assigned to a variable, the compiler lowers it, and the    *)
(* interpreter evaluates the payload in some state of a game.              *)
(***************************************************************************)
EXTENDS Expressions

CONSTANTS
  Trees,     \* the syntax trees a designer may declare
  Types,     \* the declared variables and their types
  Zones,     \* the declared zones
  Worlds     \* the states of a game in which the expression is run

VARIABLES
  expr,      \* the declared tree
  use,       \* "guard", or the variable the value is assigned to
  phase,
  payload,   \* what the tree was lowered to
  world,     \* the state it was evaluated in
  result
vars == <<expr, use, phase, payload, world, result>>

Nothing == Const(NoneValue)

HasType(v, t) == t = "any" \/ v[1] = t \/ (t = "integer" /\ v[1] = "boolean")

-----------------------------------------------------------------------------
(* Trees and states *)

IsPath(path) ==
  \/ path \in {<<"scores">>, <<"round">>, <<"actor">>, <<"action_count">>}
  \/ \E kind \in {"variables", "scores", "input"} : \E x \in Range(path) : path = <<kind, x>>
LiteralTags == {"integer", "string", "boolean", "none"}

\* What the schema of one node says.
HasArgs(n, least, most) ==
  n = Node(n.op, n.args) /\ \E k \in least .. most : DOMAIN n.args = 1 .. k
WellFormed(n) ==
  CASE n.op = "lit" -> Children(n) = <<>> /\ n.value[1] \in LiteralTags
    [] n.op = "ref" -> Children(n) = <<>> /\ IsPath(n.path)
    [] n.op \in GuardOnly -> Children(n) = <<>>
    [] n.op \in {"not", "count"} -> HasArgs(n, 1, 1)
    [] n.op \in Arithmetic \cup Comparisons -> HasArgs(n, 2, 2)
    [] n.op \in Connectives -> HasArgs(n, 1, 16)
    [] n.op = "join" -> HasArgs(n, 1, 8)
    [] OTHER -> FALSE
ASSUME TreesAssumption == \A e \in Trees : \A n \in Parts(e) : WellFormed(n)

ValueTypes == {"integer", "boolean", "string", "integer_list"}
ASSUME TypesAssumption ==
  \A x \in DOMAIN Types :
    /\ Types[x] \in ValueTypes
    /\ VarKey(x) \notin {"scores", "round", "action_count", "current_player", "input"}
    /\ \A y \in DOMAIN Types : VarKey(x) = VarKey(y) => x = y

\* A state holds a value of its type in every variable, as long as no value whose
\* type is left to the run was assigned to one, and whatever the player sent with
\* the action; no input is a dict.
ASSUME WorldsAssumption ==
  \A w \in Worlds :
    /\ DOMAIN w.vars = DOMAIN Types
    /\ \A x \in DOMAIN Types : HasType(w.vars[x], Types[x])
    /\ \A x \in DOMAIN w.inputs : w.inputs[x][1] \notin {"error", "empty", "dict"}

\* Where a digit leads to in the list of the scores.
SeatOf(w, digit) == CHOOSE i \in DOMAIN w.scores : ToString(i - 1) = digit

\* Every path that can be read in a state, and what it means.
PathsOf(w) ==
  {<<"scores">>, <<"round">>, <<"actor">>, <<"action_count">>}
  \cup {<<"variables", x>> : x \in DOMAIN w.vars}
  \cup {<<"scores", ToString(i - 1)>> : i \in DOMAIN w.scores}
  \cup {<<"input", x>> : x \in DOMAIN w.inputs}
RefsOf(w) ==
  [p \in PathsOf(w) |->
     CASE p[1] = "variables" -> w.vars[p[2]]
       [] p[1] = "input" -> w.inputs[p[2]]
       [] p[1] = "scores" -> IF Len(p) = 1 THEN ListV(w.scores) ELSE IntV(w.scores[SeatOf(w, p[2])])
       [] p[1] = "round" -> IntV(w.round)
       [] p[1] = "actor" -> IntV(w.actor)
       [] p[1] = "action_count" -> IntV(w.action_count)]

\* The state dictionary of a composed game, as far as a path leads into it.
StateOf(w) ==
  [k \in {VarKey(x) : x \in DOMAIN w.vars}
           \cup {"scores", "round", "action_count", "current_player", "input"} |->
     CASE k = "scores" -> ListV(w.scores)
       [] k = "round" -> IntV(w.round)
       [] k = "action_count" -> IntV(w.action_count)
       [] k = "current_player" -> IntV(w.actor)
       [] k = "input" -> <<"dict", w.inputs>>
       [] OTHER -> w.vars[CHOOSE x \in DOMAIN w.vars : VarKey(x) = k]]

-----------------------------------------------------------------------------
(* The course of an expression *)

Init ==
  /\ expr \in Trees
  /\ use \in {"guard"} \cup DOMAIN Types
  /\ phase = "declared"
  /\ payload = Nothing
  /\ world = <<>>
  /\ result = NoneValue

Accepted ==
  IF use = "guard" THEN GuardAccepted(expr, Types, Zones)
  ELSE /\ ValidExpression(expr, DOMAIN Types)
       /\ InferType(expr, Types) # "error"
       /\ Assignable(InferType(expr, Types), Types[use])

Validate ==
  /\ phase = "declared"
  /\ phase' = IF Accepted THEN "accepted" ELSE "refused"
  /\ UNCHANGED <<expr, use, payload, world, result>>

\* compile_expression raises on a guard-only leaf; the guards that have one are
\* lowered to calls by the rule compiler instead.
Lower ==
  /\ phase = "accepted"
  /\ IF \E n \in Parts(expr) : n.op \in GuardOnly
     THEN phase' = "not_plain" /\ UNCHANGED payload
     ELSE phase' = "lowered" /\ payload' = CompileExpression(expr)
  /\ UNCHANGED <<expr, use, world, result>>

Run(w) ==
  /\ phase = "lowered"
  /\ phase' = "ran"
  /\ world' = w
  /\ result' = Evaluate(payload, StateOf(w))
  /\ UNCHANGED <<expr, use, payload>>

Next == Validate \/ Lower \/ \E w \in Worlds : Run(w)
Spec == Init /\ [][Next]_vars

-----------------------------------------------------------------------------
(* Properties *)

\* The inferred type of a node of the tree.
TypeOf(n) == Typing!Fold(Parts(expr), Types)[n]

\* A string literal spelled like a reference is resolved as one, whatever its
\* type was inferred to be: the two properties below are about the other trees.
Plain == \A n \in Parts(expr) : n.op = "lit" => ~ IsReference(n.value)

\* The failures an accepted expression may still meet when it runs.
MayDivideByZero == \E n \in Parts(expr) : n.op = "mod"
MayBeMissing == \E p \in RefsIn(expr) : p[1] \in {"input", "scores"}
MayNotBeCounted == \E n \in Parts(expr) : n.op = "count" /\ TypeOf(n.args[1]) = "any"
Excused(v) ==
  \/ Escapes(v) /\ MayDivideByZero
  \/ v = Error("state_reference_not_found") /\ MayBeMissing
  \/ v = Error("TypeError") /\ MayNotBeCounted

(* infer_type is sound: what an accepted expression evaluates to has the    *)
(* type the validators inferred, and the type of the variable it is         *)
(* assigned to unless that type was left to the run.  It fails only by      *)
(* dividing by zero, by reading an input or a seat that is not there, or by *)
(* counting what only the run can tell to be a collection.                  *)
TypesAreSound ==
  phase = "ran" /\ Plain =>
    IF IsError(result) THEN Excused(result)
    ELSE /\ HasType(result, TypeOf(expr))
         /\ use # "guard" /\ TypeOf(expr) # "any" => HasType(result, Types[use])

(* The lowering keeps the meaning: evaluating the payload in the state      *)
(* dictionary gives what the tree means over the rule's own vocabulary.     *)
MeaningIsKept ==
  phase = "ran" /\ Plain =>
    LET meant == Meaning(expr, RefsOf(world), <<>>, <<>>)
    IN IF IsError(meant) THEN IsError(result) ELSE result = meant

(* Stated by core/interpreter.py: what a plan's operation raises arrives as *)
(* a contract violation that is rolled back, not as a crash that escapes    *)
(* the playtest gate.                                                       *)
RuntimeFaultsAreRejectable == ~ Escapes(result)

(* Stated above ANY_TYPE in core/rules/expr.py: "any" is never used to      *)
(* reject a valid rule.  A tree that is refused for its types has an        *)
(* operator with an operand whose type is known, and is the wrong one.      *)
AnyRefusesNothing ==
  phase = "refused" /\ ValidExpression(expr, DOMAIN Types) /\ TypeOf(expr) = "error" =>
    \E n \in Parts(expr) :
      \E i \in DOMAIN Children(n) : TypeOf(n.args[i]) \notin Operands(n.op) \cup {"any", "error"}
=============================================================================
