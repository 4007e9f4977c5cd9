------------------------------ MODULE Expressions ------------------------------
(***************************************************************************)
(* The expression language of a composed rule (core/rules/expr.py): its    *)
(* static checks, its lowering, and the evaluation of what it is lowered   *)
(* to.  A node of the syntax tree is [op |-> ..., args |-> <<...>>]; a     *)
(* leaf has its own fields.  The functions that visit a tree are folds of  *)
(* a rule for one node.                                                    *)
(***************************************************************************)
EXTENDS Values

CONSTANTS
  MaxExprDepth,      \* the levels that a validated tree may have: 12
  EvaluationDepth    \* the levels that evaluate_expression walks: 33
ASSUME MaxExprDepthAssumption ==
  EvaluationDepth \in Nat /\ MaxExprDepth \in 1 .. EvaluationDepth

GuardOnly   == {"top", "has_match", "zone_count"}

Lit(v)              == [op |-> "lit", value |-> v]
Ref(path)           == [op |-> "ref", path |-> path]
Node(o, args)       == [op |-> o, args |-> args]
Top(zone, field)    == [op |-> "top", zone |-> zone, field |-> field]
ZoneCount(zone)     == [op |-> "zone_count", zone |-> zone]
HasMatch(zone, top) == [op |-> "has_match", zone |-> zone, top |-> Top(top, "rank")]

Children(e) == IF "args" \in DOMAIN e THEN e.args ELSE <<>>

-----------------------------------------------------------------------------
(* Types *)

LiteralType(v) == IF v[1] \in {"boolean", "integer", "string", "integer_list"}
                  THEN v[1] ELSE "any"

RefType(path, types) ==
  CASE path[1] = "variables" -> IF path[2] \in DOMAIN types THEN types[path[2]] ELSE "any"
    [] path[1] = "scores" -> IF Len(path) = 1 THEN "integer_list" ELSE "integer"
    [] path[1] \in {"round", "actor", "action_count"} -> "integer"
    [] OTHER -> "any"

\* What an operator may be applied to.  Arithmetic and order refuse an operand
\* whose type only a run can tell: they ask for "integer" among it and "any".
Operands(o) ==
  CASE o \in {"not"} \cup Connectives -> {"boolean", "any"}
    [] o \in Arithmetic \cup (Comparisons \ {"eq"}) -> {"integer"}
    [] o = "count" -> {"integer_list", "string", "any"}
    [] OTHER -> {"boolean", "integer", "string", "integer_list", "any"}
Yields(o) ==
  CASE o \in {"not"} \cup Connectives \cup Comparisons -> "boolean"
    [] o \in Arithmetic \cup {"count"} -> "integer"
    [] OTHER -> "string"

\* The type of a node, "any" when only a run can tell, "error" when an operator is
\* applied to an operand it does not take.
TypeRule(n, of, types) ==
  CASE n.op = "lit" -> LiteralType(n.value)
    [] n.op = "ref" -> RefType(n.path, types)
    [] n.op = "top" -> IF n.field = "value" THEN "integer" ELSE "string"
    [] n.op = "has_match" -> "boolean"
    [] n.op = "zone_count" -> "integer"
    [] OTHER -> IF \A i \in DOMAIN of : of[i] \in Operands(n.op) THEN Yields(n.op) ELSE "error"
Typing == INSTANCE TreeFold WITH Args <- Children, Rule <- TypeRule

\* The nodes below the root by their distance from it, and all of them.
Levels(e) == Typing!Levels(e, EvaluationDepth)
Parts(e)  == Typing!Parts(e, EvaluationDepth)

-----------------------------------------------------------------------------
(* Static checks *)

\* The card that has_match compares with is a level of its own.
TooDeep(e) ==
  \/ Levels(e)[MaxExprDepth] # {}
  \/ \E n \in Levels(e)[MaxExprDepth - 1] : n.op = "has_match"

RefsIn(e) == {n.path : n \in {m \in Parts(e) : m.op = "ref"}}

\* The zones of one guard leaf, and the host operations it is lowered to.
LeafZones(n) ==
  CASE n.op \in {"top", "zone_count"} -> {n.zone}
    [] n.op = "has_match" -> {n.zone, n.top.zone}
    [] OTHER -> {}
LeafMechanisms(n) ==
  CASE n.op = "top" -> {"zones.count_zone", "zones.top"}
    [] n.op = "has_match" -> {"zones.cards", "pattern.choices"}
    [] n.op = "zone_count" -> {"zones.count_zone"}
    [] OTHER -> {}
GuardZones(e)      == UNION {LeafZones(n) : n \in Parts(e)}
GuardMechanisms(e) == UNION {LeafMechanisms(n) : n \in Parts(e)}

ValidExpression(e, variables) ==
  /\ ~ TooDeep(e)
  /\ \A p \in RefsIn(e) : p[1] = "variables" => p[2] \in variables

ValidGuard(e, declared) ==
  /\ ~ TooDeep(e)
  /\ GuardZones(e) \subseteq declared
  /\ \A n \in Parts(e) : n.op = "top" => n.field # "value"

InferType(e, types) == Typing!Fold(Parts(e), types)[e]

\* Mutant of Assignable: any value may be assigned.
AssignableAnyhow(actual, target) == TRUE
Assignable(actual, target) == actual = "any" \/ actual = target

GuardAccepted(e, types, declared) ==
  /\ ValidExpression(e, DOMAIN types)
  /\ ValidGuard(e, declared)
  /\ InferType(e, types) \in {"boolean", "any"}

-----------------------------------------------------------------------------
(* Lowering and evaluation *)

LowerRule(n, lowered, context) ==
  CASE n.op = "lit" -> Const(n.value)
    [] n.op = "ref" -> State(StatePath(n.path))
    [] OTHER -> Payload(n.op, lowered)
Lowering == INSTANCE TreeFold WITH Args <- Children, Rule <- LowerRule
CompileExpression(e) == Lowering!Fold(Parts(e), {})[e]

Consts(p) == {n.value : n \in {m \in Parts(p) : m.op = "const"}}

\* A dict is taken for an expression again, and none in the state is one.
EvaluateRule(n, values, dict) ==
  IF n.op = "const"
  THEN LET v == Resolve(n.value, dict) IN IF v[1] = "dict" THEN Error("invalid_expression") ELSE v
  ELSE ApplyStrict(n.op, values)
Evaluation == INSTANCE TreeFold WITH Args <- Children, Rule <- EvaluateRule

\* References are resolved before anything is evaluated.
Evaluate(p, dict) ==
  IF \E v \in Consts(p) : IsError(Resolve(v, dict)) THEN Error("state_reference_not_found")
  ELSE IF Levels(p)[EvaluationDepth] # {} THEN Error("expression_depth_limit")
  ELSE Evaluation!Fold(Parts(p), dict)[p]

-----------------------------------------------------------------------------
(* The meaning of a tree, read off the rule's own vocabulary: refs gives   *)
(* every path its value, held every declared zone its cards for the        *)
(* acting seat, face the card behind an id.                                *)

Matches(a, b) == a.suit = b.suit \/ a.rank = b.rank

MeaningRule(n, values, table) ==
  LET Card(z) == table.face[table.held[z][Len(table.held[z])]]
      TopMeaning == IF table.held[n.zone] = <<>> THEN <<"empty", 0>>
                    ELSE StrV(<<IF n.field = "rank" THEN Card(n.zone).rank ELSE Card(n.zone).suit>>)
      Match == /\ table.held[n.top.zone] # <<>>
               /\ \E c \in Range(table.held[n.zone]) : Matches(table.face[c], Card(n.top.zone))
  IN CASE n.op = "lit" -> n.value
       [] n.op = "ref" -> IF n.path \in DOMAIN table.refs THEN table.refs[n.path]
                          ELSE Error("state_reference_not_found")
       [] n.op = "top" -> TopMeaning
       [] n.op = "zone_count" -> IntV(Len(table.held[n.zone]))
       [] n.op = "has_match" -> BoolV(Match)
       [] OTHER -> IF n.op = "eq" /\ \E i \in DOMAIN values : values[i][1] = "empty"
                   THEN BoolV(FALSE) ELSE ApplyStrict(n.op, values)
Understanding == INSTANCE TreeFold WITH Args <- Children, Rule <- MeaningRule
Meaning(e, refs, held, face) ==
  Understanding!Fold(Parts(e), [refs |-> refs, held |-> held, face |-> face])[e]
=============================================================================
