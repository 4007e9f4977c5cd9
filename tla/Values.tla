-------------------------------- MODULE Values --------------------------------
(***************************************************************************)
(* The values of a game's state dictionary, what the operators of          *)
(* core/tools.py's evaluate_expression compute, and how the interpreter    *)
(* resolves a "$state" string (core/interpreter.py, resolve).              *)
(*                                                                         *)
(* A value is <<type, payload>>: a Python bool is an int, so a boolean's   *)
(* payload is 0 or 1, and a string's payload is a sequence of tokens, so   *)
(* that "$state.scores" is <<"$state", "scores">>.                         *)
(***************************************************************************)
EXTENDS Integers, Sequences, FiniteSets, FiniteSetsExt, SequencesExt, TLC

Arithmetic  == {"add", "sub", "mul", "mod"}
Comparisons == {"eq", "lt", "le", "gt", "ge"}
Connectives == {"all", "any"}

IntV(n)    == <<"integer", n>>
BoolV(b)   == <<"boolean", IF b THEN 1 ELSE 0>>
StrV(s)    == <<"string", s>>
ListV(s)   == <<"integer_list", s>>
NoneValue  == <<"none", 0>>
Error(why) == <<"error", why>>
IsError(v) == v[1] = "error"
\* An exception that Interpreter.call does not turn into a ToolError.
Escapes(v) == v = Error("ZeroDivisionError")

-----------------------------------------------------------------------------
(* What the operators of the evaluator compute *)

Numeric(v)  == v[1] \in {"integer", "boolean"}
Sequenced(v) == v[1] \in {"string", "integer_list", "list", "cards", "ids", "groups"}
Truthy(v)   == CASE Numeric(v) -> v[2] # 0
                 [] Sequenced(v) -> v[2] # <<>>
                 [] OTHER -> v[1] # "none"
SameValue(v, w) == IF Numeric(v) /\ Numeric(w) THEN v[2] = w[2] ELSE v = w

\* str() of a value, as tokens; the texts of lists are not told apart.
Text(v) == CASE v[1] = "string" -> v[2]
             [] v[1] = "integer" -> <<ToString(v[2])>>
             [] v[1] = "boolean" -> <<IF v[2] = 1 THEN "True" ELSE "False">>
             [] OTHER -> <<v[1]>>

\* Python's %, whose result has the sign of the divisor.
FloorMod(a, b) == IF b > 0 THEN a % b ELSE -((-a) % (-b))

Compare(o, a, b) ==
  CASE o = "lt" -> a < b [] o = "le" -> a <= b [] o = "gt" -> a > b [] o = "ge" -> a >= b
Calculate(o, a, b) ==
  CASE o = "add" -> a + b [] o = "sub" -> a - b [] o = "mul" -> a * b [] o = "mod" -> FloorMod(a, b)

\* Two strings or two lists are ordered only as far as being the same one.
Binary(o, v, w) ==
  LET numbers == Numeric(v) /\ Numeric(w)
      byZero  == o = "mod" /\ w[2] = 0
  IN CASE o = "eq" -> BoolV(SameValue(v, w))
       [] numbers /\ byZero -> Error("ZeroDivisionError")
       [] numbers /\ o \in Comparisons \ {"eq"} -> BoolV(Compare(o, v[2], w[2]))
       [] numbers /\ o \in Arithmetic /\ ~ byZero -> IntV(Calculate(o, v[2], w[2]))
       [] o \in Comparisons \ {"eq"} /\ Sequenced(v) /\ v = w -> BoolV(o \in {"le", "ge"})
       [] o = "add" /\ Sequenced(v) /\ w[1] = v[1] -> <<v[1], v[2] \o w[2]>>
       [] OTHER -> Error("TypeError")

Apply(o, vs) ==
  CASE o \in Arithmetic \cup Comparisons -> Binary(o, vs[1], vs[2])
    [] o = "all" -> BoolV(\A i \in DOMAIN vs : Truthy(vs[i]))
    [] o = "any" -> BoolV(\E i \in DOMAIN vs : Truthy(vs[i]))
    [] o = "not" -> BoolV(~ Truthy(vs[1]))
    [] o = "count" -> IF Sequenced(vs[1]) THEN IntV(Len(vs[1][2])) ELSE Error("TypeError")
    [] o = "join" -> StrV(FlattenSeq([i \in DOMAIN vs |-> Text(vs[i])]))

\* Arguments are evaluated from left to right; the first failure is raised.
ApplyStrict(o, vs) ==
  LET failed == {i \in DOMAIN vs : IsError(vs[i])}
  IN IF failed # {} THEN vs[Min(failed)] ELSE Apply(o, vs)

\* The sequence without some of its members, the others in their order.
Without(s, gone) ==
  LET kept[i \in 0 .. Len(s)] ==
        IF i = 0 THEN <<>>
        ELSE IF s[i] \in gone THEN kept[i - 1] ELSE Append(kept[i - 1], s[i])
  IN kept[Len(s)]

-----------------------------------------------------------------------------
(* State paths, and the interpreter's resolution of "$state" strings *)

\* The state key of a declared variable.
VarKey(x) == "v_" \o x

\* Mutant of StatePath: the acting seat is read under its rule name.
StatePathVerbatim(path) == IF path[1] = "variables" THEN <<VarKey(path[2])>> ELSE path
StatePath(path) ==
  CASE path[1] = "variables" -> <<VarKey(path[2])>>
    [] path = <<"actor">> -> <<"current_player">>
    [] OTHER -> path

Const(v)      == [op |-> "const", value |-> v]
Payload(o, a) == [op |-> o, args |-> a]
State(path)   == Const(StrV(<<"$state">> \o path))
StateKey(k)   == State(<<k>>)

ItemType == [integer_list |-> "integer", cards |-> "card", hands |-> "cards"]

\* A step into a list (a digit) or into a dict (a key).
Member(v, token) ==
  CASE v[1] = "dict" /\ token \in DOMAIN v[2] -> v[2][token]
    [] v[1] \in DOMAIN ItemType /\ (\E i \in DOMAIN v[2] : ToString(i - 1) = token) ->
         <<ItemType[v[1]], v[2][CHOOSE i \in DOMAIN v[2] : ToString(i - 1) = token]>>
    [] OTHER -> Error("state_reference_not_found")

\* What a path leads to, one step after the other.
Within(v, path) ==
  LET at[i \in 0 .. Len(path)] == IF i = 0 THEN v ELSE Member(at[i - 1], path[i])
  IN at[Len(path)]

IsReference(v) == v[1] = "string" /\ v[2] # <<>> /\ v[2][1] = "$state"

Resolve(v, dict) ==
  IF ~ IsReference(v) THEN v
  ELSE IF Len(v[2]) = 1 THEN <<"dict", dict>>
  ELSE IF v[2][2] \notin DOMAIN dict THEN Error("state_reference_not_found")
  ELSE Within(dict[v[2][2]], SubSeq(v[2], 3, Len(v[2])))
=============================================================================
