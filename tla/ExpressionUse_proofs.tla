-------------------------- MODULE ExpressionUse_proofs -------------------------
(***************************************************************************)
(* Theorems about the expression language, for every tree that the         *)
(* validators accept, however deep, and every state of a game: the type    *)
(* that was inferred is the type of the value, and the lowered payload     *)
(* means what the tree means.                                              *)
(*                                                                         *)
(* The visitors of a tree are folds, so that each comes with an equation   *)
(* for one node (TreeFold!FoldIs), and a claim about all nodes is proved   *)
(* from the arguments of a node to the node (TreeFold!NoEndlessDescent).   *)
(***************************************************************************)
EXTENDS ExpressionUse, SequenceTheorems, TLAPS

-----------------------------------------------------------------------------
(* Levels *)

\* The first level is the root, and each level holds the children of the one above.
LEMMA RootAndChildren ==
    ASSUME NEW e
    PROVE  /\ Levels(e)[0] = {e}
           /\ \A k \in 0 .. EvaluationDepth - 1 :
                /\ k \in 0 .. EvaluationDepth /\ k + 1 \in 0 .. EvaluationDepth
                /\ Levels(e)[k + 1] = UNION {Range(Children(t)) : t \in Levels(e)[k]}
<1>1. EvaluationDepth \in Nat
  BY MaxExprDepthAssumption
<1> QED BY <1>1, Typing!RootAndArguments DEF Levels, Range, Typing!Range

\* Below an empty level there is nothing.
LEMMA EmptyBelow ==
    ASSUME NEW e, ~ TooDeep(e)
    PROVE  Levels(e)[EvaluationDepth] = {}
<1>1. MaxExprDepth \in 0 .. EvaluationDepth /\ Levels(e)[MaxExprDepth] = {}
  BY MaxExprDepthAssumption DEF TooDeep
<1>2. EvaluationDepth \in Nat
  BY MaxExprDepthAssumption
<1> QED BY <1>1, <1>2, Typing!NothingBelow DEF Levels

\* The whole tree lies within the reach of the evaluator.
Fits(e) == Levels(e)[EvaluationDepth] = {}

LEMMA PartsAreLevelled ==
    ASSUME NEW e, Fits(e)
    PROVE  /\ Typing!Levelled(Parts(e), Levels(e), EvaluationDepth)
           /\ Lowering!Levelled(Parts(e), Levels(e), EvaluationDepth)
           /\ Evaluation!Levelled(Parts(e), Levels(e), EvaluationDepth)
           /\ Understanding!Levelled(Parts(e), Levels(e), EvaluationDepth)
<1>1. Typing!Levelled(Parts(e), Levels(e), EvaluationDepth)
  <2>1. EvaluationDepth \in Nat
    BY MaxExprDepthAssumption
  <2> QED BY <2>1, Typing!PartsAreLevelled DEF Fits, Parts, Levels
<1> QED BY <1>1 DEF Typing!Levelled, Lowering!Levelled, Evaluation!Levelled, Understanding!Levelled

LEMMA PartsAreClosed ==
    ASSUME NEW e, Fits(e)
    PROVE  /\ e \in Parts(e)
           /\ \A t \in Parts(e) : \A i \in DOMAIN Children(t) : Children(t)[i] \in Parts(e)
<1>1. EvaluationDepth \in Nat
  BY MaxExprDepthAssumption
<1> QED BY <1>1, Typing!PartsAreClosed DEF Fits, Parts, Levels

\* What holds of the root, and of the children of every node of which it holds,
\* holds of the whole tree.
LEMMA FromTheRoot ==
    ASSUME NEW e, NEW Good, e \in Good,
           \A t \in Good : \A i \in DOMAIN Children(t) : Children(t)[i] \in Good
    PROVE  Parts(e) \subseteq Good
<1> DEFINE T == {n \in 0 .. EvaluationDepth : ~ (Levels(e)[n] \subseteq Good)}
<1>1. T = {}
  <2> SUFFICES ASSUME T # {} PROVE FALSE
    OBVIOUS
  <2>1. PICK m \in T : \A n \in T : m <= n
    <3>1. T \subseteq Nat
      OBVIOUS
    <3> HIDE DEF T
    <3> QED BY <3>1, Typing!LeastMember
  <2>2. m \in 0 .. EvaluationDepth /\ ~ (Levels(e)[m] \subseteq Good)
    BY <2>1
  <2>3. m # 0
    BY <2>2, RootAndChildren
  <2>4. m - 1 \in 0 .. EvaluationDepth - 1 /\ (m - 1) + 1 = m /\ ~ (m <= m - 1)
    BY <2>2, <2>3, MaxExprDepthAssumption
  <2>5. m - 1 \notin T
    <3> HIDE DEF T
    <3> QED BY <2>1, <2>4
  <2>6. Levels(e)[m - 1] \subseteq Good
    BY <2>4, <2>5, RootAndChildren
  <2>7. Levels(e)[m] = UNION {Range(Children(t)) : t \in Levels(e)[m - 1]}
    BY <2>4, RootAndChildren
  <2>8. Levels(e)[m] \subseteq Good
    BY <2>6, <2>7 DEF Range
  <2> QED BY <2>2, <2>8
<1> QED BY <1>1 DEF Parts, Typing!Parts, Levels

-----------------------------------------------------------------------------
(* What the visitors compute, one node at a time *)

TypesOf(e)     == Typing!Fold(Parts(e), Types)
Lowered(e)     == Lowering!Fold(Parts(e), {})
ValuesOf(p, s) == Evaluation!Fold(Parts(p), s)
TableOf(w)     == [refs |-> RefsOf(w), held |-> <<>>, face |-> <<>>]
Meanings(e, w) == Understanding!Fold(Parts(e), TableOf(w))

\* What f gives for the children of t.
Of(f, t) == [i \in DOMAIN Children(t) |-> f[Children(t)[i]]]

LEMMA TypesOfIs ==
    ASSUME NEW e, Fits(e)
    PROVE  \A t \in Parts(e) : TypesOf(e)[t] = TypeRule(t, Of(TypesOf(e), t), Types)
<1>1. TypesOf(e) = [t \in Parts(e) |-> TypeRule(t, [i \in DOMAIN Children(t) |-> TypesOf(e)[Children(t)[i]]], Types)]
  BY PartsAreLevelled, MaxExprDepthAssumption, Typing!FoldIs DEF TypesOf
<1> QED BY <1>1 DEF Of

LEMMA LoweredIs ==
    ASSUME NEW e, Fits(e)
    PROVE  \A t \in Parts(e) : Lowered(e)[t] = LowerRule(t, Of(Lowered(e), t), {})
<1>1. Lowered(e) = [t \in Parts(e) |-> LowerRule(t, [i \in DOMAIN Children(t) |-> Lowered(e)[Children(t)[i]]], {})]
  BY PartsAreLevelled, MaxExprDepthAssumption, Lowering!FoldIs DEF Lowered
<1> QED BY <1>1 DEF Of

LEMMA ValuesOfIs ==
    ASSUME NEW p, NEW s, Fits(p)
    PROVE  \A t \in Parts(p) : ValuesOf(p, s)[t] = EvaluateRule(t, Of(ValuesOf(p, s), t), s)
<1>1. ValuesOf(p, s) = [t \in Parts(p) |-> EvaluateRule(t, [i \in DOMAIN Children(t) |-> ValuesOf(p, s)[Children(t)[i]]], s)]
  BY PartsAreLevelled, MaxExprDepthAssumption, Evaluation!FoldIs DEF ValuesOf
<1> QED BY <1>1 DEF Of

LEMMA MeaningsIs ==
    ASSUME NEW e, NEW w, Fits(e)
    PROVE  \A t \in Parts(e) : Meanings(e, w)[t] = MeaningRule(t, Of(Meanings(e, w), t), TableOf(w))
<1>1. Meanings(e, w) = [t \in Parts(e) |-> MeaningRule(t, [i \in DOMAIN Children(t) |-> Meanings(e, w)[Children(t)[i]]], TableOf(w))]
  BY PartsAreLevelled, MaxExprDepthAssumption, Understanding!FoldIs DEF Meanings
<1> QED BY <1>1 DEF Of

-----------------------------------------------------------------------------
(* The payload *)

Operators == {"not", "count", "join"} \cup Arithmetic \cup Comparisons \cup Connectives

\* A tree that compile_expression can lower.
Lowerable(e) ==
  /\ Fits(e)
  /\ \A n \in Parts(e) : WellFormed(n) /\ n.op \notin GuardOnly

\* A node is a literal, a reference or an operator with arguments.
LEMMA NodeKinds ==
    ASSUME NEW e, Lowerable(e), NEW t \in Parts(e)
    PROVE  \/ t.op = "lit" /\ Children(t) = <<>> /\ t.value[1] \in LiteralTags
           \/ t.op = "ref" /\ Children(t) = <<>> /\ IsPath(t.path)
           \/ t.op \in Operators /\ Children(t) = t.args
<1>1. WellFormed(t) /\ t.op \notin GuardOnly
  BY DEF Lowerable
<1>2. \A o, a : Children(Node(o, a)) = Node(o, a).args
  BY DEF Children, Node
<1>3. CASE t.op \in {"lit", "ref"}
  BY <1>1, <1>3 DEF WellFormed, GuardOnly, Arithmetic, Comparisons, Connectives
<1>4. CASE t.op \notin {"lit", "ref"}
  <2>1. t.op \in Operators /\ t = Node(t.op, t.args)
    BY <1>1, <1>4 DEF WellFormed, HasArgs, GuardOnly, Operators, Arithmetic, Comparisons, Connectives
  <2>2. Children(t) = t.args
    BY <1>2, <2>1
  <2> QED BY <2>1, <2>2
<1> QED BY <1>3, <1>4

\* The payload has the shape of the tree.
LEMMA PayloadOfNode ==
    ASSUME NEW e, Lowerable(e), NEW t \in Parts(e)
    PROVE  /\ t.op = "lit" => Lowered(e)[t] = Const(t.value)
           /\ t.op = "ref" => Lowered(e)[t] = State(StatePath(t.path))
           /\ t.op \in Operators => Lowered(e)[t] = Payload(t.op, Of(Lowered(e), t))
           /\ Children(Lowered(e)[t]) = Of(Lowered(e), t)
<1>1. Lowered(e)[t] = LowerRule(t, Of(Lowered(e), t), {})
  BY LoweredIs DEF Lowerable
<1>2. CASE t.op = "lit"
  <2>1. Lowered(e)[t] = Const(t.value) /\ Children(t) = <<>>
    BY <1>1, <1>2, NodeKinds DEF LowerRule, Operators, Arithmetic, Comparisons, Connectives
  <2>2. Children(Const(t.value)) = <<>>
    BY DEF Children, Const
  <2>3. Of(Lowered(e), t) = <<>>
    BY <2>1 DEF Of
  <2> QED BY <1>2, <2>1, <2>2, <2>3 DEF Operators, Arithmetic, Comparisons, Connectives
<1>3. CASE t.op = "ref"
  <2>1. Lowered(e)[t] = State(StatePath(t.path)) /\ Children(t) = <<>>
    BY <1>1, <1>3, NodeKinds DEF LowerRule, Operators, Arithmetic, Comparisons, Connectives
  <2>2. Children(State(StatePath(t.path))) = <<>>
    BY DEF Children, State, Const
  <2>3. Of(Lowered(e), t) = <<>>
    BY <2>1 DEF Of
  <2> QED BY <1>3, <2>1, <2>2, <2>3 DEF Operators, Arithmetic, Comparisons, Connectives
<1>4. CASE t.op \in Operators
  <2>1. t.op # "lit" /\ t.op # "ref"
    BY <1>4 DEF Operators, Arithmetic, Comparisons, Connectives
  <2>2. Lowered(e)[t] = Payload(t.op, Of(Lowered(e), t))
    BY <1>1, <2>1 DEF LowerRule
  <2>3. \A o, a : Children(Payload(o, a)) = a
    BY DEF Children, Payload
  <2> QED BY <2>1, <2>2, <2>3
<1> QED BY <1>2, <1>3, <1>4, NodeKinds

LEMMA PayloadLevels ==
    ASSUME NEW e, Lowerable(e)
    PROVE  \A k \in 0 .. EvaluationDepth :
             Levels(CompileExpression(e))[k] = {Lowered(e)[t] : t \in Levels(e)[k]}
<1> DEFINE p == CompileExpression(e)
           T == {n \in 0 .. EvaluationDepth : Levels(p)[n] # {Lowered(e)[t] : t \in Levels(e)[n]}}
<1>0. p = Lowered(e)[e]
  BY DEF CompileExpression, Lowered
<1>1. T = {}
  <2> SUFFICES ASSUME T # {} PROVE FALSE
    OBVIOUS
  <2>1. PICK m \in T : \A n \in T : m <= n
    <3>1. T \subseteq Nat
      OBVIOUS
    <3> HIDE DEF T
    <3> QED BY <3>1, Typing!LeastMember
  <2>2. m \in 0 .. EvaluationDepth /\ Levels(p)[m] # {Lowered(e)[t] : t \in Levels(e)[m]}
    BY <2>1
  <2> HIDE DEF p
  <2>3. m # 0
    BY <1>0, <2>2, RootAndChildren
  <2>4. PICK k \in 0 .. EvaluationDepth - 1 : k = m - 1 /\ k + 1 = m /\ ~ (m <= k)
    BY <2>2, <2>3, MaxExprDepthAssumption
  <2>5. k \notin T
    <3> HIDE DEF T
    <3> QED BY <2>1, <2>4
  <2>6. Levels(p)[k] = {Lowered(e)[t] : t \in Levels(e)[k]}
    BY <2>4, <2>5, RootAndChildren
  <2>7. Levels(p)[m] = UNION {Range(Children(q)) : q \in Levels(p)[k]}
    BY <2>4, RootAndChildren
  <2>8. Levels(e)[m] = UNION {Range(Children(t)) : t \in Levels(e)[k]}
    BY <2>4, RootAndChildren
  <2>9. \A t \in Levels(e)[k] : Children(Lowered(e)[t]) = Of(Lowered(e), t)
    <3>1. \A t \in Levels(e)[k] : t \in Parts(e)
      BY RootAndChildren DEF Parts, Typing!Parts, Levels
    <3> QED BY <3>1, PayloadOfNode
  <2>10. \A q : q \in Levels(p)[m] <=> \E t \in Levels(e)[k] : q \in Range(Of(Lowered(e), t))
    BY <2>6, <2>7, <2>9
  <2>11. \A t, q : q \in Range(Of(Lowered(e), t)) <=> \E c \in Range(Children(t)) : q = Lowered(e)[c]
    BY DEF Range, Of
  <2>12. \A q : q \in Levels(p)[m] <=> \E c \in Levels(e)[m] : q = Lowered(e)[c]
    BY <2>8, <2>10, <2>11
  <2> QED BY <2>2, <2>12
<1> QED BY <1>1

LEMMA PayloadParts ==
    ASSUME NEW e, Lowerable(e)
    PROVE  /\ Fits(CompileExpression(e))
           /\ Parts(CompileExpression(e)) = {Lowered(e)[t] : t \in Parts(e)}
<1>1. Fits(CompileExpression(e))
  BY PayloadLevels, MaxExprDepthAssumption DEF Fits, Lowerable
<1>2. \A q : q \in Parts(CompileExpression(e)) <=> \E t \in Parts(e) : q = Lowered(e)[t]
  BY PayloadLevels DEF Parts, Typing!Parts, Levels
<1> QED BY <1>1, <1>2

-----------------------------------------------------------------------------
(* What an operator makes of its operands *)

\* The number of operands that the schema lets an operator have.
FewEnough(o, n) ==
  /\ n >= 1
  /\ o \in {"not", "count"} => n = 1
  /\ o \in Arithmetic \cup Comparisons => n = 2

LEMMA OperandsOfNode ==
    ASSUME NEW e, Lowerable(e), NEW t \in Parts(e), t.op \in Operators
    PROVE  \E n \in Nat : DOMAIN Children(t) = 1 .. n /\ FewEnough(t.op, n)
<1>1. WellFormed(t) /\ Children(t) = t.args
  BY NodeKinds DEF Lowerable, Operators, Arithmetic, Comparisons, Connectives
<1>2. CASE t.op \in {"not", "count"}
  <2>1. DOMAIN t.args = 1 .. 1
    BY <1>1, <1>2 DEF WellFormed, HasArgs, GuardOnly, Arithmetic, Comparisons, Connectives
  <2> QED BY <1>1, <1>2, <2>1 DEF FewEnough, Arithmetic, Comparisons
<1>3. CASE t.op \in Arithmetic \cup Comparisons
  <2>1. DOMAIN t.args = 1 .. 2
    BY <1>1, <1>3 DEF WellFormed, HasArgs, GuardOnly, Arithmetic, Comparisons, Connectives
  <2> QED BY <1>1, <1>3, <2>1 DEF FewEnough, Arithmetic, Comparisons
<1>4. CASE t.op \in Connectives \cup {"join"}
  <2>1. PICK k \in 1 .. 16 : DOMAIN t.args = 1 .. k
    BY <1>1, <1>4 DEF WellFormed, HasArgs, GuardOnly, Arithmetic, Comparisons, Connectives
  <2> QED BY <1>1, <1>4, <2>1 DEF FewEnough, Arithmetic, Comparisons, Connectives
<1> QED BY <1>2, <1>3, <1>4 DEF Operators

\* The first operand that fails is what comes out.
LEMMA StrictOnFailure ==
    ASSUME NEW o, NEW vs, NEW n \in Nat, DOMAIN vs = 1 .. n, NEW i \in 1 .. n, IsError(vs[i])
    PROVE  \E j \in 1 .. n : IsError(vs[j]) /\ ApplyStrict(o, vs) = vs[j]
<1> DEFINE failed == {k \in DOMAIN vs : IsError(vs[k])}
<1>1. failed # {} /\ failed \subseteq Nat
  OBVIOUS
<1>2. Min(failed) \in failed
  <2> HIDE DEF failed
  <2>1. \E m \in failed : \A k \in failed : m <= k
    BY <1>1, Typing!LeastMember
  <2> QED BY <2>1 DEF Min
<1>3. ApplyStrict(o, vs) = vs[Min(failed)]
  BY <1>1 DEF ApplyStrict
<1> QED BY <1>2, <1>3

LEMMA StrictOtherwise ==
    ASSUME NEW o, NEW vs, \A i \in DOMAIN vs : ~ IsError(vs[i])
    PROVE  ApplyStrict(o, vs) = Apply(o, vs)
BY DEF ApplyStrict

\* The type of what an operator returns, given the types it asks for.
LEMMA ResultOfOperator ==
    ASSUME NEW o \in Operators, NEW vs
    PROVE  /\ Apply(o, vs)[1] # "empty"
           /\ o \in {"not", "eq"} \cup Connectives => Apply(o, vs)[1] = "boolean"
           /\ o = "join" => Apply(o, vs)[1] = "string"
           /\ o = "count" => IF Sequenced(vs[1]) THEN Apply(o, vs)[1] = "integer"
                             ELSE Apply(o, vs) = Error("TypeError")
           /\ o \in Comparisons \ {"eq"} /\ Numeric(vs[1]) /\ Numeric(vs[2]) => Apply(o, vs)[1] = "boolean"
           /\ o \in Arithmetic /\ Numeric(vs[1]) /\ Numeric(vs[2]) =>
                \/ Apply(o, vs)[1] = "integer"
                \/ o = "mod" /\ Apply(o, vs) = Error("ZeroDivisionError")
<1>1. CASE o \in Arithmetic \cup Comparisons
  <2>1. Apply(o, vs) = Binary(o, vs[1], vs[2])
    BY <1>1 DEF Apply, Arithmetic, Comparisons, Connectives
  <2>2. o = "eq" => Binary(o, vs[1], vs[2])[1] = "boolean"
    BY DEF Binary, BoolV, Arithmetic, Comparisons
  <2>3. o \in Comparisons \ {"eq"} /\ Numeric(vs[1]) /\ Numeric(vs[2]) => Binary(o, vs[1], vs[2])[1] = "boolean"
    BY DEF Binary, BoolV, Arithmetic, Comparisons, Numeric, Sequenced
  <2>4. o \in Arithmetic /\ Numeric(vs[1]) /\ Numeric(vs[2]) =>
          \/ Binary(o, vs[1], vs[2])[1] = "integer"
          \/ o = "mod" /\ Binary(o, vs[1], vs[2]) = Error("ZeroDivisionError")
    BY DEF Binary, IntV, Arithmetic, Comparisons, Numeric, Sequenced
  <2>5. Binary(o, vs[1], vs[2])[1] # "empty"
    BY <1>1 DEF Binary, IntV, BoolV, Error, Arithmetic, Comparisons, Numeric, Sequenced
  <2> QED BY <1>1, <2>1, <2>2, <2>3, <2>4, <2>5 DEF Arithmetic, Comparisons, Connectives
<1>2. CASE o \in Connectives \cup {"not"}
  BY <1>2 DEF Apply, BoolV, Arithmetic, Comparisons, Connectives
<1>3. CASE o = "count"
  BY <1>3 DEF Apply, IntV, Error, Arithmetic, Comparisons, Connectives
<1>4. CASE o = "join"
  BY <1>4 DEF Apply, StrV, Arithmetic, Comparisons, Connectives
<1> QED BY <1>1, <1>2, <1>3, <1>4 DEF Operators

-----------------------------------------------------------------------------
(* References *)

\* A step along a path, and no step at all.
LEMMA WithinNothing ==
    ASSUME NEW v
    PROVE  Within(v, <<>>) = v
<1>1. PICK f : f = [i \in 0 .. 0 |-> v]
  OBVIOUS
<1>2. f = [i \in 0 .. Len(<<>>) |-> IF i = 0 THEN v ELSE Member(f[i - 1], (<<>>)[i])]
  BY <1>1
<1>3. \A g : g = [i \in 0 .. Len(<<>>) |-> IF i = 0 THEN v ELSE Member(g[i - 1], (<<>>)[i])] => g[Len(<<>>)] = v
  OBVIOUS
<1> QED BY <1>2, <1>3 DEF Within

LEMMA WithinOne ==
    ASSUME NEW v, NEW token
    PROVE  Within(v, <<token>>) = Member(v, token)
<1>1. PICK f : f = [i \in 0 .. 1 |-> IF i = 0 THEN v ELSE Member(v, token)]
  OBVIOUS
<1>2. Len(<<token>>) = 1 /\ (<<token>>)[1] = token
  OBVIOUS
<1>3. f = [i \in 0 .. Len(<<token>>) |-> IF i = 0 THEN v ELSE Member(f[i - 1], (<<token>>)[i])]
  BY <1>1, <1>2
<1>4. ASSUME NEW g, g = [i \in 0 .. Len(<<token>>) |-> IF i = 0 THEN v ELSE Member(g[i - 1], (<<token>>)[i])]
      PROVE  g[Len(<<token>>)] = Member(v, token)
  BY <1>2, <1>4
<1> QED BY <1>3, <1>4 DEF Within

LEMMA PathIsAppended ==
    ASSUME NEW key
    PROVE  /\ <<"$state">> \o <<key>> = <<"$state", key>>
           /\ \A token : <<"$state">> \o <<key, token>> = <<"$state", key, token>>
<1>1. <<"$state">> \o <<key>> = <<"$state", key>>
  <2> DEFINE S == {"$state", key}
  <2>1. <<"$state">> \in Seq(S) /\ <<key>> \in Seq(S) /\ <<"$state", key>> \in Seq(S)
    OBVIOUS
  <2>2. <<"$state">> \o <<key>> \in Seq(S) /\ Len(<<"$state">> \o <<key>>) = 2
        /\ (<<"$state">> \o <<key>>)[1] = "$state" /\ (<<"$state">> \o <<key>>)[2] = key
    <3> HIDE DEF S
    <3> QED BY <2>1, ConcatProperties
  <2>3. \A i \in 1 .. 2 : (<<"$state">> \o <<key>>)[i] = (<<"$state", key>>)[i]
    BY <2>2
  <2> HIDE DEF S
  <2> QED BY <2>1, <2>2, <2>3, SeqEqual
<1>2. ASSUME NEW token
      PROVE  <<"$state">> \o <<key, token>> = <<"$state", key, token>>
  <2> DEFINE S == {"$state", key, token}
  <2>1. <<"$state">> \in Seq(S) /\ <<key, token>> \in Seq(S) /\ <<"$state", key, token>> \in Seq(S)
    OBVIOUS
  <2>2. <<"$state">> \o <<key, token>> \in Seq(S) /\ Len(<<"$state">> \o <<key, token>>) = 3
        /\ (<<"$state">> \o <<key, token>>)[1] = "$state" /\ (<<"$state">> \o <<key, token>>)[2] = key
        /\ (<<"$state">> \o <<key, token>>)[3] = token
    <3> HIDE DEF S
    <3> QED BY <2>1, ConcatProperties
  <2>3. \A i \in 1 .. 3 : (<<"$state">> \o <<key, token>>)[i] = (<<"$state", key, token>>)[i]
    BY <2>2
  <2> HIDE DEF S
  <2> QED BY <2>1, <2>2, <2>3, SeqEqual
<1> QED BY <1>1, <1>2

\* The value of the string "$state.key" and "$state.key.token".
LEMMA ResolveKey ==
    ASSUME NEW s, NEW key
    PROVE  /\ Resolve(StrV(<<"$state">> \o <<key>>), s)
                = IF key \in DOMAIN s THEN s[key] ELSE Error("state_reference_not_found")
           /\ \A token : Resolve(StrV(<<"$state">> \o <<key, token>>), s)
                = IF key \in DOMAIN s THEN Member(s[key], token) ELSE Error("state_reference_not_found")
<1>1. <<"$state">> \o <<key>> = <<"$state", key>> /\ \A token : <<"$state">> \o <<key, token>> = <<"$state", key, token>>
  BY PathIsAppended
<1>2. Resolve(StrV(<<"$state", key>>), s)
        = IF key \in DOMAIN s THEN s[key] ELSE Error("state_reference_not_found")
  <2>1. SubSeq(<<"$state", key>>, 3, 2) = <<>>
    BY SubSeqEmpty
  <2>2. Len(<<"$state", key>>) = 2 /\ (<<"$state", key>>)[1] = "$state"
        /\ (<<"$state", key>>)[2] = key /\ <<"$state", key>> # <<>>
    OBVIOUS
  <2>3. StrV(<<"$state", key>>)[2] = <<"$state", key>> /\ IsReference(StrV(<<"$state", key>>))
    BY <2>2 DEF StrV, IsReference
  <2>4. PICK v : v = StrV(<<"$state", key>>)
    OBVIOUS
  <2>5. IsReference(v) /\ v[2] = <<"$state", key>>
    BY <2>3, <2>4
  <2>6. Len(v[2]) = 2 /\ v[2][2] = key /\ SubSeq(v[2], 3, Len(v[2])) = <<>>
    BY <2>1, <2>2, <2>5
  <2>7. Len(v[2]) # 1
    BY <2>6
  <2>8. Resolve(v, s) = IF key \in DOMAIN s THEN Within(s[key], <<>>) ELSE Error("state_reference_not_found")
    BY <2>5, <2>6, <2>7 DEF Resolve
  <2> QED BY <2>4, <2>8, WithinNothing
<1>3. ASSUME NEW token
      PROVE  Resolve(StrV(<<"$state", key, token>>), s)
               = IF key \in DOMAIN s THEN Member(s[key], token) ELSE Error("state_reference_not_found")
  <2>1. SubSeq(<<"$state", key, token>>, 3, 3) = <<token>>
    <3> DEFINE S == {"$state", key, token}
    <3>1. SubSeq(<<"$state", key, token>>, 3, 3) \in Seq(S) /\ Len(SubSeq(<<"$state", key, token>>, 3, 3)) = 1
          /\ \A i \in 1 .. 1 : SubSeq(<<"$state", key, token>>, 3, 3)[i] = <<token>>[i]
      <4>1. \A i \in 3 .. 3 : (<<"$state", key, token>>)[i] \in S
        OBVIOUS
      <4> HIDE DEF S
      <4> QED BY <4>1, SubSeqProperties
    <3>2. <<token>> \in Seq(S) /\ Len(<<token>>) = 1
      OBVIOUS
    <3> HIDE DEF S
    <3> QED BY <3>1, <3>2, SeqEqual
  <2>2. Len(<<"$state", key, token>>) = 3 /\ (<<"$state", key, token>>)[1] = "$state"
        /\ (<<"$state", key, token>>)[2] = key /\ <<"$state", key, token>> # <<>>
    OBVIOUS
  <2>3. StrV(<<"$state", key, token>>)[2] = <<"$state", key, token>> /\ IsReference(StrV(<<"$state", key, token>>))
    BY <2>2 DEF StrV, IsReference
  <2>4. PICK v : v = StrV(<<"$state", key, token>>)
    OBVIOUS
  <2>5. IsReference(v) /\ v[2] = <<"$state", key, token>>
    BY <2>3, <2>4
  <2>6. Len(v[2]) = 3 /\ v[2][2] = key /\ SubSeq(v[2], 3, Len(v[2])) = <<token>>
    BY <2>1, <2>2, <2>5
  <2>7. Len(v[2]) # 1
    BY <2>6
  <2>8. Resolve(v, s) = IF key \in DOMAIN s THEN Within(s[key], <<token>>) ELSE Error("state_reference_not_found")
    BY <2>5, <2>6, <2>7 DEF Resolve
  <2> QED BY <2>4, <2>8, WithinOne
<1> QED BY <1>1, <1>2, <1>3

\* What the state dictionary holds.
LEMMA StateHolds ==
    ASSUME NEW w \in Worlds
    PROVE  /\ {"scores", "round", "action_count", "current_player", "input"} \subseteq DOMAIN StateOf(w)
           /\ StateOf(w)["scores"] = ListV(w.scores)
           /\ StateOf(w)["round"] = IntV(w.round)
           /\ StateOf(w)["action_count"] = IntV(w.action_count)
           /\ StateOf(w)["current_player"] = IntV(w.actor)
           /\ StateOf(w)["input"] = <<"dict", w.inputs>>
           /\ \A x \in DOMAIN w.vars : VarKey(x) \in DOMAIN StateOf(w) /\ StateOf(w)[VarKey(x)] = w.vars[x]
<1>1. DOMAIN w.vars = DOMAIN Types
  BY WorldsAssumption
<1>2. ASSUME NEW x \in DOMAIN w.vars
      PROVE  VarKey(x) \in DOMAIN StateOf(w) /\ StateOf(w)[VarKey(x)] = w.vars[x]
  <2>1. VarKey(x) \notin {"scores", "round", "action_count", "current_player", "input"}
    BY <1>1, TypesAssumption
  <2>2. (CHOOSE y \in DOMAIN w.vars : VarKey(y) = VarKey(x)) = x
    BY <1>1, TypesAssumption
  <2>3. StateOf(w)[VarKey(x)] = w.vars[CHOOSE y \in DOMAIN w.vars : VarKey(y) = VarKey(x)]
    BY <2>1 DEF StateOf
  <2>4. VarKey(x) \in DOMAIN StateOf(w)
    BY DEF StateOf
  <2> QED BY <2>2, <2>3, <2>4
<1> QED BY <1>2 DEF StateOf

\* A digit leads to a seat or nowhere.
LEMMA DigitIsRead ==
    ASSUME NEW w, NEW digit
    PROVE  Member(ListV(w.scores), digit)
             = IF \E i \in DOMAIN w.scores : ToString(i - 1) = digit
               THEN IntV(w.scores[SeatOf(w, digit)]) ELSE Error("state_reference_not_found")
BY DEF Member, ListV, IntV, SeatOf, ItemType

LEMMA InputIsRead ==
    ASSUME NEW inputs, NEW x
    PROVE  Member(<<"dict", inputs>>, x)
             = IF x \in DOMAIN inputs THEN inputs[x] ELSE Error("state_reference_not_found")
BY DEF Member, ItemType

\* The string that a reference is lowered to leads to what the path means.
LEMMA ReferenceIsRead ==
    ASSUME NEW w \in Worlds, NEW path, IsPath(path), path[1] = "variables" => path[2] \in DOMAIN Types
    PROVE  Resolve(StrV(<<"$state">> \o StatePath(path)), StateOf(w))
             = IF path \in PathsOf(w) THEN RefsOf(w)[path] ELSE Error("state_reference_not_found")
<1>1. CASE path = <<"scores">>
  <2>1. StatePath(path) = <<"scores">> /\ path \in PathsOf(w) /\ RefsOf(w)[path] = ListV(w.scores)
    BY <1>1 DEF StatePath, PathsOf, RefsOf
  <2> QED BY <2>1, ResolveKey, StateHolds
<1>2. CASE path = <<"round">>
  <2>1. StatePath(path) = <<"round">> /\ path \in PathsOf(w) /\ RefsOf(w)[path] = IntV(w.round)
    BY <1>2 DEF StatePath, PathsOf, RefsOf
  <2> QED BY <2>1, ResolveKey, StateHolds
<1>3. CASE path = <<"actor">>
  <2>1. StatePath(path) = <<"current_player">> /\ path \in PathsOf(w) /\ RefsOf(w)[path] = IntV(w.actor)
    BY <1>3 DEF StatePath, PathsOf, RefsOf
  <2> QED BY <2>1, ResolveKey, StateHolds
<1>4. CASE path = <<"action_count">>
  <2>1. StatePath(path) = <<"action_count">> /\ path \in PathsOf(w) /\ RefsOf(w)[path] = IntV(w.action_count)
    BY <1>4 DEF StatePath, PathsOf, RefsOf
  <2> QED BY <2>1, ResolveKey, StateHolds
<1>5. CASE \E x \in Range(path) : path = <<"variables", x>>
  <2>1. PICK x : path = <<"variables", x>>
    BY <1>5
  <2>2. x \in DOMAIN w.vars
    BY <2>1, WorldsAssumption
  <2>3. StatePath(path) = <<VarKey(x)>> /\ path \in PathsOf(w) /\ RefsOf(w)[path] = w.vars[x]
    BY <2>1, <2>2 DEF StatePath, PathsOf, RefsOf
  <2> QED BY <2>2, <2>3, ResolveKey, StateHolds
<1>6. CASE \E x \in Range(path) : path = <<"scores", x>>
  <2>1. PICK x : path = <<"scores", x>>
    BY <1>6
  <2>2. StatePath(path) = <<"scores", x>> /\ Len(path) = 2
    BY <2>1 DEF StatePath
  <2>3. path \in PathsOf(w) <=> \E i \in DOMAIN w.scores : ToString(i - 1) = x
    BY <2>1 DEF PathsOf
  <2>4. path \in PathsOf(w) => RefsOf(w)[path] = IntV(w.scores[SeatOf(w, x)])
    BY <2>1, <2>2 DEF RefsOf
  <2>5. Resolve(StrV(<<"$state">> \o StatePath(path)), StateOf(w)) = Member(ListV(w.scores), x)
    <3>1. Resolve(StrV(<<"$state">> \o <<"scores", x>>), StateOf(w))
            = IF "scores" \in DOMAIN StateOf(w) THEN Member(StateOf(w)["scores"], x)
              ELSE Error("state_reference_not_found")
      BY ResolveKey
    <3> QED BY <2>2, <3>1, StateHolds
  <2> QED BY <2>3, <2>4, <2>5, DigitIsRead
<1>7. CASE \E x \in Range(path) : path = <<"input", x>>
  <2>1. PICK x : path = <<"input", x>>
    BY <1>7
  <2>2. StatePath(path) = <<"input", x>>
    BY <2>1 DEF StatePath
  <2>3. path \in PathsOf(w) <=> x \in DOMAIN w.inputs
    BY <2>1 DEF PathsOf
  <2>4. path \in PathsOf(w) => RefsOf(w)[path] = w.inputs[x]
    BY <2>1 DEF RefsOf
  <2>5. Resolve(StrV(<<"$state">> \o StatePath(path)), StateOf(w)) = Member(<<"dict", w.inputs>>, x)
    <3>1. Resolve(StrV(<<"$state">> \o <<"input", x>>), StateOf(w))
            = IF "input" \in DOMAIN StateOf(w) THEN Member(StateOf(w)["input"], x)
              ELSE Error("state_reference_not_found")
      BY ResolveKey
    <3> QED BY <2>2, <3>1, StateHolds
  <2> QED BY <2>3, <2>4, <2>5, InputIsRead
<1> QED BY <1>1, <1>2, <1>3, <1>4, <1>5, <1>6, <1>7 DEF IsPath

\* What a path leads to has the type that the path was inferred to have.
LEMMA ReferenceHasType ==
    ASSUME NEW w \in Worlds, NEW path \in PathsOf(w)
    PROVE  /\ HasType(RefsOf(w)[path], RefType(path, Types))
           /\ RefsOf(w)[path][1] \notin {"error", "empty", "dict"}
<1>1. CASE path = <<"scores">>
  <2>1. RefsOf(w)[path] = ListV(w.scores) /\ RefType(path, Types) = "integer_list"
    BY <1>1 DEF RefsOf, RefType
  <2> QED BY <2>1 DEF HasType, ListV
<1>2. CASE path = <<"round">>
  <2>1. RefsOf(w)[path] = IntV(w.round) /\ RefType(path, Types) = "integer"
    BY <1>2 DEF RefsOf, RefType
  <2> QED BY <2>1 DEF HasType, IntV
<1>3. CASE path = <<"actor">>
  <2>1. RefsOf(w)[path] = IntV(w.actor) /\ RefType(path, Types) = "integer"
    BY <1>3 DEF RefsOf, RefType
  <2> QED BY <2>1 DEF HasType, IntV
<1>4. CASE path = <<"action_count">>
  <2>1. RefsOf(w)[path] = IntV(w.action_count) /\ RefType(path, Types) = "integer"
    BY <1>4 DEF RefsOf, RefType
  <2> QED BY <2>1 DEF HasType, IntV
<1>5. CASE \E x \in DOMAIN w.vars : path = <<"variables", x>>
  <2>1. PICK x \in DOMAIN w.vars : path = <<"variables", x>>
    BY <1>5
  <2>2. x \in DOMAIN Types /\ HasType(w.vars[x], Types[x]) /\ Types[x] \in ValueTypes
    BY WorldsAssumption, TypesAssumption
  <2>3. RefsOf(w)[path] = w.vars[x] /\ RefType(path, Types) = Types[x]
    BY <2>1, <2>2 DEF RefsOf, RefType
  <2> QED BY <2>2, <2>3 DEF HasType, ValueTypes
<1>6. CASE \E i \in DOMAIN w.scores : path = <<"scores", ToString(i - 1)>>
  <2>1. PICK digit : path = <<"scores", digit>>
    BY <1>6
  <2>2. Len(path) = 2
    BY <2>1
  <2>3. RefsOf(w)[path] = IntV(w.scores[SeatOf(w, digit)]) /\ RefType(path, Types) = "integer"
    BY <2>1, <2>2 DEF RefsOf, RefType
  <2> QED BY <2>3 DEF HasType, IntV
<1>7. CASE \E x \in DOMAIN w.inputs : path = <<"input", x>>
  <2>1. PICK x \in DOMAIN w.inputs : path = <<"input", x>>
    BY <1>7
  <2>2. RefsOf(w)[path] = w.inputs[x] /\ RefType(path, Types) = "any"
    BY <2>1 DEF RefsOf, RefType
  <2>3. w.inputs[x][1] \notin {"error", "empty", "dict"}
    BY WorldsAssumption
  <2> QED BY <2>2, <2>3 DEF HasType
<1> QED BY <1>1, <1>2, <1>3, <1>4, <1>5, <1>6, <1>7 DEF PathsOf

-----------------------------------------------------------------------------
(* The value of a node: what the evaluator computes for its payload *)

\* A tree that is lowered, and reads what a validated tree may read.
Runnable(e) ==
  /\ Lowerable(e)
  /\ \A n \in Parts(e) :
       /\ n.op = "lit" => ~ IsReference(n.value)
       /\ n.op = "ref" /\ n.path[1] = "variables" => n.path[2] \in DOMAIN Types

ValueOf(e, w, t) == ValuesOf(CompileExpression(e), StateOf(w))[Lowered(e)[t]]
OperandsOf(e, w, t) == [i \in DOMAIN Children(t) |-> ValueOf(e, w, Children(t)[i])]
Read(w, path) == IF path \in PathsOf(w) THEN RefsOf(w)[path] ELSE Error("state_reference_not_found")

LEMMA ReadIsNoDict ==
    ASSUME NEW w \in Worlds, NEW path
    PROVE  Read(w, path)[1] \notin {"dict", "empty"}
BY ReferenceHasType DEF Read, Error

LEMMA ValueOfNode ==
    ASSUME NEW e, Runnable(e), NEW w \in Worlds, NEW t \in Parts(e)
    PROVE  /\ t.op = "lit" => ValueOf(e, w, t) = t.value
           /\ t.op = "ref" => ValueOf(e, w, t) = Read(w, t.path)
           /\ t.op \in Operators => ValueOf(e, w, t) = ApplyStrict(t.op, OperandsOf(e, w, t))
<1> DEFINE p == CompileExpression(e)
           s == StateOf(w)
           V == ValuesOf(p, s)
           n == Lowered(e)[t]
<1>1. Lowerable(e) /\ Fits(p) /\ n \in Parts(p)
  BY PayloadParts DEF Runnable
<1>2. V[n] = EvaluateRule(n, Of(V, n), s) /\ ValueOf(e, w, t) = V[n]
  BY <1>1, ValuesOfIs DEF ValueOf
<1>3. CASE t.op = "lit"
  <2>1. n = Const(t.value)
    BY <1>1, <1>3, PayloadOfNode
  <2>2. t.value[1] \in LiteralTags /\ ~ IsReference(t.value)
    BY <1>1, <1>3, NodeKinds DEF Runnable, Operators, Arithmetic, Comparisons, Connectives
  <2>3. Resolve(t.value, s) = t.value /\ t.value[1] # "dict"
    BY <2>2 DEF Resolve, LiteralTags
  <2>4. n.op = "const" /\ n.value = t.value
    BY <2>1 DEF Const
  <2> HIDE DEF V, s, n
  <2>5. V[n] = t.value
    BY <1>2, <2>3, <2>4 DEF EvaluateRule
  <2> QED BY <1>2, <1>3, <2>5 DEF Operators, Arithmetic, Comparisons, Connectives
<1>4. CASE t.op = "ref"
  <2>1. n = State(StatePath(t.path))
    BY <1>1, <1>4, PayloadOfNode
  <2>2. IsPath(t.path) /\ (t.path[1] = "variables" => t.path[2] \in DOMAIN Types)
    BY <1>1, <1>4, NodeKinds DEF Runnable, Operators, Arithmetic, Comparisons, Connectives
  <2>3. n.op = "const" /\ n.value = StrV(<<"$state">> \o StatePath(t.path))
    BY <2>1 DEF State, Const
  <2>4. Resolve(n.value, s) = Read(w, t.path)
    BY <2>2, <2>3, ReferenceIsRead DEF Read
  <2>5. Read(w, t.path)[1] # "dict"
    BY ReadIsNoDict
  <2> HIDE DEF V, s, n
  <2>6. V[n] = Read(w, t.path)
    BY <1>2, <2>3, <2>4, <2>5 DEF EvaluateRule
  <2> QED BY <1>2, <1>4, <2>6 DEF Operators, Arithmetic, Comparisons, Connectives
<1>5. CASE t.op \in Operators
  <2>1. n = Payload(t.op, Of(Lowered(e), t)) /\ Children(n) = Of(Lowered(e), t)
    BY <1>1, <1>5, PayloadOfNode
  <2>2. n.op = t.op /\ n.op # "const" /\ t.op # "lit" /\ t.op # "ref"
    BY <1>5, <2>1 DEF Payload, Operators, Arithmetic, Comparisons, Connectives
  <2>3. Of(V, n) = OperandsOf(e, w, t)
    BY <2>1 DEF Of, OperandsOf, ValueOf
  <2> HIDE DEF V, s, n
  <2>4. V[n] = ApplyStrict(t.op, OperandsOf(e, w, t))
    BY <1>2, <2>2, <2>3 DEF EvaluateRule
  <2> QED BY <1>2, <2>2, <2>4
<1> QED BY <1>1, <1>3, <1>4, <1>5, NodeKinds

\* The result of the whole: the value of the root, unless a reference is missing.
Missing(e, w) == \E t \in Parts(e) : t.op = "ref" /\ t.path \notin PathsOf(w)

LEMMA ResultIsValue ==
    ASSUME NEW e, Runnable(e), NEW w \in Worlds
    PROVE  Evaluate(CompileExpression(e), StateOf(w))
             = IF Missing(e, w) THEN Error("state_reference_not_found") ELSE ValueOf(e, w, e)
<1> DEFINE p == CompileExpression(e)
           s == StateOf(w)
<1>1. Lowerable(e) /\ Fits(p) /\ Parts(p) = {Lowered(e)[t] : t \in Parts(e)}
  BY PayloadParts DEF Runnable
<1>2. p = Lowered(e)[e]
  BY DEF CompileExpression, Lowered
<1>3. ASSUME NEW v \in Consts(p), IsError(Resolve(v, s))
      PROVE  Missing(e, w)
  <2>1. PICK t \in Parts(e) : Lowered(e)[t].op = "const" /\ v = Lowered(e)[t].value
    BY <1>1 DEF Consts
  <2>2. CASE t.op = "lit"
    <3>1. v = t.value
      <4>1. Lowered(e)[t] = Const(t.value)
        BY <1>1, <2>2, PayloadOfNode
      <4> QED BY <2>1, <4>1 DEF Const
    <3>2. ~ IsReference(v) /\ v[1] \in LiteralTags
      BY <1>1, <2>2, <3>1, NodeKinds DEF Runnable, Operators, Arithmetic, Comparisons, Connectives
    <3> QED BY <1>3, <3>2 DEF Resolve, IsError, LiteralTags
  <2>3. CASE t.op = "ref"
    <3>1. v = StrV(<<"$state">> \o StatePath(t.path))
      <4>1. Lowered(e)[t] = State(StatePath(t.path))
        BY <1>1, <2>3, PayloadOfNode
      <4> QED BY <2>1, <4>1 DEF State, Const
    <3>2. IsPath(t.path) /\ (t.path[1] = "variables" => t.path[2] \in DOMAIN Types)
      BY <1>1, <2>3, NodeKinds DEF Runnable, Operators, Arithmetic, Comparisons, Connectives
    <3>3. Resolve(v, s) = Read(w, t.path)
      BY <3>1, <3>2, ReferenceIsRead DEF Read
    <3>4. t.path \notin PathsOf(w)
      BY <1>3, <3>3, ReferenceHasType DEF Read, IsError
    <3> QED BY <2>3, <3>4 DEF Missing
  <2>4. CASE t.op \in Operators
    <3>1. Lowered(e)[t] = Payload(t.op, Of(Lowered(e), t))
      BY <1>1, <2>4, PayloadOfNode
    <3>2. t.op # "const"
      BY <2>4 DEF Operators, Arithmetic, Comparisons, Connectives
    <3> QED BY <2>1, <3>1, <3>2 DEF Payload
  <2> QED BY <1>1, <2>2, <2>3, <2>4, NodeKinds
<1>4. ASSUME Missing(e, w)
      PROVE  \E v \in Consts(p) : IsError(Resolve(v, s))
  <2>1. PICK t \in Parts(e) : t.op = "ref" /\ t.path \notin PathsOf(w)
    BY <1>4 DEF Missing
  <2>2. Lowered(e)[t] = State(StatePath(t.path)) /\ Lowered(e)[t] \in Parts(p)
    BY <1>1, <2>1, PayloadOfNode
  <2>3. StrV(<<"$state">> \o StatePath(t.path)) \in Consts(p)
    BY <2>2 DEF Consts, State, Const
  <2>4. IsPath(t.path) /\ (t.path[1] = "variables" => t.path[2] \in DOMAIN Types)
    BY <1>1, <2>1, NodeKinds DEF Runnable, Operators, Arithmetic, Comparisons, Connectives
  <2>5. Resolve(StrV(<<"$state">> \o StatePath(t.path)), s) = Error("state_reference_not_found")
    BY <2>1, <2>4, ReferenceIsRead
  <2>6. IsError(Error("state_reference_not_found"))
    BY DEF IsError, Error
  <2> QED BY <2>3, <2>5, <2>6
<1>5. Evaluate(p, s) = IF Missing(e, w) THEN Error("state_reference_not_found") ELSE Evaluation!Fold(Parts(p), s)[p]
  <2> HIDE DEF p, s
  <2> QED BY <1>1, <1>3, <1>4 DEF Evaluate, Fits
<1>6. Evaluation!Fold(Parts(p), s)[p] = ValueOf(e, w, e)
  BY <1>2 DEF ValueOf, ValuesOf
<1> QED BY <1>5, <1>6

-----------------------------------------------------------------------------
(* The meaning of a node *)

\* No node means the top of an empty zone, which only a guard may read.
LEMMA MeaningOfNode ==
    ASSUME NEW e, Runnable(e), NEW w \in Worlds, NEW t \in Parts(e)
    PROVE  /\ Meanings(e, w)[t][1] # "empty"
           /\ t.op = "lit" => Meanings(e, w)[t] = t.value /\ ~ IsError(t.value)
           /\ t.op = "ref" => Meanings(e, w)[t] = Read(w, t.path)
<1> DEFINE M == Meanings(e, w)
<1>1. M[t] = MeaningRule(t, Of(M, t), TableOf(w))
  BY MeaningsIs DEF Runnable, Lowerable
<1>2. TableOf(w).refs = RefsOf(w) /\ DOMAIN RefsOf(w) = PathsOf(w)
  BY DEF TableOf, RefsOf
<1> HIDE DEF M
<1>3. CASE t.op = "lit"
  <2>1. M[t] = t.value
    BY <1>1, <1>3 DEF MeaningRule
  <2>2. t.value[1] \in LiteralTags
    BY <1>3, NodeKinds DEF Runnable, Operators, Arithmetic, Comparisons, Connectives
  <2> QED BY <1>3, <2>1, <2>2 DEF LiteralTags, IsError, M
<1>4. CASE t.op = "ref"
  <2>1. M[t] = Read(w, t.path)
    BY <1>1, <1>2, <1>4 DEF MeaningRule, Read
  <2> QED BY <1>4, <2>1, ReadIsNoDict DEF M
<1>5. CASE t.op \in Operators
  <2>1. t.op \notin {"lit", "ref", "top", "zone_count", "has_match"}
    BY <1>5 DEF Operators, Arithmetic, Comparisons, Connectives
  <2>2. M[t] = IF t.op = "eq" /\ \E i \in DOMAIN Of(M, t) : Of(M, t)[i][1] = "empty"
               THEN BoolV(FALSE) ELSE ApplyStrict(t.op, Of(M, t))
    BY <1>1, <2>1 DEF MeaningRule
  <2>3. ApplyStrict(t.op, Of(M, t))[1] # "empty"
    <3>1. PICK n \in Nat : DOMAIN Children(t) = 1 .. n
      BY <1>5, OperandsOfNode DEF Runnable
    <3>2. DOMAIN Of(M, t) = 1 .. n
      BY <3>1 DEF Of
    <3>3. CASE \E i \in 1 .. n : IsError(Of(M, t)[i])
      <4>1. PICK j \in 1 .. n : IsError(Of(M, t)[j]) /\ ApplyStrict(t.op, Of(M, t)) = Of(M, t)[j]
        BY <3>2, <3>3, StrictOnFailure
      <4> QED BY <4>1 DEF IsError
    <3>4. CASE ~ \E i \in 1 .. n : IsError(Of(M, t)[i])
      <4>1. ApplyStrict(t.op, Of(M, t)) = Apply(t.op, Of(M, t))
        BY <3>2, <3>4, StrictOtherwise
      <4> QED BY <1>5, <4>1, ResultOfOperator
    <3> QED BY <3>3, <3>4
  <2> QED BY <2>1, <2>2, <2>3 DEF BoolV, M
<1> QED BY <1>3, <1>4, <1>5, NodeKinds DEF Runnable

LEMMA MeaningOfOperator ==
    ASSUME NEW e, Runnable(e), NEW w \in Worlds, NEW t \in Parts(e), t.op \in Operators
    PROVE  Meanings(e, w)[t] = ApplyStrict(t.op, Of(Meanings(e, w), t))
<1> DEFINE M == Meanings(e, w)
<1>1. M[t] = MeaningRule(t, Of(M, t), TableOf(w))
  BY MeaningsIs DEF Runnable, Lowerable
<1>2. t.op \notin {"lit", "ref", "top", "zone_count", "has_match"}
  BY DEF Operators, Arithmetic, Comparisons, Connectives
<1>3. \A i \in DOMAIN Of(M, t) : Of(M, t)[i][1] # "empty"
  <2>1. \A i \in DOMAIN Children(t) : Children(t)[i] \in Parts(e)
    BY PartsAreClosed DEF Runnable, Lowerable
  <2>2. \A i \in DOMAIN Children(t) : M[Children(t)[i]][1] # "empty"
    BY <2>1, MeaningOfNode
  <2> QED BY <2>2 DEF Of
<1> HIDE DEF M
<1>4. M[t] = ApplyStrict(t.op, Of(M, t))
  BY <1>1, <1>2, <1>3 DEF MeaningRule
<1> QED BY <1>4 DEF M

\* Evaluating the payload of a node gives what the node means.
LEMMA MeaningIsValue ==
    ASSUME NEW e, Runnable(e), NEW w \in Worlds
    PROVE  \A t \in Parts(e) : Meanings(e, w)[t] = ValueOf(e, w, t)
<1> DEFINE T == {t \in Parts(e) : Meanings(e, w)[t] # ValueOf(e, w, t)}
<1>1. ASSUME NEW t \in T
      PROVE  \E i \in DOMAIN Children(t) : Children(t)[i] \in T
  <2>1. t \in Parts(e) /\ Meanings(e, w)[t] # ValueOf(e, w, t)
    OBVIOUS
  <2>2. t.op \in Operators
    BY <2>1, MeaningOfNode, ValueOfNode, NodeKinds DEF Runnable
  <2>3. SUFFICES ASSUME \A i \in DOMAIN Children(t) : Children(t)[i] \notin T
                 PROVE  FALSE
    OBVIOUS
  <2>4. \A i \in DOMAIN Children(t) : Children(t)[i] \in Parts(e)
    BY <2>1, PartsAreClosed DEF Runnable, Lowerable
  <2>5. \A i \in DOMAIN Children(t) : Meanings(e, w)[Children(t)[i]] = ValueOf(e, w, Children(t)[i])
    BY <2>3, <2>4
  <2> HIDE DEF T
  <2>6. Of(Meanings(e, w), t) = OperandsOf(e, w, t)
    BY <2>5 DEF Of, OperandsOf
  <2>7. Meanings(e, w)[t] = ApplyStrict(t.op, Of(Meanings(e, w), t))
    BY <2>1, <2>2, MeaningOfOperator
  <2>8. ValueOf(e, w, t) = ApplyStrict(t.op, OperandsOf(e, w, t))
    BY <2>1, <2>2, ValueOfNode
  <2> QED BY <2>1, <2>6, <2>7, <2>8
<1>2. T \subseteq Parts(e)
  OBVIOUS
<1>3. T = {}
  <2> HIDE DEF T
  <2> QED BY <1>1, <1>2, PartsAreLevelled, MaxExprDepthAssumption, Typing!NoEndlessDescent DEF Runnable, Lowerable
<1> QED BY <1>3

\* What fails anywhere in the tree fails at its root.
LEMMA FailureReachesTheRoot ==
    ASSUME NEW e, Runnable(e), NEW w \in Worlds, Missing(e, w)
    PROVE  IsError(ValueOf(e, w, e))
<1> SUFFICES ASSUME ~ IsError(ValueOf(e, w, e)) PROVE FALSE
  OBVIOUS
<1> DEFINE Good == {t \in Parts(e) : ~ IsError(ValueOf(e, w, t))}
<1>1. e \in Good
  BY PartsAreClosed DEF Runnable, Lowerable
<1>2. ASSUME NEW t \in Good, NEW i \in DOMAIN Children(t)
      PROVE  Children(t)[i] \in Good
  <2>1. t \in Parts(e) /\ ~ IsError(ValueOf(e, w, t)) /\ Children(t)[i] \in Parts(e)
    BY PartsAreClosed DEF Runnable, Lowerable
  <2>2. t.op \in Operators
    BY <2>1, NodeKinds DEF Runnable
  <2>3. ValueOf(e, w, t) = ApplyStrict(t.op, OperandsOf(e, w, t))
    BY <2>1, <2>2, ValueOfNode
  <2>4. PICK n \in Nat : DOMAIN Children(t) = 1 .. n
    BY <2>1, <2>2, OperandsOfNode DEF Runnable
  <2>5. DOMAIN OperandsOf(e, w, t) = 1 .. n /\ OperandsOf(e, w, t)[i] = ValueOf(e, w, Children(t)[i])
    BY <2>4 DEF OperandsOf
  <2>6. ~ IsError(ValueOf(e, w, Children(t)[i]))
    BY <2>1, <2>3, <2>4, <2>5, StrictOnFailure
  <2> QED BY <2>1, <2>6
<1>3. Parts(e) \subseteq Good
  <2> HIDE DEF Good
  <2> QED BY <1>1, <1>2, FromTheRoot
<1>4. PICK t \in Parts(e) : t.op = "ref" /\ t.path \notin PathsOf(w)
  BY DEF Missing
<1>5. ValueOf(e, w, t) = Error("state_reference_not_found")
  BY <1>4, ValueOfNode DEF Read
<1>6. ~ IsError(ValueOf(e, w, t))
  BY <1>3
<1> QED BY <1>5, <1>6 DEF IsError, Error

-----------------------------------------------------------------------------
(* The type of a node *)

\* The failures that the validators leave to the run.
Fails(e, v) ==
  \/ Escapes(v) /\ \E n \in Parts(e) : n.op = "mod"
  \/ v = Error("state_reference_not_found") /\ \E p \in RefsIn(e) : p[1] \in {"input", "scores"}
  \/ v = Error("TypeError") /\ \E n \in Parts(e) : n.op = "count" /\ TypesOf(e)[n.args[1]] = "any"
Sound(e, w, t) ==
  IF IsError(ValueOf(e, w, t)) THEN Fails(e, ValueOf(e, w, t))
  ELSE HasType(ValueOf(e, w, t), TypesOf(e)[t])

LEMMA LeafIsSound ==
    ASSUME NEW e, Runnable(e), NEW w \in Worlds, NEW t \in Parts(e), t.op \in {"lit", "ref"}
    PROVE  Sound(e, w, t)
<1>1. TypesOf(e)[t] = TypeRule(t, Of(TypesOf(e), t), Types)
  BY TypesOfIs DEF Runnable, Lowerable
<1>2. CASE t.op = "lit"
  <2>1. ValueOf(e, w, t) = t.value /\ t.value[1] \in LiteralTags
    BY <1>2, ValueOfNode, NodeKinds DEF Runnable, Operators, Arithmetic, Comparisons, Connectives
  <2>2. TypesOf(e)[t] = LiteralType(t.value)
    BY <1>1, <1>2 DEF TypeRule
  <2> QED BY <2>1, <2>2 DEF Sound, HasType, LiteralType, LiteralTags, IsError
<1>3. CASE t.op = "ref"
  <2>1. ValueOf(e, w, t) = Read(w, t.path)
    BY <1>3, ValueOfNode
  <2>2. IsPath(t.path) /\ (t.path[1] = "variables" => t.path[2] \in DOMAIN Types)
    BY <1>3, NodeKinds DEF Runnable, Operators, Arithmetic, Comparisons, Connectives
  <2>3. TypesOf(e)[t] = RefType(t.path, Types)
    BY <1>1, <1>3 DEF TypeRule
  <2>4. CASE t.path \in PathsOf(w)
    <3>1. ValueOf(e, w, t) = RefsOf(w)[t.path]
      BY <2>1, <2>4 DEF Read
    <3> QED BY <2>3, <2>4, <3>1, ReferenceHasType DEF Sound, IsError
  <2>5. CASE t.path \notin PathsOf(w)
    <3>1. t.path[1] \in {"input", "scores"}
      <4>1. \A x \in DOMAIN Types : <<"variables", x>> \in PathsOf(w)
        BY WorldsAssumption DEF PathsOf
      <4>2. CASE \E kind \in {"variables", "scores", "input"} : \E x \in Range(t.path) : t.path = <<kind, x>>
        BY <2>2, <2>5, <4>1, <4>2
      <4>3. CASE t.path \in {<<"scores">>, <<"round">>, <<"actor">>, <<"action_count">>}
        BY <2>5, <4>3 DEF PathsOf
      <4> QED BY <2>2, <4>2, <4>3 DEF IsPath
    <3>2. t.path \in RefsIn(e)
      BY <1>3 DEF RefsIn
    <3>3. ValueOf(e, w, t) = Error("state_reference_not_found")
      BY <2>1, <2>5 DEF Read
    <3> QED BY <3>1, <3>2, <3>3 DEF Sound, Fails, IsError, Error
  <2> QED BY <2>4, <2>5
<1> QED BY <1>2, <1>3

\* An operator whose operands are sound, and of the types it asks for, is sound.
LEMMA OperatorIsSound ==
    ASSUME NEW e, Runnable(e), NEW w \in Worlds, NEW t \in Parts(e), t.op \in Operators,
           TypesOf(e)[t] # "error",
           \A i \in DOMAIN Children(t) :
             TypesOf(e)[Children(t)[i]] # "error" => Sound(e, w, Children(t)[i])
    PROVE  Sound(e, w, t)
<1> DEFINE vs == OperandsOf(e, w, t)
           types == Of(TypesOf(e), t)
<1>1. TypesOf(e)[t] = TypeRule(t, types, Types)
  BY TypesOfIs DEF Runnable, Lowerable
<1>2. t.op \notin {"lit", "ref", "top", "has_match", "zone_count"}
  BY DEF Operators, Arithmetic, Comparisons, Connectives
<1>3. PICK n \in Nat : DOMAIN Children(t) = 1 .. n /\ FewEnough(t.op, n)
  BY OperandsOfNode DEF Runnable
<1>4. /\ DOMAIN vs = 1 .. n /\ \A i \in 1 .. n : vs[i] = ValueOf(e, w, Children(t)[i])
      /\ DOMAIN types = 1 .. n /\ \A i \in 1 .. n : types[i] = TypesOf(e)[Children(t)[i]]
  BY <1>3 DEF OperandsOf, Of
<1>5. ValueOf(e, w, t) = ApplyStrict(t.op, vs)
  BY ValueOfNode
<1> HIDE DEF vs, types
<1>6. (\A i \in 1 .. n : types[i] \in Operands(t.op)) /\ TypesOf(e)[t] = Yields(t.op)
  BY <1>1, <1>2, <1>4 DEF TypeRule
<1>7. "error" \notin Operands(t.op)
  BY DEF Operands, Operators, Arithmetic, Comparisons, Connectives
<1>8. \A i \in 1 .. n : IF IsError(vs[i]) THEN Fails(e, vs[i]) ELSE HasType(vs[i], types[i])
  <2>1. \A i \in 1 .. n : Sound(e, w, Children(t)[i])
    BY <1>3, <1>4, <1>6, <1>7
  <2> QED BY <1>4, <2>1 DEF Sound
<1>9. CASE \E i \in 1 .. n : IsError(vs[i])
  <2>1. PICK j \in 1 .. n : IsError(vs[j]) /\ ApplyStrict(t.op, vs) = vs[j]
    BY <1>4, <1>9, StrictOnFailure
  <2> QED BY <1>5, <1>8, <2>1 DEF Sound
<1>10. CASE ~ \E i \in 1 .. n : IsError(vs[i])
  <2>1. ValueOf(e, w, t) = Apply(t.op, vs)
    BY <1>4, <1>5, <1>10, StrictOtherwise
  <2>2. \A i \in 1 .. n : HasType(vs[i], types[i]) /\ types[i] \in Operands(t.op)
    BY <1>6, <1>8, <1>10
  <2>3. CASE t.op \in {"not", "eq"} \cup Connectives
    <3>1. Apply(t.op, vs)[1] = "boolean"
      BY <2>3, ResultOfOperator
    <3>2. Yields(t.op) = "boolean"
      BY <2>3 DEF Yields, Arithmetic, Comparisons, Connectives
    <3> QED BY <1>6, <2>1, <3>1, <3>2 DEF Sound, HasType, IsError
  <2>4. CASE t.op = "join"
    <3>1. Apply(t.op, vs)[1] = "string"
      BY <2>4, ResultOfOperator
    <3>2. Yields(t.op) = "string"
      BY <2>4 DEF Yields, Arithmetic, Comparisons, Connectives
    <3> QED BY <1>6, <2>1, <3>1, <3>2 DEF Sound, HasType, IsError
  <2>5. CASE t.op = "count"
    <3>1. n = 1 /\ 1 \in 1 .. n
      BY <1>3, <2>5 DEF FewEnough
    <3>2. IF Sequenced(vs[1]) THEN Apply(t.op, vs)[1] = "integer" ELSE Apply(t.op, vs) = Error("TypeError")
      BY <2>5, ResultOfOperator
    <3>3. Yields(t.op) = "integer"
      BY <2>5 DEF Yields, Arithmetic, Comparisons, Connectives
    <3>4. HasType(vs[1], types[1]) /\ types[1] \in {"integer_list", "string", "any"}
      BY <2>2, <2>5, <3>1 DEF Operands, Arithmetic, Comparisons, Connectives
    <3>5. CASE Sequenced(vs[1])
      BY <1>6, <2>1, <3>2, <3>3, <3>5 DEF Sound, HasType, IsError
    <3>6. CASE ~ Sequenced(vs[1])
      <4>1. types[1] = "any"
        BY <3>4, <3>6 DEF HasType, Sequenced
      <4>2. TypesOf(e)[t.args[1]] = "any"
        <5>1. Children(t) = t.args
          BY <1>2, NodeKinds DEF Runnable
        <5> QED BY <1>4, <3>1, <4>1, <5>1
      <4> QED BY <2>1, <2>5, <3>2, <3>6, <4>2 DEF Sound, Fails, IsError, Error
    <3> QED BY <3>5, <3>6
  <2>6. CASE t.op \in Arithmetic \cup (Comparisons \ {"eq"})
    <3>1. n = 2 /\ 1 \in 1 .. n /\ 2 \in 1 .. n
      BY <1>3, <2>6 DEF FewEnough
    <3>2. Operands(t.op) = {"integer"}
      BY <2>6 DEF Operands, Arithmetic, Comparisons, Connectives
    <3>3. Numeric(vs[1]) /\ Numeric(vs[2])
      BY <2>2, <3>1, <3>2 DEF HasType, Numeric
    <3>4. CASE t.op \in Comparisons \ {"eq"}
      <4>1. Apply(t.op, vs)[1] = "boolean"
        BY <3>3, <3>4, ResultOfOperator
      <4>2. Yields(t.op) = "boolean"
        BY <3>4 DEF Yields, Arithmetic, Comparisons, Connectives
      <4> QED BY <1>6, <2>1, <4>1, <4>2 DEF Sound, HasType, IsError
    <3>5. CASE t.op \in Arithmetic
      <4>1. \/ Apply(t.op, vs)[1] = "integer"
            \/ t.op = "mod" /\ Apply(t.op, vs) = Error("ZeroDivisionError")
        BY <3>3, <3>5, ResultOfOperator
      <4>2. Yields(t.op) = "integer"
        BY <3>5 DEF Yields, Arithmetic, Comparisons, Connectives
      <4> QED BY <1>6, <2>1, <4>1, <4>2 DEF Sound, Fails, Escapes, HasType, IsError, Error
    <3> QED BY <2>6, <3>4, <3>5
  <2> QED BY <2>3, <2>4, <2>5, <2>6 DEF Operators
<1> QED BY <1>9, <1>10

\* infer_type is sound for every node that it does not refuse.
LEMMA EveryNodeIsSound ==
    ASSUME NEW e, Runnable(e), NEW w \in Worlds
    PROVE  \A t \in Parts(e) : TypesOf(e)[t] # "error" => Sound(e, w, t)
<1> DEFINE T == {t \in Parts(e) : TypesOf(e)[t] # "error" /\ ~ Sound(e, w, t)}
<1>1. ASSUME NEW t \in T
      PROVE  \E i \in DOMAIN Children(t) : Children(t)[i] \in T
  <2>1. t \in Parts(e) /\ TypesOf(e)[t] # "error" /\ ~ Sound(e, w, t)
    OBVIOUS
  <2>2. t.op \in Operators
    BY <2>1, LeafIsSound, NodeKinds DEF Runnable
  <2>3. SUFFICES ASSUME \A i \in DOMAIN Children(t) : Children(t)[i] \notin T
                 PROVE  FALSE
    OBVIOUS
  <2>4. \A i \in DOMAIN Children(t) : Children(t)[i] \in Parts(e)
    BY <2>1, PartsAreClosed DEF Runnable, Lowerable
  <2>5. \A i \in DOMAIN Children(t) :
          TypesOf(e)[Children(t)[i]] # "error" => Sound(e, w, Children(t)[i])
    BY <2>3, <2>4
  <2> HIDE DEF T
  <2> QED BY <2>1, <2>2, <2>5, OperatorIsSound
<1>2. T \subseteq Parts(e)
  OBVIOUS
<1>3. T = {}
  <2> HIDE DEF T
  <2> QED BY <1>1, <1>2, PartsAreLevelled, MaxExprDepthAssumption, Typing!NoEndlessDescent DEF Runnable, Lowerable
<1> QED BY <1>3

-----------------------------------------------------------------------------
(* The course of an expression *)

\* What is lowered was accepted, and what ran is the payload it was lowered to.
ExprInv ==
  /\ expr \in Trees
  /\ use \in {"guard"} \cup DOMAIN Types
  /\ phase \in {"accepted", "lowered", "ran"} => Accepted
  /\ phase \in {"lowered", "ran"} =>
       /\ \A n \in Parts(expr) : n.op \notin GuardOnly
       /\ payload = CompileExpression(expr)
  /\ phase = "ran" => world \in Worlds /\ result = Evaluate(payload, StateOf(world))

\* The invariant that the theorems below follow from: no phase is entered but
\* through the one before, and the tree stays the one that was declared.
THEOREM ExprInvariance == Spec => []ExprInv
<1>1. Init => ExprInv
  BY DEF Init, ExprInv
<1>2. ExprInv /\ [Next]_vars => ExprInv'
  <2> SUFFICES ASSUME ExprInv, [Next]_vars
               PROVE  ExprInv'
    OBVIOUS
  <2>1. CASE Validate
    <3>1. expr' = expr /\ use' = use /\ (phase' = "accepted" => Accepted) /\ phase' \in {"accepted", "refused"}
      BY <2>1 DEF Validate
    <3>2. Accepted' = Accepted
      BY <3>1 DEF Accepted
    <3> QED BY <3>1, <3>2 DEF ExprInv
  <2>2. CASE Lower
    <3>1. expr' = expr /\ use' = use /\ phase = "accepted"
      BY <2>2 DEF Lower
    <3>2. Accepted' = Accepted
      BY <3>1 DEF Accepted
    <3>3. \/ phase' = "not_plain"
          \/ /\ phase' = "lowered" /\ payload' = CompileExpression(expr)
             /\ \A n \in Parts(expr) : n.op \notin GuardOnly
      BY <2>2 DEF Lower
    <3> QED BY <3>1, <3>2, <3>3 DEF ExprInv
  <2>3. CASE \E w \in Worlds : Run(w)
    <3>1. PICK w \in Worlds : Run(w)
      BY <2>3
    <3>2. expr' = expr /\ use' = use /\ payload' = payload /\ phase = "lowered" /\ phase' = "ran"
          /\ world' = w /\ result' = Evaluate(payload, StateOf(w))
      BY <3>1 DEF Run
    <3>3. Accepted' = Accepted
      BY <3>2 DEF Accepted
    <3>4. world' \in Worlds /\ result' = Evaluate(payload', StateOf(world'))
      BY <3>2
    <3> QED BY <3>2, <3>3, <3>4 DEF ExprInv
  <2>4. CASE UNCHANGED vars
    <3>1. expr' = expr /\ use' = use /\ phase' = phase /\ payload' = payload /\ world' = world /\ result' = result
      BY <2>4 DEF vars
    <3>2. Accepted' = Accepted
      BY <3>1 DEF Accepted
    <3> QED BY <3>1, <3>2 DEF ExprInv
  <2> QED BY <2>1, <2>2, <2>3, <2>4 DEF Next
<1> QED BY <1>1, <1>2, PTL DEF Spec

\* An accepted tree without guard-only leaves and without literals spelled like
\* references runs, and its root has a type.
LEMMA AcceptedRuns ==
    ASSUME ExprInv, phase \in {"lowered", "ran"}, Plain
    PROVE  /\ Runnable(expr)
           /\ TypesOf(expr)[expr] # "error"
           /\ use # "guard" => Assignable(TypesOf(expr)[expr], Types[use])
<1>1. Accepted
  BY DEF ExprInv
<1>2. ValidExpression(expr, DOMAIN Types)
  BY <1>1 DEF Accepted, GuardAccepted
<1>3. Fits(expr)
  BY <1>2, EmptyBelow DEF ValidExpression, Fits
<1>4. Lowerable(expr)
  BY <1>3, TreesAssumption DEF ExprInv, Lowerable
<1>5. ASSUME NEW n \in Parts(expr), n.op = "ref", n.path[1] = "variables"
      PROVE  n.path[2] \in DOMAIN Types
  <2>1. n.path \in RefsIn(expr)
    BY <1>5 DEF RefsIn
  <2> QED BY <1>2, <1>5, <2>1 DEF ValidExpression
<1>6. Runnable(expr)
  BY <1>4, <1>5 DEF Runnable, Plain
<1>7. InferType(expr, Types) = TypesOf(expr)[expr]
  BY DEF InferType, TypesOf
<1>8. TypesOf(expr)[expr] # "error" /\ (use # "guard" => Assignable(TypesOf(expr)[expr], Types[use]))
  BY <1>1, <1>7 DEF Accepted, GuardAccepted
<1> QED BY <1>6, <1>8

LEMMA RunGivesValue ==
    ASSUME ExprInv, phase = "ran", Plain
    PROVE  /\ world \in Worlds
           /\ result = IF Missing(expr, world) THEN Error("state_reference_not_found")
                       ELSE ValueOf(expr, world, expr)
<1>1. world \in Worlds /\ result = Evaluate(CompileExpression(expr), StateOf(world))
  BY DEF ExprInv
<1>2. Runnable(expr)
  BY AcceptedRuns
<1> QED BY <1>1, <1>2, ResultIsValue

LEMMA SoundWhenRun ==
    ASSUME ExprInv
    PROVE  TypesAreSound
<1> SUFFICES ASSUME phase = "ran", Plain
             PROVE  IF IsError(result) THEN Excused(result)
                    ELSE /\ HasType(result, TypeOf(expr))
                         /\ use # "guard" /\ TypeOf(expr) # "any" => HasType(result, Types[use])
  BY DEF TypesAreSound
<1>1. Runnable(expr) /\ TypesOf(expr)[expr] # "error"
      /\ (use # "guard" => Assignable(TypesOf(expr)[expr], Types[use]))
  BY AcceptedRuns
<1>2. world \in Worlds
      /\ result = IF Missing(expr, world) THEN Error("state_reference_not_found") ELSE ValueOf(expr, world, expr)
  BY RunGivesValue
<1>3. expr \in Parts(expr)
  BY <1>1, PartsAreClosed DEF Runnable, Lowerable
<1>4. Sound(expr, world, expr)
  BY <1>1, <1>2, <1>3, EveryNodeIsSound
<1>5. \A v : Fails(expr, v) <=> Excused(v)
  BY DEF Fails, Excused, MayDivideByZero, MayBeMissing, MayNotBeCounted, TypeOf, TypesOf
<1>6. TypeOf(expr) = TypesOf(expr)[expr]
  BY DEF TypeOf, TypesOf
<1>7. CASE Missing(expr, world)
  <2>1. PICK t \in Parts(expr) : t.op = "ref" /\ t.path \notin PathsOf(world)
    BY <1>7 DEF Missing
  <2>2. ValueOf(expr, world, t) = Error("state_reference_not_found")
    BY <1>1, <1>2, <2>1, ValueOfNode DEF Read
  <2>3. Sound(expr, world, t)
    BY <1>1, <1>2, <2>1, LeafIsSound
  <2>4. Fails(expr, Error("state_reference_not_found"))
    BY <2>2, <2>3 DEF Sound, IsError, Error
  <2> QED BY <1>2, <1>5, <1>7, <2>4 DEF IsError, Error
<1>8. CASE ~ Missing(expr, world)
  <2>1. result = ValueOf(expr, world, expr)
    BY <1>2, <1>8
  <2>2. IF IsError(result) THEN Excused(result) ELSE HasType(result, TypeOf(expr))
    BY <1>4, <1>5, <1>6, <2>1 DEF Sound
  <2> QED BY <1>1, <1>6, <2>2 DEF Assignable
<1> QED BY <1>7, <1>8

LEMMA KeptWhenRun ==
    ASSUME ExprInv
    PROVE  MeaningIsKept
<1> DEFINE meant == Meaning(expr, RefsOf(world), <<>>, <<>>)
<1> SUFFICES ASSUME phase = "ran", Plain
             PROVE  IF IsError(meant) THEN IsError(result) ELSE result = meant
  BY DEF MeaningIsKept
<1>1. Runnable(expr)
  BY AcceptedRuns
<1>2. world \in Worlds
      /\ result = IF Missing(expr, world) THEN Error("state_reference_not_found") ELSE ValueOf(expr, world, expr)
  BY RunGivesValue
<1>3. meant = Meanings(expr, world)[expr]
  BY DEF Meaning, Meanings, TableOf
<1>4. expr \in Parts(expr)
  BY <1>1, PartsAreClosed DEF Runnable, Lowerable
<1>5. meant = ValueOf(expr, world, expr)
  BY <1>1, <1>2, <1>3, <1>4, MeaningIsValue
<1> HIDE DEF meant
<1>6. CASE Missing(expr, world)
  <2>1. IsError(meant)
    BY <1>1, <1>2, <1>5, <1>6, FailureReachesTheRoot
  <2> QED BY <1>2, <1>6, <2>1 DEF IsError, Error
<1>7. CASE ~ Missing(expr, world)
  BY <1>2, <1>5, <1>7
<1> QED BY <1>6, <1>7

\* infer_type is sound: whatever tree the validators accept, however it is built
\* and in whatever state it runs, its value has the type they inferred, and it
\* fails only in the three ways they cannot rule out.
THEOREM InferenceIsSound == Spec => []TypesAreSound
BY ExprInvariance, SoundWhenRun, PTL

\* compile_expression keeps the meaning of every tree it lowers, in every state.
THEOREM LoweringKeepsMeaning == Spec => []MeaningIsKept
BY ExprInvariance, KeptWhenRun, PTL
=============================================================================
