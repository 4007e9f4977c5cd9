---------------------------- MODULE MCExpressions ----------------------------
(***************************************************************************)
(* Every expression over a small vocabulary, two operators deep, and some  *)
(* that are deeper.                                                        *)
(***************************************************************************)
EXTENDS ExpressionUse

MCTypes == [n |-> "integer", flag |-> "boolean"]
MCZones == {"pile"}

Leaves ==
  {Lit(IntV(n)) : n \in {0, 2, -3}} \cup {Lit(BoolV(TRUE)), Lit(StrV(<<"a">>)), Lit(NoneValue)}
  \cup {Ref(p) : p \in {<<"variables", "n">>, <<"variables", "flag">>, <<"variables", "gone">>,
                        <<"scores">>, <<"scores", "0">>, <<"scores", "7">>, <<"actor">>,
                        <<"input", "pick">>}}
  \cup {Lit(StrV(<<"$state", "scores">>)), ZoneCount("pile"), Top("pile", "value")}

Unary(S)  == {Node(o, <<e>>) : o \in {"not", "count"}, e \in S}
Pairs(S, T, ops) == {Node(o, <<a, b>>) : o \in ops, a \in S, b \in T}
Few == {Lit(IntV(0)), Ref(<<"variables", "n">>), Ref(<<"variables", "flag">>), Ref(<<"input", "pick">>)}
Shallow == Leaves \cup Unary(Leaves) \cup Pairs(Leaves, Leaves, Arithmetic \cup Comparisons \cup {"join"})
           \cup Pairs(Few, Few, Connectives)
Deep == Unary(Pairs(Few, Few, {"eq", "lt", "join", "all"}))
        \cup Pairs(Pairs(Few, Few, {"sub", "mod"}), Few, {"mod", "ge", "eq"})
        \cup Pairs(Few, Pairs(Few, Few, {"gt"}), {"all", "any"})
Deeper == Unary(Unary(Unary(Few)))
MCTrees == Shallow \cup Deep \cup Deeper

\* An integer variable may hold True: bool is an int to the validators.
World(n, flag, seat, inputs) ==
  [vars |-> [n |-> n, flag |-> flag], scores |-> <<3, 0>>, round |-> 1, actor |-> seat,
   action_count |-> 5, inputs |-> inputs]
Picked == [pick |-> <<"list", <<"c1">>>>]
Amount == [pick |-> IntV(2)]
MCWorlds == {World(IntV(2), BoolV(TRUE), 1, Picked), World(IntV(0), BoolV(FALSE), 0, Amount),
             World(BoolV(TRUE), BoolV(TRUE), 1, <<>>)}
=============================================================================
