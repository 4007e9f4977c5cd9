------------------------------- MODULE MCBetting -------------------------------
\* Two equal stacks, which is how the plan starts, and uneven tables of three and four.
EXTENDS Betting, TLC

HeadsUpTable(n) == (0 :> n) @@ (1 :> n)
SomeTables ==
  {HeadsUpTable(1), HeadsUpTable(5),
   (0 :> 5) @@ (1 :> 2) @@ (2 :> 3),
   (0 :> 2) @@ (1 :> 6) @@ (2 :> 6),
   (0 :> 3) @@ (1 :> 1) @@ (2 :> 2) @@ (3 :> 3)}
=============================================================================
