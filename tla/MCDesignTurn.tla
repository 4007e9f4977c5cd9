------------------------------ MODULE MCDesignTurn ------------------------------
(* Instances of DesignTurn for TLC. *)
EXTENDS DesignTurn, TLC

CONSTANTS c1, c2, q1

\* The threads are interchangeable.  Where a liveness property rules out symmetry,
\* a request takes the first thread that is free.
ClientSymmetry == Permutations(Clients)

FirstFreeThread ==
    At(c2, "idle") /\ thread'[c2].pc # "idle" => ~At(c1, "idle")

================================================================================
