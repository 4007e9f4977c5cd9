------------------------------ MODULE MCDesignRetry ------------------------------
(* Instances of DesignRetry for TLC. *)
EXTENDS DesignRetry, TLC

CONSTANTS a, b, c, good, broken

TheIds == {a, b, c}
TheRules == {good, broken}

\* Ids are interchangeable, and so are threads.
Interchangeable == Permutations(Ids) \cup Permutations(Threads)
================================================================================
