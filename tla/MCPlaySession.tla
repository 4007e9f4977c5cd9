----------------------------- MODULE MCPlaySession -----------------------------
(* Instances of PlaySession for TLC. *)
EXTENDS PlaySession

CONSTANTS t1, t2, x

\* One tab at a time resumes, refreshes or recovers from a conflict.  A sync only
\* reads the log, so two syncs do not affect each other.
OneSync ==
    \A t, u \in Tabs : t = u \/ tab[t].job = "none" \/ tab[u].job = "none"

================================================================================
