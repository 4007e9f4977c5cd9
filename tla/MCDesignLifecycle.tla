--------------------------- MODULE MCDesignLifecycle ---------------------------
(* Instances of DesignLifecycle for TLC. *)
EXTENDS DesignLifecycle, TLC

CONSTANTS c1, c2, s1, s2, g1, A, B, p1, p2, p3, x

MCGameOf == [s \in Sessions |-> g1]

\* A and B differ in a text that does not reach the plan: build 1 compiles both
\* to p1.  Build 2 compiles A to p2 and refuses to compile B.
MCPlanOf ==
    [r \in Rules |-> [b \in Builds |-> IF b = 1 THEN p1
                                       ELSE IF r = A THEN p2 ELSE NoPlan]]

\* Everything that compiles passes the gate, except B under build 1.
MCPassing == {pass \in {<<A, 1>>, <<B, 1>>, <<A, 2>>} : pass[2] <= MaxBuild}

\* A has the requirement clause x, which B lacks.
MCClausesOf == A :> {x} @@ B :> {}

\* The threads are interchangeable, and so are the sessions of the one game.
ClientSymmetry == Permutations(Clients)
ClientSessionSymmetry == Permutations(Clients) \cup Permutations(Sessions)

\* Only the calls that a registration depends on, made at the current revision:
\* the others move neither rules nor evidence any closer to the catalogue.
RegistrationCalls ==
    /\ \A c \in Clients :
          /\ thread'[c].pc \notin {"annotate", "diagnose", "compose", "give_up",
                                   "finalize", "verify_read"}
          /\ thread'[c].pc \in {"confirm", "publish_find"} =>
                  thread'[c].exp = design[thread'[c].sid].rev
    /\ \A s \in Sessions :
          design'[s].rev # design[s].rev =>
              /\ design'[s].status # "diagnosed"
              /\ thread' # thread \/ design'[s].ir # design[s].ir

\* Bound: the accepted writes of all sessions together, so that one session may
\* live long enough to publish twice, or two may publish the same rules.
MaxWrites == 7

FewWrites ==
    design[s1].rev + design[s2].rev <= MaxWrites

================================================================================
