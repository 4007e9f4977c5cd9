------------------------------ MODULE PublishGate ------------------------------
(***************************************************************************)
(* What publication promises, without threads, drafts or revisions.  A     *)
(* user confirms rules in a design session of a game.  A version of a game *)
(* is taken once and for all, either by composed rules that passed the     *)
(* formal gate and that a user confirmed in a session of that game, or by  *)
(* a known-family plan of the legacy agent loop.                           *)
(***************************************************************************)
EXTENDS Integers

CONSTANTS Sessions, Games, GameOf, Rules, Composed, NoIR, LegacyPlans,
          PlanOf, Passing, NoArtifact, MaxBuild, MaxVersion

VARIABLES
    confirmed,  \* the <<session, rules>> pairs a user approved
    catalogue   \* catalogue[g][v]: what version v of game g holds

vars == <<confirmed, catalogue>>

Init ==
    /\ confirmed = {}
    /\ catalogue = [g \in Games |-> [v \in 1 .. MaxVersion |-> NoArtifact]]

Confirm(s, r) ==
    /\ confirmed' = confirmed \cup {<<s, r>>}
    /\ UNCHANGED catalogue

\* Version v of game g is free, and from now on it holds this artifact.
Take(g, v, artifact) ==
    /\ catalogue[g][v] = NoArtifact
    /\ catalogue' = [catalogue EXCEPT ![g][v] = artifact]
    /\ UNCHANGED confirmed

Publish(g, v, r, b) ==
    /\ \E s \in Sessions : GameOf[s] = g /\ <<s, r>> \in confirmed
    /\ <<r, b>> \in Passing
    /\ Take(g, v, [ir |-> r, plan |-> PlanOf[r][b], build |-> b])

RegisterLegacy(g, v, p, b) ==
    Take(g, v, [ir |-> NoIR, plan |-> p, build |-> b])

Next ==
    \/ \E s \in Sessions, r \in Rules : Confirm(s, r)
    \/ \E g \in Games, v \in 1 .. MaxVersion, b \in 1 .. MaxBuild :
         \/ \E r \in Composed : Publish(g, v, r, b)
         \/ \E p \in LegacyPlans : RegisterLegacy(g, v, p, b)

Spec == Init /\ [][Next]_vars

================================================================================
