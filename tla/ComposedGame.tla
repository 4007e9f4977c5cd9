------------------------------ MODULE ComposedGame ------------------------------
(***************************************************************************)
(* A composed game from its rules to its last step: the interpreter runs   *)
(* the plan the compiler makes of a rule, and what it has accepted at      *)
(* every wait is a step of the game the rule declares.                     *)
(***************************************************************************)
EXTENDS ComposedPlan

FacesOf == [g \in Games |-> PlanOf[g].faces]

Ints(v) == v[2]
TableOf(h) ==
  [status  |-> IF h.mode = "waiting" THEN "turn" ELSE "over",
   zones   |-> h.zones,
   scores  |-> Ints(h.st.scores),
   vars    |-> [x \in DOMAIN Rule.variables |-> h.st[VarKey(x)]],
   round   |-> h.st.round[2],
   first   |-> h.st.first_seat[2],
   index   |-> IF h.mode = "over" THEN 0 ELSE h.st.turn_index[2],
   count   |-> h.st.action_count[2],
   offered |-> IF h.mode = "over" THEN "" ELSE CHOOSE a \in DOMAIN Plan.nodes[h.pc].inputs : TRUE,
   winners |-> Range(Ints(h.st.winners))]

Declares == INSTANCE RuleGame WITH
  table <- IF Accepted.mode = "new"
           THEN [status |-> "new", zones |-> <<>>, scores |-> <<>>, vars |-> <<>>, round |-> 0, first |-> 0,
                 index |-> 0, count |-> 0, offered |-> "", winners |-> {}]
           ELSE TableOf(Accepted)

-----------------------------------------------------------------------------
(* The host's choice of inputs (core/actions.py, core/playtest.py) *)

\* The cards of an input's zone from one end, turned by an offset, as many as
\* may be taken; no choice when there are too few.
Window(input, newest, offset) ==
  LET cards == zones[ZoneOf(input)]
      line == IF newest THEN Reverse(cards) ELSE cards
      take == IF input.max_count < Len(line) THEN input.max_count ELSE Len(line)
  IN [i \in 1 .. take |-> line[1 + ((offset + i - 1) % Len(line))]]

Offered == CHOOSE a \in DOMAIN NodeAt.inputs : TRUE
Short(inputs) == {i \in DOMAIN inputs : Len(zones[ZoneOf(inputs[i])]) < inputs[i].min_count}
Candidates ==
  LET inputs == Plan.actions[Offered]
      most == Max({1} \cup {Len(zones[ZoneOf(inputs[i])]) : i \in DOMAIN inputs})
  IN IF Short(inputs) # {} THEN {}
     ELSE {[i \in DOMAIN inputs |-> Window(inputs[i], newest, offset)] : newest \in BOOLEAN, offset \in 0 .. most - 1}

\* What the rule makes of a choice at a wait.
Allowed(h, payload) == Declares!IsTable(Declares!Played(Rule, TableOf(h), payload))

\* The host's policies try a choice on a copy and play one that is accepted;
\* what refuses a choice is the selection an action starts with.
Selects(payload) ==
  LET node == Plan.nodes[NodeAt.inputs[Offered]]
  IN node.kind = "call" /\ node.op \in {"zones.select", "zones.select_matching"}
     => ~ IsError(Answer(node, WithInput(Offered, payload), zones))
HostStep == mode = "waiting" /\ \E payload \in Candidates : Selects(payload) /\ Step(Offered, payload)
FairSpec == Spec /\ WF_vars(Advance) /\ WF_vars(Setup) /\ SF_vars(HostStep)

-----------------------------------------------------------------------------
(* Properties *)

Unlimited == \A a \in Range(ActionSequence(Rule)) : Rule.actions[a].guard # NoExpr
Refused == mode = "running" /\ mode' = backup.mode /\ fault' # "none"
ChoiceOf(s) == [i \in DOMAIN s.input[2] \ {"action"} |-> s.input[2][i][2]]
(* A step or a setup is refused only for what the rule does not allow,      *)
(* never because the plan the compiler made cannot carry it out; a rule     *)
(* whose every action is guarded may use up the nodes of one advance.       *)
RefusalsAreDeserved ==
  [][Refused => \/ fault' = "flow_step_limit" /\ Unlimited
                \/ backup.mode = "waiting" /\ ~ Allowed(backup, ChoiceOf(st))]_vars

(* The plan implements the rule: what the interpreter accepts, seen from    *)
(* one wait to the next, are the steps of RuleGame; a rejection is none.    *)
RunsTheRule == Declares!GameSpec

(* What _check_compare_capacity counts on without checking it: every seat   *)
(* plays round_action in every round, nothing but its selections and        *)
(* resolve takes cards from a compared zone, and the cards dealt to that    *)
(* zone get there (the compiler gives all shared deals to the first one).   *)
CountedInFull(r) ==
  LET a == r.actions[r.round_action]
      compared == {e.zone : e \in Range(OfKind(r.resolve, "compare"))}
      drawn == Range(OfKind(a.effects, "draw")) \cup Range(OfKind(a.effects, "refill"))
      undealt == SubSeq(SharedDeals(r), 2, Len(SharedDeals(r)))
  IN /\ ActionSequence(r)[1] = r.round_action /\ a.guard = NoExpr /\ a.trigger = <<>>
     /\ compared \cap ({e.from_zone : e \in drawn} \cup {d.zone : d \in Range(undealt)} \cup {r.stock_zone}) = {}

Comparing == mode = "running" /\ NodeAt.kind = "call" /\ NodeAt.op = "rank_compare.call"
ComparedCardsPresent ==
  \A e \in Range(OfKind(Rule.resolve, "compare")) : Max({e.left, e.right}) < Len(zones[<<e.zone>>])
(* An accepted rule that is counted in full never comes to a resolve whose  *)
(* compared positions are empty, up to the last round of its budget and     *)
(* however much resolve clears away each round.                             *)
CapacityIsEnough == CountedInFull(Rule) /\ Comparing => ComparedCardsPresent

(* Stated by _check_compare_capacity ("the compared positions are filled at *)
(* every resolve"): of every accepted rule.                                 *)
ComparedPositionsFilled == Comparing => ComparedCardsPresent

Stuck == mode = "waiting" /\ ~ \E payload \in Candidates : Allowed(Held, payload)
(* A game whose host plays acceptable choices ends, or comes to a wait that *)
(* has none: no setup, refusal or round repeats for ever.                   *)
Ends == mode = "waiting" ~> (mode = "over" \/ Stuck)
=============================================================================
