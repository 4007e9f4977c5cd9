----------------------------- MODULE ContractCheck -----------------------------
(***************************************************************************)
(* The monitors of core/verify/contract_check.py, as one automaton that    *)
(* reads every accepted tool operation of a game (core/verify/trace.py)    *)
(* and judges it from the rule alone: check is what they remember and the  *)
(* alarms they have raised.  A rejected step is played on a copy by the    *)
(* policies and never gets into a trace.                                   *)
(***************************************************************************)
EXTENDS ComposedGame

VARIABLES
  check,     \* [total, outcome, pending, tops, moved, skips, inputs, alarms]
  recorded   \* the same, as of the last accepted step
checkVars == <<game, order, mode, zones, st, pc, fuel, backup, fault, check, recorded>>

RecentTops == 6   \* the window of _recent_top_zone

CheckInit ==
  /\ Init
  /\ check = [total |-> 0, outcome |-> "", pending |-> 0 - 1, tops |-> <<>>, moved |-> {},
              skips |-> FALSE, inputs |-> 0, alarms |-> {}]
  /\ recorded = check

-----------------------------------------------------------------------------
(* One observation: the operation at pc, between the state and the next *)

AllEffects == UNION {Range(Rule.actions[a].effects) : a \in DOMAIN Rule.actions}
EffectsOf(k) == {e \in AllEffects : e.kind = k}
Compares == OfKind(Rule.resolve, "compare")
Is(operation) == NodeAt.kind = "call" /\ NodeAt.op = operation
Args == Arguments(NodeAt.args, st, zones)
Gains == [s \in Seats(Rule) |-> st'.scores[2][s + 1] - st.scores[2][s + 1]]
OnlyTo(seat, points) == [s \in Seats(Rule) |-> IF s = seat THEN points ELSE 0]
ResultOf(field) == st'[NodeAt.result_key][2][field]

CardTotal(zs) == TotalOf(LAMBDA z : Len(zs[z]), SetToSeq(DOMAIN zs))
Conserved ==
  zones' # <<>> => OneHome' /\ (check.total # 0 => CardTotal(zones') = check.total)

\* The moves of the played action that this observation carries out.
PlayedEffects == Rule.actions[st.input[2].action[2][1]].effects
InstanceOf(z) == IF PlayerZone(Rule, z) THEN backup.st[ZoneKey(z)][2] ELSE <<z>>
MovesSeen ==
  {i \in DOMAIN PlayedEffects :
     /\ PlayedEffects[i].kind = "move"
     /\ LET e == PlayedEffects[i]
            s == CHOOSE s \in Range(OfKind(PlayedEffects, "select")) : s.result = e.selection
            expected == Range(st.input[2][s.input][2])
        IN /\ Range(zones[InstanceOf(e.from_zone)]) \ Range(zones'[InstanceOf(e.from_zone)]) = expected
           /\ Range(zones'[InstanceOf(e.to_zone)]) \ Range(zones[InstanceOf(e.to_zone)]) = expected}

Beats(c, d) == Face(c).value > Face(d).value
CompareMatches ==
  LET left == Args.left[2]
      right == Args.right[2]
      pile == zones[<<Compares[1].zone>>]
      expected == IF Beats(left, right) THEN "left" ELSE IF Beats(right, left) THEN "right" ELSE "tie"
  IN /\ Len(Compares) = 1 => left = pile[Compares[1].left + 1] /\ right = pile[Compares[1].right + 1]
     /\ ResultOf("outcome") = StrV(<<expected>>)

\* Every settlement is taken for the whole award of the last outcome.
SettledAsCompared ==
  LET points(side) == TotalOf(LAMBDA x : Rule.scoring[x].points,
                              SetToSeq({x \in Range(Compares[1].rules) : /\ Rule.scoring[x].on_outcome = check.outcome
                                                                         /\ Rule.scoring[x].recipient = side}))
      first == st.first_seat[2]
  IN /\ check.outcome # ""
     /\ \A s \in Seats(Rule) : Gains[s] = (IF s = first THEN points("left") ELSE 0)
                                         + (IF s = Rule.players - 1 - first THEN points("right") ELSE 0)

PairsFound ==
  LET size == (CHOOSE e \in EffectsOf("remove_pairs") : TRUE).group_size
      cards == Range(zones[Args.zone[2]])
      full == {k \in Range(Rule.ranks) : Cardinality({c \in cards : Face(c).rank = k}) >= size}
      ids == ResultOf("ids")[2]
      groups == ResultOf("groups")[2]
  IN /\ Args.max_group = IntV(size)
     /\ IsInjective(ids) /\ Range(FlattenSeq(groups)) = Range(ids)
     /\ {Face(Head(groups[i])).rank : i \in DOMAIN groups} = full
PairsPaid ==
  LET e == CHOOSE e \in EffectsOf("remove_pairs") : TRUE
  IN Gains = OnlyTo(st.current_player[2], e.points * (check.pending \div e.group_size))

\* The pile of the nearest top read among the last operations, if it is scored.
LastTop == LET read == SelectSeq(check.tops, LAMBDA z : z # "") IN IF read = <<>> THEN "" ELSE Last(read)
TopScored ==
  LET tops == {e \in EffectsOf("score_top") : e.zone = LastTop}
      Due(e) == LET c == Face(Last(zones[<<e.zone>>]))
                    key == IF e.by = "rank" THEN c.rank ELSE c.suit
                IN IF key \in DOMAIN e.points THEN e.points[key] ELSE 0
  IN tops # {} => /\ Args.winners = ListOf(st.current_player)
                  /\ Gains = OnlyTo(st.current_player[2], Args.points[2])
                  /\ Args.points[2] \in {Due(e) : e \in tops}

RefillKept ==
  LET e == CHOOSE e \in EffectsOf("refill") : TRUE
  IN zones' # <<>> => \A s \in Seats(Rule) : Len(zones'[<<e.to_zone \o "-", Num(s)>>]) <= e.target_count

Single1(k) == Cardinality(EffectsOf(k)) = 1
Raised ==
  {name \in {"card_conservation", "compare_outcome", "scoring", "pair_scoring", "suit_scoring", "refill"} :
     CASE name = "card_conservation" -> ~ Conserved
       [] name = "compare_outcome" -> Is("rank_compare.call") /\ ~ CompareMatches
       [] name = "scoring" -> Is("score_settle.call") /\ Len(Compares) = 1 /\ ~ SettledAsCompared
       [] name = "pair_scoring" ->
            Single1("remove_pairs") /\ \/ Is("zones.select_duplicates") /\ ~ PairsFound
                                       \/ Is("score_settle.call") /\ check.pending >= 0 /\ ~ PairsPaid
       [] name = "suit_scoring" -> Is("score_settle.call") /\ ~ TopScored
       [] name = "refill" -> Single1("refill") /\ ~ RefillKept}

TopOfCall == IF Is("zones.top") THEN Args.zone[2][1] ELSE ""
SkipCount(dict) == IF "skip_next" \in DOMAIN dict THEN dict.skip_next[2] ELSE 0
Observed ==
  [check EXCEPT
     !.total = IF @ = 0 /\ zones' # <<>> THEN CardTotal(zones') ELSE @,
     !.outcome = IF Is("rank_compare.call") THEN ResultOf("outcome")[2][1] ELSE @,
     !.pending = CASE Is("zones.select_duplicates") -> Len(ResultOf("ids")[2])
                   [] Is("score_settle.call") -> 0 - 1
                   [] OTHER -> @,
     !.tops = LET all == Append(@, TopOfCall)
              IN SubSeq(all, Max({1, Len(all) - RecentTops + 1}), Len(all)),
     !.moved = IF backup.mode = "waiting" THEN @ \cup MovesSeen ELSE @,
     !.skips = @ \/ SkipCount(st) # SkipCount(st'),
     !.alarms = @ \cup Raised]

-----------------------------------------------------------------------------
(* The end of a step, and of the game *)

UnseenMove ==
  backup.mode = "waiting" /\ \E i \in DOMAIN PlayedEffects : PlayedEffects[i].kind = "move" /\ i \notin check.moved

TerminalMet ==
  LET scores == st.scores[2]
      count == st.action_count[2]
      rounds == Max({st.round[2] - 1, count \div Rule.players})
  IN /\ Range(st.winners[2]) = {s \in Seats(Rule) : \A t \in Seats(Rule) : scores[t + 1] <= scores[s + 1]}
     /\ Rule.max_actor_actions # 0 => count <= Rule.max_actor_actions
     /\ Rule.max_rounds # 0 => rounds <= Rule.max_rounds
     /\ \/ Rule.score_reaches # 0 /\ \E s \in DOMAIN scores : scores[s] >= Rule.score_reaches
        \/ Rule.max_actor_actions # 0 /\ count = Rule.max_actor_actions
        \/ Rule.max_rounds # 0 /\ rounds = Rule.max_rounds

Closed ==
  [check EXCEPT
     !.alarms = @ \cup (IF UnseenMove THEN {"selection_move"} ELSE {})
                  \cup (IF mode' # "over" THEN {}
                        ELSE {name \in {"action_counting", "trigger_after_terminal", "terminal"} :
                                CASE name = "action_counting" -> st.action_count[2] # check.inputs
                                  [] name = "trigger_after_terminal" -> check.skips
                                  [] name = "terminal" -> ~ TerminalMet})]

CheckNext ==
  \/ Setup /\ UNCHANGED <<check, recorded>>
  \/ Play /\ check' = [check EXCEPT !.inputs = @ + 1, !.moved = {}, !.skips = FALSE] /\ UNCHANGED recorded
  \/ (Read \/ Write \/ MoveCall) /\ check' = Observed /\ UNCHANGED recorded
  \/ TakeBranch /\ UNCHANGED <<check, recorded>>
  \/ (WaitForInput \/ EndGame) /\ check' = Closed /\ recorded' = Closed
  \/ Abort /\ check' = recorded /\ UNCHANGED recorded
CheckSpec == CheckInit /\ [][CheckNext]_checkVars
FairCheckSpec == CheckSpec /\ WF_vars(Advance) /\ WF_vars(Setup) /\ SF_vars(HostStep)

-----------------------------------------------------------------------------
(* Properties *)

\* What a monitor does not allow for although the rule does: two rules on one
\* outcome; scores that another mechanism settles, which is judged as the award of
\* the compare, or of the pile that was read last; a skip in the action after which
\* the game ends with its round.
TwoRules == \E x, y \in Range(Compares[1].rules) : x # y /\ Rule.scoring[x].on_outcome = Rule.scoring[y].on_outcome
Settling == {k \in {"remove_pairs", "score_top"} : EffectsOf(k) # {}} \cup {e.kind : e \in Range(Compares)}
EndedWithTheRound == mode = "over" /\ st.turn_index[2] >= Rule.players
Overlooked ==
  {name \in {"scoring", "suit_scoring", "trigger_after_terminal"} :
     CASE name = "scoring" -> "compare" \in Settling /\ (TwoRules \/ Settling # {"compare"})
       [] name = "suit_scoring" -> "score_top" \in Settling /\ Settling # {"score_top"}
       [] name = "trigger_after_terminal" -> EndedWithTheRound}


(* Stated by SkipEffect ("a finished game never runs skip") and by the      *)
(* monitor _trigger_after_terminal: the action that ends a game sets no     *)
(* skip.                                                                    *)
FinishedGameSkipsNobody == mode = "over" => ~ check.skips

(* Stated by SkipEffect ("Skip the next seat once"): when a step has set a  *)
(* skip and the game goes on, the seat after the one that acted does not    *)
(* act next.                                                                *)
SkipIsServed ==
  [][WaitForInput /\ backup.mode = "waiting" /\ check.skips =>
       st.current_player[2] # (backup.st.current_player[2] + 1) % Rule.players]_checkVars
=============================================================================
