-------------------------------- MODULE RuleGame --------------------------------
(***************************************************************************)
(* What a composed rule promises, without plan, nodes or state dictionary: *)
(* one step deals, one step plays an action of the acting seat, and what   *)
(* follows it (the end of the game, triggers, the next seats, the end of   *)
(* the round) is part of that step.  The meaning of every effect is the    *)
(* one core/rules/composed.py documents, in the order the compiler emits.  *)
(***************************************************************************)
EXTENDS ComposedRules

CONSTANTS
  RulesOf,       \* the rule of each game
  FacesOf,       \* the cards of its deck
  ShufflesOf
VARIABLES
  game,
  order,    \* the deck, top card of the deal first
  table     \* the game as it stands after the last accepted step
gameVars == <<game, order, table>>

\* A table that a step cannot produce.
Impossible == [status |-> "impossible"]
IsTable(t) == t.status # "impossible"

NewTable == [status |-> "new", zones |-> <<>>, scores |-> <<>>, vars |-> <<>>, round |-> 0, first |-> 0,
             index |-> 0, count |-> 0, offered |-> "", winners |-> {}]

-----------------------------------------------------------------------------
(* Reading a table *)

Actor(r, t) == (t.first + t.index) % r.players
Instance(r, z, seat) == IF PlayerZone(r, z) THEN <<z \o "-", ToString(seat)>> ELSE <<z>>
InZone(r, t, z) == t.zones[Instance(r, z, Actor(r, t))]
Put(r, t, z, cards) == [t EXCEPT !.zones[Instance(r, z, Actor(r, t))] = cards]
Award(t, seat, points) == [t EXCEPT !.scores[seat + 1] = @ + points]

RefsOf(r, t) ==
  [p \in {<<"variables", x>> : x \in DOMAIN r.variables} |-> t.vars[p[2]]]
  @@ [p \in {<<"scores", ToString(s)>> : s \in Seats(r)} |->
        IntV(t.scores[1 + CHOOSE s \in Seats(r) : ToString(s) = p[2]])]
  @@ (<<"scores">> :> ListV(t.scores)) @@ (<<"round">> :> IntV(t.round))
  @@ (<<"actor">> :> IntV(Actor(r, t))) @@ (<<"action_count">> :> IntV(t.count))
MeaningOf(r, t, e) ==
  Meaning(e, RefsOf(r, t), [z \in DOMAIN r.zones |-> InZone(r, t, z)], FacesOf[game])
Holds(r, t, e) == e = NoExpr \/ MeaningOf(r, t, e) = BoolV(TRUE)

-----------------------------------------------------------------------------
(* Effects.  The running value is the table and the selections made so far. *)

SelectionOk(r, t, e, ids, input) ==
  /\ IsInjective(ids) /\ Len(ids) \in input.min_count .. input.max_count
  /\ Range(ids) \subseteq Range(InZone(r, t, input.zone))
  /\ e.match_top # "" =>
       LET pile == InZone(r, t, e.match_top)
       IN pile # <<>> /\ \A c \in Range(ids) : Matches(FacesOf[game][c], FacesOf[game][Last(pile)])

MoveIds(r, t, from, to, ids) ==
  IF from = to \/ ~ Range(ids) \subseteq Range(InZone(r, t, from)) THEN Impossible
  ELSE LET left == Put(r, t, from, SelectSeq(InZone(r, t, from), LAMBDA c : c \notin Range(ids)))
       IN Put(r, left, to, InZone(r, left, to) \o ids)

\* The top n cards of a pile, the top one first.
FromTop(pile, n) == [i \in 1 .. n |-> pile[Len(pile) + 1 - i]]
Least(a, b) == IF a < b THEN a ELSE b
TakeFromTop(r, t, from, to, n) ==
  MoveIds(r, t, from, to, FromTop(InZone(r, t, from), Least(n, Len(InZone(r, t, from)))))

Pairs(r, t, e) ==
  LET face == FacesOf[game]
      OfRank(k) == {c \in Range(InZone(r, t, e.from_zone)) : face[c].rank = k}
      full == {k \in Range(r.ranks) : Cardinality(OfRank(k)) >= e.group_size}
      ByValue(j, k) == face[CHOOSE c \in OfRank(j) : TRUE].value < face[CHOOSE c \in OfRank(k) : TRUE].value
      InOrder(c, d) == face[c].place < face[d].place
      sorted == SetToSortSeq(full, ByValue)
  IN [i \in DOMAIN sorted |-> SubSeq(SetToSortSeq(OfRank(sorted[i]), InOrder), 1, e.group_size)]

Scored(r, t, e) ==
  LET top == FacesOf[game][Last(InZone(r, t, e.zone))]
      key == IF e.by = "rank" THEN top.rank ELSE top.suit
  IN IF key \in DOMAIN e.points THEN Award(t, Actor(r, t), e.points[key]) ELSE t

\* One effect of action a, given the chosen cards of each input.
Effect(r, a, payload, t, e) ==
  CASE e.kind = "select" ->
         IF SelectionOk(r, t, e, payload[e.input], r.actions[a].inputs[e.input]) THEN t ELSE Impossible
    [] e.kind = "move" ->
         LET s == CHOOSE s \in Range(OfKind(r.actions[a].effects, "select")) : s.result = e.selection
         IN MoveIds(r, t, e.from_zone, e.to_zone, payload[s.input])
    [] e.kind = "remove_pairs" ->
         LET groups == Pairs(r, t, e)
             moved == MoveIds(r, t, e.from_zone, e.to_zone, FlattenSeq(groups))
         IN IF IsTable(moved) THEN Award(moved, Actor(r, t), e.points * Len(groups)) ELSE moved
    [] e.kind = "refill" ->
         TakeFromTop(r, t, e.from_zone, e.to_zone,
                     Max({0, e.target_count - Len(InZone(r, t, e.to_zone))}))
    [] e.kind = "draw" -> TakeFromTop(r, t, e.from_zone, e.to_zone, e.count)
    [] e.kind = "score_top" -> IF InZone(r, t, e.zone) = <<>> THEN Impossible ELSE Scored(r, t, e)
    [] e.kind = "assign" ->
         LET v == MeaningOf(r, t, e.value)
         IN IF IsError(v) THEN Impossible ELSE [t EXCEPT !.vars[e.variable] = v]

\* At the end of a round: positions are compared, piles are cleared.
Compared(r, t, e) ==
  LET pile == t.zones[<<e.zone>>]
      Strength(p) == FacesOf[game][pile[p + 1]].value
      outcome == IF Strength(e.left) = Strength(e.right) THEN "tie"
                 ELSE IF Strength(e.left) > Strength(e.right) THEN "left" ELSE "right"
      Seat(rule) == IF rule.recipient = "left" THEN t.first ELSE r.players - 1 - t.first
      awarded == SelectSeq(e.rules, LAMBDA x : r.scoring[x].on_outcome = outcome)
  IN IF Max({e.left, e.right}) >= Len(pile) THEN Impossible
     ELSE FoldLeft(LAMBDA u, x : Award(u, Seat(r.scoring[x]), r.scoring[x].points), t, awarded)
Flushed(r, t, e) ==
  IF Len(t.zones[<<e.from_zone>>]) < e.count THEN Impossible
  ELSE TakeFromTop(r, t, e.from_zone, e.to_zone, e.count)

Through(Apply1(_, _), t, effects) ==
  FoldLeft(LAMBDA u, e : IF IsTable(u) THEN Apply1(u, e) ELSE u, t, effects)
AfterEffects(r, a, payload, t) == Through(LAMBDA u, e : Effect(r, a, payload, u, e), t, r.actions[a].effects)
AfterResolve(r, t) ==
  Through(LAMBDA u, e : IF e.kind = "compare" THEN Compared(r, u, e) ELSE Flushed(r, u, e), t, r.resolve)

-----------------------------------------------------------------------------
(* The course of a game *)

Decided(r, t, budget) ==
  \/ r.score_reaches # 0 /\ \E s \in DOMAIN t.scores : t.scores[s] >= r.score_reaches
  \/ budget /\ r.max_actor_actions # 0 /\ t.count >= r.max_actor_actions
Over(t) ==
  [t EXCEPT !.status = "over", !.offered = "", !.index = 0,
            !.winners = {s - 1 : s \in {x \in DOMAIN t.scores : \A y \in DOMAIN t.scores : t.scores[y] <= t.scores[x]}}]

FirstSeat(r, round) == IF r.start_seat = "round_parity" THEN (round - 1) % r.players ELSE 0
RoundStart(r, t, round) == [t EXCEPT !.round = round, !.first = FirstSeat(r, round), !.index = 0]

\* The first candidate whose guard holds is offered; a seat without one is passed.
RECURSIVE Offer(_, _), NextSeat(_, _, _)
Offer(r, t) ==
  LET seq == ActionSequence(r)
      open == {i \in DOMAIN seq : Holds(r, t, r.actions[seq[i]].guard)}
  IN IF open = {} THEN NextSeat(r, t, 0) ELSE [t EXCEPT !.status = "turn", !.offered = seq[Min(open)]]
NextSeat(r, t, skipped) ==
  LET index == t.index + 1 + skipped
      resolved == AfterResolve(r, t)
  IN CASE index < r.players -> Offer(r, [t EXCEPT !.index = index])
       [] ~ IsTable(resolved) -> Impossible
       [] Decided(r, resolved, TRUE) -> Over(resolved)
       [] r.max_rounds # 0 /\ t.round + 1 > r.max_rounds -> Over([resolved EXCEPT !.round = @ + 1])
       [] OTHER -> Offer(r, RoundStart(r, resolved, t.round + 1))

\* The last skip whose condition holds counts; it never outlives the round.
Skipped(r, a, t) ==
  LET met == SelectSeq(r.actions[a].trigger, LAMBDA e : Holds(r, t, e.condition))
  IN IF met = <<>> THEN 0 ELSE Last(met).count

Dealt(r) ==
  LET each == HandDeals(r)[1].count
      hands == each * r.players
      kitty == TotalOf(LAMBDA d : d.count, SharedDeals(r))
      Given(z, seat) ==
        CASE z = HandDeals(r)[1].zone -> SubSeq(order, seat * each + 1, (seat + 1) * each)
          [] z = r.stock_zone -> SubSeq(order, hands + kitty + 1, Len(order))
          [] SharedDeals(r) # <<>> /\ z = SharedDeals(r)[1].zone -> SubSeq(order, hands + 1, hands + kitty)
          [] OTHER -> <<>>
      ids == (DOMAIN r.zones) \X Seats(r)
      Of(id) == CHOOSE p \in ids : Instance(r, p[1], p[2]) = id
  IN [NewTable EXCEPT
        !.zones = [id \in {Instance(r, p[1], p[2]) : p \in ids} |-> Given(Of(id)[1], Of(id)[2])],
        !.scores = [s \in 1 .. r.players |-> 0],
        !.vars = [x \in DOMAIN r.variables |-> r.variables[x].initial]]

Start(r) == Offer(r, RoundStart(r, Dealt(r), 1))

\* The table after the acting seat has played, or Impossible.
Played(r, t, payload) ==
  LET a == t.offered
      acted == AfterEffects(r, a, payload, t)
      counted == [acted EXCEPT !.count = @ + 1]
  IN IF ~ IsTable(acted) THEN acted
     ELSE IF Decided(r, counted, ~ HasCompare(r)) THEN Over(counted)
     ELSE NextSeat(r, counted, Skipped(r, a, counted))

-----------------------------------------------------------------------------
Payloads(r, a) ==
  LET cards == DOMAIN FacesOf[game]
      inputs == r.actions[a].inputs
  IN [DOMAIN inputs -> UNION {[1 .. n -> cards] : n \in UNION {inputs[i].min_count .. inputs[i].max_count : i \in DOMAIN inputs}}]

GameInit ==
  /\ game \in DOMAIN RulesOf
  /\ order \in ShufflesOf[game]
  /\ table = NewTable
GameNext ==
  /\ UNCHANGED <<game, order>>
  /\ IsTable(table')
  /\ LET r == RulesOf[game]
     IN \/ table.status = "new" /\ table' = Start(r)
        \/ table.status = "turn" /\ \E payload \in Payloads(r, table.offered) : table' = Played(r, table, payload)
GameSpec == GameInit /\ [][GameNext]_gameVars
=============================================================================
