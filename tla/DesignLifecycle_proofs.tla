------------------------ MODULE DesignLifecycle_proofs -------------------------
(***************************************************************************)
(* Proofs about DesignLifecycle, for any number of threads, sessions,      *)
(* games, rules and builds.                                                *)
(*                                                                         *)
(* The inductive invariant Inv says of every thread what it may rely on    *)
(* between the read it started from and the operation it performs next:    *)
(* the shape of what it carries, that the rules it publishes were          *)
(* confirmed, and that if the session is still at the revision it read,    *)
(* then the session still is what it read.  Every step is then either a    *)
(* move of one thread to another such state (Quiet), a commit, or one of   *)
(* the few writes to the other tables.                                     *)
(***************************************************************************)
EXTENDS DesignLifecycle, TLAPS

Publishing == {"publish_find", "publish_version", "publish_gate",
               "publish_register", "publish_commit"}

Legacy == {"legacy_record", "legacy_register"}

\* What a thread carries is defined where its next operation needs it.
Shape(t) ==
    /\ t.pc \notin {"idle"} \cup Legacy =>
           t.sid \in Sessions /\ t.game = GameOf[t.sid]
    /\ t.pc \in {"rewrite", "confirm"} \cup Publishing => t.ir \in Rules
    /\ t.pc \in {"verify", "publish_register", "publish_commit"} \cup Legacy =>
           t.cred \in Credential
    /\ t.pc \in {"publish_gate", "publish_register", "publish_commit"} \cup Legacy =>
           t.version \in Versions
    /\ t.pc \in Legacy => /\ t.game \in Games
                        /\ t.cred.ir = NoIR
                        /\ t.cred.plan \in LegacyPlans

\* A credential for rules that passed the gate and compile to its plan.
Sound(cred) ==
    cred.ir # NoIR => Ok(cred) /\ cred.plan = PlanOf[cred.ir][cred.build]

\* A thread that publishes does so on a user's confirmation.
Authorised(t) ==
    /\ t.pc \in Publishing =>
           t.ir \in Composed /\ <<t.sid, t.ir>> \in confirmed
    /\ t.pc = "publish_register" => t.cred.ir = t.ir

\* At the revision it read, the session still is what the thread read.
Current(t) ==
    t.pc \notin {"idle"} \cup Legacy =>
        /\ t.exp <= design[t.sid].rev
        /\ t.exp = design[t.sid].rev =>
             /\ t.pc = "verify" => t.cred.ir = design[t.sid].ir
             /\ t.pc = "confirm" => t.ir = design[t.sid].ir /\ Binds(t.sid)
             /\ t.pc \in Publishing => t.ir = design[t.sid].ir

ThreadInv(t) == t \in Thread /\ Shape(t) /\ Authorised(t) /\ Current(t)

ConfirmationsRecorded ==
    \A s \in Sessions :
        design[s].conf # NoEvidence => <<s, design[s].conf>> \in confirmed

CredentialsSound == \A cred \in credentials : Sound(cred)

Inv ==
    /\ TypeOK
    /\ \A c \in Clients : ThreadInv(thread[c])
    /\ ConfirmationsRecorded
    /\ CredentialsSound
    /\ RegisteredWasConfirmed
    /\ RegisteredHasCredential


--------------------------------------------------------------------------------
(* Facts about what threads carry *)

\* Every version is one that a thread may carry.
LEMMA VersionsBounded == Versions \subseteq 0 .. MaxVersion
BY BoundsAssumption DEF Versions

\* A thread at rest satisfies every thread invariant.
LEMMA AtRestInv == ThreadInv(AtRest)
<1>1. AtRest \in Thread
  BY BoundsAssumption DEF AtRest, Thread, Points
<1>2. Shape(AtRest) /\ Authorised(AtRest) /\ Current(AtRest)
  BY DEF AtRest, Shape, Authorised, Current, Legacy, Publishing
<1>3. QED
  BY <1>1, <1>2 DEF ThreadInv

\* What a read of session s leaves in the thread, by field.
LEMMA CarryType ==
    ASSUME TypeOK, NEW s \in Sessions, NEW r \in Rules \cup {NoIR},
           NEW pc \in Points
    PROVE  /\ Carry(s, pc, r) \in Thread
           /\ design[s].rev \in Nat
<1>1. GameOf[s] \in Games
  BY GameAssumption
<1>2. design[s].rev \in Nat
  BY DEF TypeOK, Design
<1>3. QED
  BY <1>1, <1>2, BoundsAssumption DEF Carry, Thread, Points

\* A read of session s, for an operation that needs nothing but the session.
LEMMA CarryInv ==
    ASSUME TypeOK, NEW s \in Sessions, NEW r \in Rules \cup {NoIR},
           NEW pc \in {"rewrite", "annotate", "diagnose", "compose", "give_up",
                       "finalize", "verify_read"},
           pc = "rewrite" => r \in Rules
    PROVE  ThreadInv(Carry(s, pc, r))
<1>1. Carry(s, pc, r) \in Thread /\ design[s].rev \in Nat
  BY CarryType DEF Points
<1>2. Shape(Carry(s, pc, r)) /\ Authorised(Carry(s, pc, r))
  BY DEF Carry, Shape, Authorised, Legacy, Publishing
<1>3. Current(Carry(s, pc, r))
  BY <1>1 DEF Carry, Current, Legacy, Publishing
<1>4. QED
  BY <1>1, <1>2, <1>3 DEF ThreadInv

\* What this build's gate issues for rules that compile.
LEMMA VerifiedSound ==
    ASSUME TypeOK, NEW r \in Rules, Compiles(r)
    PROVE  /\ Verified(r) \in Credential
           /\ Verified(r).ir = r
           /\ Ok(Verified(r)) => Sound(Verified(r))
BY GateAssumption
DEF TypeOK, Compiles, Compiled, Verified, Credential, Sound, Ok

--------------------------------------------------------------------------------
(* Quiet steps: one thread moves on, and no table changes *)

Quiet(c) ==
    /\ \E t : ThreadInv(t) /\ Goes(c, t)
    /\ UNCHANGED <<design, credentials, artifacts, build, confirmed, fresh>>

\* The gate reads a session and leaves a verdict about the rules it read.
LEMMA RunGateQuiet ==
    ASSUME Inv, NEW c \in Clients, NEW s \in Sessions, RunGate(c, s)
    PROVE  Quiet(c)
<1> DEFINE r == design[s].ir
           t == [Carry(s, "verify", r) EXCEPT !.cred = Verified(r)]
<1>1. TypeOK /\ r \in Rules
  BY DEF Inv, TypeOK, Design, RunGate
<1>2. CASE Compiles(r)
  <2>1. Verified(r) \in Credential /\ Verified(r).ir = r
    BY <1>1, <1>2, VerifiedSound
  <2>2. Carry(s, "verify", r) \in Thread /\ design[s].rev \in Nat
    BY <1>1, CarryType DEF Points
  <2>3. t = [pc |-> "verify", sid |-> s, game |-> GameOf[s], ir |-> r,
             cred |-> Verified(r), exp |-> design[s].rev, version |-> 0]
    BY DEF Carry
  <2>4. t \in Thread
    BY <2>1, <2>2 DEF Thread
  <2> HIDE DEF t
  <2>5. Shape(t) /\ Authorised(t)
    BY <2>1, <2>3 DEF Shape, Authorised, Legacy, Publishing
  <2>6. Current(t)
    BY <2>1, <2>2, <2>3 DEF Current, Legacy, Publishing
  <2>7. ThreadInv(t)
    BY <2>4, <2>5, <2>6 DEF ThreadInv
  <2>8. Goes(c, t)
    BY <1>2 DEF RunGate, t
  <2>9. QED
    BY <2>7, <2>8 DEF RunGate, Quiet
<1>3. CASE ~Compiles(r)
  BY <1>1, <1>3, CarryInv DEF RunGate, Quiet
<1>4. QED
  BY <1>2, <1>3

LEMMA ToolsQuiet ==
    ASSUME Inv, NEW c \in Clients, NEW s \in Sessions, Tool(c, s)
    PROVE  Quiet(c)
<1>0. TypeOK /\ design[s] \in Design
  BY DEF Inv, TypeOK
<1>1. ASSUME NEW r \in Rules, ReadPropose(c, s, r)
      PROVE  Quiet(c)
  BY <1>0, <1>1, CarryInv DEF ReadPropose, Quiet
<1>2. ASSUME NEW r \in Rules, NEW allowed, ReadPatch(c, s, r, allowed)
      PROVE  Quiet(c)
  BY <1>0, <1>2, CarryInv DEF ReadPatch, Quiet
<1>3. CASE ReadAnnotate(c, s)
  BY <1>0, <1>3, CarryInv DEF ReadAnnotate, Quiet
<1>4. CASE ReadDiagnose(c, s)
  BY <1>0, <1>4, CarryInv DEF ReadDiagnose, Quiet
<1>5. CASE ReadCompose(c, s)
  BY <1>0, <1>5, CarryInv DEF ReadCompose, Quiet
<1>6. CASE ReadGiveUp(c, s)
  BY <1>0, <1>6, CarryInv DEF ReadGiveUp, Quiet
<1>7. CASE ReadFinalize(c, s)
  BY <1>0, <1>7, CarryInv DEF ReadFinalize, Quiet
<1>8. CASE ReadVerify(c, s)
  BY <1>8, RunGateQuiet DEF ReadVerify
<1>9. QED
  BY <1>1, <1>2, <1>3, <1>4, <1>5, <1>6, <1>7, <1>8 DEF Tool

\* The client's expected revision is one that the session has had.
LEMMA ExpectedBounded ==
    ASSUME TypeOK, NEW s \in Sessions, NEW want \in Wants(s)
    PROVE  /\ Expected(s, want) \in Nat
           /\ Expected(s, want) <= design[s].rev
BY DEF TypeOK, Design, Wants, Expected

LEMMA RequestsQuiet ==
    ASSUME Inv, NEW c \in Clients, NEW s \in Sessions, Request(c, s)
    PROVE  Quiet(c)
<1>0. TypeOK /\ design[s] \in Design
  BY DEF Inv, TypeOK
<1>1. PICK want \in Wants(s) :
        \/ RequestVerify(c, s, want)
        \/ \E r \in Rules : ReadConfirm(c, s, r, want)
        \/ \E v \in 0 .. MaxVersion : ReadPublish(c, s, v, want)
  BY DEF Request
<1>2. CASE RequestVerify(c, s, want)
  BY <1>0, <1>2, CarryInv DEF RequestVerify, Quiet
<1>3. ASSUME NEW r \in Rules, ReadConfirm(c, s, r, want)
      PROVE  Quiet(c)
  <2> DEFINE t == [Carry(s, "confirm", r) EXCEPT !.exp = Expected(s, want)]
  <2>1. Carry(s, "confirm", r) \in Thread
    BY <1>0, CarryType DEF Points
  <2>2. Expected(s, want) \in Nat /\ Expected(s, want) <= design[s].rev
    BY <1>0, ExpectedBounded
  <2>3. t = [pc |-> "confirm", sid |-> s, game |-> GameOf[s], ir |-> r,
             cred |-> NoEvidence, exp |-> Expected(s, want), version |-> 0]
    BY DEF Carry
  <2>4. t \in Thread
    BY <2>1, <2>2 DEF Thread
  <2> HIDE DEF t
  <2>5. Shape(t) /\ Authorised(t)
    BY <2>3 DEF Shape, Authorised, Legacy, Publishing
  <2>6. design[s].ir = r /\ Binds(s)
    BY <1>3 DEF ReadConfirm
  <2>7. Current(t)
    BY <2>2, <2>3, <2>6 DEF Current, Legacy, Publishing
  <2>8. ThreadInv(t)
    BY <2>4, <2>5, <2>7 DEF ThreadInv
  <2>9. QED
    BY <1>3, <2>8 DEF ReadConfirm, Quiet, t
<1>4. ASSUME NEW v \in 0 .. MaxVersion, ReadPublish(c, s, v, want)
      PROVE  Quiet(c)
  <2> DEFINE r == design[s].ir
             t == [Carry(s, "publish_find", r)
                      EXCEPT !.exp = Expected(s, want), !.version = v]
  <2>1. r \in Composed /\ r \in Rules /\ design[s].conf = r
    BY <1>4, RulesAssumption DEF ReadPublish, MayPublish
  <2>2. Carry(s, "publish_find", r) \in Thread
    BY <1>0, <2>1, CarryType DEF Points
  <2>3. Expected(s, want) \in Nat /\ Expected(s, want) <= design[s].rev
    BY <1>0, ExpectedBounded
  <2>4. LET k == Carry(s, "publish_find", r)
        IN  /\ t.pc = k.pc /\ t.sid = k.sid /\ t.game = k.game /\ t.ir = k.ir
            /\ t.exp = Expected(s, want) /\ t.version = v
            /\ t \in Thread
    BY <2>2, <2>3 DEF Thread
  <2>5. t.pc = "publish_find" /\ t.sid = s /\ t.game = GameOf[s] /\ t.ir = r
    BY <2>4 DEF Carry
  <2>6. t.exp = Expected(s, want) /\ t.version = v /\ t \in Thread
    BY <2>4
  <2> HIDE DEF t, r
  <2>7. r # NoEvidence
    BY <2>1, SentinelAssumption
  <2>8. <<s, r>> \in confirmed
    BY <2>1, <2>7 DEF Inv, r, ConfirmationsRecorded
  <2>9. Shape(t) /\ Authorised(t)
    BY <2>1, <2>5, <2>6, <2>8 DEF Shape, Authorised, Legacy, Publishing
  <2>10. Current(t)
    BY <2>3, <2>5, <2>6 DEF r, Current, Legacy, Publishing
  <2>11. ThreadInv(t)
    BY <2>6, <2>9, <2>10 DEF ThreadInv
  <2>12. QED
    BY <1>4, <2>11 DEF ReadPublish, Quiet, t, r
<1>5. QED
  BY <1>1, <1>2, <1>3, <1>4

\* The steps of a publication that write no table.
LEMMA PublicationQuiet ==
    ASSUME Inv, NEW c \in Clients,
           PublishReuse(c) \/ PublishNew(c) \/ PublishVersion(c)
              \/ PublishGateFails(c)
    PROVE  Quiet(c)
<1> DEFINE t == thread[c]
<1>0. TypeOK /\ ThreadInv(t) /\ t \in Thread
  BY DEF Inv, TypeOK, ThreadInv
<1> HIDE DEF t
<1>1. CASE PublishReuse(c)
  <2>1. PICK v \in Versions :
          /\ HoldsRules(t.game, v, t.ir)
          /\ Goes(c, [t EXCEPT !.pc = "publish_commit", !.version = v,
                               !.cred = artifacts[t.game][v]])
    BY <1>1 DEF PublishReuse, t
  <2> DEFINE u == [t EXCEPT !.pc = "publish_commit", !.version = v,
                            !.cred = artifacts[t.game][v]]
  <2>2. t.pc = "publish_find"
    BY <1>1 DEF PublishReuse, t
  <2>3. t.sid \in Sessions /\ t.game \in Games
    BY <1>0, <2>2, GameAssumption DEF ThreadInv, Shape, Legacy, Publishing
  <2>4. artifacts[t.game][v] \in Credential
    BY <1>0, <2>1, <2>3 DEF TypeOK, HoldsRules
  <2>5. u \in Thread
    BY <1>0, <2>4, VersionsBounded DEF Thread, Points
  <2>6. /\ u.pc = "publish_commit" /\ u.sid = t.sid /\ u.game = t.game
        /\ u.ir = t.ir /\ u.cred = artifacts[t.game][v] /\ u.exp = t.exp
        /\ u.version = v
    BY <1>0 DEF Thread
  <2> HIDE DEF u
  <2>7. Shape(u) /\ Authorised(u) /\ Current(u)
    BY <1>0, <2>2, <2>4, <2>6
    DEF ThreadInv, Shape, Authorised, Current, Legacy, Publishing
  <2>8. ThreadInv(u)
    BY <2>5, <2>7 DEF ThreadInv
  <2>9. QED
    BY <1>1, <2>1, <2>8 DEF PublishReuse, Quiet, u
<1>2. CASE PublishNew(c)
  <2> DEFINE pc == IF t.version = 0 THEN "publish_version" ELSE "publish_gate"
             u == [t EXCEPT !.pc = pc]
  <2>1. t.pc = "publish_find"
    BY <1>2 DEF PublishNew, t
  <2>2. /\ u.pc = pc /\ u.sid = t.sid /\ u.game = t.game /\ u.ir = t.ir
        /\ u.cred = t.cred /\ u.exp = t.exp /\ u.version = t.version
        /\ u \in Thread
    BY <1>0 DEF Thread, Points
  <2>3. t.version \in 0 .. MaxVersion
    BY <1>0 DEF Thread
  <2>4. Goes(c, u)
    BY <1>2 DEF PublishNew, t
  <2> HIDE DEF u
  <2>5. Shape(u)
    BY <1>0, <2>1, <2>2, <2>3, BoundsAssumption
    DEF ThreadInv, Shape, Legacy, Publishing, Versions
  <2>6. Authorised(u) /\ Current(u)
    BY <1>0, <2>1, <2>2 DEF ThreadInv, Authorised, Current, Legacy, Publishing
  <2>7. ThreadInv(u)
    BY <2>2, <2>5, <2>6 DEF ThreadInv
  <2>8. QED
    BY <1>2, <2>4, <2>7 DEF PublishNew, Quiet
<1>3. CASE PublishVersion(c)
  <2>1. PICK v \in Versions :
          Goes(c, [t EXCEPT !.pc = "publish_gate", !.version = v])
    BY <1>3 DEF PublishVersion, t
  <2> DEFINE u == [t EXCEPT !.pc = "publish_gate", !.version = v]
  <2>2. t.pc = "publish_version"
    BY <1>3 DEF PublishVersion, t
  <2>3. /\ u.pc = "publish_gate" /\ u.sid = t.sid /\ u.game = t.game
        /\ u.ir = t.ir /\ u.cred = t.cred /\ u.exp = t.exp /\ u.version = v
        /\ u \in Thread
    BY <1>0, VersionsBounded DEF Thread, Points
  <2> HIDE DEF u
  <2>4. Shape(u) /\ Authorised(u) /\ Current(u)
    BY <1>0, <2>2, <2>3
    DEF ThreadInv, Shape, Authorised, Current, Legacy, Publishing
  <2>5. ThreadInv(u)
    BY <2>3, <2>4 DEF ThreadInv
  <2>6. QED
    BY <1>3, <2>1, <2>5 DEF PublishVersion, Quiet, u
<1>4. CASE PublishGateFails(c)
  BY <1>4, AtRestInv DEF PublishGateFails, Quiet
<1>5. QED
  BY <1>1, <1>2, <1>3, <1>4

\* The legacy loop verifies a plan of its own: the thread holds its credential.
LEMMA LegacyQuiet ==
    ASSUME Inv, NEW c \in Clients, NEW g \in Games, NEW p \in LegacyPlans,
           ReadLegacy(c, g, p)
    PROVE  Quiet(c)
<1>0. TypeOK
  BY DEF Inv
<1>1. PICK v \in Versions :
        Goes(c, [pc |-> "legacy_record", sid |-> NoEvidence, game |-> g,
                 ir |-> NoIR, exp |-> 0, version |-> v,
                 cred |-> [ir |-> NoIR, plan |-> p, build |-> build]])
  BY DEF ReadLegacy
<1> DEFINE cred == [ir |-> NoIR, plan |-> p, build |-> build]
           t == [pc |-> "legacy_record", sid |-> NoEvidence, game |-> g,
                 ir |-> NoIR, exp |-> 0, version |-> v, cred |-> cred]
<1>2. cred \in Credential /\ cred.ir = NoIR /\ cred.plan = p
  BY <1>0, GateAssumption DEF TypeOK, Credential
<1> HIDE DEF cred
<1>3. t \in Thread
  BY <1>2 DEF Thread, Points, Versions
<1>4. Shape(t) /\ Authorised(t) /\ Current(t)
  BY <1>2 DEF Shape, Authorised, Current, Legacy, Publishing
<1>5. ThreadInv(t)
  BY <1>3, <1>4 DEF ThreadInv
<1>6. QED
  BY <1>1, <1>5 DEF ReadLegacy, Quiet, cred

--------------------------------------------------------------------------------
(* Steps *)

\* Sessions move on or stay, and confirmations accumulate.
Forward ==
    /\ confirmed \subseteq confirmed'
    /\ \A s \in Sessions :
          design'[s] = design[s] \/ design[s].rev < design'[s].rev

\* What holds of a waiting thread survives the steps of the others.
LEMMA ThreadKept ==
    ASSUME TypeOK, TypeOK', Forward, NEW t, ThreadInv(t)
    PROVE  ThreadInv(t)'
<1>1. t \in Thread /\ Shape(t) /\ Authorised(t) /\ Current(t)
  BY DEF ThreadInv
<1>2. Shape(t)' /\ Authorised(t)'
  BY <1>1 DEF Shape, Authorised, Forward
<1>3. Current(t)'
  <2> SUFFICES ASSUME t.pc \notin {"idle"} \cup Legacy
               PROVE  Current(t)'
    BY DEF Current
  <2>1. t.sid \in Sessions /\ t.exp \in Nat
    BY <1>1 DEF Shape, Thread
  <2>2. design[t.sid].rev \in Nat /\ design'[t.sid].rev \in Nat
    BY <2>1 DEF TypeOK, Design
  <2>3. CASE design'[t.sid] = design[t.sid]
    BY <1>1, <2>3 DEF Current, Binds, Ok
  <2>4. CASE design[t.sid].rev < design'[t.sid].rev
    BY <1>1, <2>1, <2>2, <2>4 DEF Current
  <2>5. QED
    BY <2>1, <2>3, <2>4 DEF Forward
<1>4. QED
  BY <1>1, <1>2, <1>3 DEF ThreadInv

\* Every thread after a step that moves at most thread c.
LEMMA ThreadsKept ==
    ASSUME Inv, TypeOK', Forward, NEW c \in Clients, NEW t, Goes(c, t),
           ThreadInv(t)'
    PROVE  \A d \in Clients : ThreadInv(thread[d])'
<1>1. TypeOK
  BY DEF Inv
<1>2. SUFFICES ASSUME NEW d \in Clients
               PROVE  ThreadInv(thread[d])'
  OBVIOUS
<1>3. CASE d = c
  <2>1. thread'[d] = t
    BY <1>1, <1>3 DEF TypeOK, Goes
  <2>2. QED
    BY <2>1 DEF ThreadInv, Shape, Authorised, Current
<1>4. CASE d # c
  <2>1. thread'[d] = thread[d]
    BY <1>1, <1>4 DEF TypeOK, Goes
  <2>2. ThreadInv(thread[d])
    BY DEF Inv
  <2> DEFINE u == thread[d]
  <2>3. \A v : ThreadInv(v) => ThreadInv(v)'
    BY <1>1, ThreadKept
  <2>4. QED
    BY <2>1, <2>2, <2>3 DEF ThreadInv, Shape, Authorised, Current
<1>5. QED
  BY <1>3, <1>4

LEMMA QuietStep ==
    ASSUME Inv, NEW c \in Clients, Quiet(c)
    PROVE  Inv'
<1>1. PICK t : ThreadInv(t) /\ Goes(c, t)
  BY DEF Quiet
<1>2. UNCHANGED <<design, credentials, artifacts, build, confirmed, fresh>>
  BY DEF Quiet
<1>3. TypeOK /\ t \in Thread
  BY <1>1 DEF Inv, ThreadInv
<1>4. TypeOK'
  BY <1>1, <1>2, <1>3 DEF TypeOK, Goes
<1>5. Forward
  BY <1>2 DEF Forward
<1>6. ThreadInv(t)'
  BY <1>1, <1>3, <1>4, <1>5, ThreadKept
<1>7. \A d \in Clients : ThreadInv(thread[d])'
  BY <1>1, <1>4, <1>5, <1>6, ThreadsKept
<1>8. (ConfirmationsRecorded /\ CredentialsSound)'
  BY <1>2 DEF Inv, ConfirmationsRecorded, CredentialsSound, Sound, Ok
<1>9. (RegisteredWasConfirmed /\ RegisteredHasCredential)'
  BY <1>2 DEF Inv, RegisteredWasConfirmed, RegisteredHasCredential, Ok
<1>10. QED
  BY <1>4, <1>7, <1>8, <1>9 DEF Inv

\* A commit, accepted or stale, whose row carries only recorded confirmations.
LEMMA CommitStep ==
    ASSUME Inv, NEW c \in Clients, NEW row \in Design,
           thread[c].pc \notin {"idle"} \cup Legacy,
           Commit(c, row),
           Accepted(c) => \/ row.conf = NoEvidence
                          \/ <<thread[c].sid, row.conf>> \in confirmed',
           confirmed \subseteq confirmed',
           confirmed' \subseteq Sessions \X Rules,
           fresh' \in [Sessions -> BOOLEAN],
           UNCHANGED <<credentials, artifacts, build>>
    PROVE  Inv'
<1> DEFINE sid == thread[c].sid
           new == [row EXCEPT !.rev = design[sid].rev + 1]
<1>1. TypeOK /\ sid \in Sessions
  BY DEF Inv, ThreadInv, Shape
<1>2. design[sid].rev \in Nat
  BY <1>1 DEF TypeOK, Design
<1>3. new \in Design /\ new.rev = design[sid].rev + 1 /\ new.conf = row.conf
  BY <1>2 DEF Design
<1>4. \A s \in Sessions :
         design'[s] = IF Accepted(c) /\ s = sid THEN new ELSE design[s]
  BY <1>1 DEF Commit, TypeOK
<1>5. design' \in [Sessions -> Design]
  BY <1>1, <1>3 DEF Commit, TypeOK
<1> HIDE DEF new
<1>6. Goes(c, AtRest) /\ ThreadInv(AtRest)
  BY AtRestInv DEF Commit
<1>7. TypeOK'
  BY <1>1, <1>5, <1>6 DEF TypeOK, Goes, ThreadInv
<1>8. Forward
  BY <1>2, <1>3, <1>4 DEF Forward
<1>9. ThreadInv(AtRest)'
  <2>1. ThreadInv(AtRest) => ThreadInv(AtRest)'
    BY <1>1, <1>7, <1>8, ThreadKept DEF AtRest
  <2>2. QED
    BY <1>6, <2>1
<1>10. \A d \in Clients : ThreadInv(thread[d])'
  BY <1>6, <1>7, <1>8, <1>9, ThreadsKept
<1>11. ConfirmationsRecorded'
  BY <1>3, <1>4 DEF Inv, ConfirmationsRecorded
<1>12. CredentialsSound'
  BY DEF Inv, CredentialsSound, Sound, Ok
<1>13. RegisteredWasConfirmed'
  BY DEF Inv, RegisteredWasConfirmed
<1>14. RegisteredHasCredential'
  BY DEF Inv, RegisteredHasCredential, Ok
<1>15. QED
  BY <1>7, <1>10, <1>11, <1>12, <1>13, <1>14 DEF Inv

\* The commits of the design tools and of the three gate handlers.
LEMMA CommitsStep ==
    ASSUME Inv, NEW c \in Clients,
           \/ CommitRewrite(c) \/ CommitAnnotate(c) \/ CommitDiagnose(c)
           \/ CommitCompose(c) \/ CommitGiveUp(c) \/ CommitFinalize(c)
           \/ CommitVerify(c) \/ CommitConfirm(c) \/ CommitPublish(c)
    PROVE  Inv'
<1> DEFINE t == thread[c]
           sid == t.sid
<1>1. TypeOK /\ ThreadInv(t) /\ t \in Thread
  BY DEF Inv, ThreadInv
<1>2. t.pc \notin {"idle"} \cup Legacy
  BY DEF Legacy, CommitRewrite, CommitAnnotate, CommitDiagnose, CommitCompose,
         CommitGiveUp, CommitFinalize, CommitVerify, CommitConfirm, CommitPublish
<1>3. sid \in Sessions /\ Row(c) = design[sid] /\ Row(c) \in Design
  BY <1>1, <1>2 DEF ThreadInv, Shape, TypeOK, Row
<1>4. Row(c).conf = NoEvidence \/ <<sid, Row(c).conf>> \in confirmed
  BY <1>3 DEF Inv, ConfirmationsRecorded
<1>5. confirmed \subseteq Sessions \X Rules /\ fresh \in [Sessions -> BOOLEAN]
  BY <1>1 DEF TypeOK
<1>6. ASSUME NEW row \in Design, row.conf = Row(c).conf, Commit(c, row),
             fresh' \in [Sessions -> BOOLEAN],
             UNCHANGED <<credentials, artifacts, build, confirmed>>
      PROVE  Inv'
  BY <1>2, <1>4, <1>5, <1>6, CommitStep
<1> HIDE DEF t
<1>7. CASE CommitRewrite(c)
  <2> DEFINE row == [Row(c) EXCEPT !.ir = t.ir, !.status = "draft",
                                   !.reqs = ClausesOf[t.ir], !.ver = NoEvidence]
  <2>1. t.ir \in Rules
    BY <1>1, <1>7 DEF CommitRewrite, ThreadInv, Shape, t
  <2>2. ClausesOf[t.ir] \in SUBSET Clauses
    BY <2>1, RulesAssumption
  <2>3. row \in Design /\ row.conf = Row(c).conf
    BY <1>3, <2>1, <2>2 DEF Design, Statuses
  <2>4. fresh' \in [Sessions -> BOOLEAN]
    BY <1>5, <1>7 DEF CommitRewrite
  <2>5. Commit(c, row)
    BY <1>7 DEF CommitRewrite, t
  <2> HIDE DEF row
  <2>6. QED
    BY <1>6, <1>7, <2>3, <2>4, <2>5 DEF CommitRewrite
<1>8. CASE CommitAnnotate(c)
  BY <1>3, <1>5, <1>6, <1>8 DEF CommitAnnotate
<1>9. CASE CommitDiagnose(c)
  <2> DEFINE row == [Row(c) EXCEPT !.status = "diagnosed"]
  <2>1. row \in Design /\ row.conf = Row(c).conf
    BY <1>3 DEF Design, Statuses
  <2>2. QED
    BY <1>5, <1>6, <1>9, <2>1 DEF CommitDiagnose
<1>10. CASE CommitCompose(c)
  <2> DEFINE row == [Row(c) EXCEPT !.status = "compiled", !.ver = NoEvidence]
  <2>1. row \in Design /\ row.conf = Row(c).conf
    BY <1>3 DEF Design, Statuses
  <2>2. QED
    BY <1>5, <1>6, <1>10, <2>1 DEF CommitCompose
<1>11. CASE CommitGiveUp(c)
  <2> DEFINE row == [Row(c) EXCEPT !.status = "failed"]
  <2>1. row \in Design /\ row.conf = Row(c).conf
    BY <1>3 DEF Design, Statuses
  <2>2. QED
    BY <1>5, <1>6, <1>11, <2>1 DEF CommitGiveUp
<1>12. CASE CommitFinalize(c)
  <2> DEFINE row == [Row(c) EXCEPT !.status = "awaiting_confirmation"]
  <2>1. row \in Design /\ row.conf = Row(c).conf
    BY <1>3 DEF Design, Statuses
  <2>2. QED
    BY <1>5, <1>6, <1>12, <2>1 DEF CommitFinalize
<1>13. CASE CommitVerify(c)
  <2> DEFINE status == IF Ok(t.cred) THEN "verified" ELSE "failed"
             row == [Row(c) EXCEPT !.ver = t.cred, !.status = status]
  <2>1. t.cred \in Credential /\ status \in Statuses
    BY <1>1, <1>13 DEF CommitVerify, ThreadInv, Shape, t, Statuses
  <2>2. Commit(c, row)
    BY <1>13 DEF CommitVerify, t
  <2> HIDE DEF status
  <2>3. row \in Design /\ row.conf = Row(c).conf
    BY <1>3, <2>1 DEF Design
  <2> HIDE DEF row
  <2>4. QED
    BY <1>5, <1>6, <1>13, <2>2, <2>3 DEF CommitVerify
<1>14. CASE CommitConfirm(c)
  <2> DEFINE row == [Row(c) EXCEPT !.conf = t.ir,
                                   !.status = "awaiting_confirmation"]
  <2>1. t.ir \in Rules
    BY <1>1, <1>14 DEF CommitConfirm, ThreadInv, Shape, t
  <2>2. row \in Design /\ row.conf = t.ir
    BY <1>3, <2>1 DEF Design, Statuses
  <2>3. Commit(c, row)
    BY <1>14 DEF CommitConfirm, t
  <2>4. /\ Accepted(c) => confirmed' = confirmed \cup {<<sid, t.ir>>}
        /\ ~Accepted(c) => confirmed' = confirmed
    BY <1>14 DEF CommitConfirm, t
  <2>5. confirmed \subseteq confirmed' /\ confirmed' \subseteq Sessions \X Rules
    BY <1>3, <1>5, <2>1, <2>4
  <2>6. fresh' \in [Sessions -> BOOLEAN]
    BY <1>5, <1>14 DEF CommitConfirm
  <2>7. UNCHANGED <<credentials, artifacts, build>>
    BY <1>14 DEF CommitConfirm
  <2>8. Accepted(c) => <<sid, row.conf>> \in confirmed'
    BY <2>2, <2>4
  <2> HIDE DEF row
  <2>9. QED
    BY <1>2, <2>2, <2>3, <2>5, <2>6, <2>7, <2>8, CommitStep DEF t
<1>15. CASE CommitPublish(c)
  <2> DEFINE pub == [ir |-> t.ir, plan |-> t.cred.plan, version |-> t.version]
             row == [Row(c) EXCEPT !.status = "registered", !.pub = pub]
  <2>1. t.ir \in Rules /\ t.cred \in Credential /\ t.version \in Versions
    BY <1>1, <1>15 DEF CommitPublish, ThreadInv, Shape, t, Publishing
  <2>2. pub \in [ir : Rules, plan : Plans, version : Versions]
    BY <2>1 DEF Credential
  <2>3. Commit(c, row)
    BY <1>15 DEF CommitPublish, t
  <2> HIDE DEF pub
  <2>4. row \in Design /\ row.conf = Row(c).conf
    BY <1>3, <2>2 DEF Design, Statuses
  <2> HIDE DEF row
  <2>5. QED
    BY <1>5, <1>6, <1>15, <2>3, <2>4 DEF CommitPublish
<1>16. QED
  BY <1>7, <1>8, <1>9, <1>10, <1>11, <1>12, <1>13, <1>14, <1>15

\* A sound credential is recorded, and its thread goes on to register it.
LEMMA RecordStep ==
    ASSUME Inv, NEW c \in Clients, NEW cred \in Credential, Sound(cred),
           NEW t, ThreadInv(t), Goes(c, t),
           credentials' = credentials \cup {cred},
           UNCHANGED <<design, artifacts, build, confirmed, fresh>>
    PROVE  Inv'
<1>1. TypeOK /\ t \in Thread
  BY DEF Inv, ThreadInv
<1>2. TypeOK'
  BY <1>1 DEF TypeOK, Goes
<1>3. Forward
  BY DEF Forward
<1>4. \A d \in Clients : ThreadInv(thread[d])'
  <2>1. ThreadInv(t)'
    BY <1>1, <1>2, <1>3, ThreadKept
  <2>2. QED
    BY <1>2, <1>3, <2>1, ThreadsKept
<1>5. ConfirmationsRecorded'
  BY DEF Inv, ConfirmationsRecorded
<1>6. CredentialsSound'
  BY DEF Inv, CredentialsSound, Sound, Ok
<1>7. (RegisteredWasConfirmed /\ RegisteredHasCredential)'
  BY DEF Inv, RegisteredWasConfirmed, RegisteredHasCredential, Ok
<1>8. QED
  BY <1>2, <1>4, <1>5, <1>6, <1>7 DEF Inv

LEMMA RecordsStep ==
    ASSUME Inv, NEW c \in Clients, PublishGatePasses(c) \/ LegacyRecord(c)
    PROVE  Inv'
<1> DEFINE t == thread[c]
<1>1. TypeOK /\ ThreadInv(t) /\ t \in Thread
  BY DEF Inv, ThreadInv
<1> HIDE DEF t
<1>2. CASE PublishGatePasses(c)
  <2> DEFINE cred == Verified(t.ir)
             u == [t EXCEPT !.pc = "publish_register", !.cred = cred]
  <2>1. t.pc = "publish_gate" /\ t.ir \in Rules /\ Compiles(t.ir)
    BY <1>1, <1>2 DEF PublishGatePasses, ThreadInv, Shape, Publishing, t
  <2>2. cred \in Credential /\ cred.ir = t.ir /\ Sound(cred)
    BY <1>1, <1>2, <2>1, VerifiedSound DEF PublishGatePasses, t
  <2>3. Goes(c, u) /\ credentials' = credentials \cup {cred}
    BY <1>2 DEF PublishGatePasses, t
  <2> HIDE DEF cred
  <2>4. /\ u.pc = "publish_register" /\ u.sid = t.sid /\ u.game = t.game
        /\ u.ir = t.ir /\ u.cred = cred /\ u.exp = t.exp
        /\ u.version = t.version
        /\ u \in Thread
    BY <1>1, <2>2 DEF Thread, Points
  <2> HIDE DEF u
  <2>5. Shape(u) /\ Authorised(u) /\ Current(u)
    BY <1>1, <2>1, <2>2, <2>4
    DEF ThreadInv, Shape, Authorised, Current, Legacy, Publishing
  <2>6. ThreadInv(u)
    BY <2>4, <2>5 DEF ThreadInv
  <2>7. QED
    BY <1>2, <2>2, <2>3, <2>6, RecordStep DEF PublishGatePasses
<1>3. CASE LegacyRecord(c)
  <2> DEFINE u == [t EXCEPT !.pc = "legacy_register"]
  <2>1. t.pc = "legacy_record" /\ t.cred \in Credential /\ t.cred.ir = NoIR
    BY <1>1, <1>3 DEF LegacyRecord, ThreadInv, Shape, Legacy, t
  <2>2. Goes(c, u) /\ credentials' = credentials \cup {t.cred}
    BY <1>3 DEF LegacyRecord, t
  <2>3. /\ u.pc = "legacy_register" /\ u.sid = t.sid /\ u.game = t.game
        /\ u.ir = t.ir /\ u.cred = t.cred /\ u.exp = t.exp
        /\ u.version = t.version
        /\ u \in Thread
    BY <1>1 DEF Thread, Points
  <2> HIDE DEF u
  <2>4. Shape(u) /\ Authorised(u) /\ Current(u)
    BY <1>1, <2>1, <2>3
    DEF ThreadInv, Shape, Authorised, Current, Legacy, Publishing
  <2>5. ThreadInv(u)
    BY <2>3, <2>4 DEF ThreadInv
  <2>6. Sound(t.cred)
    BY <2>1 DEF Sound
  <2>7. QED
    BY <1>3, <2>1, <2>2, <2>5, <2>6, RecordStep DEF LegacyRecord
<1>4. QED
  BY <1>2, <1>3

\* A registration by a thread whose composed rules, if any, were confirmed.
LEMMA RegisterStep ==
    ASSUME Inv, NEW c \in Clients, NEW next, ThreadInv(next),
           thread[c].pc \in {"publish_register", "legacy_register"},
           Register(c, next)
    PROVE  Inv'
<1> DEFINE t == thread[c]
           g == t.game
           v == t.version
<1>1. TypeOK /\ ThreadInv(t) /\ t \in Thread
  BY DEF Inv, ThreadInv
<1>2. /\ t.cred \in Credential
      /\ g \in Games /\ v \in Versions
      /\ t.cred.ir # NoIR => /\ t.sid \in Sessions /\ GameOf[t.sid] = g
                             /\ <<t.sid, t.cred.ir>> \in confirmed
  BY <1>1, GameAssumption
  DEF ThreadInv, Shape, Authorised, Legacy, Publishing
<1>3. UNCHANGED <<design, credentials, build, confirmed, fresh>>
  BY DEF Register
<1>4. PICK u \in {next, AtRest} : Goes(c, u)
  BY DEF Register
<1>5. ThreadInv(u) /\ u \in Thread
  BY <1>4, AtRestInv DEF ThreadInv
<1> DEFINE takes == t.cred \in credentials /\ artifacts[g][v] = NoArtifact
<1>6. artifacts' = IF takes THEN [artifacts EXCEPT ![g][v] = t.cred]
                   ELSE artifacts
  BY DEF Register
<1> HIDE DEF t, takes
<1>7. TypeOK'
  BY <1>1, <1>2, <1>3, <1>4, <1>5, <1>6 DEF TypeOK, Goes
<1>8. \A h \in Games, w \in Versions :
         artifacts'[h][w] = IF takes /\ h = g /\ w = v THEN t.cred
                            ELSE artifacts[h][w]
  BY <1>1, <1>2, <1>6 DEF TypeOK
<1>9. Forward
  BY <1>3 DEF Forward
<1>10. \A d \in Clients : ThreadInv(thread[d])'
  <2>1. ThreadInv(u)'
    BY <1>1, <1>5, <1>7, <1>9, ThreadKept
  <2>2. QED
    BY <1>4, <1>7, <1>9, <2>1, ThreadsKept
<1>11. (ConfirmationsRecorded /\ CredentialsSound)'
  BY <1>3 DEF Inv, ConfirmationsRecorded, CredentialsSound, Sound, Ok
<1>12. RegisteredWasConfirmed'
  BY <1>2, <1>3, <1>8 DEF Inv, RegisteredWasConfirmed
<1>13. RegisteredHasCredential'
  <2>1. takes => t.cred \in credentials /\ Sound(t.cred)
    BY DEF Inv, CredentialsSound, takes
  <2>2. QED
    BY <1>3, <1>8, <2>1 DEF Inv, RegisteredHasCredential, Sound, Ok
<1>14. QED
  BY <1>7, <1>10, <1>11, <1>12, <1>13 DEF Inv

LEMMA RegistersStep ==
    ASSUME Inv, NEW c \in Clients, PublishRegister(c) \/ LegacyRegister(c)
    PROVE  Inv'
<1> DEFINE t == thread[c]
           u == [t EXCEPT !.pc = "publish_commit"]
<1>1. ThreadInv(t) /\ t \in Thread
  BY DEF Inv, ThreadInv
<1> HIDE DEF t
<1>2. CASE PublishRegister(c)
  <2>1. t.pc = "publish_register" /\ Register(c, u)
    BY <1>2 DEF PublishRegister, t
  <2>2. /\ u.pc = "publish_commit" /\ u.sid = t.sid /\ u.game = t.game
        /\ u.ir = t.ir /\ u.cred = t.cred /\ u.exp = t.exp
        /\ u.version = t.version
        /\ u \in Thread
    BY <1>1 DEF Thread, Points
  <2> HIDE DEF u
  <2>3. Shape(u) /\ Authorised(u) /\ Current(u)
    BY <1>1, <2>1, <2>2
    DEF ThreadInv, Shape, Authorised, Current, Legacy, Publishing
  <2>4. ThreadInv(u)
    BY <2>2, <2>3 DEF ThreadInv
  <2>5. QED
    BY <2>1, <2>4, RegisterStep DEF t
<1>3. CASE LegacyRegister(c)
  BY <1>3, AtRestInv, RegisterStep DEF LegacyRegister
<1>4. QED
  BY <1>2, <1>3

\* POST /update writes the rules of a session and nothing of its evidence.
LEMMA UpdateStep ==
    ASSUME Inv, NEW s \in Sessions, NEW r \in Rules \cup {NoIR},
           NEW status \in Statuses, Update(s, r, status)
    PROVE  Inv'
<1>1. TypeOK /\ design[s].rev \in Nat
  BY DEF Inv, TypeOK, Design
<1> DEFINE old == design[s]
           n == old.rev + 1
           ir == IF r = NoIR THEN old.ir ELSE r
           new == [old EXCEPT !.ir = ir, !.status = status, !.rev = n]
<1>2. design' = [design EXCEPT ![s] = new]
  BY DEF Update
<1>3. new \in Design /\ new.rev = design[s].rev + 1 /\ new.conf = design[s].conf
  <2>1. old \in Design /\ n \in Nat
    BY <1>1 DEF TypeOK
  <2>2. ir \in Rules \cup {NoIR}
    BY <2>1 DEF Design
  <2> HIDE DEF old, n, ir
  <2>3. new \in Design /\ new.rev = n /\ new.conf = old.conf
    BY <2>1, <2>2 DEF Design
  <2>4. QED
    BY <2>3 DEF old, n
<1> HIDE DEF new
<1>4. \A q \in Sessions : design'[q] = IF q = s THEN new ELSE design[q]
  BY <1>1, <1>2 DEF TypeOK
<1>5. UNCHANGED <<credentials, artifacts, thread, build, confirmed, fresh>>
  BY DEF Update
<1>6. TypeOK'
  BY <1>1, <1>2, <1>3, <1>5 DEF TypeOK
<1>7. Forward
  BY <1>1, <1>3, <1>4, <1>5 DEF Forward
<1>8. \A d \in Clients : ThreadInv(thread[d])'
  <2>1. \A t : ThreadInv(t) => ThreadInv(t)'
    BY <1>1, <1>6, <1>7, ThreadKept
  <2>2. QED
    BY <1>5, <2>1 DEF Inv, ThreadInv, Shape, Authorised, Current
<1>9. (ConfirmationsRecorded /\ CredentialsSound)'
  BY <1>3, <1>4, <1>5
  DEF Inv, ConfirmationsRecorded, CredentialsSound, Sound, Ok
<1>10. (RegisteredWasConfirmed /\ RegisteredHasCredential)'
  BY <1>5 DEF Inv, RegisteredWasConfirmed, RegisteredHasCredential, Ok
<1>11. QED
  BY <1>6, <1>8, <1>9, <1>10 DEF Inv

\* A crash loses the threads and keeps every table.
LEMMA RestartStep ==
    ASSUME Inv, NEW b \in Builds, Restart(b)
    PROVE  Inv'
<1>1. TypeOK /\ UNCHANGED <<design, credentials, artifacts, confirmed, fresh>>
  BY DEF Inv, Restart
<1>2. TypeOK'
  <2>1. AtRest \in Thread
    BY AtRestInv DEF ThreadInv
  <2>2. QED
    BY <1>1, <2>1 DEF TypeOK, Restart
<1>3. \A d \in Clients : ThreadInv(thread[d])'
  <2>1. Forward
    BY <1>1 DEF Forward
  <2>2. ThreadInv(AtRest) => ThreadInv(AtRest)'
    BY <1>1, <1>2, <2>1, ThreadKept DEF AtRest
  <2>3. \A d \in Clients : thread'[d] = AtRest
    BY DEF Restart
  <2>4. QED
    BY <2>2, <2>3, AtRestInv DEF ThreadInv, Shape, Authorised, Current
<1>4. (ConfirmationsRecorded /\ CredentialsSound)'
  BY <1>1 DEF Inv, ConfirmationsRecorded, CredentialsSound, Sound, Ok
<1>5. (RegisteredWasConfirmed /\ RegisteredHasCredential)'
  BY <1>1 DEF Inv, RegisteredWasConfirmed, RegisteredHasCredential, Ok
<1>6. QED
  BY <1>2, <1>3, <1>4, <1>5 DEF Inv

--------------------------------------------------------------------------------
(* The invariant *)

LEMMA InitInv == Init => Inv
<1> SUFFICES ASSUME Init PROVE Inv
  OBVIOUS
<1>1. TypeOK
  <2>1. AtRest \in Thread
    BY AtRestInv DEF ThreadInv
  <2>2. design \in [Sessions -> Design]
    BY DEF Init, Design, Statuses
  <2>3. build \in Builds
    BY BoundsAssumption DEF Init, Builds
  <2>4. QED
    BY <2>1, <2>2, <2>3 DEF Init, TypeOK
<1>2. \A c \in Clients : ThreadInv(thread[c])
  BY AtRestInv DEF Init
<1>3. ConfirmationsRecorded /\ CredentialsSound
  BY DEF Init, ConfirmationsRecorded, CredentialsSound
<1>4. RegisteredWasConfirmed /\ RegisteredHasCredential
  BY DEF Init, RegisteredWasConfirmed, RegisteredHasCredential
<1>5. QED
  BY <1>1, <1>2, <1>3, <1>4 DEF Inv

LEMMA NextInv == Inv /\ [Next]_vars => Inv'
<1> SUFFICES ASSUME Inv, [Next]_vars PROVE Inv'
  OBVIOUS
<1>1. ASSUME NEW c \in Clients, NEW s \in Sessions, Tool(c, s) \/ Request(c, s)
      PROVE  Inv'
  BY <1>1, ToolsQuiet, RequestsQuiet, QuietStep
<1>2. ASSUME NEW c \in Clients, Step(c)
      PROVE  Inv'
  <2>1. CASE ReadRequestedVerify(c)
    <3>1. thread[c].sid \in Sessions
      BY <2>1 DEF Inv, ThreadInv, Shape, Legacy, ReadRequestedVerify
    <3>2. QED
      BY <2>1, <3>1, RunGateQuiet, QuietStep DEF ReadRequestedVerify
  <2>2. CASE \/ PublishReuse(c) \/ PublishNew(c) \/ PublishVersion(c)
             \/ PublishGateFails(c)
    BY <2>2, PublicationQuiet, QuietStep
  <2>3. CASE \/ CommitRewrite(c) \/ CommitAnnotate(c) \/ CommitDiagnose(c)
             \/ CommitCompose(c) \/ CommitGiveUp(c) \/ CommitFinalize(c)
             \/ CommitVerify(c) \/ CommitConfirm(c) \/ CommitPublish(c)
    BY <2>3, CommitsStep
  <2>4. CASE PublishGatePasses(c) \/ LegacyRecord(c)
    BY <2>4, RecordsStep
  <2>5. CASE PublishRegister(c) \/ LegacyRegister(c)
    BY <2>5, RegistersStep
  <2>6. QED
    BY <1>2, <2>1, <2>2, <2>3, <2>4, <2>5 DEF Step
<1>3. ASSUME NEW c \in Clients, NEW g \in Games, NEW p \in LegacyPlans,
             ReadLegacy(c, g, p)
      PROVE  Inv'
  BY <1>3, LegacyQuiet, QuietStep
<1>4. ASSUME NEW s \in Sessions, NEW r \in Rules \cup {NoIR},
             NEW status \in {design[s].status, "diagnosed"},
             Update(s, r, status)
      PROVE  Inv'
  <2>1. status \in Statuses
    BY DEF Inv, TypeOK, Design, Statuses
  <2>2. QED
    BY <1>4, <2>1, UpdateStep
<1>5. ASSUME NEW b \in Builds, Restart(b)
      PROVE  Inv'
  BY <1>5, RestartStep
<1>6. CASE UNCHANGED vars
  <2>1. TypeOK'
    BY <1>6 DEF vars, Inv, TypeOK
  <2>2. \A c \in Clients : ThreadInv(thread[c])'
    <3>1. ASSUME NEW c \in Clients PROVE ThreadInv(thread[c])'
      <4>1. ThreadInv(thread[c])
        BY DEF Inv
      <4>2. Shape(thread[c])' /\ Authorised(thread[c])'
        BY <1>6, <4>1 DEF vars, ThreadInv, Shape, Authorised
      <4>3. Current(thread[c])'
        BY <1>6, <4>1 DEF vars, ThreadInv, Current, Binds, Ok
      <4>4. QED
        BY <1>6, <4>1, <4>2, <4>3 DEF vars, ThreadInv
    <3>2. QED
      BY <3>1
  <2>3. ConfirmationsRecorded' /\ CredentialsSound'
    BY <1>6 DEF vars, Inv, ConfirmationsRecorded, CredentialsSound, Sound, Ok
  <2>4. RegisteredWasConfirmed' /\ RegisteredHasCredential'
    BY <1>6 DEF vars, Inv, RegisteredWasConfirmed, RegisteredHasCredential, Ok
  <2>5. QED
    BY <2>1, <2>2, <2>3, <2>4 DEF Inv
<1>7. QED
  BY <1>1, <1>2, <1>3, <1>4, <1>5, <1>6 DEF Next

\* The inductive invariant holds of every behaviour of the lifecycle.
THEOREM Invariance == Spec => []Inv
BY InitInv, NextInv, PTL DEF Spec

\* The stores and the threads keep their types.
THEOREM TypeCorrect == Spec => []TypeOK
BY Invariance, PTL DEF Inv

\* No version holds composed rules that a user did not confirm in a session of
\* that game, however the requests of any number of threads interleave.
THEOREM ConfirmedBeforeRegistered == Spec => []RegisteredWasConfirmed
BY Invariance, PTL DEF Inv

\* Every version cites a credential in the host's table, for rules that passed.
THEOREM CredentialBehindArtifact == Spec => []RegisteredHasCredential
BY Invariance, PTL DEF Inv

--------------------------------------------------------------------------------
(* Evidence lands only on the rules it is about *)

\* What EvidenceBinds says of one session in one step.
Binding(s) ==
    /\ design'[s].ver \notin {design[s].ver, NoEvidence} =>
          design'[s].ver.ir = design'[s].ir
    /\ design'[s].conf # design[s].conf =>
          design'[s].conf = design'[s].ir /\ Binds(s)'
    /\ design'[s].pub # design[s].pub => design'[s].pub.ir = design'[s].ir

LEMMA UnmovedBinding ==
    ASSUME NEW s \in Sessions, design'[s] = design[s]
    PROVE  Binding(s)
BY DEF Binding

LEMMA CommitBinding ==
    ASSUME Inv, NEW c \in Clients, NEW s \in Sessions, Step(c)
    PROVE  Binding(s)
<1> DEFINE t == thread[c]
           old == design[s]
           new == design'[s]
<1>1. TypeOK /\ ThreadInv(t) /\ old \in Design /\ old.rev \in Nat
  BY DEF Inv, TypeOK, Design
<1>2. SUFFICES ASSUME new # old
               PROVE  Binding(s)
  BY UnmovedBinding
<1>3. ASSUME NEW row \in Design, Commit(c, row), t.sid \in Sessions
      PROVE  /\ t.sid = s /\ Accepted(c) /\ Row(c) = old
             /\ new = [row EXCEPT !.rev = old.rev + 1]
  BY <1>1, <1>2, <1>3 DEF Commit, TypeOK, Row
<1>4. ASSUME NEW row \in Design, Commit(c, row), t.sid \in Sessions
      PROVE  /\ t.sid = s /\ t.exp = old.rev /\ Row(c) = old
             /\ new.ir = row.ir /\ new.ver = row.ver
             /\ new.conf = row.conf /\ new.pub = row.pub
  BY <1>1, <1>3, <1>4 DEF Accepted, Design
<1>5. ASSUME t.pc \notin {"idle"} \cup Legacy
      PROVE  t.sid \in Sessions /\ Row(c) \in Design
  BY <1>1, <1>5 DEF ThreadInv, Shape, TypeOK, Row
<1>6. ASSUME t.pc \notin {"idle"} \cup Legacy, NEW row \in Design, Commit(c, row),
             row.ver \in {Row(c).ver, NoEvidence}, row.conf = Row(c).conf,
             row.pub = Row(c).pub
      PROVE  Binding(s)
  BY <1>4, <1>5, <1>6 DEF Binding
<1> HIDE DEF t, old, new
<1>7. CASE CommitRewrite(c)
  <2> DEFINE row == [Row(c) EXCEPT !.ir = t.ir, !.status = "draft",
                                   !.reqs = ClausesOf[t.ir], !.ver = NoEvidence]
  <2>1. t.pc = "rewrite" /\ Row(c) \in Design /\ Commit(c, row)
    BY <1>5, <1>7 DEF CommitRewrite, Legacy, t
  <2>2. t.ir \in Rules
    BY <1>1, <2>1 DEF ThreadInv, Shape
  <2>3. ClausesOf[t.ir] \in SUBSET Clauses
    BY <2>2, RulesAssumption
  <2>4. /\ row \in Design /\ row.ver = NoEvidence
        /\ row.conf = Row(c).conf /\ row.pub = Row(c).pub
    BY <2>1, <2>2, <2>3 DEF Design, Statuses
  <2> HIDE DEF row
  <2>5. QED
    BY <1>6, <2>1, <2>4 DEF Legacy
<1>8. CASE CommitAnnotate(c)
  BY <1>5, <1>6, <1>8 DEF CommitAnnotate, Legacy, t
<1>9. ASSUME NEW status \in Statuses, t.pc \notin {"idle"} \cup Legacy,
             Commit(c, [Row(c) EXCEPT !.status = status])
      PROVE  Binding(s)
  <2> DEFINE row == [Row(c) EXCEPT !.status = status]
  <2>1. /\ row \in Design /\ row.ver = Row(c).ver
        /\ row.conf = Row(c).conf /\ row.pub = Row(c).pub
    BY <1>5, <1>9 DEF Design
  <2> HIDE DEF row
  <2>2. QED
    BY <1>6, <1>9, <2>1 DEF row
<1>10. CASE CommitDiagnose(c) \/ CommitGiveUp(c) \/ CommitFinalize(c)
  BY <1>9, <1>10
  DEF CommitDiagnose, CommitGiveUp, CommitFinalize, Statuses, Legacy, t
<1>11. CASE CommitCompose(c)
  <2> DEFINE row == [Row(c) EXCEPT !.status = "compiled", !.ver = NoEvidence]
  <2>1. t.pc = "compose" /\ Row(c) \in Design /\ Commit(c, row)
    BY <1>5, <1>11 DEF CommitCompose, Legacy, t
  <2>2. /\ row \in Design /\ row.ver = NoEvidence
        /\ row.conf = Row(c).conf /\ row.pub = Row(c).pub
    BY <2>1 DEF Design, Statuses
  <2> HIDE DEF row
  <2>3. QED
    BY <1>6, <2>1, <2>2 DEF Legacy
<1>12. CASE CommitVerify(c)
  <2> DEFINE status == IF Ok(t.cred) THEN "verified" ELSE "failed"
             row == [Row(c) EXCEPT !.ver = t.cred, !.status = status]
  <2>1. t.pc = "verify" /\ t.sid \in Sessions /\ Row(c) \in Design
    BY <1>5, <1>12 DEF CommitVerify, Legacy, t
  <2>2. Commit(c, row)
    BY <1>12 DEF CommitVerify, t
  <2>3. t.cred \in Credential /\ status \in Statuses
    BY <1>1, <2>1 DEF ThreadInv, Shape, Statuses
  <2> HIDE DEF status
  <2>4. /\ row \in Design /\ row.ver = t.cred /\ row.ir = Row(c).ir
        /\ row.conf = Row(c).conf /\ row.pub = Row(c).pub
    BY <2>1, <2>3 DEF Design
  <2> HIDE DEF row
  <2>5. /\ t.sid = s /\ t.exp = old.rev /\ Row(c) = old
        /\ new.ir = old.ir /\ new.ver = t.cred
        /\ new.conf = old.conf /\ new.pub = old.pub
    BY <1>4, <2>1, <2>2, <2>4
  <2>6. t.cred.ir = old.ir
    BY <1>1, <2>1, <2>5 DEF ThreadInv, Current, Legacy, old
  <2>7. QED
    BY <2>5, <2>6 DEF Binding, old, new
<1>13. CASE CommitConfirm(c)
  <2> DEFINE row == [Row(c) EXCEPT !.conf = t.ir,
                                   !.status = "awaiting_confirmation"]
  <2>1. t.pc = "confirm" /\ t.sid \in Sessions /\ Row(c) \in Design
    BY <1>5, <1>13 DEF CommitConfirm, Legacy, t
  <2>2. Commit(c, row)
    BY <1>13 DEF CommitConfirm, t
  <2>3. t.ir \in Rules
    BY <1>1, <2>1 DEF ThreadInv, Shape
  <2>4. /\ row \in Design /\ row.ver = Row(c).ver /\ row.ir = Row(c).ir
        /\ row.conf = t.ir /\ row.pub = Row(c).pub
    BY <2>1, <2>3 DEF Design, Statuses
  <2> HIDE DEF row
  <2>5. /\ t.sid = s /\ t.exp = old.rev /\ Row(c) = old
        /\ new.ir = old.ir /\ new.ver = old.ver
        /\ new.conf = t.ir /\ new.pub = old.pub
    BY <1>4, <2>1, <2>2, <2>4
  <2>6. t.ir = old.ir /\ Binds(s)
    BY <1>1, <2>1, <2>5 DEF ThreadInv, Current, Legacy, old
  <2>7. Binds(s)'
    BY <2>5, <2>6 DEF Binds, Ok, old, new
  <2>8. QED
    BY <2>5, <2>6, <2>7 DEF Binding, old, new
<1>14. CASE CommitPublish(c)
  <2> DEFINE pub == [ir |-> t.ir, plan |-> t.cred.plan, version |-> t.version]
             row == [Row(c) EXCEPT !.status = "registered", !.pub = pub]
  <2>1. t.pc = "publish_commit" /\ t.sid \in Sessions /\ Row(c) \in Design
    BY <1>5, <1>14 DEF CommitPublish, Legacy, t
  <2>2. Commit(c, row)
    BY <1>14 DEF CommitPublish, t
  <2>3. t.ir \in Rules /\ t.cred \in Credential /\ t.version \in Versions
    BY <1>1, <2>1 DEF ThreadInv, Shape, Publishing
  <2>4. /\ pub \in [ir : Rules, plan : Plans, version : Versions]
        /\ pub.ir = t.ir
    BY <2>3 DEF Credential
  <2> HIDE DEF pub
  <2>5. /\ row \in Design /\ row.ver = Row(c).ver /\ row.ir = Row(c).ir
        /\ row.conf = Row(c).conf /\ row.pub = pub
    BY <2>1, <2>4 DEF Design, Statuses
  <2> HIDE DEF row
  <2>6. /\ t.sid = s /\ t.exp = old.rev /\ Row(c) = old
        /\ new.ir = old.ir /\ new.ver = old.ver
        /\ new.conf = old.conf /\ new.pub = pub
    BY <1>4, <2>1, <2>2, <2>5
  <2>7. t.ir = old.ir
    BY <1>1, <2>1, <2>6 DEF ThreadInv, Current, Legacy, Publishing, old
  <2>8. QED
    BY <2>4, <2>6, <2>7 DEF Binding, old, new
<1>15. CASE UNCHANGED design
  BY <1>2, <1>15 DEF old, new
<1>16. QED
  BY <1>7, <1>8, <1>10, <1>11, <1>12, <1>13, <1>14, <1>15
  DEF Step, ReadRequestedVerify, RunGate, PublishReuse, PublishNew,
      PublishVersion, PublishGatePasses, PublishGateFails, PublishRegister,
      LegacyRecord, LegacyRegister, Register

LEMMA NextBinding ==
    ASSUME Inv, [Next]_vars, NEW s \in Sessions
    PROVE  Binding(s)
<1>1. CASE \E c \in Clients : Step(c)
  BY <1>1, CommitBinding
<1>2. ASSUME NEW q \in Sessions, NEW r, NEW status, Update(q, r, status)
      PROVE  Binding(s)
  <2>1. design[s] \in Design /\ design[q] \in Design
    BY DEF Inv, TypeOK
  <2>2. /\ design'[s].ver = design[s].ver /\ design'[s].conf = design[s].conf
        /\ design'[s].pub = design[s].pub
    BY <1>2, <2>1 DEF Update, Design, Inv, TypeOK
  <2>3. QED
    BY <2>2 DEF Binding
<1>3. CASE UNCHANGED design
  BY <1>3, UnmovedBinding
<1>4. ASSUME NEW c \in Clients, NEW q \in Sessions, Tool(c, q) \/ Request(c, q)
      PROVE  UNCHANGED design
  BY <1>4, ToolsQuiet, RequestsQuiet DEF Quiet
<1>5. QED
  BY <1>1, <1>2, <1>3, <1>4 DEF Next, vars, ReadLegacy, Restart

\* A verification, a confirmation or a publication is written only to a session
\* that still holds the rules it is about.
THEOREM EvidenceBindsAlways == Spec => EvidenceBinds
<1>1. Inv /\ [Next]_vars => [\A s \in Sessions : Binding(s)]_vars
  BY NextBinding
<1>2. QED
  BY <1>1, Invariance, PTL DEF Spec, EvidenceBinds, Binding

--------------------------------------------------------------------------------
(* The lifecycle implements the publication gate *)

\* A registration either takes a free version as the gate allows, or is refused.
LEMMA RegisterRefines ==
    ASSUME Inv, NEW c \in Clients, NEW next, Register(c, next),
           thread[c].pc \in {"publish_register", "legacy_register"}
    PROVE  Gate!Next \/ UNCHANGED Gate!vars
<1> DEFINE t == thread[c]
           g == t.game
           v == t.version
           cred == t.cred
<1>1. TypeOK /\ ThreadInv(t)
  BY DEF Inv
<1>2. cred \in Credential /\ g \in Games /\ v \in Versions
  BY <1>1, GameAssumption
  DEF ThreadInv, Shape, Legacy, Publishing
<1>3. cred = [ir |-> cred.ir, plan |-> cred.plan, build |-> cred.build]
  BY <1>2 DEF Credential
<1>4. cred.build \in Builds
  BY <1>2 DEF Credential
<1>5. UNCHANGED confirmed
  BY DEF Register
<1>6. CASE cred \in credentials /\ artifacts[g][v] = NoArtifact
  <2>1. Gate!Take(g, v, cred)
    BY <1>5, <1>6 DEF Register, Gate!Take
  <2>2. CASE t.pc = "publish_register"
    <3>1. /\ t.sid \in Sessions /\ GameOf[t.sid] = g
          /\ cred.ir \in Composed /\ <<t.sid, cred.ir>> \in confirmed
      BY <1>1, <2>2 DEF ThreadInv, Shape, Authorised, Legacy, Publishing
    <3>2. Sound(cred) /\ cred.ir # NoIR
      BY <1>6, <3>1, RulesAssumption DEF Inv, CredentialsSound
    <3>3. /\ <<cred.ir, cred.build>> \in Passing
          /\ cred.plan = PlanOf[cred.ir][cred.build]
      BY <3>2 DEF Sound, Ok
    <3>4. Gate!Take(g, v, [ir |-> cred.ir,
                           plan |-> PlanOf[cred.ir][cred.build],
                           build |-> cred.build])
      BY <1>3, <2>1, <3>3
    <3>5. Gate!Publish(g, v, cred.ir, cred.build)
      BY <3>1, <3>3, <3>4 DEF Gate!Publish
    <3>6. QED
      BY <1>2, <1>4, <3>1, <3>5 DEF Gate!Next, Versions, Builds
  <2>3. CASE t.pc = "legacy_register"
    <3>1. cred.ir = NoIR /\ cred.plan \in LegacyPlans
      BY <1>1, <2>3 DEF ThreadInv, Shape, Legacy
    <3>2. Gate!RegisterLegacy(g, v, cred.plan, cred.build)
      BY <1>3, <2>1, <3>1 DEF Gate!RegisterLegacy
    <3>3. QED
      BY <1>2, <1>4, <3>1, <3>2 DEF Gate!Next, Versions, Builds
  <2>4. QED
    BY <2>2, <2>3
<1>7. CASE ~(cred \in credentials /\ artifacts[g][v] = NoArtifact)
  BY <1>5, <1>7 DEF Register, Gate!vars
<1>8. QED
  BY <1>6, <1>7

LEMMA StepRefines ==
    ASSUME Inv, NEW c \in Clients, Step(c)
    PROVE  Gate!Next \/ UNCHANGED Gate!vars
<1>1. CASE PublishRegister(c)
  BY <1>1, RegisterRefines DEF PublishRegister
<1>2. CASE LegacyRegister(c)
  BY <1>2, RegisterRefines DEF LegacyRegister
<1>3. CASE CommitConfirm(c)
  <2>1. thread[c].sid \in Sessions /\ thread[c].ir \in Rules
    BY <1>3 DEF Inv, ThreadInv, Shape, Legacy, CommitConfirm
  <2>2. CASE Accepted(c)
    <3>1. Gate!Confirm(thread[c].sid, thread[c].ir)
      BY <1>3, <2>2 DEF CommitConfirm, Gate!Confirm
    <3>2. QED
      BY <2>1, <3>1 DEF Gate!Next
  <2>3. CASE ~Accepted(c)
    BY <1>3, <2>3 DEF CommitConfirm, Gate!vars
  <2>4. QED
    BY <2>2, <2>3
<1>4. CASE UNCHANGED <<confirmed, artifacts>>
  BY <1>4 DEF Gate!vars
<1>5. QED
  BY <1>1, <1>2, <1>3, <1>4
  DEF Step, CommitRewrite, CommitAnnotate, CommitDiagnose, CommitCompose,
      CommitGiveUp, CommitFinalize, CommitVerify, CommitPublish,
      ReadRequestedVerify, RunGate, PublishReuse, PublishNew, PublishVersion,
      PublishGatePasses, PublishGateFails, LegacyRecord

\* Every behaviour of the lifecycle is one of the gate: what a version holds is
\* taken once, from confirmed and passing rules or from a known-family plan.
THEOREM Refinement == Spec => GateSpec
<1>1. Init => Gate!Init
  BY DEF Init, Gate!Init, Versions
<1>2. Inv /\ [Next]_vars => [Gate!Next]_(Gate!vars)
  <2> SUFFICES ASSUME Inv, [Next]_vars
               PROVE  Gate!Next \/ UNCHANGED Gate!vars
    OBVIOUS
  <2>1. CASE \E c \in Clients : Step(c)
    BY <2>1, StepRefines
  <2>2. ASSUME NEW c \in Clients, NEW s \in Sessions, Tool(c, s) \/ Request(c, s)
        PROVE  UNCHANGED <<confirmed, artifacts>>
    BY <2>2, ToolsQuiet, RequestsQuiet DEF Quiet
  <2>3. CASE UNCHANGED <<confirmed, artifacts>>
    BY <2>3 DEF Gate!vars
  <2>4. QED
    BY <2>1, <2>2, <2>3 DEF Next, vars, ReadLegacy, Update, Restart
<1>3. QED
  BY <1>1, <1>2, Invariance, PTL DEF Spec, GateSpec, Gate!Spec

-----------------------------------------------------------------------------
(***************************************************************************)
(* Proofs about the catalogue of versions in DesignLifecycle: what is      *)
(* registered stays, a session that is registered names it, and no rules   *)
(* hold two versions of a game unless two publications of them overlap.    *)
(*                                                                         *)
(* A publication relies on two things between its steps.  When it is about *)
(* to write the session, the version holds its plan, and nobody takes that *)
(* away.  Until it registers, no version holds its rules, which another    *)
(* publication may spoil.                                                  *)
(***************************************************************************)

\* A publication that has found no version with its rules.
Searched == {"publish_version", "publish_gate", "publish_register"}

\* The version holds this plan.
Names(g, v, plan) == artifacts[g][v] # NoArtifact /\ artifacts[g][v].plan = plan

\* Before the session is written, the version is.
Holds(t) == t.pc = "publish_commit" => Names(t.game, t.version, t.cred.plan)

NamesInv ==
    /\ RegisteredNamesVersion
    /\ \A c \in Clients : Holds(thread[c])

\* The rules to be registered hold no version.
Unheld(t) == t.pc \in Searched => \A v \in Versions : ~HoldsRules(t.game, v, t.ir)

OneVersionInv ==
    /\ OneVersionPerRules
    /\ \A c \in Clients : Unheld(thread[c])

\* No two publications of the same rules of a game overlap.
NoOverlap ==
    \A c, d \in Clients :
        /\ thread[c].pc \in Searched /\ thread[d].pc \in Searched
        /\ thread[c].game = thread[d].game /\ thread[c].ir = thread[d].ir
        => c = d

--------------------------------------------------------------------------------
(* What a step does to the versions *)

\* Thread c takes version v of game g, which was free.
Takes(c, g, v) ==
    /\ PublishRegister(c) \/ LegacyRegister(c)
    /\ g = thread[c].game /\ v = thread[c].version
    /\ artifacts[g][v] = NoArtifact
    /\ \A h \in Games, w \in Versions :
          artifacts'[h][w] = IF h = g /\ w = v THEN thread[c].cred ELSE artifacts[h][w]

LEMMA RegisterTakes ==
    ASSUME Inv, NEW c \in Clients, PublishRegister(c) \/ LegacyRegister(c)
    PROVE  artifacts' = artifacts \/ \E g \in Games, v \in Versions : Takes(c, g, v)
<1> DEFINE t == thread[c]
<1>1. PICK next : Register(c, next)
  BY DEF PublishRegister, LegacyRegister
<1>2. t.pc \in {"publish_register", "legacy_register"}
  BY DEF PublishRegister, LegacyRegister
<1>3. TypeOK /\ t.game \in Games /\ t.version \in Versions
  BY <1>2, GameAssumption DEF Inv, ThreadInv, Shape, Legacy, Publishing
<1>4. CASE t.cred \in credentials /\ artifacts[t.game][t.version] = NoArtifact
  <2>1. artifacts' = [artifacts EXCEPT ![t.game][t.version] = t.cred]
    BY <1>1, <1>4 DEF Register
  <2> QED BY <1>3, <1>4, <2>1 DEF Takes, TypeOK
<1>5. CASE ~(t.cred \in credentials /\ artifacts[t.game][t.version] = NoArtifact)
  BY <1>1, <1>5 DEF Register
<1> QED BY <1>4, <1>5

\* Only a registration writes the catalogue.
LEMMA StepTakes ==
    ASSUME Inv, [Next]_vars
    PROVE  \/ artifacts' = artifacts
           \/ \E c \in Clients, g \in Games, v \in Versions : Takes(c, g, v)
<1>1. ASSUME NEW c \in Clients, NEW s \in Sessions, Tool(c, s) \/ Request(c, s)
      PROVE  artifacts' = artifacts
  BY <1>1, ToolsQuiet, RequestsQuiet DEF Quiet
<1>2. ASSUME NEW c \in Clients, Step(c)
      PROVE  artifacts' = artifacts \/ PublishRegister(c) \/ LegacyRegister(c)
  BY <1>2
  DEF Step, CommitRewrite, CommitAnnotate, CommitDiagnose, CommitCompose,
      CommitGiveUp, CommitFinalize, CommitVerify, CommitConfirm, CommitPublish,
      ReadRequestedVerify, RunGate, PublishReuse, PublishNew, PublishVersion,
      PublishGatePasses, PublishGateFails, LegacyRecord
<1>3. ASSUME NEW c \in Clients, Step(c)
      PROVE  \/ artifacts' = artifacts
             \/ \E g \in Games, v \in Versions : Takes(c, g, v)
  BY <1>2, <1>3, RegisterTakes
<1> QED BY <1>1, <1>3 DEF Next, vars, ReadLegacy, Update, Restart

\* What a version holds stays.
LEMMA VersionsStay ==
    ASSUME Inv, [Next]_vars, NEW g \in Games, NEW v \in Versions,
           artifacts[g][v] # NoArtifact
    PROVE  artifacts'[g][v] = artifacts[g][v]
BY StepTakes DEF Takes

\* A version, once registered, is immutable (registry.py).
THEOREM VersionsImmutable ==
    Spec => [][\A g \in Games, v \in Versions :
                  artifacts[g][v] # NoArtifact => artifacts'[g][v] = artifacts[g][v]]_vars
<1>1. Inv /\ [Next]_vars =>
          [\A g \in Games, v \in Versions :
              artifacts[g][v] # NoArtifact => artifacts'[g][v] = artifacts[g][v]]_vars
  BY VersionsStay
<1> QED BY <1>1, Invariance, PTL DEF Spec

--------------------------------------------------------------------------------
(* What a step does to a thread *)

\* The thread is in none of the later parts of a publication.
Early(t) == t.pc \notin Searched \cup {"publish_commit"}

LEMMA GoesTo ==
    ASSUME Inv, NEW c \in Clients, NEW t, Goes(c, t), NEW d \in Clients
    PROVE  thread'[d] = IF d = c THEN t ELSE thread[d]
BY DEF Inv, TypeOK, Goes

\* A read leads to the first step of a request.
LEMMA ReadsEarly ==
    ASSUME Inv, NEW c \in Clients, NEW s \in Sessions, Tool(c, s) \/ Request(c, s)
    PROVE  \E t : Goes(c, t) /\ Early(t)
<1>1. ASSUME NEW pc, NEW r, pc \notin Searched \cup {"publish_commit"}
      PROVE  /\ Early(Carry(s, pc, r))
             /\ \A x : Early([Carry(s, pc, r) EXCEPT !.exp = x])
             /\ \A x : Early([Carry(s, pc, r) EXCEPT !.cred = x])
             /\ \A x, y : Early([Carry(s, pc, r) EXCEPT !.exp = x, !.version = y])
  BY <1>1 DEF Carry, Early
<1>2. ASSUME RunGate(c, s)
      PROVE  \E t : Goes(c, t) /\ Early(t)
  BY <1>1, <1>2 DEF RunGate, Searched
<1>3. CASE Tool(c, s)
  BY <1>1, <1>2, <1>3
  DEF Tool, ReadPropose, ReadPatch, ReadAnnotate, ReadDiagnose, ReadCompose,
      ReadGiveUp, ReadFinalize, ReadVerify, Searched
<1>4. CASE Request(c, s)
  BY <1>1, <1>4 DEF Request, RequestVerify, ReadConfirm, ReadPublish, Searched
<1> QED BY <1>3, <1>4

LEMMA StepThread ==
    ASSUME Inv, [Next]_vars, NEW d \in Clients
    PROVE  \/ thread'[d] = thread[d]
           \/ Early(thread'[d])
           \/ PublishReuse(d) \/ PublishNew(d) \/ PublishVersion(d)
           \/ PublishGatePasses(d) \/ PublishRegister(d)
<1>0. Early(AtRest)
  BY DEF AtRest, Early, Searched
<1>1. ASSUME NEW c \in Clients, NEW t, Goes(c, t), Early(t)
      PROVE  thread'[d] = thread[d] \/ Early(thread'[d])
  BY <1>1, GoesTo
<1>2. ASSUME NEW c \in Clients, NEW s \in Sessions, Tool(c, s) \/ Request(c, s)
      PROVE  thread'[d] = thread[d] \/ Early(thread'[d])
  BY <1>1, <1>2, ReadsEarly
<1>3. ASSUME NEW c \in Clients,
             \/ CommitRewrite(c) \/ CommitAnnotate(c) \/ CommitDiagnose(c)
             \/ CommitCompose(c) \/ CommitGiveUp(c) \/ CommitFinalize(c)
             \/ CommitVerify(c) \/ CommitConfirm(c) \/ CommitPublish(c)
             \/ PublishGateFails(c)
      PROVE  thread'[d] = thread[d] \/ Early(thread'[d])
  BY <1>0, <1>1, <1>3
  DEF CommitRewrite, CommitAnnotate, CommitDiagnose, CommitCompose, CommitGiveUp,
      CommitFinalize, CommitVerify, CommitConfirm, CommitPublish, Commit,
      PublishGateFails
<1>4. ASSUME NEW c \in Clients, ReadRequestedVerify(c)
      PROVE  thread'[d] = thread[d] \/ Early(thread'[d])
  <2>1. PICK t : Goes(c, t) /\ t.pc \in {"verify", "give_up"}
    BY <1>4 DEF ReadRequestedVerify, RunGate, Carry
  <2> QED BY <1>1, <2>1 DEF Early, Searched
<1>5. ASSUME NEW c \in Clients, LegacyRecord(c) \/ LegacyRegister(c)
      PROVE  thread'[d] = thread[d] \/ Early(thread'[d])
  <2>1. thread[c] \in Thread
    BY DEF Inv, TypeOK
  <2>2. PICK t : Goes(c, t) /\ t.pc \in {"legacy_register", "idle"}
    BY <1>5, <2>1 DEF LegacyRecord, LegacyRegister, Register, Thread, AtRest
  <2> QED BY <1>1, <2>2 DEF Early, Searched
<1>6. ASSUME NEW c \in Clients,
             \/ PublishReuse(c) \/ PublishNew(c) \/ PublishVersion(c)
             \/ PublishGatePasses(c) \/ PublishRegister(c)
      PROVE  c = d \/ thread'[d] = thread[d]
  <2>1. PICK t : Goes(c, t)
    BY <1>6
    DEF PublishReuse, PublishNew, PublishVersion, PublishGatePasses, PublishRegister,
        Register
  <2> QED BY <2>1, GoesTo
<1>7. ASSUME NEW c \in Clients, Step(c)
      PROVE  \/ thread'[d] = thread[d]
             \/ Early(thread'[d])
             \/ PublishReuse(d) \/ PublishNew(d) \/ PublishVersion(d)
             \/ PublishGatePasses(d) \/ PublishRegister(d)
  BY <1>3, <1>4, <1>5, <1>6, <1>7 DEF Step
<1>8. ASSUME NEW c \in Clients, NEW g \in Games, NEW p \in LegacyPlans, ReadLegacy(c, g, p)
      PROVE  thread'[d] = thread[d] \/ Early(thread'[d])
  <2>1. PICK t : Goes(c, t) /\ t.pc = "legacy_record"
    BY <1>8 DEF ReadLegacy
  <2> QED BY <1>1, <2>1 DEF Early, Searched
<1>9. ASSUME NEW b \in Builds, Restart(b)
      PROVE  Early(thread'[d])
  BY <1>0, <1>9 DEF Restart
<1> QED BY <1>2, <1>7, <1>8, <1>9 DEF Next, vars, Update

--------------------------------------------------------------------------------
(* What a step does to a session *)

\* The session is not published.
Unpublished(s) ==
    /\ design'[s].pub = design[s].pub
    /\ design'[s].status = "registered" => design[s].status = "registered"

\* Thread c publishes session s.
Published(c, s) ==
    /\ thread[c].pc = "publish_commit"
    /\ thread[c].game = GameOf[s]
    /\ design'[s].pub.plan = thread[c].cred.plan
    /\ design'[s].pub.version = thread[c].version
    /\ design'[s].pub \in [ir : Rules, plan : Plans, version : Versions]

\* A commit writes the row of its session, if it writes at all.
LEMMA CommitWrites ==
    ASSUME Inv, NEW c \in Clients, NEW s \in Sessions, NEW row \in Design,
           Commit(c, row), thread[c].sid \in Sessions
    PROVE  \/ design'[s] = design[s]
           \/ /\ s = thread[c].sid /\ Row(c) = design[s]
              /\ design'[s].pub = row.pub /\ design'[s].status = row.status
<1>1. design \in [Sessions -> Design]
  BY DEF Inv, TypeOK
<1>2. CASE Accepted(c) /\ s = thread[c].sid
  <2>1. design'[s] = [row EXCEPT !.rev = design[s].rev + 1]
    BY <1>1, <1>2 DEF Commit
  <2> QED BY <1>2, <2>1 DEF Design, Row
<1>3. CASE ~(Accepted(c) /\ s = thread[c].sid)
  BY <1>1, <1>3 DEF Commit
<1> QED BY <1>2, <1>3

\* A commit that keeps what was published, and does not say it is.
LEMMA CommitUnpublished ==
    ASSUME Inv, NEW c \in Clients, NEW s \in Sessions, NEW row \in Design,
           Commit(c, row), thread[c].sid \in Sessions,
           row.pub = Row(c).pub, row.status \in {Row(c).status} \cup (Statuses \ {"registered"})
    PROVE  Unpublished(s)
BY CommitWrites DEF Unpublished

LEMMA CommitsUnpublished ==
    ASSUME Inv, NEW c \in Clients, NEW s \in Sessions,
           \/ CommitRewrite(c) \/ CommitAnnotate(c) \/ CommitDiagnose(c)
           \/ CommitCompose(c) \/ CommitGiveUp(c) \/ CommitFinalize(c)
           \/ CommitVerify(c) \/ CommitConfirm(c)
    PROVE  Unpublished(s)
<1>1. PICK t, old : t = thread[c] /\ old = Row(c)
  OBVIOUS
<1>2. TypeOK /\ t \in Thread /\ Shape(t)
  BY <1>1 DEF Inv, ThreadInv
<1>3. t.sid \in Sessions /\ old \in Design
  BY <1>1, <1>2
  DEF Shape, Legacy, TypeOK, Row, CommitRewrite, CommitAnnotate, CommitDiagnose,
      CommitCompose, CommitGiveUp, CommitFinalize, CommitVerify, CommitConfirm
<1>4. ASSUME NEW status \in Statuses \ {"registered"},
             Commit(c, [old EXCEPT !.status = status])
      PROVE  Unpublished(s)
  <2>1. PICK row : row = [old EXCEPT !.status = status]
    OBVIOUS
  <2>2. row \in Design /\ row.pub = old.pub /\ row.status = status
    BY <1>3, <2>1 DEF Design
  <2> QED BY <1>1, <1>3, <1>4, <2>1, <2>2, CommitUnpublished
<1>5. CASE CommitRewrite(c)
  <2>1. t.ir \in Rules
    BY <1>1, <1>2, <1>5 DEF CommitRewrite, Shape
  <2>2. PICK reqs \in SUBSET Clauses : reqs = ClausesOf[t.ir]
    BY <2>1, RulesAssumption
  <2>3. PICK row : row = [old EXCEPT !.ir = t.ir, !.status = "draft", !.reqs = reqs,
                                     !.ver = NoEvidence]
    OBVIOUS
  <2>4. row \in Design /\ row.pub = old.pub /\ row.status = "draft"
    BY <1>3, <2>1, <2>3 DEF Design, Statuses
  <2>5. Commit(c, row)
    BY <1>1, <1>5, <2>2, <2>3 DEF CommitRewrite
  <2> QED BY <1>1, <1>3, <2>4, <2>5, CommitUnpublished DEF Statuses
<1>6. CASE CommitAnnotate(c)
  BY <1>1, <1>3, <1>6, CommitUnpublished DEF CommitAnnotate
<1>7. CASE CommitDiagnose(c) \/ CommitGiveUp(c) \/ CommitFinalize(c)
  BY <1>1, <1>4, <1>7 DEF CommitDiagnose, CommitGiveUp, CommitFinalize, Statuses
<1>8. CASE CommitCompose(c)
  <2>1. PICK row : row = [old EXCEPT !.status = "compiled", !.ver = NoEvidence]
    OBVIOUS
  <2>2. row \in Design /\ row.pub = old.pub /\ row.status = "compiled"
    BY <1>3, <2>1 DEF Design, Statuses
  <2>3. Commit(c, row)
    BY <1>1, <1>8, <2>1 DEF CommitCompose
  <2> QED BY <1>1, <1>3, <2>2, <2>3, CommitUnpublished DEF Statuses
<1>9. CASE CommitVerify(c)
  <2>1. PICK status \in {"verified", "failed"} :
          status = IF Ok(t.cred) THEN "verified" ELSE "failed"
    OBVIOUS
  <2>2. PICK row : row = [old EXCEPT !.ver = t.cred, !.status = status]
    OBVIOUS
  <2>3. t.cred \in Credential
    BY <1>1, <1>2, <1>9 DEF CommitVerify, Shape
  <2>4. row \in Design /\ row.pub = old.pub /\ row.status = status
    BY <1>3, <2>2, <2>3 DEF Design, Statuses
  <2>5. Commit(c, row)
    BY <1>1, <1>9, <2>1, <2>2 DEF CommitVerify
  <2> QED BY <1>1, <1>3, <2>4, <2>5, CommitUnpublished DEF Statuses
<1>10. CASE CommitConfirm(c)
  <2>1. PICK row : row = [old EXCEPT !.conf = t.ir, !.status = "awaiting_confirmation"]
    OBVIOUS
  <2>2. t.ir \in Rules
    BY <1>1, <1>2, <1>10 DEF CommitConfirm, Shape
  <2>3. row \in Design /\ row.pub = old.pub /\ row.status = "awaiting_confirmation"
    BY <1>3, <2>1, <2>2 DEF Design, Statuses
  <2>4. Commit(c, row)
    BY <1>1, <1>10, <2>1 DEF CommitConfirm
  <2> QED BY <1>1, <1>3, <2>3, <2>4, CommitUnpublished DEF Statuses
<1> QED BY <1>5, <1>6, <1>7, <1>8, <1>9, <1>10

LEMMA CommitPublishes ==
    ASSUME Inv, NEW c \in Clients, NEW s \in Sessions, CommitPublish(c)
    PROVE  Unpublished(s) \/ Published(c, s)
<1>1. PICK t, old : t = thread[c] /\ old = Row(c)
  OBVIOUS
<1>2. TypeOK /\ t \in Thread /\ Shape(t) /\ t.pc = "publish_commit"
  BY <1>1 DEF Inv, ThreadInv, CommitPublish
<1>3. /\ t.sid \in Sessions /\ old \in Design /\ t.game = GameOf[t.sid]
      /\ t.ir \in Rules /\ t.cred \in Credential /\ t.version \in Versions
  BY <1>1, <1>2 DEF Shape, Legacy, Publishing, TypeOK, Row
<1>4. PICK pub : pub = [ir |-> t.ir, plan |-> t.cred.plan, version |-> t.version]
  OBVIOUS
<1>5. /\ pub \in [ir : Rules, plan : Plans, version : Versions]
      /\ pub.plan = t.cred.plan /\ pub.version = t.version
  BY <1>3, <1>4 DEF Credential
<1>6. PICK row : row = [old EXCEPT !.status = "registered", !.pub = pub]
  OBVIOUS
<1>7. row \in Design /\ row.pub = pub
  BY <1>3, <1>5, <1>6 DEF Design, Statuses
<1>8. Commit(c, row)
  BY <1>1, <1>4, <1>6 DEF CommitPublish
<1>9. design'[s] = design[s] \/ (s = t.sid /\ design'[s].pub = pub)
  BY <1>1, <1>3, <1>7, <1>8, CommitWrites
<1> QED BY <1>1, <1>2, <1>3, <1>5, <1>9 DEF Unpublished, Published

LEMMA StepSession ==
    ASSUME Inv, [Next]_vars, NEW s \in Sessions
    PROVE  Unpublished(s) \/ \E c \in Clients : Published(c, s)
<1>1. ASSUME NEW c \in Clients, NEW q \in Sessions, Tool(c, q) \/ Request(c, q)
      PROVE  UNCHANGED design
  BY <1>1, ToolsQuiet, RequestsQuiet DEF Quiet
<1>2. ASSUME NEW c \in Clients, Step(c)
      PROVE  Unpublished(s) \/ Published(c, s)
  <2>1. CASE \/ CommitRewrite(c) \/ CommitAnnotate(c) \/ CommitDiagnose(c)
             \/ CommitCompose(c) \/ CommitGiveUp(c) \/ CommitFinalize(c)
             \/ CommitVerify(c) \/ CommitConfirm(c)
    BY <2>1, CommitsUnpublished
  <2>2. CASE CommitPublish(c)
    BY <2>2, CommitPublishes
  <2>3. CASE UNCHANGED design
    BY <2>3 DEF Unpublished
  <2> QED BY <1>2, <2>1, <2>2, <2>3
          DEF Step, ReadRequestedVerify, RunGate, PublishReuse, PublishNew,
              PublishVersion, PublishGatePasses, PublishGateFails, PublishRegister,
              LegacyRecord, LegacyRegister, Register
<1>3. ASSUME NEW q \in Sessions, NEW r \in Rules \cup {NoIR},
             NEW status \in {design[q].status, "diagnosed"}, Update(q, r, status)
      PROVE  Unpublished(s)
  <2>1. design \in [Sessions -> Design] /\ design[s] \in Design
    BY DEF Inv, TypeOK
  <2>2. CASE s = q
    <3>1. PICK ir, n : design'[s] = [design[s] EXCEPT !.ir = ir, !.status = status, !.rev = n]
      BY <1>3, <2>1, <2>2 DEF Update
    <3>2. design'[s].pub = design[s].pub /\ design'[s].status = status
      BY <2>1, <3>1 DEF Design
    <3> QED BY <2>2, <3>2 DEF Unpublished
  <2>3. CASE s # q
    BY <1>3, <2>1, <2>3 DEF Update, Unpublished
  <2> QED BY <2>2, <2>3
<1>4. CASE UNCHANGED design
  BY <1>4 DEF Unpublished
<1> QED BY <1>1, <1>2, <1>3, <1>4 DEF Next, vars, ReadLegacy, Restart

--------------------------------------------------------------------------------
(* A session that is registered names a version *)

\* A name stays good.
LEMMA NamesStay ==
    ASSUME Inv, [Next]_vars, NEW g \in Games, NEW v \in Versions, NEW plan, Names(g, v, plan)
    PROVE  Names(g, v, plan)'
BY VersionsStay DEF Names

\* A registration that goes on leaves the plan in its version.
LEMMA RegisterHolds ==
    ASSUME Inv, [Next]_vars, NEW d \in Clients, PublishReuse(d) \/ PublishRegister(d)
    PROVE  Holds(thread[d])'
<1>1. PICK t : t = thread[d]
  OBVIOUS
<1>2. t \in Thread /\ Shape(t) /\ TypeOK
  BY <1>1 DEF Inv, ThreadInv
<1>3. t.game \in Games
  BY <1>1, <1>2, GameAssumption
  DEF Shape, Legacy, Publishing, PublishReuse, PublishRegister
<1>4. CASE PublishReuse(d)
  <2>1. PICK v \in Versions :
          /\ HoldsRules(t.game, v, t.ir)
          /\ Goes(d, [t EXCEPT !.pc = "publish_commit", !.version = v,
                               !.cred = artifacts[t.game][v]])
    BY <1>1, <1>4 DEF PublishReuse
  <2>2. thread'[d] = [t EXCEPT !.pc = "publish_commit", !.version = v,
                               !.cred = artifacts[t.game][v]]
    BY <2>1, GoesTo
  <2>3. /\ thread'[d].game = t.game /\ thread'[d].version = v
        /\ thread'[d].cred = artifacts[t.game][v]
    BY <1>2, <2>2 DEF Thread
  <2>4. artifacts'[t.game][v] = artifacts[t.game][v] /\ artifacts[t.game][v] # NoArtifact
    BY <1>3, <2>1, VersionsStay DEF HoldsRules
  <2> QED BY <2>3, <2>4 DEF Holds, Names
<1>5. CASE PublishRegister(d)
  <2>1. PICK next : next = [t EXCEPT !.pc = "publish_commit"]
    OBVIOUS
  <2>2. Register(d, next)
    BY <1>1, <1>5, <2>1 DEF PublishRegister
  <2>3. t.version \in Versions /\ t.cred \in Credential
    BY <1>1, <1>2, <1>5 DEF PublishRegister, Shape
  <2>4. PICK held : held = artifacts[t.game][t.version]
    OBVIOUS
  <2>5. CASE t.cred \in credentials /\ held = NoArtifact
    <3>1. artifacts'[t.game][t.version] = t.cred /\ thread'[d] = next
      BY <1>1, <1>2, <1>3, <2>2, <2>3, <2>4, <2>5, GoesTo DEF Register, TypeOK
    <3>2. next.game = t.game /\ next.version = t.version /\ next.cred = t.cred
      BY <1>2, <2>1 DEF Thread
    <3> QED BY <2>3, <3>1, <3>2, SentinelAssumption DEF Holds, Names
  <2>6. CASE t.cred \in credentials /\ held # NoArtifact /\ held.plan = t.cred.plan
    <3>1. artifacts'[t.game][t.version] = held /\ thread'[d] = next
      BY <1>1, <2>2, <2>4, <2>6, GoesTo DEF Register
    <3>2. next.game = t.game /\ next.version = t.version /\ next.cred = t.cred
      BY <1>2, <2>1 DEF Thread
    <3> QED BY <2>6, <3>1, <3>2 DEF Holds, Names
  <2>7. CASE ~(t.cred \in credentials /\ (held = NoArtifact \/ held.plan = t.cred.plan))
    <3>1. thread'[d] = AtRest
      BY <1>1, <2>2, <2>4, <2>7, GoesTo DEF Register
    <3> QED BY <3>1 DEF Holds, AtRest
  <2> QED BY <2>5, <2>6, <2>7
<1> QED BY <1>4, <1>5

\* A publication that finds no version goes on with the same rules.
LEMMA SearchGoesOn ==
    ASSUME Inv, NEW d \in Clients,
           PublishNew(d) \/ PublishVersion(d) \/ PublishGatePasses(d)
    PROVE  /\ thread'[d].pc \in Searched
           /\ thread'[d].game = thread[d].game
           /\ thread'[d].ir = thread[d].ir
<1>1. PICK t : t = thread[d]
  OBVIOUS
<1>2. t \in Thread
  BY <1>1 DEF Inv, TypeOK
<1>3. \A p : /\ [t EXCEPT !.pc = p].pc = p
             /\ [t EXCEPT !.pc = p].game = t.game
             /\ [t EXCEPT !.pc = p].ir = t.ir
  BY <1>2 DEF Thread
<1>4. \A v : /\ [t EXCEPT !.pc = "publish_gate", !.version = v].pc = "publish_gate"
             /\ [t EXCEPT !.pc = "publish_gate", !.version = v].game = t.game
             /\ [t EXCEPT !.pc = "publish_gate", !.version = v].ir = t.ir
  BY <1>2 DEF Thread
<1>5. \A x : /\ [t EXCEPT !.pc = "publish_register", !.cred = x].pc = "publish_register"
             /\ [t EXCEPT !.pc = "publish_register", !.cred = x].game = t.game
             /\ [t EXCEPT !.pc = "publish_register", !.cred = x].ir = t.ir
  BY <1>2 DEF Thread
<1>6. CASE PublishNew(d)
  <2>1. PICK p \in {"publish_version", "publish_gate"} : Goes(d, [t EXCEPT !.pc = p])
    BY <1>1, <1>6 DEF PublishNew
  <2>2. thread'[d] = [t EXCEPT !.pc = p]
    BY <2>1, GoesTo
  <2> QED BY <1>1, <1>3, <2>1, <2>2 DEF Searched
<1>7. CASE PublishVersion(d)
  <2>1. PICK v \in Versions : Goes(d, [t EXCEPT !.pc = "publish_gate", !.version = v])
    BY <1>1, <1>7 DEF PublishVersion
  <2>2. thread'[d] = [t EXCEPT !.pc = "publish_gate", !.version = v]
    BY <2>1, GoesTo
  <2> QED BY <1>1, <1>4, <2>2 DEF Searched
<1>8. CASE PublishGatePasses(d)
  <2>1. PICK x : Goes(d, [t EXCEPT !.pc = "publish_register", !.cred = x])
    BY <1>1, <1>8 DEF PublishGatePasses
  <2>2. thread'[d] = [t EXCEPT !.pc = "publish_register", !.cred = x]
    BY <2>1, GoesTo
  <2> QED BY <1>1, <1>5, <2>2 DEF Searched
<1> QED BY <1>6, <1>7, <1>8

LEMMA HoldsStep ==
    ASSUME Inv, [Next]_vars, NEW d \in Clients, Holds(thread[d])
    PROVE  Holds(thread[d])'
<1>1. thread[d] \in Thread /\ Shape(thread[d])
  BY DEF Inv, ThreadInv
<1>2. CASE thread'[d] = thread[d]
  <2> SUFFICES ASSUME thread[d].pc = "publish_commit"
               PROVE  Names(thread[d].game, thread[d].version, thread[d].cred.plan)'
    BY <1>2 DEF Holds
  <2>1. thread[d].game \in Games /\ thread[d].version \in Versions
    BY <1>1, GameAssumption DEF Shape, Legacy, Publishing
  <2>2. Names(thread[d].game, thread[d].version, thread[d].cred.plan)
    BY DEF Holds
  <2> QED BY <1>2, <2>1, <2>2, NamesStay DEF Names
<1>3. CASE Early(thread'[d])
  BY <1>3 DEF Early, Holds
<1>4. CASE PublishNew(d) \/ PublishVersion(d) \/ PublishGatePasses(d)
  BY <1>4, SearchGoesOn DEF Holds, Searched
<1> QED BY <1>2, <1>3, <1>4, StepThread, RegisterHolds

LEMMA NamesStep == Inv /\ NamesInv /\ [Next]_vars => NamesInv'
<1> SUFFICES ASSUME Inv, NamesInv, [Next]_vars PROVE NamesInv'
  OBVIOUS
<1>1. \A d \in Clients : Holds(thread[d])'
  BY HoldsStep DEF NamesInv
<1>2. ASSUME NEW s \in Sessions
      PROVE  /\ design'[s].status = "registered" => design'[s].pub # NoEvidence
             /\ design'[s].pub # NoEvidence =>
                    Names(GameOf[s], design[s].pub.version, design[s].pub.plan)'
  <2>1. GameOf[s] \in Games /\ design[s] \in Design
    BY GameAssumption DEF Inv, TypeOK
  <2>2. CASE Unpublished(s)
    <3>1. design[s].pub # NoEvidence => Names(GameOf[s], design[s].pub.version, design[s].pub.plan)
      BY DEF NamesInv, RegisteredNamesVersion, Names
    <3>2. design[s].pub # NoEvidence => design[s].pub.version \in Versions
      BY <2>1 DEF Design
    <3>3. design[s].status = "registered" => design[s].pub # NoEvidence
      BY DEF NamesInv, RegisteredNamesVersion
    <3> QED BY <2>1, <2>2, <3>1, <3>2, <3>3, NamesStay DEF Unpublished, Names
  <2>3. ASSUME NEW c \in Clients, Published(c, s)
        PROVE  /\ design'[s].pub # NoEvidence
               /\ Names(GameOf[s], design[s].pub.version, design[s].pub.plan)'
    <3>1. /\ thread[c].pc = "publish_commit" /\ thread[c].game = GameOf[s]
          /\ design'[s].pub.plan = thread[c].cred.plan
          /\ design'[s].pub.version = thread[c].version
          /\ design'[s].pub # NoEvidence
      BY <2>3, SentinelAssumption DEF Published
    <3>2. Names(GameOf[s], thread[c].version, thread[c].cred.plan)
      BY <3>1 DEF NamesInv, Holds
    <3>3. thread[c].version \in Versions
      BY <3>1 DEF Inv, ThreadInv, Shape
    <3>4. /\ artifacts'[GameOf[s]][thread[c].version] # NoArtifact
          /\ artifacts'[GameOf[s]][thread[c].version].plan = thread[c].cred.plan
      BY <2>1, <3>2, <3>3, VersionsStay DEF Names
    <3> QED BY <3>1, <3>4 DEF Names
  <2> QED BY <2>2, <2>3, StepSession
<1>3. RegisteredNamesVersion'
  BY <1>2 DEF RegisteredNamesVersion, Names
<1> QED BY <1>1, <1>3 DEF NamesInv

LEMMA NamesInit == Init => NamesInv
BY DEF Init, NamesInv, RegisteredNamesVersion, Holds, AtRest

THEOREM NamesInvariance == Spec => []NamesInv
BY Invariance, NamesInit, NamesStep, PTL DEF Spec

\* A session that says it is registered names a version that exists and holds the
\* plan it names, whatever requests overlap and wherever a crash falls between the
\* write of the version and the write of the session (publish_design).
THEOREM RegisteredIsReal == Spec => []RegisteredNamesVersion
<1>1. NamesInv => RegisteredNamesVersion
  BY DEF NamesInv
<1> QED BY <1>1, NamesInvariance, PTL

--------------------------------------------------------------------------------
(* No rules hold two versions *)

\* The rules of a thread that registers are those it has searched for.
LEMMA TakesRules ==
    ASSUME Inv, NEW c \in Clients, NEW g \in Games, NEW v \in Versions, Takes(c, g, v),
           thread[c].cred.ir # NoIR
    PROVE  /\ thread[c].pc \in Searched
           /\ thread[c].ir = thread[c].cred.ir
           /\ thread[c].game = g
BY DEF Takes, PublishRegister, LegacyRegister, Inv, ThreadInv, Shape, Authorised,
       Legacy, Searched

LEMMA UnheldStep ==
    ASSUME Inv, NoOverlap, [Next]_vars, NEW d \in Clients, Unheld(thread[d])
    PROVE  Unheld(thread[d])'
<1>1. PICK t : t = thread[d]
  OBVIOUS
<1>2. t \in Thread /\ Shape(t)
  BY <1>1 DEF Inv, ThreadInv
<1>3. CASE thread'[d] = t
  <2> SUFFICES ASSUME t.pc \in Searched, NEW v \in Versions, HoldsRules(t.game, v, t.ir)'
               PROVE  FALSE
    BY <1>3 DEF Unheld, HoldsRules
  <2>1. t.game \in Games /\ t.ir \in Rules
    BY <1>2, GameAssumption DEF Shape, Legacy, Publishing, Searched
  <2>2. ~HoldsRules(t.game, v, t.ir)
    BY <1>1 DEF Unheld
  <2>3. artifacts' # artifacts
    BY <2>2 DEF HoldsRules
  <2>4. PICK c \in Clients, g \in Games, w \in Versions : Takes(c, g, w)
    BY <2>3, StepTakes
  <2>5. g = t.game /\ thread[c].cred.ir = t.ir
    BY <2>1, <2>2, <2>4 DEF Takes, HoldsRules
  <2>6. thread[c].pc \in Searched /\ thread[c].ir = t.ir /\ thread[c].game = t.game
    BY <2>1, <2>4, <2>5, TakesRules, RulesAssumption
  <2>7. c = d
    BY <1>1, <2>6 DEF NoOverlap
  <2>8. thread'[c].pc \notin Searched
    <3>1. PICK u : Goes(c, u) /\ u.pc \in {"publish_commit", "idle"}
      <4>1. PublishRegister(c)
        BY <1>2, <1>1, <2>4, <2>6, <2>7 DEF Takes, LegacyRegister, Searched
      <4>2. [t EXCEPT !.pc = "publish_commit"].pc = "publish_commit" /\ AtRest.pc = "idle"
        BY <1>2 DEF Thread, AtRest
      <4> QED BY <1>1, <2>7, <4>1, <4>2 DEF PublishRegister, Register
    <3> QED BY <3>1, GoesTo DEF Searched
  <2> QED BY <1>3, <2>7, <2>8
<1>4. CASE Early(thread'[d])
  BY <1>4 DEF Early, Unheld
<1>5. CASE PublishReuse(d) \/ PublishRegister(d)
  <2>1. [t EXCEPT !.pc = "publish_commit"].pc = "publish_commit" /\ AtRest.pc = "idle"
    BY <1>2 DEF Thread, AtRest
  <2>2. CASE PublishReuse(d)
    <3>0. PICK v \in Versions : \E x : Goes(d, [t EXCEPT !.pc = "publish_commit",
                                                         !.version = v, !.cred = x])
      BY <1>1, <2>2 DEF PublishReuse
    <3>1. PICK x : Goes(d, [t EXCEPT !.pc = "publish_commit", !.version = v, !.cred = x])
      BY <3>0
    <3>2. thread'[d] = [t EXCEPT !.pc = "publish_commit", !.version = v, !.cred = x]
      BY <3>1, GoesTo
    <3>3. thread'[d].pc = "publish_commit"
      BY <1>2, <3>2 DEF Thread
    <3> QED BY <3>3 DEF Unheld, Searched
  <2>3. CASE PublishRegister(d)
    <3>1. Goes(d, [t EXCEPT !.pc = "publish_commit"]) \/ Goes(d, AtRest)
      BY <1>1, <2>3 DEF PublishRegister, Register
    <3> QED BY <2>1, <3>1, GoesTo DEF Unheld, Searched
  <2> QED BY <1>5, <2>2, <2>3
<1>6. CASE PublishNew(d) \/ PublishVersion(d) \/ PublishGatePasses(d)
  <2>1. /\ artifacts' = artifacts
        /\ \A v \in Versions : ~HoldsRules(t.game, v, t.ir)
    BY <1>1, <1>6 DEF PublishNew, PublishVersion, PublishGatePasses, Unheld, Searched
  <2>2. thread'[d].game = t.game /\ thread'[d].ir = t.ir
    BY <1>1, <1>6, SearchGoesOn
  <2> QED BY <2>1, <2>2 DEF Unheld, HoldsRules
<1> QED BY <1>1, <1>3, <1>4, <1>5, <1>6, StepThread

LEMMA OneVersionStep == Inv /\ NoOverlap /\ OneVersionInv /\ [Next]_vars => OneVersionInv'
<1> SUFFICES ASSUME Inv, NoOverlap, OneVersionInv, [Next]_vars PROVE OneVersionInv'
  OBVIOUS
<1>1. \A d \in Clients : Unheld(thread[d])'
  BY UnheldStep DEF OneVersionInv
<1>2. ASSUME artifacts' = artifacts PROVE OneVersionPerRules'
  BY <1>2 DEF OneVersionInv, OneVersionPerRules, HoldsRules
<1>3. ASSUME NEW c \in Clients, NEW g \in Games, NEW v \in Versions, Takes(c, g, v)
      PROVE  OneVersionPerRules'
  <2>1. /\ artifacts'[g][v] = thread[c].cred
        /\ \A h \in Games, w \in Versions :
              h # g \/ w # v => artifacts'[h][w] = artifacts[h][w]
    BY <1>3 DEF Takes
  <2>2. ASSUME thread[c].cred.ir # NoIR, NEW w \in Versions
        PROVE  ~HoldsRules(g, w, thread[c].cred.ir)
    BY <1>3, <2>2, TakesRules DEF OneVersionInv, Unheld
  <2>3. ASSUME NEW h \in Games, NEW x \in Versions, NEW y \in Versions,
               artifacts'[h][x] # NoArtifact, artifacts'[h][y] # NoArtifact,
               artifacts'[h][x].ir = artifacts'[h][y].ir, artifacts'[h][x].ir # NoIR
        PROVE  x = y
    <3>1. CASE h = g /\ x = v
      BY <2>1, <2>2, <2>3, <3>1 DEF HoldsRules
    <3>2. CASE h = g /\ y = v
      BY <2>1, <2>2, <2>3, <3>2 DEF HoldsRules
    <3>3. CASE h # g \/ (x # v /\ y # v)
      BY <2>1, <2>3, <3>3 DEF OneVersionInv, OneVersionPerRules, HoldsRules
    <3> QED BY <3>1, <3>2, <3>3
  <2> QED BY <2>3 DEF OneVersionPerRules, HoldsRules
<1>4. OneVersionPerRules'
  BY <1>2, <1>3, StepTakes
<1> QED BY <1>1, <1>4 DEF OneVersionInv

LEMMA OneVersionInit == Init => OneVersionInv
BY DEF Init, OneVersionInv, OneVersionPerRules, Unheld, Searched, AtRest

\* As long as no two publications of the same rules of a game overlap, no rules
\* hold two versions, with any number of threads and wherever a crash falls
\* (find_artifact_by_ir, and the gate that runs after it).
THEOREM OneVersion == Spec /\ []NoOverlap => []OneVersionPerRules
<1>1. OneVersionInv => OneVersionPerRules
  BY DEF OneVersionInv
<1> QED BY <1>1, Invariance, OneVersionInit, OneVersionStep, PTL DEF Spec
=============================================================================
