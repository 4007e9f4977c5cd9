---------------------------- MODULE DesignLifecycle ----------------------------
(***************************************************************************)
(* The design lifecycle of pocker_agent: a card game is proposed as rules, *)
(* compiled, verified by the host, confirmed by the user and published as  *)
(* an immutable version.                                                   *)
(*                                                                         *)
(* The HTTP handlers of app.py are synchronous functions that FastAPI runs *)
(* on a pool of threads, and the tools of DesignService run inside them.   *)
(* No handler holds a lock from its first read to its last write: each     *)
(* store operation is atomic on its own (a lock and one SQLite             *)
(* transaction), and what a handler read may be stale when it commits.  A  *)
(* thread here performs one handler or one tool, one store operation per   *)
(* step, and its program point names the operation it performs next.       *)
(*                                                                         *)
(* Abstractions.  A rules IR is an element of Rules and stands for its     *)
(* hash.  Compiling is PlanOf, a function of the rules and of the running  *)
(* host build (compiler and registry); NoPlan is a CompileError.  The      *)
(* formal gate is deterministic: it passes exactly on Passing.  The parts  *)
(* of a session that no guard of these handlers reads (description,        *)
(* diagnosis, history, chat, the summary of the candidate) are left out,   *)
(* and so are request ids.                                                 *)
(***************************************************************************)
EXTENDS Integers

CONSTANTS
    Clients,      \* the server threads that may be busy at the same time
    Sessions,     \* the design sessions
    Games,        \* the game ids
    GameOf,       \* the game id a design session was created for
    Rules,        \* the rules IRs, by hash
    Composed,     \* the composed ones: only these can be published
    NoIR,         \* a session's ir before the first proposal
    Plans,        \* the plan hashes
    NoPlan,       \* compiling fails
    PlanOf,       \* PlanOf[r][b]: what build b compiles rules r to
    Passing,      \* the <<rules, build>> pairs that pass the formal gate
    LegacyPlans,  \* the known-family plans of the legacy agent loop
    Clauses,      \* requirement clauses
    ClausesOf,    \* the clauses of a rules IR
    NoEvidence,   \* an absent credential, confirmation or published summary
    NoArtifact,   \* a free version
    MaxBuild,     \* bound: host builds
    MaxRevision,  \* bound: the revision of a design session
    MaxVersion    \* bound: versions of a game

Builds == 1 .. MaxBuild
Versions == 1 .. MaxVersion

ASSUME BoundsAssumption ==
    MaxBuild \in Nat \ {0} /\ MaxRevision \in Nat /\ MaxVersion \in Nat \ {0}

ASSUME RulesAssumption ==
    /\ NoIR \notin Rules
    /\ Composed \subseteq Rules
    /\ ClausesOf \in [Rules -> SUBSET Clauses]

ASSUME GateAssumption ==
    /\ NoPlan \notin Plans
    /\ LegacyPlans \subseteq Plans
    /\ PlanOf \in [Rules -> [Builds -> Plans \cup {NoPlan}]]
    /\ Passing \subseteq Rules \X Builds
    /\ \A pass \in Passing : PlanOf[pass[1]][pass[2]] # NoPlan

ASSUME GameAssumption == GameOf \in [Sessions -> Games]

\* What a host verification is bound to: core/artifacts.py hashes exactly this
\* into verification_id.  A legacy plan is verified without an ir.
Credential == [ir : Rules \cup {NoIR}, plan : Plans, build : Builds]

ASSUME SentinelAssumption ==
    /\ NoEvidence \notin Credential
    /\ NoArtifact \notin Credential
    /\ NoEvidence \notin Rules
    /\ NoEvidence \notin [ir : Rules, plan : Plans, version : Versions]

VARIABLES
    design,       \* the durable rows of core_design_sessions
    credentials,  \* core_verifications: the credentials the host recorded
    artifacts,    \* core_artifacts: what each version of each game holds
    thread,       \* the request each thread is in the middle of
    build,        \* the host build that is running
    confirmed,    \* history: the rules a user confirmed, by session
    fresh         \* history: no propose_ir or patch_ir has rewritten the rules
                  \* of the session since the user's last confirmation in it

vars == <<design, credentials, artifacts, thread, build, confirmed, fresh>>

Statuses == {"draft", "diagnosed", "compiled", "verified",
             "awaiting_confirmation", "registered", "failed"}

Design ==
    [rev    : Nat,
     ir     : Rules \cup {NoIR},
     status : Statuses,
     reqs   : SUBSET Clauses,
     ver    : Credential \cup {NoEvidence},
     conf   : Rules \cup {NoEvidence},
     pub    : [ir : Rules, plan : Plans, version : Versions] \cup {NoEvidence}]

\* The program points: the store operation the thread performs next.
Points ==
    {"idle", "rewrite", "annotate", "diagnose", "compose", "give_up",
     "verify_read", "verify", "finalize", "confirm", "publish_find",
     "publish_version", "publish_gate", "publish_register", "publish_commit",
     "legacy_record", "legacy_register"}

Thread ==
    [pc      : Points,
     sid     : Sessions \cup {NoEvidence},   \* the design session it serves
     game    : Games \cup {NoEvidence},      \* the game it registers under
     ir      : Rules \cup {NoIR},            \* the rules it carries
     cred    : Credential \cup {NoEvidence}, \* the verification it ran
     exp     : Nat,                          \* the revision it commits at
     version : 0 .. MaxVersion]              \* 0: not chosen yet

AtRest ==
    [pc |-> "idle", sid |-> NoEvidence, game |-> NoEvidence, ir |-> NoIR,
     cred |-> NoEvidence, exp |-> 0, version |-> 0]

Init ==
    /\ design = [s \in Sessions |->
           [rev |-> 0, ir |-> NoIR, status |-> "draft", reqs |-> {},
            ver |-> NoEvidence, conf |-> NoEvidence, pub |-> NoEvidence]]
    /\ credentials = {}
    /\ artifacts = [g \in Games |-> [v \in Versions |-> NoArtifact]]
    /\ thread = [c \in Clients |-> AtRest]
    /\ build = 1
    /\ confirmed = {}
    /\ fresh = [s \in Sessions |-> FALSE]

--------------------------------------------------------------------------------
(* Evidence *)

Compiled(r) == PlanOf[r][build]
Compiles(r) == Compiled(r) # NoPlan

\* Mutant of Verified: the plan of the build that first compiled the rules.
VerifiedOnce(r) == [ir |-> r, plan |-> PlanOf[r][1], build |-> build]

\* The credential the gate issues when this build verifies r.
Verified(r) == [ir |-> r, plan |-> Compiled(r), build |-> build]

Ok(cred) == <<cred.ir, cred.build>> \in Passing

\* The stored evidence passed and names the session's current rules.
Binds(s) ==
    /\ design[s].ver # NoEvidence
    /\ Ok(design[s].ver)
    /\ design[s].ver.ir = design[s].ir

--------------------------------------------------------------------------------
(* The two halves of a store access *)

\* The thread is free and the session is read; its bound leaves room for a write.
Reads(c, s) ==
    /\ thread[c].pc = "idle"
    /\ design[s].rev < MaxRevision

Goes(c, t) == thread' = [thread EXCEPT ![c] = t]

\* What the thread carries from the read of session s to its next operation.
Carry(s, pc, r) ==
    [pc |-> pc, sid |-> s, game |-> GameOf[s], ir |-> r, cred |-> NoEvidence,
     exp |-> design[s].rev, version |-> 0]

\* Mutant of Accepted: no optimistic lock.
AcceptedAlways(c) == design[thread[c].sid] # NoEvidence

\* DesignStore.commit: the changed row is written at the expected revision, or
\* stale_revision is raised and nothing changes.
Accepted(c) == design[thread[c].sid].rev = thread[c].exp

Commit(c, row) ==
    /\ Goes(c, AtRest)
    /\ design' = IF Accepted(c)
                 THEN [design EXCEPT ![thread[c].sid] =
                          [row EXCEPT !.rev = design[thread[c].sid].rev + 1]]
                 ELSE design

Row(c) == design[thread[c].sid]

\* Mutant of Expected: an absent expected_revision is not defaulted.
ExpectedRaw(s, want) == want

\* A client's expected_revision is absent or one that it has read before.
Expected(s, want) == IF want = NoEvidence THEN design[s].rev ELSE want
Wants(s) == {NoEvidence} \cup 0 .. design[s].rev

--------------------------------------------------------------------------------
(* The design tools and POST /update *)

\* propose_ir replaces the rules.
ReadPropose(c, s, r) ==
    /\ Reads(c, s)
    /\ Goes(c, Carry(s, "rewrite", r))
    /\ UNCHANGED <<design, credentials, artifacts, build, confirmed, fresh>>

\* patch_ir merges values into the rules, with r the result.  It refuses to drop
\* a clause the session lists, unless the call allows that removal.
ReadPatch(c, s, r, allowed) ==
    /\ Reads(c, s)
    /\ design[s].ir # NoIR
    /\ design[s].reqs \ ClausesOf[r] \subseteq allowed
    /\ Goes(c, Carry(s, "rewrite", r))
    /\ UNCHANGED <<design, credentials, artifacts, build, confirmed, fresh>>

CommitRewrite(c) ==
    /\ thread[c].pc = "rewrite"
    /\ Commit(c, [Row(c) EXCEPT !.ir = thread[c].ir, !.status = "draft",
                                !.reqs = ClausesOf[thread[c].ir],
                                !.ver = NoEvidence])
    /\ fresh' = IF Accepted(c) THEN [fresh EXCEPT ![thread[c].sid] = FALSE]
                ELSE fresh
    /\ UNCHANGED <<credentials, artifacts, build, confirmed>>

\* POST /update commits at the revision its client names, without a read.  A
\* client replaces the rules (NoIR: it does not), the status, or texts; it is not
\* expected to write the host's evidence or a status that claims it.
Update(s, r, status) ==
    /\ design[s].rev < MaxRevision
    /\ design' = [design EXCEPT ![s].ir = IF r = NoIR THEN @ ELSE r,
                                ![s].status = status,
                                ![s].rev = @ + 1]
    /\ UNCHANGED <<credentials, artifacts, thread, build, confirmed, fresh>>

\* ask_user, the chat of a turn and a compose_plan that meets a CompileError
\* write nothing that this module keeps.
ReadAnnotate(c, s) ==
    /\ Reads(c, s)
    /\ Goes(c, Carry(s, "annotate", NoIR))
    /\ UNCHANGED <<design, credentials, artifacts, build, confirmed, fresh>>

CommitAnnotate(c) ==
    /\ thread[c].pc = "annotate"
    /\ Commit(c, Row(c))
    /\ UNCHANGED <<credentials, artifacts, build, confirmed, fresh>>

ReadDiagnose(c, s) ==
    /\ Reads(c, s)
    /\ design[s].ir # NoIR
    /\ Goes(c, Carry(s, "diagnose", NoIR))
    /\ UNCHANGED <<design, credentials, artifacts, build, confirmed, fresh>>

CommitDiagnose(c) ==
    /\ thread[c].pc = "diagnose"
    /\ Commit(c, [Row(c) EXCEPT !.status = "diagnosed"])
    /\ UNCHANGED <<credentials, artifacts, build, confirmed, fresh>>

ReadCompose(c, s) ==
    /\ Reads(c, s)
    /\ design[s].ir # NoIR
    /\ Goes(c, Carry(s, IF Compiles(design[s].ir) THEN "compose" ELSE "annotate",
                     NoIR))
    /\ UNCHANGED <<design, credentials, artifacts, build, confirmed, fresh>>

CommitCompose(c) ==
    /\ thread[c].pc = "compose"
    /\ Commit(c, [Row(c) EXCEPT !.status = "compiled", !.ver = NoEvidence])
    /\ UNCHANGED <<credentials, artifacts, build, confirmed, fresh>>

ReadGiveUp(c, s) ==
    /\ Reads(c, s)
    /\ Goes(c, Carry(s, "give_up", NoIR))
    /\ UNCHANGED <<design, credentials, artifacts, build, confirmed, fresh>>

\* unsupported, and a verify_game whose rules do not compile.
CommitGiveUp(c) ==
    /\ thread[c].pc = "give_up"
    /\ Commit(c, [Row(c) EXCEPT !.status = "failed"])
    /\ UNCHANGED <<credentials, artifacts, build, confirmed, fresh>>

\* finalize freezes a candidate: the stored evidence passed and still has the
\* hashes of the rules and of the plan they compile to now.
ReadFinalize(c, s) ==
    /\ Reads(c, s)
    /\ design[s].ir # NoIR
    /\ Binds(s)
    /\ Compiles(design[s].ir)
    /\ design[s].ver.plan = Compiled(design[s].ir)
    /\ Goes(c, Carry(s, "finalize", NoIR))
    /\ UNCHANGED <<design, credentials, artifacts, build, confirmed, fresh>>

CommitFinalize(c) ==
    /\ thread[c].pc = "finalize"
    /\ Commit(c, [Row(c) EXCEPT !.status = "awaiting_confirmation"])
    /\ UNCHANGED <<credentials, artifacts, build, confirmed, fresh>>

--------------------------------------------------------------------------------
(* Verification: POST /verify and the verify_game tool *)

\* The handler compares the client's expected revision with its own read; the
\* tool then reads the session again.
RequestVerify(c, s, want) ==
    /\ Reads(c, s)
    /\ Expected(s, want) = design[s].rev
    /\ Goes(c, Carry(s, "verify_read", NoIR))
    /\ UNCHANGED <<design, credentials, artifacts, build, confirmed, fresh>>

\* The gate runs on what this read returned: its result is ready at the commit.
RunGate(c, s) ==
    /\ design[s].ir # NoIR
    /\ Goes(c, IF Compiles(design[s].ir)
               THEN [Carry(s, "verify", design[s].ir)
                        EXCEPT !.cred = Verified(design[s].ir)]
               ELSE Carry(s, "give_up", NoIR))
    /\ UNCHANGED <<design, credentials, artifacts, build, confirmed, fresh>>

ReadVerify(c, s) == Reads(c, s) /\ RunGate(c, s)

ReadRequestedVerify(c) ==
    /\ thread[c].pc = "verify_read"
    /\ design[thread[c].sid].rev < MaxRevision
    /\ RunGate(c, thread[c].sid)

CommitVerify(c) ==
    /\ thread[c].pc = "verify"
    /\ Commit(c, [Row(c) EXCEPT !.ver = thread[c].cred,
                                !.status = IF Ok(thread[c].cred) THEN "verified"
                                           ELSE "failed"])
    /\ UNCHANGED <<credentials, artifacts, build, confirmed, fresh>>

--------------------------------------------------------------------------------
(* Confirmation: POST /confirm, which no tool reaches *)

\* The user names the rules seen on screen; they must be the current ones, with
\* evidence that binds them.
ReadConfirm(c, s, seen, want) ==
    /\ Reads(c, s)
    /\ design[s].ir = seen
    /\ Binds(s)
    /\ Goes(c, [Carry(s, "confirm", seen) EXCEPT !.exp = Expected(s, want)])
    /\ UNCHANGED <<design, credentials, artifacts, build, confirmed, fresh>>

CommitConfirm(c) ==
    /\ thread[c].pc = "confirm"
    /\ Commit(c, [Row(c) EXCEPT !.conf = thread[c].ir,
                                !.status = "awaiting_confirmation"])
    /\ IF Accepted(c)
       THEN /\ confirmed' = confirmed \cup {<<thread[c].sid, thread[c].ir>>}
            /\ fresh' = [fresh EXCEPT ![thread[c].sid] = TRUE]
       ELSE UNCHANGED <<confirmed, fresh>>
    /\ UNCHANGED <<credentials, artifacts, build>>

--------------------------------------------------------------------------------
(* Publication: POST /publish *)

MayPublish(s) ==
    /\ design[s].ir # NoIR
    /\ design[s].conf = design[s].ir
    /\ Binds(s)
    /\ design[s].ir \in Composed

AlreadyPublished(s) ==
    design[s].pub # NoEvidence /\ design[s].pub.ir = design[s].ir

\* version is the one the client asks for, or 0.
ReadPublish(c, s, version, want) ==
    /\ Reads(c, s)
    /\ ~AlreadyPublished(s)
    /\ MayPublish(s)
    /\ Goes(c, [Carry(s, "publish_find", design[s].ir)
                   EXCEPT !.exp = Expected(s, want), !.version = version])
    /\ UNCHANGED <<design, credentials, artifacts, build, confirmed, fresh>>

HoldsRules(g, v, r) ==
    artifacts[g][v] # NoArtifact /\ artifacts[g][v].ir = r

Taken(g) == {v \in Versions : artifacts[g][v] # NoArtifact}

\* find_artifact_by_ir: the lowest version that holds these rules is reused.
PublishReuse(c) ==
    /\ thread[c].pc = "publish_find"
    /\ \E v \in Versions :
         /\ HoldsRules(thread[c].game, v, thread[c].ir)
         /\ \A w \in 1 .. v - 1 : ~HoldsRules(thread[c].game, w, thread[c].ir)
         /\ Goes(c, [thread[c] EXCEPT !.pc = "publish_commit", !.version = v,
                                      !.cred = artifacts[thread[c].game][v]])
    /\ UNCHANGED <<design, credentials, artifacts, build, confirmed, fresh>>

\* Mutant of PublishNew: publication does not look for the rules first.
PublishAnew(c) ==
    /\ thread[c].pc = "publish_find"
    /\ Goes(c, [thread[c] EXCEPT !.pc = IF thread[c].version = 0
                                        THEN "publish_version"
                                        ELSE "publish_gate"])
    /\ UNCHANGED <<design, credentials, artifacts, build, confirmed, fresh>>

PublishNew(c) ==
    /\ thread[c].pc = "publish_find"
    /\ \A v \in Versions : ~HoldsRules(thread[c].game, v, thread[c].ir)
    /\ Goes(c, [thread[c] EXCEPT !.pc = IF thread[c].version = 0
                                        THEN "publish_version"
                                        ELSE "publish_gate"])
    /\ UNCHANGED <<design, credentials, artifacts, build, confirmed, fresh>>

\* v is one more than the highest version of game g.
IsNextVersion(g, v) ==
    /\ \A w \in Taken(g) : w < v
    /\ v = 1 \/ v - 1 \in Taken(g)

PublishVersion(c) ==
    /\ thread[c].pc = "publish_version"
    /\ \E v \in Versions :
         /\ IsNextVersion(thread[c].game, v)
         /\ Goes(c, [thread[c] EXCEPT !.pc = "publish_gate", !.version = v])
    /\ UNCHANGED <<design, credentials, artifacts, build, confirmed, fresh>>

\* Mutant of PublishGatePasses: the rules are read from the session again.
PublishRereadPasses(c) ==
    LET r == design[thread[c].sid].ir
    IN  /\ thread[c].pc = "publish_gate"
        /\ Compiles(r)
        /\ Ok(Verified(r))
        /\ credentials' = credentials \cup {Verified(r)}
        /\ Goes(c, [thread[c] EXCEPT !.pc = "publish_register",
                                     !.cred = Verified(r)])
        /\ UNCHANGED <<design, artifacts, build, confirmed, fresh>>

\* The gate runs again, on the rules read at the start.  A failure ends the
\* request; a pass records the credential before the artifact that cites it.
PublishGatePasses(c) ==
    /\ thread[c].pc = "publish_gate"
    /\ Compiles(thread[c].ir)
    /\ Ok(Verified(thread[c].ir))
    /\ credentials' = credentials \cup {Verified(thread[c].ir)}
    /\ Goes(c, [thread[c] EXCEPT !.pc = "publish_register",
                                 !.cred = Verified(thread[c].ir)])
    /\ UNCHANGED <<design, artifacts, build, confirmed, fresh>>

PublishGateFails(c) ==
    /\ thread[c].pc = "publish_gate"
    /\ ~(Compiles(thread[c].ir) /\ Ok(Verified(thread[c].ir)))
    /\ Goes(c, AtRest)
    /\ UNCHANGED <<design, credentials, artifacts, build, confirmed, fresh>>

\* Mutants of Register: a taken version counts as registered whatever plan it
\* holds; a taken version is replaced.
RegisterUncompared(c, next) ==
    LET held == artifacts[thread[c].game][thread[c].version]
        may  == thread[c].cred \in credentials
    IN  /\ artifacts' = IF may /\ held = NoArtifact
                        THEN [artifacts EXCEPT
                                ![thread[c].game][thread[c].version] = thread[c].cred]
                        ELSE artifacts
        /\ Goes(c, IF may THEN next ELSE AtRest)
        /\ UNCHANGED <<design, credentials, build, confirmed, fresh>>

RegisterReplacing(c, next) ==
    /\ thread[c].cred \in credentials
    /\ artifacts' = [artifacts EXCEPT
                        ![thread[c].game][thread[c].version] = thread[c].cred]
    /\ Goes(c, next)
    /\ UNCHANGED <<design, credentials, build, confirmed, fresh>>

\* register_artifact: only a recorded credential authorises; a free version is
\* taken, a version that holds the same plan is left as it is, any other is an
\* artifact_version_conflict that ends the request.  `next` is what the thread
\* does once the version holds its plan.
Register(c, next) ==
    LET held == artifacts[thread[c].game][thread[c].version]
        may  == thread[c].cred \in credentials
    IN  /\ artifacts' = IF may /\ held = NoArtifact
                        THEN [artifacts EXCEPT
                                ![thread[c].game][thread[c].version] = thread[c].cred]
                        ELSE artifacts
        /\ Goes(c, IF may /\ (held = NoArtifact \/ held.plan = thread[c].cred.plan)
                   THEN next ELSE AtRest)
        /\ UNCHANGED <<design, credentials, build, confirmed, fresh>>

PublishRegister(c) ==
    /\ thread[c].pc = "publish_register"
    /\ Register(c, [thread[c] EXCEPT !.pc = "publish_commit"])

CommitPublish(c) ==
    /\ thread[c].pc = "publish_commit"
    /\ Commit(c, [Row(c) EXCEPT !.status = "registered",
                                !.pub = [ir |-> thread[c].ir,
                                         plan |-> thread[c].cred.plan,
                                         version |-> thread[c].version]])
    /\ UNCHANGED <<credentials, artifacts, build, confirmed, fresh>>

--------------------------------------------------------------------------------
(* The legacy agent loop: verify_and_register_plan *)

\* A known-family plan that passed the gate takes the next version, unless the
\* latest version already holds it.  No user confirmation is involved.
ReadLegacy(c, g, p) ==
    /\ thread[c].pc = "idle"
    /\ \E v \in Versions :
         /\ IsNextVersion(g, v)
         /\ v > 1 => artifacts[g][v - 1].plan # p
         /\ Goes(c, [pc |-> "legacy_record", sid |-> NoEvidence, game |-> g,
                     ir |-> NoIR, exp |-> 0, version |-> v,
                     cred |-> [ir |-> NoIR, plan |-> p, build |-> build]])
    /\ UNCHANGED <<design, credentials, artifacts, build, confirmed, fresh>>

LegacyRecord(c) ==
    /\ thread[c].pc = "legacy_record"
    /\ credentials' = credentials \cup {thread[c].cred}
    /\ Goes(c, [thread[c] EXCEPT !.pc = "legacy_register"])
    /\ UNCHANGED <<design, artifacts, build, confirmed, fresh>>

LegacyRegister(c) ==
    /\ thread[c].pc = "legacy_register"
    /\ Register(c, AtRest)

--------------------------------------------------------------------------------
(* The process stops, losing its threads, and starts again, maybe upgraded *)

Restart(b) ==
    /\ b >= build
    /\ build' = b
    /\ thread' = [c \in Clients |-> AtRest]
    /\ UNCHANGED <<design, credentials, artifacts, confirmed, fresh>>

Tool(c, s) ==
    \/ \E r \in Rules : ReadPropose(c, s, r)
    \/ \E r \in Rules, allowed \in {{}, Clauses} : ReadPatch(c, s, r, allowed)
    \/ ReadAnnotate(c, s)
    \/ ReadDiagnose(c, s)
    \/ ReadCompose(c, s)
    \/ ReadGiveUp(c, s)
    \/ ReadFinalize(c, s)
    \/ ReadVerify(c, s)

Request(c, s) ==
    \E want \in Wants(s) :
        \/ RequestVerify(c, s, want)
        \/ \E r \in Rules : ReadConfirm(c, s, r, want)
        \/ \E v \in 0 .. MaxVersion : ReadPublish(c, s, v, want)

Step(c) ==
    \/ CommitRewrite(c)
    \/ CommitAnnotate(c)
    \/ CommitDiagnose(c)
    \/ CommitCompose(c)
    \/ CommitGiveUp(c)
    \/ CommitFinalize(c)
    \/ ReadRequestedVerify(c)
    \/ CommitVerify(c)
    \/ CommitConfirm(c)
    \/ PublishReuse(c)
    \/ PublishNew(c)
    \/ PublishVersion(c)
    \/ PublishGatePasses(c)
    \/ PublishGateFails(c)
    \/ PublishRegister(c)
    \/ CommitPublish(c)
    \/ LegacyRecord(c)
    \/ LegacyRegister(c)

Next ==
    \/ \E c \in Clients, s \in Sessions : Tool(c, s) \/ Request(c, s)
    \/ \E c \in Clients : Step(c)
    \/ \E c \in Clients, g \in Games, p \in LegacyPlans : ReadLegacy(c, g, p)
    \/ \E s \in Sessions, r \in Rules \cup {NoIR} :
         \E status \in {design[s].status, "diagnosed"} :
             Update(s, r, status)
    \/ \E b \in Builds : Restart(b)

Spec == Init /\ [][Next]_vars

--------------------------------------------------------------------------------
(* Properties *)

\* The types of the state: every table and every thread keeps the shape that
\* the stores write and the handlers assume.
TypeOK ==
    /\ design \in [Sessions -> Design]
    /\ credentials \subseteq Credential
    /\ artifacts \in [Games -> [Versions -> Credential \cup {NoArtifact}]]
    /\ thread \in [Clients -> Thread]
    /\ build \in Builds
    /\ confirmed \subseteq Sessions \X Rules
    /\ fresh \in [Sessions -> BOOLEAN]

\* ADR-0008: a model can never register or self-confirm.  Every version that
\* holds composed rules holds rules that a user confirmed, in a design session
\* of the same game, whatever ran between that confirmation and registration.
RegisteredWasConfirmed ==
    \A g \in Games, v \in Versions :
        (artifacts[g][v] # NoArtifact /\ artifacts[g][v].ir # NoIR) =>
            \E s \in Sessions :
                GameOf[s] = g /\ <<s, artifacts[g][v].ir>> \in confirmed

\* register_artifact: a version cites a credential that is in the host's table,
\* for rules that passed the gate and for the plan they compile to, so a crash
\* leaves an unused credential and never a dangling one.
RegisteredHasCredential ==
    \A g \in Games, v \in Versions :
        artifacts[g][v] # NoArtifact =>
            /\ artifacts[g][v] \in credentials
            /\ artifacts[g][v].ir # NoIR =>
                 /\ Ok(artifacts[g][v])
                 /\ artifacts[g][v].plan
                        = PlanOf[artifacts[g][v].ir][artifacts[g][v].build]

\* A session that says `registered` names a version that exists and holds the
\* plan the user was told about (ADR-0017: an immutable version exists).
RegisteredNamesVersion ==
    \A s \in Sessions :
        /\ design[s].status = "registered" => design[s].pub # NoEvidence
        /\ design[s].pub # NoEvidence =>
             LET held == artifacts[GameOf[s]][design[s].pub.version]
             IN  held # NoArtifact /\ held.plan = design[s].pub.plan

\* Evidence lands only on the rules it is about.  When a verification, a
\* confirmation or a publication is written to a session, possibly long after
\* the session was read, the rules in that session are the ones that were
\* verified, confirmed or published, and a confirmation finds them verified.
EvidenceBinds ==
    [][\A s \in Sessions :
          /\ design'[s].ver \notin {design[s].ver, NoEvidence} =>
                design'[s].ver.ir = design'[s].ir
          /\ design'[s].conf # design[s].conf =>
                design'[s].conf = design'[s].ir /\ Binds(s)'
          /\ design'[s].pub # design[s].pub =>
                design'[s].pub.ir = design'[s].ir]_vars

\* publish_design reuses the version that already holds the rules, also after a
\* crash between the artifact write and the session write (ADR-0017: a version
\* is reused by game id and rules): no rules hold two versions of one game.
OneVersionPerRules ==
    \A g \in Games, v, w \in Versions :
        (artifacts[g][v] # NoArtifact /\ HoldsRules(g, w, artifacts[g][v].ir)
            /\ artifacts[g][v].ir # NoIR) => v = w

\* The rules in a version are the ones that the session which published it
\* says it published (session.py: a new rule set must take a new version).
PublishedRulesAreStored ==
    \A s \in Sessions :
        design[s].pub # NoEvidence =>
            HoldsRules(GameOf[s], design[s].pub.version, design[s].pub.ir)

\* ADR-0017: propose_ir and patch_ir void the confirmation, from any state.
\* A session is published only on a confirmation given after its last rewrite.
PublishedOnFreshConfirmation ==
    [][\A s \in Sessions :
          design'[s].pub # design[s].pub => fresh[s]]_vars

--------------------------------------------------------------------------------
(* What the lifecycle promises to a player: the gate in front of the catalogue *)

Gate == INSTANCE PublishGate WITH catalogue <- artifacts

GateSpec == Gate!Spec

================================================================================
