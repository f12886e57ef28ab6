---------------------------- MODULE ManagedConfig ----------------------------
(***************************************************************************)
(* Fairy's managed configuration: ConfigManager (managed_config.go), the   *)
(* admin API that changes it (admin_api.go), the evaluation that qualifies *)
(* models for production (quality_eval_job.go, model_qualification.go) and *)
(* the part of the configuration the engine takes over while it runs.      *)
(*                                                                         *)
(* The manager's methods are atomic (one mutex) and write the file before  *)
(* they assign.  A PATCH handler is not: it updates, stores the behaviour  *)
(* in the engine, then the default mode, and then reports the revision as  *)
(* applied, so that other handlers and an evaluation come in between.      *)
(*                                                                         *)
(* A configuration is reduced to its routing (settings of each model's     *)
(* provider, candidates of the two production tasks), the rollout mode,    *)
(* the behaviour that is applied live and the limits that need a restart.  *)
(* The settings stand for the fingerprint, a digest of all of them.        *)
(***************************************************************************)
EXTENDS Naturals, FiniteSets, Sequences, FiniteSetsExt

CONSTANTS
    Handlers,      \* PATCH requests in flight
    ModelIds,
    Settings,      \* provider settings of a model that differ in fingerprint
    Behaviors, Limits,
    Patches,       \* the bodies of the PATCH requests
    Diagnostics,   \* the other users of modelTestSlot: probe, agent diagnostic
    Clock,         \* readings of time.Now
    MaxAudit,      \* maxManagedConfigAuditEntries
    MaxRevision    \* bound on the revisions written

\* The last revision a uint64 holds is far beyond MaxRevision.
ASSUME ManagedConfigAssumption ==
    /\ MaxAudit \in Nat \ {0} /\ MaxRevision \in Nat /\ Clock \subseteq Nat \ {0}
    /\ Settings \subseteq Nat \ {0} /\ Settings # {} /\ ModelIds # {} /\ Behaviors # {} /\ Limits # {}
    /\ Diagnostics \cap {"none", "evaluation"} = {}
    /\ Patches \subseteq [settings : [ModelIds -> Settings \cup {0}], replyer : SUBSET ModelIds,
                          planner : SUBSET ModelIds, rollout : {"off", "allowlist", "all"},
                          behavior : Behaviors, limits : Limits]

VARIABLES
    current,     \* m.current
    applied,     \* m.active
    configFile,  \* what is on disk
    engine,      \* Engine.behavior and StateStore.softDefault
    patch,       \* PATCH handlers
    slot,        \* modelTestSlot: which diagnostic holds it
    job,         \* latestJob and what its goroutine captured
    restarting,  \* a.restart was called
    overlapped,  \* history: two PATCH handlers were past their update together,
                 \* or more qualifications than the trail holds came within one
    earned,      \* history: evaluations that passed, as <<model, settings>>
    inherited    \* history: AI has been on, with this routing, since before
                 \* models had to be qualified

configVars == <<current, applied, configFile, engine, patch, slot, job, restarting, overlapped, earned, inherited>>

Unconfigured == 0
Sections == {"ai_activation", "ai_rollout", "model", "behavior", "runtime_limits", "model_validation", "none"}
AuditEntries == [revision : Nat, at : Nat, sections : SUBSET Sections]
Configs == [settings : [ModelIds -> Settings \cup {Unconfigured}], replyer : SUBSET ModelIds,
            planner : SUBSET ModelIds, rollout : {"off", "allowlist", "all"}, behavior : Behaviors,
            limits : Limits, qualified : SUBSET (ModelIds \X Settings), revision : Nat, at : Nat,
            audit : Seq(AuditEntries)]

AIEnabled(c) == c.rollout # "off"

\* modelQualificationFingerprint digests the model and all of its provider.
Fingerprint(c, m) == c.settings[m]
\* modelQualificationCurrent: a qualification is a model and a fingerprint.
Current(c, q) == Fingerprint(c, q[1]) = q[2]
Pruned(c) == [c EXCEPT !.qualified = {q \in @ : Current(c, q)}]

\* taskQualificationState for replyer and planner.
Required(c) == c.replyer \cup c.planner
Missing(c) == {m \in Required(c) : \A q \in c.qualified : q[1] # m \/ ~Current(c, q)}
ProductionReady(c) == Required(c) # {} /\ Missing(c) = {}

\* validateModelConfiguration: candidates are configured models, and production
\* has a replyer.
ValidModels(c) ==
    /\ \A m \in Required(c) : c.settings[m] # Unconfigured
    /\ AIEnabled(c) => c.replyer # {}

ModelRoutingChanged(c, d) ==
    c.settings # d.settings \/ c.replyer # d.replyer \/ c.planner # d.planner
BehaviorChanged(c, d) == c.behavior # d.behavior
\* Everything but revision, audit, qualifications and behaviour.
RestartConfigChanged(c, d) ==
    ModelRoutingChanged(c, d) \/ c.rollout # d.rollout \/ c.limits # d.limits

ChangedSections(c, d) ==
    LET sections == (IF AIEnabled(c) # AIEnabled(d) THEN {"ai_activation"} ELSE {})
                    \cup (IF c.rollout # d.rollout THEN {"ai_rollout"} ELSE {})
                    \cup (IF ModelRoutingChanged(c, d) THEN {"model"} ELSE {})
                    \cup (IF BehaviorChanged(c, d) THEN {"behavior"} ELSE {})
                    \cup (IF c.limits # d.limits THEN {"runtime_limits"} ELSE {})
    IN  IF sections = {} THEN {"none"} ELSE sections

\* Variant: the trail grows by one before it is cut.
AppendAuditOffByOne(entries, entry) ==
    LET start == IF Len(entries) > MaxAudit THEN Len(entries) - MaxAudit + 1 ELSE 1
    IN  Append(SubSeq(entries, start, Len(entries)), entry)

AppendAudit(entries, entry) ==
    LET start == IF Len(entries) >= MaxAudit THEN Len(entries) - MaxAudit + 2 ELSE 1
    IN  Append(SubSeq(entries, start, Len(entries)), entry)

\* A configuration that a write makes the next revision, at a time after the
\* last one even if the clock is not.
Stamped(c, now, sections) ==
    LET at == Max({now, current.at + 1})
        revision == current.revision + 1
    IN  [c EXCEPT !.revision = revision, !.at = at,
                  !.audit = AppendAudit(current.audit, [revision |-> revision, at |-> at, sections |-> sections])]

\* validateManagedConfigMetadata, for a file that has been written (an initial
\* configuration without a file has no metadata).
ValidMetadata(c) ==
    /\ c.revision > 0 /\ Len(c.audit) \in 1..MaxAudit /\ Len(c.audit) <= c.revision
    /\ \A i \in 1..Len(c.audit) :
          /\ c.audit[i].revision = c.revision - Len(c.audit) + i
          /\ c.audit[i].at > (IF i = 1 THEN 0 ELSE c.audit[i - 1].at)
          /\ c.audit[i].sections # {}
          /\ "none" \in c.audit[i].sections => Cardinality(c.audit[i].sections) = 1
    /\ c.audit[Len(c.audit)].at = c.at

\* managedConfigStatus
Status == IF RestartConfigChanged(applied, current) THEN "restart_pending"
          ELSE IF applied.revision # current.revision THEN "applying" ELSE "active"

IdlePatch == [pc |-> "idle", revision |-> 0, behavior |-> CHOOSE b \in Behaviors : TRUE,
              changed |-> FALSE, restart |-> FALSE]
IdleJob == [status |-> "idle", model |-> CHOOSE m \in ModelIds : TRUE, settings |-> 0, passed |-> FALSE]

\* The configuration of the environment, without a file: a model that is
\* configured, or AI that an old file had switched on before models had to be
\* qualified.
ConfigInit ==
    /\ \E rollout \in {"off", "all"} :
          current = [settings |-> [m \in ModelIds |-> CHOOSE s \in Settings : TRUE], replyer |-> ModelIds, planner |-> {},
                     rollout |-> rollout, behavior |-> CHOOSE b \in Behaviors : TRUE,
                     limits |-> CHOOSE l \in Limits : TRUE, qualified |-> {}, revision |-> 0, at |-> 0,
                     audit |-> <<>>]
    /\ applied = current
    /\ configFile = current
    /\ engine = [behavior |-> current.behavior, soft |-> current.behavior]
    /\ patch = [h \in Handlers |-> IdlePatch]
    /\ slot = "none"
    /\ job = IdleJob
    /\ restarting = FALSE
    /\ overlapped = FALSE
    /\ earned = {}
    /\ inherited = AIEnabled(current)

-----------------------------------------------------------------------------
(* PATCH /admin/config *)

\* What applyManagedUpdate accepts.
AcceptedUpdate(u) ==
    /\ ValidModels(u)
    /\ AIEnabled(u) /\ (~AIEnabled(current) \/ ModelRoutingChanged(current, u)) => ProductionReady(u)

\* persistManagedConfig: the file is written aside and renamed.
PersistManagedConfig(next) == configFile' = next

\* applyManagedUpdate and UpdateWithResult; a rejected update and one that
\* cannot be written change nothing.
UpdateWithResult(h, u, now) ==
    LET asked == Pruned([current EXCEPT !.settings = u.settings, !.replyer = u.replyer, !.planner = u.planner,
                                        !.rollout = u.rollout, !.behavior = u.behavior, !.limits = u.limits])
        next == Stamped(asked, now, ChangedSections(current, asked))
    IN  /\ patch[h].pc = "idle"
        /\ current.revision < MaxRevision
        /\ AcceptedUpdate(asked)
        /\ PersistManagedConfig(next)
        /\ current' = next
        /\ patch' = [patch EXCEPT ![h] =
              [pc |-> "apply", revision |-> next.revision, behavior |-> next.behavior,
               changed |-> BehaviorChanged(applied, next), restart |-> RestartConfigChanged(applied, next)]]
        /\ overlapped' = (overlapped \/ \E g \in Handlers \ {h} : patch[g].pc # "idle")
        /\ inherited' = (inherited /\ AIEnabled(next) /\ ~ModelRoutingChanged(current, next))
        /\ UNCHANGED <<applied, engine, slot, job, restarting, earned>>

\* Engine.ApplyBehaviorConfig stores the behaviour, and then the default mode.
ApplyBehavior(h) ==
    /\ patch[h].pc = "apply"
    /\ engine' = IF patch[h].changed THEN [engine EXCEPT !.behavior = patch[h].behavior] ELSE engine
    /\ patch' = [patch EXCEPT ![h].pc = IF patch[h].changed THEN "soft" ELSE "mark"]
    /\ UNCHANGED <<current, applied, configFile, slot, job, restarting, overlapped, earned, inherited>>

ApplySoftDefault(h) ==
    /\ patch[h].pc = "soft"
    /\ engine' = [engine EXCEPT !.soft = patch[h].behavior]
    /\ patch' = [patch EXCEPT ![h].pc = "mark"]
    /\ UNCHANGED <<current, applied, configFile, slot, job, restarting, overlapped, earned, inherited>>

\* onlyModelValidationChangesAfter
OnlyValidationAfter(revision) ==
    LET later == {i \in 1..Len(current.audit) : current.audit[i].revision > revision}
        Expected(i) == revision + Cardinality({j \in later : j <= i})
    IN  /\ \A i \in later : /\ current.audit[i].revision = Expected(i)
                            /\ current.audit[i].sections = {"model_validation"}
        /\ revision + Cardinality(later) = current.revision

MarkApplied(revision) ==
    applied' = IF /\ revision <= current.revision
                  /\ ~RestartConfigChanged(applied, current)
                  /\ revision = current.revision \/ OnlyValidationAfter(revision)
               THEN current ELSE applied

\* The end of handleUpdate: a restart, or MarkApplied.
FinishUpdate(h) ==
    /\ patch[h].pc = "mark"
    /\ IF patch[h].restart
       THEN restarting' = TRUE /\ UNCHANGED applied
       ELSE MarkApplied(patch[h].revision) /\ UNCHANGED restarting
    /\ patch' = [patch EXCEPT ![h] = IdlePatch]
    /\ overlapped' = (overlapped \/ current.revision - patch[h].revision > MaxAudit)
    /\ UNCHANGED <<current, configFile, engine, slot, job, earned, inherited>>

-----------------------------------------------------------------------------
(* Diagnostics: an evaluation, a probe of a model, a run of the agent *)

\* qualityEvalTargetForConfiguredModel
Evaluable(m) == current.settings[m] # Unconfigured

\* Start: the target and its fingerprint are captured.  The handler reads the
\* configuration just before; a change in between is one during the evaluation.
StartEvaluation(m) ==
    /\ Evaluable(m)
    /\ slot = "none"
    /\ slot' = "evaluation"
    /\ job' = [status |-> "running", model |-> m, settings |-> Fingerprint(current, m), passed |-> FALSE]
    /\ UNCHANGED <<current, applied, configFile, engine, patch, restarting, overlapped, earned, inherited>>

\* The corpus is run: it passes, fails, or ends with an error.
EvaluationEnds(passed) ==
    /\ job.status = "running" /\ ~job.passed
    /\ IF passed
       THEN job' = [job EXCEPT !.passed = TRUE] /\ slot' = slot
            /\ earned' = earned \cup {<<job.model, job.settings>>}
       ELSE job' \in {[job EXCEPT !.status = s] : s \in {"failed", "error", "cancelled"}} /\ slot' = "none"
            /\ UNCHANGED earned
    /\ UNCHANGED <<current, applied, configFile, engine, patch, restarting, overlapped, inherited>>

EndJob(status) == job' = [job EXCEPT !.status = status] /\ slot' = "none"

\* Variant: the qualification is for whatever the model is configured as now.
RecordQualificationNow(now) ==
    LET m == job.model
        next == Stamped(Pruned([current EXCEPT !.qualified = {q \in @ : q[1] # m} \cup {<<m, current.settings[m]>>}]),
                        now, {"model_validation"})
    IN  /\ job.status = "running" /\ job.passed /\ current.revision < MaxRevision
        /\ current.settings[m] # Unconfigured
        /\ PersistManagedConfig(next) /\ current' = next
        /\ applied' = IF applied.revision = current.revision THEN next ELSE applied
        /\ EndJob("passed")
        /\ UNCHANGED <<engine, patch, restarting, overlapped, earned, inherited>>

\* RecordModelQualification and the end of evaluate: a model that was configured
\* otherwise meanwhile is not qualified.
RecordQualification(now) ==
    LET m == job.model
        next == Stamped(Pruned([current EXCEPT !.qualified = {q \in @ : q[1] # m} \cup {<<m, job.settings>>}]),
                        now, {"model_validation"})
    IN  /\ job.status = "running" /\ job.passed
        /\ \/ /\ Fingerprint(current, m) = job.settings
              /\ current.revision < MaxRevision
              /\ PersistManagedConfig(next)
              /\ current' = next
              /\ applied' = IF applied.revision = current.revision THEN next ELSE applied
              /\ EndJob("passed")
           \/ /\ EndJob("error")   \* stale, or the file could not be written
              /\ UNCHANGED <<current, applied, configFile>>
        /\ UNCHANGED <<engine, patch, restarting, overlapped, earned, inherited>>

\* serveModelProbe and serveAgentDiagnostic hold the slot while they run.
StartDiagnostic(kind) ==
    /\ slot = "none"
    /\ slot' = kind
    /\ UNCHANGED <<current, applied, configFile, engine, patch, job, restarting, overlapped, earned, inherited>>

EndDiagnostic(kind) ==
    /\ slot = kind
    /\ slot' = "none"
    /\ UNCHANGED <<current, applied, configFile, engine, patch, job, restarting, overlapped, earned, inherited>>

\* A new process: loadManagedConfig, NewConfigManager, a new engine.
ConfigRestart ==
    LET loaded == Pruned(configFile)
    IN  /\ configFile.revision = 0 \/ ValidMetadata(configFile)
        /\ current' = loaded /\ applied' = loaded
        /\ engine' = [behavior |-> loaded.behavior, soft |-> loaded.behavior]
        /\ patch' = [h \in Handlers |-> IdlePatch]
        /\ slot' = "none"
        /\ job' = IdleJob
        /\ restarting' = FALSE
        /\ overlapped' = FALSE
        /\ UNCHANGED <<configFile, earned, inherited>>

ConfigNext ==
    \/ \E h \in Handlers, u \in Patches, now \in Clock : UpdateWithResult(h, u, now)
    \/ \E h \in Handlers : ApplyBehavior(h) \/ ApplySoftDefault(h) \/ FinishUpdate(h)
    \/ \E m \in ModelIds : StartEvaluation(m)
    \/ \E passed \in BOOLEAN : EvaluationEnds(passed)
    \/ \E now \in Clock : RecordQualification(now)
    \/ \E kind \in Diagnostics : StartDiagnostic(kind) \/ EndDiagnostic(kind)
    \/ ConfigRestart

ConfigSpec == ConfigInit /\ [][ConfigNext]_configVars

-----------------------------------------------------------------------------
(* Properties *)

\* The manager, the file, the handlers and the job have their types.
ConfigTypeOK ==
    /\ current \in Configs /\ applied \in Configs /\ configFile \in Configs
    /\ engine \in [behavior : Behaviors, soft : Behaviors]
    /\ \A h \in Handlers : patch[h].pc \in {"idle", "apply", "soft", "mark"}
    /\ slot \in {"none", "evaluation"} \cup Diagnostics
    /\ job.status \in {"idle", "running", "passed", "failed", "error", "cancelled"}
    /\ slot = "evaluation" <=> job.status = "running"
    /\ restarting \in BOOLEAN /\ overlapped \in BOOLEAN /\ inherited \in BOOLEAN
    /\ earned \subseteq ModelIds \X Settings

\* persistManagedConfig and loadManagedConfig: after any writes, at any clock,
\* a restart accepts the file and comes back with the configuration in force.
FileReloads ==
    /\ configFile.revision > 0 => ValidMetadata(configFile)
    /\ Pruned(configFile) = current

\* applyManagedUpdate: AI that a PATCH switched on, or whose routing a PATCH has
\* changed, is on only if each candidate of its production tasks passed an
\* evaluation with the settings it has now.
ProductionIsQualified ==
    AIEnabled(current) /\ ~inherited =>
        \A m \in Required(current) : <<m, current.settings[m]>> \in earned

\* RecordModelQualification: a qualification was earned by an evaluation of
\* exactly the settings it names, and names the settings in force.
QualificationsAreEarned ==
    \A q \in current.qualified : q \in earned /\ Current(current, q)

\* MarkApplied and managedConfigStatus: when no PATCH is under way and no
\* restart is due, a configuration shown as active is the one the engine runs,
\* its default mode included; PATCH requests that overlapped are excepted, and
\* one within which the audit trail was overrun, so that MarkApplied could not
\* tell what came after it.
ActiveIsApplied ==
    /\ Status = "active" /\ ~restarting /\ ~overlapped
    /\ \A h \in Handlers : patch[h].pc = "idle"
    => engine = [behavior |-> current.behavior, soft |-> current.behavior]

\* What the status calls active is what the engine runs, and the file that was
\* written is one a restart accepts.
ConfigIsInForce == ConfigTypeOK /\ FileReloads /\ ActiveIsApplied

\* No model serves users on the strength of an evaluation of something else.
ModelsAreQualified == ProductionIsQualified /\ QualificationsAreEarned
=============================================================================
