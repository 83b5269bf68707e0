---------------------------- MODULE ServiceHealth ----------------------------
(***************************************************************************)
(* The health reads of the gateway (control/health.py and the routes that  *)
(* serve it).  A read takes the seated state first, then runs the          *)
(* database, checkpoint and worker probes concurrently, each under a       *)
(* deadline of its own, and assembles its answer once the last has         *)
(* settled.  What it reports was therefore observed at different instants, *)
(* while the dependencies, the watchdog, the breaker and the recovery      *)
(* owner go on changing.                                                   *)
(*                                                                         *)
(* Four reads are modelled: "service" (the service-state verb), "aggregate"*)
(* (the open /health of a gateway without the desktop profile), "desktop"  *)
(* (the authenticated /health under it) and "admission" (the readiness the *)
(* prepare and commit verbs gate on).                                      *)
(***************************************************************************)
EXTENDS Naturals, FiniteSets

CONSTANTS
  HealthProfiles,     \* values of settings.desktop_profile_armed to consider
  MaxShifts     \* bound: changes of the world around one read

ASSUME HealthAssumption == HealthProfiles \subseteq BOOLEAN /\ MaxShifts \in Nat

VARIABLES
  world,    \* what the gateway's parts are really doing
  shifts,   \* how often the world has changed
  reader,   \* the read in progress
  good,     \* the facts that held at some instant of this read
  quiet     \* whether the world stood still since this read began

healthVars == <<world, shifts, reader, good, quiet>>

Values == [database   |-> {"ok", "failing", "hung"},
           checkpoint |-> {"ok", "failing", "hung", "absent"},
           worker     |-> {"ours", "other", "busy", "gone"},
           breaker    |-> {"closed", "open", "half_open"},
           spawned    |-> BOOLEAN,
           status     |-> {"pending", "up", "down", "restarting"},
           heard      |-> BOOLEAN,
           recovery   |-> {"ok", "error"},
           lanes      |-> BOOLEAN]

Kinds == {"service", "aggregate", "desktop", "admission"}

(* ----------------------------- single probes ---------------------------- *)

(* probe_database_ready under its deadline: a query that fails and one that *)
(* does not come back in time both report the store not ready.              *)
DatabaseVerdict(w) == IF w.database = "ok" THEN "ok" ELSE "error"

(* _checkpoint_health_check: a missing checkpointer, a read that fails and  *)
(* a read past its deadline are three details of one error.                 *)
CheckpointVerdict(w) == IF w.checkpoint = "ok" THEN "ok" ELSE "error"

(* worker_credential_authorized: without an owner pid (an operator-managed  *)
(* worker) ancestry proves nothing; otherwise the listener must be in the   *)
(* owner's process tree.                                                    *)
Authorized(w) == ~w.local \/ w.worker \in {"ours", "busy"}

(* probe_worker_health: healthy, decisively not, or no answer in the budget *)
(* (indeterminate).                                                         *)
WorkerVerdict(w) == CASE w.worker \in {"ours", "other"} -> "ok"
                      [] w.worker = "busy" -> "indeterminate"
                      [] OTHER -> "error"

(* worker_ready_and_ours: asked again of the port, and of the body.         *)
WorkerIsOurs(w) == Authorized(w) /\ w.worker = "ours"

(* --------------------------- assembled answers -------------------------- *)

(* assemble_health_status: the seated facts, read without any probe.        *)
SharedFacts(w) == [breaker   |-> IF w.seated THEN w.breaker ELSE "unknown",
                   spawned   |-> w.seated /\ w.spawned,
                   status    |-> w.status,
                   heard     |-> w.heard,
                   recovery  |-> w.recovery]

(* _pending_worker_ready: a live verdict decides; without one, the heartbeat*)
PendingReady(shared, verdict) ==
  verdict = "yes" \/ (verdict = "unknown" /\ shared.heard)

(* _desktop_worker_state, from the seated facts, the live verdict and the   *)
(* proof of provenance ("unknown" where the read has none).                 *)
WorkerStateOf(shared, verdict, adoptable) ==
  IF ~shared.spawned
    THEN IF verdict = "yes" /\ adoptable = "yes" THEN "ready" ELSE "cold"
  ELSE IF shared.status = "pending"
    THEN IF PendingReady(shared, verdict) THEN "ready" ELSE "starting"
  ELSE IF shared.status \in {"down", "restarting"} THEN "unavailable"
  ELSE IF PendingReady(shared, verdict) THEN "ready" ELSE "starting"

(* native_execution_refusal_reason: the desktop profile refuses native      *)
(* execution outright.                                                      *)
NativeRefused(w) == w.armed

(* _eligible_provider_names over served_lane_eligible: no lane of this host *)
(* is served while native execution is refused.                             *)
ProviderEligible(w) == w.lanes /\ ~NativeRefused(w)

(* _desktop_run_admission.                                                  *)
AdmissionOf(w, shared, valid, workerState) ==
  IF ~valid \/ shared.recovery = "error" \/ NativeRefused(w) THEN "blocked"
  ELSE IF workerState = "ready" /\ ProviderEligible(w) THEN "ready"
  ELSE "deferred"

(* assemble_desktop_readiness: one authority for every surface.             *)
Readiness(w, valid, verdict, adoptable) ==
  LET shared == SharedFacts(w)
      state  == WorkerStateOf(shared, verdict, adoptable)
  IN  [gateway   |-> valid, worker |-> state,
       admission |-> AdmissionOf(w, shared, valid, state),
       reasons   |-> (IF shared.recovery = "error" THEN {"recovery"} ELSE {})
                     \cup (IF valid THEN {} ELSE {"database"})
                     \cup (IF state \in {"cold", "unavailable"}
                           THEN {"worker"} ELSE {})
                     \cup (IF ProviderEligible(w) THEN {} ELSE {"provider"})]

NoReadiness == [gateway |-> FALSE, worker |-> "none", admission |-> "none",
                reasons |-> {}]

(* _DEGRADED_CHECK_STATUSES.                                                *)
DegradedStatuses == {"error", "open", "down", "restarting", "half_open", "timeout"}

(* _service_degraded_reasons: the checks whose status names a failure.      *)
DegradedReasons(checks) ==
  {name \in DOMAIN checks : checks[name] \in DegradedStatuses}

(* The checks build_full_health assembles: the probes' results, the breaker *)
(* as it stands now, and the recovery owner as it stood before the probes.  *)
ChecksOf(w, r) == [gateway    |-> "ok",
                   database   |-> r.database,
                   checkpoint |-> r.checkpoint,
                   worker     |-> r.worker,
                   breaker    |-> w.breaker,
                   recovery   |-> r.shared.recovery]

(* The conjunction of build_full_health; a breaker must be closed.          *)
AllReady(checks) ==
  /\ checks.breaker = "closed"
  /\ \A name \in DOMAIN checks \ {"breaker"} : checks[name] = "ok"

(* service_state_endpoint: a failed database is unavailable, anything else  *)
(* that is not ready is degraded.                                           *)
HealthStatus(checks) ==
  IF checks.database # "ok" THEN "unavailable"
  ELSE IF AllReady(checks) THEN "ready" ELSE "degraded"

(* health_endpoint without the profile: is this gateway's own worker usable,*)
(* from the seated facts alone.                                             *)
AttachedWorker(shared) ==
  ~ \/ shared.breaker = "open"
    \/ shared.status \in {"down", "restarting"}
    \/ shared.spawned /\ ~shared.heard

(* The live verdict the service read passes on, and the one admission does. *)
VerdictOfCheck(check) == IF check = "ok" THEN "yes" ELSE "no"
LiveVerdict(probe) ==
  CASE probe = "ok" -> "yes" [] probe = "indeterminate" -> "unknown"
    [] OTHER -> "no"

(* ------------------------------- the reads ------------------------------ *)

NoShared == [breaker |-> "none", spawned |-> FALSE, status |-> "none",
             heard |-> FALSE, recovery |-> "none"]

NoAnswer == [status |-> "none", ready |-> FALSE, attached |-> FALSE,
             breaker |-> "none", reasons |-> {}, readiness |-> NoReadiness]

IdleReader == [kind |-> "none", at |-> "idle", shared |-> NoShared,
               database |-> "none", checkpoint |-> "none", worker |-> "none",
               claim |-> "none", adoptable |-> "none", answer |-> NoAnswer]

Probing == reader.at = "probing"

(* What a bystander would call true of the world, by name.                  *)
HeldFacts(w) ==
  {f \in {"database", "checkpoint", "owned", "answering", "ours", "breaker",
          "recovery"} :
     CASE f = "database"   -> w.database = "ok"
       [] f = "checkpoint" -> w.checkpoint = "ok"
       [] f = "owned"      -> ~w.local \/ w.worker \in {"ours", "busy"}
       [] f = "answering"  -> w.worker \in {"ours", "other"}
       [] f = "ours"       -> w.worker = "ours"
       [] f = "breaker"    -> w.breaker = "closed"
       [] f = "recovery"   -> w.recovery = "ok"}

HealthInit ==
  /\ world \in {[database |-> "ok", checkpoint |-> "ok", worker |-> k,
                 breaker |-> "closed", spawned |-> s, status |-> "up",
                 heard |-> s, recovery |-> "ok", lanes |-> TRUE,
                 armed |-> p, local |-> l, seated |-> t] :
                  k \in {"ours", "gone"}, s \in BOOLEAN, p \in HealthProfiles,
                  l \in BOOLEAN, t \in BOOLEAN}
  /\ ~world.seated => ~world.spawned /\ world.worker = "gone"
  /\ shifts = 0
  /\ reader = IdleReader
  /\ good = {}
  /\ quiet = TRUE

(* The other parts of the gateway and its dependencies go their own way.    *)
(* A seat is filled by the lifespan and never emptied under a read.  An     *)
(* answer on its way is judged by the world it was assembled in.            *)
Shift ==
  /\ shifts < MaxShifts /\ reader.at # "answered"
  /\ \/ \E f \in DOMAIN Values : \E v \in Values[f] :
          /\ world[f] # v
          /\ world' = [world EXCEPT ![f] = v]
     \/ ~world.seated /\ world' = [world EXCEPT !.seated = TRUE]
  /\ shifts' = shifts + 1
  /\ good' = good \cup HeldFacts(world')
  /\ quiet' = FALSE
  /\ UNCHANGED reader

(* A request arrives: the seated facts are taken before any probe runs.     *)
(* The aggregate answers at once when the lifespan has not seated the parts *)
(* its probes need (_unarmed_health_aggregate).                             *)
BeginRead(kind) ==
  /\ reader.at = "idle"
  /\ kind \in {"service", "desktop", "admission"} => world.seated
  /\ kind = "desktop" => world.armed
  /\ kind = "aggregate" => ~world.armed
  /\ LET needs(p) == IF p THEN "pending" ELSE "none"
         full == kind \in {"service", "aggregate"}
     IN  reader' = [IdleReader EXCEPT
           !.kind = kind, !.at = "probing", !.shared = SharedFacts(world),
           !.database = needs(full \/ kind = "desktop"),
           !.checkpoint = needs(full),
           !.worker = needs(full \/ kind = "admission"),
           !.adoptable = needs(kind = "admission")]
  /\ good' = HeldFacts(world)
  /\ quiet' = TRUE
  /\ UNCHANGED <<world, shifts>>

UnseatedAggregate ==
  /\ Probing /\ reader.kind = "aggregate" /\ reader.shared.breaker = "unknown"
  /\ reader' = [IdleReader EXCEPT !.kind = "aggregate", !.at = "answered",
       !.answer = [NoAnswer EXCEPT !.status = "degraded", !.breaker = "unknown",
                                   !.reasons = {"gateway"},
                                   !.attached = AttachedWorker(reader.shared)]]
  /\ UNCHANGED <<world, shifts, good, quiet>>

(* The database probe settles.  Only a read with a deadline gives up on a   *)
(* query that does not come back; the desktop read waits for it.            *)
ProbeDatabase ==
  /\ Probing /\ reader.database = "pending"
  /\ reader.kind = "desktop" => world.database # "hung"
  /\ reader' = [reader EXCEPT !.database = DatabaseVerdict(world)]
  /\ UNCHANGED <<world, shifts, good, quiet>>

ProbeCheckpoint ==
  /\ Probing /\ reader.checkpoint = "pending"
  /\ reader' = [reader EXCEPT !.checkpoint = CheckpointVerdict(world)]
  /\ UNCHANGED <<world, shifts, good, quiet>>

(* Ownership of the port is settled before the credential travels: a        *)
(* withheld probe reports a worker that is not there.                       *)
AuthorizeWorker ==
  /\ Probing /\ reader.worker = "pending" /\ reader.claim = "none"
  /\ reader' = IF Authorized(world) THEN [reader EXCEPT !.claim = "ours"]
               ELSE [reader EXCEPT !.worker = "error"]
  /\ UNCHANGED <<world, shifts, good, quiet>>

(* The probe itself: the full reads keep healthy or not, admission keeps    *)
(* the third answer too.                                                    *)
ProbeWorker ==
  /\ Probing /\ reader.worker = "pending" /\ reader.claim = "ours"
  /\ LET verdict == WorkerVerdict(world)
     IN  reader' = [reader EXCEPT !.worker =
           IF reader.kind = "admission" \/ verdict = "ok" THEN verdict ELSE "error"]
  /\ UNCHANGED <<world, shifts, good, quiet>>

(* Admission asks for provenance too, and only of a port that answered.     *)
ProveAdoptable(r, w) ==
  CASE r.worker = "indeterminate" -> "unknown"
    [] r.worker = "ok" -> (IF WorkerIsOurs(w) THEN "yes" ELSE "no")
    [] OTHER -> "no"

ProveWorker ==
  /\ Probing /\ reader.adoptable = "pending" /\ reader.worker # "pending"
  /\ reader' = [reader EXCEPT !.adoptable = ProveAdoptable(reader, world)]
  /\ UNCHANGED <<world, shifts, good, quiet>>

Settled == /\ Probing
           /\ "pending" \notin {reader.database, reader.checkpoint,
                                reader.worker, reader.adoptable}

(* build_full_health's tail, with what the two routes over it add.  The     *)
(* service read assembles the desktop readiness after the probes, over the  *)
(* seated facts as they stand by then.                                      *)
AnswerFull ==
  /\ Settled /\ reader.kind \in {"service", "aggregate"}
  /\ reader.shared.breaker # "unknown"
  /\ LET checks == ChecksOf(world, reader)
         service == reader.kind = "service"
     IN  reader' = [reader EXCEPT !.at = "answered", !.answer =
           [status    |-> IF service THEN HealthStatus(checks)
                          ELSE IF AllReady(checks) THEN "ready" ELSE "degraded",
            ready     |-> AllReady(checks),
            attached  |-> AttachedWorker(reader.shared),
            breaker   |-> reader.shared.breaker,
            reasons   |-> DegradedReasons(checks),
            readiness |-> IF service
                          THEN Readiness(world, reader.database = "ok",
                                         VerdictOfCheck(reader.worker), "unknown")
                          ELSE NoReadiness]]
  /\ UNCHANGED <<world, shifts, good, quiet>>

(* probe_desktop_readiness: a live database, and the worker as it is seated.*)
DesktopReading(w, r) == Readiness(w, r.database = "ok", "unknown", "unknown")

(* _admission_readiness: a live worker, and the database engine as seated.  *)
AdmissionReading(w, r) ==
  Readiness(w, TRUE, LiveVerdict(r.worker), r.adoptable)

AnswerReadiness ==
  /\ Settled /\ reader.kind \in {"desktop", "admission"}
  /\ LET readiness == IF reader.kind = "desktop"
                      THEN DesktopReading(world, reader)
                      ELSE AdmissionReading(world, reader)
     IN  reader' = [reader EXCEPT !.at = "answered",
           !.answer = [NoAnswer EXCEPT !.readiness = readiness,
                                       !.reasons = readiness.reasons]]
  /\ UNCHANGED <<world, shifts, good, quiet>>

(* The answer is delivered and the connection is free for another read.     *)
EndRead ==
  /\ reader.at = "answered"
  /\ reader' = IdleReader
  /\ good' = {} /\ quiet' = TRUE
  /\ UNCHANGED <<world, shifts>>

ReadStep == \/ ProbeDatabase \/ ProbeCheckpoint \/ AuthorizeWorker
            \/ ProbeWorker \/ ProveWorker \/ UnseatedAggregate
            \/ AnswerFull \/ AnswerReadiness

HealthNext == \/ \E kind \in Kinds : BeginRead(kind)
              \/ ReadStep \/ EndRead \/ Shift

HealthFairness == WF_healthVars(ReadStep)

HealthSpec == HealthInit /\ [][HealthNext]_healthVars /\ HealthFairness

(* ------------------------------- properties ----------------------------- *)

(* Reads and answers keep their shape, and an answer is given only by a     *)
(* read none of whose probes is still out.                                  *)
HealthTypeOK ==
  /\ reader.at \in {"idle", "probing", "answered"}
  /\ reader.at = "answered" =>
       "pending" \notin {reader.database, reader.checkpoint, reader.worker,
                         reader.adoptable}
  /\ reader.database \in {"none", "pending", "ok", "error"}
  /\ reader.checkpoint \in {"none", "pending", "ok", "error"}
  /\ reader.worker \in {"none", "pending", "ok", "error", "indeterminate"}
  /\ reader.worker = "indeterminate" => reader.kind = "admission"
  /\ shifts \in 0..MaxShifts

ReadAnswered(kind) == reader.at = "answered" /\ reader.kind = kind

(* A ready service answer is backed by an observation of every dependency:  *)
(* the database, the checkpoint store, the ownership of the worker port, a  *)
(* worker answering on it, the breaker and the recovery owner each were well*)
(* at some instant of this read, however the world moved while the probes   *)
(* were out.  (Not all at one instant: the port can change hands between the*)
(* ownership check and the probe.)                                          *)
ReadyWasSeen ==
  reader.at = "answered" /\ reader.answer.ready =>
    {"database", "checkpoint", "owned", "answering", "breaker", "recovery"}
      \subseteq good

(* A service answer that refuses runs says why: whatever makes it not ready,*)
(* a half-open breaker included, is among its degraded reasons.             *)
DegradedIsExplained ==
  ReadAnswered("service") /\ ~reader.answer.ready => reader.answer.reasons # {}

(* When nothing changed around the read, the two verdicts of one service    *)
(* answer agree: a service ready for runs is not blocked for them, save by  *)
(* the desktop profile's standing refusal, and its breaker reads closed.    *)
QuietAnswersAgree ==
  ReadAnswered("service") /\ quiet /\ reader.answer.ready =>
    /\ reader.answer.breaker = "closed"
    /\ reader.answer.readiness.gateway
    /\ ~world.armed => reader.answer.readiness.admission # "blocked"

(* Admission opens to a worker this gateway never spawned only on proof: at *)
(* some instant of the read the listener was the gateway's own worker.      *)
AdoptedIsOurs ==
  /\ ReadAnswered("admission") /\ ~world.spawned
  /\ reader.answer.readiness.worker = "ready"
  => "ours" \in good

(* A worker too busy to answer in time is not an absent one: with the world *)
(* standing still, admission keeps the watchdog's verdict of a spawned      *)
(* worker that is up and heard from.                                        *)
BusyIsNotAbsent ==
  /\ ReadAnswered("admission") /\ quiet
  /\ world.worker = "busy" /\ world.spawned /\ world.heard
  /\ world.status \in {"pending", "up"}
  => reader.answer.readiness.worker = "ready"

(* A read whose probes carry deadlines is answered whatever the stores do:  *)
(* service, aggregate and admission reads end even on a database that never *)
(* comes back.                                                              *)
ReadsAreAnswered ==
    (Probing /\ reader.kind # "desktop") ~> (reader.at # "probing")
=============================================================================
