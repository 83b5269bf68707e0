# A TLA+ verification of vaultspec-a2a

vaultspec-a2a runs teams of coding agents as LangGraph graphs. A **gateway**
process serves clients and owns the durable control state (SQLite); a **worker**
process executes graphs and writes nothing durable but the checkpoints of its
graph library. They talk over HTTP in both directions, each may stop at any
moment, and beside them run the agents' own processes, the tool servers and an
external authoring engine. This directory models the parts of that system whose
correctness depends on the order in which things happen, checks them with TLC on
small instances, and proves the most important properties with TLAPS for every
value of the constants.

Paths are relative to `src/src/vaultspec_a2a/`. `PROJECT.json` maps definitions to
the lines they stand for, lists the parts of the system with what is modelled of
each, and the hazards with the properties that guard against them.

## 1. The system and its parts

A client's request becomes one **write transaction** of the gateway: it elects a
new state of the run row, writes the journal row of the action and takes that
row's lease. Only then is the action posted to the worker. The worker's
acceptance acknowledges scheduling only; what settles the action is the worker's
later *application* event, or a *checkpoint pass*, which reads the row, then the
checkpoint, then applies what it found if the row is still the one it read. A
periodic recovery loop delivers again what was not applied and quarantines what
ran out of time. When the completed checkpoint of a turn is proven, the waiting
follow-up, if there is one, is promoted in the same transaction.

Two modules model that core, each with all the actors that race over it:

| module | what it is | code |
|---|---|---|
| `RunLifecycle` | statuses, transition table, eligibility policies (constant operators) | `thread/enums.py`, `thread/transitions.py`, `thread/*_policy.py` |
| `RunRow` | the promise: a run row that moves only by elections | `database/thread_repository.py`, `thread/write_authority.py` |
| `RunControl` | one run: row, journal, leases, receipts, queue, dispatchers, passes, relay, worker slot, checkpoint | `control/*_service.py`, `control/continuation_queue.py`, `control/leased_dispatch.py`, `control/recovery_authority.py`, `control/event_handlers.py`, `worker/executor.py` |
| `RunAdmission` | `POST /v1/runs` in all its stages, the reservation broker, the drain gate | `api/routes/_gateway_run_start.py`, `control/admission.py`, `control/drain.py` |

The other components meet only through the rows those two own. On the gateway's
side:

| module | what it is | code |
|---|---|---|
| `CommitSingleFlight` | the dict of per-run locks around commit and release | `api/run_admission.py` |
| `CircuitBreaker` | the breaker in front of the worker, with its half-open probe | `control/circuit_breaker.py` |
| `RecoveryLedger` | the durable retry record of an accepted action and its passes | `database/recovery_attempt_repository.py`, `control/direct_control_recovery.py` |
| `DeletionSaga` | manifest, leased claim, cleanup, finalization | `control/deletion_saga.py`, `control/cleanup/` |
| `PermissionRecords` | the journal of a run's questions, its relay and its responders | `database/permission_repository.py`, `control/permission_service.py` |
| `ClarificationAnswers` | questionnaires, from the ask to the settled answer | `control/clarification_service.py`, `thread/clarification.py` |
| `StatusSnapshot` | the three reads a reconnecting client is served from | `control/thread_state_service.py`, `control/projection.py` |
| `RunListing` | discovery and listing with probes and a deadline | `control/run_discovery_service.py`, `control/thread_listing.py` |
| `RunStream` | frame numbers, ring, table, replay and a viewer that comes and goes | `streaming/`, `api/thread_stream.py`, `api/_stream_replay.py` |
| `TeamSelection` | freezing provider lanes for a run, recognising repeats | `providers/team_selection.py`, `control/execution_authority.py` |
| `ServiceHealth` | the four health reads over a moving world | `control/health.py` |
| `StoreWrites` | write contention on both stores | `database/session.py`, `database/checkpoints.py` |
| `StoreMigration` | setup, migrate, compact, boot; deaths between commits | `desktop/migration.py`, `database/compatibility.py` |
| `WorkerProcess` | spawn, readiness, watchdog, shutdown of the worker | `control/worker_management.py` |
| `ResidentGateway` | singleton, discovery record, `service start` and `stop` | `lifecycle/singleton.py`, `lifecycle/discovery.py`, `cli/service.py` |
| `ProcessControl` | a contained process tree; the registry of launched processes | `utils/process.py`, `lifecycle/registry.py` |
| `ProviderCatalogs` | scopes, single-flight refresh, discovery, health records | `providers/provider_catalog.py` |

On the worker's side:

| module | what it is | code |
|---|---|---|
| `WorkerDispatch` | capacity slots, graph cache, arbitration, cancel, drain | `worker/executor.py`, `worker/graph_lifecycle.py` |
| `WorkerBridge` | the bounded outbound event buffer and its three flushers | `worker/ipc.py` |
| `StreamIngest` | the event producer: buffering, debouncing, interrupts | `streaming/ingest.py`, `streaming/emitters.py` |
| `TeamGraph` | supervisor, pipelines, approval and review loop | `graph/compiler.py`, `graph/nodes/supervisor.py` |
| `DocumentPhases` | document phases, submissions, gates, verdict subscriber | `graph/_compiler_research.py`, `control/verdict_subscriber.py` |
| `ProviderAttempts` | a worker turn and the retry policy over both lanes | `graph/_compiler_retry.py`, `graph/nodes/worker.py` |
| `AcpSession` | one ACP turn from spawn to teardown | `providers/acp_chat_model.py`, `providers/_acp_*.py` |
| `WorkerPermissions` | the decision on a tool call; answers on replay | `providers/_tool_policy.py`, `graph/nodes/_worker_permissions.py` |
| `McpSurface` | the tool servers of a turn: registry, binding, probe | `providers/_harness_mcp_registry.py`, `providers/_mcp_contract.py`, `worker/authoring_binding.py` |
| `RunHomes` | private provider homes and the login they borrow | `providers/_codex_auth.py` |
| `AuthoringEdge` | client, relay and submission towards the engine | `authoring/client.py`, `worker/authoring_relay.py` |
| `ToolCallJournal` | the replay journal of authoring calls, its index, its retirement | `authoring/_tool_calls.py`, `authoring/_journal_index.py` |

`WorkerPermissions` and `ProcessControl` each hold two parts that share no variable.

**Atomicity.** Every write transaction begins with `begin_write_transaction`,
which takes SQLite's single writer lock before its first read, so
`begin_write_transaction ... commit` is one step. Everything between two
transactions interleaves: the POST, its reply, checkpoint reads, relayed events,
clock ticks, crashes. Where code runs on one event loop, what lies between two
awaits is one step; where processes share files, each file operation is one.

## 2. RunControl: state and actions

| variable | stands for |
|---|---|
| `thread` | the run's row: status, `run_revision`, `writer_generation`, writer action |
| `journal` | per action: result, lease holder and expiry, recovery deadline, queue position, generation its graph receipt names |
| `now` | the clock leases, deadlines and the run's lifetime are compared with |
| `call` | what each dispatcher coroutine is doing between its commit and its last transaction |
| `pass` | each checkpoint pass: its kind, the witness it took, the checkpoint it read |
| `sweep` | the boot's one redispatch sweep |
| `checkpoint` | the latest checkpoint: whose receipt it carries, and its state (external) |
| `worker` | the worker's slot for this run, the dispatch ids it has seen, a pending cancellation |
| `events` | events the worker sent and the gateway has not relayed |
| `crashed`, `inputs`, `line` | crash bound; history: how often each input entered the graph, admission order |

Actions follow the code's transactions and awaits:

* *Delivery*: `Bind` (`bind_graph_action_receipt`), `DeliverGraph`,
  `DeliverCancel`, `DeliverDuplicate`, `DeliverBusy` (the worker's
  `_dispatch_request`), `Undelivered` (circuit open, full, unreachable,
  refused), `RecordFailure`, `RecordRedriveFailure`, `FinishCreate`. A reply may
  be lost after the worker admitted the dispatch (`Replied`).
* *Clients*: `SendFollowup`, `CancelThread`, `ReadHeld` then `AcceptAnswer` or
  `RefuseAnswer` (the checkpoint is read before the transaction), `ReadRun`,
  `Archive`, `Delete`.
* *Recovery*: `Redrive`, `RefuseRecovery`, `ExpireOverdue`, `SweepList`,
  `SweepClaim`, `SweepSkip`, `SweepRefuse`.
* *Relay*: `HandleApplication`, `HandlePaused`, `HandleCompleted`,
  `HandleFailed`, `HandleCancelled`.
* *Passes*: `WitnessPause`, `WitnessReconcile`, `ReadCheckpoint`, `AbandonPass`,
  `MarkUnread` (a startup pass whose checkpoint could not be read), `ApplyPause`,
  `ApplyReconcile` (with `Promote` and `SettleTerminal`).
* *Worker*: `BeginIngest`, `BeginResume`, `Finish`, `Cease`.
* *Faults and time*: `WorkerStops`, `GatewayRestarts`, `Tick`.

Abstractions, all of data:

* Events are a set, delivered in any order, perhaps twice, perhaps never. The
  code's bridge (`WorkerBridge`) buffers, batches, requeues and evicts; the set
  allows more than it does.
* Every pause is an ask of one permission request; `Asks[i]` is the answer to
  the i-th ask. `PermissionRecords` and `ClarificationAnswers` have the rows.
* Payloads are fixed by the action, so the payload comparisons of the journal
  never fail; a changed payload, a journal row that vanished and an envelope over
  the size limit are left out.
* The recovery-attempt ledger (`RecoveryLedger`) only delays redrives here: a
  redrive happens whenever the lease is free, which includes every delay.
* The checkpoint store may fail to answer any read: the pass ends or marks the run
  (`AbandonPass`, `MarkUnread`), an ingest is reported as failed (`BeginIngest`) and a
  resume is refused (`BeginResume`).
* What a graph computes is a nondeterministic outcome: completed, interrupted,
  failed, or ceased by a cancellation.
* `RefuseRecovery` fires for graph actions only: the refusals reached on a
  stored input are a workspace that is gone and actor credentials that are not
  kept, and a cancel carries neither.

## 3. RunAdmission: state and actions

Any number of handlers of `POST /v1/runs` (`request`), each at one await of one
stage: `start`, `prepare`, `commit` or `release`. They share the run rows (`run`),
the broker's reservations (`reservations`, `issued`), the commit stripes (`stripe`,
which `CommitSingleFlight` models in detail) and the drain gate (`active`,
`drain`). `releasing` are runs whose settling handler has committed and not yet
reached its release; `mine` are the runs this process made, the only ones the gate
can know.

* *Start*: `Read`, `RefuseEarly`, `Admit`, then `Insert`, `RefuseNickname`,
  `JoinWinner` or `FailCreate`; `Dispatch`; `ReleaseStart` (the two releases of
  `_create_run_core`).
* *Commit*: `TakeStripe`, `Lookup`, `Selection`, `Ready`, `Bind`, `ReadAgain`, the
  creation steps of a start, then `Complete` or `Classify`.
* *Prepare and release*: `Prepare`; `TakeStripe`, `Free`.
* *The rest of the process*: `Settle`, `ReleaseSettled`, `CloseAdmission`,
  `WaitQuiescent`, `Tick`, `Restart`.

Three mishaps may befall a run at any time, and the history variable `befell` keeps
which: `overlap`, a start of a run whose earlier post is not over; `raise`, an
exception after the run's row is durable; `unseen`, a settlement by recovery, which
has no gate. What the gate promises of a run is stated up to the mishaps of that very
run, each property naming the ones that break it. A body is its run id, its
nickname and its prompt: `PreparedDigest` binds the first two, `RequestDigest` all
three. The catalogue, the roles and the readiness probe are nondeterministic
refusals at the place the code asks them.

## 4. How the other components are put together

Each module declares its own variables, one action per handler, transaction or
file operation, and its own `...Init`, `...Next`, `...Fairness` and properties;
its header says what is environment and what is abstracted. Two group modules
instantiate them: `MCGateway` and `MCWorker` for safety, `MCProgress` for liveness.
The components share no variable, so interleaving two of them shows nothing that
neither shows alone. The variable `focus`, fixed by the initial state, chooses the
component a behaviour runs; the others stay in one initial state.

The invariants of the components are collected in *theme* properties of the
groups: `AcceptedIsHonoured`, `ShownIsTrue`, `WritesAreWhole` and `DeletionIsWhole`
on the gateway's side; `ProcessesAreAccounted`, `CapabilitiesAreProven`,
`WorkIsNeitherLostNorRepeated`, `TeamIsGoverned`, `TurnsAreWhole`,
`EffectsHappenOnce` and `RetriesAreSafe` on the worker's. `GatewaySteps` and
`WorkerSteps` collect the action properties, `GatewayProgress` and `WorkerProgress`
the liveness properties. Each conjunct is a definition of its component with a
comment that says which code it is about. `EffectsHappenOnce` joins two components,
the client in front of the engine and the journal of bridged calls; it is defined in
`ToolCallJournal`, which extends `AuthoringEdge`, so that a theorem can state it.
`TeamIsGoverned` likewise joins the team graph and the document phases; it is defined
in `TeamGraph`, which extends `DocumentPhases`.

A definition introduced by a comment "Mutant of X" is a plausible bug of X. None
is used by a specification; each shows that the property guarding against that bug
notices it.

## 5. What TLC checks

| run | asks |
|---|---|
| `runcontrol_queue` | Two follow-ups, a cancel and status reads against one turn. `FifoPromotion`, `QueuedOwnsNothing`, `NoStrandedContinuation`, `CancelKeepsTheRun`, `DecisionsStand`. |
| `runcontrol_redelivery` | Two dispatchers, lost replies and events, one stop of either process. `TurnInputOnce`, `CompletedIsProven`, `TurnsAreSerial`. |
| `runcontrol_pause` | A run asked twice, answers refused, replayed, redelivered. `TypeOK`, `WriterIsReceipted`, `ReceiptsAreUnique`. |
| `runcontrol_lifecycle` | Creation, a follow-up, cancel, archive and delete. `RowPromise`: the refinement of `RunRow`; `CancellingIsLeft`, `AcceptedIsDecided` under `Fairness`. |
| `admission_broker` | Three overlapping posts for two runs, every mishap, one restart. `BrokerIsSound` (capacity is never oversold, no two runs carry one lease), `ReservationEndsByItsOwn`. |
| `admission_gate` | Three posts of one run, with every mishap. `GateIsSound` (but for the run's own mishaps the gate covers live runs, has no phantom, quiescent is final, a commit answers its run's lease), `PostsAndDrainEnd`. |
| `gateway` | The components of the gateway: the themes above, `MutualExclusion`, `SelfCleaning`, `TypesOK`, `GatewaySteps`. |
| `worker` | The components of the worker and of processes: the themes above, `ProbeIsOwned`, `UnprovenKeepsItsFailures`, `OneProbePerWindow`, `TypesOK`, `WorkerSteps`. |
| `progress` | Every component finishes what it accepted: `GatewayProgress`, `WorkerProgress`. |

Three runs refute what the repository says of itself; see section 8.

**Bounds of RunControl.** One or two dispatchers, one pass, zero to two
follow-ups, zero to two asks, a horizon of two ticks with leases of one. Two
dispatchers are what a lease protects against each other; one pass is made stale
by events, expiry and clients; two follow-ups make an order; two asks make a
replay land on the wrong one; a lease of one tick and a deadline of two (one in
the lifecycle run) make a lease, then a deadline, run out within the horizon. `Backlog` bounds the
undelivered events, `Revisions` the row revisions at which an answer is still
accepted, `Crashes` the stops of either process.

**Bounds of RunAdmission.** Three posts are a prepare and two stages that race over
it; capacity one makes the second prepare meet the bound; a lifetime of one tick
lets a reservation expire under its commit.

**Bounds of the groups.** Two of everything that races (clients, requests,
starters, migrators, gateways, launchers, workers, turns, passes; three callers of
the lock and of the breaker, so that one waits behind another); queues, rings and
buffers of one to three entries, so that they fill and evict; one death, kill,
restart or refusal more than a retry budget needs to be exhausted. Every bound is a
constant with a comment in its module (`Max...`). `MCProgress` uses smaller
instances than the safety runs, since liveness is checked on the whole graph.

**Deadlock** is not checked: a run that is over stops, posts and entries are
bounded, clocks end. What must go on is stated as liveness.

**Fairness** is weak fairness of what the processes do without a client: the
clock; every open delivery and pass (each awaits calls that time out); the periodic
redrive and expiry loop of `control/recovery.py`; the boot sweep; the event relay;
the worker's own progress (runs have a timeout); in the groups, the steps of a
coroutine that runs on once its await returned, timers, watchdogs and heartbeats.
Client requests, crashes, kills, lost messages and the choices of agents and people
have none, except where the code puts a deadline on them. `DeletionSaga` assumes
that the deletion of a hidden run is requested again, since nothing in the gateway
resumes it by itself. `RefuseRecovery` and `SweepRefuse` have none, since they
depend on the environment. In `RunAdmission` every handler runs on, a live run ends
by its event or a cancel, and the handler that settled it reaches its release;
repeated settlements have none, so a forgotten release is not repaired by luck.

## 6. Properties worth arguing about

* `TurnInputOnce` — the message of a turn enters the graph at most once,
  although the gateway redelivers whenever it does not know, and the worker's
  memory of dispatch ids dies with it. It rests on the receipt inside the
  checkpoint (`Evidence`).
* `CompletedIsProven` — no stale pass or event completes a run whose last turn has
  not finished.
* `FifoPromotion` — promotion order is admission order, although positions are
  reused after the queue drains.
* `CancelKeepsTheRun` — a pass that read a completed checkpoint before a cancel
  was accepted does not promote the next turn over it.
* `RowPromise` — no race of creation, answers, cancels, expiry, passes, events,
  archive and delete writes the row other than by an election.
* `BrokerIsSound` — a commit that fails after its run became durable does not
  sell the reservation twice, whatever `_classify_failed_commit` could read.
* `GateIsSound` — four places release a run from the gate and none may be missing
  or early; a drain answers from that set alone.
* `DeletionIsWhole` — passes whose claims expired under them go on; what they
  record neither loses another pass's item nor hides content that was left.
* `RetriesAreSafe` — no retry repeats what was shown or done.

## 7. What is proved

Every theorem holds for all values of the constants that satisfy the named
`ASSUME`s of the component's module (`ActionAssumption`, `AskAssumption`,
`TimeAssumption`, `AdmissionAssumption`, `SagaAssumption`, `SingleFlightAssumption`,
`BreakerAssumption`, `AttemptsAssumption`, `LedgerAssumption`, `EdgeConstants`,
`JournalAssumption`, `PhasesAssumption`, `TeamAssumption`), which TLC evaluates on
the runs. Each rests on an inductive invariant that TLC checked on a small instance
before it was proved.

**Types and authority of a run** (`RunControlTypeProofs`, `RunControlProofs`), for
any number of follow-ups, asks, dispatchers, passes, crashes and ticks.

* `TypesHold` — `TypeInv` adds to `TypeOK` that the worker's slot holds a graph
  action whenever it is not idle (`StartGraph` writes that action into the
  checkpoint). `NextPosition` chooses the highest position of a finite set; that it
  exists is proved by a minimal counterexample over the well-founded order of the
  naturals (`LeastNatural`, `HighestPosition`).
* `NextIsStoreStep` — under `Inv`, each action changes `<<thread, journal>>` in one
  of ten ways (`StoreStep`): nothing but leases; the writer decided; the row moved
  by its own writer; the run settled; a continuation admitted; a cancel, an answer
  or a promotion taking over; and so on. The theorems that follow argue about ten
  steps instead of forty actions.
* `WriterIsReceiptedTheorem`, `ReceiptsAreUniqueTheorem`,
  `QueuedOwnsNothingTheorem`, `NoStrandedContinuationTheorem` — the conjuncts of
  `Inv == TypeInv /\ WitnessInv /\ Authority`. `WitnessInv` says that a pass and the
  sweep hold what their own guards let them read. `Authority` joins the four:
  uniqueness needs that receipts do not exceed the generation; that a waiting turn
  owns nothing needs that only follow-ups wait; that none is stranded needs all of
  them.
* `DecisionsStandTheorem`, `CancelKeepsTheRunTheorem` — action properties, from
  `Inv` and the ten steps.
* `RowPromiseTheorem` — the refinement of `RunRow`: `Init` maps to its initial
  state, and each of the ten steps is an election of it or a stutter.

**The order of promotion** (`RunControlQueueProofs`).

* `FifoPromotionTheorem` — from `QueueOrder`, five facts about `line`, the admission
  order: it lists a turn once (`ListedOnce`), and exactly the turns with a journal
  row (`ListedIffKnown`); ahead of a waiting turn stand promoted ones and waiting
  ones with smaller positions (`WaitingInOrder`); while the run is active, a turn it
  knows waits or was promoted (`WaitingOrPromoted`); and receipts increase along it
  (`FifoPromotion`).

**Completion and the turns** (`RunControlTurnProofs`).

* `CompletedIsProvenTheorem` — from `ProvenInv`. A run is completed, and a follow-up
  promoted, only by `ApplyReconcile` of a pass that read the completed checkpoint of
  the very row it finds (`CompletionIsProven`); so it must be shown that the
  checkpoint the pass read is still the one there is (`ProofStands`). It can change
  only when a graph starts or finishes. A graph that is executing has made the
  checkpoint pending and its own (`ExecutingIsPending`), so it is not the completed
  one; and one that is still to start is either refused by the evidence of its own
  receipt in the checkpoint, or carries a receipt past it, which cannot be since
  nothing under way carries a generation to come (`CarriedIsPast`). `WitnessIsPast`
  rules out that a row returns to what an old pass witnessed.
* `TurnInputOnceTheorem`, `TurnsAreSerialTheorem` — from `TurnInv`, for
  `Asks = << >>`. The checkpoint's generation never goes back: a delivery carries the
  one receipt of its action (`CarriedIsOwn`), so a message that entered left its
  receipt at or below the checkpoint's generation (`EnteredOnce`), and a second
  delivery is stopped by it. A follow-up gets its receipt when the turn before it is
  proven complete and no other graph action can start in between (`FollowsOn`, with
  `ProvenInv` giving the completed checkpoint at the moment of promotion).
  The assumption is needed by this argument: an answer is a graph action of
  its own, and one that was redelivered late resumes the graph under its own older
  receipt, which moves the checkpoint's generation back (the run
  `runcontrol_replayed_answer` shows such a resumption). For runs with asks both
  properties remain what TLC shows.

**Admission** (`RunAdmissionProofs`), for any number of posts, bodies, reservations
and restarts.

* `BrokerIsSoundTheorem` — under every mishap, from `BrokerInv`: each handler holds
  what its place in the code says (`HandlersFit`); no reservation exists before it is
  minted (`MintedOnce`); a commit past its bind is alone with its reservation
  (`BoundAlone`); a run that carries a lease is the only one, and the reservation was
  prepared for it and is not open (`LeasedAlone`). Capacity is a cardinality that
  only `Prepare` raises, under its bound.
* `ReservationEndsTheorem` — the action property `ReservationEndsByItsOwn`, from
  `BrokerInv`.
* `GateIsSoundTheorem` — with every mishap, from `GateInv`, which is stated run by
  run. Two posts that start a run which was not overlapped are commits, which its
  stripe puts in order, so one of them at most is making it (`OneMaker`); what a
  handler found of such a run is still so (`RunAsFound`); and the gate counts it exactly
  while somebody will release it (`GateCounts`). A run that a mishap befell keeps that
  mark, and what its handlers do leaves the other runs' counts alone
  (`GateCountsStay`).

**Deletion, recovery, locks, breaker** (`GatewayProofs`).

* `DeletionIsWholeTheorem` — for any finite set of requests, any stores, attempts,
  deaths and overruns, from `SagaInv`. Two passes may work on one saga when a claim
  expired under the first. What keeps them apart is a count: for each item, the
  attempts recorded plus the failures that passes still have to record do not exceed
  the refusals that happened (`AttemptsFailed`, by cardinality), so an item is given
  up only after `MaxAttempts` refusals (`GivenUpLate`); a pass knows what became of
  its item (`PassesKnow`), and the manifest covers what is left (`ManifestCovers`).
* `ManifestIsKeptTheorem` — no request changes a captured manifest.
* `LedgerTheorem`, `LedgerStepsTheorem` — from `LedgerInv`: a closed record was closed
  for a cause that also took the lease from the live dispatcher (`ClosedIsLost`), so a
  late failure cannot reach it; the lease a pass took is its own until it runs out
  (`SenderLease`); a pass at work has a record (`PassHasRow`). The proofs go through
  what one claimed write may change (`UpdatedLeaves`, `ClaimedWrites`).
* `MutualExclusionTheorem`, `SelfCleaningTheorem` — for any finite set of callers,
  from `FlightInv`: the users field counts the callers that use an entry (`Counted`,
  from the cardinality theorems), everyone uses the entry the dict has for their run
  (`InTable`), no two runs share one (`OneIdentityEach`), and a lock is held once
  (`HeldOnce`). An entry is dropped only at count one, when its one user is the
  caller that leaves, so nobody keeps a lock the dict has forgotten.
* `ProbeIsOwnedTheorem`, `UnprovenKeepsItsFailuresTheorem`,
  `OneProbePerWindowTheorem` — for any number of calls, threshold and window; with the
  types the first two are inductive together (`BreakerInv`). The third needs the
  second: a failure of another call settles the pending probe, and it is because the
  count was kept that it reopens the circuit in the same step.

**What reaches the engine** (`EffectProofs`), for any number of calls, roles,
deliveries, bridges, scopes, deaths and restarts of the engine.

* `EdgeTheorem` — from `EdgeInv`. The ledger has a command under a key made of its
  submission and its step alone, so a resend under another bearer, or a delivery
  repeated after a lost answer, meets the entry of the first. `EngineFits`: a step in
  the ledger has the step before it there, and while the engine is up nobody else has
  its port. `CallFits`: a call that sends has a key and a process that were proven,
  the steps before its own are in the ledger, and whoever is past the role's lock
  holds it, with tokens that were there when it was authorised.
* `EffectsHappenOnceTheorem` — adds the journal of bridged calls, from `JournalInv`.
  That a logical call is executed once needs more than the calls table, since a
  bridge may die with the key delivered and another take over, and a retirement may
  replace the file under an open handle. What holds is that every key that has left a
  journal is still the one the journal has, or the only one of its call where the
  journal was replaced (`KeysKept`). A key is chosen only in a committed preparation;
  the pending call is the only one and expects the current revision (`PendingFits`); a
  preparation about to be committed repeats the key of its call or is the first
  (`ProposalsFit`); and two transactions on one journal exclude each other
  (`WritersFit`). That a retired run leaves nothing needs that the index lists every
  journal that is there or may still be made (`RetireFits`, `HeadsFit`).
* `JournalForwardTheorem` — the action property `LifecycleGoesForward`, from
  `JournalInv`: a late replay does not move the revision back.

**The governance of a team and its turns** (`TeamProofs`), for any team, phases,
budgets, verdicts and faults.

* `PhasesTheorem` — from `PhasesInv`. A verdict travels from the engine through the
  outbox, the subscriber and the mailbox to a gate, and may be replayed, delayed or
  lost on the way. What holds is that whatever is on its way, and whatever a gate
  has routed on, is what the engine recorded (`VerdictsFit`), and that a recorded
  decision stands (`EngineKeeps`). A parked run waits for its last body (`GateFits`),
  so the verdict that lets it go is the one about that body (`PassedFits`).
* `GraphTheorem` — from `GraphInv`. `NodeFits` says what every way to a node has
  established: at the approval node there is a plan, at the completion node nothing
  is left to execute or to review. `BlockedFinishIsReported` needs an account of the
  supersteps: while the supervisor answers nothing but FINISH, each blocked one has
  cost at most three (`InsistingFits`: supervisor, mount, worker), so the limit that
  `_validate_finish_block_budget` accepts is not reached before the typed error.
* `TeamIsGovernedTheorem` — both, as the theme the run checks.
* `RetriesAreSafeTheorem` — for any number of attempts. `AttemptsInv`: only the
  current attempt has relayed; it and those that ended in the silence of a Codex turn
  (`silencedIn`, section 8) are the only ones that acted; and any other exception
  raised after a tool acted is one the policy does not retry.

`GraphTheorem` and `TeamIsGovernedTheorem` are about every team of one worker or more,
with or without a reviewer; `BlockedFinishIsReported` names the one case a team without
a reviewer adds (section 8). The team of the runs has a reviewer, so that case is the
theorem's alone.

**Only model-checked.** Liveness (`PostsAndDrainEnd`, `CancellingIsLeft`,
`AcceptedIsDecided`, `GatewayProgress`, `WorkerProgress`): the prover has no rule for
fairness here. `TurnInputOnce` and `TurnsAreSerial` of runs with asks (above). The
components not named above: their properties range over sequences that are folded,
filtered or scanned (frames, buffers, journals, catalogs), where an inductive proof
needs induction over data, or over the product of many small enumerations, where TLC
is the better tool.

## 8. Where the code and its documentation disagree

Three runs are expected to be violated; each has a finding in `PROJECT.json`.

* `runcontrol_drained` — a turn whose worker stopped after its application
  receipt was relayed is never delivered again (`DrainedTurnResumes`).
* `runcontrol_replayed_answer` — an answer redelivered to a restarted worker can
  answer the next ask of the same request (`AnswerInputOnce`).
* `admission_drained_early` — a start that fails gives back the admission it
  shares with another start of the run, and a drain answers quiescent over that
  run (`QuiescentIsFinal`).

The models show the following too, with no run of their own. Except where an item says
otherwise the case is part of the instances of section 5, and the property it touches
is stated with that case as its named exception, so that the runs and the theorems show
that nothing else breaks it.

* `RunControl` with asks and a cancel: an answer accepted while the run is CANCELLING
  takes the write authority, and the accepted cancel is never decided
  (`control/permission_service.py:563`, against `control/cancel_service.py:400-402`).
  The instance in which `CancellingIsLeft` is checked has no asks.
* `RunAdmission`, a run whose starts overlap: besides the early quiescence above, a
  commit whose run a plain start made first answers with a lease the run does not carry
  (against the docstring of `_gateway_run_start.py:736-738`); and of two identical
  starts the loser is refused the nickname of its own run (`RefuseNickname`). The tests
  that race starts use an engine without the served store's immediate transactions.
* `RunAdmission`, a run settled by recovery stays in the gate (`unseen`), and a start
  that fails after its insert leaves a live run outside it (`raise`). `GateIsSound` and
  `DrainEmpties` except exactly the runs these befell.
* `CircuitBreaker`: outcomes settle the half-open probe whoever reports them, a cancel
  and the watchdog's success after a restart included, where `circuit_breaker.py:30-31`
  says that no caller can settle another's reservation. The next probe may then go while
  the POST of the first is pending. What holds is that such an outcome ends the window
  too (`OneProbePerWindow`).
* `ProviderAttempts`: the idle limit of a Codex turn raises a bare `TimeoutError` that
  carries no effects flag (`providers/codex_chat_model.py:660-678`), so a turn in which
  a tool has acted is run again (`silencedIn`, the exception of
  `EffectsAreNotRepeated`).
* `RunStream`: a gateway that dies with unwritten frames in its ring gives their numbers
  to other frames, where `streaming/subscribers.py:115` promises restart-stable numbers;
  and the ring of the coldest run is dropped, written or not, when another run needs one
  (`EvictRing`). `OneFramePerNumber` excepts the frames that were never written, and
  `NoSilentLoss` the frames a dropped ring took and the runs whose numbers fell back. The allocator's memory of
  issued numbers (`_REMEMBERED_FLOORS`) is not bounded in the model, which has one run.
* `WorkerPermissions`: an elicitation names its server only, so with two calls of one
  server in flight it is decided on the last announced of them
  (`providers/_codex_permission.py:206`), where the docstring of `_announced_call` calls
  the correlation exact. `ApprovedIsCovered` says of which call the decision was then
  about (`crossed`).
* `ProcessControl`: a member that forks and exits between the listing of the process
  table and the look at its entry hides the tree from that scan. When it happens in
  every one of the `EmptyScans` empty scans, a live tree is reported gone
  (`utils/process.py:102-120`); `GoneIsGone` excepts that one history (`races`).
* `PermissionRecords`: a response reads the checkpoint before its transaction, so an
  answer may be accepted for a question the run no longer holds (`stale`), for one whose
  row is not yet written (`early`), or beside an unsettled answer, whose receipt is then
  refused because it no longer writes the run (`Overtaken`). The rows of such a question
  may stay open or closed wrongly; `OpenRowIsHeld` and `QuietParkIsOpen` are about the
  questions answered in order (`InOrder`).
* `DocumentPhases`: between two gates a phase is granted one revision more than the
  budget, where the docstring of `revision_granted` counts the one asked for;
  `RevisionsAreBounded` states the bound that holds.
* `TeamGraph`: `_validate_finish_block_budget` (`graph/compiler.py:570`) reserves three
  supersteps for each blocked FINISH and one for the turn that reports. In a team with
  an execution worker and no reviewer a FINISH may first be rerouted to the execution
  worker and then be refused for want of a reviewer. The refusals are re-asks, each a
  superstep of its own that the budget does not count, so where the re-ask limit exceeds
  3 (F - 1) for a finish-block limit of F (not at the defaults) a run may end in
  `GraphRecursionError` under a limit the compiler accepted. That is the exception of
  `BlockedFinishIsReported`; the theorem covers such teams, the team of the runs has a
  reviewer.
* `ResidentGateway` in an armed home: at the deadline of its readiness poll
  `service start` fells a gateway that is serving and named by a fresh record
  (`cli/service.py:235`).
* `StreamIngest`: a debounced update that sleeps while a newer one is sent directly is
  shown after it. `WorkerBridge`: `close` may answer that every event was relayed when
  the pending flush it cancelled held some (`worker/ipc.py:200-248`).

## 9. Not modelled

Listed with reasons in `PROJECT.json` under `components`: retention sweeps and
bookkeeping tables, the contents of schema revisions, frame encodings, prompts and
context budgets, provider command lines and transports, HTTP schemas and
authentication, desktop packaging and access control, configuration and presets,
telemetry, test support. Of the modelled components, what each leaves out is in its
note there and in its module's header. What a language model writes, what a graph
computes and what a person decides are nondeterministic everywhere; the engine,
LangGraph's checkpoint store, SQLite, the operating system and the agents are
external and modelled from how the code uses them.
