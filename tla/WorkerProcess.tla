--------------------------- MODULE WorkerProcess ---------------------------
(***************************************************************************)
(* The worker process a gateway owns: its lazy spawn at the first          *)
(* dispatch, the watchdog that restarts it, and the shutdown that reaps it *)
(* (control/worker_management.py, _worker_health.py, _worker_readiness.py, *)
(* _worker_process_stop.py, utils/process.py, utils/_process_tree.py,      *)
(* lifecycle/pairing.py, api/app.py).                                      *)
(*                                                                         *)
(* A worker is named by its spawn generation.  The dispatcher ("ensure",   *)
(* one caller at a time behind the spawn lock) and the watchdog run the    *)
(* same spawn: look at the port, start the process, wait until it answers  *)
(* as ours, reap it when it does not.                                      *)
(***************************************************************************)
EXTENDS Integers, FiniteSets

CONSTANTS
    MaxGenerations,   \* bound: spawns of the gateway's life
    WatchdogRetries,  \* watchdog_max_retries
    MaxWorkerFaults   \* bound: crashes, hangs, timeouts, foreign listeners, stuck trees

ASSUME WorkerAssumption ==
    /\ {MaxGenerations, WatchdogRetries} \subseteq Nat \ {0}
    /\ MaxWorkerFaults \in Nat

VARIABLES
    worker,      \* each generation's process
    stuck,       \* generations whose tree outlives the bounded SIGTERM and SIGKILL
    workerPort,  \* who listens on the worker port: 0 nobody, a generation, or Foreign
    seated,      \* the spawner's process and containment: a generation, or 0
    spawned,     \* _WorkerProcessState.spawned
    generation,  \* the spawn generation counter
    workerStatus,\* worker_status
    spawner,     \* what the dispatcher and the watchdog are doing
    cooling,     \* the watchdog's cooldown between restart cycles
    stopping,    \* the gateway's shutdown
    desktop,     \* whether the desktop profile is armed
    faults

workerVars == <<worker, stuck, workerPort, seated, spawned, generation, workerStatus, spawner, cooling,
                stopping, desktop, faults>>

Generations == 1..MaxGenerations
ForeignPid == -1
Spawners == {"ensure", "watchdog"}
AtRest == [pc |-> "rest", gen |-> 0, attempt |-> 0, http |-> FALSE, cancelled |-> FALSE]
WorkerAlive(g) == g > 0 /\ worker[g] \notin {"none", "dead"}

WorkerTypeOK ==
    /\ worker \in [Generations -> {"none", "starting", "ready", "hung", "stale", "dead"}]
    /\ stuck \subseteq Generations
    /\ workerPort \in Generations \cup {0, ForeignPid}
    /\ seated \in 0..MaxGenerations /\ generation \in 0..MaxGenerations
    /\ spawned \in BOOLEAN /\ cooling \in BOOLEAN /\ desktop \in BOOLEAN
    /\ workerStatus \in {"pending", "up", "down", "restarting"}
    /\ spawner \in [Spawners -> [pc : {"rest", "decide", "backoff", "claim", "evict", "wait",
                                     "reap", "probe"},
                               gen : 0..MaxGenerations, attempt : 0..WatchdogRetries,
                               http : BOOLEAN, cancelled : BOOLEAN]]
    /\ stopping \in {"no", "tasks", "cut", "stopped"}
    /\ faults \in 0..MaxWorkerFaults

WorkerInit ==
    /\ worker = [g \in Generations |-> "none"]
    /\ stuck = {} /\ workerPort = 0 /\ seated = 0 /\ spawned = FALSE /\ generation = 0
    /\ workerStatus = "pending"
    /\ spawner = [a \in Spawners |-> AtRest]
    /\ cooling = FALSE /\ stopping = "no" /\ faults = 0
    /\ desktop \in BOOLEAN

WorkerFault == faults < MaxWorkerFaults /\ faults' = faults + 1
SpawnerAt(a, pc) == spawner[a].pc = pc
Goto(a, pc) == spawner' = [spawner EXCEPT ![a].pc = pc]

-----------------------------------------------------------------------------
\* Processes and the port

\* A started worker binds its port, or dies of finding it taken
WorkerBinds(g) ==
    /\ worker[g] = "starting"
    /\ worker' = [worker EXCEPT ![g] = IF workerPort = 0 THEN "ready" ELSE "dead"]
    /\ workerPort' = IF workerPort = 0 THEN g ELSE workerPort
    /\ UNCHANGED <<stuck, seated, spawned, generation, workerStatus, spawner, cooling, stopping,
                   desktop, faults>>

\* It stops answering while its heartbeats are recent, then they age, or it recovers
WorkerHangs(g) ==
    /\ worker[g] = "ready"
    /\ WorkerFault
    /\ worker' = [worker EXCEPT ![g] = "hung"]
    /\ UNCHANGED <<stuck, workerPort, seated, spawned, generation, workerStatus, spawner, cooling,
                   stopping, desktop>>

WorkerAges(g, as) ==
    /\ worker[g] \in {"hung", "stale"}
    /\ worker[g] # as
    /\ worker' = [worker EXCEPT ![g] = as]
    /\ UNCHANGED <<stuck, workerPort, seated, spawned, generation, workerStatus, spawner, cooling,
                   stopping, desktop, faults>>

WorkerDies(g) ==
    /\ WorkerAlive(g)
    /\ WorkerFault
    /\ worker' = [worker EXCEPT ![g] = "dead"]
    /\ workerPort' = IF workerPort = g THEN 0 ELSE workerPort
    /\ UNCHANGED <<stuck, seated, spawned, generation, workerStatus, spawner, cooling, stopping,
                   desktop>>

TreeSticks(g) ==
    /\ WorkerAlive(g) /\ g \notin stuck
    /\ WorkerFault
    /\ stuck' = stuck \cup {g}
    /\ UNCHANGED <<worker, workerPort, seated, spawned, generation, workerStatus, spawner, cooling,
                   stopping, desktop>>

\* Another program takes the port, or leaves it
ForeignTakes ==
    /\ workerPort = 0
    /\ WorkerFault
    /\ workerPort' = ForeignPid
    /\ UNCHANGED <<worker, stuck, seated, spawned, generation, workerStatus, spawner, cooling,
                   stopping, desktop>>

ForeignLeaves ==
    /\ workerPort = ForeignPid
    /\ workerPort' = 0
    /\ UNCHANGED <<worker, stuck, seated, spawned, generation, workerStatus, spawner, cooling,
                   stopping, desktop, faults>>

\* ProcessContainment.terminate: the whole tree goes, unless it outlives the kill
StopWorker(g) ==
    /\ worker' = IF g \in stuck \/ ~WorkerAlive(g) THEN worker ELSE [worker EXCEPT ![g] = "dead"]
    /\ workerPort' = IF g \notin stuck /\ workerPort = g THEN 0 ELSE workerPort

Outlives(g) == g \in stuck /\ WorkerAlive(g)

\* classify_port_claim for a root: the gateway's own tree holds every generation
PortClaim(root) ==
    CASE workerPort = 0 -> "free"
      [] workerPort = ForeignPid -> "foreign"
      [] root # 0 /\ root # workerPort -> "foreign"
      [] OTHER -> "ours"

\* owner_pid: the seated worker's tree, else the gateway's
OwnerPid == seated
WorkerHealthy == workerPort \in Generations /\ worker[workerPort] = "ready"

\* classify_worker_pairing, of a listener this gateway lifetime spawned
Pairing(g, current) ==
    CASE g > current -> "unidentified"
      [] g < current -> "prior_generation"
      [] OTHER -> "owned"

\* worker_ready_and_ours
ReadyAndOurs(root, current) ==
    /\ PortClaim(root) = "ours"
    /\ WorkerHealthy
    /\ desktop => Pairing(workerPort, current) = "owned"

-----------------------------------------------------------------------------
\* The spawn, run by the dispatcher and by the watchdog

\* ensure_worker: the first caller behind the lock, with a generation of its own
EnsureWorker ==
    /\ stopping = "no"
    /\ SpawnerAt("ensure", "rest")
    /\ ~spawned
    /\ generation < MaxGenerations
    /\ generation' = generation + 1
    /\ spawner' = [spawner EXCEPT !["ensure"] = [AtRest EXCEPT !.pc = "claim",
                                                              !.gen = generation + 1]]
    /\ UNCHANGED <<worker, stuck, workerPort, seated, spawned, workerStatus, cooling, stopping, desktop,
                   faults>>

StartWorker(a) ==
    /\ worker' = [worker EXCEPT ![spawner[a].gen] = "starting"]
    /\ Goto(a, "wait")

\* eviction_is_authorized
EvictionAuthorized(g, current) == desktop /\ Pairing(g, current) = "prior_generation"

\* desktop_worker_port_clear and shared_worker_port_clear: a free port is spawned on; a
\* ready worker of ours is adopted (shared) or evicted (desktop, an earlier generation);
\* anything else refuses the spawn
PortClear(a) ==
    /\ SpawnerAt(a, "claim")
    /\ \/ /\ PortClaim(0) = "free"
          /\ StartWorker(a)
       \/ /\ PortClaim(0) = "ours" /\ WorkerHealthy /\ EvictionAuthorized(workerPort, spawner[a].gen)
          /\ Goto(a, "evict") /\ UNCHANGED worker
       \/ /\ PortClaim(0) # "free"
          /\ ~(PortClaim(0) = "ours" /\ WorkerHealthy /\ EvictionAuthorized(workerPort, spawner[a].gen))
          /\ Goto(a, "probe") /\ UNCHANGED worker
    /\ UNCHANGED <<stuck, workerPort, seated, spawned, generation, workerStatus, cooling, stopping,
                   desktop, faults>>

\* The tree could not be read: the claim is unresolved and the spawn refused
PortUnresolved(a) ==
    /\ SpawnerAt(a, "claim")
    /\ workerPort # 0
    /\ WorkerFault
    /\ Goto(a, "probe")
    /\ UNCHANGED <<worker, stuck, workerPort, seated, spawned, generation, workerStatus, cooling, stopping,
                   desktop>>

\* evict_stale_worker: asked to stop, the occupant leaves the port before the deadline,
\* or does not
EvictStale(a) ==
    /\ SpawnerAt(a, "evict")
    /\ \/ /\ workerPort = 0
          /\ StartWorker(a) /\ UNCHANGED workerPort
       \/ /\ WorkerHealthy
          /\ worker' = [worker EXCEPT ![workerPort] = "dead", ![spawner[a].gen] = "starting"]
          /\ workerPort' = 0
          /\ Goto(a, "wait")
       \/ /\ workerPort # 0
          /\ Goto(a, "probe") /\ UNCHANGED <<worker, workerPort>>
    /\ UNCHANGED <<stuck, seated, spawned, generation, workerStatus, cooling, stopping, desktop,
                   faults>>

\* _install_worker of a spawned worker, and the end of the restart cycle it belongs to
Seated(a, g) ==
    /\ seated' = g
    /\ spawned' = TRUE
    /\ spawner' = [spawner EXCEPT ![a] = AtRest]
    /\ IF a = "watchdog"
         THEN workerStatus' = "up" /\ cooling' = TRUE
         ELSE UNCHANGED <<workerStatus, cooling>>

\* _await_worker_ready_inner: it answers as ours
WorkerReady(a) ==
    /\ SpawnerAt(a, "wait")
    /\ ReadyAndOurs(spawner[a].gen, spawner[a].gen)
    /\ Seated(a, spawner[a].gen)
    /\ UNCHANGED <<worker, stuck, workerPort, generation, stopping, desktop, faults>>

\* It died, or the ready timeout passed
WorkerUnready(a) ==
    /\ SpawnerAt(a, "wait")
    /\ IF worker[spawner[a].gen] \in {"starting", "ready"} THEN WorkerFault ELSE UNCHANGED faults
    /\ Goto(a, "reap")
    /\ UNCHANGED <<worker, stuck, workerPort, seated, spawned, generation, workerStatus, cooling, stopping,
                   desktop>>

\* _reap_unready_worker, which raises when the tree outlives its kill
ReapUnready(a) ==
    LET g == spawner[a].gen IN
    /\ SpawnerAt(a, "reap")
    /\ StopWorker(g)
    /\ IF Outlives(g) \/ spawner[a].cancelled
         THEN /\ spawner' = [spawner EXCEPT ![a] = AtRest]
              /\ cooling' = (cooling \/ a = "watchdog")
         ELSE Goto(a, "probe") /\ UNCHANGED cooling
    /\ UNCHANGED <<stuck, seated, spawned, generation, workerStatus, stopping, desktop, faults>>

\* The caller is cancelled: a started worker is reaped first, whatever happens
CancelSpawn(a) ==
    /\ ~SpawnerAt(a, "rest") /\ ~SpawnerAt(a, "reap")
    /\ IF stopping = "no" THEN a = "ensure" /\ WorkerFault ELSE UNCHANGED faults
    /\ IF SpawnerAt(a, "wait")
         THEN spawner' = [spawner EXCEPT ![a].pc = "reap", ![a].cancelled = TRUE]
         ELSE spawner' = [spawner EXCEPT ![a] = AtRest]
    /\ UNCHANGED <<worker, stuck, workerPort, seated, spawned, generation, workerStatus, cooling, stopping,
                   desktop>>

\* No spawn: whatever answers as ours is taken as the worker (adopt_worker)
EnsureProbe ==
    /\ SpawnerAt("ensure", "probe")
    /\ spawned' = ReadyAndOurs(OwnerPid, generation)
    /\ spawner' = [spawner EXCEPT !["ensure"] = AtRest]
    /\ UNCHANGED <<worker, stuck, workerPort, seated, generation, workerStatus, cooling, stopping, desktop,
                   faults>>

-----------------------------------------------------------------------------
\* The watchdog

\* _probe_worker_ready
WatchdogProbe ==
    /\ stopping = "no"
    /\ SpawnerAt("watchdog", "rest")
    /\ spawned
    /\ spawner' = [spawner EXCEPT !["watchdog"].pc = "decide",
                                  !["watchdog"].http = PortClaim(OwnerPid) = "ours" /\ WorkerHealthy]
    /\ UNCHANGED <<worker, stuck, workerPort, seated, spawned, generation, workerStatus, cooling, stopping,
                   desktop, faults>>

Crashed == seated # 0 /\ worker[seated] = "dead"
Stale == seated # 0 /\ worker[seated] = "stale"
NeedsRecovery(http) == Crashed \/ (Stale /\ ~http)

\* _reconcile_probe: what a poll reports when it starts no restart
Reconciled(http) ==
    CASE seated = 0 -> IF http THEN "up" ELSE "down"
      [] seated # 0 /\ NeedsRecovery(http) -> workerStatus
      [] workerStatus = "pending" -> IF http THEN "up" ELSE "pending"
      [] workerStatus \in {"up", "down"} -> workerStatus
      [] OTHER -> "up"

WatchdogSettles ==
    LET http == spawner["watchdog"].http IN
    /\ SpawnerAt("watchdog", "decide")
    /\ seated = 0 \/ ~NeedsRecovery(http) \/ cooling
    /\ workerStatus' = Reconciled(http)
    /\ spawner' = [spawner EXCEPT !["watchdog"] = AtRest]
    /\ UNCHANGED <<worker, stuck, workerPort, seated, spawned, generation, cooling, stopping, desktop,
                   faults>>

\* A restart cycle begins: the breaker is forced open and the first attempt delayed
WatchdogRestarts ==
    /\ SpawnerAt("watchdog", "decide")
    /\ seated # 0 /\ NeedsRecovery(spawner["watchdog"].http) /\ ~cooling
    /\ workerStatus' = "restarting"
    /\ spawner' = [spawner EXCEPT !["watchdog"].pc = "backoff", !["watchdog"].attempt = 1]
    /\ UNCHANGED <<worker, stuck, workerPort, seated, spawned, generation, cooling, stopping, desktop,
                   faults>>

\* After the backoff the old tree is stopped, whatever it does by now; one that will
\* not die ends the cycle
WatchdogStops ==
    /\ SpawnerAt("watchdog", "backoff")
    /\ StopWorker(seated)
    /\ IF Outlives(seated)
         THEN /\ spawner' = [spawner EXCEPT !["watchdog"] = AtRest]
              /\ cooling' = TRUE /\ UNCHANGED generation
         ELSE /\ generation < MaxGenerations
              /\ generation' = generation + 1
              /\ spawner' = [spawner EXCEPT !["watchdog"].pc = "claim",
                                            !["watchdog"].gen = generation + 1]
              /\ UNCHANGED cooling
    /\ UNCHANGED <<stuck, seated, spawned, workerStatus, stopping, desktop, faults>>

\* Mutant of WatchdogRetry: one attempt more than watchdog_max_retries.
WatchdogRetryOnceMore ==
    /\ SpawnerAt("watchdog", "probe")
    /\ IF ReadyAndOurs(OwnerPid, generation) THEN Seated("watchdog", 0)
       ELSE /\ UNCHANGED <<seated, spawned>>
            /\ IF spawner["watchdog"].attempt <= WatchdogRetries
                 THEN /\ spawner' = [spawner EXCEPT !["watchdog"].pc = "backoff",
                                                    !["watchdog"].attempt = @ + 1]
                      /\ UNCHANGED <<workerStatus, cooling>>
                 ELSE /\ spawner' = [spawner EXCEPT !["watchdog"] = AtRest]
                      /\ workerStatus' = "down" /\ cooling' = TRUE
    /\ UNCHANGED <<worker, stuck, workerPort, generation, stopping, desktop, faults>>

\* The attempt failed: adopt what answers as ours, try again, or give the cycle up
WatchdogRetry ==
    /\ SpawnerAt("watchdog", "probe")
    /\ IF ReadyAndOurs(OwnerPid, generation) THEN Seated("watchdog", 0)
       ELSE /\ UNCHANGED <<seated, spawned>>
            /\ IF spawner["watchdog"].attempt < WatchdogRetries
                 THEN /\ spawner' = [spawner EXCEPT !["watchdog"].pc = "backoff",
                                                    !["watchdog"].attempt = @ + 1]
                      /\ UNCHANGED <<workerStatus, cooling>>
                 ELSE /\ spawner' = [spawner EXCEPT !["watchdog"] = AtRest]
                      /\ workerStatus' = "down" /\ cooling' = TRUE
    /\ UNCHANGED <<worker, stuck, workerPort, generation, stopping, desktop, faults>>

\* _restart_cooldown_elapsed
CooledDown ==
    /\ cooling
    /\ cooling' = FALSE
    /\ UNCHANGED <<worker, stuck, workerPort, seated, spawned, generation, workerStatus, spawner, stopping,
                   desktop, faults>>

-----------------------------------------------------------------------------
\* Shutdown

\* _shutdown_gateway stops the tasks that may spawn, in budgets that may run out
StopTasks ==
    /\ stopping = "no"
    /\ stopping' = "tasks"
    /\ UNCHANGED <<worker, stuck, workerPort, seated, spawned, generation, workerStatus, spawner, cooling,
                   desktop, faults>>

BudgetRunsOut ==
    /\ stopping = "tasks"
    /\ WorkerFault
    /\ stopping' = "cut"
    /\ UNCHANGED <<worker, stuck, workerPort, seated, spawned, generation, workerStatus, spawner, cooling,
                   desktop>>

\* LazyWorkerSpawner.shutdown: the seated tree is reaped and the handles dropped
ShutdownWorker ==
    /\ \/ stopping = "cut"
       \/ stopping = "tasks" /\ \A a \in Spawners : SpawnerAt(a, "rest")
    /\ IF seated = 0 THEN UNCHANGED <<worker, workerPort>> ELSE StopWorker(seated)
    /\ seated' = 0
    /\ stopping' = IF stopping = "cut" THEN "cut" ELSE "stopped"
    /\ UNCHANGED <<stuck, spawned, generation, workerStatus, spawner, cooling, desktop, faults>>

-----------------------------------------------------------------------------
SpawnStep(a) ==
    PortClear(a) \/ PortUnresolved(a) \/ EvictStale(a) \/ WorkerReady(a) \/ WorkerUnready(a)
        \/ ReapUnready(a)

WatchdogStep ==
    \/ SpawnStep("watchdog") \/ WatchdogProbe \/ WatchdogSettles \/ WatchdogRestarts
    \/ WatchdogStops \/ WatchdogRetry

WorkerNext ==
    \/ \E g \in Generations :
          \/ WorkerBinds(g) \/ WorkerHangs(g) \/ WorkerDies(g) \/ TreeSticks(g)
          \/ \E as \in {"ready", "stale"} : WorkerAges(g, as)
    \/ ForeignTakes \/ ForeignLeaves
    \/ EnsureWorker \/ SpawnStep("ensure") \/ EnsureProbe
    \/ WatchdogStep \/ CooledDown
    \/ \E a \in Spawners : CancelSpawn(a)
    \/ StopTasks \/ BudgetRunsOut \/ ShutdownWorker

\* The watchdog's loop, its timers, and a world whose foreign listeners go away
WorkerFairness ==
    /\ WF_workerVars(WatchdogStep) /\ WF_workerVars(CooledDown)
    /\ WF_workerVars(ForeignLeaves)
    /\ \A g \in Generations : WF_workerVars(WorkerBinds(g))

WorkerSpec == WorkerInit /\ [][WorkerNext]_workerVars /\ WorkerFairness

-----------------------------------------------------------------------------
\* Properties

\* A gateway never runs two workers: besides trees that outlived their kill, at most
\* one generation is alive, whoever spawned it and however the attempts interleave.
OneWorker ==
    \A g, h \in Generations \ stuck : WorkerAlive(g) /\ WorkerAlive(h) => g = h

\* A gateway that finished its shutdown inside its budget leaves no worker behind: not
\* the seated one, and not one a cancelled spawn had just started.
ShutdownReapsAll ==
    stopping = "stopped" => \A g \in Generations \ stuck : ~WorkerAlive(g)

\* Workers are replaced, not swapped: a spawned process becomes the seated one only
\* when the worker seated before it is dead.
SeatChangesAfterDeath ==
    seated' # seated /\ seated # 0 => worker'[seated] = "dead" \/ seated \in stuck

\* A seated worker that died or went silent is recovered: it answers again, or another
\* one does, unless the gateway stops, a tree will not die, or the spawns run out.
WorkerRecovers ==
    Crashed \/ Stale ~> \/ WorkerHealthy
                        \/ stopping # "no" \/ stuck # {} \/ generation = MaxGenerations

\* The status the gateway reports settles on the truth: a seated worker that stays ready
\* is reported up (until the spawns run out).
StatusSettles ==
    <>[](seated # 0 /\ worker[seated] = "ready" /\ workerPort = seated /\ stopping = "no")
        => <>[](workerStatus = "up" \/ generation = MaxGenerations)
=============================================================================
