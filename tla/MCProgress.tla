------------------------ MODULE MCProgress ------------------------
(*****************************************************************************)
(* What every component gets done in the end, on an instance of each that is *)
(* smaller than the one its safety is checked on. A behaviour runs one       *)
(* component, the one in focus, and what is said of it assumes the fairness  *)
(* of its own steps only.                                                    *)
(*****************************************************************************)
EXTENDS ClarificationAnswers, RunListing, RunStream, RecoveryLedger,
        DeletionSaga, StoreWrites, CommitSingleFlight, StoreMigration,
        WorkerProcess, ResidentGateway, ProviderCatalogs, ServiceHealth,
        WorkerDispatch, DocumentPhases, StreamIngest, WorkerBridge,
        ProviderAttempts, AcpSession, WorkerPermissions, McpSurface,
        AuthoringEdge, RunHomes, ProcessControl, TLC

CONSTANTS d1, d2, t1, t2, x1, q1, q2, h1, w1   \* model values that the definitions name

(* Two questionnaires in a row, and answers that fit one, both or neither. *)
MCQuestionnaires ==
    << ("a" :> [required |-> TRUE, choice |-> TRUE]) @@ ("b" :> [required |-> FALSE, choice |-> FALSE]),
       ("a" :> [required |-> TRUE, choice |-> FALSE]) >>
MCResolutions ==
    {[kind |-> "answers", answers |-> ("a" :> "option")],
     [kind |-> "answers", answers |-> ("a" :> "text") @@ ("b" :> "text")],
     [kind |-> "decline", answers |-> << >>]}

(* Two plans for the worker: a run and its resume, and two runs. *)
DispatchOrder(t, k) == [thread |-> t, digest |-> x1, kind |-> k]
MCPlans ==
    {(d1 :> DispatchOrder(t1, "ingest")) @@ (d2 :> DispatchOrder(t1, "resume")),
     (d1 :> DispatchOrder(t1, "ingest")) @@ (d2 :> DispatchOrder(t2, "ingest"))}

(* The first two document phases. *)
MCPhases == <<"research", "adr">>

(* What a stream may carry, by the kinds of parts that interfere. *)
MCQuestions == <<q1, q2>>
MCMenus == {{"text", "checkpoint"}, {"text", "interrupt"}, {"tool"}, {"plan", "interrupt"}}

(* What a session selects before its first prompt. *)
MCSelections == <<"model", "control", "mode">>

(* The tools a call may name, and where its paths lie: a tool on neither surface is decided
   like a floor tool that points outside. *)
MCShapes == {<<"composed", "inside">>, <<"composed", "foreign">>, <<"floor", "inside">>,
             <<"floor", "outside">>, <<"withheld", "none">>}

(* Three reviewed servers: approved per call, exact, and packaged; and six turns that ask for them. *)
McpEntry(x, c, d, tools, w) ==
    [readOnly |-> TRUE, egress |-> FALSE, pin |-> "ROOT", exact |-> x, perCall |-> c, desktop |-> d,
     tools |-> tools, withheld |-> w]
MCRegistry == ("rag" :> McpEntry(FALSE, TRUE, FALSE, {"search"}, {}))
           @@ ("core" :> McpEntry(TRUE, FALSE, FALSE, {"find"}, {"crossref"}))
           @@ ("packed" :> McpEntry(FALSE, FALSE, TRUE, {"list"}, {}))
McpAsk(on, names, auto, web, packaged, attached) ==
    [lane |-> on, names |-> names, auto |-> auto, armed |-> web, desktop |-> packaged,
     attached |-> attached, root |-> "absolute"]
MCMenu == {McpAsk("claude", <<"rag", "core">>, TRUE, TRUE, FALSE, << >>),
           McpAsk("codex", <<"core", "rag">>, FALSE, TRUE, FALSE, << >>),
           McpAsk("claude", <<"packed", "core">>, FALSE, FALSE, TRUE, <<McpSpec("rag", "registry", TRUE)>>),
           McpAsk("kimi", <<"core">>, TRUE, FALSE, FALSE, <<McpSpec("core", "other", FALSE)>>),
           McpAsk("claude", <<"core", "core">>, TRUE, FALSE, FALSE, << >>),
           [McpAsk("claude", <<"core">>, TRUE, TRUE, FALSE, << >>) EXCEPT !.root = "relative"]}

(* One turn, on a worker that shares the login it copies. *)
MCWorkerOf == h1 :> w1

VARIABLE focus   \* the component this behaviour runs; the others stay at rest

groupVars ==
    <<focus, clarVars, listingVars, streamVars, ledgerVars, sagaVars,
      writesVars, flightVars, migrationVars, workerVars, residentVars, registryVars,
      catalogVars, healthVars, dispatchVars, phaseVars, ingestVars,
      bridgeVars, attemptVars, sessionVars, permissionVars, replayVars,
      mcpVars, edgeVars, homeVars, treeVars>>

Components ==
    {"clarification", "listing", "stream", "ledger", "deletion", "writes",
     "flight", "migration", "worker", "resident", "registry", "catalogs",
     "health", "dispatch", "phases", "ingest", "bridge", "attempts",
     "session", "permission", "replay", "mcp", "edge", "homes", "tree"}

(* A component at rest has one initial state, so that only the one in focus adds states. *)
GroupInit ==
    /\ focus \in Components
    /\ ClarInit
    /\ ListingInit
    /\ focus # "listing" => finder = NoFinder
    /\ StreamInit
    /\ LedgerInit
    /\ SagaInit
    /\ focus # "deletion" => content = Items
    /\ WritesInit
    /\ focus # "writes" => side = "saver"
    /\ FlightInit
    /\ MigrationInit
    /\ focus # "migration" => primary.rev = 0 /\ ~ckpt.tables
    /\ WorkerInit
    /\ focus # "worker" => ~desktop
    /\ ResidentInit
    /\ focus # "resident" => ~armed /\ owner = [g \in Gateways |-> CHOOSE o \in Owners : TRUE]
    /\ RegistryInit
    /\ CatalogInit
    /\ focus # "catalogs" => provenLanes = {}
    /\ HealthInit
    /\ focus # "health" => world.worker = "ours" /\ world.spawned /\ world.local /\ world.armed = CHOOSE
       a \in HealthProfiles : TRUE
    /\ DispatchInit
    /\ focus # "dispatch" => order = CHOOSE p \in Plans : TRUE
    /\ PhasesInit
    /\ focus # "phases" => at.kind = "clarify"
    /\ IngestInit
    /\ focus # "ingest" => menu = {"tool"}
    /\ BridgeInit
    /\ AttemptsInit
    /\ focus # "attempts" => turnLane = "acp"
    /\ SessionInit
    /\ focus # "session" => setting = [s \in Settings |-> "wanted"]
    /\ PermissionInit
    /\ focus # "permission" => lane = "codex" /\ ~supervised /\ ~scoped
    /\ ReplayInit
    /\ McpInit
    /\ focus # "mcp" => turn = [t \in RoleTurns |-> TurnOf(CHOOSE ask \in TurnMenu : TRUE)]
    /\ EdgeInit
    /\ focus # "edge" => \A k \in RelayCalls : relayCall[k] = NewCall
    /\ HomesInit
    /\ TreeInit

GroupNext ==
    /\ UNCHANGED focus
    /\ IF focus = "clarification" THEN TRUE ELSE UNCHANGED clarVars
    /\ IF focus = "listing" THEN TRUE ELSE UNCHANGED listingVars
    /\ IF focus = "stream" THEN TRUE ELSE UNCHANGED streamVars
    /\ IF focus = "ledger" THEN TRUE ELSE UNCHANGED ledgerVars
    /\ IF focus = "deletion" THEN TRUE ELSE UNCHANGED sagaVars
    /\ IF focus = "writes" THEN TRUE ELSE UNCHANGED writesVars
    /\ IF focus = "flight" THEN TRUE ELSE UNCHANGED flightVars
    /\ IF focus = "migration" THEN TRUE ELSE UNCHANGED migrationVars
    /\ IF focus = "worker" THEN TRUE ELSE UNCHANGED workerVars
    /\ IF focus = "resident" THEN TRUE ELSE UNCHANGED residentVars
    /\ IF focus = "registry" THEN TRUE ELSE UNCHANGED registryVars
    /\ IF focus = "catalogs" THEN TRUE ELSE UNCHANGED catalogVars
    /\ IF focus = "health" THEN TRUE ELSE UNCHANGED healthVars
    /\ IF focus = "dispatch" THEN TRUE ELSE UNCHANGED dispatchVars
    /\ IF focus = "phases" THEN TRUE ELSE UNCHANGED phaseVars
    /\ IF focus = "ingest" THEN TRUE ELSE UNCHANGED ingestVars
    /\ IF focus = "bridge" THEN TRUE ELSE UNCHANGED bridgeVars
    /\ IF focus = "attempts" THEN TRUE ELSE UNCHANGED attemptVars
    /\ IF focus = "session" THEN TRUE ELSE UNCHANGED sessionVars
    /\ IF focus = "permission" THEN TRUE ELSE UNCHANGED permissionVars
    /\ IF focus = "replay" THEN TRUE ELSE UNCHANGED replayVars
    /\ IF focus = "mcp" THEN TRUE ELSE UNCHANGED mcpVars
    /\ IF focus = "edge" THEN TRUE ELSE UNCHANGED edgeVars
    /\ IF focus = "homes" THEN TRUE ELSE UNCHANGED homeVars
    /\ IF focus = "tree" THEN TRUE ELSE UNCHANGED treeVars
    /\ \/ focus = "clarification" /\ ClarNext
       \/ focus = "listing" /\ ListingNext
       \/ focus = "stream" /\ StreamNext
       \/ focus = "ledger" /\ LedgerNext
       \/ focus = "deletion" /\ SagaNext
       \/ focus = "writes" /\ WritesNext
       \/ focus = "flight" /\ FlightNext
       \/ focus = "migration" /\ MigrationNext
       \/ focus = "worker" /\ WorkerNext
       \/ focus = "resident" /\ ResidentNext
       \/ focus = "registry" /\ RegistryNext
       \/ focus = "catalogs" /\ CatalogNext
       \/ focus = "health" /\ HealthNext
       \/ focus = "dispatch" /\ DispatchNext
       \/ focus = "phases" /\ PhasesNext
       \/ focus = "ingest" /\ IngestNext
       \/ focus = "bridge" /\ BridgeNext
       \/ focus = "attempts" /\ AttemptsNext
       \/ focus = "session" /\ SessionNext
       \/ focus = "permission" /\ PermissionNext
       \/ focus = "replay" /\ ReplayNext
       \/ focus = "mcp" /\ McpNext
       \/ focus = "edge" /\ EdgeNext
       \/ focus = "homes" /\ HomesNext
       \/ focus = "tree" /\ TreeNext

GroupSpec == GroupInit /\ [][GroupNext]_groupVars

\* Whatever the gateway's side accepted is finished: an accepted answer is applied or
\* its run ended, a hidden run is deleted, a listing and a health read are answered, a
\* migration ends, a write settles, a waiter gets in, a viewer is told the end, and a
\* crashed worker and a resident gateway are found again.
GatewayProgress ==
    /\ focus = "clarification" /\ ClarFairness => AcceptedIsApplied
    /\ focus = "listing" /\ ListingFairness => ListingsAnswer
    /\ focus = "stream" /\ ViewerFairness => EndIsTold
    /\ focus = "ledger" /\ LedgerFairness => AcceptedIsSettled
    /\ focus = "deletion" /\ SagaFairness => HiddenIsDeleted
    /\ focus = "writes" /\ WritesFairness => WritesSettle
    /\ focus = "flight" /\ SingleFlightFairness => EveryWaiterGetsIn
    /\ focus = "migration" /\ MigrationFairness => MigrationsEnd
    /\ focus = "worker" /\ WorkerFairness => WorkerRecovers /\ StatusSettles
    /\ focus = "resident" /\ ResidentFairness => ServingIsDiscovered /\ VerbsEnd
    /\ focus = "registry" /\ RegistryFairness => ServingIsRecorded /\ LaunchesEnd
    /\ focus = "health" /\ HealthFairness => ReadsAreAnswered

\* Whatever a worker took up ends: a cancelled run is answered and a drain ends, a
\* decided gate resumes, events reach the gateway, a turn settles and leaves no process,
\* a request for permission is settled, and callers of a shared discovery, probe, lock
\* or process tree all return.
WorkerProgress ==
    /\ focus = "catalogs" /\ CatalogFairness => CallsReturn
    /\ focus = "dispatch" /\ DispatchFairness => CancelIsAnswered /\ DrainEnds
    /\ focus = "phases" /\ PhasesFairness => DecidedGateResumes
    /\ focus = "ingest" /\ IngestFairness => IngestSettles
    /\ focus = "bridge" /\ BridgeFairness => EventsDrain
    /\ focus = "attempts" /\ AttemptsFairness => TurnSettles
    /\ focus = "session" /\ SessionFairness => TurnLeavesNothing /\ TurnEnds
    /\ focus = "permission" /\ PermissionFairness => RequestsAreSettled
    /\ focus = "replay" /\ ReplayFairness => AnsweredRunEnds
    /\ focus = "mcp" /\ McpFairness => CompositionEnds
    /\ focus = "edge" /\ EdgeFairness => DeliveriesEnd
    /\ focus = "homes" /\ HomesFairness => CleanupEnds
    /\ focus = "tree" /\ TreeFairness => CallersReturn
=============================================================================
