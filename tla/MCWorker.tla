------------------------ MODULE MCWorker ------------------------
(*****************************************************************************)
(* The components that run processes, runs, teams and agents' turns, each on *)
(* a small instance. They meet only in the run's own rows, which RunControl  *)
(* and RunAdmission model, so a behaviour runs one of them, the component in *)
(* focus, and what is said of a component is checked in the behaviours that  *)
(* run it.                                                                   *)
(*****************************************************************************)
EXTENDS WorkerProcess, ResidentGateway, ProcessControl, RunHomes,
        ProviderCatalogs, CircuitBreaker, WorkerBridge, WorkerDispatch,
        TeamGraph, DocumentPhases, StreamIngest, ProviderAttempts,
        AcpSession, WorkerPermissions, McpSurface, AuthoringEdge,
        ToolCallJournal, TLC

CONSTANTS h1, h2, w1, w2, d1, d2, d3, t1, t2, x1, x2, q1, q2   \* model values that the definitions name

(* Two turns, one on each of two workers that share the login they copy. *)
MCWorkerOf == (h1 :> w1) @@ (h2 :> w2)

(* Two plans for the worker: two runs and a resume, and one run under two definitions. *)
DispatchOrder(t, x, k) == [thread |-> t, digest |-> x, kind |-> k]
MCPlans ==
    {(d1 :> DispatchOrder(t1, x1, "ingest")) @@ (d2 :> DispatchOrder(t1, x1, "resume"))
        @@ (d3 :> DispatchOrder(t2, x1, "ingest")),
     (d1 :> DispatchOrder(t1, x1, "ingest")) @@ (d2 :> DispatchOrder(t1, x2, "ingest"))
        @@ (d3 :> DispatchOrder(t1, x1, "resume"))}

(* A team of three: the plan, its execution and its review. *)
MCOrder == <<"planner", "coder", "reviewer">>
MCPhaseOf == [planner |-> "plan", coder |-> "exec", reviewer |-> "audit"]

(* The first two document phases. *)
MCPhases == <<"research", "adr">>

(* What a stream may carry, by the kinds of parts that interfere. *)
MCQuestions == <<q1, q2>>
MCMenus == {{"text", "checkpoint"}, {"text", "interrupt"}, {"tool"}, {"plan", "interrupt"}}

(* What a session selects before its first prompt. *)
MCSelections == <<"model", "control", "mode">>

(* The tools a call may name, and where its paths lie: a tool on neither surface is decided
   like a floor tool that points outside. *)
MCShapes == {<<"composed", "inside">>, <<"composed", "foreign">>, <<"floor", "inside">>,
             <<"floor", "outside">>, <<"withheld", "none">>}

(* Three reviewed servers: approved per call, exact, and packaged; and six turns that ask for them. *)
McpEntry(x, c, d, tools, w) ==
    [readOnly |-> TRUE, egress |-> FALSE, pin |-> "ROOT", exact |-> x, perCall |-> c, desktop |-> d,
     tools |-> tools, withheld |-> w]
MCRegistry == ("rag" :> McpEntry(FALSE, TRUE, FALSE, {"search"}, {}))
           @@ ("core" :> McpEntry(TRUE, FALSE, FALSE, {"find"}, {"crossref"}))
           @@ ("packed" :> McpEntry(FALSE, FALSE, TRUE, {"list"}, {}))
McpAsk(on, names, auto, web, packaged, attached) ==
    [lane |-> on, names |-> names, auto |-> auto, armed |-> web, desktop |-> packaged,
     attached |-> attached, root |-> "absolute"]
MCMenu == {McpAsk("claude", <<"rag", "core">>, TRUE, TRUE, FALSE, << >>),
           McpAsk("codex", <<"core", "rag">>, FALSE, TRUE, FALSE, << >>),
           McpAsk("claude", <<"packed", "core">>, FALSE, FALSE, TRUE, <<McpSpec("rag", "registry", TRUE)>>),
           McpAsk("kimi", <<"core">>, TRUE, FALSE, FALSE, <<McpSpec("core", "other", FALSE)>>),
           McpAsk("claude", <<"core", "core">>, TRUE, FALSE, FALSE, << >>),
           [McpAsk("claude", <<"core">>, TRUE, TRUE, FALSE, << >>) EXCEPT !.root = "relative"]}

VARIABLE focus   \* the component this behaviour runs; the others stay at rest

groupVars ==
    <<focus, workerVars, residentVars, registryVars, treeVars, homeVars,
      catalogVars, vars, bridgeVars, dispatchVars, graphVars, phaseVars,
      ingestVars, attemptVars, sessionVars, permissionVars, replayVars,
      mcpVars, edgeVars, journalVars>>

Components ==
    {"worker", "resident", "registry", "tree", "homes", "catalogs",
     "breaker", "bridge", "dispatch", "graph", "phases", "ingest",
     "attempts", "session", "permission", "replay", "mcp", "edge", "journal"}

(* A component at rest has one initial state, so that only the one in focus adds states. *)
GroupInit ==
    /\ focus \in Components
    /\ WorkerInit
    /\ focus # "worker" => ~desktop
    /\ ResidentInit
    /\ focus # "resident" => ~armed /\ owner = [g \in Gateways |-> CHOOSE o \in Owners : TRUE]
    /\ RegistryInit
    /\ TreeInit
    /\ HomesInit
    /\ CatalogInit
    /\ focus # "catalogs" => provenLanes = {}
    /\ Init
    /\ BridgeInit
    /\ DispatchInit
    /\ focus # "dispatch" => order = CHOOSE p \in Plans : TRUE
    /\ GraphInit
    /\ focus # "graph" => topology = "star" /\ ~policy.autonomous /\ ~policy.feature /\ ~errors /\
       vaultDisk = {}
    /\ PhasesInit
    /\ focus # "phases" => at.kind = "clarify"
    /\ IngestInit
    /\ focus # "ingest" => menu = {"tool"}
    /\ AttemptsInit
    /\ focus # "attempts" => turnLane = "acp"
    /\ SessionInit
    /\ focus # "session" => setting = [s \in Settings |-> "wanted"]
    /\ PermissionInit
    /\ focus # "permission" => lane = "codex" /\ ~supervised /\ ~scoped
    /\ ReplayInit
    /\ McpInit
    /\ focus # "mcp" => turn = [t \in RoleTurns |-> TurnOf(CHOOSE ask \in TurnMenu : TRUE)]
    /\ EdgeInit
    /\ focus # "edge" => \A k \in RelayCalls : relayCall[k] = NewCall
    /\ JournalInit

GroupNext ==
    /\ UNCHANGED focus
    /\ IF focus = "worker" THEN TRUE ELSE UNCHANGED workerVars
    /\ IF focus = "resident" THEN TRUE ELSE UNCHANGED residentVars
    /\ IF focus = "registry" THEN TRUE ELSE UNCHANGED registryVars
    /\ IF focus = "tree" THEN TRUE ELSE UNCHANGED treeVars
    /\ IF focus = "homes" THEN TRUE ELSE UNCHANGED homeVars
    /\ IF focus = "catalogs" THEN TRUE ELSE UNCHANGED catalogVars
    /\ IF focus = "breaker" THEN TRUE ELSE UNCHANGED vars
    /\ IF focus = "bridge" THEN TRUE ELSE UNCHANGED bridgeVars
    /\ IF focus = "dispatch" THEN TRUE ELSE UNCHANGED dispatchVars
    /\ IF focus = "graph" THEN TRUE ELSE UNCHANGED graphVars
    /\ IF focus = "phases" THEN TRUE ELSE UNCHANGED phaseVars
    /\ IF focus = "ingest" THEN TRUE ELSE UNCHANGED ingestVars
    /\ IF focus = "attempts" THEN TRUE ELSE UNCHANGED attemptVars
    /\ IF focus = "session" THEN TRUE ELSE UNCHANGED sessionVars
    /\ IF focus = "permission" THEN TRUE ELSE UNCHANGED permissionVars
    /\ IF focus = "replay" THEN TRUE ELSE UNCHANGED replayVars
    /\ IF focus = "mcp" THEN TRUE ELSE UNCHANGED mcpVars
    /\ IF focus = "edge" THEN TRUE ELSE UNCHANGED edgeVars
    /\ IF focus = "journal" THEN TRUE ELSE UNCHANGED journalVars
    /\ \/ focus = "worker" /\ WorkerNext
       \/ focus = "resident" /\ ResidentNext
       \/ focus = "registry" /\ RegistryNext
       \/ focus = "tree" /\ TreeNext
       \/ focus = "homes" /\ HomesNext
       \/ focus = "catalogs" /\ CatalogNext
       \/ focus = "breaker" /\ Next
       \/ focus = "bridge" /\ BridgeNext
       \/ focus = "dispatch" /\ DispatchNext
       \/ focus = "graph" /\ GraphNext
       \/ focus = "phases" /\ PhasesNext
       \/ focus = "ingest" /\ IngestNext
       \/ focus = "attempts" /\ AttemptsNext
       \/ focus = "session" /\ SessionNext
       \/ focus = "permission" /\ PermissionNext
       \/ focus = "replay" /\ ReplayNext
       \/ focus = "mcp" /\ McpNext
       \/ focus = "edge" /\ EdgeNext
       \/ focus = "journal" /\ JournalNext

GroupSpec == GroupInit /\ [][GroupNext]_groupVars

\* A process is started once and stopped whole: one worker, one resident gateway and one
\* launch per port, nothing left of what failed or was stopped, and the private home of
\* a provider process is removed only when its login is safe.
ProcessesAreAccounted ==
    /\ focus = "worker" => OneWorker /\ ShutdownReapsAll
    /\ focus = "resident" => OneResident /\ HeldIsTrue /\ HalfStartedIsFelled /\ StoppedIsGone
    /\ focus = "registry" => OnePortOneLaunch /\ FailedLaunchLeavesNothing
    /\ focus = "tree" => GoneIsGone
    /\ focus = "homes" => ReturnedIsNotLost /\ SourceIsALogin /\ CleanedIsRemoved /\ LiveHomeIsKept

\* What a turn may select and launch was proven: a lane is discovered once at a time and
\* its fresh answer is current, and a tool server is launched only as it was reviewed,
\* verified and approved.
CapabilitiesAreProven ==
    /\ focus = "catalogs" =>
         /\ OneDiscoveryPerLane /\ QuietAfterFailure /\ ScopeInUseIsKept
         /\ FreshIsCurrent /\ SelectableIsProven
    /\ focus = "mcp" => LaunchedIsReviewed /\ BridgeSurvives /\ ApprovedIsSurfaced /\ LaunchedIsVerified

\* A run has one dispatch in the worker, on the graph of its own definition, and what
\* the worker says of it reaches the gateway in order: no event vanishes unaccounted and
\* every question is told.
WorkIsNeitherLostNorRepeated ==
    /\ focus = "dispatch" => OneDispatchPerRun /\ StreamsItsOwnGraph /\ ParkedKeepsTokens /\ DrainIsFinal
    /\ focus = "bridge" => NothingVanishes /\ ArrivesInOrder
    /\ focus = "ingest" => TextInOrder /\ NothingIsWithheld /\ ReceiptIsProven /\ EveryQuestionIsTold

\* An agent is prompted only as configured, its answer is whole or an error, and a tool
\* call proceeds only on an answer that was offered, covers it and was given to it.
TurnsAreWhole ==
    /\ focus = "session" => PromptIsConfigured /\ AnswerIsWhole /\ SuspensionIsRaised
    /\ focus = "permission" => ApprovedIsCovered /\ PolarityIsKept /\ AnswerWasOffered /\ NoRuleIsForced
    /\ focus = "replay" => ApprovedAsAnswered /\ AskedOnce

\* Every component keeps its variables within their types and bounds: the type invariant
\* of the component in focus.
TypesOK ==
    /\ focus = "worker" => WorkerTypeOK
    /\ focus = "resident" => ResidentTypeOK
    /\ focus = "registry" => RegistryTypeOK
    /\ focus = "tree" => TreeTypeOK
    /\ focus = "homes" => HomesTypeOK
    /\ focus = "catalogs" => CatalogTypeOK
    /\ focus = "breaker" => TypeOK
    /\ focus = "bridge" => BridgeTypeOK
    /\ focus = "dispatch" => DispatchTypeOK
    /\ focus = "graph" => GraphTypeOK
    /\ focus = "phases" => PhasesTypeOK
    /\ focus = "ingest" => IngestTypeOK
    /\ focus = "attempts" => AttemptsTypeOK
    /\ focus = "session" => SessionTypeOK
    /\ focus = "permission" => PermissionTypeOK
    /\ focus = "replay" => ReplayTypeOK
    /\ focus = "mcp" => McpTypeOK
    /\ focus = "edge" => EdgeTypeOK
    /\ focus = "journal" => JournalTypeOK

\* No step of a worker component undoes what an earlier one settled: a seat changes
\* hands after its process died, a login that rotated is returned, an outcome outlives
\* droppable events, a verified server was served, nothing is answered after the close,
\* and a call's life goes forward.
WorkerSteps ==
    [][ /\ [SeatChangesAfterDeath]_workerVars
        /\ [ReturnsAfterTheEnd]_treeVars
        /\ [RotationIsReturned]_homeVars
        /\ [OutcomesOutlive]_bridgeVars
        /\ [NothingAfterClose]_permissionVars
        /\ [RecordedWasAsked]_replayVars
        /\ [VerifiedWasServed]_mcpVars
        /\ [ProbedOnce]_mcpVars
        /\ [LifecycleGoesForward]_journalVars
      ]_groupVars
=============================================================================
