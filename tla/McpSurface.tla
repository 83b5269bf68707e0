---------------------------- MODULE McpSurface ----------------------------
(***************************************************************************)
(* The tool servers a role's turn hands to its agent: the closed registry  *)
(* of read-only harness servers, the run's own authoring bridge bound to   *)
(* the catalog its run fetched once, the composition of both onto the      *)
(* model, the contract probe every declared server passes before a         *)
(* process is launched, and the last check of the advertised surface.      *)
(*                                                                         *)
(* A tool is a pair of its server and its name.  A launch spec is kept as  *)
(* its identity: the registry's own command and arguments, or others.      *)
(***************************************************************************)
EXTENDS Naturals, Sequences, FiniteSets

CONSTANTS
    Registry,     \* _KNOWN_MCP_SERVERS: the declared entry of every server
    WebLanes,     \* PROVEN_WEB_LANES
    BridgeTools,  \* the names in the run's authoring catalog
    RoleTurns,    \* turns of roles
    TurnMenu,     \* what a turn can be asked to compose
    MaxReleases   \* bound: changes of what a launched server serves

Known(n) == n \in DOMAIN Registry

-----------------------------------------------------------------------------
\* The registry.  An entry states all its axes outright; a tool is permitted
\* or withheld; "none" declares that a server cannot be pinned to a project.

DeclaresTrust(e) == {e.readOnly, e.egress} \subseteq BOOLEAN

DeclaresPin(e) == e.pin \in STRING

DeclaresSurface(e) == {e.exact, e.perCall} \subseteq BOOLEAN

WithheldApart(e) == e.tools \intersect e.withheld = {}

ValidEntry(e) == DeclaresTrust(e) /\ DeclaresPin(e) /\ DeclaresSurface(e) /\ WithheldApart(e)

ASSUME McpAssumption ==
    /\ \A n \in DOMAIN Registry : ValidEntry(Registry[n])
    /\ "bridge" \notin DOMAIN Registry
    /\ MaxReleases \in Nat

Pinnable(n) == Registry[n].pin # "none"

\* What the lanes that fail closed on trust require of an entry.
TrustRoot(n) == Registry[n].readOnly /\ Pinnable(n)

-----------------------------------------------------------------------------
VARIABLES
    serves,    \* what each registry launch really serves, and whether it is ready
    verified,  \* _verified: the launches that passed the contract
    prober,    \* the turn inside _probe_lock, or Free
    fetcher,   \* the turn inside its run's fetch lock, or Free
    catalog,   \* whether the run's catalog is stored
    fetches,   \* catalogs fetched and stored for the run
    turn,      \* per turn: what it composes and how far it is
    releases   \* how often a server's release changed

mcpVars == <<serves, verified, prober, fetcher, catalog, fetches, turn, releases>>

FreeLock == "free"

McpSpec(n, launch, pinned) == [name |-> n, launch |-> launch, pinned |-> pinned]

NamesOf(specs) == {specs[i].name : i \in DOMAIN specs}

TurnOf(ask) ==
    [ask |-> ask, at |-> "new", specs |-> ask.attached, allowed |-> {}, next |-> 1]

\* A server of this release serves its declared tools and is ready.
Honest(n) == [tools |-> Registry[n].tools \union Registry[n].withheld, ready |-> TRUE]

McpInit ==
    /\ serves = [n \in DOMAIN Registry |-> Honest(n)]
    /\ verified = {}
    /\ prober = FreeLock
    /\ fetcher = FreeLock
    /\ catalog = FALSE
    /\ fetches = 0
    /\ turn \in [RoleTurns -> {TurnOf(ask) : ask \in TurnMenu}]
    /\ releases = 0

Put(t, r) == turn' = [turn EXCEPT ![t] = r]

TurnMoved(t, at) == Put(t, [turn[t] EXCEPT !.at = at])

RefuseTurn(t) == TurnMoved(t, "refused")

-----------------------------------------------------------------------------
\* The run's authoring binding: no tokens, no bridge; the first role that needs
\* the catalog fetches it under the run's lock and stores it for the others.

BindUnarmed(t) ==
    /\ turn[t].at = "new"
    /\ ~turn[t].ask.armed
    /\ TurnMoved(t, "bound")
    /\ UNCHANGED <<serves, verified, prober, fetcher, catalog, fetches, releases>>

BindStored(t) ==
    /\ turn[t].at = "new"
    /\ turn[t].ask.armed
    /\ catalog
    /\ TurnMoved(t, "bound")
    /\ UNCHANGED <<serves, verified, prober, fetcher, catalog, fetches, releases>>

AwaitCatalog(t) ==
    /\ turn[t].at = "new"
    /\ turn[t].ask.armed
    /\ ~catalog
    /\ TurnMoved(t, "unbound")
    /\ UNCHANGED <<serves, verified, prober, fetcher, catalog, fetches, releases>>

StillMissing == ~catalog

TakeFetchLock(t) ==
    /\ turn[t].at = "unbound"
    /\ fetcher = FreeLock
    /\ IF StillMissing
       THEN fetcher' = t /\ TurnMoved(t, "fetching")
       ELSE fetcher' = fetcher /\ TurnMoved(t, "bound")
    /\ UNCHANGED <<serves, verified, prober, catalog, fetches, releases>>

FetchStores(t) ==
    /\ turn[t].at = "fetching"
    /\ fetcher' = FreeLock
    /\ catalog' = TRUE
    /\ fetches' = fetches + 1
    /\ TurnMoved(t, "bound")
    /\ UNCHANGED <<serves, verified, prober, releases>>

\* The engine refuses or cannot be reached: the turn fails, nothing is stored.
FetchFails(t) ==
    /\ turn[t].at = "fetching"
    /\ fetcher' = FreeLock
    /\ RefuseTurn(t)
    /\ UNCHANGED <<serves, verified, prober, catalog, fetches, releases>>

-----------------------------------------------------------------------------
\* Resolution: under the desktop profile only what is packaged with it, and what
\* reaches the network only on a lane with a recorded live-retrieval proof.

DesktopAvailable(n) == Registry[n].desktop

Capable(n, desktop, lane) ==
    /\ desktop => DesktopAvailable(n)
    /\ Registry[n].egress => lane \in WebLanes

Resolved(names, desktop, lane) == SelectSeq(names, LAMBDA n : Capable(n, desktop, lane))

Unmountable(names, desktop, lane) == {n \in {names[i] : i \in DOMAIN names} : ~Capable(n, desktop, lane)}

ToolsOf(n) == {<<n, tool>> : tool \in Registry[n].tools}

HarnessTools(names, desktop, lane) ==
    LET chosen == Resolved(names, desktop, lane)
    IN UNION {ToolsOf(chosen[i]) : i \in DOMAIN chosen}

\* Servers attached earlier that the desktop profile cannot run either.
UnmountableAttached(ask) ==
    IF ask.desktop
    THEN {n \in NamesOf(ask.attached) : Known(n) /\ ~Capable(n, TRUE, ask.lane)}
    ELSE {}

LaunchSpecs(names) == [i \in DOMAIN names |-> McpSpec(names[i], "registry", TRUE)]

Combined(existing, resolved, gone) ==
    LET kept == SelectSeq(existing, LAMBDA s : s.name \notin gone)
    IN kept \o SelectSeq(resolved, LAMBDA s : s.name \notin NamesOf(kept))

BridgeServer == McpSpec("bridge", "bridge", TRUE)

BridgeAllowed == {<<"bridge", tool>> : tool \in BridgeTools}

\* The bridge is attached first: on an ACP lane it becomes the list of servers,
\* on Codex a field of its own beside the names of the harness servers.
AttachedBridge(ask, specs) ==
    IF ~ask.armed THEN specs
    ELSE IF ask.lane = "codex" THEN specs \o <<BridgeServer>>
    ELSE <<BridgeServer>>

\* What cannot be composed at all: an undeclared name, a server without a pin, a
\* relative project root, and on Codex a repeated or a writing server.
Distinct(names) == \A i, j \in DOMAIN names : names[i] = names[j] => i = j

Composable(ask) ==
    LET chosen == Resolved(ask.names, ask.desktop, ask.lane)
    IN /\ \A i \in DOMAIN ask.names : Known(ask.names[i])
       /\ \A i \in DOMAIN chosen : Pinnable(chosen[i])
       /\ ask.root # "relative"
       /\ ask.lane = "codex" =>
            Distinct(ask.names) /\ \A i \in DOMAIN chosen : TrustRoot(chosen[i])

Gone(ask) == Unmountable(ask.names, ask.desktop, ask.lane) \union UnmountableAttached(ask)

\* Codex stores names: those declared, on the desktop behind those it already
\* had.  They are resolved once more when the turn starts, the lane not named.
CodexNames(ask) ==
    LET chosen == Resolved(ask.names, ask.desktop, ask.lane)
        had == SelectSeq([i \in DOMAIN ask.attached |-> ask.attached[i].name], LAMBDA n : n \notin Gone(ask))
        stored == IF ask.desktop
                  THEN had \o SelectSeq(chosen, LAMBDA n : n \notin {had[i] : i \in DOMAIN had})
                  ELSE chosen
    IN Resolved(stored, FALSE, "unnamed")

ComposedSpecs(ask) ==
    IF ask.lane = "codex"
    THEN AttachedBridge(ask, LaunchSpecs(CodexNames(ask)))
    ELSE Combined(AttachedBridge(ask, ask.attached),
                  LaunchSpecs(Resolved(ask.names, ask.desktop, ask.lane)), Gone(ask))

\* Autonomous turns allow the bridge's tools and the declared read tools of the
\* servers that resolved, looked up without the lane.
ComposedAllowed(ask) ==
    LET earlier == IF ask.armed THEN BridgeAllowed ELSE {}
        admitted == HarnessTools(Resolved(ask.names, ask.desktop, ask.lane), ask.desktop, "unnamed")
    IN IF ask.auto
       THEN {a \in earlier : a[1] \notin Gone(ask)}
              \union (HarnessTools(ask.names, FALSE, ask.lane) \intersect admitted)
       ELSE {}

StaticallyApprovable(allowed) ==
    {a \in allowed : Known(a[1]) => ~Registry[a[1]].perCall}

\* Codex approves by server, whatever the turn's autonomy: the written
\* configuration names each server's tools and its approval mode.
ConfiguredTools(specs) ==
    UNION {IF n = "bridge" THEN BridgeAllowed ELSE ToolsOf(n) : n \in NamesOf(specs)}

\* Only the strict Claude session is told what it need not ask for.
Approved(ask, specs) ==
    CASE ask.lane = "codex"  -> StaticallyApprovable(ConfiguredTools(specs))
      [] ask.lane = "claude" -> StaticallyApprovable(ComposedAllowed(ask))
      [] OTHER               -> {}

Compose(t) ==
    LET ask == turn[t].ask
        specs == IF ask.names = << >> /\ ~ask.desktop
                 THEN AttachedBridge(ask, ask.attached) ELSE ComposedSpecs(ask)
    IN /\ turn[t].at = "bound"
       /\ IF Composable(ask)
          THEN Put(t, [turn[t] EXCEPT !.at = "composed", !.specs = specs, !.allowed = Approved(ask, specs)])
          ELSE RefuseTurn(t)
       /\ UNCHANGED <<serves, verified, prober, fetcher, catalog, fetches, releases>>

-----------------------------------------------------------------------------
\* The contract of every registry server among the turn's specs, in order.

CurrentTurn(t) == turn[t].specs[turn[t].next]

Verifying(t) == turn[t].at = "composed" /\ turn[t].next <= Len(turn[t].specs)

Passed(t) == [turn[t] EXCEPT !.at = "composed", !.next = @ + 1]

\* The bridge and names outside the registry have no contract; a launch that is
\* not the registry's is refused before it is run; a verified one is not run again.
SkipServer(t) ==
    /\ Verifying(t)
    /\ ~Known(CurrentTurn(t).name) \/ (CurrentTurn(t).launch = "registry" /\ CurrentTurn(t).name \in verified)
    /\ Put(t, Passed(t))
    /\ UNCHANGED <<serves, verified, prober, fetcher, catalog, fetches, releases>>

RefuseDivergent(t) ==
    /\ Verifying(t)
    /\ Known(CurrentTurn(t).name)
    /\ CurrentTurn(t).launch # "registry"
    /\ RefuseTurn(t)
    /\ UNCHANGED <<serves, verified, prober, fetcher, catalog, fetches, releases>>

AwaitProbe(t) ==
    /\ Verifying(t)
    /\ Known(CurrentTurn(t).name)
    /\ CurrentTurn(t).launch = "registry"
    /\ CurrentTurn(t).name \notin verified
    /\ TurnMoved(t, "waiting")
    /\ UNCHANGED <<serves, verified, prober, fetcher, catalog, fetches, releases>>

TakeProbeLock(t) ==
    /\ turn[t].at = "waiting"
    /\ prober = FreeLock
    /\ IF CurrentTurn(t).name \in verified
       THEN prober' = prober /\ Put(t, Passed(t))
       ELSE prober' = t /\ TurnMoved(t, "probing")
    /\ UNCHANGED <<serves, verified, fetcher, catalog, fetches, releases>>

Missing(n, served) == Registry[n].tools \ served

Undeclared(n, served) ==
    IF Registry[n].exact THEN served \ (Registry[n].tools \union Registry[n].withheld) ELSE {}

KeepsContract(n, s) == Missing(n, s.tools) = {} /\ Undeclared(n, s.tools) = {} /\ s.ready

\* The handshake, the listing and the readiness call of one launched server.
ProbeAnswers(t) ==
    LET n == CurrentTurn(t).name
    IN /\ turn[t].at = "probing"
       /\ prober' = FreeLock
       /\ IF KeepsContract(n, serves[n])
          THEN verified' = verified \union {n} /\ Put(t, Passed(t))
          ELSE verified' = verified /\ RefuseTurn(t)
       /\ UNCHANGED <<serves, fetcher, catalog, fetches, releases>>

\* The launch cannot be acquired or the timeout ends it: the probe is cancelled
\* and joined, nothing is remembered.
ProbeFails(t) ==
    /\ turn[t].at = "probing"
    /\ prober' = FreeLock
    /\ RefuseTurn(t)
    /\ UNCHANGED <<serves, verified, fetcher, catalog, fetches, releases>>

\* The run is cancelled while its turn waits, fetches or probes.
CancelTurn(t) ==
    /\ turn[t].at \in {"unbound", "fetching", "waiting", "probing"}
    /\ fetcher' = IF fetcher = t THEN FreeLock ELSE fetcher
    /\ prober' = IF prober = t THEN FreeLock ELSE prober
    /\ TurnMoved(t, "cancelled")
    /\ UNCHANGED <<serves, verified, catalog, fetches, releases>>

-----------------------------------------------------------------------------
\* session/new of a strict session advertises the declared surface or nothing:
\* each name once, the bridge or a trusted registry entry by its own launch.

DeclaredSurface(specs) ==
    /\ Distinct([i \in DOMAIN specs |-> specs[i].name])
    /\ \A i \in DOMAIN specs :
          \/ specs[i].name = "bridge"
          \/ /\ Known(specs[i].name)
             /\ TrustRoot(specs[i].name)
             /\ specs[i].launch = "registry"

LaunchAgent(t) ==
    /\ turn[t].at = "composed"
    /\ turn[t].next > Len(turn[t].specs)
    /\ IF turn[t].ask.lane = "claude" => DeclaredSurface(turn[t].specs)
       THEN TurnMoved(t, "launched") ELSE RefuseTurn(t)
    /\ UNCHANGED <<serves, verified, prober, fetcher, catalog, fetches, releases>>

\* uvx acquires another release: it serves less or more, or its daemon is of
\* another version.
Releases(n) ==
    {[tools |-> Registry[n].tools \union Registry[n].withheld, ready |-> FALSE],
     [tools |-> Registry[n].tools \union Registry[n].withheld \union {"extra"}, ready |-> TRUE],
     [tools |-> {}, ready |-> TRUE], Honest(n)}

NewRelease(n) ==
    /\ releases < MaxReleases
    /\ releases' = releases + 1
    /\ serves' \in {[serves EXCEPT ![n] = r] : r \in Releases(n) \ {serves[n]}}
    /\ UNCHANGED <<verified, prober, fetcher, catalog, fetches, turn>>

TurnStep(t) ==
    \/ BindUnarmed(t) \/ BindStored(t) \/ AwaitCatalog(t) \/ TakeFetchLock(t)
    \/ FetchStores(t) \/ FetchFails(t) \/ Compose(t)
    \/ SkipServer(t) \/ RefuseDivergent(t) \/ AwaitProbe(t) \/ TakeProbeLock(t)
    \/ ProbeAnswers(t) \/ ProbeFails(t) \/ LaunchAgent(t)

McpNext ==
    \/ \E t \in RoleTurns : TurnStep(t) \/ CancelTurn(t)
    \/ \E n \in DOMAIN Registry : NewRelease(n)

\* The worker's event loop runs every turn that can take a step; the probe has a
\* timeout and the fetch an HTTP one.
McpFairness == \A t \in RoleTurns : WF_mcpVars(TurnStep(t))

McpSpecification == McpInit /\ [][McpNext]_mcpVars /\ McpFairness

-----------------------------------------------------------------------------
TurnStages == {"new", "unbound", "fetching", "bound", "composed", "waiting", "probing",
           "launched", "refused", "cancelled"}

\* The state is what the code can hold, one turn at most is inside each lock, and
\* only a turn that probes or fetches holds one.
McpTypeOK ==
    /\ verified \subseteq DOMAIN Registry
    /\ prober \in RoleTurns \union {FreeLock}
    /\ fetcher \in RoleTurns \union {FreeLock}
    /\ catalog \in BOOLEAN
    /\ fetches \in 0..1
    /\ releases \in 0..MaxReleases
    /\ \A t \in RoleTurns :
          /\ turn[t].at \in TurnStages
          /\ turn[t].next \in 1..(Len(turn[t].specs) + 1)
          /\ (turn[t].at = "probing") = (prober = t)
          /\ (turn[t].at = "fetching") = (fetcher = t)

\* An agent is launched on reviewed servers alone: in a strict session and on
\* Codex every advertised name appears once and is the run's bridge, or a
\* registry entry that does not write, is pinned to the run's project and is
\* started by the registry's own command (require_declared_surface,
\* codex_mcp_server_specs); on a desktop none of them is acquired at launch.
LaunchedIsReviewed ==
    \A t \in RoleTurns :
      LET specs == turn[t].specs
      IN (turn[t].at = "launched" /\ turn[t].ask.lane # "kimi") =>
           /\ Cardinality(NamesOf(specs)) = Len(specs)
           /\ \A i \in DOMAIN specs :
                \/ specs[i] = BridgeServer
                \/ /\ specs[i].name \in DOMAIN Registry
                   /\ Registry[specs[i].name].readOnly
                   /\ specs[i].launch = "registry" /\ specs[i].pinned
                   /\ turn[t].ask.desktop => Registry[specs[i].name].desktop

\* Nothing is approved ahead of its call that the call could turn against
\* another project, that the registry withholds, or that is not on the surface
\* of the launched agent; and a turn that is not autonomous has nothing approved
\* in its session (statically_approvable_tool_names, _admitted_mcp_tools).
ApprovedIsSurfaced ==
    \A t \in RoleTurns : turn[t].at = "launched" =>
      /\ \A a \in turn[t].allowed :
           /\ a[1] \in NamesOf(turn[t].specs)
           /\ a[1] \in DOMAIN Registry =>
                /\ ~Registry[a[1]].perCall
                /\ a[2] \notin Registry[a[1]].withheld
      /\ (turn[t].ask.lane = "claude" /\ ~turn[t].ask.auto) => turn[t].allowed = {}

\* The run's authoring bridge survives the composition: an armed turn that
\* launches advertises it, whatever else the team declares
\* (attach_authoring_tools before compose_harness_mcp_servers).
BridgeSurvives ==
    \A t \in RoleTurns :
      (turn[t].at = "launched" /\ turn[t].ask.armed) => "bridge" \in NamesOf(turn[t].specs)

\* A launch is remembered as verified only by a probe that then saw every
\* declared tool served, nothing beside them where the surface is exact, and a
\* ready daemon: a failure is never remembered (verify_declared_tool_contract).
VerifiedWasServed ==
    \A n \in verified' \ verified :
      /\ Registry[n].tools \subseteq serves[n].tools
      /\ Registry[n].exact => serves[n].tools \subseteq (Registry[n].tools \union Registry[n].withheld)
      /\ serves[n].ready

\* No agent is launched on a registry server this process has not verified.
LaunchedIsVerified ==
    \A t \in RoleTurns : turn[t].at = "launched" =>
      NamesOf(turn[t].specs) \intersect DOMAIN Registry \subseteq verified

\* A server is not started for a probe once another turn verified it, also when
\* both turns had asked for the lock before (the second look under _probe_lock).
ProbedOnce ==
    \A t \in RoleTurns :
      (turn'[t].at = "probing" /\ turn[t].at # "probing") => turn[t].specs[turn[t].next].name \notin verified

\* Every turn ends its composition: launched, refused or cancelled.
CompositionEnds ==
    \A t \in RoleTurns : <>(turn[t].at \in {"launched", "refused", "cancelled"})
=============================================================================
