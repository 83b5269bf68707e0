------------------------- MODULE ProviderCatalogs -------------------------
(***************************************************************************)
(* The provider catalog service: one bounded scope per workspace, in each  *)
(* scope a cache with one single-flight refresh per provider lane, the     *)
(* discoveries that fill it, and the record of health the gateway serves   *)
(* and admits a run against.                                               *)
(*                                                                         *)
(* Of a catalog only what its discovery reported is kept here: its models  *)
(* and controls are TeamSelection's subject.  The index lock of the cache  *)
(* and the lock of the scopes are never held across a wait, so what runs   *)
(* under one of them is one step.                                          *)
(***************************************************************************)
EXTENDS Naturals, Sequences, FiniteSets

CONSTANTS
    CatalogCallers,          \* requests that want the catalogs of a workspace
    Workspaces,       \* canonical workspace roots
    MaxScopes,        \* max_workspace_scopes
    CatalogLanes,     \* the registered lanes, a subset of Adapters
    MaxInvalidations  \* bound: calls of invalidate

Adapters == {"claude", "codex", "kimi", "openai", "antigravity", "zhipu"}

ASSUME CatalogAssumption ==
    /\ CatalogLanes \subseteq Adapters
    /\ MaxScopes \in Nat \ {0}
    /\ MaxInvalidations \in Nat

VARIABLES
    scopes,      \* _scopes: the workspaces with a scope, least recent first
    cached,      \* per workspace and lane: the scope's cache and evidence
    builds,      \* per caller: its call of records, lane by lane
    invalidated, \* how often invalidate was called
    provenLanes  \* PROVEN_CATALOG_TURN_LANES, as the release declares it

catalogVars == <<scopes, cached, builds, invalidated, provenLanes>>

-----------------------------------------------------------------------------
\* What the discovery of a lane can report: the catalog it lists and the
\* evidence it saw of authentication, configuration and transport.

Found(status, auth, configured, transport) ==
    [status |-> status, auth |-> auth, configured |-> configured, transport |-> transport]

TransportEvidence(status, auth) ==
    IF status = "available" \/ auth \in {"authenticated", "unauthenticated"}
    THEN "available" ELSE "unknown"

WithTransport(status, auth, configured) ==
    Found(status, auth, configured, TransportEvidence(status, auth))

\* What a provider lists: models, none, or an answer outside its protocol (two
\* model selectors, a repeated page cursor or identifier, too many models...).
Listings == {"models", "none", "malformed"}

CatalogFrom(listing) ==
    CASE listing = "models" -> "available" [] listing = "none" -> "unavailable" [] OTHER -> "broken"

\* Rows of the Antigravity listing that are not models are skipped.
CatalogFromRows(listing) == IF listing = "models" THEN "available" ELSE "unavailable"

\* The discovery of a lane: what it listed and the authentication it saw.
AcpSession ==
    {<<CatalogFrom(x), "authenticated">> : x \in Listings}
    \cup {<<"unavailable", "unauthenticated">>, <<"broken", "unknown">>}

\* account/read: an account, none where one is required, none needed.
CodexAccounts == {"authenticated", "unauthenticated", "not_applicable"}

CodexAppServer ==
    {<<CatalogFrom(x), a>> : x \in Listings, a \in CodexAccounts}
    \cup {<<"broken", "unknown">>}

KimiProviderList ==
    {<<CatalogFrom(x), "unknown">> : x \in Listings} \cup {<<"broken", "unknown">>}

\* No key, then the status of the response: 401, 403, anything but 200, 200.
OpenaiModelList ==
    {<<CatalogFrom(x), "authenticated">> : x \in Listings}
    \cup {<<"unavailable", "unauthenticated">>, <<"unavailable", "unknown">>, <<"broken", "unknown">>}

\* Not launched or too slow, a non-zero exit, and what its rows hold.
AntigravityListing ==
    {<<"unavailable", "unknown">>}
    \cup {<<CatalogFromRows(x), IF CatalogFromRows(x) = "available" THEN "authenticated"
                                ELSE "unauthenticated">> : x \in Listings}

\* The registered discoveries: the refusals before anything is launched, and the
\* configuration and transport they add to what the lane reported.
DiscoverClaudeFamily ==
    {Found("unavailable", "unknown", "unavailable", "unknown"),   \* no credential
     Found("unavailable", "unknown", "unknown", "unavailable")}   \* no command, no CLI
    \cup {WithTransport(d[1], d[2], c) : d \in AcpSession, c \in {"available", "unknown"}}

DiscoverCodex ==
    {Found("unavailable", "unknown", "unknown", "unavailable")}
    \cup {WithTransport(d[1], d[2], "unknown") : d \in CodexAppServer}

DiscoverKimi ==
    {Found("unavailable", "unknown", c, "unavailable") : c \in {"available", "unavailable"}}
    \cup {Found("unavailable", "unknown", "unavailable", "available")}
    \cup {WithTransport(d[1], d[2], "available") : d \in KimiProviderList}

DiscoverOpenai ==
    {Found(d[1], d[2], c, IF d[1] = "available" \/ d[2] = "unauthenticated"
                          THEN "available" ELSE "unknown") :
        d \in OpenaiModelList, c \in {"available", "unavailable"}}

DiscoverAntigravity ==
    {Found("unavailable", "unknown", "unavailable", "unavailable")}
    \cup {Found(d[1], d[2], "available", IF d[1] = "available" THEN "available"
                                         ELSE "unavailable") : d \in AntigravityListing}

DiscoverUnverified ==
    {Found("unavailable", "unknown", c, "unknown") : c \in {"available", "unavailable"}}

Discoveries(l) ==
    CASE l = "claude"      -> DiscoverClaudeFamily
      [] l = "codex"       -> DiscoverCodex
      [] l = "kimi"        -> DiscoverKimi
      [] l = "openai"      -> DiscoverOpenai
      [] l = "antigravity" -> DiscoverAntigravity
      [] l = "zhipu"       -> DiscoverUnverified

\* The lanes whose discovery owns a process that has to be reaped.
SpawnsProcess(l) == l \in {"claude", "codex", "kimi", "antigravity"}

\* The registrations that carry a version_admission of their launcher.
HasVersionAdmission(l) == l \in {"claude", "codex"}

\* finish_discovery: a discovery that could not release what it owns is a
\* failure, whatever it listed.
FinishDiscovery(d, reaped) == d.status # "broken" /\ reaped

-----------------------------------------------------------------------------
NoEvidence == Found("unavailable", "unknown", "unknown", "unknown")

NoEntry == [known |-> FALSE, status |-> "unavailable", founded |-> FALSE, era |-> 0,
            fresh |-> FALSE]

EmptyLane == [entry |-> NoEntry, failed |-> FALSE, generation |-> 0, era |-> 0,
              evidence |-> NoEvidence, queue |-> << >>]

EmptyScope == [l \in CatalogLanes |-> EmptyLane]

NoTold == [failed |-> TRUE, selectable |-> FALSE, claims |-> FALSE, founded |-> FALSE]

NoBuild == [workspace |-> "none", at |-> [l \in CatalogLanes |-> "idle"],
            generation |-> [l \in CatalogLanes |-> 0], era |-> [l \in CatalogLanes |-> 0],
            told |-> [l \in CatalogLanes |-> NoTold], refused |-> FALSE]

CatalogInit ==
    /\ scopes = << >>
    /\ cached = [w \in Workspaces |-> EmptyScope]
    /\ builds = [k \in CatalogCallers |-> NoBuild]
    /\ invalidated = 0
    /\ provenLanes \in SUBSET CatalogLanes

Users(w) == {k \in CatalogCallers : builds[k].workspace = w}
ScopeSet == {scopes[i] : i \in DOMAIN scopes}
Without(s, w) == SelectSeq(s, LAMBDA x : x # w)

\* _acquire_scope: the scope the workspace has, moved to the recent end; or a
\* new one, for which the least recent scope without a user makes room.
Full == Len(scopes) >= MaxScopes

Evictable == {w \in ScopeSet : Users(w) = {}}

LeastRecent(ws) ==
    CHOOSE w \in ws : \A i, j \in DOMAIN scopes :
        scopes[i] = w /\ scopes[j] \in ws => i <= j

Begin(k, w) ==
    builds' = [builds EXCEPT ![k] =
        [NoBuild EXCEPT !.workspace = w, !.at = [l \in CatalogLanes |-> "look"]]]

AcquireScope(k, w) ==
    \/ /\ w \in ScopeSet
       /\ scopes' = Append(Without(scopes, w), w)
       /\ Begin(k, w)
       /\ UNCHANGED cached
    \/ /\ w \notin ScopeSet
       /\ ~Full
       /\ scopes' = Append(scopes, w)
       /\ cached' = [cached EXCEPT ![w] = EmptyScope]
       /\ Begin(k, w)
    \/ /\ w \notin ScopeSet
       /\ Full
       /\ Evictable # {}
       /\ scopes' = Append(Without(scopes, LeastRecent(Evictable)), w)
       /\ cached' = [cached EXCEPT ![w] = EmptyScope, ![LeastRecent(Evictable)] = EmptyScope]
       /\ Begin(k, w)
    \/ /\ w \notin ScopeSet        \* ProviderCatalogScopeCapacityError, a 503
       /\ Full
       /\ Evictable = {}
       /\ builds' = [builds EXCEPT ![k] = [NoBuild EXCEPT !.refused = TRUE]]
       /\ UNCHANGED <<scopes, cached>>

Request(k) ==
    /\ builds[k].workspace = "none"
    /\ \E w \in Workspaces : AcquireScope(k, w)
    /\ UNCHANGED <<invalidated, provenLanes>>

-----------------------------------------------------------------------------
\* The health a record claims (_health_for and StructuredProviderHealth.derive).
Selectable(l, status, ev, launcher) ==
    LET configured == CASE ev.auth = "authenticated" -> "available"
                        [] ev.auth = "unauthenticated" /\ ev.configured = "unknown" -> "unavailable"
                        [] OTHER -> ev.configured
        transport  == IF status = "available" \/ ev.auth = "unauthenticated"
                      THEN "available" ELSE ev.transport
    IN /\ configured = "available"
       /\ transport = "available"
       /\ ev.auth \in {"authenticated", "not_applicable"}
       /\ status = "available"
       /\ l \in provenLanes
       /\ launcher

\* The evidence a record is composed from: none when the refresh failed.
Evidence(lane, failed) == IF failed THEN NoEvidence ELSE lane.evidence

\* _record, after the cache answered: a failed refresh serves what is cached as
\* stale, and unavailable when nothing was ever listed.
ServedStatus(lane, failed) ==
    IF lane.entry.known /\ (failed \/ ~lane.entry.fresh) /\ lane.entry.status = "available"
    THEN "stale" ELSE lane.entry.status

RecordOf(l, lane, failed, launcher) ==
    LET ev == Evidence(lane, failed)
        status == ServedStatus(lane, failed)
    IN [failed |-> failed, selectable |-> Selectable(l, status, ev, launcher),
        claims |-> status = "available" \/ ev.auth # "unknown", founded |-> lane.entry.founded]

\* The launcher is probed anew for every record.
LauncherVerdicts(l) == IF HasVersionAdmission(l) THEN BOOLEAN ELSE {TRUE}

\* Caller k's record of lane l, from the lane as this step leaves it.  A lane
\* nobody uses and that has no entry gives up its lock and its generation.
StillUsed(k, l) == \E o \in Users(builds[k].workspace) \ {k} :
                        builds[o].at[l] \in {"waiting", "loading"}

LaneReleased(lane, used) ==
    IF used \/ lane.entry.known THEN lane ELSE [lane EXCEPT !.generation = 0]

CatalogAnswer(k, l, lane, failed) ==
    /\ \E launcher \in LauncherVerdicts(l) :
          builds' = [builds EXCEPT ![k].at[l] = "done",
                                   ![k].told[l] = RecordOf(l, lane, failed, launcher)]
    /\ cached' = [cached EXCEPT ![builds[k].workspace][l] =
                      LaneReleased([lane EXCEPT !.evidence = Evidence(lane, failed)], StillUsed(k, l))]

Load(k, l, lane) ==
    /\ builds' = [builds EXCEPT ![k].at[l] = "loading",
                                ![k].generation[l] = lane.generation,
                                ![k].era[l] = lane.era]
    /\ cached' = [cached EXCEPT ![builds[k].workspace][l] = lane]

\* _available_snapshot: the fresh entry, or the failure still remembered.
Available(k, l, lane) ==
    \/ lane.entry.fresh /\ CatalogAnswer(k, l, lane, FALSE)
    \/ ~lane.entry.fresh /\ lane.failed /\ CatalogAnswer(k, l, lane, TRUE)

Loading(w, l) == \E k \in Users(w) : builds[k].at[l] = "loading"

\* get: a look without the lane's lock, then the lock, which is handed to the
\* callers that queue for it before a later one can take it.
LookUp(k, l) ==
    LET w == builds[k].workspace  lane == cached[w][l] IN
    /\ builds[k].at[l] = "look"
    /\ \/ Available(k, l, lane)
       \/ /\ ~lane.entry.fresh /\ ~lane.failed
          /\ \/ ~Loading(w, l) /\ lane.queue = << >> /\ Load(k, l, lane)
             \/ /\ Loading(w, l) \/ lane.queue # << >>
                /\ builds' = [builds EXCEPT ![k].at[l] = "waiting"]
                /\ cached' = [cached EXCEPT ![w][l].queue = Append(@, k)]
    /\ UNCHANGED <<scopes, invalidated, provenLanes>>

\* The lock is granted to the caller that waited longest: it looks again before
\* it loads.
Grantable(k, l) ==
    LET w == builds[k].workspace IN
    /\ builds[k].at[l] = "waiting"
    /\ ~Loading(w, l)
    /\ Head(cached[w][l].queue) = k

Unqueued(lane) == [lane EXCEPT !.queue = Tail(@)]

\* Mutant of Granted: a caller that waited does not look for a recent failure.
GrantedUnlooked(k, l) ==
    /\ Grantable(k, l)
    /\ LET lane == Unqueued(cached[builds[k].workspace][l])
       IN IF lane.entry.fresh THEN CatalogAnswer(k, l, lane, FALSE) ELSE Load(k, l, lane)
    /\ UNCHANGED <<scopes, invalidated, provenLanes>>

Granted(k, l) ==
    /\ Grantable(k, l)
    /\ LET lane == Unqueued(cached[builds[k].workspace][l])
       IN \/ Available(k, l, lane)
          \/ ~lane.entry.fresh /\ ~lane.failed /\ Load(k, l, lane)
    /\ UNCHANGED <<scopes, invalidated, provenLanes>>

\* _store_catalog stores only what was asked for since the last invalidation.
Storable(k, l, lane) == lane.generation = builds[k].generation[l]

\* The discovery raised: it timed out, broke protocol, exceeded a bound, or its
\* cleanup failed.  The failure is remembered unless the lane was invalidated.
LoadFails(k, l) ==
    LET lane == cached[builds[k].workspace][l] IN
    CatalogAnswer(k, l, IF lane.generation = builds[k].generation[l]
                 THEN [lane EXCEPT !.failed = TRUE] ELSE lane, TRUE)

\* It listed a catalog: evidence first, then the entry, which is refused when
\* the lane was invalidated meanwhile.
LoadStores(k, l, d, reaped) ==
    LET lane == cached[builds[k].workspace][l] IN
    IF Storable(k, l, lane)
    THEN CatalogAnswer(k, l, [lane EXCEPT !.failed = FALSE, !.evidence = d,
                  !.entry = [known |-> TRUE, status |-> d.status, fresh |-> TRUE,
                             founded |-> reaped /\ d.auth \in {"authenticated", "not_applicable"},
                             era |-> builds[k].era[l]]], FALSE)
    ELSE CatalogAnswer(k, l, lane, TRUE)

DiscoveryEnds(k, l) ==
    /\ builds[k].at[l] = "loading"
    /\ \E d \in Discoveries(l), reaped \in (IF SpawnsProcess(l) THEN BOOLEAN ELSE {TRUE}) :
          IF FinishDiscovery(d, reaped) THEN LoadStores(k, l, d, reaped) ELSE LoadFails(k, l)
    /\ UNCHANGED <<scopes, invalidated, provenLanes>>

-----------------------------------------------------------------------------
\* records returns: every lane has its record, and the scope is released.  The
\* build is shielded: it comes to this also when its request's budget ended first.
Return(k) ==
    /\ builds[k].workspace # "none"
    /\ \A l \in CatalogLanes : builds[k].at[l] = "done"
    /\ builds' = [builds EXCEPT ![k] = NoBuild]
    /\ UNCHANGED <<scopes, cached, invalidated, provenLanes>>

EntryExpires(w, l) ==
    /\ cached[w][l].entry.fresh
    /\ cached' = [cached EXCEPT ![w][l].entry.fresh = FALSE]
    /\ UNCHANGED <<scopes, builds, invalidated, provenLanes>>

FailureExpires(w, l) ==
    /\ cached[w][l].failed
    /\ cached' = [cached EXCEPT ![w][l].failed = FALSE]
    /\ UNCHANGED <<scopes, builds, invalidated, provenLanes>>

\* invalidate: forget the failure, expire the entry, and disown the discovery in
\* flight; a lane with neither has nothing to disown.
Invalidate(w, l) ==
    /\ w \in ScopeSet
    /\ invalidated < MaxInvalidations
    /\ invalidated' = invalidated + 1
    /\ LET lane == cached[w][l]
           known == lane.entry.known
                    \/ \E k \in Users(w) : builds[k].at[l] \in {"waiting", "loading"}
       IN cached' = [cached EXCEPT ![w][l] =
            IF known THEN [lane EXCEPT !.failed = FALSE, !.entry.fresh = FALSE,
                                       !.generation = @ + 1, !.era = @ + 1]
            ELSE [lane EXCEPT !.failed = FALSE]]
    /\ UNCHANGED <<scopes, builds, provenLanes>>

CallStep(k) ==
    \/ Return(k)
    \/ \E l \in CatalogLanes : \/ LookUp(k, l)
                               \/ Granted(k, l)
                               \/ DiscoveryEnds(k, l)

CatalogNext ==
    \/ \E k \in CatalogCallers : \/ Request(k)
                                 \/ CallStep(k)
    \/ \E w \in Workspaces, l \in CatalogLanes : \/ EntryExpires(w, l)
                                                 \/ FailureExpires(w, l)
                                                 \/ Invalidate(w, l)

CatalogFairness == \A k \in CatalogCallers : WF_catalogVars(CallStep(k))

CatalogSpec == CatalogInit /\ [][CatalogNext]_catalogVars /\ CatalogFairness

-----------------------------------------------------------------------------
\* The shape of the scopes, their caches and the calls: no more scopes than the
\* service allows, each workspace at most once.
CatalogTypeOK ==
    /\ Len(scopes) <= MaxScopes
    /\ Cardinality(ScopeSet) = Len(scopes)
    /\ \A w \in Workspaces, l \in CatalogLanes :
          /\ cached[w][l].entry.status \in {"available", "unavailable"}
          /\ cached[w][l].failed \in BOOLEAN
    /\ \A k \in CatalogCallers :
          /\ builds[k].workspace \in Workspaces \cup {"none"}
          /\ builds[k].refused \in BOOLEAN
          /\ \A l \in CatalogLanes :
                /\ builds[k].at[l] \in {"idle", "look", "waiting", "loading", "done"}
                /\ builds[k].told[l].failed \in BOOLEAN

\* CatalogRefreshCache.get coalesces: however many requests want a lane of a
\* workspace, one provider process at a time is asked for its catalog.
OneDiscoveryPerLane ==
    \A w \in Workspaces, l \in CatalogLanes :
        Cardinality({k \in Users(w) : builds[k].at[l] = "loading"}) <= 1

\* A lane that failed is left alone until its failure expires: no caller, one
\* that queued behind the failed discovery included, starts another.
QuietAfterFailure ==
    \A k \in CatalogCallers, l \in CatalogLanes :
        builds[k].at[l] = "loading" => ~cached[builds[k].workspace][l].failed

\* The scope a build reads and writes stays the workspace's scope until the
\* build releases it, also when its request has left with a 503.
ScopeInUseIsKept ==
    \A k \in CatalogCallers : builds[k].workspace # "none" => builds[k].workspace \in ScopeSet

\* What the cache serves without a refresh was discovered after the lane's last
\* invalidation: a discovery that was under way is not stored.
FreshIsCurrent ==
    \A w \in Workspaces, l \in CatalogLanes :
        cached[w][l].entry.fresh => cached[w][l].entry.era = cached[w][l].era

\* A lane is offered for selection only on the catalog of a proven lane, listed
\* by a discovery that itself saw the account authenticated (or needing none) and
\* left no process; a failed refresh offers nothing and claims nothing of an
\* earlier one, neither an available catalog nor an account.
SelectableIsProven ==
    \A k \in CatalogCallers, l \in CatalogLanes :
        LET t == builds[k].told[l] IN
        /\ t.selectable => ~t.failed /\ t.founded /\ l \in provenLanes
        /\ t.failed => ~t.claims

\* Every build ends: each discovery is bounded by its timeout, and a caller that
\* queued behind one is granted the lane after it.
CallsReturn ==
    \A k \in CatalogCallers : (builds[k].workspace # "none") ~> (builds[k].workspace = "none")
=============================================================================
