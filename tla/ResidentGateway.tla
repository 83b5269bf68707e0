-------------------------- MODULE ResidentGateway --------------------------
(***************************************************************************)
(* The gateways of one application home and the operator verbs that start  *)
(* and stop them: the operating-system runtime singleton of an armed       *)
(* desktop home, the discovery record a serving gateway publishes and      *)
(* refreshes, and `service start` / `service stop` with their readiness    *)
(* poll and their tree-kill fallback.                                      *)
(*                                                                         *)
(* A member of Gateways is one process incarnation, so its name is its pid *)
(* together with its start fingerprint.  A home is armed (desktop profile, *)
(* singleton, versioned nested discovery record) or plain (no singleton,   *)
(* flat discovery record with a hand-off credential); Profiles says which  *)
(* kinds of home Init may choose.                                          *)
(***************************************************************************)
EXTENDS Naturals, FiniteSets

CONSTANTS Gateways,      \* process incarnations of `vaultspec-a2a serve`
          Owners,        \* operating-system principals
          Verbs,         \* concurrent invocations of the service CLI
          Profiles,      \* subset of BOOLEAN: may the home be armed?
          MaxResidentTrouble     \* budget of crashes, failed heartbeats, late writes

ASSUME ResidentAssumption ==
    /\ IsFiniteSet(Gateways) /\ Gateways # {} /\ Owners # {}
    /\ Profiles \subseteq BOOLEAN /\ Profiles # {}
    /\ MaxResidentTrouble \in Nat

VARIABLES armed,      \* settings.desktop_profile_armed
          owner,      \* default_owner() of each gateway process
          gw,         \* where each gateway process is
          residentLock,       \* holder of gateway.singleton.lock
          seat,       \* gateway.singleton.json: the recorded holder
          disc,       \* the discovery record: who published it, is it fresh
          listener,   \* who is bound to the home's port
          verb,       \* the CLI invocations
          residentTrouble

residentVars == <<armed, owner, gw, residentLock, seat, disc, listener, verb,
                  residentTrouble>>

NoGateway == "no gateway"
Lingering == "lingering"      \* an inherited descriptor still holds the lock

Dead(g) == gw[g] \in {"unborn", "dead"}
Live(g) == g \in Gateways /\ ~Dead(g)
Moves(g, at) == gw' = [gw EXCEPT ![g] = at]
Troubled == residentTrouble < MaxResidentTrouble /\ residentTrouble' = residentTrouble + 1

(***************************************************************************)
(* recorded_process_is_live: the record's pid is alive and carries the     *)
(* fingerprint the record published.                                       *)
(***************************************************************************)
RecordedProcessIsLive(g) == Live(g)

ResidentInit ==
    /\ armed \in Profiles
    /\ owner \in [Gateways -> Owners]
    /\ gw = [g \in Gateways |-> "unborn"]
    /\ residentLock = NoGateway /\ seat = NoGateway /\ listener = NoGateway
    /\ disc = [pid |-> NoGateway, fresh |-> FALSE]
    /\ verb = [v \in Verbs |-> [kind |-> "none", at |-> "idle",
                                target |-> NoGateway]]
    /\ residentTrouble = 0

-----------------------------------------------------------------------------
(* How the two readers see the one discovery file *)

(***************************************************************************)
(* classify_discovery, the reader of the service verbs, takes a flat       *)
(* record.  The desktop record nests its port under "endpoint", so on an   *)
(* armed home this reader finds no port and answers MALFORMED.             *)
(***************************************************************************)
ServiceView ==
    CASE disc.pid = NoGateway -> "absent"
      [] armed -> "malformed"
      [] disc.fresh -> "fresh"
      [] OTHER -> "stale"

(***************************************************************************)
(* classify_desktop_discovery, the reader that resolves the attach         *)
(* credential on an armed home.                                            *)
(***************************************************************************)
DesktopView ==
    CASE disc.pid = NoGateway -> "absent"
      [] ~armed -> "malformed"
      [] disc.fresh -> "fresh"
      [] OTHER -> "stale"

(***************************************************************************)
(* gateway_auth_headers: a bearer resolves for the recorded origin only    *)
(* from a fresh record of the profile's own format.                        *)
(***************************************************************************)
BearerResolves ==
    IF armed THEN DesktopView = "fresh" /\ RecordedProcessIsLive(disc.pid)
             ELSE ServiceView = "fresh"

(***************************************************************************)
(* probe_health: the recorded port answers when a serving gateway is       *)
(* bound to it.                                                            *)
(***************************************************************************)
PortAnswers == listener # NoGateway

(***************************************************************************)
(* service_status                                                          *)
(***************************************************************************)
ServiceStatus ==
    CASE ServiceView \in {"absent", "malformed"} -> "stopped"
      [] ~RecordedProcessIsLive(disc.pid) -> "stopped"
      [] ServiceView = "stale" -> "stale"
      [] OTHER -> IF PortAnswers THEN "running" ELSE "unhealthy"

(***************************************************************************)
(* another_resident_is_live                                                *)
(***************************************************************************)
AnotherResidentIsLive ==
    ServiceView = "fresh" /\ RecordedProcessIsLive(disc.pid) /\ PortAnswers

-----------------------------------------------------------------------------
(* The runtime singleton of an armed home *)

(***************************************************************************)
(* `serve` on a plain home takes no singleton.                             *)
(***************************************************************************)
ServePlain(g) ==
    /\ gw[g] = "boot" /\ ~armed
    /\ Moves(g, "sealed")
    /\ UNCHANGED <<armed, owner, residentLock, seat, disc, listener, verb,
                   residentTrouble>>

(***************************************************************************)
(* _acquire_lock_or_conflict, granted.                                     *)
(***************************************************************************)
TryLock(g) ==
    /\ gw[g] = "boot" /\ armed /\ residentLock = NoGateway
    /\ residentLock' = g
    /\ Moves(g, "locked")
    /\ UNCHANGED <<armed, owner, seat, disc, listener, verb, residentTrouble>>

(***************************************************************************)
(* _acquire_lock_or_conflict, refused: at once while the recorded holder   *)
(* is provably live, otherwise once the orphaned-lock wait has run out.    *)
(* Either way _raise_lock_conflict ends the process.                       *)
(***************************************************************************)
LockConflict(g) ==
    /\ gw[g] = "boot" /\ armed /\ residentLock # NoGateway
    /\ Moves(g, "dead")
    /\ \/ seat # NoGateway /\ RecordedProcessIsLive(seat)
          /\ UNCHANGED residentTrouble
       \/ ~(seat # NoGateway /\ RecordedProcessIsLive(seat)) /\ Troubled
    /\ UNCHANGED <<armed, owner, residentLock, seat, disc, listener, verb>>

(***************************************************************************)
(* acquire_singleton after the lock: a prior record of another owner, live *)
(* or stale, is refused and the lock given back; otherwise this process    *)
(* publishes itself over it.                                               *)
(***************************************************************************)
RejectForeignRecord(g) ==
    /\ gw[g] = "locked"
    /\ seat # NoGateway /\ owner[seat] # owner[g]
    /\ residentLock' = NoGateway
    /\ Moves(g, "dead")
    /\ UNCHANGED <<armed, owner, seat, disc, listener, verb, residentTrouble>>

WriteSeat(g) ==
    /\ gw[g] = "locked"
    /\ seat # NoGateway => owner[seat] = owner[g]
    /\ seat' = g
    /\ Moves(g, "sealed")
    /\ UNCHANGED <<armed, owner, residentLock, disc, listener, verb, residentTrouble>>

(***************************************************************************)
(* RuntimeSingleton.release: unlock, then read the record, then unlink it  *)
(* when the pid read was this process's own.  The read and the unlink are  *)
(* two steps and the lock is already free between them.                    *)
(***************************************************************************)
ReleaseLock(g) ==
    /\ gw[g] = "withdrawn"
    /\ IF armed THEN residentLock' = NoGateway /\ Moves(g, "unlocked")
                ELSE Moves(g, "dead") /\ UNCHANGED residentLock
    /\ UNCHANGED <<armed, owner, seat, disc, listener, verb, residentTrouble>>

ReadSeat(g) ==
    /\ gw[g] = "unlocked"
    /\ Moves(g, IF seat = g THEN "unseating" ELSE "dead")
    /\ UNCHANGED <<armed, owner, residentLock, seat, disc, listener, verb,
                   residentTrouble>>

UnlinkSeat(g) ==
    /\ gw[g] = "unseating"
    /\ seat' = NoGateway
    /\ Moves(g, "dead")
    /\ UNCHANGED <<armed, owner, residentLock, disc, listener, verb, residentTrouble>>

-----------------------------------------------------------------------------
(* Discovery and the serving life of a gateway *)

(***************************************************************************)
(* _start_gateway_discovery: the lifespan publishes the record before the  *)
(* listener is bound; a live resident on a plain home only earns a warning.*)
(***************************************************************************)
PublishDiscovery(g) ==
    /\ gw[g] = "sealed"
    /\ disc' = [pid |-> g, fresh |-> TRUE]
    /\ Moves(g, "published")
    /\ UNCHANGED <<armed, owner, residentLock, seat, listener, verb, residentTrouble>>

(***************************************************************************)
(* The port bind: the authoritative single-instance guard of a plain home. *)
(* A refused bind runs the lifespan shutdown.                              *)
(***************************************************************************)
Bind(g) ==
    /\ gw[g] = "published"
    /\ IF listener = NoGateway
       THEN listener' = g /\ Moves(g, "serving")
       ELSE Moves(g, "stopping") /\ UNCHANGED listener
    /\ UNCHANGED <<armed, owner, residentLock, seat, disc, verb, residentTrouble>>

(***************************************************************************)
(* _discovery_heartbeat / _desktop_discovery_heartbeat: the whole record   *)
(* is rewritten with a fresh stamp, whatever is on disk.                   *)
(***************************************************************************)
Heartbeat(g) ==
    /\ gw[g] = "serving"
    /\ disc # [pid |-> g, fresh |-> TRUE]
    /\ disc' = [pid |-> g, fresh |-> TRUE]
    /\ UNCHANGED <<armed, owner, gw, residentLock, seat, listener, verb,
                   residentTrouble>>

(***************************************************************************)
(* A record goes stale: nobody refreshes it any more, or (at a cost) a     *)
(* serving gateway's heartbeat write fails.                                *)
(***************************************************************************)
RecordAges ==
    /\ disc.pid # NoGateway /\ disc.fresh
    /\ disc' = [disc EXCEPT !.fresh = FALSE]
    /\ IF gw[disc.pid] = "serving" THEN Troubled ELSE UNCHANGED residentTrouble
    /\ UNCHANGED <<armed, owner, gw, residentLock, seat, listener, verb>>

(***************************************************************************)
(* remove_service_json_if_owned during _shutdown_gateway: a record in the  *)
(* other format counts as malformed and is removed whoever published it; a *)
(* readable one only when it names this process.                           *)
(***************************************************************************)
RemoveDiscovery(g) ==
    /\ gw[g] = "stopping"
    /\ disc' = IF ServiceView = "malformed" \/ disc.pid = g
               THEN [pid |-> NoGateway, fresh |-> FALSE] ELSE disc
    /\ listener' = IF listener = g THEN NoGateway ELSE listener
    /\ Moves(g, "withdrawn")
    /\ UNCHANGED <<armed, owner, residentLock, seat, verb, residentTrouble>>

(***************************************************************************)
(* Cancelling the heartbeat task does not stop the thread it handed its    *)
(* write to, so one write can land after the removal.                      *)
(***************************************************************************)
LateHeartbeat(g) ==
    /\ gw[g] = "withdrawn" /\ Troubled
    /\ disc' = [pid |-> g, fresh |-> TRUE]
    /\ UNCHANGED <<armed, owner, gw, residentLock, seat, listener, verb>>

(***************************************************************************)
(* A gateway that stops by itself (a signal), and one that dies: the lock  *)
(* goes with the process unless a child inherited its descriptor.          *)
(***************************************************************************)
Signalled(g) ==
    /\ gw[g] = "serving" /\ Troubled
    /\ Moves(g, "stopping")
    /\ UNCHANGED <<armed, owner, residentLock, seat, disc, listener, verb>>

Dies(g, inherited) ==
    /\ Moves(g, "dead")
    /\ residentLock' = IF residentLock # g THEN residentLock ELSE IF inherited THEN Lingering
                                                       ELSE NoGateway
    /\ listener' = IF listener = g THEN NoGateway ELSE listener

Crash(g) ==
    /\ Live(g) /\ Troubled
    /\ \E inherited \in BOOLEAN : Dies(g, inherited)
    /\ UNCHANGED <<armed, owner, seat, disc, verb>>

LingeringLockFreed ==
    /\ residentLock = Lingering /\ residentLock' = NoGateway
    /\ UNCHANGED <<armed, owner, gw, seat, disc, listener, verb,
                   residentTrouble>>

-----------------------------------------------------------------------------
(* The service verbs *)

VerbAt(v, kind, at) == verb[v].kind = kind /\ verb[v].at = at
VerbMoves(v, kind, at, target) ==
    verb' = [verb EXCEPT ![v] = [kind |-> kind, at |-> at, target |-> target]]

(***************************************************************************)
(* start_service: report a live resident, or spawn `serve` detached.       *)
(***************************************************************************)
StartVerb(v) ==
    /\ verb[v].at = "idle"
    /\ \/ /\ AnotherResidentIsLive
          /\ VerbMoves(v, "start", "reported", NoGateway)
          /\ UNCHANGED gw
       \/ /\ ~AnotherResidentIsLive
          /\ \E g \in Gateways :
                /\ gw[g] = "unborn"
                /\ Moves(g, "boot")
                /\ VerbMoves(v, "start", "polling", g)
    /\ UNCHANGED <<armed, owner, residentLock, seat, disc, listener, residentTrouble>>

(***************************************************************************)
(* The readiness poll: an exited child fails the verb, a running status    *)
(* ends it, and a deadline with neither fells the child.                   *)
(***************************************************************************)
PollChildExited(v) ==
    /\ VerbAt(v, "start", "polling") /\ Dead(verb[v].target)
    /\ VerbMoves(v, "start", "failed", verb[v].target)
    /\ UNCHANGED <<armed, owner, gw, residentLock, seat, disc, listener,
                   residentTrouble>>

PollRunning(v) ==
    /\ VerbAt(v, "start", "polling") /\ Live(verb[v].target)
    /\ ServiceStatus = "running"
    /\ VerbMoves(v, "start", "reported", verb[v].target)
    /\ UNCHANGED <<armed, owner, gw, residentLock, seat, disc, listener,
                   residentTrouble>>

PollDeadline(v) ==
    /\ VerbAt(v, "start", "polling") /\ Live(verb[v].target)
    /\ ServiceStatus # "running"
    /\ Dies(verb[v].target, FALSE)
    /\ VerbMoves(v, "start", "failed", verb[v].target)
    /\ UNCHANGED <<armed, owner, seat, disc, residentTrouble>>

(***************************************************************************)
(* stop_service: no live recorded resident is already stopped; a listener  *)
(* that is not the recorded process is a conflict; otherwise the resident  *)
(* is asked to drain, and felled when nobody listens or the bearer does    *)
(* not resolve.                                                            *)
(***************************************************************************)
StopVerb(v) ==
    /\ verb[v].at = "idle" /\ disc.pid # NoGateway
    /\ LET g == disc.pid IN
       \/ /\ ~(ServiceView # "malformed" /\ RecordedProcessIsLive(g))
          /\ VerbMoves(v, "stop", "reported", NoGateway)
          /\ UNCHANGED gw
       \/ /\ ServiceView # "malformed" /\ RecordedProcessIsLive(g)
          /\ listener \notin {g, NoGateway}
          /\ VerbMoves(v, "stop", "failed", NoGateway)
          /\ UNCHANGED gw
       \/ /\ ServiceView # "malformed" /\ RecordedProcessIsLive(g)
          /\ listener \in {g, NoGateway}
          /\ IF listener = g /\ BearerResolves
             THEN /\ VerbMoves(v, "stop", "draining", g)
                  /\ Moves(g, "stopping")
             ELSE /\ VerbMoves(v, "stop", "felling", g)
                  /\ UNCHANGED gw
    /\ UNCHANGED <<armed, owner, residentLock, seat, disc, listener, residentTrouble>>

StopDrainEnds(v) ==
    /\ VerbAt(v, "stop", "draining") /\ Dead(verb[v].target)
    /\ VerbMoves(v, "stop", "reported", verb[v].target)
    /\ UNCHANGED <<armed, owner, gw, residentLock, seat, disc, listener,
                   residentTrouble>>

DrainTimesOut(v) ==
    /\ VerbAt(v, "stop", "draining") /\ Live(verb[v].target)
    /\ VerbMoves(v, "stop", "felling", verb[v].target)
    /\ UNCHANGED <<armed, owner, gw, residentLock, seat, disc, listener,
                   residentTrouble>>

FellResident(v) ==
    /\ VerbAt(v, "stop", "felling")
    /\ Dies(verb[v].target, FALSE)
    /\ VerbMoves(v, "stop", "reported", verb[v].target)
    /\ UNCHANGED <<armed, owner, seat, disc, residentTrouble>>

(***************************************************************************)
(* The dashboard launches `serve` itself, without the start verb.          *)
(***************************************************************************)
ServeDirectly(g) ==
    /\ gw[g] = "unborn" /\ armed
    /\ Moves(g, "boot")
    /\ UNCHANGED <<armed, owner, residentLock, seat, disc, listener, verb,
                   residentTrouble>>

-----------------------------------------------------------------------------
GatewayStep(g) ==
    \/ ServePlain(g) \/ TryLock(g) \/ LockConflict(g) \/ RejectForeignRecord(g)
    \/ WriteSeat(g) \/ PublishDiscovery(g) \/ Bind(g) \/ RemoveDiscovery(g)
    \/ ReleaseLock(g) \/ ReadSeat(g) \/ UnlinkSeat(g)

VerbStep(v) ==
    \/ PollChildExited(v) \/ PollRunning(v) \/ PollDeadline(v)
    \/ StopDrainEnds(v) \/ DrainTimesOut(v) \/ FellResident(v)

ResidentNext ==
    \/ \E g \in Gateways : \/ GatewayStep(g) \/ Heartbeat(g) \/ LateHeartbeat(g)
                           \/ Signalled(g) \/ Crash(g) \/ ServeDirectly(g)
    \/ \E v \in Verbs : VerbStep(v) \/ StartVerb(v) \/ StopVerb(v)
    \/ RecordAges \/ LingeringLockFreed

(***************************************************************************)
(* A gateway process keeps executing, its heartbeat keeps beating, an      *)
(* invoked verb runs to its end.  Nothing obliges an operator to invoke    *)
(* one, or a record to age.                                                *)
(***************************************************************************)
ResidentFairness ==
    /\ \A g \in Gateways : WF_residentVars(GatewayStep(g))
                           /\ WF_residentVars(Heartbeat(g))
    /\ \A v \in Verbs : WF_residentVars(VerbStep(v))

ResidentSpec == ResidentInit /\ [][ResidentNext]_residentVars /\ ResidentFairness

-----------------------------------------------------------------------------
ResidentTypeOK ==
    /\ armed \in BOOLEAN /\ owner \in [Gateways -> Owners]
    /\ gw \in [Gateways -> {"unborn", "boot", "locked", "sealed", "published",
                            "serving", "stopping", "withdrawn", "unlocked",
                            "unseating", "dead"}]
    /\ residentLock \in Gateways \cup {NoGateway, Lingering}
    /\ seat \in Gateways \cup {NoGateway}
    /\ listener \in Gateways \cup {NoGateway}
    /\ disc \in [pid : Gateways \cup {NoGateway}, fresh : BOOLEAN]
    /\ residentTrouble \in 0..MaxResidentTrouble

(***************************************************************************)
(* An armed home has one resident: never are two gateways between taking   *)
(* the singleton and giving it back, whatever crashes, orphaned locks and  *)
(* stale records came before ("the sole live owner of one application      *)
(* home", singleton.py).                                                   *)
(***************************************************************************)
OneResident ==
    armed => \A g, h \in Gateways :
        /\ gw[g] \in {"locked", "sealed", "published", "serving", "stopping",
                      "withdrawn"}
        /\ gw[h] \in {"locked", "sealed", "published", "serving", "stopping",
                      "withdrawn"}
        => g = h

(***************************************************************************)
(* classify_app_home reads only the record.  When the process the record   *)
(* names is live, that process is the one holding the lock or is on its    *)
(* way out, so HELD and FOREIGN are never said of a home somebody else     *)
(* holds.                                                                  *)
(***************************************************************************)
HeldIsTrue ==
    seat # NoGateway /\ RecordedProcessIsLive(seat) =>
        residentLock = seat \/ gw[seat] \in {"unlocked", "unseating"}

(***************************************************************************)
(* "No half-started generation survives the verb": once `service start`    *)
(* has failed, the gateway it spawned is dead.                             *)
(***************************************************************************)
HalfStartedIsFelled ==
    \A v \in Verbs : VerbAt(v, "start", "failed") => Dead(verb[v].target)

(***************************************************************************)
(* `service restart` relies on a confirmed stop: a stop verb that          *)
(* addressed a resident reports only once that resident is dead, whether   *)
(* it drained, crashed meanwhile or had to be felled.                      *)
(***************************************************************************)
StoppedIsGone ==
    \A v \in Verbs : VerbAt(v, "stop", "reported") /\ verb[v].target # NoGateway
                        => Dead(verb[v].target)

(***************************************************************************)
(* A gateway that goes on serving is in the end discoverable for good,     *)
(* even when competing starts overwrote its record and their shutdown      *)
(* removed it: the heartbeat rewrites the whole record.                    *)
(***************************************************************************)
ServingIsDiscovered ==
    \A g \in Gateways :
        <>[](gw[g] = "serving") => <>[](disc.pid = g)

(***************************************************************************)
(* Every invoked start and stop verb ends.                                 *)
(***************************************************************************)
VerbsEnd ==
    \A v \in Verbs : verb[v].at \in {"polling", "draining", "felling"}
                        ~> verb[v].at \in {"reported", "failed"}
=============================================================================
