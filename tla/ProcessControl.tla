--------------------------- MODULE ProcessControl ---------------------------
(***************************************************************************)
(* The processes of an installation, in two parts that share no variable:  *)
(* the containment of a spawned root and its tree, and the registry of the *)
(* processes `serve up` launches.                                          *)
(***************************************************************************)
EXTENDS FiniteSets, Integers

(***************************************************************************)
(* The containment of a spawned root and its tree (utils/process.py,       *)
(* utils/_process_tree.py, utils/async_cleanup.py): the root is admitted   *)
(* before it runs or killed, and a termination, shared by every caller     *)
(* that asks for it, signals the process group and watches it empty.       *)
(*                                                                         *)
(* A scan of the group is not atomic: the pid table is listed first and    *)
(* each pid is looked at afterwards, so a member that forks and exits in   *)
(* between is missed, and so is its child.  Nothing bounds how often that  *)
(* happens while the group is watched.                                     *)
(***************************************************************************)

CONSTANTS
    TreeCallers,   \* callers of terminate
    MaxLateForks,  \* bound: forks while the group is being terminated
    EmptyScans,    \* empty observations that mean gone
    MaxPids        \* bound: processes of the tree

ASSUME TreeAssumption ==
    /\ {EmptyScans, MaxPids} \subseteq Nat \ {0}
    /\ MaxLateForks \in Nat

VARIABLES
    members,    \* live processes of the group
    pids,       \* processes started so far
    lateForks,
    obeys,      \* members that die on SIGTERM
    admission,  \* the root: not spawned, held, admitted, or its spawn failed
    listed,     \* the scan under way: pids listed and not looked at
    found,      \* whether it found a member
    raced,      \* whether a member forked while it was under way
    empties,    \* consecutive empty scans
    races,      \* how many of those a fork raced with
    phase,      \* the termination task
    gone,       \* its result
    caller      \* each caller of terminate

scanVars == <<listed, found, raced, empties, races>>
treeVars == <<members, pids, lateForks, obeys, admission, scanVars, phase, gone, caller>>

TreeTypeOK ==
    /\ members \subseteq 1..MaxPids /\ pids \in 0..MaxPids
    /\ lateForks \in 0..MaxLateForks /\ obeys \subseteq 1..MaxPids
    /\ admission \in {"none", "held", "admitted", "failed", "unreaped"}
    /\ listed \subseteq 1..MaxPids /\ {found, raced} \subseteq BOOLEAN
    /\ empties \in 0..EmptyScans /\ races \in 0..empties
    /\ phase \in {"none", "first", "term", "kill", "done"} /\ gone \in BOOLEAN
    /\ caller \in [TreeCallers -> {"out", "waiting", "cancelled", "answered", "raised"}]

TreeInit ==
    /\ members = {} /\ pids = 0 /\ lateForks = 0 /\ obeys = {}
    /\ admission = "none"
    /\ listed = {} /\ found = FALSE /\ raced = FALSE /\ empties = 0 /\ races = 0
    /\ phase = "none" /\ gone = FALSE
    /\ caller = [c \in TreeCallers |-> "out"]

-----------------------------------------------------------------------------
\* spawn_contained

\* The root is started in a session of its own (held, on Windows, before it runs)
SpawnContained ==
    /\ admission = "none"
    /\ admission' = "held"
    /\ members' = {1} /\ pids' = 1
    /\ obeys' \in SUBSET {1}
    /\ UNCHANGED <<lateForks, scanVars, phase, gone, caller>>

AdmitProcess ==
    /\ admission = "held"
    /\ admission' = "admitted"
    /\ UNCHANGED <<members, pids, lateForks, obeys, scanVars, phase, gone, caller>>

\* _reap_unadmitted_root: the retained root is killed, or the spawn says it was not
AdmissionFails(reaped) ==
    /\ admission = "held"
    /\ admission' = IF reaped THEN "failed" ELSE "unreaped"
    /\ members' = IF reaped THEN {} ELSE members
    /\ UNCHANGED <<pids, lateForks, obeys, scanVars, phase, gone, caller>>

-----------------------------------------------------------------------------
\* The tree

Scanning == phase \in {"first", "term", "kill"}

Fork(p) ==
    /\ admission = "admitted"
    /\ p \in members /\ pids < MaxPids
    /\ IF Scanning THEN lateForks < MaxLateForks /\ lateForks' = lateForks + 1
                   ELSE UNCHANGED lateForks
    /\ pids' = pids + 1
    /\ members' = members \cup {pids + 1}
    /\ obeys' \in {obeys, obeys \cup {pids + 1}}
    /\ raced' = (raced \/ Scanning)
    /\ UNCHANGED <<admission, listed, found, empties, races, phase, gone, caller>>

ProcessExits(p) ==
    /\ admission = "admitted"
    /\ p \in members
    /\ members' = members \ {p}
    /\ UNCHANGED <<pids, lateForks, obeys, admission, scanVars, phase, gone, caller>>

-----------------------------------------------------------------------------
\* terminate: one task for every caller, begun anew once it is done

Rescan == listed' = members' /\ found' = FALSE /\ raced' = FALSE

ScanAnew == Rescan /\ empties' = 0 /\ races' = 0

TerminateTree(c) ==
    /\ admission = "admitted"
    /\ caller[c] = "out"
    /\ caller' = [caller EXCEPT ![c] = "waiting"]
    /\ UNCHANGED <<members, pids, lateForks, obeys, admission>>
    /\ IF phase \in {"none", "done"}
         THEN phase' = "first" /\ gone' = FALSE /\ ScanAnew
         ELSE UNCHANGED <<phase, gone, scanVars>>

\* complete_cleanup: a cancelled caller still waits for the task
CancelCaller(c) ==
    /\ caller[c] = "waiting"
    /\ caller' = [caller EXCEPT ![c] = "cancelled"]
    /\ UNCHANGED <<members, pids, lateForks, obeys, admission, scanVars, phase, gone>>

Answered ==
    [c \in TreeCallers |->
        CASE caller[c] = "waiting" -> "answered"
          [] caller[c] = "cancelled" -> "raised"
          [] OTHER -> caller[c]]

\* process_group_members looks at the next listed pid
Look(p) ==
    /\ Scanning
    /\ p \in listed
    /\ listed' = listed \ {p}
    /\ found' = (found \/ p \in members)
    /\ UNCHANGED <<members, pids, lateForks, obeys, admission, raced, empties, races, phase,
                   gone, caller>>

\* A scan ends: enough empty ones in a row and the group is gone; the first look sends
\* SIGTERM as soon as one is not empty
ScanEnds ==
    /\ Scanning /\ listed = {}
    /\ IF found
         THEN /\ phase' = IF phase = "first" THEN "term" ELSE phase
              /\ members' = IF phase = "first" THEN members \ obeys ELSE members
              /\ ScanAnew /\ UNCHANGED <<gone, caller>>
         ELSE /\ empties' = empties + 1
              /\ races' = IF raced THEN races + 1 ELSE races
              /\ UNCHANGED members
              /\ IF empties' = EmptyScans
                   THEN /\ phase' = "done" /\ gone' = TRUE
                        /\ caller' = Answered
                        /\ UNCHANGED <<listed, found, raced>>
                   ELSE Rescan /\ UNCHANGED <<phase, gone, caller>>
    /\ UNCHANGED <<pids, lateForks, obeys, admission>>

\* term_timeout passes: SIGKILL
TermTimesOut ==
    /\ phase = "term"
    /\ phase' = "kill"
    /\ members' = {}
    /\ ScanAnew
    /\ UNCHANGED <<pids, lateForks, obeys, admission, gone, caller>>

\* kill_timeout passes, or membership stays unknown: the answer is that it is not gone
KillTimesOut ==
    /\ phase = "kill"
    /\ phase' = "done" /\ gone' = FALSE
    /\ caller' = Answered
    /\ UNCHANGED <<members, pids, lateForks, obeys, admission, scanVars>>

TreeNext ==
    \/ SpawnContained \/ AdmitProcess
    \/ \E reaped \in BOOLEAN : AdmissionFails(reaped)
    \/ \E p \in members : Fork(p) \/ ProcessExits(p)
    \/ \E c \in TreeCallers : TerminateTree(c) \/ CancelCaller(c)
    \/ \E p \in listed : Look(p)
    \/ ScanEnds \/ TermTimesOut \/ KillTimesOut

TreeFairness ==
    /\ WF_treeVars(ScanEnds \/ \E p \in listed : Look(p))
    /\ WF_treeVars(TermTimesOut) /\ WF_treeVars(KillTimesOut)

TreeSpec == TreeInit /\ [][TreeNext]_treeVars /\ TreeFairness

-----------------------------------------------------------------------------
\* Properties

\* A termination that answers yes has left nothing alive, though its scans race with
\* members that fork and exit: to miss the group, such a fork has to fall into every
\* one of the empty scans the answer rests on.
GoneIsGone == phase = "done" /\ gone => members = {} \/ races = EmptyScans

\* Whoever was waiting, cancelled or not, returns only when the termination it waited
\* for has ended; and then everybody who waited gets out.
ReturnsAfterTheEnd ==
    \A c \in TreeCallers :
       caller[c] \in {"waiting", "cancelled"} /\ caller'[c] \in {"answered", "raised"}
           => phase' = "done"

\* Every caller gets out in bounded time.
CallersReturn ==
    \A c \in TreeCallers : caller[c] = "waiting" ~> caller[c] \in {"answered", "raised"}

-----------------------------------------------------------------------------
(***************************************************************************)
(* The registry of managed processes: `serve up` launches a role on a port *)
(* of its band behind a reservation marker, the launched process registers *)
(* itself and refreshes its record, `reap` clears the records of dead and  *)
(* stale processes, `resume` restarts one on its recorded port.            *)
(*                                                                         *)
(* Every file operation is a step of its own: launchers, children and the  *)
(* reaper are separate processes that share nothing but the directory.     *)
(* A launcher has one name, so a record is indexed by it.                  *)
(***************************************************************************)

CONSTANTS Launchers,     \* `serve up` invocations, one per record name
          Band,          \* size of the role's port band
          StaleMarkers,  \* ports whose reserver died before it committed
          MaxProcs,      \* child processes ever started
          MaxMishaps     \* children that die or hang, markers left behind

ASSUME RegistryAssumption ==
    /\ IsFiniteSet(Launchers) /\ Launchers # {}
    /\ StaleMarkers \subseteq 1..Band
    /\ Band \in Nat \ {0} /\ MaxProcs \in Nat /\ MaxMishaps \in Nat

VARIABLES proc,        \* the children: state, name, port
          spawnedProcs,
          bound,       \* which child listens on a port
          rec,         \* <role>-<name>.json
          marker,      \* <role>-<port>.reserved
          launcher,    \* serve_up
          reaper,      \* reap / resume, one operator at a time
          mishaps

registryVars == <<proc, spawnedProcs, bound, rec, marker, launcher, reaper,
                  mishaps>>

Ports == 1..Band
Pids == 1..MaxProcs
NoPid == 0
ExpiredMarker == "expired"            \* a marker whose reserver is gone or too old
NoMarker == "none"
NoRecord == [pid |-> NoPid, port |-> 0, fresh |-> FALSE]

PidIsLive(p) == p # NoPid /\ proc[p].at \notin {"none", "dead"}
Mishap == mishaps < MaxMishaps /\ mishaps' = mishaps + 1

RegistryInit ==
    /\ proc = [p \in Pids |-> [at |-> "none", name |-> NoMarker, port |-> 0]]
    /\ spawnedProcs = 0
    /\ bound = [c \in Ports |-> NoPid]
    /\ rec = [l \in Launchers |-> NoRecord]
    /\ marker = [c \in Ports |-> IF c \in StaleMarkers THEN ExpiredMarker ELSE NoMarker]
    /\ launcher = [l \in Launchers |-> [at |-> "idle", claimed |-> {}, port |-> 0,
                                        pid |-> NoPid, held |-> {}]]
    /\ reaper = [at |-> "idle", name |-> NoMarker, pid |-> NoPid]
    /\ mishaps = 0

-----------------------------------------------------------------------------
(* reserve_port *)

(***************************************************************************)
(* The ports recorded by live processes, read once per reservation.        *)
(***************************************************************************)
PortsClaimed == {rec[l].port : l \in {k \in Launchers : PidIsLive(rec[k].pid)}}

(***************************************************************************)
(* _port_is_free: nobody listens.                                          *)
(***************************************************************************)
PortIsFree(c) == bound[c] = NoPid

Next1(l) == [launcher[l] EXCEPT !.at = "candidate", !.port = @ + 1]

ReservePort(l) ==
    /\ launcher[l].at = "idle"
    /\ launcher' = [launcher EXCEPT ![l].at = "candidate", ![l].port = 1,
                                    ![l].claimed = PortsClaimed]
    /\ UNCHANGED <<proc, spawnedProcs, bound, rec, marker, reaper, mishaps>>

(***************************************************************************)
(* _try_reserve_candidate, first half: a claimed or live-reserved port is  *)
(* passed over, a marker nobody holds any more is about to be unlinked.    *)
(***************************************************************************)
ConsiderCandidate(l) ==
    /\ launcher[l].at = "candidate" /\ launcher[l].port <= Band
    /\ LET c == launcher[l].port IN
       launcher' = [launcher EXCEPT ![l] =
           IF c \in launcher[l].claimed \/ marker[c] \in Launchers THEN Next1(l)
           ELSE IF marker[c] = ExpiredMarker THEN [@ EXCEPT !.at = "unlink"]
           ELSE IF PortIsFree(c) THEN [@ EXCEPT !.at = "create"] ELSE Next1(l)]
    /\ UNCHANGED <<proc, spawnedProcs, bound, rec, marker, reaper, mishaps>>

(***************************************************************************)
(* The unlink names the path, not the marker that was judged stale: one    *)
(* created meanwhile by another launcher goes too.                         *)
(***************************************************************************)
UnlinkStaleMarker(l) ==
    /\ launcher[l].at = "unlink"
    /\ LET c == launcher[l].port IN
       /\ marker' = [marker EXCEPT ![c] = NoMarker]
       /\ launcher' = [launcher EXCEPT ![l] =
              IF PortIsFree(c) THEN [@ EXCEPT !.at = "create"] ELSE Next1(l)]
    /\ UNCHANGED <<proc, spawnedProcs, bound, rec, reaper, mishaps>>

(***************************************************************************)
(* The exclusive create decides between launchers that both found no       *)
(* marker.                                                                 *)
(***************************************************************************)
CreatePortMarker(l) ==
    /\ launcher[l].at = "create"
    /\ LET c == launcher[l].port IN
       IF marker[c] = NoMarker
       THEN /\ marker' = [marker EXCEPT ![c] = l]
            /\ launcher' = [launcher EXCEPT ![l].at = "reserved",
                                            ![l].held = @ \cup {c}]
       ELSE launcher' = [launcher EXCEPT ![l] = Next1(l)] /\ UNCHANGED marker
    /\ UNCHANGED <<proc, spawnedProcs, bound, rec, reaper, mishaps>>

-----------------------------------------------------------------------------
(* serve_up *)

Started(name, port) ==
    /\ spawnedProcs < MaxProcs
    /\ spawnedProcs' = spawnedProcs + 1
    /\ proc' = [proc EXCEPT ![spawnedProcs + 1] =
                   [at |-> "booting", name |-> name, port |-> port]]

SpawnServe(l) ==
    /\ launcher[l].at = "reserved"
    /\ Started(l, launcher[l].port)
    /\ launcher' = [launcher EXCEPT ![l].at = "awaiting", ![l].pid = spawnedProcs + 1]
    /\ UNCHANGED <<bound, rec, marker, reaper, mishaps>>

(***************************************************************************)
(* _listener_ready: a listener on the reserved port counts only when it is *)
(* the launched child's own (PortClaim.OURS) and answers its health probe. *)
(***************************************************************************)
ListenerReady(p) == bound[proc[p].port] = p /\ proc[p].at = "serving"

(***************************************************************************)
(* commit_reservation: write_record with the child's pid.                  *)
(***************************************************************************)
CommitRecord(l) ==
    /\ launcher[l].at = "awaiting" /\ ListenerReady(launcher[l].pid)
    /\ rec' = [rec EXCEPT ![l] = [pid |-> launcher[l].pid,
                                  port |-> launcher[l].port, fresh |-> TRUE]]
    /\ launcher' = [launcher EXCEPT ![l].at = "releasing"]
    /\ UNCHANGED <<proc, spawnedProcs, bound, marker, reaper, mishaps>>

(***************************************************************************)
(* release_reservation: unlink by path, once per held marker.              *)
(***************************************************************************)
ReleaseReservations(l) ==
    /\ launcher[l].at \in {"releasing", "failing"}
    /\ marker' = [c \in Ports |-> IF c \in launcher[l].held THEN NoMarker
                                                            ELSE marker[c]]
    /\ launcher' = [launcher EXCEPT ![l].at =
                       IF @ = "releasing" THEN "up" ELSE "failed",
                                    ![l].held = {}]
    /\ UNCHANGED <<proc, spawnedProcs, bound, rec, reaper, mishaps>>

(***************************************************************************)
(* tree_kill                                                               *)
(***************************************************************************)
Felled(p) ==
    /\ proc' = [proc EXCEPT ![p].at = "dead"]
    /\ bound' = [c \in Ports |-> IF bound[c] = p THEN NoPid ELSE bound[c]]

(***************************************************************************)
(* No readiness within the wait, or the child exited: it is felled and the *)
(* next port is tried while the old reservation is kept.                   *)
(***************************************************************************)
NotReady(l) ==
    /\ launcher[l].at = "awaiting" /\ ~ListenerReady(launcher[l].pid)
    /\ Felled(launcher[l].pid)
    /\ IF proc[launcher[l].pid].at = "dead" \/ bound[launcher[l].port] # NoPid
       THEN UNCHANGED mishaps ELSE Mishap
    /\ launcher' = [launcher EXCEPT ![l].at =
                       IF Cardinality(launcher[l].held) < Band
                       THEN "idle" ELSE "failing"]
    /\ UNCHANGED <<spawnedProcs, rec, marker, reaper>>

BandExhausted(l) ==
    /\ launcher[l].at = "candidate" /\ launcher[l].port > Band
    /\ launcher' = [launcher EXCEPT ![l].at = "failing"]
    /\ UNCHANGED <<proc, spawnedProcs, bound, rec, marker, reaper, mishaps>>

-----------------------------------------------------------------------------
(* The launched process *)

(***************************************************************************)
(* register_serve: the record of this name, if there is one, is kept and   *)
(* given this process's pid.                                               *)
(***************************************************************************)
RegisterServe(p) ==
    /\ proc[p].at = "booting"
    /\ LET n == proc[p].name IN
       rec' = [rec EXCEPT ![n] = IF @ = NoRecord
                                 THEN [pid |-> p, port |-> proc[p].port,
                                       fresh |-> TRUE]
                                 ELSE [@ EXCEPT !.pid = p, !.fresh = TRUE]]
    /\ proc' = [proc EXCEPT ![p].at = "registered"]
    /\ UNCHANGED <<spawnedProcs, bound, marker, launcher, reaper, mishaps>>

BindPort(p) ==
    /\ proc[p].at = "registered"
    /\ IF PortIsFree(proc[p].port)
       THEN /\ bound' = [bound EXCEPT ![proc[p].port] = p]
            /\ proc' = [proc EXCEPT ![p].at = "serving"]
       ELSE /\ proc' = [proc EXCEPT ![p].at = "leaving"]
            /\ UNCHANGED bound
    /\ UNCHANGED <<spawnedProcs, rec, marker, launcher, reaper, mishaps>>

(***************************************************************************)
(* refresh_registration: the record on disk, or this process's own when    *)
(* there is none, is written back with a fresh stamp.                      *)
(***************************************************************************)
RefreshRegistration(p) ==
    /\ proc[p].at = "serving"
    /\ LET n == proc[p].name IN
       /\ ~rec[n].fresh
       /\ rec' = [rec EXCEPT ![n] = IF @ = NoRecord
                                    THEN [pid |-> p, port |-> proc[p].port,
                                          fresh |-> TRUE]
                                    ELSE [@ EXCEPT !.fresh = TRUE]]
    /\ UNCHANGED <<proc, spawnedProcs, bound, marker, launcher, reaper, mishaps>>

(***************************************************************************)
(* remove_record_if_owned: every record of a name has the owner of its     *)
(* launcher, so the name's record is removed.                              *)
(***************************************************************************)
RemovedIfOwned(n) == [rec EXCEPT ![n] = NoRecord]

(***************************************************************************)
(* The served child has ended or could not bind: its wrapper deregisters.  *)
(***************************************************************************)
DeregisterServe(p) ==
    /\ proc[p].at = "leaving"
    /\ rec' = RemovedIfOwned(proc[p].name)
    /\ proc' = [proc EXCEPT ![p].at = "dead"]
    /\ UNCHANGED <<spawnedProcs, bound, marker, launcher, reaper, mishaps>>

ChildDies(p) ==
    /\ PidIsLive(p) /\ Mishap
    /\ Felled(p)
    /\ UNCHANGED <<spawnedProcs, rec, marker, launcher, reaper>>

(***************************************************************************)
(* A heartbeat that does not come: the record is older than its role       *)
(* allows.                                                                 *)
(***************************************************************************)
RegistryRecordAges(l) ==
    /\ rec[l] # NoRecord /\ rec[l].fresh
    /\ IF PidIsLive(rec[l].pid) THEN Mishap ELSE UNCHANGED mishaps
    /\ rec' = [rec EXCEPT ![l].fresh = FALSE]
    /\ UNCHANGED <<proc, spawnedProcs, bound, marker, launcher, reaper>>

-----------------------------------------------------------------------------
(* reap and resume *)

(***************************************************************************)
(* classify_record: the state reap and list decide on.                     *)
(***************************************************************************)
Classified(l) == IF ~PidIsLive(rec[l].pid) THEN "dead"
                 ELSE IF rec[l].fresh THEN "live" ELSE "stale"

ReapSees(l) ==
    /\ reaper.at = "idle" /\ rec[l] # NoRecord /\ Classified(l) # "live"
    /\ reaper' = [at |-> "kill", name |-> l, pid |-> rec[l].pid]
    /\ UNCHANGED <<proc, spawnedProcs, bound, rec, marker, launcher, mishaps>>

(***************************************************************************)
(* kill: an operator names a record, whatever its state.                   *)
(***************************************************************************)
KillNamed(l) ==
    /\ reaper.at = "idle" /\ rec[l] # NoRecord /\ Mishap
    /\ reaper' = [at |-> "kill", name |-> l, pid |-> rec[l].pid]
    /\ UNCHANGED <<proc, spawnedProcs, bound, rec, marker, launcher>>

ReapKills ==
    /\ reaper.at = "kill"
    /\ Felled(reaper.pid)
    /\ reaper' = [reaper EXCEPT !.at = "remove"]
    /\ UNCHANGED <<spawnedProcs, rec, marker, launcher, mishaps>>

(***************************************************************************)
(* remove_record deletes by path: whatever the name's record now says.     *)
(***************************************************************************)
ReapRemoves ==
    /\ reaper.at = "remove"
    /\ rec' = [rec EXCEPT ![reaper.name] = NoRecord]
    /\ reaper' = [reaper EXCEPT !.at = "idle", !.name = NoMarker, !.pid = NoPid]
    /\ UNCHANGED <<proc, spawnedProcs, bound, marker, launcher, mishaps>>

(***************************************************************************)
(* resume: a dead record's role is started again on its recorded port.     *)
(***************************************************************************)
ResumeSpawns(l) ==
    /\ reaper.at = "idle" /\ rec[l] # NoRecord /\ ~PidIsLive(rec[l].pid)
    /\ Started(l, rec[l].port)
    /\ reaper' = [at |-> "resume", name |-> l, pid |-> spawnedProcs + 1]
    /\ UNCHANGED <<bound, rec, marker, launcher, mishaps>>

ResumeReady ==
    /\ reaper.at = "resume" /\ ListenerReady(reaper.pid)
    /\ rec' = [rec EXCEPT ![reaper.name] = [pid |-> reaper.pid,
                     port |-> proc[reaper.pid].port, fresh |-> TRUE]]
    /\ reaper' = [reaper EXCEPT !.at = "idle", !.name = NoMarker, !.pid = NoPid]
    /\ UNCHANGED <<proc, spawnedProcs, bound, marker, launcher, mishaps>>

ResumeFails ==
    /\ reaper.at = "resume" /\ ~ListenerReady(reaper.pid)
    /\ Felled(reaper.pid)
    /\ reaper' = [reaper EXCEPT !.at = "idle", !.name = NoMarker, !.pid = NoPid]
    /\ UNCHANGED <<spawnedProcs, rec, marker, launcher, mishaps>>

-----------------------------------------------------------------------------
LauncherStep(l) ==
    \/ ReservePort(l) \/ ConsiderCandidate(l) \/ UnlinkStaleMarker(l)
    \/ CreatePortMarker(l) \/ SpawnServe(l) \/ CommitRecord(l) \/ NotReady(l)
    \/ ReleaseReservations(l) \/ BandExhausted(l)

ChildStep(p) == RegisterServe(p) \/ BindPort(p) \/ DeregisterServe(p)

ReaperStep == ReapKills \/ ReapRemoves \/ ResumeReady \/ ResumeFails

RegistryNext ==
    \/ \E l \in Launchers : \/ LauncherStep(l) \/ RegistryRecordAges(l)
                            \/ ReapSees(l) \/ KillNamed(l)
                            \/ ResumeSpawns(l)
    \/ \E p \in Pids : ChildStep(p) \/ RefreshRegistration(p) \/ ChildDies(p)
    \/ ReaperStep

(***************************************************************************)
(* Processes run: a launcher, a child and an operator's command in         *)
(* progress take their next step, and a heartbeat keeps beating.           *)
(***************************************************************************)
RegistryFairness ==
    /\ \A l \in Launchers : WF_registryVars(LauncherStep(l))
    /\ \A p \in Pids : WF_registryVars(ChildStep(p))
                       /\ WF_registryVars(RefreshRegistration(p))
    /\ WF_registryVars(ReaperStep)

RegistrySpec == RegistryInit /\ [][RegistryNext]_registryVars /\ RegistryFairness

-----------------------------------------------------------------------------
RegistryTypeOK ==
    /\ proc \in [Pids -> [at : {"none", "booting", "registered", "serving",
                                "leaving", "dead"},
                          name : Launchers \cup {NoMarker}, port : 0..Band]]
    /\ spawnedProcs \in 0..MaxProcs
    /\ bound \in [Ports -> 0..MaxProcs]
    /\ rec \in [Launchers -> [pid : 0..MaxProcs, port : 0..Band, fresh : BOOLEAN]]
    /\ marker \in [Ports -> Launchers \cup {NoMarker, ExpiredMarker}]
    /\ mishaps \in 0..MaxMishaps

(***************************************************************************)
(* Two launches that both came up never share a port while their children  *)
(* live.  The reservation alone does not give this: two launchers that     *)
(* judged the same marker stale can both end up holding the port, and only *)
(* the check that the listener is one's own child keeps the second out.    *)
(***************************************************************************)
OnePortOneLaunch ==
    \A k, l \in Launchers :
        /\ launcher[k].at = "up" /\ launcher[l].at = "up"
        /\ PidIsLive(launcher[k].pid) /\ PidIsLive(launcher[l].pid)
        /\ launcher[k].port = launcher[l].port
        => k = l

(***************************************************************************)
(* A launch that failed leaves no process and no reservation behind,       *)
(* however many ports it tried and whoever took them.                      *)
(***************************************************************************)
FailedLaunchLeavesNothing ==
    \A l \in Launchers : launcher[l].at = "failed" =>
        /\ ~PidIsLive(launcher[l].pid)
        /\ \A c \in Ports : marker[c] # l

(***************************************************************************)
(* A child that goes on serving is recorded in the end for good, even when *)
(* a reap that looked at its predecessor removed its record by name.       *)
(***************************************************************************)
ServingIsRecorded ==
    \A p \in Pids, l \in Launchers :
        <>[](proc[p].at = "serving" /\ proc[p].name = l) => <>[](rec[l] # NoRecord)

(***************************************************************************)
(* Every launch ends, up or failed, as long as there are processes left to *)
(* start.                                                                  *)
(***************************************************************************)
LaunchesEnd ==
    \A l \in Launchers : <>(\/ launcher[l].at \in {"up", "failed"}
                            \/ launcher[l].at = "reserved" /\ spawnedProcs = MaxProcs)

=============================================================================
