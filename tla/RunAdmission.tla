---------------------------- MODULE RunAdmission ----------------------------
(***************************************************************************)
(* How a gateway process admits runs: the expiring reservations of         *)
(* control/admission.py, the drain gate of control/drain.py, and the       *)
(* handlers of POST /v1/runs that use both (api/routes/                    *)
(* _gateway_run_start.py), for any number of concurrent posts.             *)
(*                                                                         *)
(* Every broker and gate method runs its critical section without an       *)
(* await, so each is one step; so is each write transaction of the store.  *)
(* A handler may lose the processor between any two of its steps.          *)
(***************************************************************************)
EXTENDS Integers, FiniteSets

CONSTANTS
    Requests,        \* the handlers of POST /v1/runs, one per post
    Verbs,           \* the stages the clients post
    Bodies,          \* the request bodies: records with run, nickname and prompt
    NoBody,          \* the body of a handler that was not called yet
    MaxReservations, \* AdmissionBroker._max
    TTL,             \* AdmissionBroker._ttl
    Issues,          \* bound: reservations minted in one behaviour
    MaxTime,         \* bound: how far the clock runs
    Restarts         \* bound: how often the process starts again

\* What may befall a run.  overlap: a client posted a start of it before an
\* earlier post of it had ended.  raise: the store or the task failed after its
\* row was durable.  unseen: it was settled from its checkpoint, by no terminal
\* event or cancel.
Mishaps == {"overlap", "raise", "unseen"}

AllVerbs == {"start", "prepare", "commit", "release"}

ASSUME AdmissionAssumption ==
    /\ NoBody \notin Bodies
    /\ 0 \notin Requests
    /\ MaxReservations \in Nat \ {0}
    /\ {TTL, Issues, MaxTime, Restarts} \subseteq Nat
    /\ Verbs \subseteq AllVerbs

VARIABLES
    run,           \* the store's run rows
    reservations,  \* AdmissionBroker._reservations
    issued,        \* how many reservation ids were minted
    stripe,        \* who holds the commit stripe of a run
    active,        \* DrainGate._active
    drain,         \* DrainGate._closed and what the shutdown's wait answered
    releasing,     \* runs settled by a handler that will now release them
    request,       \* the handlers
    now,           \* loop.time()
    restarts,      \* how often the process started again
    mine,          \* the runs this process made durable
    befell         \* history: the mishaps of each run

broker == <<reservations, issued>>
gate == <<active, drain, releasing>>
clock == <<now, restarts>>
vars == <<run, broker, stripe, gate, request, clock, mine, befell>>

Runs == {b.run : b \in Bodies}
Ids == 1..Issues
NoRequest == 0

NoRun == [status |-> "none", body |-> NoBody, lease |-> 0]
RunRow == [status : {"live", "ended"}, body : Bodies, lease : 0..Issues] \cup {NoRun}

\* A reservation that is not in the dict: not minted, or consumed, released, expired.
Gone == [state |-> "gone", body |-> NoBody, expires |-> 0]
Reservation == [state : {"active", "committing"}, body : Bodies, expires : Nat] \cup {Gone}

Uncalled == [pc |-> "new", verb |-> "start", body |-> NoBody, id |-> 0]
PCs ==
    {"new", "read", "probe", "stripe", "selection", "ready", "bind", "again",
     "admit", "create", "dispatch", "release", "undo", "taken", "complete",
     "classify", "lookup", "free", "answered", "committed", "refused", "nickname"}
Handler == [pc : PCs, verb : AllVerbs, body : Bodies \cup {NoBody}, id : 0..Issues]

\* Nothing more happens in the handler.
Over == {"answered", "committed", "refused", "nickname"}

\* The handler was admitted by the gate and its run has no owner of its own yet.
Admitted == {"create", "dispatch", "release", "undo", "taken"}

TypeOK ==
    /\ run \in [Runs -> RunRow]
    /\ reservations \in [Ids -> Reservation]
    /\ issued \in 0..Issues
    /\ stripe \in [Runs -> Requests \cup {NoRequest}]
    /\ active \subseteq Runs
    /\ drain \in {"serving", "draining", "quiescent", "timeout"}
    /\ releasing \subseteq Runs
    /\ request \in [Requests -> Handler]
    /\ now \in 0..MaxTime
    /\ restarts \in 0..Restarts
    /\ mine \subseteq Runs
    /\ befell \in [Runs -> SUBSET Mishaps]

Init ==
    /\ run = [r \in Runs |-> NoRun]
    /\ reservations = [i \in Ids |-> Gone]
    /\ issued = 0
    /\ stripe = [r \in Runs |-> NoRequest]
    /\ active = {}
    /\ drain = "serving"
    /\ releasing = {}
    /\ request = [p \in Requests |-> Uncalled]
    /\ now = 0
    /\ restarts = 0
    /\ mine = {}
    /\ befell = [r \in Runs |-> {}]

-----------------------------------------------------------------------------
(* The request digests (api/run_admission.py).                             *)

\* request_digest, prepared: what a prepare and its commit share.
PreparedDigest(b) == [run |-> b.run, nickname |-> b.nickname]

\* replay_digest and the commit's request_digest: the whole intention.
RequestDigest(b) == b

-----------------------------------------------------------------------------
(* AdmissionBroker.                                                        *)

Live(i) == reservations[i].state # "gone"

\* _sweep_expired
Swept == [i \in Ids |-> IF reservations[i].expires <= now THEN Gone ELSE reservations[i]]

Occupied(rs) == {i \in Ids : rs[i].state # "gone"}

\* complete_commit: the reservation is consumed, active or committing.
Consumed(i) == [reservations EXCEPT ![i] = Gone]

\* Mutant of Restored: the reservation is put back although it was swept.
RestoredBlind(i) == [reservations EXCEPT ![i].state = "active"]

\* abort_commit: a committing reservation is open again unless it expired.
Restored(i) ==
    IF reservations[i].state # "committing" THEN reservations
    ELSE IF reservations[i].expires <= now THEN Consumed(i)
    ELSE [reservations EXCEPT ![i].state = "active"]

\* Mutant of Freed: anyone who names a reservation frees it.
FreedByAnyone(i, b) ==
    IF reservations[i].state = "active" THEN Consumed(i) ELSE reservations

\* release and release_failed_commit: an active reservation of that request is freed.
Freed(i, b) ==
    IF reservations[i].state = "active"
       /\ PreparedDigest(reservations[i].body) = PreparedDigest(b)
    THEN Consumed(i)
    ELSE reservations

-----------------------------------------------------------------------------
(* POST /v1/runs: what every stage shares.                                 *)

Goes(p, pc) == request' = [request EXCEPT ![p].pc = pc]
RunOf(p) == request[p].body.run
Exists(r) == run[r].status # "none"
Befalls(r, mishap) == befell' = [befell EXCEPT ![r] = @ \cup {mishap}]

\* A handler that fails inside the guarded part of a commit classifies what it
\* left behind; any other one only answers.
Failed(p) == IF request[p].verb = "commit" THEN "classify" ELSE "refused"
Succeeded(p) == IF request[p].verb = "commit" THEN "complete" ELSE "answered"

\* _replay_identity_or_conflict: the durable run answers the request it was
\* made from and refuses any other.
Replayed(p) ==
    IF RequestDigest(run[RunOf(p)].body) = RequestDigest(request[p].body)
    THEN Succeeded(p) ELSE Failed(p)

\* The run is not being started by a handler other than p.
Alone(p, verb, r) ==
    \A q \in Requests \ {p} :
        ~ /\ request[q].pc \notin Over \cup {"new"}
          /\ RunOf(q) = r
          /\ "start" \in {verb, request[q].verb}
          /\ {verb, request[q].verb} \subseteq {"start", "commit"}

\* run_start_endpoint: a client posts one stage; a commit or a release names a
\* reservation it was given.
Post(p) ==
    /\ request[p].pc = "new"
    /\ \E verb \in Verbs, b \in Bodies, id \in 0..issued :
          /\ id = 0 <=> verb \in {"start", "prepare"}
          /\ IF Alone(p, verb, b.run) THEN befell' = befell ELSE Befalls(b.run, "overlap")
          /\ request' = [request EXCEPT ![p] =
                [pc |-> CASE verb = "start" -> "read"
                          [] verb = "prepare" -> "probe"
                          [] OTHER -> "stripe",
                 verb |-> verb, body |-> b, id |-> id]]
    /\ UNCHANGED <<run, broker, stripe, gate, clock, mine>>

\* _run_direct_start, _existing_run_replay
Read(p) ==
    /\ request[p].pc = "read"
    /\ Goes(p, IF Exists(RunOf(p)) THEN Replayed(p) ELSE "admit")
    /\ UNCHANGED <<run, broker, stripe, gate, clock, mine, befell>>

\* _prepare_run_admission of a start and the predecessor check of
\* _create_run_core refuse before the gate is asked.
RefuseEarly(p) ==
    /\ request[p].pc = "admit"
    /\ Goes(p, Failed(p))
    /\ UNCHANGED <<run, broker, stripe, gate, clock, mine, befell>>

\* DrainGate.admit
Admit(p) ==
    /\ request[p].pc = "admit"
    /\ IF drain = "serving"
       THEN active' = active \cup {RunOf(p)} /\ Goes(p, "create")
       ELSE active' = active /\ Goes(p, Failed(p))
    /\ UNCHANGED <<run, broker, stripe, drain, releasing, clock, mine, befell>>

\* create_thread looks the nickname up before it inserts, also when the row
\* that has it is this very run's.
NicknameTaken(b) == \E r \in Runs : Exists(r) /\ run[r].body.nickname = b.nickname

\* create_and_dispatch_thread up to its first commit
Insert(p) ==
    LET b == request[p].body IN
    /\ request[p].pc = "create"
    /\ ~NicknameTaken(b)
    /\ ~Exists(b.run)
    /\ run' = [run EXCEPT ![b.run] =
          [status |-> "live", body |-> b, lease |-> request[p].id]]
    /\ mine' = mine \cup {b.run}
    /\ Goes(p, "dispatch")
    /\ UNCHANGED <<broker, stripe, gate, clock, befell>>

\* NicknameConflictError leaves _create_run_core through its finally.
RefuseNickname(p) ==
    /\ request[p].pc = "create"
    /\ NicknameTaken(request[p].body)
    /\ Goes(p, "taken")
    /\ UNCHANGED <<run, broker, stripe, gate, clock, mine, befell>>

\* An insert that met the run's primary key, or was contended and then found
\* the run, resolves to the durable winner (_RunWinner).
JoinWinner(p) ==
    /\ request[p].pc = "create"
    /\ Exists(RunOf(p))
    /\ Goes(p, Replayed(p))
    /\ UNCHANGED <<run, broker, stripe, gate, clock, mine, befell>>

\* WriteContentionError, or another error of the store, before the run is durable.
FailCreate(p) ==
    /\ request[p].pc = "create"
    /\ Goes(p, "undo")
    /\ UNCHANGED <<run, broker, stripe, gate, clock, mine, befell>>

\* Mutant of Dispatch: every failed delivery gives the admission back.
DispatchReleasesFailure(p) ==
    /\ request[p].pc = "dispatch"
    /\ \E pc \in {Succeeded(p), "release"} : Goes(p, pc)
    /\ UNCHANGED <<run, broker, stripe, gate, clock, mine, befell>>

\* dispatch_leased and the result create_and_dispatch_thread builds of it: the
\* run was delivered, or its delivery failed and recovery will try again, or it
\* failed and another writer has settled the run FAILED by now.
Dispatch(p) ==
    /\ request[p].pc = "dispatch"
    /\ \/ \E pc \in {Succeeded(p), Failed(p)} : Goes(p, pc)
       \/ run[RunOf(p)].status = "ended" /\ Goes(p, "release")
    /\ UNCHANGED <<run, broker, stripe, gate, clock, mine, befell>>

\* create_and_dispatch_thread raises after its row was committed: persisted is
\* still false, so the finally takes the run for one that was never made.
RaiseAfterInsert(p) ==
    /\ request[p].pc = "dispatch"
    /\ Goes(p, "undo")
    /\ Befalls(RunOf(p), "raise")
    /\ UNCHANGED <<run, broker, stripe, gate, clock, mine>>

\* DrainGate.release from the start path: after a dispatch that failed the run,
\* and in the finally of one that made no run.
ReleaseStart(p) ==
    /\ request[p].pc \in {"release", "undo", "taken"}
    /\ active' = active \ {RunOf(p)}
    /\ Goes(p, IF request[p].pc = "taken" /\ request[p].verb = "start"
               THEN "nickname" ELSE Failed(p))
    /\ UNCHANGED <<run, broker, stripe, drain, releasing, clock, mine, befell>>

-----------------------------------------------------------------------------
(* The prepare, commit and release stages.                                 *)

\* AdmissionBroker.prepare, once the worker was started and probed; a worker
\* that is not ready refuses without touching the broker.
Prepare(p) ==
    /\ request[p].pc = "probe"
    /\ \/ Goes(p, "refused") /\ UNCHANGED broker
       \/ /\ Cardinality(Occupied(Swept)) >= MaxReservations
          /\ reservations' = Swept
          /\ issued' = issued
          /\ Goes(p, "refused")
       \/ /\ Cardinality(Occupied(Swept)) < MaxReservations
          /\ issued < Issues
          /\ issued' = issued + 1
          /\ reservations' = [Swept EXCEPT ![issued + 1] =
                [state |-> "active", body |-> request[p].body, expires |-> now + TTL]]
          /\ Goes(p, "answered")
    /\ UNCHANGED <<run, stripe, gate, clock, mine, befell>>

\* _CommitSingleFlight.hold, modelled in full by CommitSingleFlight
TakeStripe(p) ==
    /\ request[p].pc = "stripe"
    /\ stripe[RunOf(p)] = NoRequest
    /\ stripe' = [stripe EXCEPT ![RunOf(p)] = p]
    /\ Goes(p, IF request[p].verb = "commit" THEN "lookup" ELSE "free")
    /\ UNCHANGED <<run, broker, gate, clock, mine, befell>>

\* The handler answers and leaves the stripe.
Leaves(p, pc) ==
    /\ Goes(p, pc)
    /\ stripe' = [stripe EXCEPT ![RunOf(p)] = NoRequest]

\* The run is durable under this very commit (stored_run_lease_binding).
BoundTo(p) ==
    /\ run[RunOf(p)].lease = request[p].id
    /\ RequestDigest(run[RunOf(p)].body) = RequestDigest(request[p].body)

\* _run_commit_locked's first read and _commit_replay
Lookup(p) ==
    /\ request[p].pc = "lookup"
    /\ IF ~Exists(RunOf(p))
       THEN Goes(p, "selection") /\ UNCHANGED <<reservations, stripe>>
       ELSE IF BoundTo(p)
       THEN reservations' = Consumed(request[p].id) /\ Leaves(p, "committed")
       ELSE reservations' = reservations /\ Leaves(p, "refused")
    /\ UNCHANGED <<run, issued, gate, clock, mine, befell>>

\* _prepare_run_admission of a commit: refused before the reservation is read,
\* or by admitted_selection, or by what the reservation froze.
Selection(p) ==
    /\ request[p].pc = "selection"
    /\ \/ reservations' = reservations /\ Leaves(p, "refused")
       \/ reservations' = Swept /\ Leaves(p, "refused")
       \/ /\ reservations' = Swept
          /\ Swept[request[p].id].state # "gone"
          /\ Goes(p, "ready")
          /\ stripe' = stripe
    /\ UNCHANGED <<run, issued, gate, clock, mine, befell>>

\* _require_commit_execution_ready
Ready(p) ==
    /\ request[p].pc = "ready"
    /\ \/ Goes(p, "bind") /\ UNCHANGED <<reservations, stripe>>
       \/ reservations' = Freed(request[p].id, request[p].body) /\ Leaves(p, "refused")
    /\ UNCHANGED <<run, issued, gate, clock, mine, befell>>

\* AdmissionBroker.commit; the presented roles may also miss the prepared ones
Bind(p) ==
    LET held == Swept[request[p].id] IN
    /\ request[p].pc = "bind"
    /\ \/ reservations' = Swept /\ Leaves(p, "refused")
       \/ /\ held.state # "gone"
          /\ PreparedDigest(held.body) = PreparedDigest(request[p].body)
          /\ reservations' = [Swept EXCEPT ![request[p].id].state = "committing"]
          /\ Goes(p, "again")
          /\ stripe' = stripe
    /\ UNCHANGED <<run, issued, gate, clock, mine, befell>>

\* _run_commit_locked asks for the run again before it creates it.
ReadAgain(p) ==
    /\ request[p].pc = "again"
    /\ Goes(p, IF Exists(RunOf(p)) THEN Replayed(p) ELSE "admit")
    /\ UNCHANGED <<run, broker, stripe, gate, clock, mine, befell>>

\* complete_commit and the commit's answer, which carries the lease
Complete(p) ==
    /\ request[p].pc = "complete"
    /\ reservations' = Consumed(request[p].id)
    /\ Leaves(p, "committed")
    /\ UNCHANGED <<run, issued, gate, clock, mine, befell>>

\* _classify_failed_commit: the read may fail too
Classify(p) ==
    /\ request[p].pc = "classify"
    /\ \/ reservations' = reservations
       \/ reservations' = IF ~Exists(RunOf(p)) THEN Restored(request[p].id)
                          ELSE IF BoundTo(p) THEN Consumed(request[p].id)
                          ELSE reservations
    /\ Leaves(p, "refused")
    /\ UNCHANGED <<run, issued, gate, clock, mine, befell>>

\* _run_release
Free(p) ==
    /\ request[p].pc = "free"
    /\ reservations' = Freed(request[p].id, request[p].body)
    /\ Leaves(p, "answered")
    /\ UNCHANGED <<run, issued, gate, clock, mine, befell>>

-----------------------------------------------------------------------------
(* The rest of the process.                                                *)

\* _handle_terminal_event settles the run; cancel_thread may do so as well. A
\* completion relayed again, or a cancel of a run that is over, releases it once
\* more.
Settle(r) ==
    /\ Exists(r)
    /\ run' = [run EXCEPT ![r].status = "ended"]
    /\ releasing' = releasing \cup {r}
    /\ UNCHANGED <<broker, stripe, active, drain, request, clock, mine, befell>>

\* Mutant of ReleaseSettled: a closed gate takes nothing back.
ReleaseWhileOpen(r) ==
    /\ r \in releasing
    /\ active' = IF drain = "serving" THEN active \ {r} ELSE active
    /\ releasing' = IF drain = "serving" THEN releasing \ {r} ELSE releasing
    /\ UNCHANGED <<run, broker, stripe, drain, request, clock, mine, befell>>

\* The settling handler reaches its DrainGate.release.
ReleaseSettled(r) ==
    /\ r \in releasing
    /\ active' = active \ {r}
    /\ releasing' = releasing \ {r}
    /\ UNCHANGED <<run, broker, stripe, drain, request, clock, mine, befell>>

\* A checkpoint pass settles the run and knows of no gate.
SettleUnseen(r) ==
    /\ run[r].status = "live"
    /\ run' = [run EXCEPT ![r].status = "ended"]
    /\ Befalls(r, "unseen")
    /\ UNCHANGED <<broker, stripe, gate, request, clock, mine>>

\* DrainGate.close_admission, by the administrative stop or the lifespan's end
CloseAdmission ==
    /\ drain = "serving"
    /\ drain' = "draining"
    /\ UNCHANGED <<run, broker, stripe, active, releasing, request, clock, mine, befell>>

\* DrainGate.wait_quiescent: woken by the empty set, or timed out
WaitQuiescent ==
    /\ drain = "draining"
    /\ drain' \in {"timeout"} \cup (IF active = {} THEN {"quiescent"} ELSE {})
    /\ UNCHANGED <<run, broker, stripe, active, releasing, request, clock, mine, befell>>

Tick ==
    /\ now < MaxTime
    /\ now' = now + 1
    /\ UNCHANGED <<run, broker, stripe, gate, request, restarts, mine, befell>>

\* The process ends, drained or not, and a new one starts on the same store.
Restart ==
    /\ restarts < Restarts
    /\ restarts' = restarts + 1
    /\ reservations' = [i \in Ids |-> Gone]
    /\ stripe' = [r \in Runs |-> NoRequest]
    /\ active' = {}
    /\ drain' = "serving"
    /\ releasing' = {}
    /\ request' = [p \in Requests |->
          IF request[p].pc \in Over \cup {"new"} THEN request[p]
          ELSE [request[p] EXCEPT !.pc = "refused"]]
    /\ mine' = {}
    /\ UNCHANGED <<run, issued, now, befell>>

\* The steps a handler takes by itself once it was called.
Handle(p) ==
    \/ Read(p) \/ RefuseEarly(p) \/ Admit(p)
    \/ Insert(p) \/ RefuseNickname(p) \/ JoinWinner(p) \/ FailCreate(p)
    \/ Dispatch(p) \/ RaiseAfterInsert(p) \/ ReleaseStart(p)
    \/ Prepare(p) \/ TakeStripe(p) \/ Lookup(p) \/ Selection(p) \/ Ready(p)
    \/ Bind(p) \/ ReadAgain(p) \/ Complete(p) \/ Classify(p) \/ Free(p)

Next ==
    \/ \E p \in Requests : Post(p) \/ Handle(p)
    \/ \E r \in Runs : Settle(r) \/ ReleaseSettled(r) \/ SettleUnseen(r)
    \/ CloseAdmission \/ WaitQuiescent \/ Tick \/ Restart

Spec == Init /\ [][Next]_vars

\* Every handler runs on; a run the worker holds reaches its end, by the
\* worker's terminal event or the cancel of it, and the handler that settled
\* it reaches its release.
Fairness ==
    /\ \A p \in Requests : WF_vars(Handle(p))
    /\ \A r \in Runs : /\ WF_vars(run[r].status = "live" /\ Settle(r))
                       /\ WF_vars(ReleaseSettled(r))

FairSpec == Spec /\ Fairness

-----------------------------------------------------------------------------
(* Properties.                                                             *)

\* The reservations never exceed the configured capacity, whatever expires
\* while prepares race (AdmissionBroker.prepare).
CapacityNeverOversold == Cardinality(Occupied(reservations)) <= MaxReservations

\* A reservation serves one run: no two durable runs carry its lease, and it is
\* open for a commit only while none does, although a failed commit reopens it
\* and any client may name it (AdmissionBroker.commit, _classify_failed_commit).
OneRunPerLease ==
    \A i \in Ids :
        Cardinality({r \in Runs : run[r].lease = i})
            <= IF reservations[i].state = "active" THEN 0 ELSE 1

\* What the broker promises: no capacity is sold twice, neither to two
\* reservations nor to two runs of one (AdmissionBroker).
BrokerIsSound == TypeOK /\ CapacityNeverOversold /\ OneRunPerLease

\* A reservation ends by expiry, with the process, or by a request with the
\* prepared digest: another run's commit or release cannot take it.
EndsByItsOwn ==
    \A i \in Ids :
        Live(i) /\ reservations'[i].state = "gone" =>
            \/ reservations[i].expires <= now
            \/ restarts' # restarts
            \/ \E p \in Requests :
                  /\ request[p].id = i
                  /\ request'[p] # request[p]
                  /\ PreparedDigest(request[p].body) = PreparedDigest(reservations[i].body)

\* Every step ends reservations that way (AdmissionBroker).
ReservationEndsByItsOwn == [][EndsByItsOwn]_vars

\* A commit that answers with its lease has made a run durable under that
\* lease (_run_commit).  A plain start that overlaps may make the run first.
CommittedLeaseIsDurable ==
    \A p \in Requests :
        request[p].pc = "committed" =>
            run[RunOf(p)].lease = request[p].id \/ "overlap" \in befell[RunOf(p)]

\* The gate counts every run of this process that still works, so a drain
\* cannot answer quiescent over one (_create_run_core, DrainGate).  It loses one
\* to a start that overlaps or to its own start's failure after the insert.
GateCoversLiveRuns ==
    \A r \in mine :
        run[r].status = "live" => r \in active \/ befell[r] \cap {"overlap", "raise"} # {}

\* The gate counts no run that nobody will release: its start is not over, it
\* is live, or the handler that settled it is about to (_create_run_core).  A
\* settlement from the checkpoint and a start that comes late leave one behind.
NoPhantomAdmission ==
    \A r \in active :
        \/ r \in releasing
        \/ run[r].status = "live"
        \/ \E p \in Requests : request[p].pc \in Admitted /\ RunOf(p) = r
        \/ befell[r] \cap {"overlap", "unseen"} # {}

\* Run r does not work, unless its start failed after the insert, and no start
\* can make it any more.
AtRest(r) ==
    /\ r \in mine /\ run[r].status = "live" => "raise" \in befell[r]
    /\ \A p \in Requests : request[p].pc = "create" => RunOf(p) # r

\* Once a drain answered quiescent every run of this process is at rest
\* (DrainGate.drain).
QuiescentIsFinal == drain = "quiescent" => \A r \in Runs : AtRest(r)

\* Once a drain answered quiescent every run is at rest of which no two starts
\* overlapped: a start that the gate admitted before it closed keeps it from
\* being quiescent until its run has ended (DrainGate.drain).
QuiescentUnlessOverlapped ==
    drain = "quiescent" => \A r \in Runs : AtRest(r) \/ "overlap" \in befell[r]

\* What the gate and the commits behind it promise a drain and a client, run by
\* run and up to that run's own mishaps: a committed lease is a durable run, and
\* the gate counts the runs that work, no others, until it answers quiescent
\* (DrainGate, _run_commit).
GateIsSound ==
    /\ CommittedLeaseIsDurable /\ GateCoversLiveRuns
    /\ NoPhantomAdmission /\ QuiescentUnlessOverlapped

\* Every post is answered: no handler waits for a stripe that is never left.
EveryPostEnds ==
    \A p \in Requests : request[p].pc # "new" ~> request[p].pc \in Over

\* A closed gate empties: each admitted run is released by whichever handler
\* ends it (DrainGate.drain), but for a run that was settled from its checkpoint
\* or started twice at once.
DrainEmpties ==
    drain = "draining" ~> \A r \in active : befell[r] \cap {"overlap", "unseen"} # {}

\* Neither a post nor a drain waits for ever (_run_commit, DrainGate.drain).
PostsAndDrainEnd == EveryPostEnds /\ DrainEmpties

=============================================================================
