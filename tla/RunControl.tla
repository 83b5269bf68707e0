----------------------------- MODULE RunControl -----------------------------
(***************************************************************************)
(* The control plane of one run: the gateway's write transactions on the    *)
(* run's row and its action journal, the dispatchers that lease and deliver *)
(* accepted actions, the passes that read the checkpoint outside any        *)
(* transaction, and the worker that runs the graph.                         *)
(*                                                                          *)
(* A write transaction holds SQLite's one writer lock from its first        *)
(* statement, so each is one step.  What interleaves is everything between  *)
(* transactions: the POST to the worker, the reply, a checkpoint read, a    *)
(* relayed event, a lease or deadline running out, a crash of either        *)
(* process.                                                                 *)
(***************************************************************************)
EXTENDS Integers, Sequences, FiniteSets, RunLifecycle

CONSTANTS
    Ingest,        \* the action that created the run
    Followups,     \* the follow-up turns clients may send
    Cancel,        \* the run's one cancellation (default_cancel_key)
    Asks,          \* Asks[i] answers the i-th ask of the permission request
    Dispatchers,   \* calls that may be delivering at once; also claim tokens
    Passes,        \* checkpoint passes that may be open at once
    NoOne,         \* no dispatcher, no action
    LeaseTTL,      \* CONTROL_ACTION_LEASE_TTL
    RunTimeout,    \* run_timeout_seconds of the accepted graph definition
    Lifetime,      \* max_run_lifetime_seconds; the run is created at time 0
    QueueDepth,    \* per_run_depth of the continuation queue
    Requests,      \* which of "read", "cancel", "archive", "delete" clients send
    Backlog,       \* bound on the worker events waiting to be relayed
    Revisions,     \* bound on the row's revision for accepting an answer
    Horizon,       \* bound on the clock
    Crashes        \* bound on worker crashes and gateway restarts together

Answers == {Asks[i] : i \in 1..Len(Asks)}
\* The actions that put their input into the graph: ingest and resume verbs.
GraphActions == {Ingest} \cup Followups \cup Answers
Actions == GraphActions \cup {Cancel}

ASSUME ActionAssumption ==
    /\ Ingest \notin Followups \cup Answers \cup {Cancel, NoOne}
    /\ Cancel \notin Followups \cup Answers \cup {NoOne}
    /\ Followups \cap Answers = {}
    /\ NoOne \notin Followups \cup Answers \cup Dispatchers
    /\ Dispatchers \cap Followups = {}
    /\ IsFiniteSet(Followups)

ASSUME AskAssumption ==
    /\ Len(Asks) \in Nat
    /\ \A i, j \in 1..Len(Asks) : Asks[i] = Asks[j] => i = j

ASSUME TimeAssumption ==
    /\ LeaseTTL \in Nat \ {0}
    /\ RunTimeout \in Nat \ {0}
    /\ Lifetime \in Nat
    /\ RunTimeout <= Lifetime
    /\ QueueDepth \in Nat
    /\ Backlog \in Nat
    /\ Revisions \in Nat
    /\ Horizon \in Nat
    /\ Crashes \in Nat

VARIABLES
    thread,      \* the run row: [status, revision, generation, writer]
    journal,     \* the control-action row of every action
    now,         \* the clock
    call,        \* what each dispatcher is doing with the action it claimed
    pass,        \* what each checkpoint pass has read so far
    sweep,       \* the boot's one redispatch sweep: its stage and witness
    checkpoint,  \* the run's latest checkpoint (external store)
    worker,      \* the worker process, as far as this run goes
    events,      \* worker events the gateway has not relayed yet
    crashed,     \* crashes and restarts so far
    inputs,      \* history: how often each action's input entered the graph
    line         \* history: the follow-ups in the order they were admitted

store == <<thread, journal>>
gateway == <<call, pass, sweep>>
outside == <<checkpoint, worker, events>>
history == <<inputs, line>>
vars == <<store, now, gateway, outside, crashed, history>>

-----------------------------------------------------------------------------
(* The journal row of an action.                                            *)

Settled == {"applied", "rejected", "ceased", "no_active_work"}
Result == {"absent", "accepted", "queued"} \cup Settled

\* result: result_status; a settled row has applied_at set.  receipt: the
\* writer generation its graph_receipt_json names, 0 when it has none.
Row == [result: Result, holder: Dispatchers \cup Followups \cup {NoOne}, expires: Nat,
        deadline: Nat, position: Nat, receipt: Nat]

Absent ==
    [result |-> "absent", holder |-> NoOne, expires |-> 0,
     deadline |-> 0, position |-> 0, receipt |-> 0]

Exists(a) == journal[a].result # "absent"
Applied(a) == journal[a].result \in Settled
Queued(a) == journal[a].result = "queued"
Waiting == {f \in Followups : Queued(f)}

\* _LeaseColumns.unheld and acquirable_by: every claim brings a fresh token.
Acquirable(a) == journal[a].holder = NoOne \/ journal[a].expires <= now

\* Mutant of Leased: the expiry is computed on the wrong side of the clock.
LeasedBackwards(row, d) == [row EXCEPT !.holder = d, !.expires = now - LeaseTTL]

\* The row once dispatcher d has taken its lease.
Leased(row, d) == [row EXCEPT !.holder = d, !.expires = now + LeaseTTL]

\* clear_lease
Released(row) == [row EXCEPT !.holder = NoOne, !.expires = 0]

\* _settle_applied: overwrites whatever result the row had.
SettledAs(row, result) == [Released(row) EXCEPT !.result = result]

-----------------------------------------------------------------------------
(* Elections on the run row (database/thread_repository.py).                *)

\* Mutant of Successor: a new writer inherits the generation of the old one.
SuccessorSameGeneration(status, a) ==
    [status |-> status, revision |-> thread.revision + 1,
     generation |-> thread.generation, writer |-> a]

\* RunWriteAuthority.successor
Successor(status, a) ==
    [status     |-> status,
     revision   |-> thread.revision + 1,
     generation |-> IF a = thread.writer THEN thread.generation
                                         ELSE thread.generation + 1,
     writer     |-> a]

\* elect_thread_status won under a witness equal to the current row.
Electable(status, a) ==
    /\ ValidateTransition(thread.status, status)
    /\ status # thread.status \/ a # thread.writer

\* validate_current_graph_receipt: the writer's receipt names the current
\* writer generation.
CurrentReceipt(a) ==
    /\ a \in GraphActions
    /\ thread.writer = a
    /\ journal[a].receipt # 0
    /\ journal[a].receipt = thread.generation

\* Mutant of QueueRefused: a terminal settlement forgets the queue.
QueueForgotten(rows) == rows

\* refuse_queued_continuations
QueueRefused(rows) ==
    [a \in Actions |->
        IF rows[a].result = "queued" THEN SettledAs(rows[a], "rejected") ELSE rows[a]]

\* settle_terminal, under a witness equal to the current row.
SettleTerminal(status, result) ==
    LET a == thread.writer
    IN  /\ Electable(status, a)
        /\ thread' = Successor(status, a)
        /\ journal' = [QueueRefused(journal) EXCEPT ![a] = SettledAs(@, result)]

-----------------------------------------------------------------------------
(* The parts of the state that are not in the gateway's database.           *)

CheckpointState == {"absent", "pending", "interrupted", "completed", "failed"}

\* The latest checkpoint and the graph receipt it carries.
Checkpoint == [owner: GraphActions \cup {NoOne}, generation: Nat, state: CheckpointState]

NoCheckpoint == [owner |-> NoOne, generation |-> 0, state |-> "absent"]

\* Mutant of Evidence: this action's own checkpoint reads as an earlier one's.
EvidenceOffByOne(cp, a, g) ==
    IF cp.state = "absent" THEN "absent"
    ELSE IF cp.generation <= g THEN "prior"
    ELSE "incompatible"

\* Mutant of Evidence: the receipt the checkpoint carries is not compared.
EvidenceUnbound(cp, a, g) == cp.state

\* classify_checkpoint_evidence for the receipt (a, g).
Evidence(cp, a, g) ==
    IF cp.state = "absent" THEN "absent"
    ELSE IF cp.generation < g THEN "prior"
    ELSE IF cp.owner = a /\ cp.generation = g THEN cp.state
    ELSE "incompatible"

\* A delivery in flight.  stage: "held" and "free" are the two results of the
\* checkpoint read an answer makes before its transaction.
Call == [stage: {"idle", "held", "free", "claimed", "bound", "created",
                 "definite", "rejected", "ambiguous"},
         kind: {"create", "cancel", "answer", "redrive", "sweep"},
         action: Actions \cup {NoOne}, receipt: Nat]

IdleCall == [stage |-> "idle", kind |-> "redrive", action |-> NoOne, receipt |-> 0]

Thread == [status: Status, revision: Nat, generation: Nat \ {0}, writer: Actions]

\* The run row thread_repository creates.
NewThread == [status |-> "submitted", revision |-> 0, generation |-> 1, writer |-> Ingest]

\* A checkpoint pass: "pause" projects the pause, "observe" (a worker event or
\* a status read) and "boot" reconcile; "boot_pause" is the pause pass the
\* startup reconciliation runs first.
Pass == [kind: {"none", "pause", "boot_pause", "boot", "observe"},
         stage: {"start", "witnessed", "read"},
         witness: Thread, pending: BOOLEAN, owned: BOOLEAN, saw: Checkpoint]

Open(kind) ==
    [kind |-> kind, stage |-> "start", witness |-> NewThread,
     pending |-> FALSE, owned |-> FALSE, saw |-> NoCheckpoint]

NoPass == Open("none")

Worker == [action: GraphActions \cup {NoOne}, receipt: Nat,
           phase: {"idle", "admitted", "executing"},
           seen: SUBSET Actions, cancel: BOOLEAN]

FreshWorker ==
    [action |-> NoOne, receipt |-> 0, phase |-> "idle", seen |-> {}, cancel |-> FALSE]

Event == [kind: {"application", "paused", "completed", "failed", "ceased", "no_active_work"},
          action: Actions, receipt: Nat]

Sweep == [stage: {"due", "listed", "done"}, witness: Thread]

NoSweep == [stage |-> "done", witness |-> NewThread]

\* Startup reconciliation is awaited before the gateway serves anything.
Serving == \A p \in Passes : pass[p].kind \notin {"boot_pause", "boot"}

-----------------------------------------------------------------------------
(* Creation: the acceptance commit of create_and_dispatch_thread.           *)

Init ==
    \E d \in Dispatchers :
        /\ thread = NewThread
        /\ journal = [a \in Actions |->
              IF a = Ingest
              THEN [result |-> "accepted", holder |-> d, expires |-> LeaseTTL,
                    deadline |-> RunTimeout, position |-> 0, receipt |-> 1]
              ELSE Absent]
        /\ call = [x \in Dispatchers |->
              IF x = d
              THEN [stage |-> "claimed", kind |-> "create", action |-> Ingest, receipt |-> 0]
              ELSE IdleCall]
        /\ now = 0
        /\ pass = [p \in Passes |-> NoPass]
        /\ sweep = NoSweep
        /\ checkpoint = NoCheckpoint
        /\ worker = FreshWorker
        /\ events = {}
        /\ crashed = 0
        /\ inputs = [a \in GraphActions |-> 0]
        /\ line = << >>

-----------------------------------------------------------------------------
(* Delivery of a claimed action: deliver_leased, dispatch_leased and         *)
(* dispatch_to_worker.  The claim was committed by the step that opened the  *)
(* call.                                                                    *)

Idle(d) == call[d].stage = "idle"

Claimed(kind, a) == [stage |-> "claimed", kind |-> kind, action |-> a, receipt |-> 0]

\* bind_graph_action_receipt: a cancel carries no receipt; a graph action
\* that is no longer the receipted writer of an active run is not sent.
Bind(d) ==
    LET a == call[d].action
    IN  /\ call[d].stage = "claimed"
        /\ call' = [call EXCEPT ![d] =
              IF a = Cancel \/ (CurrentReceipt(a) /\ thread.status \in Active)
              THEN [@ EXCEPT !.stage = "bound", !.receipt = journal[a].receipt]
              ELSE IdleCall]
        /\ UNCHANGED <<store, now, pass, sweep, outside, crashed, history>>

\* What the caller does once the worker's acceptance is back.
Accepted(c) == IF c.kind = "create" THEN [c EXCEPT !.stage = "created"] ELSE IdleCall

\* The acceptance came back, or it was lost on the way.
Replied(d) ==
    \/ call' = [call EXCEPT ![d] = Accepted(@)]
    \/ call' = [call EXCEPT ![d].stage = "ambiguous"]

\* Some of the worker's new events reach the gateway; the others are lost
\* with the buffer of a worker that stops or overflows.
Emit(new) ==
    \E kept \in SUBSET new :
        /\ Cardinality(events \cup kept) <= Backlog
        /\ events' = events \cup kept

EventOf(kind, a, g) == [kind |-> kind, action |-> a, receipt |-> g]

\* The worker already admitted this dispatch id: _duplicate_dispatch_response.
DeliverDuplicate(d) ==
    /\ call[d].stage = "bound"
    /\ call[d].action \in worker.seen
    /\ Replied(d)
    /\ UNCHANGED <<store, now, pass, sweep, outside, crashed, history>>

\* _dispatch_request admits a graph action: it takes the run's slot.
DeliverGraph(d) ==
    LET a == call[d].action
    IN  /\ call[d].stage = "bound"
        /\ a \in GraphActions \ worker.seen
        /\ worker.phase = "idle"
        /\ worker' = [worker EXCEPT !.action = a, !.receipt = call[d].receipt,
                                    !.phase = "admitted", !.seen = @ \cup {a}]
        /\ Replied(d)
        /\ UNCHANGED <<store, now, pass, sweep, checkpoint, events, crashed, history>>

\* Executor._handle_cancel: a cancel takes no slot.  A run in its slot is
\* stopped and settles the cancellation itself; otherwise the worker reports
\* that there was nothing to stop.
DeliverCancel(d) ==
    /\ call[d].stage = "bound"
    /\ call[d].action = Cancel
    /\ Cancel \notin worker.seen
    /\ worker' = [worker EXCEPT !.seen = @ \cup {Cancel},
                                !.cancel = worker.phase # "idle"]
    /\ IF worker.phase = "idle"
       THEN Emit({EventOf("no_active_work", Cancel, 0)})
       ELSE UNCHANGED events
    /\ Replied(d)
    /\ UNCHANGED <<store, now, pass, sweep, checkpoint, crashed, history>>

\* The slot is taken (RUN_BUSY, an ambiguous failure) ...
DeliverBusy(d) ==
    /\ call[d].stage = "bound"
    /\ call[d].action \in GraphActions \ worker.seen
    /\ worker.phase # "idle"
    /\ call' = [call EXCEPT ![d].stage = "ambiguous"]
    /\ UNCHANGED <<store, now, pass, sweep, outside, crashed, history>>

\* ... or the request never reached the worker's admission: the circuit is
\* open or the worker is full, nothing answered, or the worker refused it.  An
\* answer's caller tells a refusal from the other definite failures, the recovery
\* pass one that names incompatible state.
Undelivered(d) ==
    /\ call[d].stage = "bound"
    /\ \/ call' = [call EXCEPT ![d].stage = "definite"]
       \/ call' = [call EXCEPT ![d].stage = "ambiguous"]
       \/ /\ call[d].kind \in {"answer", "redrive"}
          /\ call' = [call EXCEPT ![d].stage = "rejected"]
    /\ UNCHANGED <<store, now, pass, sweep, outside, crashed, history>>

\* The lease that record_dispatch_failure gives back, if the failure is definite
\* and the claim still stands.
FailureRecordable(d) ==
    LET a == call[d].action
    IN  /\ ~Applied(a)
        /\ journal[a].deadline > now
        /\ journal[a].holder = d
        /\ thread.writer = a
        /\ thread.status \in Active

\* record_dispatch_failure, and record_failed_permission_resume for an answer
\* the worker rejected: the run is shown parked again.
RecordFailure(d) ==
    LET a == call[d].action
        recordable == FailureRecordable(d)
        reparks == /\ call[d].stage = "rejected"
                   /\ call[d].kind = "answer"
                   /\ thread.status # "input_required"
    IN  /\ call[d].stage \in {"definite", "rejected", "ambiguous"}
        /\ call[d].kind \in {"create", "cancel", "answer", "sweep"}
        /\ call' = [call EXCEPT ![d] = IdleCall]
        /\ \/ /\ recordable
              /\ call[d].stage # "ambiguous"
              /\ ~reparks
              /\ journal' = [journal EXCEPT ![a] = Released(@)]
              /\ UNCHANGED thread
           \/ /\ recordable
              /\ reparks
              /\ Electable("input_required", a)
              /\ journal' = [journal EXCEPT ![a] = Released(@)]
              /\ thread' = Successor("input_required", a)
           \/ /\ \/ ~recordable
                 \/ call[d].stage = "ambiguous"
                 \/ reparks /\ ~Electable("input_required", a)
              /\ UNCHANGED store
        /\ UNCHANGED <<now, pass, sweep, outside, crashed, history>>

\* _settle_permanent_refusal: the action is refused for good and the run is
\* handed to an operator.
Quarantine(a) ==
    /\ thread' = IF thread.status = "reconciling" THEN thread
                 ELSE Successor("reconciling", a)
    /\ journal' = [journal EXCEPT ![a] = SettledAs(@, "rejected")]

\* _settle_delivery_failure: the recovery pass releases its own claim only, and
\* quarantines the run it still owns when the worker found its state incompatible.
RecordRedriveFailure(d) ==
    LET a == call[d].action
        owned == thread.writer = a /\ thread.status \in Active /\ ~Applied(a)
    IN  /\ call[d].stage \in {"definite", "rejected", "ambiguous"}
        /\ call[d].kind = "redrive"
        /\ call' = [call EXCEPT ![d] = IdleCall]
        /\ \/ /\ call[d].stage = "rejected"
              /\ owned
              /\ Quarantine(a)
           \/ /\ call[d].stage = "definite"
              /\ journal' = [journal EXCEPT ![a] = IF @.holder = d THEN Released(@) ELSE @]
              /\ UNCHANGED thread
           \/ /\ call[d].stage = "ambiguous" \/ (call[d].stage = "rejected" /\ ~owned)
              /\ UNCHANGED store
        /\ UNCHANGED <<now, pass, sweep, outside, crashed, history>>

\* Mutant of FinishCreate: the election is not held to the creation witness.
FinishCreateBlind(d) ==
    /\ call[d].stage = "created"
    /\ call' = [call EXCEPT ![d] = IdleCall]
    /\ thread' = IF thread.status = "running" THEN thread ELSE Successor("running", Ingest)
    /\ UNCHANGED <<journal, now, pass, sweep, outside, crashed, history>>

\* The creator elects RUNNING from the row as it created it.
FinishCreate(d) ==
    /\ call[d].stage = "created"
    /\ call' = [call EXCEPT ![d] = IdleCall]
    /\ thread' = IF thread = NewThread THEN Successor("running", Ingest) ELSE thread
    /\ UNCHANGED <<journal, now, pass, sweep, outside, crashed, history>>

-----------------------------------------------------------------------------
(* Requests of clients, each one write transaction.                         *)

\* next_queue_position: one past the highest position still waiting.
NextPosition ==
    IF Waiting = {} THEN 1
    ELSE 1 + (CHOOSE n \in {journal[f].position : f \in Waiting} :
                 \A f \in Waiting : journal[f].position <= n)

\* reserve_queued_continuation: the run's lifetime is not over and its queue
\* has room.
QueueAdmits == now < Lifetime /\ Cardinality(Waiting) < QueueDepth

\* Mutant of SendFollowup: the reservation binds a receipt at admission.
SendFollowupBound(f) ==
    /\ Serving
    /\ ~Exists(f)
    /\ CanSendFollowup(thread.status)
    /\ QueueAdmits
    /\ journal' = [journal EXCEPT ![f] =
          [result |-> "queued", holder |-> f, expires |-> now + LeaseTTL,
           deadline |-> Lifetime, position |-> NextPosition,
           receipt |-> thread.generation + 1]]
    /\ line' = Append(line, f)
    /\ UNCHANGED <<thread, now, gateway, outside, crashed, inputs>>

\* Mutant of SendFollowup: a follow-up takes the run from the executing turn.
SendFollowupTakesOver(f) ==
    /\ Serving
    /\ ~Exists(f)
    /\ CanSendFollowup(thread.status)
    /\ now < Lifetime
    /\ thread' = Successor("running", f)
    /\ journal' = [journal EXCEPT ![f] =
          [result |-> "accepted", holder |-> NoOne, expires |-> 0,
           deadline |-> Lifetime, position |-> NextPosition,
           receipt |-> thread'.generation]]
    /\ line' = Append(line, f)
    /\ UNCHANGED <<now, gateway, outside, crashed, inputs>>

\* send_followup_message of a new key: admitted behind the executing turn, never
\* given the run's write authority.
SendFollowup(f) ==
    /\ Serving
    /\ ~Exists(f)
    /\ CanSendFollowup(thread.status)
    /\ QueueAdmits
    /\ journal' = [journal EXCEPT ![f] =
          [result |-> "queued", holder |-> f, expires |-> now + LeaseTTL,
           deadline |-> Lifetime, position |-> NextPosition, receipt |-> 0]]
    /\ line' = Append(line, f)
    /\ UNCHANGED <<thread, now, gateway, outside, crashed, inputs>>

\* _cancel_authority_already_owned: this cancel elected the run's CANCELLING state before.
CancelOwnsRun == thread.status = "cancelling" /\ thread.writer = Cancel

\* _claim_cancel: the one cancel row is created, or its free lease is taken
\* again while it is undecided.
ClaimCancel(d) ==
    \/ /\ ~Exists(Cancel)
       /\ journal' = [journal EXCEPT ![Cancel] =
             Leased([Absent EXCEPT !.result = "accepted",
                                   !.deadline = journal[thread.writer].deadline], d)]
    \/ /\ Exists(Cancel)
       /\ ~Applied(Cancel)
       /\ journal[Cancel].deadline > now
       /\ Acquirable(Cancel)
       /\ journal' = [journal EXCEPT ![Cancel] = Leased(@, d)]

\* _elect_cancel_authority
ElectCancel == thread' = IF CancelOwnsRun THEN thread ELSE Successor("cancelling", Cancel)

\* cancel_thread: the row, the election and the lease are one transaction.
CancelThread(d) ==
    /\ "cancel" \in Requests
    /\ Serving
    /\ Idle(d)
    /\ CanCancel(thread.status)
    /\ journal[thread.writer].deadline > now
    /\ ClaimCancel(d)
    /\ ElectCancel
    /\ call' = [call EXCEPT ![d] = Claimed("cancel", Cancel)]
    /\ UNCHANGED <<now, pass, sweep, outside, crashed, history>>

\* respond_to_permission reads the checkpoint before it takes the writer lock.
ReadHeld(d) ==
    /\ Answers # {}
    /\ Serving
    /\ Idle(d)
    /\ call' = [call EXCEPT ![d] =
          [stage |-> IF checkpoint.state = "interrupted" THEN "held" ELSE "free",
           kind |-> "answer", action |-> NoOne, receipt |-> 0]]
    /\ UNCHANGED <<store, now, pass, sweep, outside, crashed, history>>

\* The ask an answer belongs to: the first whose answer is not applied.
OpenAsk(i) ==
    /\ ~Applied(Asks[i])
    /\ \A j \in 1..(i - 1) : Applied(Asks[j])

\* Mutant of InstallAnswer: the receipt names the generation before the election.
InstallAnswerEarly(d, a) ==
    /\ ~Exists(a)
    /\ call[d].stage = "held"
    /\ thread.status \in Active
    /\ thread' = Successor(thread.status, a)
    /\ journal' = [journal EXCEPT ![a] =
          Leased([Absent EXCEPT !.result = "accepted", !.deadline = now + RunTimeout,
                                !.receipt = thread.generation], d)]

\* A new answer installs itself as the writer and keeps the run's status; only
\* a parked run that is not over takes one.
InstallAnswer(d, a) ==
    /\ ~Exists(a)
    /\ call[d].stage = "held"
    /\ thread.status \in Active
    /\ thread' = Successor(thread.status, a)
    /\ journal' = [journal EXCEPT ![a] =
          Leased([Absent EXCEPT !.result = "accepted", !.deadline = now + RunTimeout,
                                !.receipt = thread'.generation], d)]

\* A replayed answer takes the lease again while it is the current writer.
ReclaimAnswer(d, a) ==
    /\ Exists(a)
    /\ thread.status \in Active
    /\ CurrentReceipt(a)
    /\ journal[a].deadline > now
    /\ Acquirable(a)
    /\ journal' = [journal EXCEPT ![a] = Leased(@, d)]
    /\ UNCHANGED thread

\* The write transaction of respond_to_permission.
AcceptAnswer(d, i) ==
    /\ call[d].stage \in {"held", "free"}
    /\ now + RunTimeout <= Horizon
    /\ thread.revision < Revisions
    /\ OpenAsk(i)
    /\ InstallAnswer(d, Asks[i]) \/ ReclaimAnswer(d, Asks[i])
    /\ call' = [call EXCEPT ![d] = Claimed("answer", Asks[i])]
    /\ UNCHANGED <<now, pass, sweep, outside, crashed, history>>

\* The answer is refused and nothing is written.
RefuseAnswer(d) ==
    /\ call[d].stage \in {"held", "free"}
    /\ call' = [call EXCEPT ![d] = IdleCall]
    /\ UNCHANGED <<store, now, pass, sweep, outside, crashed, history>>

OpenPass(kind) ==
    \E p \in Passes :
        /\ pass[p].kind = "none"
        /\ pass' = [pass EXCEPT ![p] = Open(kind)]

\* capture_thread_state: a status read reconciles the run's checkpoint.
ReadRun ==
    /\ "read" \in Requests
    /\ Serving
    /\ OpenPass("observe")
    /\ UNCHANGED <<store, now, call, sweep, outside, crashed, history>>

\* archive_thread
Archive ==
    /\ "archive" \in Requests
    /\ Serving
    /\ CanArchive(thread.status)
    /\ thread' = Successor("archived", thread.writer)
    /\ UNCHANGED <<journal, now, gateway, outside, crashed, history>>

\* elect_thread_deleting; the saga that follows never touches this row again
\* before it removes it.
Delete ==
    /\ "delete" \in Requests
    /\ Serving
    /\ CanDelete(thread.status)
    /\ thread' = Successor("deleting", thread.writer)
    /\ UNCHANGED <<journal, now, gateway, outside, crashed, history>>

-----------------------------------------------------------------------------
(* Direct recovery (control/direct_control_recovery.py) and the boot's one   *)
(* redispatch sweep (control/dispatch.py).                                   *)

\* The writer's accepted action, still undecided and inside its deadline,
\* whose lease can be taken.
Recoverable(a) ==
    /\ thread.writer = a
    /\ thread.status \in Active
    /\ ~Applied(a)
    /\ journal[a].deadline > now
    /\ Acquirable(a)
    /\ a = Cancel \/ CurrentReceipt(a)

\* _restore_requested_state: whether the run still shows what the action asked.
OwnsProjection(a) ==
    /\ a \in Followups => thread.status = "running"
    /\ a = Cancel => thread.status \in {"cancelling", "reconciling"}

\* redrive_direct_control_actions on one claim.  A conflicted claim commits
\* with the lease it took and delivers nothing.
Redrive(d) ==
    LET a == thread.writer
    IN  /\ Serving
        /\ Idle(d)
        /\ Recoverable(a)
        /\ journal' = [journal EXCEPT ![a] = Leased(@, d)]
        /\ call' = IF OwnsProjection(a)
                   THEN [call EXCEPT ![d] = Claimed("redrive", a)]
                   ELSE call
        /\ UNCHANGED <<thread, now, pass, sweep, outside, crashed, history>>

\* _reconstruct_dispatch refuses the claimed action: a graph action whose
\* workspace is gone or whose actor credentials were not kept.
RefuseRecovery ==
    LET a == thread.writer
    IN  /\ Serving
        /\ a \in GraphActions
        /\ Recoverable(a)
        /\ Quarantine(a)
        /\ UNCHANGED <<now, gateway, outside, crashed, history>>

\* Mutant of ExpireOverdue: a cancel is taken for work only its worker may end.
ExpireOverdueSparesCancel ==
    LET a == thread.writer
    IN  /\ Serving
        /\ thread.status \in Active
        /\ a # Cancel
        /\ ~Applied(a)
        /\ journal[a].deadline <= now
        /\ Quarantine(a)
        /\ UNCHANGED <<now, gateway, outside, crashed, history>>

\* Mutant of ExpireOverdue: the run moves but its action stays undecided.
ExpireOverdueForgetsRow ==
    LET a == thread.writer
    IN  /\ Serving
        /\ thread.status \in Active \ {"reconciling"}
        /\ ~Applied(a)
        /\ journal[a].deadline <= now
        /\ thread' = Successor("reconciling", a)
        /\ UNCHANGED <<journal, now, gateway, outside, crashed, history>>

\* _expire_overdue_actions: the writer's action ran out of time unapplied.
ExpireOverdue ==
    LET a == thread.writer
    IN  /\ Serving
        /\ thread.status \in Active
        /\ ~Applied(a)
        /\ journal[a].deadline <= now
        /\ Quarantine(a)
        /\ UNCHANGED <<now, gateway, outside, crashed, history>>

\* redispatch_reconciling_threads lists the reconciling runs once per boot ...
SweepList ==
    /\ Serving
    /\ sweep.stage = "due"
    /\ sweep' = IF thread.status = "reconciling"
                THEN [stage |-> "listed", witness |-> thread]
                ELSE NoSweep
    /\ UNCHANGED <<store, now, call, pass, outside, crashed, history>>

\* ... claims the listed action's own lease and delivers it, ...
SweepClaim(d) ==
    LET a == sweep.witness.writer
    IN  /\ sweep.stage = "listed"
        /\ Idle(d)
        /\ a \in GraphActions
        /\ Recoverable(a)
        /\ journal' = [journal EXCEPT ![a] = Leased(@, d)]
        /\ call' = [call EXCEPT ![d] = Claimed("sweep", a)]
        /\ sweep' = NoSweep
        /\ UNCHANGED <<thread, now, pass, outside, crashed, history>>

\* ... passes over what it cannot claim (a cancel has no workspace to restore)
\* or, with the circuit open, may not deliver, ...
SweepSkip ==
    /\ sweep.stage = "listed"
    /\ sweep' = NoSweep
    /\ UNCHANGED <<store, now, call, pass, outside, crashed, history>>

\* ... and fails a run whose stored execution authority it can no longer read.
SweepRefuse ==
    /\ sweep.stage = "listed"
    /\ thread = sweep.witness
    /\ SettleTerminal("failed", "applied")
    /\ sweep' = NoSweep
    /\ UNCHANGED <<now, call, pass, outside, crashed, history>>

-----------------------------------------------------------------------------
(* Relayed worker events (control/event_handlers.py).  A batch whose         *)
(* acknowledgement was lost is posted again, so an event may be relayed       *)
(* more than once.                                                           *)

Relayed(e) == events' = events \ {e} \/ UNCHANGED events

\* The application receipt settles its action while the action is the current
\* writer; a resume's also refreshes the pause projection (_prompts_pause_read).
HandleApplication(e) ==
    LET a == e.action
    IN  /\ e.kind = "application"
        /\ journal' = IF /\ thread.status \in Active
                         /\ CurrentReceipt(a)
                         /\ journal[a].receipt = e.receipt
                         /\ ~Applied(a)
                      THEN [journal EXCEPT ![a] = SettledAs(@, "applied")]
                      ELSE journal
        /\ IF a \in Answers THEN OpenPass("pause") ELSE UNCHANGED pass
        /\ UNCHANGED thread

HandlePaused(e) ==
    /\ e.kind = "paused"
    /\ OpenPass("pause")
    /\ UNCHANGED store

\* Completion is never taken from the event: it prompts a checkpoint pass.
HandleCompleted(e) ==
    /\ e.kind = "completed"
    /\ OpenPass("observe")
    /\ UNCHANGED store

\* _persist_proven_failure
HandleFailed(e) ==
    /\ e.kind = "failed"
    /\ IF thread.status \in Active /\ CurrentReceipt(e.action) /\ thread.generation = e.receipt
       THEN SettleTerminal("failed", "applied")
       ELSE UNCHANGED store
    /\ UNCHANGED pass

\* _persist_proven_cancellation
HandleCancelled(e) ==
    /\ e.kind \in {"ceased", "no_active_work"}
    /\ IF thread.status \in {"cancelling", "reconciling"} /\ thread.writer = Cancel
       THEN SettleTerminal("cancelled", e.kind)
       ELSE UNCHANGED store
    /\ UNCHANGED pass

\* relay_event
Relay(e) ==
    /\ Serving
    /\ \/ HandleApplication(e) \/ HandlePaused(e) \/ HandleCompleted(e)
       \/ HandleFailed(e) \/ HandleCancelled(e)
    /\ Relayed(e)
    /\ UNCHANGED <<now, call, sweep, checkpoint, worker, crashed, history>>

-----------------------------------------------------------------------------
(* Checkpoint passes: the witness, the read and the apply transaction are    *)
(* three steps, because the checkpoint store is another transaction owner.   *)

PausePass(p) == pass[p].kind \in {"pause", "boot_pause"}
ReconcilePass(p) == pass[p].kind \in {"observe", "boot"}

\* What the slot does when its pass is over: the startup pass follows the
\* startup pause pass.
EndPass(p) ==
    pass' = [pass EXCEPT ![p] = IF @.kind = "boot_pause" THEN Open("boot") ELSE NoPass]

\* The states a pause may be recorded over.
Recordable ==
    /\ thread.status \in {"input_required", "submitted", "running", "reconciling"}
    /\ thread.writer \in GraphActions

WitnessPause(p) ==
    /\ PausePass(p)
    /\ pass[p].stage = "start"
    /\ IF Recordable
       THEN pass' = [pass EXCEPT ![p].stage = "witnessed", ![p].witness = thread]
       ELSE EndPass(p)
    /\ UNCHANGED <<store, now, call, sweep, outside, crashed, history>>

\* promotion_dispatch_pending and has_live_queued_continuation_lease
PromotionPending(a) ==
    journal[a].position # 0 /\ ~Applied(a) /\ journal[a].deadline > now

QueueOwned == \E f \in Waiting : journal[f].holder # NoOne /\ journal[f].expires > now

WitnessReconcile(p) ==
    /\ ReconcilePass(p)
    /\ pass[p].stage = "start"
    /\ IF thread.status \in Active /\ CurrentReceipt(thread.writer)
       THEN pass' = [pass EXCEPT ![p].stage = "witnessed", ![p].witness = thread,
                                 ![p].pending = PromotionPending(thread.writer),
                                 ![p].owned = QueueOwned]
       ELSE EndPass(p)
    /\ UNCHANGED <<store, now, call, sweep, outside, crashed, history>>

ReadCheckpoint(p) ==
    /\ pass[p].stage = "witnessed"
    /\ pass' = [pass EXCEPT ![p].stage = "read", ![p].saw = checkpoint]
    /\ UNCHANGED <<store, now, call, sweep, outside, crashed, history>>

\* The read failed or the store was contended: the pass gives up.
AbandonPass(p) ==
    /\ pass[p].stage \in {"witnessed", "read"}
    /\ EndPass(p)
    /\ UNCHANGED <<store, now, call, sweep, outside, crashed, history>>

\* _record_pause: the run shows INPUT_REQUIRED exactly while its
\* checkpoint is interrupted.
ApplyPause(p) ==
    LET held == pass[p].saw.state = "interrupted"
        parked == thread.status = "input_required"
    IN  /\ PausePass(p)
        /\ pass[p].stage = "read"
        /\ thread' = IF /\ pass[p].saw.state # "absent"
                        /\ thread = pass[p].witness
                        /\ held # parked
                     THEN Successor(IF held THEN "input_required" ELSE "running",
                                    thread.writer)
                     ELSE thread
        /\ EndPass(p)
        /\ UNCHANGED <<journal, now, call, sweep, outside, crashed, history>>

SmallerOf(m, n) == IF m <= n THEN m ELSE n

\* Mutant of NextContinuation: the latest admission is promoted first.
NextContinuationLatest(f) ==
    /\ f \in Waiting
    /\ \A g \in Waiting : journal[g].position <= journal[f].position

\* Mutant of NextContinuation: the read does not ask that the row still waits.
NextContinuationAny(f) ==
    /\ Exists(f)
    /\ \A g \in Followups : Exists(g) => journal[f].position <= journal[g].position

\* read_next_queued_continuation
NextContinuation(f) ==
    /\ f \in Waiting
    /\ \A g \in Waiting : journal[f].position <= journal[g].position

\* _promote_queued_continuation: in the transaction that would have settled
\* the run, the waiting turn becomes its receipted writer.
Promote(f) ==
    LET settled == [journal EXCEPT ![thread.writer] = SettledAs(@, "applied")]
    IN  /\ Electable("running", f)
        /\ thread' = Successor("running", f)
        /\ journal' = [settled EXCEPT ![f] =
              [Released(@) EXCEPT !.result = "accepted",
                                  !.deadline = SmallerOf(now + RunTimeout, Lifetime),
                                  !.receipt = thread'.generation]]

\* A queue must not make a run immortal: past its lifetime it ends.
CompletionStatus == IF now < Lifetime /\ Waiting # {} THEN "running" ELSE "completed"

\* _reconcile_completed_checkpoint, under a witness equal to the current row.
SettleCompleted ==
    \/ /\ CompletionStatus = "running"
       /\ \E f \in Followups : NextContinuation(f) /\ Promote(f)
    \/ /\ CompletionStatus = "completed"
       /\ SettleTerminal("completed", "applied")

\* _reconcile_incomplete_checkpoint: only the startup trigger moves the run,
\* and not while a promoted turn or a waiting one is still somebody's to deliver.
MarksReconciling(p, evidence) ==
    /\ pass[p].kind = "boot"
    /\ thread.status \notin {"reconciling", "input_required"}
    /\ ~(pass[p].pending /\ evidence = "prior")
    /\ ~pass[p].owned

\* The checkpoint could not be read, which is evidence enough for the startup pass.
MarkUnread(p) ==
    /\ ReconcilePass(p)
    /\ pass[p].stage = "witnessed"
    /\ thread = pass[p].witness
    /\ MarksReconciling(p, "unavailable")
    /\ Electable("reconciling", thread.writer)
    /\ thread' = Successor("reconciling", thread.writer)
    /\ EndPass(p)
    /\ UNCHANGED <<journal, now, call, sweep, outside, crashed, history>>

\* Mutant of ApplyReconcile: a completed read is applied to whatever row is there.
ApplyReconcileUnwitnessed(p) ==
    LET evidence == Evidence(pass[p].saw, pass[p].witness.writer, pass[p].witness.generation)
    IN  /\ ReconcilePass(p)
        /\ pass[p].stage = "read"
        /\ IF evidence = "completed" /\ thread.status \in Active
           THEN SettleCompleted
           ELSE UNCHANGED store
        /\ EndPass(p)
        /\ UNCHANGED <<now, call, sweep, outside, crashed, history>>

\* The apply transaction of reconcile_run_checkpoint.
ApplyReconcile(p) ==
    LET evidence == Evidence(pass[p].saw, pass[p].witness.writer, pass[p].witness.generation)
    IN  /\ ReconcilePass(p)
        /\ pass[p].stage = "read"
        /\ \/ /\ evidence = "completed"
              /\ thread = pass[p].witness
              /\ SettleCompleted
           \/ /\ evidence # "completed"
              /\ thread = pass[p].witness
              /\ MarksReconciling(p, evidence)
              /\ Electable("reconciling", thread.writer)
              /\ thread' = Successor("reconciling", thread.writer)
              /\ UNCHANGED journal
           \/ /\ \/ thread # pass[p].witness
                 \/ evidence = "completed" /\ ~ValidateTransition(thread.status, CompletionStatus)
                 \/ evidence # "completed" /\ ~MarksReconciling(p, evidence)
              /\ UNCHANGED store
        /\ EndPass(p)
        /\ UNCHANGED <<now, call, sweep, outside, crashed, history>>

-----------------------------------------------------------------------------
(* The worker: one graph dispatch at a time, from its admission to the       *)
(* events that report how it ended.                                          *)

\* The executor leaves the slot.  A pending cancellation is consumed only by
\* an outcome that is reported.
SlotFreed == [worker EXCEPT !.action = NoOne, !.receipt = 0, !.phase = "idle"]

\* Report how the dispatch ended, as ceased when a cancellation is pending.
Report(outcome, applied) ==
    /\ worker' = [SlotFreed EXCEPT !.cancel = FALSE]
    /\ Emit((IF applied
             THEN {EventOf("application", worker.action, worker.receipt)}
             ELSE {})
            \cup {IF worker.cancel THEN EventOf("ceased", Cancel, 0)
                  ELSE EventOf(outcome, worker.action, worker.receipt)})

\* The graph starts: the checkpoint carries this dispatch's receipt, and the
\* application receipt is sent.
StartGraph(isInput) ==
    /\ worker' = [worker EXCEPT !.phase = "executing"]
    /\ checkpoint' = [owner |-> worker.action, generation |-> worker.receipt,
                      state |-> "pending"]
    /\ inputs' = IF isInput THEN [inputs EXCEPT ![worker.action] = @ + 1] ELSE inputs
    /\ Emit({EventOf("application", worker.action, worker.receipt)})

\* Executor._handle_ingest, after pre_flight_checkpoint.  A dispatch is rejected
\* when the checkpoint failed or is foreign to it, and, whatever it holds, when it
\* could not be read.
BeginIngest ==
    LET evidence == Evidence(checkpoint, worker.action, worker.receipt)
    IN  /\ worker.phase = "admitted"
        /\ worker.action \notin Answers
        /\ \/ /\ evidence \in {"absent", "prior"}
              /\ StartGraph(TRUE)
           \/ /\ evidence = "pending"
              /\ StartGraph(FALSE)
           \/ /\ evidence = "completed"
              /\ Report("completed", TRUE)
              /\ UNCHANGED <<checkpoint, inputs>>
           \/ /\ Report("failed", FALSE)
              /\ UNCHANGED <<checkpoint, inputs>>
           \/ /\ evidence = "interrupted"
              /\ worker' = SlotFreed
              /\ UNCHANGED <<checkpoint, inputs, events>>
        /\ UNCHANGED <<store, now, gateway, crashed, line>>

\* Executor._handle_resume: only a run parked on the answered request resumes,
\* and only when that can be read; _refuse_resume reports nothing.
BeginResume ==
    /\ worker.phase = "admitted"
    /\ worker.action \in Answers
    /\ \/ /\ checkpoint.state = "interrupted"
          /\ StartGraph(TRUE)
       \/ /\ worker' = SlotFreed
          /\ UNCHANGED <<checkpoint, inputs, events>>
    /\ UNCHANGED <<store, now, gateway, crashed, line>>

\* _settle_run: the graph completed, parked or failed.
Finish(outcome) ==
    /\ worker.phase = "executing"
    /\ checkpoint' = [checkpoint EXCEPT !.state = outcome]
    /\ Report(IF outcome = "interrupted" THEN "paused" ELSE outcome, TRUE)
    /\ UNCHANGED <<store, now, gateway, crashed, history>>

\* The cancellation stopped the graph between two supersteps.
Cease ==
    /\ worker.phase = "executing"
    /\ worker.cancel
    /\ Report("failed", TRUE)
    /\ UNCHANGED <<store, now, gateway, checkpoint, crashed, history>>

-----------------------------------------------------------------------------
(* Crashes and time.                                                        *)

\* The worker process stops, by a crash or by a drain at a superstep boundary:
\* the checkpoint survives, everything in memory does not.
WorkerStops ==
    /\ crashed < Crashes
    /\ crashed' = crashed + 1
    /\ worker' = FreshWorker
    /\ UNCHANGED <<store, now, gateway, checkpoint, events, history>>

\* The gateway restarts: its calls and passes are gone, the store is not.
\* Startup reconciliation runs before it serves.
GatewayRestarts ==
    /\ crashed < Crashes
    /\ crashed' = crashed + 1
    /\ call' = [d \in Dispatchers |-> IdleCall]
    /\ \E p \in Passes :
          pass' = [q \in Passes |-> IF q = p THEN Open("boot_pause") ELSE NoPass]
    /\ sweep' = [NoSweep EXCEPT !.stage = "due"]
    /\ UNCHANGED <<store, now, outside, history>>

Tick ==
    /\ now < Horizon
    /\ now' = now + 1
    /\ UNCHANGED <<store, gateway, outside, crashed, history>>

-----------------------------------------------------------------------------
Delivery(d) ==
    \/ Bind(d) \/ DeliverDuplicate(d) \/ DeliverGraph(d) \/ DeliverCancel(d)
    \/ DeliverBusy(d) \/ Undelivered(d) \/ RecordFailure(d)
    \/ RecordRedriveFailure(d) \/ FinishCreate(d)

Client ==
    \/ \E f \in Followups : SendFollowup(f)
    \/ \E d \in Dispatchers :
          \/ CancelThread(d) \/ ReadHeld(d) \/ RefuseAnswer(d)
          \/ \E i \in 1..Len(Asks) : AcceptAnswer(d, i)
    \/ ReadRun
    \/ Archive
    \/ Delete

Recovery ==
    \/ \E d \in Dispatchers : Redrive(d) \/ SweepClaim(d)
    \/ RefuseRecovery \/ ExpireOverdue \/ SweepList \/ SweepSkip \/ SweepRefuse

PassStep(p) ==
    \/ WitnessPause(p) \/ WitnessReconcile(p) \/ ReadCheckpoint(p)
    \/ AbandonPass(p) \/ MarkUnread(p) \/ ApplyPause(p) \/ ApplyReconcile(p)

WorkerStep ==
    \/ BeginIngest \/ BeginResume \/ Cease
    \/ \E outcome \in {"completed", "interrupted", "failed"} : Finish(outcome)

Next ==
    \/ \E d \in Dispatchers : Delivery(d)
    \/ Client
    \/ Recovery
    \/ \E e \in events : Relay(e)
    \/ \E p \in Passes : PassStep(p)
    \/ WorkerStep
    \/ WorkerStops
    \/ GatewayRestarts
    \/ Tick

Spec == Init /\ [][Next]_vars

\* What keeps running without a client: the clock, the open calls and passes,
\* the periodic recovery loop, the boot's sweep, the event relay and the worker.
Fairness ==
    /\ WF_vars(Tick)
    /\ \A d \in Dispatchers : WF_vars(Delivery(d))
    /\ \A p \in Passes : WF_vars(PassStep(p))
    /\ WF_vars(\E d \in Dispatchers : Redrive(d))
    /\ WF_vars(ExpireOverdue)
    /\ WF_vars(SweepList \/ SweepSkip \/ \E d \in Dispatchers : SweepClaim(d))
    /\ WF_vars(\E e \in events : Relay(e))
    /\ WF_vars(WorkerStep)

FairSpec == Spec /\ Fairness

-----------------------------------------------------------------------------
\* Every variable holds what the code's columns, records and sets can hold.
TypeOK ==
    /\ thread \in Thread
    /\ journal \in [Actions -> Row]
    /\ now \in Nat
    /\ call \in [Dispatchers -> Call]
    /\ pass \in [Passes -> Pass]
    /\ sweep \in Sweep
    /\ checkpoint \in Checkpoint
    /\ worker \in Worker
    /\ events \subseteq Event
    /\ crashed \in Nat
    /\ inputs \in [GraphActions -> Nat]
    /\ line \in Seq(Followups)

\* The writer of an active run can always be delivered and proven: a graph
\* action that owns the run has its row, is not waiting in the queue, and its
\* receipt names the current writer generation (prepare_graph_action_receipt).
WriterIsReceipted ==
    /\ journal[thread.writer].result \notin {"absent", "queued"}
    /\ thread.writer \in GraphActions => journal[thread.writer].receipt = thread.generation

\* No two actions ever hold a receipt of the same generation, and none holds
\* one from the future, so evidence names one action (persist_graph_action_receipt).
ReceiptsAreUnique ==
    /\ \A a \in Actions : journal[a].receipt <= thread.generation
    /\ \A a, b \in Actions :
          journal[a].receipt = journal[b].receipt /\ journal[a].receipt # 0 => a = b

\* A waiting turn owns nothing: no receipt and no write authority
\* (open_promoted_continuation: the journal refuses a reservation that does).
QueuedOwnsNothing ==
    \A f \in Waiting : journal[f].receipt = 0 /\ thread.writer # f

\* A run that is over leaves no continuation waiting for a promotion that can
\* never come (refuse_queued_continuations in every terminal settlement).
NoStrandedContinuation == thread.status \in NonActive => Waiting = {}

\* Turns are promoted in the order they were admitted, although positions are
\* reused once the queue drains (next_queue_position).
FifoPromotion ==
    \A i, j \in 1..Len(line) :
        i < j /\ journal[line[j]].receipt # 0 =>
            /\ journal[line[i]].receipt # 0
            /\ journal[line[i]].receipt < journal[line[j]].receipt

\* A run is shown COMPLETED only on the completed checkpoint of its writer,
\* whatever events, redeliveries and passes raced (reconcile_run_checkpoint).
CompletedIsProven ==
    thread.status = "completed" =>
        checkpoint = [owner |-> thread.writer, generation |-> thread.generation,
                      state |-> "completed"]

\* The message of a turn enters the graph at most once, over lost replies,
\* redeliveries and restarts of both processes (pre_flight_checkpoint).
TurnInputOnce == \A a \in {Ingest} \cup Followups : inputs[a] <= 1

\* A follow-up starts only on the completed checkpoint of the turn before it
\* (_promote_queued_continuation).
TurnsAreSerial ==
    [][checkpoint'.owner # checkpoint.owner /\ checkpoint'.owner \in Followups
          => checkpoint.state = "completed"]_vars

\* A decided action is never opened again, so a client's replay reads one
\* outcome (_settle_applied, take_action_lease).
DecisionsStand == [][\A a \in Actions : Applied(a) => Applied(a)']_vars

\* Once a cancel writes the run no follow-up takes it over, even when a pass
\* read a completed checkpoint just before (the witness of reconcile_run_checkpoint).
CancelKeepsTheRun ==
    [][thread.writer = Cancel => thread'.writer \notin {Ingest} \cup Followups]_vars

\* What the row of the run promises: see RunRow.
Promise == INSTANCE RunRow WITH row <- thread

\* Every write of the run row is an election RunRow allows: revisions and
\* generations count, and a run that is over is never brought back.
RowPromise == Promise!Spec

\* A run that is cancelling is not left there: its worker reports, or the
\* cancel's deadline hands it to an operator as RECONCILING (cancel_service,
\* _expire_overdue_actions).
CancellingIsLeft == thread.status = "cancelling" ~> thread.status # "cancelling"

\* An accepted action that owns the run is applied, decided or superseded,
\* however many replies, events and leases were lost.
AcceptedIsDecided ==
    \A a \in Actions :
        thread.writer = a /\ journal[a].result = "accepted"
            ~> Applied(a) \/ thread.writer # a

-----------------------------------------------------------------------------
(* What the repository's comments say and the code does not do; each is      *)
(* refuted by a run of its own.                                              *)

\* "The checkpoint resumes and the run is not over, so no terminal status is
\* sent; its open action is delivered again after restart" (_settle_run): a
\* turn whose worker stopped part-way runs again, or its deadline decides it.
DrainedTurnResumes ==
    (thread.status \in Active /\ checkpoint.state = "pending" /\ worker.phase = "idle")
        ~> \/ worker.phase # "idle"
           \/ thread.status \in NonActive
           \/ journal[thread.writer].result = "rejected"

\* "Each ask takes a response key of its own ... instead of reusing a key and
\* replaying an older answer" (MAX_PERMISSION_ASKS): one accepted answer
\* resumes the graph at most once.
AnswerInputOnce == \A a \in Answers : inputs[a] <= 1

=============================================================================
