------------------------ MODULE RunControlTurnProofs -------------------------
(***************************************************************************)
(* The turns of a run.  A completed run stands on the completed checkpoint  *)
(* of its writer, for every value of the constants.  Where no permission is *)
(* asked for, the message of a turn enters the graph at most once, and a    *)
(* turn starts only on the completed checkpoint of the turn before it.      *)
(***************************************************************************)
EXTENDS RunControlProofs

-----------------------------------------------------------------------------
(* Completion and the turns: what the inductive invariants say.             *)

\* The pass read the completed checkpoint of the writer it witnessed.
Proves(p) ==
    /\ pass[p].stage = "read"
    /\ pass[p].saw = [owner |-> pass[p].witness.writer, generation |-> pass[p].witness.generation,
                      state |-> "completed"]

\* No pass witnessed a row that is still to come.
WitnessIsPast == \A p \in Passes : pass[p].witness.revision <= thread.revision

\* Nothing under way carries a receipt of a generation to come.
CarriedIsPast ==
    /\ \A d \in Dispatchers : call[d].receipt <= thread.generation
    /\ worker.receipt <= thread.generation

\* While the graph executes, the checkpoint is its own and pending.
ExecutingIsPending ==
    worker.phase = "executing" =>
        checkpoint = [owner |-> worker.action, generation |-> worker.receipt, state |-> "pending"]

\* As long as the run is as the pass witnessed it, the proof it read stands.
ProofStands ==
    \A p \in Passes : Proves(p) /\ thread = pass[p].witness => checkpoint = pass[p].saw

\* What makes CompletedIsProven inductive.
ProvenInv ==
    WitnessIsPast /\ CarriedIsPast /\ ExecutingIsPending /\ ProofStands /\ CompletedIsProven

\* A dispatch under way carries the one receipt its action has.
CarriedIsOwn ==
    /\ \A d \in Dispatchers : call[d].stage = "bound" /\ call[d].action \in GraphActions =>
          call[d].receipt = journal[call[d].action].receipt /\ call[d].receipt # 0
    /\ worker.phase # "idle" =>
          worker.receipt = journal[worker.action].receipt /\ worker.receipt # 0

\* A follow-up nobody sent has no receipt.
AbsentHasNone == \A f \in Followups : ~Exists(f) => journal[f].receipt = 0

\* A message entered once, and the checkpoint is at its receipt or past it.
EnteredOnce ==
    \A a \in GraphActions :
        /\ inputs[a] <= 1
        /\ inputs[a] = 1 => /\ checkpoint.state # "absent"
                            /\ journal[a].receipt # 0
                            /\ journal[a].receipt <= checkpoint.generation

\* Until a promoted turn starts, the checkpoint is the completed one of the
\* turn before it.
FollowsOn ==
    \A f \in Followups : journal[f].receipt # 0 =>
        /\ checkpoint.state # "absent"
        /\ checkpoint.generation < journal[f].receipt => checkpoint.state = "completed"
        /\ \A a \in GraphActions :
              journal[a].receipt < journal[f].receipt => journal[a].receipt <= checkpoint.generation

\* What makes TurnInputOnce and TurnsAreSerial inductive.
TurnInv == CarriedIsOwn /\ AbsentHasNone /\ EnteredOnce /\ FollowsOn

-----------------------------------------------------------------------------
(* What may complete a run.                                                 *)

\* An election counts.
LEMMA ThreadMoves ==
    ASSUME Inv, [Next]_vars, thread' # thread
    PROVE  thread'.revision = thread.revision + 1 /\ thread'.generation >= thread.generation
<1>1. Promise!Next
    BY NextIsStoreStep, StepIsElection, Zenon
<1>2. \E status, a : thread' = Promise!Successor(thread, status, a)
    BY <1>1, Zenon DEF Promise!Next, Promise!Elect, Promise!EnterDeletion
<1>3. thread \in Thread
    BY Zenon DEF Inv, TypeInv, TypeOK
<1> QED
    BY <1>2, <1>3 DEF Promise!Successor, Thread

\* Only a reconciling pass that read the completed checkpoint of the run's writer completes
\* the run or promotes a turn.
ByProof == \E p \in Passes : ApplyReconcile(p) /\ Proves(p) /\ thread = pass[p].witness

\* The run does not become completed, and no waiting turn takes it.
Unproven == thread'.status = "completed" => thread.status = "completed"
Unpromoted == thread'.writer = thread.writer \/ thread'.writer \notin Followups

\* No delivery completes the run or promotes a turn.
LEMMA DeliveryProvesNothing ==
    ASSUME Inv, NEW d \in Dispatchers, Delivery(d)
    PROVE  Unproven /\ Unpromoted
<1> USE DEF store, gateway, outside, history, Unproven, Unpromoted
<1>1. CASE RecordFailure(d)
    <2>1. thread' = thread \/ thread' = Successor("input_required", thread.writer)
        BY <1>1, Zenon DEF RecordFailure, FailureRecordable
    <2> QED
        BY <2>1 DEF Successor
<1>2. CASE FinishCreate(d)
    <2>1. thread' = thread \/ thread' = Successor("running", Ingest)
        BY <1>2, Zenon DEF FinishCreate
    <2> QED
        BY <2>1, ActionAssumption DEF Successor
<1>3. CASE RecordRedriveFailure(d)
    <2>1. thread' = thread \/ thread' = Successor("reconciling", thread.writer)
        BY <1>3, Zenon DEF RecordRedriveFailure, Quarantine
    <2> QED
        BY <2>1 DEF Successor
<1>4. CASE UNCHANGED thread
    BY <1>4, Zenon
<1> QED
    BY <1>1, <1>2, <1>3, <1>4, Zenon DEF Delivery, Bind, DeliverDuplicate, DeliverGraph, DeliverCancel,
          DeliverBusy, Undelivered

\* Nor does a client's request ...
LEMMA ClientProvesNothing ==
    ASSUME Inv, Client
    PROVE  Unproven /\ Unpromoted
<1> USE DEF store, gateway, outside, history, Unproven, Unpromoted
<1>1. ASSUME NEW d \in Dispatchers, CancelThread(d) PROVE Unproven /\ Unpromoted
    <2>1. thread' = thread \/ thread' = Successor("cancelling", Cancel)
        BY <1>1, Zenon DEF CancelThread, ElectCancel
    <2> QED
        BY <2>1, ActionAssumption DEF Successor
<1>2. ASSUME NEW d \in Dispatchers, NEW i \in 1..Len(Asks), AcceptAnswer(d, i)
      PROVE  Unproven /\ Unpromoted
    <2>1. thread' = thread \/ thread' = Successor(thread.status, Asks[i])
        BY <1>2, Zenon DEF AcceptAnswer, InstallAnswer, ReclaimAnswer
    <2>2. Asks[i] \notin Followups
        BY ActionAssumption, Zenon DEF Answers
    <2> QED
        BY <2>1, <2>2 DEF Successor
<1>3. CASE Archive \/ Delete
    <2>1. \E s \in {"archived", "deleting"} : thread' = Successor(s, thread.writer)
        BY <1>3, Zenon DEF Archive, Delete
    <2> QED
        BY <2>1 DEF Successor
<1>4. CASE UNCHANGED thread
    BY <1>4, Zenon
<1> QED
    BY <1>1, <1>2, <1>3, <1>4, Zenon DEF Client, SendFollowup, ReadHeld, RefuseAnswer, ReadRun

\* ... a recovery ...
LEMMA RecoveryProvesNothing ==
    ASSUME Inv, Recovery
    PROVE  Unproven /\ Unpromoted
<1> USE DEF store, gateway, outside, history, Unproven, Unpromoted
<1>1. CASE RefuseRecovery \/ ExpireOverdue
    <2>1. thread' = thread \/ thread' = Successor("reconciling", thread.writer)
        BY <1>1, Zenon DEF RefuseRecovery, ExpireOverdue, Quarantine
    <2> QED
        BY <2>1 DEF Successor
<1>2. CASE SweepRefuse
    <2>1. thread' = Successor("failed", thread.writer)
        BY <1>2, Zenon DEF SweepRefuse, SettleTerminal
    <2> QED
        BY <2>1, Zenon DEF Successor
<1>3. CASE UNCHANGED thread
    BY <1>3, Zenon
<1> QED
    BY <1>1, <1>2, <1>3, Zenon DEF Recovery, Redrive, SweepClaim, SweepList, SweepSkip

\* ... or an event of the worker, whatever it reports.
LEMMA RelayProvesNothing ==
    ASSUME Inv, NEW e \in events, Relay(e)
    PROVE  Unproven /\ Unpromoted
<1> USE DEF store, gateway, outside, history, Unproven, Unpromoted
<1>1. \/ thread' = thread
      \/ \E s \in {"failed", "cancelled"} : thread' = Successor(s, thread.writer)
    BY Zenon DEF Relay, HandleApplication, HandlePaused, HandleCompleted, HandleFailed, HandleCancelled,
          SettleTerminal
<1> QED
    BY <1>1 DEF Successor

\* A pass does, by the completed checkpoint of the writer it witnessed.
LEMMA PassProves ==
    ASSUME Inv, NEW p \in Passes, PassStep(p)
    PROVE  ByProof \/ (Unproven /\ Unpromoted)
<1> USE DEF store, gateway, outside, history
<1>1. CASE ApplyPause(p)
    <2>1. thread' = thread \/ \E s \in {"input_required", "running"} : thread' = Successor(s, thread.writer)
        BY <1>1, Zenon DEF ApplyPause
    <2> QED
        BY <2>1 DEF Successor, Unproven, Unpromoted
<1>2. CASE ApplyReconcile(p)
    <2>1. CASE thread' = thread \/ thread' = Successor("reconciling", thread.writer)
        BY <2>1 DEF Successor, Unproven, Unpromoted
    <2>2. CASE /\ Evidence(pass[p].saw, pass[p].witness.writer, pass[p].witness.generation) = "completed"
               /\ thread = pass[p].witness
        <3>1. pass[p].saw \in Checkpoint /\ pass[p].stage = "read"
            BY <1>2, Zenon DEF Inv, TypeInv, TypeOK, Pass, ApplyReconcile
        <3>2. Proves(p)
            BY <2>2, <3>1, Zenon DEF Proves, Evidence, Checkpoint
        <3> QED
            BY <1>2, <2>2, <3>2, Zenon DEF ByProof
    <2> QED
        BY <1>2, <2>1, <2>2, Zenon DEF ApplyReconcile
<1>3. CASE MarkUnread(p)
    <2>1. thread' = Successor("reconciling", thread.writer)
        BY <1>3, Zenon DEF MarkUnread
    <2> QED
        BY <2>1 DEF Successor, Unproven, Unpromoted
<1>4. CASE UNCHANGED thread
    BY <1>4, Zenon DEF Unproven, Unpromoted
<1> QED
    BY <1>1, <1>2, <1>3, <1>4, Zenon DEF PassStep, WitnessPause, WitnessReconcile, ReadCheckpoint, AbandonPass

\* So a run completes and a turn is promoted only by such a pass.
LEMMA CompletionIsProven == Inv /\ [Next]_vars => ByProof \/ (Unproven /\ Unpromoted)
<1> SUFFICES ASSUME Inv, [Next]_vars PROVE ByProof \/ (Unproven /\ Unpromoted)
    OBVIOUS
<1>1. CASE UNCHANGED thread
    BY <1>1, Zenon DEF Unproven, Unpromoted
<1>2. CASE WorkerStep
    BY <1>1, <1>2, Zenon DEF WorkerStep, BeginIngest, BeginResume, Cease, Finish, store
<1>3. CASE WorkerStops \/ GatewayRestarts \/ Tick \/ UNCHANGED vars
    BY <1>1, <1>3, Zenon DEF WorkerStops, GatewayRestarts, Tick, vars, store
<1> QED
    BY <1>2, <1>3, DeliveryProvesNothing, ClientProvesNothing, RecoveryProvesNothing,
       RelayProvesNothing, PassProves, Zenon DEF Next

-----------------------------------------------------------------------------
(* What the worker's slot, the calls and the passes may become.             *)

\* Only the worker writes the checkpoint, and nothing else in that step.
LEMMA CheckpointMoves ==
    ASSUME [Next]_vars
    PROVE  checkpoint' = checkpoint \/ (WorkerStep /\ UNCHANGED <<store, gateway>>)
<1> USE DEF store, gateway, outside, history
<1>1. ASSUME NEW d \in Dispatchers, Delivery(d) PROVE checkpoint' = checkpoint
    BY <1>1, Zenon DEF Delivery, Bind, DeliverDuplicate, DeliverGraph, DeliverCancel,
          DeliverBusy, Undelivered, RecordFailure, RecordRedriveFailure, FinishCreate
<1>2. ASSUME Client PROVE checkpoint' = checkpoint
    BY <1>2, Zenon DEF Client, SendFollowup, CancelThread, ReadHeld, RefuseAnswer, AcceptAnswer, ReadRun,
          Archive, Delete
<1>3. ASSUME Recovery PROVE checkpoint' = checkpoint
    BY <1>3, Zenon DEF Recovery, Redrive, SweepClaim, RefuseRecovery, ExpireOverdue, SweepList, SweepSkip,
          SweepRefuse
<1>4. ASSUME NEW e \in events, Relay(e) PROVE checkpoint' = checkpoint
    BY <1>4, Zenon DEF Relay
<1>5. ASSUME NEW p \in Passes, PassStep(p) PROVE checkpoint' = checkpoint
    BY <1>5, Zenon DEF PassStep, WitnessPause, WitnessReconcile, ReadCheckpoint, AbandonPass, MarkUnread,
          ApplyPause, ApplyReconcile
<1>6. ASSUME WorkerStops \/ GatewayRestarts \/ Tick \/ UNCHANGED vars PROVE checkpoint' = checkpoint
    BY <1>6, Zenon DEF WorkerStops, GatewayRestarts, Tick, vars
<1>7. ASSUME WorkerStep PROVE UNCHANGED <<store, gateway>>
    BY <1>7, Zenon DEF WorkerStep, BeginIngest, BeginResume, Cease, Finish
<1> QED
    BY <1>1, <1>2, <1>3, <1>4, <1>5, <1>6, <1>7, ZenonT(60) DEF Next

\* A pass that has read keeps its witness and what it read, or reads now.
PassKeeps(p) ==
    /\ pass'[p].witness \in {pass[p].witness, thread, NewThread}
    /\ pass'[p].stage = "read" =>
          /\ pass'[p].witness = pass[p].witness
          /\ \/ pass[p].stage = "read" /\ pass'[p].saw = pass[p].saw
             \/ pass'[p].saw = checkpoint /\ checkpoint' = checkpoint

\* Every step leaves every pass so.
LEMMA PassMoves ==
    ASSUME Inv, [Next]_vars, NEW p \in Passes
    PROVE  PassKeeps(p)
<1> USE DEF store, gateway, outside, history
<1>0. pass \in [Passes -> Pass]
    BY Zenon DEF Inv, TypeInv, TypeOK
<1>1. ASSUME pass' = pass PROVE PassKeeps(p)
    BY <1>1, Zenon DEF PassKeeps
<1>2. ASSUME NEW kind, OpenPass(kind) PROVE PassKeeps(p)
    BY <1>0, <1>2 DEF OpenPass, Open, PassKeeps
<1>3. ASSUME NEW q \in Passes, EndPass(q) PROVE PassKeeps(p)
    BY <1>0, <1>3, Zenon DEF EndPass, NoPass, Open, PassKeeps
<1>4. ASSUME NEW d \in Dispatchers, Delivery(d) PROVE pass' = pass
    BY <1>4, Zenon DEF Delivery, Bind, DeliverDuplicate, DeliverGraph, DeliverCancel,
          DeliverBusy, Undelivered, RecordFailure, RecordRedriveFailure, FinishCreate
<1>5. ASSUME Client PROVE pass' = pass \/ OpenPass("observe")
    BY <1>5, Zenon DEF Client, SendFollowup, CancelThread, ReadHeld, RefuseAnswer, AcceptAnswer, ReadRun,
          Archive, Delete
<1>6. ASSUME Recovery PROVE pass' = pass
    BY <1>6, Zenon DEF Recovery, Redrive, SweepClaim, RefuseRecovery, ExpireOverdue, SweepList, SweepSkip,
          SweepRefuse
<1>7. ASSUME NEW e \in events, Relay(e) PROVE pass' = pass \/ \E kind \in {"pause", "observe"} : OpenPass(kind)
    BY <1>7, Zenon DEF Relay, HandleApplication, HandlePaused, HandleCompleted, HandleFailed, HandleCancelled
<1>8. ASSUME NEW q \in Passes, PassStep(q) PROVE PassKeeps(p)
    <2>1. CASE ReadCheckpoint(q)
        BY <1>0, <2>1 DEF ReadCheckpoint, PassKeeps
    <2>2. CASE /\ pass' = [pass EXCEPT ![q].stage = "witnessed", ![q].witness = thread]
        BY <1>0, <2>2 DEF PassKeeps
    <2>3. CASE \E pending, owned :
                pass' = [pass EXCEPT ![q].stage = "witnessed", ![q].witness = thread,
                                     ![q].pending = pending, ![q].owned = owned]
        BY <1>0, <2>3 DEF PassKeeps
    <2>4. EndPass(q) => PassKeeps(p)
        BY <1>3, Zenon
    <2> QED
        BY <1>8, <2>1, <2>2, <2>3, <2>4, ZenonT(60) DEF PassStep, WitnessPause, WitnessReconcile, AbandonPass, MarkUnread,
           ApplyPause, ApplyReconcile
<1>9. CASE GatewayRestarts
    BY <1>9 DEF GatewayRestarts, Open, NoPass, PassKeeps
<1>10. ASSUME WorkerStep \/ WorkerStops \/ Tick \/ UNCHANGED vars PROVE pass' = pass
    BY <1>10, Zenon DEF WorkerStep, BeginIngest, BeginResume, Cease, Finish, WorkerStops, Tick, vars
<1> QED
    BY <1>1, <1>2, <1>4, <1>5, <1>6, <1>7, <1>8, <1>9, <1>10, SMTT(60) DEF Next

\* A call keeps what it carries, drops it, or binds the receipt of the run's writer.
CallKeeps(d) ==
    \/ /\ call'[d].receipt = call[d].receipt
       /\ call'[d].action = call[d].action
       /\ call'[d].stage = "bound" => call[d].stage = "bound"
    \/ call'[d].receipt = 0 /\ call'[d].stage # "bound"
    \/ /\ call'[d].action = call[d].action
       /\ call'[d].action = Cancel \/ CurrentReceipt(call'[d].action)
       /\ call'[d].receipt = journal[call'[d].action].receipt
       /\ UNCHANGED journal

\* Every step leaves every call so.
LEMMA CallMoves ==
    ASSUME Inv, [Next]_vars, NEW d \in Dispatchers
    PROVE  CallKeeps(d)
<1> USE DEF store, gateway, outside, history
<1>0. call \in [Dispatchers -> Call]
    BY Zenon DEF Inv, TypeInv, TypeOK
<1>1. ASSUME call' = call PROVE CallKeeps(d)
    BY <1>1, Zenon DEF CallKeeps
<1>2. ASSUME NEW x \in Dispatchers, NEW c, call' = [call EXCEPT ![x] = c],
             c.receipt = 0, c.stage # "bound"
      PROVE  CallKeeps(d)
    BY <1>0, <1>2, Zenon DEF CallKeeps
<1>3. ASSUME NEW x \in Dispatchers, NEW s, s # "bound", call' = [call EXCEPT ![x].stage = s]
      PROVE  CallKeeps(d)
    BY <1>0, <1>3, Zenon DEF CallKeeps, Call
<1>4. IdleCall.receipt = 0 /\ IdleCall.stage # "bound"
    BY Zenon DEF IdleCall
<1>5. \A kind, a : Claimed(kind, a).receipt = 0 /\ Claimed(kind, a).stage # "bound"
    BY Zenon DEF Claimed
<1>6. ASSUME NEW x \in Dispatchers, Replied(x) PROVE CallKeeps(d)
    <2>1. CASE call[x].kind = "create"
        BY <1>0, <1>3, <1>6, <2>1, Zenon DEF Replied, Accepted, Call, CallKeeps
    <2>2. CASE call[x].kind # "create"
        BY <1>0, <1>2, <1>3, <1>4, <1>6, <2>2, ZenonT(60) DEF Replied, Accepted
    <2> QED
        BY <2>1, <2>2, Zenon
<1>7. ASSUME NEW x \in Dispatchers, Bind(x) PROVE CallKeeps(d)
    <2>1. CASE call' = [call EXCEPT ![x] = IdleCall]
        BY <1>2, <1>4, <2>1, Zenon
    <2>2. CASE /\ call[x].action = Cancel \/ CurrentReceipt(call[x].action)
               /\ call' = [call EXCEPT ![x] =
                     [@ EXCEPT !.stage = "bound", !.receipt = journal[call[x].action].receipt]]
        <3>1. CASE d = x
            <4>1. /\ call'[x].receipt = journal[call[x].action].receipt
                  /\ call'[x].action = call[x].action
                BY <1>0, <2>2, Zenon DEF Call
            <4>2. journal' = journal
                BY <1>7, Zenon DEF Bind
            <4> QED
                BY <2>2, <3>1, <4>1, <4>2, Zenon DEF CallKeeps
        <3>2. CASE d # x
            BY <1>0, <2>2, <3>2, Zenon DEF CallKeeps
        <3> QED
            BY <3>1, <3>2, Zenon
    <2> QED
        BY <1>0, <1>7, <2>1, <2>2, Zenon DEF Bind
<1>8. ASSUME NEW x \in Dispatchers, Delivery(x) PROVE CallKeeps(d)
    <2>1. CASE DeliverDuplicate(x) \/ DeliverGraph(x) \/ DeliverCancel(x)
        BY <1>6, <2>1, Zenon DEF DeliverDuplicate, DeliverGraph, DeliverCancel
    <2>2. CASE DeliverBusy(x) \/ Undelivered(x)
        BY <1>3, <2>2, ZenonT(60) DEF DeliverBusy, Undelivered
    <2>3. CASE RecordFailure(x) \/ RecordRedriveFailure(x) \/ FinishCreate(x)
        BY <1>2, <1>4, <2>3, Zenon DEF RecordFailure, RecordRedriveFailure, FinishCreate
    <2> QED
        BY <1>7, <1>8, <2>1, <2>2, <2>3, Zenon DEF Delivery
<1>9. ASSUME Client PROVE CallKeeps(d)
    <2>1. ASSUME NEW x \in Dispatchers, CancelThread(x) \/ RefuseAnswer(x) PROVE CallKeeps(d)
        BY <1>2, <1>4, <1>5, <2>1 DEF CancelThread, RefuseAnswer
    <2>2. ASSUME NEW x \in Dispatchers, ReadHeld(x) PROVE CallKeeps(d)
        <3> DEFINE c == [stage |-> IF checkpoint.state = "interrupted" THEN "held" ELSE "free",
                         kind |-> "answer", action |-> NoOne, receipt |-> 0]
        <3>1. c.receipt = 0 /\ c.stage # "bound"
            OBVIOUS
        <3>2. call' = [call EXCEPT ![x] = c]
            BY <2>2, Zenon DEF ReadHeld
        <3> HIDE DEF c
        <3> QED
            BY <1>2, <3>1, <3>2, Zenon
    <2>3. ASSUME NEW x \in Dispatchers, NEW i \in 1..Len(Asks), AcceptAnswer(x, i) PROVE CallKeeps(d)
        <3>1. call' = [call EXCEPT ![x] = Claimed("answer", Asks[i])]
            BY <2>3, Zenon DEF AcceptAnswer
        <3> QED
            BY <1>2, <1>5, <3>1, Zenon
    <2>4. ASSUME NEW f \in Followups, SendFollowup(f) PROVE CallKeeps(d)
        BY <1>1, <2>4, Zenon DEF SendFollowup
    <2>5. CASE ReadRun \/ Archive \/ Delete
        BY <1>1, <2>5, Zenon DEF ReadRun, Archive, Delete
    <2> QED
        BY <1>9, <2>1, <2>2, <2>3, <2>4, <2>5, ZenonT(60) DEF Client
<1>10. ASSUME Recovery PROVE CallKeeps(d)
    <2>1. ASSUME NEW x \in Dispatchers, Redrive(x) \/ SweepClaim(x) PROVE CallKeeps(d)
        BY <1>1, <1>2, <1>5, <2>1 DEF Redrive, SweepClaim
    <2>2. CASE RefuseRecovery \/ ExpireOverdue \/ SweepList \/ SweepSkip \/ SweepRefuse
        BY <1>1, <2>2, Zenon DEF RefuseRecovery, ExpireOverdue, SweepList, SweepSkip, SweepRefuse
    <2> QED
        BY <1>10, <2>1, <2>2, Zenon DEF Recovery
<1>11. ASSUME NEW e \in events, Relay(e) PROVE call' = call
    BY <1>11, Zenon DEF Relay
<1>12. ASSUME NEW p \in Passes, PassStep(p) PROVE call' = call
    BY <1>12, Zenon DEF PassStep, WitnessPause, WitnessReconcile, ReadCheckpoint, AbandonPass, MarkUnread,
          ApplyPause, ApplyReconcile
<1>13. ASSUME WorkerStep \/ WorkerStops \/ Tick \/ UNCHANGED vars PROVE call' = call
    BY <1>13, Zenon DEF WorkerStep, BeginIngest, BeginResume, Cease, Finish, WorkerStops, Tick, vars
<1>14. CASE GatewayRestarts
    BY <1>4, <1>14, Zenon DEF GatewayRestarts, CallKeeps
<1> QED
    BY <1>1, <1>8, <1>9, <1>10, <1>11, <1>12, <1>13, <1>14, ZenonT(60) DEF Next

\* The slot keeps its dispatch, is freed, admits the dispatch of a call, or starts the graph
\* it was admitted for.
SameSlot ==
    /\ worker'.action = worker.action
    /\ worker'.receipt = worker.receipt
    /\ worker'.phase = worker.phase
    /\ checkpoint' = checkpoint
    /\ inputs' = inputs
FreesSlot ==
    /\ worker'.phase = "idle"
    /\ worker'.receipt = 0
    /\ inputs' = inputs
    /\ \/ checkpoint' = checkpoint
       \/ /\ worker.phase = "executing"
          /\ \E s \in {"completed", "interrupted", "failed"} :
                checkpoint' = [checkpoint EXCEPT !.state = s]
Admits(d) ==
    /\ call[d].stage = "bound"
    /\ call[d].action \in GraphActions
    /\ worker'.action = call[d].action
    /\ worker'.receipt = call[d].receipt
    /\ worker'.phase = "admitted"
    /\ UNCHANGED <<store, checkpoint, inputs>>
Starts ==
    /\ worker.phase = "admitted"
    /\ worker'.action = worker.action
    /\ worker'.receipt = worker.receipt
    /\ worker'.phase = "executing"
    /\ checkpoint' = [owner |-> worker.action, generation |-> worker.receipt, state |-> "pending"]
    /\ \/ /\ worker.action \notin Answers
          /\ Evidence(checkpoint, worker.action, worker.receipt) \in {"absent", "prior"}
          /\ inputs' = [inputs EXCEPT ![worker.action] = @ + 1]
       \/ /\ worker.action \notin Answers
          /\ Evidence(checkpoint, worker.action, worker.receipt) = "pending"
          /\ inputs' = inputs
       \/ /\ worker.action \in Answers
          /\ checkpoint.state = "interrupted"
          /\ inputs' = [inputs EXCEPT ![worker.action] = @ + 1]
    /\ UNCHANGED store
SlotKeeps == SameSlot \/ FreesSlot \/ (\E d \in Dispatchers : Admits(d)) \/ Starts

\* Every step leaves the slot so.
LEMMA SlotMoves ==
    ASSUME Inv, [Next]_vars
    PROVE  SlotKeeps
<1> USE DEF store, gateway, outside, history
<1>0. worker \in Worker
    BY Zenon DEF Inv, TypeInv, TypeOK
<1>1. ASSUME worker' = worker, checkpoint' = checkpoint, inputs' = inputs PROVE SlotKeeps
    BY <1>1, ZenonT(60) DEF SlotKeeps, SameSlot
<1>2. ASSUME NEW d \in Dispatchers, Delivery(d) PROVE SlotKeeps
    <2>1. CASE DeliverGraph(d)
        BY <1>0, <2>1, Zenon DEF DeliverGraph, SlotKeeps, Admits, Worker
    <2>2. CASE DeliverCancel(d)
        BY <1>0, <2>2, Zenon DEF DeliverCancel, SlotKeeps, SameSlot, Worker
    <2> QED
        BY <1>1, <1>2, <2>1, <2>2 DEF Delivery, Bind, DeliverDuplicate,
          DeliverBusy, Undelivered, RecordFailure, RecordRedriveFailure, FinishCreate
<1>3. ASSUME Client PROVE SlotKeeps
    BY <1>1, <1>3, Zenon DEF Client, SendFollowup, CancelThread, ReadHeld, RefuseAnswer, AcceptAnswer, ReadRun,
          Archive, Delete
<1>4. ASSUME Recovery PROVE SlotKeeps
    BY <1>1, <1>4, Zenon DEF Recovery, Redrive, SweepClaim, RefuseRecovery, ExpireOverdue, SweepList, SweepSkip,
          SweepRefuse
<1>5. ASSUME NEW e \in events, Relay(e) PROVE SlotKeeps
    BY <1>1, <1>5, ZenonT(60) DEF Relay
<1>6. ASSUME NEW p \in Passes, PassStep(p) PROVE SlotKeeps
    BY <1>1, <1>6, Zenon DEF PassStep, WitnessPause, WitnessReconcile, ReadCheckpoint, AbandonPass, MarkUnread,
          ApplyPause, ApplyReconcile
<1>7. CASE WorkerStops
    BY <1>7, Zenon DEF WorkerStops, FreshWorker, SlotKeeps, FreesSlot
<1>8. CASE GatewayRestarts \/ Tick \/ UNCHANGED vars
    BY <1>1, <1>8, Zenon DEF GatewayRestarts, Tick, vars
<1>9. SlotFreed.phase = "idle" /\ SlotFreed.receipt = 0
    BY <1>0, Zenon DEF SlotFreed, Worker
<1>10. ASSUME NEW outcome, NEW applied, Report(outcome, applied)
       PROVE  worker'.phase = "idle" /\ worker'.receipt = 0
    BY <1>0, <1>10, Zenon DEF Report, SlotFreed, Worker
<1>11. ASSUME NEW b \in BOOLEAN, StartGraph(b)
       PROVE  /\ worker'.action = worker.action
              /\ worker'.receipt = worker.receipt
              /\ worker'.phase = "executing"
    BY <1>0, <1>11, Zenon DEF StartGraph, Worker
<1>12. CASE BeginIngest
    <2>1. UNCHANGED store /\ worker.phase = "admitted" /\ worker.action \notin Answers
        BY <1>12, Zenon DEF BeginIngest
    <2>2. CASE /\ Evidence(checkpoint, worker.action, worker.receipt) \in {"absent", "prior"}
               /\ StartGraph(TRUE)
        <3>1. /\ inputs' = [inputs EXCEPT ![worker.action] = @ + 1]
              /\ checkpoint' = [owner |-> worker.action, generation |-> worker.receipt,
                                state |-> "pending"]
            BY <2>2, Zenon DEF StartGraph
        <3> QED
            BY <1>11, <2>1, <2>2, <3>1, Zenon DEF SlotKeeps, Starts
    <2>3. CASE /\ Evidence(checkpoint, worker.action, worker.receipt) = "pending"
               /\ StartGraph(FALSE)
        <3>1. /\ inputs' = inputs
              /\ checkpoint' = [owner |-> worker.action, generation |-> worker.receipt,
                                state |-> "pending"]
            BY <2>3, Zenon DEF StartGraph
        <3> QED
            BY <1>11, <2>1, <2>3, <3>1, Zenon DEF SlotKeeps, Starts
    <2>4. CASE UNCHANGED <<checkpoint, inputs>> /\ \E outcome, applied : Report(outcome, applied)
        BY <1>10, <2>4, Zenon DEF SlotKeeps, FreesSlot
    <2>5. CASE UNCHANGED <<checkpoint, inputs>> /\ worker' = SlotFreed
        BY <1>9, <2>5, Zenon DEF SlotKeeps, FreesSlot
    <2> QED
        BY <1>12, <2>2, <2>3, <2>4, <2>5, Zenon DEF BeginIngest
<1>13. CASE BeginResume
    BY <1>9, <1>11, <1>13, Zenon DEF BeginResume, StartGraph, SlotKeeps, Starts, FreesSlot
<1>14. ASSUME NEW s \in {"completed", "interrupted", "failed"}, Finish(s) PROVE SlotKeeps
    BY <1>10, <1>14, Zenon DEF Finish, SlotKeeps, FreesSlot
<1>15. CASE Cease
    BY <1>10, <1>15, Zenon DEF Cease, SlotKeeps, FreesSlot
<1> QED
    BY <1>2, <1>3, <1>4, <1>5, <1>6, <1>7, <1>8, <1>12, <1>13, <1>14, <1>15, ZenonT(60) DEF Next, WorkerStep

-----------------------------------------------------------------------------
(* A completed run is a completed turn of its writer.                       *)

\* The completed checkpoint of the generation in force is final: the slot holds nothing newer.
LEMMA CompletedStays ==
    ASSUME Inv, CarriedIsPast, ExecutingIsPending, SlotKeeps,
           checkpoint.state = "completed", checkpoint.generation = thread.generation
    PROVE  checkpoint' = checkpoint
<1>0. worker.receipt \in Nat /\ thread.generation \in Nat /\ worker.receipt <= thread.generation
    BY Zenon DEF Inv, TypeInv, TypeOK, Worker, Thread, CarriedIsPast
<1>1. CASE FreesSlot
    BY <1>1 DEF FreesSlot, ExecutingIsPending
<1>2. CASE Starts
    <2>1. Evidence(checkpoint, worker.action, worker.receipt) \notin {"absent", "prior", "pending"}
        BY <1>0 DEF Evidence
    <2> QED
        BY <1>2, <2>1, Zenon DEF Starts
<1> QED
    BY <1>1, <1>2, Zenon DEF SlotKeeps, SameSlot, Admits

\* A completed run that stays completed does not move.
LEMMA CompletedRests ==
    ASSUME Inv, [Next]_vars, thread.status = "completed", thread'.status = "completed"
    PROVE  thread' = thread
<1> SUFFICES ASSUME thread' # thread PROVE FALSE
    OBVIOUS
<1>1. Promise!Next
    BY NextIsStoreStep, StepIsElection, Zenon
<1>2. CASE Promise!EnterDeletion
    BY <1>2, Zenon DEF Promise!EnterDeletion, Promise!Successor
<1>3. ASSUME NEW status, NEW a, Promise!Elect(status, a) PROVE FALSE
    <2>1. status = "completed"
        BY <1>3, Zenon DEF Promise!Elect, Promise!Successor
    <2>2. thread.status \in Promise!NonActive
        BY Zenon DEF Promise!NonActive, Promise!Terminal
    <2> QED
        BY <1>3, <2>1, <2>2, Zenon DEF Promise!Elect
<1> QED
    BY <1>1, <1>2, <1>3, Zenon DEF Promise!Next

\* Every step keeps the completed run proven.
LEMMA ProvenStep == ProvenInv /\ Inv /\ Inv' /\ [Next]_vars => ProvenInv'
<1> SUFFICES ASSUME ProvenInv, Inv, Inv', [Next]_vars PROVE ProvenInv'
    OBVIOUS
<1> USE DEF ProvenInv
<1>0. /\ thread \in Thread /\ thread' \in Thread /\ pass \in [Passes -> Pass]
      /\ worker \in Worker /\ call \in [Dispatchers -> Call] /\ journal \in [Actions -> Row]
      /\ checkpoint \in Checkpoint
    BY Zenon DEF Inv, TypeInv, TypeOK
<1>1. /\ thread.revision \in Nat /\ thread'.revision \in Nat
      /\ thread.generation \in Nat /\ thread'.generation \in Nat
      /\ thread.revision <= thread'.revision
      /\ thread.generation <= thread'.generation
      /\ thread' # thread => thread.revision < thread'.revision
    BY <1>0, ThreadMoves DEF Thread
<1>2. SlotKeeps
    BY SlotMoves, Zenon
<1>3. WitnessIsPast'
    <2> SUFFICES ASSUME NEW p \in Passes PROVE pass'[p].witness.revision <= thread'.revision
        BY Zenon DEF WitnessIsPast
    <2>1. pass'[p].witness \in {pass[p].witness, thread, NewThread}
        BY PassMoves, Zenon DEF PassKeeps
    <2>2. pass[p].witness.revision \in Nat /\ pass[p].witness.revision <= thread.revision
        BY <1>0, Zenon DEF WitnessIsPast, Pass, Thread
    <2> QED
        BY <1>1, <2>1, <2>2 DEF NewThread
<1>4. CarriedIsPast'
    <2>1. ASSUME NEW d \in Dispatchers PROVE call'[d].receipt <= thread'.generation
        <3>1. call[d].receipt \in Nat /\ call[d].receipt <= thread.generation
            BY <1>0, Zenon DEF CarriedIsPast, Call
        <3>2. \A a \in Actions : journal[a].receipt \in Nat /\ journal[a].receipt <= thread.generation
            BY <1>0, Zenon DEF Inv, Authority, ReceiptsAreUnique, Row
        <3>3. CASE /\ call'[d].action = Cancel \/ CurrentReceipt(call'[d].action)
                   /\ call'[d].receipt = journal[call'[d].action].receipt
            <4>1. call'[d].action \in Actions
                BY <3>3, Zenon DEF CurrentReceipt, Actions
            <4> QED
                BY <1>1, <3>2, <3>3, <4>1
        <3> QED
            BY <1>1, <3>1, <3>3, CallMoves DEF CallKeeps
    <2>2. worker'.receipt <= thread'.generation
        <3>1. worker.receipt \in Nat /\ worker.receipt <= thread.generation
            BY <1>0, Zenon DEF CarriedIsPast, Worker
        <3>2. \A d \in Dispatchers : call[d].receipt \in Nat /\ call[d].receipt <= thread.generation
            BY <1>0, Zenon DEF CarriedIsPast, Call
        <3> QED
            BY <1>1, <1>2, <3>1, <3>2 DEF SlotKeeps, SameSlot, FreesSlot, Admits, Starts
    <2> QED
        BY <2>1, <2>2, Zenon DEF CarriedIsPast
<1>5. ExecutingIsPending'
    BY <1>2, Zenon DEF ExecutingIsPending, SlotKeeps, SameSlot, FreesSlot, Admits, Starts
<1>6. ProofStands'
    <2> SUFFICES ASSUME NEW p \in Passes, Proves(p)', thread' = pass'[p].witness
                 PROVE  checkpoint' = pass'[p].saw
        BY Zenon DEF ProofStands
    <2>1. pass'[p].stage = "read" /\ PassKeeps(p)
        BY PassMoves, Zenon DEF Proves
    <2>2. thread' = thread /\ thread = pass[p].witness
        <3>1. pass[p].witness.revision \in Nat /\ pass[p].witness.revision <= thread.revision
            BY <1>0, Zenon DEF WitnessIsPast, Pass, Thread
        <3>2. pass'[p].witness = pass[p].witness
            BY <2>1, Zenon DEF PassKeeps
        <3> QED
            BY <1>1, <3>1, <3>2, SMTT(60)
    <2>3. CASE pass[p].stage = "read" /\ pass'[p].saw = pass[p].saw
        <3>1. Proves(p)
            BY <2>1, <2>2, <2>3, Zenon DEF Proves, PassKeeps
        <3>2. checkpoint = pass[p].saw
            BY <2>2, <3>1, ZenonT(60) DEF ProofStands
        <3>3. checkpoint.state = "completed" /\ checkpoint.generation = thread.generation
            BY <2>2, <3>1, <3>2 DEF Proves
        <3> QED
            BY <1>2, <2>3, <3>2, <3>3, CompletedStays, ZenonT(60)
    <2> QED
        BY <2>1, <2>3, Zenon DEF PassKeeps
<1>7. CompletedIsProven'
    <2> SUFFICES ASSUME thread'.status = "completed"
                 PROVE  checkpoint' = [owner |-> thread'.writer, generation |-> thread'.generation,
                                       state |-> "completed"]
        BY Zenon DEF CompletedIsProven
    <2>1. ASSUME NEW p \in Passes, ApplyReconcile(p), Proves(p), thread = pass[p].witness
          PROVE  checkpoint' = [owner |-> thread'.writer, generation |-> thread'.generation,
                                state |-> "completed"]
        <3>1. checkpoint' = checkpoint
            BY <2>1, Zenon DEF ApplyReconcile, outside
        <3>2. checkpoint = [owner |-> thread.writer, generation |-> thread.generation,
                            state |-> "completed"]
            BY <2>1, Zenon DEF ProofStands, Proves
        <3>3. thread'.writer = thread.writer /\ thread'.generation = thread.generation
            <4>1. CASE thread' = thread
                BY <4>1, Zenon
            <4>2. CASE \E s : thread' = Successor(s, thread.writer)
                BY <4>2 DEF Successor
            <4>3. ASSUME NEW f, Promote(f) PROVE FALSE
                BY <4>3, Zenon DEF Promote, Successor
            <4> QED
                BY <2>1, <4>1, <4>2, <4>3, ZenonT(60) DEF ApplyReconcile, SettleCompleted, SettleTerminal, store
        <3> QED
            BY <3>1, <3>2, <3>3, Zenon
    <2>2. CASE Unproven
        <3>1. thread' = thread
            BY <2>2, CompletedRests, Zenon DEF Unproven
        <3>2. checkpoint = [owner |-> thread.writer, generation |-> thread.generation,
                            state |-> "completed"]
            BY <3>1, Zenon DEF CompletedIsProven
        <3> QED
            BY <1>2, <3>1, <3>2, CompletedStays, Zenon
    <2> QED
        BY <2>1, <2>2, CompletionIsProven, Zenon DEF ByProof
<1> QED
    BY <1>3, <1>4, <1>5, <1>6, <1>7, Zenon

\* A new run is not completed and nothing is under way.
LEMMA InitProven == Init => ProvenInv
<1> SUFFICES ASSUME Init PROVE ProvenInv
    OBVIOUS
<1>1. /\ thread = NewThread /\ worker = FreshWorker
      /\ \A p \in Passes : pass[p] = NoPass
      /\ \A d \in Dispatchers : call[d].receipt = 0
    BY DEF Init, IdleCall
<1>2. WitnessIsPast /\ ProofStands
    BY <1>1 DEF WitnessIsPast, ProofStands, Proves, NoPass, Open, NewThread
<1>3. CarriedIsPast /\ ExecutingIsPending /\ CompletedIsProven
    BY <1>1 DEF CarriedIsPast, ExecutingIsPending, CompletedIsProven, NewThread, FreshWorker
<1> QED
    BY <1>2, <1>3, Zenon DEF ProvenInv

\* What makes CompletedIsProven inductive holds in every reachable state.
THEOREM ProvenHolds == Spec => []ProvenInv
<1> QED
    BY InitProven, ProvenStep, InvHolds, PTL DEF Spec

\* A completed run stands on the completed checkpoint of its current writer,
\* however late the pass that read it was applied (reconcile_run_checkpoint).
THEOREM CompletedIsProvenTheorem == Spec => []CompletedIsProven
<1>1. ProvenInv => CompletedIsProven
    BY Zenon DEF ProvenInv
<1> QED
    BY <1>1, ProvenHolds, PTL

-----------------------------------------------------------------------------
(* Turns, where no permission is asked for.                                 *)

\* No turn gets a receipt.
KeepsReceipts == \A a \in GraphActions : journal'[a].receipt = journal[a].receipt

\* The promotion gives the waiting turn the receipt of the next generation.
Promoted(f) ==
    /\ thread'.writer = f
    /\ thread.writer # f
    /\ journal[f].receipt = 0
    /\ journal'[f].receipt = thread.generation + 1
    /\ \A a \in GraphActions \ {f} : journal'[a].receipt = journal[a].receipt

\* Only a promotion gives a turn a receipt, and a turn keeps the one it has.
LEMMA ReceiptMoves ==
    ASSUME Inv, AbsentHasNone, Answers = {}, StoreStep
    PROVE  AbsentHasNone' /\ (KeepsReceipts \/ \E f \in Followups : Promoted(f))
<1> DEFINE Goal == AbsentHasNone' /\ (KeepsReceipts \/ \E f \in Followups : Promoted(f))
<1>0. /\ thread \in Thread /\ journal \in [Actions -> Row] /\ thread.writer \in Actions
      /\ Followups \subseteq GraphActions /\ GraphActions \subseteq Actions /\ Cancel \notin GraphActions
    BY ActionAssumption, Zenon DEF Inv, TypeInv, TypeOK, Thread, Actions, GraphActions
<1>1. ASSUME \A a \in Actions : /\ journal'[a].receipt = journal[a].receipt
                                /\ \/ journal'[a].result = journal[a].result
                                   \/ journal'[a].result \in Settled
      PROVE  Goal
    <2>1. \A a \in Actions : journal'[a].result = "absent" => journal[a].result = "absent"
        BY <1>1, Zenon DEF Settled
    <2> QED
        BY <1>0, <1>1, <2>1, Zenon DEF AbsentHasNone, Exists, KeepsReceipts
<1>2. CASE SameDecisions \/ WriterDecided
    BY <1>1, <1>2, Zenon DEF SameDecisions, WriterDecided
<1>3. CASE Archive \/ Delete
    BY <1>1, <1>3, Zenon DEF Archive, Delete
<1>4. ASSUME NEW status \in Terminal, NEW result \in Settled, SettleTerminal(status, result)
      PROVE  Goal
    <2>0. status \in Status
        BY StatusFacts, Zenon
    <2>1. \A a \in Actions :
             journal'[a] = IF a = thread.writer
                           THEN SettledAs(QueueRefused(journal)[a], result)
                           ELSE QueueRefused(journal)[a]
        BY <1>0, <1>4, <2>0, SettleTerminalType, ZenonT(60)
    <2>2. \A a \in Actions : journal'[a].receipt = journal[a].receipt
        BY <1>0, <2>1, QueueRefusedType, SettledAsType, SMTT(60)
    <2>3. \A a \in Actions : \/ journal'[a].result = journal[a].result
                             \/ journal'[a].result \in Settled
        BY <1>0, <2>1, QueueRefusedType, SettledAsType, SMTT(30) DEF Settled
    <2> QED
        BY <1>1, <2>2, <2>3, Zenon
<1>5. CASE CancelTakes
    <2>1. \A a \in GraphActions : journal'[a] = journal[a]
        BY <1>0, <1>5, Zenon DEF CancelTakes
    <2> QED
        BY <1>0, <2>1, Zenon DEF AbsentHasNone, Exists, KeepsReceipts
<1>6. ASSUME NEW f \in Followups, PromotionTakes(f) PROVE Goal
    <2>1. f # thread.writer /\ journal[f].receipt = 0 /\ f \in Actions
        BY <1>0, <1>6, Zenon DEF PromotionTakes, NextContinuation, Inv, Authority, QueuedOwnsNothing
    <2>2. thread'.writer = f /\ thread'.generation = thread.generation + 1
        BY <1>6, <2>1, Zenon DEF PromotionTakes, Successor
    <2>3. \A a \in Actions \ {f} :
             /\ journal'[a].receipt = journal[a].receipt
             /\ journal'[a].result = "absent" => journal[a].result = "absent"
        BY <1>6, <2>1, ZenonT(60) DEF PromotionTakes
    <2>4. journal'[f].receipt = thread.generation + 1 /\ journal'[f].result # "absent"
        BY <1>6, <2>2, Zenon DEF PromotionTakes
    <2>5. Promoted(f)
        BY <1>0, <2>1, <2>2, <2>3, <2>4, ZenonT(60) DEF Promoted
    <2> QED
        BY <1>0, <2>3, <2>4, <2>5, Zenon DEF AbsentHasNone, Exists
<1>7. ASSUME NEW f \in Followups, SendFollowup(f) PROVE Goal
    <2>1. /\ journal'[f].result = "queued" /\ journal'[f].receipt = 0 /\ journal[f].receipt = 0
          /\ \A a \in Actions \ {f} : journal'[a] = journal[a]
        BY <1>0, <1>7, Zenon DEF SendFollowup, AbsentHasNone
    <2> QED
        BY <1>0, <2>1, Zenon DEF AbsentHasNone, Exists, KeepsReceipts
<1> QED
    BY <1>2, <1>3, <1>4, <1>5, <1>6, <1>7, ZenonT(60) DEF StoreStep

\* A promotion finds the completed checkpoint of the generation in force.
LEMMA PromotedOnCompleted ==
    ASSUME Inv, ProvenInv, [Next]_vars, NEW f \in Followups, Promoted(f)
    PROVE  /\ checkpoint' = checkpoint
           /\ checkpoint.state = "completed"
           /\ checkpoint.generation = thread.generation
<1>1. PICK p \in Passes : ApplyReconcile(p) /\ Proves(p) /\ thread = pass[p].witness
    BY CompletionIsProven, Zenon DEF Promoted, Unpromoted, ByProof
<1>2. checkpoint' = checkpoint
    BY <1>1, Zenon DEF ApplyReconcile, outside
<1>3. checkpoint = pass[p].saw
    BY <1>1, Zenon DEF ProvenInv, ProofStands
<1> QED
    BY <1>1, <1>2, <1>3 DEF Proves

\* What the evidence of a receipt says of the checkpoint.
LEMMA EvidenceFacts ==
    ASSUME NEW cp \in Checkpoint, NEW a, NEW g
    PROVE  /\ Evidence(cp, a, g) \in {"absent", "prior"} => cp.state = "absent" \/ cp.generation < g
           /\ Evidence(cp, a, g) = "pending" =>
                 cp.state = "pending" /\ cp.owner = a /\ cp.generation = g
<1>1. cp.state \in {"absent", "pending", "interrupted", "completed", "failed"}
    BY Zenon DEF Checkpoint, CheckpointState
<1> QED
    BY <1>1, Zenon DEF Evidence

\* A graph that starts, starts at a receipt the checkpoint does not exceed, and below it
\* no turn was promoted.
LEMMA StartsForward ==
    ASSUME Inv, TurnInv, Answers = {}, Starts
    PROVE  /\ worker.action \in GraphActions
           /\ worker.receipt = journal[worker.action].receipt /\ worker.receipt # 0
           /\ checkpoint.state = "absent" \/ checkpoint.generation <= worker.receipt
           /\ \A f \in Followups : journal[f].receipt # 0 => journal[f].receipt <= worker.receipt
<1>0. /\ worker \in Worker /\ checkpoint \in Checkpoint /\ journal \in [Actions -> Row]
      /\ worker.receipt \in Nat /\ checkpoint.generation \in Nat
      /\ \A a \in Actions : journal[a].receipt \in Nat
      /\ GraphActions \subseteq Actions /\ Followups \subseteq GraphActions
    BY Zenon DEF Inv, TypeInv, TypeOK, Worker, Checkpoint, Row, Actions, GraphActions
<1>1. worker.action \in GraphActions
    BY Zenon DEF Starts, Inv, TypeInv, SlotHoldsAction
<1>2. worker.receipt = journal[worker.action].receipt /\ worker.receipt # 0
    BY Zenon DEF Starts, TurnInv, CarriedIsOwn
<1>3. \/ checkpoint.state = "absent"
      \/ checkpoint.generation < worker.receipt
      \/ checkpoint.state = "pending" /\ checkpoint.generation = worker.receipt
    BY <1>0, EvidenceFacts DEF Starts
<1>4. ASSUME NEW f \in Followups, journal[f].receipt # 0
      PROVE  journal[f].receipt <= worker.receipt
    <2>1. /\ checkpoint.state # "absent"
          /\ checkpoint.generation < journal[f].receipt => checkpoint.state = "completed"
          /\ worker.receipt < journal[f].receipt => worker.receipt <= checkpoint.generation
        BY <1>1, <1>2, <1>4, Zenon DEF TurnInv, FollowsOn
    <2>2. journal[f].receipt \in Nat
        BY <1>0, Zenon
    <2> QED
        BY <1>0, <1>3, <2>1, <2>2, SMTT(60)
<1> QED
    BY <1>0, <1>1, <1>2, <1>3, <1>4, SMTT(60)

\* Every step keeps the turns entered once and in sequence.
LEMMA TurnStep ==
    ASSUME Answers = {}
    PROVE  TurnInv /\ ProvenInv /\ Inv /\ Inv' /\ [Next]_vars => TurnInv'
<1> SUFFICES ASSUME TurnInv, ProvenInv, Inv, Inv', [Next]_vars PROVE TurnInv'
    BY ZenonT(60)
<1>0. /\ worker \in Worker /\ checkpoint \in Checkpoint /\ call \in [Dispatchers -> Call]
      /\ worker.receipt \in Nat /\ checkpoint.generation \in Nat /\ thread.generation \in Nat
      /\ inputs \in [GraphActions -> Nat]
      /\ \A a \in Actions : journal[a].receipt \in Nat /\ journal[a].receipt <= thread.generation
      /\ GraphActions \subseteq Actions /\ Followups \subseteq GraphActions
    BY Zenon DEF Inv, TypeInv, TypeOK, Worker, Checkpoint, Thread, Row, Actions, GraphActions,
          Authority, ReceiptsAreUnique
<1>1. AbsentHasNone' /\ (KeepsReceipts \/ \E f \in Followups : Promoted(f))
    BY NextIsStoreStep, ReceiptMoves, Zenon DEF TurnInv
<1>2. SlotKeeps
    BY SlotMoves, Zenon
<1>3. \A a \in GraphActions : journal[a].receipt # 0 => journal'[a].receipt = journal[a].receipt
    BY <1>1, Zenon DEF KeepsReceipts, Promoted
<1>4. CarriedIsOwn'
    <2>1. ASSUME NEW d \in Dispatchers, call'[d].stage = "bound", call'[d].action \in GraphActions
          PROVE  call'[d].receipt = journal'[call'[d].action].receipt /\ call'[d].receipt # 0
        <3>1. CASE /\ call'[d].receipt = call[d].receipt
                   /\ call'[d].action = call[d].action
                   /\ call[d].stage = "bound"
            BY <1>3, <2>1, <3>1, Zenon DEF TurnInv, CarriedIsOwn
        <3>2. CASE /\ CurrentReceipt(call'[d].action)
                   /\ call'[d].receipt = journal[call'[d].action].receipt
                   /\ journal' = journal
            BY <3>2, Zenon DEF CurrentReceipt
        <3>3. call'[d].action # Cancel
            BY <2>1, ActionAssumption, Zenon DEF GraphActions
        <3> QED
            BY <2>1, <3>1, <3>2, <3>3, CallMoves, Zenon DEF CallKeeps
    <2>2. ASSUME worker'.phase # "idle"
          PROVE  worker'.receipt = journal'[worker'.action].receipt /\ worker'.receipt # 0
        <3>1. CASE /\ worker'.action = worker.action /\ worker'.receipt = worker.receipt
                   /\ worker.phase # "idle"
            <4>1. worker.action \in GraphActions
                BY <3>1, Zenon DEF Inv, TypeInv, SlotHoldsAction
            <4> QED
                BY <1>3, <3>1, <4>1, Zenon DEF TurnInv, CarriedIsOwn
        <3>2. ASSUME NEW d \in Dispatchers, Admits(d)
              PROVE  worker'.receipt = journal'[worker'.action].receipt /\ worker'.receipt # 0
            BY <1>3, <3>2, Zenon DEF Admits, TurnInv, CarriedIsOwn
        <3> QED
            BY <1>2, <2>2, <3>1, <3>2, ZenonT(60) DEF SlotKeeps, SameSlot, FreesSlot, Starts
    <2> QED
        BY <2>1, <2>2, Zenon DEF CarriedIsOwn
<1>5. \/ checkpoint' = checkpoint
      \/ /\ worker.phase = "executing" /\ KeepsReceipts /\ inputs' = inputs
         /\ checkpoint'.generation = checkpoint.generation /\ checkpoint'.state # "absent"
      \/ Starts /\ KeepsReceipts
    <2>1. checkpoint' = checkpoint \/ KeepsReceipts
        BY CheckpointMoves, Zenon DEF store, KeepsReceipts
    <2>2. CASE FreesSlot
        BY <1>0, <2>1, <2>2, Zenon DEF FreesSlot, Checkpoint
    <2> QED
        BY <1>2, <2>1, <2>2, Zenon DEF SlotKeeps, SameSlot, Admits
<1>6. CASE Starts /\ KeepsReceipts
    <2>1. /\ worker.action \in GraphActions
          /\ worker.receipt = journal[worker.action].receipt /\ worker.receipt # 0
          /\ checkpoint.state = "absent" \/ checkpoint.generation <= worker.receipt
          /\ \A f \in Followups : journal[f].receipt # 0 => journal[f].receipt <= worker.receipt
        BY <1>6, StartsForward, Zenon
    <2>2. checkpoint'.generation = worker.receipt /\ checkpoint'.state = "pending"
        BY <1>6, ZenonT(60) DEF Starts
    <2>3. EnteredOnce'
        <3> SUFFICES ASSUME NEW a \in GraphActions
                     PROVE  /\ inputs'[a] <= 1
                            /\ inputs'[a] = 1 => /\ journal[a].receipt # 0
                                                 /\ journal[a].receipt <= worker.receipt
            BY <1>6, <2>2, Zenon DEF EnteredOnce, KeepsReceipts
        <3>1. /\ inputs[a] \in Nat /\ inputs[a] <= 1 /\ journal[a].receipt \in Nat
              /\ inputs[a] = 1 => /\ checkpoint.state # "absent"
                                  /\ journal[a].receipt # 0
                                  /\ journal[a].receipt <= checkpoint.generation
            BY <1>0, Zenon DEF TurnInv, EnteredOnce
        <3>2. CASE inputs' = inputs
            BY <1>0, <2>1, <3>1, <3>2, SMTT(60)
        <3>3. CASE /\ Evidence(checkpoint, worker.action, worker.receipt) \in {"absent", "prior"}
                   /\ inputs' = [inputs EXCEPT ![worker.action] = @ + 1]
            <4>1. checkpoint.state = "absent" \/ checkpoint.generation < worker.receipt
                BY <1>0, <3>3, EvidenceFacts, ZenonT(60)
            <4>2. CASE a = worker.action
                <5>1. inputs[a] = 0
                    BY <1>0, <2>1, <3>1, <4>1, <4>2, SMTT(60)
                <5> QED
                    BY <1>0, <2>1, <3>3, <4>2, <5>1, SMTT(60)
            <4>3. CASE a # worker.action
                <5>1. inputs'[a] = inputs[a]
                    BY <1>0, <3>3, <4>3, ZenonT(60)
                <5> QED
                    BY <1>0, <2>1, <3>1, <5>1
            <4> QED
                BY <4>2, <4>3, Zenon
        <3> QED
            BY <1>6, <3>2, <3>3, Zenon DEF Starts
    <2>4. FollowsOn'
        <3> SUFFICES ASSUME NEW f \in Followups, journal[f].receipt # 0
                     PROVE  /\ ~(worker.receipt < journal[f].receipt)
                            /\ \A a \in GraphActions :
                                  journal[a].receipt < journal[f].receipt => journal[a].receipt <= worker.receipt
            BY <1>0, <1>6, <2>2, Zenon DEF FollowsOn, KeepsReceipts
        <3>1. journal[f].receipt \in Nat /\ journal[f].receipt <= worker.receipt
            BY <1>0, <2>1, ZenonT(60)
        <3> QED
            BY <1>0, <3>1
    <2> QED
        BY <1>1, <1>4, <2>3, <2>4, ZenonT(60) DEF TurnInv
<1>7. CASE /\ worker.phase = "executing" /\ KeepsReceipts /\ inputs' = inputs
           /\ checkpoint'.generation = checkpoint.generation /\ checkpoint'.state # "absent"
    <2>1. EnteredOnce'
        BY <1>7, Zenon DEF TurnInv, EnteredOnce, KeepsReceipts
    <2>2. checkpoint.state = "pending"
        BY <1>7 DEF ProvenInv, ExecutingIsPending
    <2>3. FollowsOn'
        BY <1>0, <1>7, <2>2, Zenon DEF TurnInv, FollowsOn, KeepsReceipts
    <2> QED
        BY <1>1, <1>4, <2>1, <2>3, Zenon DEF TurnInv
<1>8. CASE checkpoint' = checkpoint /\ ~Starts
    <2>0. inputs' = inputs
        BY <1>2, <1>8, Zenon DEF SlotKeeps, SameSlot, FreesSlot, Admits
    <2>1. EnteredOnce'
        BY <1>3, <1>8, <2>0, ZenonT(60) DEF TurnInv, EnteredOnce
    <2>2. CASE KeepsReceipts
        <3>1. FollowsOn'
            BY <1>0, <1>8, <2>2, Zenon DEF TurnInv, FollowsOn, KeepsReceipts
        <3> QED
            BY <1>1, <1>4, <2>1, <3>1, Zenon DEF TurnInv
    <2>3. ASSUME NEW g \in Followups, Promoted(g) PROVE TurnInv'
        <3>1. checkpoint.state = "completed" /\ checkpoint.generation = thread.generation
            BY <2>3, PromotedOnCompleted, Zenon
        <3>2. FollowsOn'
            <4> SUFFICES ASSUME NEW f \in Followups, journal'[f].receipt # 0,
                                NEW a \in GraphActions, journal'[a].receipt < journal'[f].receipt
                         PROVE  journal'[a].receipt <= thread.generation
                BY <1>8, <3>1, Zenon DEF FollowsOn
            <4>1. CASE a # g
                BY <1>0, <2>3, <4>1, Zenon DEF Promoted
            <4>2. CASE a = g
                <5>1. journal'[a].receipt = thread.generation + 1
                    BY <2>3, <4>2, Zenon DEF Promoted
                <5>2. journal'[f].receipt <= thread.generation + 1
                    BY <1>0, <2>3 DEF Promoted
                <5>3. journal'[f].receipt \in Nat
                    BY <1>0, <2>3, SMTT(60) DEF Promoted
                <5> QED
                    BY <1>0, <5>1, <5>2, <5>3, SMTT(60)
            <4> QED
                BY <4>1, <4>2, Zenon
        <3> QED
            BY <1>1, <1>4, <2>1, <3>2, Zenon DEF TurnInv
    <2> QED
        BY <1>1, <2>2, <2>3, Zenon
<1>9. Starts => KeepsReceipts
    BY Zenon DEF Starts, store, KeepsReceipts
<1> QED
    BY <1>5, <1>6, <1>7, <1>8, <1>9

\* A new run has entered no turn.
LEMMA InitTurn == Init => TurnInv
<1> SUFFICES ASSUME Init PROVE TurnInv
    OBVIOUS
<1>0. Followups \subseteq GraphActions /\ GraphActions \subseteq Actions /\ Ingest \notin Followups
    BY ActionAssumption, ZenonT(60) DEF Actions, GraphActions
<1>1. /\ worker.phase = "idle" /\ \A d \in Dispatchers : call[d].stage # "bound"
      /\ \A f \in Followups : journal[f].receipt = 0
      /\ \A a \in GraphActions : inputs[a] = 0
    BY <1>0 DEF Init, FreshWorker, IdleCall, Absent
<1> QED
    BY <1>1 DEF TurnInv, CarriedIsOwn, AbsentHasNone, EnteredOnce, FollowsOn

\* What makes the two turn properties inductive holds in every reachable state.
THEOREM TurnHolds == ASSUME Asks = << >> PROVE Spec => []TurnInv
<1>1. Answers = {}
    BY DEF Answers
<1> QED
    BY <1>1, InitTurn, TurnStep, InvHolds, ProvenHolds, PTL DEF Spec

\* The message of a turn enters the graph at most once over every loss, redelivery
\* and restart (pre_flight_checkpoint), if the run asks for no permission.
THEOREM TurnInputOnceTheorem == ASSUME Asks = << >> PROVE Spec => []TurnInputOnce
<1>1. TurnInv => TurnInputOnce
    BY Zenon DEF TurnInv, EnteredOnce, TurnInputOnce, GraphActions
<1> QED
    BY <1>1, TurnHolds, PTL

\* A follow-up starts only on the completed checkpoint of the turn before it
\* (_promote_queued_continuation), if the run asks for no permission.
THEOREM TurnsAreSerialTheorem == ASSUME Asks = << >> PROVE Spec => TurnsAreSerial
<1>1. Answers = {}
    BY DEF Answers
<1>2. Inv /\ TurnInv /\ [Next]_vars =>
        [checkpoint'.owner # checkpoint.owner /\ checkpoint'.owner \in Followups
           => checkpoint.state = "completed"]_vars
    <2> SUFFICES ASSUME Inv, TurnInv, [Next]_vars,
                        checkpoint'.owner # checkpoint.owner, checkpoint'.owner \in Followups
                 PROVE  checkpoint.state = "completed"
        OBVIOUS
    <2>0. checkpoint \in Checkpoint
        BY Zenon DEF Inv, TypeInv, TypeOK
    <2>1. Starts
        BY <2>0, SlotMoves, Zenon DEF SlotKeeps, SameSlot, FreesSlot, Admits, Checkpoint
    <2>2. /\ checkpoint'.owner = worker.action /\ worker.phase # "idle"
          /\ Evidence(checkpoint, worker.action, worker.receipt) \in {"absent", "prior", "pending"}
        BY <1>1, <2>1, Zenon DEF Starts
    <2>3. journal[worker.action].receipt = worker.receipt /\ worker.receipt # 0
        BY <2>2, Zenon DEF TurnInv, CarriedIsOwn
    <2>4. checkpoint.state # "absent" /\ (checkpoint.generation < worker.receipt => checkpoint.state = "completed")
        BY <2>2, <2>3, Zenon DEF TurnInv, FollowsOn
    <2> QED
        BY <2>0, <2>2, <2>4, EvidenceFacts, Zenon
<1> QED
    BY <1>2, InvHolds, TurnHolds, PTL DEF Spec, TurnsAreSerial

=============================================================================
