-------------------------- MODULE RunControlProofs --------------------------
(***************************************************************************)
(* Safety of RunControl for every value of the constants: who owns the run, *)
(* what waits in its queue, that decisions stand, that a cancel keeps the   *)
(* run, and that the run row implements RunRow.                             *)
(*                                                                          *)
(* The proof goes through the ten ways a step may change the store.  Every   *)
(* action is shown to be one of them once (NextIsStoreStep); each property  *)
(* is then proved over the ten.                                             *)
(***************************************************************************)
EXTENDS RunControlTypeProofs

\* What a pass or the sweep read is what its own guard let it read.
WitnessInv ==
    /\ \A p \in Passes :
          /\ pass[p].kind \in {"pause", "boot_pause"} /\ pass[p].stage # "start" =>
                pass[p].witness.status
                    \in {"input_required", "submitted", "running", "reconciling"}
          /\ pass[p].kind \in {"observe", "boot"} /\ pass[p].stage # "start" =>
                /\ pass[p].witness.status \in Active
                /\ pass[p].witness.writer \in GraphActions
    /\ sweep.stage = "listed" => sweep.witness.status = "reconciling"

\* Only a follow-up ever waits.
OnlyFollowupsWait == \A a \in Actions : Queued(a) => a \in Followups

Authority ==
    /\ WriterIsReceipted
    /\ ReceiptsAreUnique
    /\ QueuedOwnsNothing
    /\ NoStrandedContinuation
    /\ OnlyFollowupsWait

Inv == TypeInv /\ WitnessInv /\ Authority

-----------------------------------------------------------------------------
(* The ways a step may change the store.                                    *)

\* Leases may have moved; no result, receipt or position did.
SameDecisions ==
    \A a \in Actions :
        /\ journal'[a].result = journal[a].result
        /\ journal'[a].receipt = journal[a].receipt
        /\ journal'[a].position = journal[a].position

\* The writer's action was decided, and nothing else was.
WriterDecided ==
    \A a \in Actions :
        /\ journal'[a].receipt = journal[a].receipt
        /\ journal'[a].position = journal[a].position
        /\ IF a = thread.writer THEN journal'[a].result \in Settled
                                ELSE journal'[a].result = journal[a].result

\* The writer moves the run between two active statuses.
Moved(status) ==
    /\ thread.status \in Active
    /\ status \in Active \ {thread.status}
    /\ ValidateTransition(thread.status, status)
    /\ thread' = Successor(status, thread.writer)

\* The run's cancellation takes the run, or takes its own lease again.
CancelTakes ==
    /\ CanCancel(thread.status)
    /\ thread' = IF CancelOwnsRun THEN thread ELSE Successor("cancelling", Cancel)
    /\ journal'[Cancel].result \notin {"absent", "queued"} \cup Settled
    /\ journal'[Cancel].receipt \in {0, journal[Cancel].receipt}
    /\ ~Applied(Cancel)
    /\ \A a \in Actions \ {Cancel} : journal'[a] = journal[a]

\* An answer nobody gave before takes the run as it stands.
AnswerTakes(a) ==
    /\ ~Exists(a)
    /\ thread.status \in Active
    /\ thread' = Successor(thread.status, a)
    /\ journal'[a].result = "accepted"
    /\ journal'[a].receipt = thread'.generation
    /\ \A b \in Actions \ {a} : journal'[b] = journal[b]

\* The waiting turn takes the run from the turn that completed.
PromotionTakes(f) ==
    /\ NextContinuation(f)
    /\ thread.status \in Active
    /\ thread.writer \in GraphActions
    /\ ValidateTransition(thread.status, "running")
    /\ thread' = Successor("running", f)
    /\ journal'[f].result = "accepted"
    /\ journal'[f].receipt = thread'.generation
    /\ journal'[f].position = journal[f].position
    /\ thread.writer # f =>
          /\ journal'[thread.writer].result = "applied"
          /\ journal'[thread.writer].receipt = journal[thread.writer].receipt
          /\ journal'[thread.writer].position = journal[thread.writer].position
    /\ \A a \in Actions \ {f, thread.writer} : journal'[a] = journal[a]

StoreStep ==
    \/ thread' = thread /\ SameDecisions
    \/ thread' = thread /\ WriterDecided
    \/ \E status \in Active : Moved(status) /\ (SameDecisions \/ WriterDecided)
    \/ Archive \/ Delete
    \/ \E status \in Terminal, result \in Settled :
          thread.status \in Active /\ SettleTerminal(status, result)
    \/ CancelTakes
    \/ \E a \in Answers : AnswerTakes(a)
    \/ \E f \in Followups : PromotionTakes(f)
    \/ \E f \in Followups : SendFollowup(f)

-----------------------------------------------------------------------------
(* Every action is one of them.                                             *)

\* A transition between two statuses of the lifecycle.
LEMMA TransitionFacts ==
    /\ \A s \in {"submitted", "running", "reconciling"} :
          ValidateTransition(s, "input_required")
    /\ \A s \in {"submitted", "input_required", "reconciling"} :
          ValidateTransition(s, "running")
    /\ \A s \in Active : ValidateTransition(s, "reconciling")
    /\ \A s \in Status : CanCancel(s) => s \in Active /\ ValidateTransition(s, "cancelling")
    /\ \A s \in Terminal : ValidateTransition(s, "archived")
BY Zenon DEF ValidateTransition, ValidTransitions, CanCancel, Status, Active, NonActive, Terminal

\* A quarantine decides the writer's action and marks its run.
LEMMA QuarantineIsStoreStep ==
    ASSUME thread \in Thread, journal \in [Actions -> Row], thread.status \in Active,
           Quarantine(thread.writer)
    PROVE  StoreStep
<1>0. thread.writer \in Actions /\ thread.status \in Status
    BY Zenon DEF Thread
<1>1. "rejected" \in Settled
    BY Zenon DEF Settled
<1>2. SettledAs(journal[thread.writer], "rejected").position = journal[thread.writer].position
    BY <1>0, Zenon DEF SettledAs, Released, Row
<1>3. WriterDecided
    BY <1>0, <1>1, <1>2, SettledAsType DEF Quarantine, WriterDecided
<1>4. thread' = thread \/ Moved("reconciling")
    BY StatusFacts, TransitionFacts, Zenon DEF Quarantine, Moved
<1> QED
    BY <1>3, <1>4, StatusFacts, Zenon DEF StoreStep

\* Deliveries only move leases and, on a failure, the status.
LEMMA DeliveryIsStoreStep ==
    ASSUME Inv, NEW d \in Dispatchers, Delivery(d)
    PROVE  StoreStep
<1> USE DEF store, gateway, outside, history
<1>0. thread \in Thread /\ journal \in [Actions -> Row] /\ call \in [Dispatchers -> Call]
    BY Zenon DEF Inv, TypeInv, TypeOK
<1>1. ASSUME UNCHANGED store PROVE StoreStep
    BY <1>1, Zenon DEF StoreStep, SameDecisions
<1>2. CASE RecordFailure(d)
    <2> DEFINE a == call[d].action
    <2>1. \A b \in Actions : /\ Released(journal[b]).result = journal[b].result
                             /\ Released(journal[b]).receipt = journal[b].receipt
                             /\ Released(journal[b]).position = journal[b].position
        BY <1>0, Zenon DEF Released, Row
    <2>2. CASE UNCHANGED store
        BY <1>1, <2>2, Zenon
    <2>3. CASE /\ journal' = [journal EXCEPT ![a] = Released(@)]
               /\ UNCHANGED thread
        BY <1>0, <2>1, <2>3, Zenon DEF StoreStep, SameDecisions
    <2>4. CASE /\ FailureRecordable(d)
               /\ thread.status # "input_required"
               /\ Electable("input_required", a)
               /\ journal' = [journal EXCEPT ![a] = Released(@)]
               /\ thread' = Successor("input_required", a)
        <3>1. Moved("input_required")
            BY <2>4, StatusFacts, Zenon DEF Moved, FailureRecordable, Electable
        <3>2. SameDecisions
            BY <1>0, <2>1, <2>4, Zenon DEF SameDecisions
        <3> QED
            BY <3>1, <3>2, StatusFacts, Zenon DEF StoreStep
    <2> QED
        BY <1>2, <2>2, <2>3, <2>4, Zenon DEF RecordFailure
<1>3. CASE RecordRedriveFailure(d)
    <2>1. \A b \in Actions : /\ Released(journal[b]).result = journal[b].result
                             /\ Released(journal[b]).receipt = journal[b].receipt
                             /\ Released(journal[b]).position = journal[b].position
        BY <1>0, Zenon DEF Released, Row
    <2>2. CASE /\ journal' = [journal EXCEPT ![call[d].action] = IF @.holder = d THEN Released(@) ELSE @]
               /\ UNCHANGED thread
        BY <1>0, <2>1, <2>2, Zenon DEF StoreStep, SameDecisions
    <2>3. CASE /\ thread.writer = call[d].action /\ thread.status \in Active
               /\ Quarantine(call[d].action)
        <3>1. Quarantine(thread.writer) /\ thread.status \in Active
            BY <2>3, Zenon
        <3> QED
            BY <1>0, <3>1, QuarantineIsStoreStep, Zenon
    <2>4. CASE UNCHANGED store
        BY <1>1, <2>4, Zenon
    <2> QED
        BY <1>3, <2>2, <2>3, <2>4, Zenon DEF RecordRedriveFailure
<1>4. CASE FinishCreate(d)
    <2>1. CASE thread = NewThread
        <3>1. Moved("running")
            BY <1>4, <2>1, StatusFacts, TransitionFacts, Zenon DEF FinishCreate, NewThread, Moved
        <3> QED
            BY <1>4, <3>1, StatusFacts, Zenon DEF FinishCreate, StoreStep, SameDecisions
    <2>2. CASE thread # NewThread
        BY <1>1, <1>4, <2>2, Zenon DEF FinishCreate
    <2> QED
        BY <2>1, <2>2, Zenon
<1> QED
    BY <1>1, <1>2, <1>3, <1>4, Zenon DEF Delivery, Bind, DeliverDuplicate, DeliverGraph, DeliverCancel,
                                  DeliverBusy, Undelivered

\* Clients reserve, cancel, answer, archive and delete.
LEMMA ClientIsStoreStep ==
    ASSUME Inv, Client
    PROVE  StoreStep
<1> USE DEF store, gateway, outside, history
<1>0. /\ thread \in Thread /\ journal \in [Actions -> Row] /\ now \in Nat
      /\ thread.status \in Status /\ Cancel \in Actions /\ Answers \subseteq Actions
      /\ \A i \in 1..Len(Asks) : Asks[i] \in Answers
    BY Zenon DEF Inv, TypeInv, TypeOK, Thread, Actions, GraphActions, Answers
<1>1. ASSUME UNCHANGED store PROVE StoreStep
    BY <1>1, Zenon DEF StoreStep, SameDecisions
<1>2. ASSUME NEW f \in Followups, SendFollowup(f) PROVE StoreStep
    BY <1>2, Zenon DEF StoreStep
<1>3. ASSUME NEW d \in Dispatchers, CancelThread(d) PROVE StoreStep
    <2> DEFINE fresh == [Absent EXCEPT !.result = "accepted",
                                       !.deadline = journal[thread.writer].deadline]
    <2>1. /\ Leased(fresh, d).result = "accepted" /\ Leased(fresh, d).receipt = 0
        BY Zenon DEF Leased, Absent
    <2>2. /\ Leased(journal[Cancel], d).result = journal[Cancel].result
          /\ Leased(journal[Cancel], d).receipt = journal[Cancel].receipt
        BY <1>0, LeasedType, Zenon
    <2>3. ~Applied(Cancel)
        BY <1>3, Zenon DEF CancelThread, ClaimCancel, ElectCancel, Exists, Applied, Settled
    <2>4. ~Queued(Cancel)
        BY <1>0, ActionAssumption, Zenon DEF Inv, Authority, OnlyFollowupsWait
    <2>5. \E row : /\ journal' = [journal EXCEPT ![Cancel] = row]
                   /\ row.result \notin {"absent", "queued"} \cup Settled
                   /\ row.receipt \in {0, journal[Cancel].receipt}
        <3>1. CASE journal' = [journal EXCEPT ![Cancel] = Leased(fresh, d)]
            <4> HIDE DEF fresh
            <4> QED
                BY <2>1, <3>1, Zenon DEF Settled
        <3>2. CASE Exists(Cancel) /\ journal' = [journal EXCEPT ![Cancel] = Leased(@, d)]
            <4>1. Leased(journal[Cancel], d).result \notin {"absent", "queued"} \cup Settled
                BY <2>2, <2>3, <2>4, <3>2, Zenon DEF Exists, Queued, Applied
            <4> QED
                BY <2>2, <3>2, <4>1, Zenon
        <3> QED
            BY <1>3, <3>1, <3>2, Zenon DEF CancelThread, ClaimCancel, ElectCancel
    <2>6. CancelTakes
        BY <1>0, <1>3, <2>3, <2>5, Zenon DEF CancelTakes, CancelThread, ClaimCancel, ElectCancel
    <2> QED
        BY <2>6, Zenon DEF StoreStep
<1>4. ASSUME NEW d \in Dispatchers, NEW i \in 1..Len(Asks), AcceptAnswer(d, i)
      PROVE  StoreStep
    <2> DEFINE a == Asks[i]
    <2>0. a \in Answers /\ a \in Actions
        BY <1>0, Zenon
    <2>1. CASE InstallAnswer(d, a)
        <3> DEFINE fresh == [Absent EXCEPT !.result = "accepted", !.deadline = now + RunTimeout,
                                           !.receipt = thread'.generation]
        <3>1. Leased(fresh, d).result = "accepted" /\ Leased(fresh, d).receipt = thread'.generation
            BY Zenon DEF Leased, Absent
        <3>2. journal' = [journal EXCEPT ![a] = Leased(fresh, d)]
            BY <2>1, Zenon DEF InstallAnswer
        <3> HIDE DEF fresh
        <3>3. AnswerTakes(a)
            BY <1>0, <2>0, <2>1, <3>1, <3>2, Zenon DEF AnswerTakes, InstallAnswer
        <3> QED
            BY <2>0, <3>3, Zenon DEF StoreStep
    <2>2. CASE ReclaimAnswer(d, a)
        <3>1. \A b \in Actions : /\ Leased(journal[b], d).result = journal[b].result
                                 /\ Leased(journal[b], d).receipt = journal[b].receipt
                                 /\ Leased(journal[b], d).position = journal[b].position
            BY <1>0, Zenon DEF Leased, Row
        <3> QED
            BY <1>0, <2>0, <2>2, <3>1, Zenon DEF ReclaimAnswer, StoreStep, SameDecisions
    <2> QED
        BY <1>4, <2>1, <2>2, Zenon DEF AcceptAnswer
<1>5. CASE Archive \/ Delete
    BY <1>5, Zenon DEF StoreStep
<1> QED
    BY <1>1, <1>2, <1>3, <1>4, <1>5, Zenon DEF Client, ReadHeld, RefuseAnswer, ReadRun

\* Recovery leases, expires and, in the sweep, fails.
LEMMA RecoveryIsStoreStep ==
    ASSUME Inv, Recovery
    PROVE  StoreStep
<1> USE DEF store, gateway, outside, history
<1>0. /\ thread \in Thread /\ journal \in [Actions -> Row] /\ now \in Nat
      /\ thread.writer \in Actions /\ thread.status \in Status
    BY Zenon DEF Inv, TypeInv, TypeOK, Thread
<1>1. ASSUME NEW d \in Dispatchers, Redrive(d) \/ SweepClaim(d) PROVE StoreStep
    <2>1. \A b \in Actions : /\ Leased(journal[b], d).result = journal[b].result
                             /\ Leased(journal[b], d).receipt = journal[b].receipt
                             /\ Leased(journal[b], d).position = journal[b].position
        BY <1>0, Zenon DEF Leased, Row
    <2> QED
        BY <1>0, <1>1, <2>1 DEF Redrive, SweepClaim, StoreStep, SameDecisions
<1>2. CASE RefuseRecovery \/ ExpireOverdue
    <2>1. Quarantine(thread.writer) /\ thread.status \in Active
        BY <1>2, Zenon DEF RefuseRecovery, ExpireOverdue, Recoverable
    <2> QED
        BY <1>0, <2>1, QuarantineIsStoreStep, Zenon
<1>3. CASE SweepRefuse
    <2>1. thread.status \in Active
        BY <1>3, StatusFacts, Zenon DEF SweepRefuse, Inv, WitnessInv
    <2>2. "failed" \in Terminal /\ "applied" \in Settled
        BY Zenon DEF Terminal, Settled
    <2> QED
        BY <1>3, <2>1, <2>2, Zenon DEF SweepRefuse, StoreStep
<1>4. CASE SweepList \/ SweepSkip
    BY <1>4, Zenon DEF SweepList, SweepSkip, StoreStep, SameDecisions
<1> QED
    BY <1>1, <1>2, <1>3, <1>4, Zenon DEF Recovery

\* A relayed event settles its action, settles the run, or changes nothing.
LEMMA RelayIsStoreStep ==
    ASSUME Inv, NEW e \in events, Relay(e)
    PROVE  StoreStep
<1> USE DEF store, gateway, outside, history
<1>0. thread \in Thread /\ journal \in [Actions -> Row] /\ thread.writer \in Actions
    BY Zenon DEF Inv, TypeInv, TypeOK, Thread
<1>1. ASSUME UNCHANGED store PROVE StoreStep
    BY <1>1, Zenon DEF StoreStep, SameDecisions
<1>2. CASE HandleApplication(e)
    <2>1. CASE journal' = journal
        BY <1>1, <1>2, <2>1, Zenon DEF HandleApplication
    <2>2. CASE /\ CurrentReceipt(e.action)
               /\ journal' = [journal EXCEPT ![e.action] = SettledAs(@, "applied")]
        <3>1. e.action = thread.writer
            BY <2>2, Zenon DEF CurrentReceipt
        <3>2. "applied" \in Settled
            BY Zenon DEF Settled
        <3>3. SettledAs(journal[thread.writer], "applied").position
                = journal[thread.writer].position
            BY <1>0, Zenon DEF SettledAs, Released, Row
        <3>4. WriterDecided
            BY <1>0, <2>2, <3>1, <3>2, <3>3, SettledAsType DEF WriterDecided
        <3> QED
            BY <1>2, <3>4, Zenon DEF HandleApplication, StoreStep
    <2> QED
        BY <1>2, <2>1, <2>2, Zenon DEF HandleApplication
<1>3. CASE HandleFailed(e)
    <2>1. "failed" \in Terminal /\ "applied" \in Settled
        BY Zenon DEF Terminal, Settled
    <2> QED
        BY <1>1, <1>3, <2>1, Zenon DEF HandleFailed, StoreStep
<1>4. CASE HandleCancelled(e)
    <2>1. "cancelled" \in Terminal /\ e.kind \in Settled
        BY <1>4, Zenon DEF Terminal, Settled, HandleCancelled
    <2> QED
        BY <1>1, <1>4, <2>1, StatusFacts, Zenon DEF HandleCancelled, StoreStep
<1>5. CASE HandlePaused(e) \/ HandleCompleted(e)
    BY <1>1, <1>5, Zenon DEF HandlePaused, HandleCompleted
<1> QED
    BY <1>2, <1>3, <1>4, <1>5, Zenon DEF Relay

\* A pass changes the store only in its apply transaction.
LEMMA PassIsStoreStep ==
    ASSUME Inv, NEW p \in Passes, PassStep(p)
    PROVE  StoreStep
<1> USE DEF store, gateway, outside, history
<1>0. /\ thread \in Thread /\ journal \in [Actions -> Row] /\ now \in Nat
      /\ thread.writer \in Actions /\ thread.status \in Status /\ Followups \subseteq Actions
    BY Zenon DEF Inv, TypeInv, TypeOK, Thread, Actions, GraphActions
<1>1. ASSUME UNCHANGED store PROVE StoreStep
    BY <1>1, Zenon DEF StoreStep, SameDecisions
<1>2. CASE ApplyPause(p)
    <2>1. CASE thread' = thread
        BY <1>1, <1>2, <2>1, Zenon DEF ApplyPause
    <2>2. CASE /\ thread = pass[p].witness
               /\ \/ /\ thread.status # "input_required"
                     /\ thread' = Successor("input_required", thread.writer)
                  \/ /\ thread.status = "input_required"
                     /\ thread' = Successor("running", thread.writer)
        <3>1. thread.status \in {"input_required", "submitted", "running", "reconciling"}
            BY <1>2, <2>2, Zenon DEF ApplyPause, PausePass, Inv, WitnessInv
        <3>2. Moved("input_required") \/ Moved("running")
            BY <2>2, <3>1, StatusFacts, TransitionFacts, ZenonT(60) DEF Moved
        <3>3. SameDecisions
            BY <1>2, Zenon DEF ApplyPause, SameDecisions
        <3> QED
            BY <3>2, <3>3, StatusFacts, ZenonT(60) DEF StoreStep
    <2> QED
        BY <1>2, <2>1, <2>2, Zenon DEF ApplyPause
<1>3. CASE ApplyReconcile(p)
    <2>1. CASE thread = pass[p].witness /\ SettleCompleted
        <3>1. thread.status \in Active /\ thread.writer \in GraphActions
            BY <1>3, <2>1, Zenon DEF ApplyReconcile, ReconcilePass, Inv, WitnessInv
        <3>2. CASE SettleTerminal("completed", "applied")
            <4>1. "completed" \in Terminal /\ "applied" \in Settled
                BY Zenon DEF Terminal, Settled
            <4> QED
                BY <3>1, <3>2, <4>1, Zenon DEF StoreStep
        <3>3. ASSUME NEW f \in Followups, NextContinuation(f), Promote(f)
              PROVE  StoreStep
            <4> DEFINE settled == [journal EXCEPT ![thread.writer] = SettledAs(@, "applied")]
                       opened == [Released(settled[f]) EXCEPT
                                      !.result = "accepted",
                                      !.deadline = SmallerOf(now + RunTimeout, Lifetime),
                                      !.receipt = thread'.generation]
            <4>1. "applied" \in Settled /\ f \in Actions
                BY <1>0, Zenon DEF Settled
            <4>2. /\ settled \in [Actions -> Row]
                  /\ settled[thread.writer] = SettledAs(journal[thread.writer], "applied")
                  /\ \A a \in Actions \ {thread.writer} : settled[a] = journal[a]
                BY <1>0, <4>1, SettledAsType, Zenon
            <4>3. settled[f].position = journal[f].position
                <5>1. SettledAs(journal[thread.writer], "applied").position
                        = journal[thread.writer].position
                    BY <1>0, Zenon DEF SettledAs, Released, Row
                <5> HIDE DEF settled
                <5> QED
                    BY <4>1, <4>2, <5>1, Zenon
            <4>4. /\ opened.result = "accepted"
                  /\ opened.receipt = thread'.generation
                  /\ opened.position = journal[f].position
                <5> HIDE DEF settled
                <5>1. settled[f] \in Row
                    BY <4>1, <4>2, Zenon
                <5> QED
                    BY <4>3, <5>1, Zenon DEF Released, Row
            <4>5. journal' = [settled EXCEPT ![f] = opened]
                BY <1>0, <3>3, <4>2, Zenon DEF Promote
            <4>6. thread.writer # f =>
                    /\ journal'[thread.writer] = SettledAs(journal[thread.writer], "applied")
                <5> HIDE DEF settled, opened
                <5> QED
                    BY <1>0, <4>1, <4>2, <4>5, Zenon
            <4>7. \A a \in Actions \ {f, thread.writer} : journal'[a] = journal[a]
                <5> HIDE DEF settled, opened
                <5> QED
                    BY <4>1, <4>2, <4>5, Zenon
            <4>8. journal'[f] = opened
                <5> HIDE DEF settled, opened
                <5> QED
                    BY <4>1, <4>2, <4>5, Zenon
            <4>9. /\ SettledAs(journal[thread.writer], "applied").result = "applied"
                  /\ SettledAs(journal[thread.writer], "applied").receipt
                        = journal[thread.writer].receipt
                  /\ SettledAs(journal[thread.writer], "applied").position
                        = journal[thread.writer].position
                BY <1>0, Zenon DEF SettledAs, Released, Row
            <4> HIDE DEF settled, opened
            <4>10. thread' = Successor("running", f) /\ ValidateTransition(thread.status, "running")
                BY <3>3, Zenon DEF Promote, Electable
            <4>11. PromotionTakes(f)
                BY <3>1, <3>3, <4>4, <4>6, <4>7, <4>8, <4>9, <4>10, Zenon DEF PromotionTakes
            <4> QED
                BY <4>11, Zenon DEF StoreStep
        <3> QED
            BY <2>1, <3>2, <3>3, ZenonT(60) DEF SettleCompleted
    <2>2. CASE /\ thread = pass[p].witness
               /\ thread.status # "reconciling"
               /\ thread' = Successor("reconciling", thread.writer)
               /\ UNCHANGED journal
        <3>1. thread.status \in Active
            BY <1>3, <2>2, Zenon DEF ApplyReconcile, ReconcilePass, Inv, WitnessInv
        <3>2. Moved("reconciling")
            BY <2>2, <3>1, StatusFacts, TransitionFacts, Zenon DEF Moved
        <3> QED
            BY <2>2, <3>2, StatusFacts, ZenonT(60) DEF StoreStep, SameDecisions
    <2>3. CASE UNCHANGED store
        BY <1>1, <2>3, Zenon
    <2> QED
        BY <1>3, <2>1, <2>2, <2>3, Zenon DEF ApplyReconcile, MarksReconciling
<1>4. CASE MarkUnread(p)
    <2>1. thread.status \in Active /\ thread.status # "reconciling"
        BY <1>4, Zenon DEF MarkUnread, MarksReconciling, ReconcilePass, Inv, WitnessInv
    <2>2. Moved("reconciling")
        BY <1>4, <2>1, StatusFacts, TransitionFacts, Zenon DEF MarkUnread, Moved
    <2> QED
        BY <1>4, <2>2, StatusFacts, Zenon DEF MarkUnread, StoreStep, SameDecisions
<1> QED
    BY <1>1, <1>2, <1>3, <1>4, Zenon DEF PassStep, WitnessPause, WitnessReconcile, ReadCheckpoint, AbandonPass

\* Every step of the control plane changes the store in one of the ten ways.
THEOREM NextIsStoreStep == Inv /\ [Next]_vars => StoreStep
<1> SUFFICES ASSUME Inv, [Next]_vars PROVE StoreStep
    OBVIOUS
<1>1. ASSUME UNCHANGED store PROVE StoreStep
    BY <1>1, Zenon DEF StoreStep, SameDecisions, store
<1>2. CASE WorkerStep
    BY <1>1, <1>2, Zenon DEF WorkerStep, BeginIngest, BeginResume, Cease, Finish
<1>3. CASE WorkerStops \/ GatewayRestarts \/ Tick \/ UNCHANGED vars
    BY <1>1, <1>3, Zenon DEF WorkerStops, GatewayRestarts, Tick, vars
<1> QED
    BY <1>2, <1>3, DeliveryIsStoreStep, ClientIsStoreStep, RecoveryIsStoreStep,
       RelayIsStoreStep, PassIsStoreStep DEF Next

-----------------------------------------------------------------------------
(* The witnesses.                                                           *)

\* A pass keeps what its guard established until it ends, and the sweep lists
\* only a reconciling run.
LEMMA WitnessStep == Inv /\ [Next]_vars => WitnessInv'
<1> SUFFICES ASSUME Inv, [Next]_vars PROVE WitnessInv'
    OBVIOUS
<1> USE DEF store, gateway, outside, history
<1>0. /\ thread \in Thread /\ pass \in [Passes -> Pass] /\ sweep \in Sweep /\ WitnessInv
    BY Zenon DEF Inv, TypeInv, TypeOK
<1> DEFINE Sound(q) ==
        /\ q.kind \in {"pause", "boot_pause"} /\ q.stage # "start" =>
              q.witness.status \in {"input_required", "submitted", "running", "reconciling"}
        /\ q.kind \in {"observe", "boot"} /\ q.stage # "start" =>
              /\ q.witness.status \in Active
              /\ q.witness.writer \in GraphActions
<1>1. \A p \in Passes : Sound(pass[p])
    BY <1>0, Zenon DEF WitnessInv
<1>2. \A kind : Sound(Open(kind))
    BY Zenon DEF Open
<1>3. \A p \in Passes : Sound(pass'[p])
    <2>1. ASSUME pass' = pass PROVE \A p \in Passes : Sound(pass'[p])
        BY <1>1, <2>1, Zenon
    <2>2. ASSUME NEW p \in Passes, EndPass(p) PROVE \A q \in Passes : Sound(pass'[q])
        <3>1. \A q \in Passes : pass'[q] = pass[q] \/ \E kind : pass'[q] = Open(kind)
            BY <1>0, <2>2, Zenon DEF EndPass, NoPass
        <3> HIDE DEF Sound
        <3> QED
            BY <1>1, <1>2, <3>1, Zenon
    <2>3. ASSUME NEW kind, OpenPass(kind) PROVE \A q \in Passes : Sound(pass'[q])
        <3>1. \A q \in Passes : pass'[q] = pass[q] \/ pass'[q] = Open(kind)
            BY <1>0, <2>3, Zenon DEF OpenPass
        <3> HIDE DEF Sound
        <3> QED
            BY <1>1, <1>2, <3>1, Zenon
    <2>4. ASSUME NEW d \in Dispatchers, Delivery(d) PROVE \A q \in Passes : Sound(pass'[q])
        BY <2>1, <2>4, Zenon DEF Delivery, Bind, DeliverDuplicate, DeliverGraph, DeliverCancel,
              DeliverBusy, Undelivered, RecordFailure, RecordRedriveFailure, FinishCreate
    <2>5. ASSUME Client PROVE \A q \in Passes : Sound(pass'[q])
        BY <2>1, <2>3, <2>5, Zenon
           DEF Client, SendFollowup, CancelThread, ClaimCancel, ElectCancel, ReadHeld, RefuseAnswer,
              AcceptAnswer, ReadRun, Archive, Delete
    <2>6. ASSUME Recovery PROVE \A q \in Passes : Sound(pass'[q])
        BY <2>1, <2>6, Zenon
           DEF Recovery, Redrive, SweepClaim, RefuseRecovery, ExpireOverdue, SweepList, SweepSkip,
              SweepRefuse
    <2>7. ASSUME NEW e \in events, Relay(e) PROVE \A q \in Passes : Sound(pass'[q])
        BY <2>1, <2>3, <2>7, ZenonT(30) DEF Relay, HandleApplication, HandlePaused, HandleCompleted,
              HandleFailed, HandleCancelled
    <2>8. ASSUME NEW p \in Passes, PassStep(p) PROVE \A q \in Passes : Sound(pass'[q])
        <3>1. CASE WitnessPause(p) /\ ~EndPass(p)
            <4>1. /\ \A q \in Passes \ {p} : pass'[q] = pass[q]
                  /\ pass'[p].kind = pass[p].kind /\ pass'[p].witness = thread
                BY <1>0, <3>1 DEF WitnessPause, Pass
            <4>2. Sound(pass'[p])
                BY <3>1, <4>1, Zenon DEF WitnessPause, PausePass, Recordable
            <4> HIDE DEF Sound
            <4> QED
                BY <1>1, <4>1, <4>2, Zenon
        <3>2. CASE WitnessReconcile(p) /\ ~EndPass(p)
            <4>1. /\ \A q \in Passes \ {p} : pass'[q] = pass[q]
                  /\ pass'[p].kind = pass[p].kind /\ pass'[p].witness = thread
                BY <1>0, <3>2 DEF WitnessReconcile, Pass
            <4>2. Sound(pass'[p])
                BY <3>2, <4>1, Zenon DEF WitnessReconcile, ReconcilePass, CurrentReceipt
            <4> HIDE DEF Sound
            <4> QED
                BY <1>1, <4>1, <4>2, Zenon
        <3>3. CASE ReadCheckpoint(p)
            <4>1. /\ \A q \in Passes \ {p} : pass'[q] = pass[q]
                  /\ pass'[p].kind = pass[p].kind /\ pass'[p].witness = pass[p].witness
                  /\ pass[p].stage # "start"
                BY <1>0, <3>3, Zenon DEF ReadCheckpoint, Pass
            <4>2. Sound(pass'[p])
                BY <1>1, <4>1, Zenon
            <4> HIDE DEF Sound
            <4> QED
                BY <1>1, <4>1, <4>2, Zenon
        <3> HIDE DEF Sound
        <3> QED
            BY <2>2, <2>8, <3>1, <3>2, <3>3, ZenonT(30) DEF PassStep, AbandonPass, MarkUnread, ApplyPause, ApplyReconcile
    <2>9. ASSUME GatewayRestarts PROVE \A q \in Passes : Sound(pass'[q])
        <3>1. \A q \in Passes : \E kind : pass'[q] = Open(kind)
            BY <2>9, Zenon DEF GatewayRestarts, NoPass
        <3> HIDE DEF Sound
        <3> QED
            BY <1>2, <3>1, Zenon
    <2>10. ASSUME WorkerStep \/ WorkerStops \/ Tick \/ UNCHANGED vars
           PROVE  \A q \in Passes : Sound(pass'[q])
        BY <2>1, <2>10, Zenon DEF WorkerStep, BeginIngest, BeginResume, Cease, Finish, WorkerStops, Tick,
              vars
    <2> HIDE DEF Sound
    <2> QED
        BY <2>4, <2>5, <2>6, <2>7, <2>8, <2>9, <2>10, ZenonT(60) DEF Next
<1>4. (sweep.stage = "listed" => sweep.witness.status = "reconciling")'
    <2>1. ASSUME sweep' = sweep PROVE (sweep.stage = "listed" => sweep.witness.status = "reconciling")'
        BY <1>0, <2>1, Zenon DEF WitnessInv
    <2>2. \/ sweep' = sweep
          \/ sweep' = NoSweep
          \/ sweep' = [NoSweep EXCEPT !.stage = "due"]
          \/ thread.status = "reconciling" /\ sweep' = [stage |-> "listed", witness |-> thread]
        <3>1. ASSUME NEW d \in Dispatchers, Delivery(d) PROVE sweep' = sweep
            BY <3>1, Zenon DEF Delivery, Bind, DeliverDuplicate, DeliverGraph, DeliverCancel,
                  DeliverBusy, Undelivered, RecordFailure, RecordRedriveFailure, FinishCreate
        <3>2. ASSUME Client PROVE sweep' = sweep
            BY <3>2, Zenon DEF Client, SendFollowup, CancelThread, ClaimCancel, ElectCancel, ReadHeld, RefuseAnswer,
                  AcceptAnswer, ReadRun, Archive, Delete
        <3>3. ASSUME NEW e \in events, Relay(e) PROVE sweep' = sweep
            BY <3>3, ZenonT(60) DEF Relay
        <3>4. ASSUME NEW p \in Passes, PassStep(p) PROVE sweep' = sweep
            BY <3>4, Zenon DEF PassStep, WitnessPause, WitnessReconcile, ReadCheckpoint, AbandonPass, MarkUnread,
                  ApplyPause, ApplyReconcile
        <3>5. ASSUME WorkerStep \/ WorkerStops \/ Tick \/ UNCHANGED vars PROVE sweep' = sweep
            BY <3>5, Zenon DEF WorkerStep, BeginIngest, BeginResume, Cease, Finish, WorkerStops, Tick,
                  vars
        <3>6. CASE Recovery
            BY <3>6, Zenon DEF Recovery, Redrive, SweepClaim, RefuseRecovery, ExpireOverdue, SweepList, SweepSkip,
                  SweepRefuse
        <3>7. CASE GatewayRestarts
            BY <3>7, Zenon DEF GatewayRestarts
        <3> QED
            BY <3>1, <3>2, <3>3, <3>4, <3>5, <3>6, <3>7, ZenonT(60) DEF Next
    <2> QED
        BY <2>1, <2>2 DEF NoSweep
<1> QED
    BY <1>3, <1>4, Zenon DEF WitnessInv

-----------------------------------------------------------------------------
(* Who owns the run.                                                        *)

\* The acceptance commit: the creator owns the run and nothing waits.
LEMMA InitAuthority == Init => WitnessInv /\ Authority
<1> SUFFICES ASSUME Init PROVE WitnessInv /\ Authority
    OBVIOUS
<1>0. Ingest \in Actions /\ Ingest \in GraphActions
    BY Zenon DEF Actions, GraphActions
<1>1. /\ thread = NewThread
      /\ journal[Ingest].result = "accepted" /\ journal[Ingest].receipt = 1
      /\ \A a \in Actions \ {Ingest} : journal[a] = Absent
    BY <1>0 DEF Init
<1>2. \A a \in Actions : ~Queued(a)
    BY <1>1 DEF Queued, Absent
<1>3. Waiting = {}
    BY <1>2, Zenon DEF Waiting, Actions, GraphActions
<1>4. WriterIsReceipted
    BY <1>1, Zenon DEF WriterIsReceipted, NewThread
<1>5. ReceiptsAreUnique
    <2>1. thread.generation = 1
        BY <1>1, Zenon DEF NewThread
    <2>2. \A a \in Actions : a # Ingest => journal[a].receipt = 0
        BY <1>1 DEF Absent
    <2>3. journal[Ingest].receipt = 1
        BY <1>1, Zenon
    <2> QED
        BY <2>1, <2>2, <2>3 DEF ReceiptsAreUnique
<1>6. WitnessInv
    BY DEF Init, WitnessInv, NoPass, Open, NoSweep
<1> QED
    BY <1>2, <1>3, <1>4, <1>5, <1>6, Zenon DEF Authority, QueuedOwnsNothing, NoStrandedContinuation,
          OnlyFollowupsWait

\* Each of the ten ways keeps the run owned by a receipted writer, receipts
\* unique, waiting turns without authority, and a finished run without a queue.
LEMMA AuthorityStep == Inv /\ StoreStep => Authority'
<1> SUFFICES ASSUME Inv, StoreStep PROVE Authority'
    OBVIOUS
<1>0. /\ thread \in Thread /\ journal \in [Actions -> Row]
      /\ thread.writer \in Actions /\ thread.status \in Status /\ thread.generation \in Nat \ {0}
      /\ Followups \subseteq Actions /\ Answers \subseteq Actions /\ Cancel \in Actions
      /\ Cancel \notin GraphActions
      /\ \A a \in Actions : journal[a].receipt \in Nat
    BY ActionAssumption, Zenon DEF Inv, TypeInv, TypeOK, Thread, Row, Actions, GraphActions
<1>1. /\ WriterIsReceipted /\ ReceiptsAreUnique /\ QueuedOwnsNothing
      /\ NoStrandedContinuation /\ OnlyFollowupsWait
    BY Zenon DEF Inv, Authority
<1>2. \A a \in Actions, s \in Status :
        /\ Successor(s, a).status = s
        /\ Successor(s, a).writer = a
        /\ Successor(s, a).generation =
             IF a = thread.writer THEN thread.generation ELSE thread.generation + 1
    BY <1>0, SuccessorType
<1>3. ASSUME thread'.writer = thread.writer, thread'.generation = thread.generation,
             \A a \in Actions : /\ journal'[a].receipt = journal[a].receipt
                                /\ \/ journal'[a].result = journal[a].result
                                   \/ journal'[a].result \in Settled,
             thread'.status \in NonActive => \A f \in Followups : journal'[f].result # "queued"
      PROVE  Authority'
    <2>1. \A a \in Actions : /\ journal'[a].result = "queued" => journal[a].result = "queued"
                             /\ journal'[a].result = "absent" => journal[a].result = "absent"
        BY <1>3, Zenon DEF Settled
    <2>2. WriterIsReceipted'
        BY <1>0, <1>1, <1>3, <2>1, Zenon DEF WriterIsReceipted
    <2>3. ReceiptsAreUnique'
        BY <1>1, <1>3, Zenon DEF ReceiptsAreUnique
    <2>4. QueuedOwnsNothing' /\ OnlyFollowupsWait'
        BY <1>0, <1>1, <1>3, <2>1, Zenon DEF QueuedOwnsNothing, OnlyFollowupsWait, Waiting, Queued
    <2>5. NoStrandedContinuation'
        BY <1>3, Zenon DEF NoStrandedContinuation, Waiting, Queued
    <2> QED
        BY <2>2, <2>3, <2>4, <2>5, Zenon DEF Authority
<1>4. ASSUME SameDecisions \/ WriterDecided
      PROVE  \A a \in Actions : /\ journal'[a].receipt = journal[a].receipt
                                /\ \/ journal'[a].result = journal[a].result
                                   \/ journal'[a].result \in Settled
    BY <1>4, Zenon DEF SameDecisions, WriterDecided
<1>5. CASE thread' = thread /\ (SameDecisions \/ WriterDecided)
    <2>1. thread.status \in NonActive => \A f \in Followups : journal'[f].result # "queued"
        BY <1>0, <1>1, <1>4, <1>5, Zenon DEF NoStrandedContinuation, Waiting, Queued, Settled
    <2> QED
        BY <1>3, <1>4, <1>5, <2>1, Zenon
<1>6. ASSUME NEW status \in Active, Moved(status), SameDecisions \/ WriterDecided
      PROVE  Authority'
    <2>1. thread'.writer = thread.writer /\ thread'.generation = thread.generation
          /\ thread'.status \notin NonActive
        BY <1>0, <1>2, <1>6, StatusFacts DEF Moved
    <2> QED
        BY <1>3, <1>4, <1>6, <2>1, ZenonT(60)
<1>7. CASE Archive \/ Delete
    <2>1. thread.status \in NonActive /\ journal' = journal
        BY <1>7, StatusFacts, ZenonT(60) DEF Archive, Delete, CanArchive, CanDelete
    <2>2. thread'.writer = thread.writer /\ thread'.generation = thread.generation
        BY <1>0, <1>2, <1>7, StatusFacts DEF Archive, Delete
    <2>3. \A f \in Followups : journal'[f].result # "queued"
        BY <1>1, <2>1, Zenon DEF NoStrandedContinuation, Waiting, Queued
    <2> QED
        BY <1>3, <2>1, <2>2, <2>3, Zenon
<1>8. ASSUME NEW status \in Terminal, NEW result \in Settled, SettleTerminal(status, result)
      PROVE  Authority'
    <2>0. status \in Status
        BY StatusFacts, Zenon
    <2>1. /\ thread' = Successor(status, thread.writer)
          /\ \A a \in Actions :
                journal'[a] = IF a = thread.writer
                              THEN SettledAs(QueueRefused(journal)[a], result)
                              ELSE QueueRefused(journal)[a]
        BY <1>0, <1>8, <2>0, SettleTerminalType, Zenon
    <2>2. thread'.writer = thread.writer /\ thread'.generation = thread.generation
        BY <1>0, <1>2, <2>0, <2>1, ZenonT(60)
    <2>3. \A a \in Actions : journal'[a].receipt = journal[a].receipt
        BY <1>0, <2>1, QueueRefusedType, SettledAsType, SMTT(60)
    <2>4. \A a \in Actions : /\ journal'[a].result # "queued"
                             /\ \/ journal'[a].result = journal[a].result
                                \/ journal'[a].result \in Settled
        BY <1>0, <2>1, QueueRefusedType, SettledAsType, SMTT(60) DEF Settled
    <2> QED
        BY <1>0, <1>3, <2>2, <2>3, <2>4, Zenon
<1>9. CASE CancelTakes
    <2>1. /\ thread'.writer = Cancel
          /\ thread'.status = "cancelling"
          /\ thread'.generation \in Nat
          /\ thread.generation <= thread'.generation
        BY <1>0, <1>2, <1>9, StatusFacts, SMTT(60) DEF CancelTakes, CancelOwnsRun
    <2>2. /\ journal'[Cancel].result \notin {"absent", "queued"}
          /\ journal'[Cancel].receipt \in {0, journal[Cancel].receipt}
          /\ \A a \in Actions \ {Cancel} : journal'[a] = journal[a]
        BY <1>9, Zenon DEF CancelTakes
    <2>3. WriterIsReceipted'
        BY <1>0, <2>1, <2>2, Zenon DEF WriterIsReceipted
    <2>4. ReceiptsAreUnique'
        BY <1>0, <1>1, <2>1, <2>2, SMTT(60) DEF ReceiptsAreUnique
    <2>5. QueuedOwnsNothing' /\ OnlyFollowupsWait'
        BY <1>0, <1>1, <2>1, <2>2 DEF QueuedOwnsNothing, OnlyFollowupsWait, Waiting, Queued
    <2>6. NoStrandedContinuation'
        BY <2>1, StatusFacts, Zenon DEF NoStrandedContinuation
    <2> QED
        BY <2>3, <2>4, <2>5, <2>6, Zenon DEF Authority
<1>10. ASSUME NEW a \in Answers, AnswerTakes(a) PROVE Authority'
    <2>0. a \in Actions /\ a # thread.writer /\ a \notin Followups
        BY <1>0, <1>1, <1>10, ActionAssumption, Zenon DEF AnswerTakes, Exists, WriterIsReceipted
    <2>1. /\ thread'.writer = a
          /\ thread'.status \in Active
          /\ thread'.generation = thread.generation + 1
        BY <1>0, <1>2, <1>10, <2>0, ZenonT(60) DEF AnswerTakes
    <2>2. /\ journal'[a].result = "accepted"
          /\ journal'[a].receipt = thread.generation + 1
          /\ \A b \in Actions \ {a} : journal'[b] = journal[b]
        BY <1>10, <2>1, Zenon DEF AnswerTakes
    <2>3. WriterIsReceipted'
        BY <2>1, <2>2, Zenon DEF WriterIsReceipted
    <2>4. ReceiptsAreUnique'
        BY <1>0, <1>1, <2>0, <2>1, <2>2, SMTT(60) DEF ReceiptsAreUnique
    <2>5. QueuedOwnsNothing' /\ OnlyFollowupsWait'
        BY <1>0, <1>1, <2>0, <2>1, <2>2, Zenon
           DEF QueuedOwnsNothing, OnlyFollowupsWait, Waiting, Queued
    <2>6. NoStrandedContinuation'
        BY <2>1, StatusFacts, Zenon DEF NoStrandedContinuation
    <2> QED
        BY <2>3, <2>4, <2>5, <2>6, Zenon DEF Authority
<1>11. ASSUME NEW f \in Followups, PromotionTakes(f) PROVE Authority'
    <2>0. f \in Actions /\ f # thread.writer /\ journal[f].result = "queued"
        BY <1>0, <1>1, <1>11, ZenonT(60)
           DEF PromotionTakes, NextContinuation, QueuedOwnsNothing, Waiting, Queued
    <2>1. /\ thread'.writer = f
          /\ thread'.status = "running"
          /\ thread'.generation = thread.generation + 1
        BY <1>0, <1>2, <1>11, <2>0, StatusFacts, SMTT(30) DEF PromotionTakes
    <2>2. /\ journal'[f].result = "accepted"
          /\ journal'[f].receipt = thread.generation + 1
          /\ journal'[thread.writer].result = "applied"
          /\ \A a \in Actions \ {f} : journal'[a].receipt = journal[a].receipt
          /\ \A a \in Actions \ {f, thread.writer} : journal'[a] = journal[a]
        BY <1>11, <2>0, <2>1, Zenon DEF PromotionTakes
    <2>3. WriterIsReceipted'
        BY <2>1, <2>2, Zenon DEF WriterIsReceipted
    <2>4. ReceiptsAreUnique'
        BY <1>0, <1>1, <2>0, <2>1, <2>2, SMTT(60) DEF ReceiptsAreUnique
    <2>5. QueuedOwnsNothing' /\ OnlyFollowupsWait'
        BY <1>0, <1>1, <2>0, <2>1, <2>2
           DEF QueuedOwnsNothing, OnlyFollowupsWait, Waiting, Queued
    <2>6. NoStrandedContinuation'
        BY <2>1, StatusFacts, Zenon DEF NoStrandedContinuation
    <2> QED
        BY <2>3, <2>4, <2>5, <2>6, Zenon DEF Authority
<1>12. ASSUME NEW f \in Followups, SendFollowup(f) PROVE Authority'
    <2>0. f \in Actions /\ f # thread.writer
        BY <1>0, <1>1, <1>12, Zenon DEF SendFollowup, Exists, WriterIsReceipted
    <2>1. thread' = thread /\ thread.status \in Active
        BY <1>12, StatusFacts, Zenon DEF SendFollowup, CanSendFollowup
    <2>2. /\ journal'[f].result = "queued" /\ journal'[f].receipt = 0
          /\ \A a \in Actions \ {f} : journal'[a] = journal[a]
        BY <1>0, <1>12, <2>0, Zenon DEF SendFollowup
    <2>3. WriterIsReceipted'
        BY <1>0, <1>1, <2>0, <2>1, <2>2, ZenonT(60) DEF WriterIsReceipted
    <2>4. ReceiptsAreUnique'
        BY <1>0, <1>1, <2>0, <2>1, <2>2, SMTT(60) DEF ReceiptsAreUnique
    <2>5. QueuedOwnsNothing' /\ OnlyFollowupsWait'
        BY <1>0, <1>1, <2>0, <2>1, <2>2, Zenon
           DEF QueuedOwnsNothing, OnlyFollowupsWait, Waiting, Queued
    <2>6. NoStrandedContinuation'
        BY <2>1, StatusFacts, Zenon DEF NoStrandedContinuation
    <2> QED
        BY <2>3, <2>4, <2>5, <2>6, Zenon DEF Authority
<1> QED
    BY <1>5, <1>6, <1>7, <1>8, <1>9, <1>10, <1>11, <1>12, Zenon DEF StoreStep

\* The inductive invariant holds in every reachable state.
THEOREM InvHolds == Spec => []Inv
<1>1. Init => Inv
    BY InitTypes, InitAuthority, Zenon DEF Inv
<1>2. Inv /\ [Next]_vars => Inv'
    <2> SUFFICES ASSUME Inv, [Next]_vars PROVE Inv'
        OBVIOUS
    <2>1. TypeInv'
        BY StepTypes, Zenon DEF Inv
    <2>2. WitnessInv'
        BY WitnessStep, Zenon
    <2>3. Authority'
        BY NextIsStoreStep, AuthorityStep, Zenon
    <2> QED
        BY <2>1, <2>2, <2>3, Zenon DEF Inv
<1> QED
    BY <1>1, <1>2, PTL DEF Spec

\* The writer of the run has a decided or accepted row, and a graph action that
\* writes it holds the receipt of the current generation, for any number of
\* follow-ups, asks, dispatchers and passes.
THEOREM WriterIsReceiptedTheorem == Spec => []WriterIsReceipted
<1>1. Inv => WriterIsReceipted
    BY Zenon DEF Inv, Authority
<1> QED
    BY <1>1, InvHolds, PTL

\* No two actions hold a receipt of the same generation, and none one of a
\* generation still to come.
THEOREM ReceiptsAreUniqueTheorem == Spec => []ReceiptsAreUnique
<1>1. Inv => ReceiptsAreUnique
    BY Zenon DEF Inv, Authority
<1> QED
    BY <1>1, InvHolds, PTL

\* A waiting turn owns neither a receipt nor the run.
THEOREM QueuedOwnsNothingTheorem == Spec => []QueuedOwnsNothing
<1>1. Inv => QueuedOwnsNothing
    BY Zenon DEF Inv, Authority
<1> QED
    BY <1>1, InvHolds, PTL

\* However a run ends, no continuation is left waiting behind it.
THEOREM NoStrandedContinuationTheorem == Spec => []NoStrandedContinuation
<1>1. Inv => NoStrandedContinuation
    BY Zenon DEF Inv, Authority
<1> QED
    BY <1>1, InvHolds, PTL

-----------------------------------------------------------------------------
(* What a step may never do.                                                *)

\* No step opens a decided action again.
LEMMA StepKeepsDecisions ==
    Inv /\ StoreStep => \A a \in Actions : Applied(a) => Applied(a)'
<1> SUFFICES ASSUME Inv, StoreStep, NEW a \in Actions, Applied(a) PROVE Applied(a)'
    OBVIOUS
<1>0. /\ thread \in Thread /\ journal \in [Actions -> Row] /\ Followups \subseteq Actions
      /\ thread.writer \in Actions
    BY Zenon DEF Inv, TypeInv, TypeOK, Thread, Actions, GraphActions
<1>a. journal[a].result \notin {"absent", "queued"}
    BY Zenon DEF Applied, Settled
<1>1. CASE SameDecisions
    BY <1>1, Zenon DEF SameDecisions, Applied
<1>2. CASE WriterDecided
    BY <1>2, Zenon DEF WriterDecided, Applied
<1>3. CASE Archive \/ Delete
    BY <1>3, Zenon DEF Archive, Delete, Applied
<1>4. ASSUME NEW status \in Terminal, NEW result \in Settled, SettleTerminal(status, result)
      PROVE  Applied(a)'
    <2>0. status \in Status
        BY StatusFacts, Zenon
    <2>1. journal'[a] = IF a = thread.writer
                        THEN SettledAs(QueueRefused(journal)[a], result)
                        ELSE QueueRefused(journal)[a]
        BY <1>0, <1>4, <2>0, SettleTerminalType, Zenon
    <2>2. journal'[a].result \in Settled
        BY <1>0, <1>a, <2>1, QueueRefusedType, SettledAsType, SMTT(30) DEF Applied
    <2> QED
        BY <2>2, Zenon DEF Applied
<1>5. CASE CancelTakes
    BY <1>5, Zenon DEF CancelTakes, Applied
<1>6. ASSUME NEW b \in Answers, AnswerTakes(b) PROVE Applied(a)'
    BY <1>6, <1>a, Zenon DEF AnswerTakes, Exists, Applied
<1>7. ASSUME NEW f \in Followups, PromotionTakes(f) PROVE Applied(a)'
    <2>1. a # f
        BY <1>7, <1>a, Zenon DEF PromotionTakes, NextContinuation, Waiting, Queued
    <2>2. "applied" \in Settled
        BY Zenon DEF Settled
    <2> QED
        BY <1>7, <2>1, <2>2, ZenonT(60) DEF PromotionTakes, Applied
<1>8. ASSUME NEW f \in Followups, SendFollowup(f) PROVE Applied(a)'
    <2>1. a # f
        BY <1>8, <1>a, Zenon DEF SendFollowup, Exists
    <2> QED
        BY <1>0, <1>8, <2>1, Zenon DEF SendFollowup, Applied
<1> QED
    BY <1>1, <1>2, <1>3, <1>4, <1>5, <1>6, <1>7, <1>8, ZenonT(60) DEF StoreStep

\* A decided action is never opened again.
THEOREM DecisionsStandTheorem == Spec => DecisionsStand
<1>1. Inv /\ [Next]_vars => [\A a \in Actions : Applied(a) => Applied(a)']_vars
    BY NextIsStoreStep, StepKeepsDecisions, Zenon
<1> QED
    BY <1>1, InvHolds, PTL DEF Spec, DecisionsStand

\* No step hands a run its cancel owns to the creating or a follow-up turn.
LEMMA StepKeepsCancel ==
    Inv /\ StoreStep => (thread.writer = Cancel => thread'.writer \notin {Ingest} \cup Followups)
<1> SUFFICES ASSUME Inv, StoreStep, thread.writer = Cancel
             PROVE  thread'.writer \notin {Ingest} \cup Followups
    OBVIOUS
<1>0. /\ thread \in Thread /\ Cancel \in Actions /\ Answers \subseteq Actions
      /\ thread.status \in Status
      /\ Cancel \notin GraphActions /\ Cancel \notin {Ingest} \cup Followups
      /\ Answers \cap ({Ingest} \cup Followups) = {}
    BY ActionAssumption DEF Inv, TypeInv, TypeOK, Thread, Actions, GraphActions
<1>1. \A a \in Actions, s \in Status : Successor(s, a).writer = a
    BY <1>0, SuccessorType, Zenon
<1>2. CASE thread' = thread
    BY <1>0, <1>2, Zenon
<1>3. ASSUME NEW status \in Active, Moved(status)
      PROVE  thread'.writer = Cancel
    BY <1>0, <1>1, <1>3, StatusFacts, Zenon DEF Moved
<1>4. CASE Archive \/ Delete
    BY <1>0, <1>1, <1>4, StatusFacts, ZenonT(60) DEF Archive, Delete
<1>5. ASSUME NEW status \in Terminal, NEW result \in Settled, SettleTerminal(status, result)
      PROVE  thread'.writer = Cancel
    BY <1>0, <1>1, <1>5, StatusFacts, Zenon DEF SettleTerminal
<1>6. CASE CancelTakes
    BY <1>0, <1>1, <1>6, StatusFacts, Zenon DEF CancelTakes
<1>7. ASSUME NEW a \in Answers, AnswerTakes(a) PROVE thread'.writer = a
    BY <1>0, <1>1, <1>7, ZenonT(60) DEF AnswerTakes
<1>8. ASSUME NEW f \in Followups, PromotionTakes(f) PROVE FALSE
    BY <1>0, <1>8, Zenon DEF PromotionTakes
<1>9. ASSUME NEW f \in Followups, SendFollowup(f) PROVE thread' = thread
    BY <1>9, Zenon DEF SendFollowup
<1> QED
    BY <1>0, <1>2, <1>3, <1>4, <1>5, <1>6, <1>7, <1>8, <1>9, ZenonT(60) DEF StoreStep

\* Once a cancel writes the run neither the creating turn nor a follow-up
\* takes it over, whatever a pass read before.
THEOREM CancelKeepsTheRunTheorem == Spec => CancelKeepsTheRun
<1>1. Inv /\ [Next]_vars
        => [thread.writer = Cancel => thread'.writer \notin {Ingest} \cup Followups]_vars
    BY NextIsStoreStep, StepKeepsCancel, Zenon
<1> QED
    BY <1>1, InvHolds, PTL DEF Spec, CancelKeepsTheRun

-----------------------------------------------------------------------------
(* The run row implements RunRow.                                           *)

\* Each of the ten ways leaves the row alone or is an election RunRow allows.
LEMMA StepIsElection == Inv /\ StoreStep => [Promise!Next]_thread
<1> SUFFICES ASSUME Inv, StoreStep, thread' # thread PROVE Promise!Next
    OBVIOUS
<1>0. /\ thread \in Thread /\ thread.writer \in Actions /\ thread.status \in Status
      /\ Cancel \in Actions /\ Answers \subseteq Actions /\ Followups \subseteq Actions
      /\ Active \cap NonActive = {}
    BY StatusFacts, Zenon DEF Inv, TypeInv, TypeOK, Thread, Actions, GraphActions
<1>1. \A s, a : Promise!Successor(thread, s, a) = Successor(s, a)
    BY Zenon DEF Promise!Successor, Successor
<1>2. ASSUME NEW s \in Status, NEW a \in Actions, thread' = Successor(s, a),
             ValidateTransition(thread.status, s),
             s # thread.status \/ a # thread.writer,
             thread.status \in NonActive => a = thread.writer
      PROVE  Promise!Next
    <2>1. Promise!ValidateTransition(thread.status, s)
        BY <1>2, Zenon DEF ValidateTransition, Promise!ValidateTransition, ValidTransitions,
              Promise!ValidTransitions, Status, Promise!Status, Active, Promise!Active,
              NonActive, Promise!NonActive, Terminal, Promise!Terminal
    <2>2. s \in Promise!Status /\ (thread.status \in Promise!NonActive => a = thread.writer)
        BY <1>2, Zenon DEF Status, Promise!Status, Active, Promise!Active,
              NonActive, Promise!NonActive, Terminal, Promise!Terminal
    <2>3. Promise!Elect(s, a)
        BY <1>1, <1>2, <2>1, <2>2, Zenon DEF Promise!Elect
    <2> QED
        BY <2>2, <2>3, Zenon DEF Promise!Next
<1>3. ASSUME NEW status \in Active, Moved(status) PROVE Promise!Next
    BY <1>0, <1>2, <1>3, StatusFacts, Zenon DEF Moved
<1>4. CASE Archive
    <2>1. thread.status \in Terminal /\ thread' = Successor("archived", thread.writer)
        BY <1>4, Zenon DEF Archive, CanArchive
    <2>2. thread.status # "archived" /\ "archived" \in Status
        BY <2>1, Zenon DEF Terminal, Status, NonActive
    <2> QED
        BY <1>0, <1>2, <2>1, <2>2, TransitionFacts, Zenon
<1>5. CASE Delete
    <2>1. Promise!CanDelete(thread.status)
        BY <1>5, Zenon DEF Delete, CanDelete, Promise!CanDelete, Terminal, Promise!Terminal
    <2>2. Promise!EnterDeletion
        BY <1>1, <1>5, <2>1, Zenon DEF Delete, Promise!EnterDeletion
    <2> QED
        BY <2>2, Zenon DEF Promise!Next
<1>6. ASSUME NEW status \in Terminal, NEW result \in Settled, SettleTerminal(status, result)
      PROVE  Promise!Next
    BY <1>0, <1>2, <1>6, StatusFacts, Zenon DEF SettleTerminal, Electable
<1>7. CASE CancelTakes
    <2>1. /\ ~CancelOwnsRun /\ thread' = Successor("cancelling", Cancel)
          /\ CanCancel(thread.status)
        BY <1>7, Zenon DEF CancelTakes
    <2>2. thread.status \in Active /\ ValidateTransition(thread.status, "cancelling")
        BY <1>0, <2>1, TransitionFacts, Zenon
    <2> QED
        BY <1>0, <1>2, <2>1, <2>2, StatusFacts, Zenon DEF CancelOwnsRun
<1>8. ASSUME NEW a \in Answers, AnswerTakes(a) PROVE Promise!Next
    <2>1. a # thread.writer
        BY <1>8, Zenon DEF AnswerTakes, Exists, Inv, Authority, WriterIsReceipted
    <2>2. thread' = Successor(thread.status, a) /\ thread.status \in Active
        BY <1>8, Zenon DEF AnswerTakes
    <2>3. ValidateTransition(thread.status, thread.status)
        BY Zenon DEF ValidateTransition
    <2> QED
        BY <1>0, <1>2, <2>1, <2>2, <2>3, ZenonT(60)
<1>9. ASSUME NEW f \in Followups, PromotionTakes(f) PROVE Promise!Next
    <2>1. f # thread.writer
        BY <1>9, Zenon DEF PromotionTakes, NextContinuation, Inv, Authority, QueuedOwnsNothing
    <2> QED
        BY <1>0, <1>2, <1>9, <2>1, StatusFacts, ZenonT(60) DEF PromotionTakes
<1>10. ASSUME NEW f \in Followups, SendFollowup(f) PROVE thread' = thread
    BY <1>10, Zenon DEF SendFollowup
<1> QED
    BY <1>3, <1>4, <1>5, <1>6, <1>7, <1>8, <1>9, <1>10 DEF StoreStep

\* Every write of the run row is an election of RunRow, so revisions count the
\* writes, generations the writers, and a run that is over is never brought back.
THEOREM RowPromiseTheorem == Spec => RowPromise
<1>1. Init => Promise!Init
    <2> SUFFICES ASSUME Init PROVE Promise!Init
        BY Zenon
    <2>1. thread = [status |-> "submitted", revision |-> 0, generation |-> 1, writer |-> Ingest]
        BY Zenon DEF Init, NewThread
    <2>2. Ingest \in Actions
        BY Zenon DEF Actions, GraphActions
    <2> QED
        BY <2>1, <2>2, Zenon DEF Promise!Init
<1>2. Inv /\ [Next]_vars => [Promise!Next]_thread
    BY NextIsStoreStep, StepIsElection, Zenon
<1> QED
    BY <1>1, <1>2, InvHolds, PTL DEF Spec, RowPromise, Promise!Spec

=============================================================================
