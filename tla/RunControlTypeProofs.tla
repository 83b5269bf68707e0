------------------------ MODULE RunControlTypeProofs ------------------------
(***************************************************************************)
(* Type correctness of RunControl, for any number of follow-ups, asks,       *)
(* dispatchers and passes, any lease, deadlines and queue depth, and any     *)
(* bounds; and what its helpers return, which RunControlProofs builds on.    *)
(***************************************************************************)
EXTENDS RunControl, FiniteSetTheorems, WellFoundedInduction, TLAPS

-----------------------------------------------------------------------------
(* What the helpers of the journal and of the run row return.               *)

\* Taking a lease keeps a journal row a journal row.
LEMMA LeasedType ==
    ASSUME NEW row \in Row, NEW d \in Dispatchers, now \in Nat
    PROVE  /\ Leased(row, d) \in Row
           /\ Leased(row, d).result = row.result
           /\ Leased(row, d).receipt = row.receipt
<1>1. now + LeaseTTL \in Nat
    BY TimeAssumption
<1> QED
    BY <1>1, Zenon DEF Leased, Row

\* Releasing a lease keeps everything but the lease.
LEMMA ReleasedType ==
    ASSUME NEW row \in Row
    PROVE  /\ Released(row) \in Row
           /\ Released(row).result = row.result
           /\ Released(row).receipt = row.receipt
BY Zenon DEF Released, Row

\* Settling a row keeps its receipt and records the result.
LEMMA SettledAsType ==
    ASSUME NEW row \in Row, NEW result \in Settled
    PROVE  /\ SettledAs(row, result) \in Row
           /\ SettledAs(row, result).result = result
           /\ SettledAs(row, result).receipt = row.receipt
BY ReleasedType, Zenon DEF SettledAs, Row, Result

\* Refusing the queue settles the waiting rows and leaves the others alone.
LEMMA QueueRefusedType ==
    ASSUME NEW rows \in [Actions -> Row]
    PROVE  /\ QueueRefused(rows) \in [Actions -> Row]
           /\ \A a \in Actions :
                /\ QueueRefused(rows)[a].receipt = rows[a].receipt
                /\ QueueRefused(rows)[a].result # "queued"
                /\ rows[a].result # "queued" => QueueRefused(rows)[a] = rows[a]
                /\ rows[a].result = "queued" => QueueRefused(rows)[a].result = "rejected"
<1>1. "rejected" \in Settled
    BY Zenon DEF Settled
<1> QED
    BY <1>1, SettledAsType DEF QueueRefused

\* An election keeps the run row a run row.
LEMMA SuccessorType ==
    ASSUME NEW status \in Status, NEW a \in Actions, thread \in Thread
    PROVE  /\ Successor(status, a) \in Thread
           /\ Successor(status, a).status = status
           /\ Successor(status, a).writer = a
           /\ Successor(status, a).revision = thread.revision + 1
           /\ Successor(status, a).generation =
                IF a = thread.writer THEN thread.generation ELSE thread.generation + 1
BY DEF Successor, Thread

\* The initial records have their types.
LEMMA InitialRecords ==
    /\ NewThread \in Thread
    /\ NoCheckpoint \in Checkpoint
    /\ IdleCall \in Call
    /\ Absent \in Row
    /\ FreshWorker \in Worker
    /\ NoSweep \in Sweep
    /\ \A kind \in {"none", "pause", "boot_pause", "boot", "observe"} : Open(kind) \in Pass
<1>1. NewThread \in Thread
    BY DEF NewThread, Thread, Actions, GraphActions, Status, Active, NonActive, Terminal
<1>2. NoCheckpoint \in Checkpoint
    BY Zenon DEF NoCheckpoint, Checkpoint, CheckpointState
<1>3. IdleCall \in Call
    BY Zenon DEF IdleCall, Call
<1>4. Absent \in Row
    BY Zenon DEF Absent, Row, Result
<1>5. FreshWorker \in Worker
    BY Zenon DEF FreshWorker, Worker
<1>6. NoSweep \in Sweep
    BY <1>1, Zenon DEF NoSweep, Sweep
<1>7. \A kind \in {"none", "pause", "boot_pause", "boot", "observe"} : Open(kind) \in Pass
    BY <1>1, <1>2, Zenon DEF Open, Pass
<1> QED
    BY <1>1, <1>2, <1>3, <1>4, <1>5, <1>6, <1>7, Zenon

-----------------------------------------------------------------------------
(* The highest waiting position.  A minimal counterexample replaces the      *)
(* induction on the size of the set.                                         *)

\* A nonempty set of naturals has a least member.
LEMMA LeastNatural ==
    ASSUME NEW S \in SUBSET Nat, S # {}
    PROVE  \E n \in S : \A m \in S : n <= m
<1> DEFINE R == OpToRel(<, Nat)
<1>1. PICK n \in S : \A m \in S : <<m, n>> \notin R
    <2> HIDE DEF R
    <2>1. IsWellFoundedOn(R, Nat)
        BY NatLessThanWellFounded, Zenon DEF R
    <2> QED
        BY <2>1, WFMin, Zenon
<1>2. \A m \in S : ~(m < n)
    BY <1>1, Zenon DEF OpToRel
<1> QED
    BY <1>2

\* A finite nonempty set has a member whose position is the highest.
LEMMA HighestPosition ==
    ASSUME NEW W, IsFiniteSet(W), W # {}, NEW pos, \A w \in W : pos[w] \in Nat
    PROVE  \E f \in W : \A g \in W : pos[g] <= pos[f]
<1> DEFINE Topped(A) == \E f \in A : \A g \in A : pos[g] <= pos[f]
           Bad == {n \in Nat : \E A \in SUBSET W : A # {} /\ Cardinality(A) = n /\ ~Topped(A)}
<1>1. SUFFICES ASSUME ~Topped(W) PROVE FALSE
    OBVIOUS
<1>2. Cardinality(W) \in Bad
    BY <1>1, FS_CardinalityType, Zenon
<1>3. PICK n \in Bad : \A m \in Bad : n <= m
    <2> HIDE DEF Bad
    <2>1. Bad \in SUBSET Nat
        BY Zenon DEF Bad
    <2> QED
        BY <1>2, <2>1, LeastNatural, Zenon
<1>4. PICK A \in SUBSET W : A # {} /\ Cardinality(A) = n /\ ~Topped(A)
    BY <1>3, Zenon
<1>5. PICK x \in A : TRUE
    BY <1>4, Zenon
<1>6. IsFiniteSet(A)
    BY <1>4, FS_Subset, Zenon
<1>7. Cardinality(A \ {x}) = n - 1 /\ n \in Nat /\ IsFiniteSet(A \ {x})
    BY <1>3, <1>4, <1>5, <1>6, FS_RemoveElement, Zenon
<1>8. n - 1 \notin Bad
    BY <1>3, <1>7
<1>9. A \ {x} # {}
    BY <1>4, <1>5
<1>10. n - 1 \in Nat
    BY <1>7, FS_CardinalityType, Zenon
<1>11. Topped(A \ {x})
    BY <1>7, <1>8, <1>9, <1>10, Zenon
<1>12. PICK f \in A \ {x} : \A g \in A \ {x} : pos[g] <= pos[f]
    BY <1>11, Zenon
<1>13. CASE pos[x] <= pos[f]
    BY <1>4, <1>12, <1>13, Zenon
<1>14. CASE ~(pos[x] <= pos[f])
    <2>1. pos[x] \in Nat /\ \A g \in A : pos[g] \in Nat
        BY <1>4, <1>5, Zenon
    <2>2. \A g \in A : pos[g] <= pos[x]
        BY <1>12, <1>14, <2>1
    <2> QED
        BY <1>4, <1>5, <2>2, Zenon
<1> QED
    BY <1>13, <1>14, Zenon

\* next_queue_position is one past every waiting position.
LEMMA NextPositionType ==
    ASSUME journal \in [Actions -> Row]
    PROVE  /\ NextPosition \in Nat \ {0}
           /\ \A f \in Waiting : journal[f].position < NextPosition
<1> DEFINE S == {journal[f].position : f \in Waiting}
           pos == [f \in Waiting |-> journal[f].position]
<1>1. \A f \in Waiting : journal[f].position \in Nat /\ pos[f] = journal[f].position
    BY Zenon DEF Waiting, Actions, GraphActions, Row
<1>2. CASE Waiting = {}
    BY <1>2 DEF NextPosition
<1>3. CASE Waiting # {}
    <2>1. IsFiniteSet(Waiting)
        BY ActionAssumption, FS_Subset, Zenon DEF Waiting
    <2>2. \E f \in Waiting : \A g \in Waiting : pos[g] <= pos[f]
        <3> HIDE DEF pos
        <3> QED BY <1>1, <1>3, <2>1, HighestPosition, Zenon
    <2>3. \E n \in S : \A f \in Waiting : journal[f].position <= n
        BY <1>1, <2>2, Zenon
    <2> DEFINE top == CHOOSE n \in S : \A f \in Waiting : journal[f].position <= n
    <2>4. top \in S /\ \A f \in Waiting : journal[f].position <= top
        BY <2>3, Zenon
    <2>5. NextPosition = 1 + top
        BY <1>3, Zenon DEF NextPosition
    <2>6. top \in Nat
        BY <1>1, <2>4, Zenon
    <2> HIDE DEF top
    <2> QED
        BY <1>1, <2>4, <2>5, <2>6
<1> QED
    BY <1>2, <1>3, Zenon

-----------------------------------------------------------------------------
(* The records the actions build.                                           *)

\* The statuses the actions elect are statuses.
LEMMA StatusFacts ==
    /\ Active \cup NonActive = Status
    /\ {"submitted", "running", "input_required", "cancelling", "reconciling"} \subseteq Active
    /\ {"completed", "failed", "cancelled", "archived", "deleting"} \subseteq NonActive
    /\ Terminal \subseteq NonActive
    /\ Active \cap NonActive = {}
BY Zenon DEF Status, Active, NonActive, Terminal

\* What a caller may make of its call is a call.
LEMMA CallType ==
    /\ \A kind \in {"create", "cancel", "answer", "redrive", "sweep"}, a \in Actions :
          Claimed(kind, a) \in Call
    /\ \A c \in Call : Accepted(c) \in Call
    /\ \A c \in Call, s \in {"idle", "held", "free", "claimed", "bound", "created",
                             "definite", "rejected", "ambiguous"} :
          [c EXCEPT !.stage = s] \in Call
<1>1. \A c \in Call, s \in {"idle", "held", "free", "claimed", "bound", "created",
                             "definite", "rejected", "ambiguous"} :
          [c EXCEPT !.stage = s] \in Call
    BY Zenon DEF Call
<1>2. \A c \in Call : Accepted(c) \in Call
    BY <1>1, InitialRecords, Zenon DEF Accepted
<1>3. \A kind \in {"create", "cancel", "answer", "redrive", "sweep"}, a \in Actions :
          Claimed(kind, a) \in Call
    BY Zenon DEF Claimed, Call
<1> QED
    BY <1>1, <1>2, <1>3, Zenon

\* A reply leaves every call a call.
LEMMA RepliedType ==
    ASSUME call \in [Dispatchers -> Call], NEW d \in Dispatchers, Replied(d)
    PROVE  call' \in [Dispatchers -> Call]
<1>1. CASE call' = [call EXCEPT ![d] = Accepted(@)]
    BY <1>1, CallType, Zenon
<1>2. CASE call' = [call EXCEPT ![d].stage = "ambiguous"]
    BY <1>2, CallType, Zenon
<1> QED
    BY <1>1, <1>2, Zenon DEF Replied

\* Whatever of the new events is kept, only events wait.
LEMMA EmitType ==
    ASSUME events \subseteq Event, NEW new, new \subseteq Event, Emit(new)
    PROVE  events' \subseteq Event
BY Zenon DEF Emit

\* The events the worker makes are events.
LEMMA EventOfType ==
    ASSUME NEW kind \in {"application", "paused", "completed", "failed", "ceased",
                         "no_active_work"},
           NEW a \in Actions, NEW g \in Nat
    PROVE  EventOf(kind, a, g) \in Event
BY Zenon DEF EventOf, Event

\* Ending a pass leaves every pass a pass.
LEMMA EndPassType ==
    ASSUME pass \in [Passes -> Pass], NEW p \in Passes, EndPass(p)
    PROVE  pass' \in [Passes -> Pass]
<1>1. Open("boot") \in Pass /\ NoPass \in Pass
    BY InitialRecords, Zenon DEF NoPass
<1> QED
    BY <1>1, Zenon DEF EndPass

\* Opening a pass leaves every pass a pass.
LEMMA OpenPassType ==
    ASSUME pass \in [Passes -> Pass], NEW kind \in {"pause", "observe"}, OpenPass(kind)
    PROVE  pass' \in [Passes -> Pass]
<1>1. Open(kind) \in Pass
    BY InitialRecords, Zenon
<1> QED
    BY <1>1, Zenon DEF OpenPass

\* A terminal settlement writes a run row and a journal.
LEMMA SettleTerminalType ==
    ASSUME thread \in Thread, journal \in [Actions -> Row],
           NEW status \in Status, NEW result \in Settled, SettleTerminal(status, result)
    PROVE  /\ thread' = Successor(status, thread.writer)
           /\ thread' \in Thread
           /\ journal' \in [Actions -> Row]
           /\ \A a \in Actions :
                journal'[a] = IF a = thread.writer
                              THEN SettledAs(QueueRefused(journal)[a], result)
                              ELSE QueueRefused(journal)[a]
<1>1. thread.writer \in Actions
    BY Zenon DEF Thread
<1>2. thread' = Successor(status, thread.writer) /\ thread' \in Thread
    BY <1>1, SuccessorType, Zenon DEF SettleTerminal
<1>3. QueueRefused(journal) \in [Actions -> Row]
    BY QueueRefusedType, Zenon
<1>4. journal' = [QueueRefused(journal) EXCEPT ![thread.writer] = SettledAs(@, result)]
    BY Zenon DEF SettleTerminal
<1>5. SettledAs(QueueRefused(journal)[thread.writer], result) \in Row
    BY <1>1, <1>3, SettledAsType, Zenon
<1> HIDE DEF QueueRefused
<1> QED
    BY <1>1, <1>2, <1>3, <1>4, <1>5, Zenon

\* _settle_permanent_refusal of the writer's action.
LEMMA QuarantineType ==
    ASSUME thread \in Thread, journal \in [Actions -> Row], Quarantine(thread.writer)
    PROVE  thread' \in Thread /\ journal' \in [Actions -> Row]
<1>1. "rejected" \in Settled
    BY Zenon DEF Settled
<1>2. thread.writer \in Actions
    BY Zenon DEF Thread
<1>3. journal' \in [Actions -> Row]
    BY <1>1, <1>2, SettledAsType, Zenon DEF Quarantine
<1>4. thread' \in Thread
    BY <1>2, StatusFacts, SuccessorType, Zenon DEF Quarantine
<1> QED
    BY <1>3, <1>4, Zenon

-----------------------------------------------------------------------------
(* Every action keeps every variable in its type.                           *)

\* The steps of a dispatcher delivering what it claimed.
LEMMA DeliveryKeepsTypes ==
    ASSUME TypeOK, NEW d \in Dispatchers, Delivery(d)
    PROVE  TypeOK'
<1> USE DEF store, gateway, outside, history
<1>0. /\ thread \in Thread /\ journal \in [Actions -> Row] /\ now \in Nat
      /\ call \in [Dispatchers -> Call] /\ worker \in Worker /\ events \subseteq Event
      /\ call[d] \in Call /\ IdleCall \in Call
    BY InitialRecords, Zenon DEF TypeOK
<1>a. call[d].action \in Actions \cup {NoOne} /\ Cancel \in Actions /\ GraphActions \subseteq Actions
    BY <1>0, Zenon DEF Call, Actions
<1>1. CASE Bind(d)
    <2>1. ASSUME call[d].action \in Actions
          PROVE  [call[d] EXCEPT !.stage = "bound",
                                 !.receipt = journal[call[d].action].receipt] \in Call
        <3>1. journal[call[d].action].receipt \in Nat
            BY <1>0, <2>1, Zenon DEF Row
        <3> QED
            BY <1>0, <3>1, Zenon DEF Call
    <2>2. CurrentReceipt(call[d].action) => call[d].action \in Actions
        BY <1>a, Zenon DEF CurrentReceipt
    <2>3. call' \in [Dispatchers -> Call]
        BY <1>0, <1>1, <1>a, <2>1, <2>2, Zenon DEF Bind
    <2> QED
        BY <1>1, <2>3, Zenon DEF Bind, TypeOK
<1>2. CASE DeliverDuplicate(d)
    <2>1. call' \in [Dispatchers -> Call]
        BY <1>0, <1>2, RepliedType, Zenon DEF DeliverDuplicate
    <2> QED
        BY <1>2, <2>1, Zenon DEF DeliverDuplicate, TypeOK
<1>3. CASE DeliverGraph(d)
    <2>1. call' \in [Dispatchers -> Call]
        BY <1>0, <1>3, RepliedType, Zenon DEF DeliverGraph
    <2>2. call[d].action \in GraphActions /\ call[d].receipt \in Nat
        BY <1>0, <1>3, Zenon DEF DeliverGraph, Call
    <2>3. worker' \in Worker
        <3>1. worker.seen \cup {call[d].action} \in SUBSET Actions
            BY <1>0, <1>a, <2>2, Zenon DEF Worker
        <3> QED
            BY <1>0, <1>3, <2>2, <3>1, Zenon DEF DeliverGraph, Worker
    <2> QED
        BY <1>3, <2>1, <2>3, Zenon DEF DeliverGraph, TypeOK
<1>4. CASE DeliverCancel(d)
    <2>1. call' \in [Dispatchers -> Call]
        BY <1>0, <1>4, RepliedType, Zenon DEF DeliverCancel
    <2>2. worker' \in Worker
        <3>1. worker.seen \cup {Cancel} \in SUBSET Actions
            BY <1>0, <1>a, Zenon DEF Worker
        <3> QED
            BY <1>0, <1>4, <3>1, Zenon DEF DeliverCancel, Worker
    <2>3. events' \subseteq Event
        <3>1. EventOf("no_active_work", Cancel, 0) \in Event
            BY <1>a, EventOfType, Zenon
        <3>2. CASE worker.phase = "idle"
            BY <1>0, <1>4, <3>1, <3>2, EmitType, Zenon DEF DeliverCancel
        <3>3. CASE worker.phase # "idle"
            BY <1>0, <1>4, <3>3, Zenon DEF DeliverCancel
        <3> QED
            BY <3>2, <3>3, Zenon
    <2> QED
        BY <1>4, <2>1, <2>2, <2>3, Zenon DEF DeliverCancel, TypeOK
<1>5. CASE DeliverBusy(d)
    <2>1. call' \in [Dispatchers -> Call]
        BY <1>0, <1>5, CallType, Zenon DEF DeliverBusy
    <2> QED
        BY <1>5, <2>1, Zenon DEF DeliverBusy, TypeOK
<1>6. CASE Undelivered(d)
    <2>1. call' \in [Dispatchers -> Call]
        BY <1>0, <1>6, CallType, Zenon DEF Undelivered
    <2> QED
        BY <1>6, <2>1, Zenon DEF Undelivered, TypeOK
<1>7. CASE RecordFailure(d)
    <2> DEFINE a == call[d].action
    <2>1. call' \in [Dispatchers -> Call]
        BY <1>0, <1>7, Zenon DEF RecordFailure
    <2>2. a \in Actions => Released(journal[a]) \in Row
        BY <1>0, ReleasedType, Zenon
    <2>3. journal' \in [Actions -> Row]
        BY <1>0, <1>7, <2>2, Zenon DEF RecordFailure
    <2>4. thread' \in Thread
        <3>1. FailureRecordable(d) => a \in Actions
            BY <1>0, Zenon DEF FailureRecordable, Thread
        <3>2. thread' = thread \/ (a \in Actions /\ thread' = Successor("input_required", a))
            BY <1>7, <3>1, Zenon DEF RecordFailure
        <3>3. "input_required" \in Status
            BY StatusFacts, Zenon
        <3> QED
            BY <1>0, <3>2, <3>3, SuccessorType
    <2> QED
        BY <1>7, <2>1, <2>3, <2>4, Zenon DEF RecordFailure, TypeOK
<1>8. CASE RecordRedriveFailure(d)
    <2>1. call' \in [Dispatchers -> Call]
        BY <1>0, <1>8, Zenon DEF RecordRedriveFailure
    <2>2. \A a \in Actions : Released(journal[a]) \in Row
        BY <1>0, ReleasedType, Zenon
    <2>3. thread' \in Thread /\ journal' \in [Actions -> Row]
        <3>1. CASE /\ journal' = [journal EXCEPT ![call[d].action] = IF @.holder = d THEN Released(@) ELSE @]
                   /\ UNCHANGED thread
            BY <1>0, <2>2, <3>1, Zenon
        <3>2. CASE thread.writer = call[d].action /\ Quarantine(call[d].action)
            <4>1. Quarantine(thread.writer)
                BY <3>2, Zenon
            <4> QED
                BY <1>0, <4>1, QuarantineType, Zenon
        <3>3. CASE UNCHANGED store
            BY <1>0, <3>3, Zenon
        <3> QED
            BY <1>8, <3>1, <3>2, <3>3, Zenon DEF RecordRedriveFailure
    <2> QED
        BY <1>8, <2>1, <2>3, Zenon DEF RecordRedriveFailure, TypeOK
<1>9. CASE FinishCreate(d)
    <2>1. call' \in [Dispatchers -> Call]
        BY <1>0, <1>9, Zenon DEF FinishCreate
    <2>2. "running" \in Status /\ Ingest \in Actions
        BY StatusFacts, Zenon DEF Actions, GraphActions
    <2>3. thread' \in Thread
        BY <1>0, <1>9, <2>2, SuccessorType, Zenon DEF FinishCreate
    <2> QED
        BY <1>9, <2>1, <2>3, Zenon DEF FinishCreate, TypeOK
<1> QED
    BY <1>1, <1>2, <1>3, <1>4, <1>5, <1>6, <1>7, <1>8, <1>9, Zenon DEF Delivery

\* The requests of clients.
LEMMA ClientKeepsTypes ==
    ASSUME TypeOK, Client
    PROVE  TypeOK'
<1> USE DEF store, gateway, outside, history
<1>0. /\ thread \in Thread /\ journal \in [Actions -> Row] /\ now \in Nat
      /\ call \in [Dispatchers -> Call] /\ pass \in [Passes -> Pass]
      /\ thread.writer \in Actions /\ thread.status \in Status
      /\ Cancel \in Actions /\ Followups \subseteq Actions /\ Answers \subseteq Actions
      /\ \A i \in 1..Len(Asks) : Asks[i] \in Actions
      /\ IdleCall \in Call
    BY InitialRecords, Zenon DEF TypeOK, Thread, Actions, GraphActions, Answers
<1>1. ASSUME NEW f \in Followups, SendFollowup(f)
      PROVE  TypeOK'
    <2>1. NextPosition \in Nat
        BY <1>0, NextPositionType, Zenon
    <2>2. now + LeaseTTL \in Nat /\ Lifetime \in Nat
        BY <1>0, TimeAssumption
    <2> HIDE DEF NextPosition
    <2>3. [result |-> "queued", holder |-> f, expires |-> now + LeaseTTL,
           deadline |-> Lifetime, position |-> NextPosition, receipt |-> 0] \in Row
        BY <2>1, <2>2, Zenon DEF Row, Result
    <2>4. journal' \in [Actions -> Row]
        BY <1>0, <1>1, <2>3, Zenon DEF SendFollowup
    <2>5. line' \in Seq(Followups)
        BY <1>1 DEF SendFollowup, TypeOK
    <2> QED
        BY <1>1, <2>4, <2>5, Zenon DEF SendFollowup, TypeOK
<1>2. ASSUME NEW d \in Dispatchers, CancelThread(d)
      PROVE  TypeOK'
    <2> DEFINE fresh == [Absent EXCEPT !.result = "accepted",
                                       !.deadline = journal[thread.writer].deadline]
    <2>1. fresh \in Row
        <3>1. journal[thread.writer].deadline \in Nat
            BY <1>0, Zenon DEF Row
        <3> QED
            BY <3>1, InitialRecords, Zenon DEF Row, Result
    <2>2. Leased(fresh, d) \in Row /\ Leased(journal[Cancel], d) \in Row
        <3> HIDE DEF fresh
        <3> QED
            BY <1>0, <2>1, LeasedType, Zenon
    <2>3. journal' \in [Actions -> Row]
        BY <1>0, <1>2, <2>2, Zenon DEF CancelThread, ClaimCancel, ElectCancel
    <2>4. thread' \in Thread
        BY <1>0, <1>2, StatusFacts, SuccessorType, Zenon DEF CancelThread, ClaimCancel, ElectCancel
    <2>5. call' \in [Dispatchers -> Call]
        BY <1>0, <1>2, CallType, Zenon DEF CancelThread, ClaimCancel, ElectCancel
    <2> QED
        BY <1>2, <2>3, <2>4, <2>5, Zenon DEF CancelThread, ClaimCancel, ElectCancel, TypeOK
<1>3. ASSUME NEW d \in Dispatchers, ReadHeld(d)
      PROVE  TypeOK'
    <2>1. [stage |-> IF checkpoint.state = "interrupted" THEN "held" ELSE "free",
           kind |-> "answer", action |-> NoOne, receipt |-> 0] \in Call
        BY Zenon DEF Call
    <2>2. call' \in [Dispatchers -> Call]
        BY <1>0, <1>3, <2>1, Zenon DEF ReadHeld
    <2> QED
        BY <1>3, <2>2, Zenon DEF ReadHeld, TypeOK
<1>4. ASSUME NEW d \in Dispatchers, RefuseAnswer(d)
      PROVE  TypeOK'
    <2>1. call' \in [Dispatchers -> Call]
        BY <1>0, <1>4, Zenon DEF RefuseAnswer
    <2> QED
        BY <1>4, <2>1, Zenon DEF RefuseAnswer, TypeOK
<1>5. ASSUME NEW d \in Dispatchers, NEW i \in 1..Len(Asks), AcceptAnswer(d, i)
      PROVE  TypeOK'
    <2> DEFINE a == Asks[i]
    <2>0. a \in Actions
        BY <1>0, Zenon
    <2>1. call' \in [Dispatchers -> Call]
        BY <1>0, <1>5, CallType, Zenon DEF AcceptAnswer
    <2>2. CASE InstallAnswer(d, a)
        <3>1. thread' \in Thread
            BY <1>0, <2>0, <2>2, SuccessorType, Zenon DEF InstallAnswer
        <3>2. thread'.generation \in Nat /\ now + RunTimeout \in Nat
            BY <1>0, <3>1, TimeAssumption DEF Thread
        <3> DEFINE fresh == [Absent EXCEPT !.result = "accepted", !.deadline = now + RunTimeout,
                                           !.receipt = thread'.generation]
        <3>3. fresh \in Row
            BY <3>2, InitialRecords, Zenon DEF Row, Result
        <3>4. Leased(fresh, d) \in Row
            <4> HIDE DEF fresh
            <4> QED
                BY <1>0, <3>3, LeasedType, Zenon
        <3>5. journal' \in [Actions -> Row]
            BY <1>0, <2>2, <3>4, Zenon DEF InstallAnswer
        <3> QED
            BY <1>5, <2>1, <3>1, <3>5, Zenon DEF AcceptAnswer, TypeOK
    <2>3. CASE ReclaimAnswer(d, a)
        <3>1. Leased(journal[a], d) \in Row
            BY <1>0, <2>0, LeasedType, Zenon
        <3>2. journal' \in [Actions -> Row] /\ thread' = thread
            BY <1>0, <2>3, <3>1, Zenon DEF ReclaimAnswer
        <3> QED
            BY <1>5, <2>1, <3>2, Zenon DEF AcceptAnswer, TypeOK
    <2> QED
        BY <1>5, <2>2, <2>3, Zenon DEF AcceptAnswer
<1>6. CASE ReadRun
    <2>1. pass' \in [Passes -> Pass]
        BY <1>0, <1>6, OpenPassType, Zenon DEF ReadRun
    <2> QED
        BY <1>6, <2>1, Zenon DEF ReadRun, TypeOK
<1>7. CASE Archive
    <2>1. thread' \in Thread
        BY <1>0, <1>7, StatusFacts, SuccessorType, Zenon DEF Archive
    <2> QED
        BY <1>7, <2>1, Zenon DEF Archive, TypeOK
<1>8. CASE Delete
    <2>1. thread' \in Thread
        BY <1>0, <1>8, StatusFacts, SuccessorType, Zenon DEF Delete
    <2> QED
        BY <1>8, <2>1, Zenon DEF Delete, TypeOK
<1> QED
    BY <1>1, <1>2, <1>3, <1>4, <1>5, <1>6, <1>7, <1>8, Zenon DEF Client

\* Direct recovery and the boot's sweep.
LEMMA RecoveryKeepsTypes ==
    ASSUME TypeOK, Recovery
    PROVE  TypeOK'
<1> USE DEF store, gateway, outside, history
<1>0. /\ thread \in Thread /\ journal \in [Actions -> Row] /\ now \in Nat
      /\ call \in [Dispatchers -> Call] /\ sweep \in Sweep
      /\ thread.writer \in Actions /\ thread.status \in Status
      /\ sweep.witness.writer \in Actions /\ NoSweep \in Sweep
    BY InitialRecords, Zenon DEF TypeOK, Thread, Sweep
<1>1. ASSUME NEW d \in Dispatchers, Redrive(d)
      PROVE  TypeOK'
    <2>1. journal' \in [Actions -> Row]
        BY <1>0, <1>1, LeasedType, Zenon DEF Redrive
    <2>2. call' \in [Dispatchers -> Call]
        BY <1>0, <1>1, CallType, Zenon DEF Redrive
    <2> QED
        BY <1>1, <2>1, <2>2, Zenon DEF Redrive, TypeOK
<1>2. ASSUME NEW d \in Dispatchers, SweepClaim(d)
      PROVE  TypeOK'
    <2>1. journal' \in [Actions -> Row]
        BY <1>0, <1>2, LeasedType, Zenon DEF SweepClaim
    <2>2. call' \in [Dispatchers -> Call]
        BY <1>0, <1>2, CallType, Zenon DEF SweepClaim
    <2> QED
        BY <1>0, <1>2, <2>1, <2>2, Zenon DEF SweepClaim, TypeOK
<1>3. CASE RefuseRecovery \/ ExpireOverdue
    <2>1. Quarantine(thread.writer)
        BY <1>3, Zenon DEF RefuseRecovery, ExpireOverdue
    <2>2. thread' \in Thread /\ journal' \in [Actions -> Row]
        BY <1>0, <2>1, QuarantineType, Zenon
    <2> QED
        BY <1>3, <2>2, Zenon DEF RefuseRecovery, ExpireOverdue, TypeOK
<1>4. CASE SweepList
    <2>1. sweep' \in Sweep
        BY <1>0, <1>4, ZenonT(60) DEF SweepList, Sweep
    <2> QED
        BY <1>4, <2>1, Zenon DEF SweepList, TypeOK
<1>5. CASE SweepSkip
    BY <1>0, <1>5, Zenon DEF SweepSkip, TypeOK
<1>6. CASE SweepRefuse
    <2>1. "applied" \in Settled /\ "failed" \in Status
        BY StatusFacts, Zenon DEF Settled
    <2>2. thread' \in Thread /\ journal' \in [Actions -> Row]
        BY <1>0, <1>6, <2>1, SettleTerminalType, Zenon DEF SweepRefuse
    <2> QED
        BY <1>0, <1>6, <2>2, Zenon DEF SweepRefuse, TypeOK
<1> QED
    BY <1>1, <1>2, <1>3, <1>4, <1>5, <1>6, Zenon DEF Recovery

\* Relayed worker events.
LEMMA RelayKeepsTypes ==
    ASSUME TypeOK, NEW e \in events, Relay(e)
    PROVE  TypeOK'
<1> USE DEF store, gateway, outside, history
<1>0. /\ thread \in Thread /\ journal \in [Actions -> Row]
      /\ pass \in [Passes -> Pass] /\ events \subseteq Event
      /\ e.action \in Actions
      /\ {"applied", "ceased", "no_active_work"} \subseteq Settled
      /\ {"failed", "cancelled"} \subseteq Status
    BY StatusFacts, Zenon DEF TypeOK, Event, Settled
<1>1. events' \subseteq Event
    BY <1>0, Zenon DEF Relay, Relayed
<1>2. thread' \in Thread /\ journal' \in [Actions -> Row] /\ pass' \in [Passes -> Pass]
    <2>1. CASE HandleApplication(e)
        <3>1. SettledAs(journal[e.action], "applied") \in Row
            BY <1>0, SettledAsType, Zenon
        <3>2. journal' \in [Actions -> Row]
            BY <1>0, <2>1, <3>1, Zenon DEF HandleApplication
        <3> QED
            BY <1>0, <2>1, <3>2, OpenPassType, Zenon DEF HandleApplication
    <2>2. CASE HandlePaused(e)
        BY <1>0, <2>2, OpenPassType, Zenon DEF HandlePaused
    <2>3. CASE HandleCompleted(e)
        BY <1>0, <2>3, OpenPassType, Zenon DEF HandleCompleted
    <2>4. CASE HandleFailed(e)
        BY <1>0, <2>4, SettleTerminalType, Zenon DEF HandleFailed
    <2>5. CASE HandleCancelled(e)
        <3>1. e.kind \in Settled
            BY <1>0, <2>5, Zenon DEF HandleCancelled
        <3> QED
            BY <1>0, <2>5, <3>1, SettleTerminalType, Zenon DEF HandleCancelled
    <2> QED
        BY <2>1, <2>2, <2>3, <2>4, <2>5, ZenonT(60) DEF Relay
<1> QED
    BY <1>1, <1>2, Zenon DEF Relay, TypeOK

\* What a completed checkpoint makes of the store.
LEMMA SettleCompletedType ==
    ASSUME TypeOK, SettleCompleted
    PROVE  thread' \in Thread /\ journal' \in [Actions -> Row]
<1>0. /\ thread \in Thread /\ journal \in [Actions -> Row] /\ now \in Nat
      /\ thread.writer \in Actions /\ Followups \subseteq Actions
      /\ {"running", "completed"} \subseteq Status /\ "applied" \in Settled
    BY StatusFacts, Zenon DEF TypeOK, Thread, Actions, GraphActions, Settled
<1>1. ASSUME NEW f \in Followups, Promote(f)
      PROVE  thread' \in Thread /\ journal' \in [Actions -> Row]
    <2>1. thread' \in Thread
        BY <1>0, <1>1, SuccessorType, Zenon DEF Promote
    <2> DEFINE settled == [journal EXCEPT ![thread.writer] = SettledAs(@, "applied")]
               deadline == SmallerOf(now + RunTimeout, Lifetime)
               opened == [Released(settled[f]) EXCEPT !.result = "accepted",
                                                      !.deadline = deadline,
                                                      !.receipt = thread'.generation]
    <2>2. settled \in [Actions -> Row]
        BY <1>0, SettledAsType, Zenon
    <2>3. thread'.generation \in Nat /\ deadline \in Nat
        BY <1>0, <2>1, TimeAssumption DEF Thread, SmallerOf
    <2>4. opened \in Row
        <3> HIDE DEF settled, deadline
        <3>1. Released(settled[f]) \in Row
            BY <1>0, <2>2, ReleasedType, Zenon
        <3> QED
            BY <2>3, <3>1, Zenon DEF Row, Result
    <2>5. journal' = [settled EXCEPT ![f] = opened]
        BY <1>0, <1>1, <2>2, Zenon DEF Promote
    <2> HIDE DEF settled, opened
    <2> QED
        BY <1>0, <2>1, <2>2, <2>4, <2>5, Zenon
<1>2. ASSUME SettleTerminal("completed", "applied")
      PROVE  thread' \in Thread /\ journal' \in [Actions -> Row]
    BY <1>0, <1>2, SettleTerminalType, Zenon
<1> QED
    BY <1>1, <1>2, Zenon DEF SettleCompleted

\* The steps of a checkpoint pass.
LEMMA PassKeepsTypes ==
    ASSUME TypeOK, NEW p \in Passes, PassStep(p)
    PROVE  TypeOK'
<1> USE DEF store, gateway, outside, history
<1>0. /\ thread \in Thread /\ journal \in [Actions -> Row]
      /\ pass \in [Passes -> Pass] /\ pass[p] \in Pass /\ checkpoint \in Checkpoint
      /\ thread.writer \in Actions /\ thread.status \in Status
      /\ {"running", "input_required", "reconciling"} \subseteq Status
    BY StatusFacts, Zenon DEF TypeOK, Thread
<1>1. CASE WitnessPause(p)
    <2>1. [pass[p] EXCEPT !.stage = "witnessed", !.witness = thread] \in Pass
        BY <1>0, Zenon DEF Pass
    <2>2. pass' \in [Passes -> Pass]
        BY <1>0, <1>1, <2>1, EndPassType, Zenon DEF WitnessPause
    <2> QED
        BY <1>1, <2>2, Zenon DEF WitnessPause, TypeOK
<1>2. CASE WitnessReconcile(p)
    <2>1. PromotionPending(thread.writer) \in BOOLEAN /\ QueueOwned \in BOOLEAN
        BY Zenon DEF PromotionPending, QueueOwned
    <2>2. [pass[p] EXCEPT !.stage = "witnessed", !.witness = thread,
                          !.pending = PromotionPending(thread.writer),
                          !.owned = QueueOwned] \in Pass
        BY <1>0, <2>1, Zenon DEF Pass
    <2>3. pass' \in [Passes -> Pass]
        BY <1>0, <1>2, <2>2, EndPassType, Zenon DEF WitnessReconcile
    <2> QED
        BY <1>2, <2>3, Zenon DEF WitnessReconcile, TypeOK
<1>3. CASE ReadCheckpoint(p)
    <2>1. [pass[p] EXCEPT !.stage = "read", !.saw = checkpoint] \in Pass
        BY <1>0, ZenonT(30) DEF Pass
    <2>2. pass' \in [Passes -> Pass]
        BY <1>0, <1>3, <2>1, Zenon DEF ReadCheckpoint
    <2> QED
        BY <1>3, <2>2, Zenon DEF ReadCheckpoint, TypeOK
<1>4. CASE AbandonPass(p)
    BY <1>0, <1>4, EndPassType, Zenon DEF AbandonPass, TypeOK
<1>5. CASE ApplyPause(p)
    <2>1. pass' \in [Passes -> Pass]
        BY <1>0, <1>5, EndPassType, Zenon DEF ApplyPause
    <2>2. thread' \in Thread
        BY <1>0, <1>5, SuccessorType, Zenon DEF ApplyPause
    <2> QED
        BY <1>5, <2>1, <2>2, Zenon DEF ApplyPause, TypeOK
<1>6. CASE ApplyReconcile(p)
    <2>1. pass' \in [Passes -> Pass]
        BY <1>0, <1>6, EndPassType, ZenonT(60) DEF ApplyReconcile
    <2>2. \/ SettleCompleted
          \/ thread' = Successor("reconciling", thread.writer) /\ journal' = journal
          \/ thread' = thread /\ journal' = journal
        BY <1>6, Zenon DEF ApplyReconcile
    <2>3. thread' \in Thread /\ journal' \in [Actions -> Row]
        BY <1>0, <2>2, SettleCompletedType, SuccessorType
    <2> QED
        BY <1>6, <2>1, <2>3, Zenon DEF ApplyReconcile, TypeOK
<1>7. CASE MarkUnread(p)
    <2>1. pass' \in [Passes -> Pass]
        BY <1>0, <1>7, EndPassType, Zenon DEF MarkUnread
    <2>2. thread' \in Thread
        BY <1>0, <1>7, SuccessorType, Zenon DEF MarkUnread
    <2> QED
        BY <1>7, <2>1, <2>2, Zenon DEF MarkUnread, TypeOK
<1> QED
    BY <1>1, <1>2, <1>3, <1>4, <1>5, <1>6, <1>7, Zenon DEF PassStep

-----------------------------------------------------------------------------
(* The worker.  What it reports is an event only because a slot that is not   *)
(* idle always holds a graph action, so the type invariant is inductive       *)
(* together with that fact.                                                   *)

\* An occupied slot of the worker holds a graph action (Executor.reserve).
SlotHoldsAction == worker.phase # "idle" => worker.action \in GraphActions

TypeInv == TypeOK /\ SlotHoldsAction

\* Freeing the slot leaves the worker a worker with an idle slot.
LEMMA SlotFreedType ==
    ASSUME worker \in Worker
    PROVE  /\ SlotFreed \in Worker
           /\ SlotFreed.phase = "idle"
           /\ [SlotFreed EXCEPT !.cancel = FALSE] \in Worker
           /\ [SlotFreed EXCEPT !.cancel = FALSE].phase = "idle"
BY Zenon DEF SlotFreed, Worker

\* What the worker reports is an event, and the slot is idle afterwards.
LEMMA ReportType ==
    ASSUME TypeInv, worker.phase # "idle", NEW applied,
           NEW outcome \in {"paused", "completed", "failed"}, Report(outcome, applied)
    PROVE  worker' \in Worker /\ worker'.phase = "idle" /\ events' \subseteq Event
<1>0. worker \in Worker /\ events \subseteq Event /\ worker.action \in Actions
      /\ Cancel \in Actions /\ worker.receipt \in Nat
    BY Zenon DEF TypeInv, TypeOK, SlotHoldsAction, Actions, Worker
<1>1. worker' \in Worker /\ worker'.phase = "idle"
    BY <1>0, SlotFreedType, Zenon DEF Report
<1>2. /\ EventOf("application", worker.action, worker.receipt) \in Event
      /\ EventOf("ceased", Cancel, 0) \in Event
      /\ EventOf(outcome, worker.action, worker.receipt) \in Event
    BY <1>0, EventOfType, Zenon
<1>3. events' \subseteq Event
    BY <1>0, <1>2, EmitType, Zenon DEF Report
<1> QED
    BY <1>1, <1>3, Zenon

\* Starting the graph writes a checkpoint and counts at most one input.
LEMMA StartGraphType ==
    ASSUME TypeInv, worker.phase # "idle", NEW isInput, StartGraph(isInput)
    PROVE  /\ worker' \in Worker /\ worker'.action \in GraphActions
           /\ checkpoint' \in Checkpoint /\ events' \subseteq Event
           /\ inputs' \in [GraphActions -> Nat]
<1>0. /\ worker \in Worker /\ events \subseteq Event /\ worker.action \in GraphActions
      /\ worker.action \in Actions /\ worker.receipt \in Nat
      /\ inputs \in [GraphActions -> Nat]
    BY Zenon DEF TypeInv, TypeOK, SlotHoldsAction, Actions, Worker
<1>1. worker' \in Worker /\ worker'.action \in GraphActions
    BY <1>0, Zenon DEF StartGraph, Worker
<1>2. checkpoint' \in Checkpoint
    BY <1>0, Zenon DEF StartGraph, Checkpoint, CheckpointState
<1>3. inputs' \in [GraphActions -> Nat]
    BY <1>0 DEF StartGraph
<1>4. EventOf("application", worker.action, worker.receipt) \in Event
    BY <1>0, EventOfType, Zenon
<1>5. events' \subseteq Event
    BY <1>0, <1>4, EmitType, Zenon DEF StartGraph
<1> QED
    BY <1>1, <1>2, <1>3, <1>5, Zenon

\* The steps of the worker.
LEMMA WorkerKeepsTypes ==
    ASSUME TypeInv, WorkerStep
    PROVE  TypeInv'
<1> USE DEF store, gateway, outside, history
<1>0. TypeOK /\ worker \in Worker /\ events \subseteq Event /\ checkpoint \in Checkpoint
    BY Zenon DEF TypeInv, TypeOK
<1>1. CASE BeginIngest
    <2>0. worker.phase # "idle"
        BY <1>1, Zenon DEF BeginIngest
    <2>1. \/ StartGraph(TRUE) \/ StartGraph(FALSE)
          \/ Report("completed", TRUE) /\ UNCHANGED <<checkpoint, inputs>>
          \/ Report("failed", FALSE) /\ UNCHANGED <<checkpoint, inputs>>
          \/ worker' = SlotFreed /\ UNCHANGED <<checkpoint, inputs, events>>
        BY <1>1, Zenon DEF BeginIngest
    <2>2. CASE StartGraph(TRUE) \/ StartGraph(FALSE)
        <3>1. /\ worker' \in Worker /\ worker'.action \in GraphActions
              /\ checkpoint' \in Checkpoint /\ events' \subseteq Event
              /\ inputs' \in [GraphActions -> Nat]
            BY <2>0, <2>2, StartGraphType, ZenonT(60)
        <3> QED
            BY <1>0, <1>1, <3>1, Zenon DEF BeginIngest, TypeInv, TypeOK, SlotHoldsAction
    <2>3. CASE (Report("completed", TRUE) \/ Report("failed", FALSE))
               /\ UNCHANGED <<checkpoint, inputs>>
        <3>1. worker' \in Worker /\ worker'.phase = "idle" /\ events' \subseteq Event
            BY <2>0, <2>3, ReportType, ZenonT(60)
        <3> QED
            BY <1>0, <1>1, <2>3, <3>1, Zenon DEF BeginIngest, TypeInv, TypeOK, SlotHoldsAction
    <2>4. CASE worker' = SlotFreed /\ UNCHANGED <<checkpoint, inputs, events>>
        <3>1. worker' \in Worker /\ worker'.phase = "idle"
            BY <1>0, <2>4, SlotFreedType, Zenon
        <3> QED
            BY <1>0, <1>1, <2>4, <3>1, Zenon DEF BeginIngest, TypeInv, TypeOK, SlotHoldsAction
    <2> QED
        BY <2>1, <2>2, <2>3, <2>4, Zenon
<1>2. CASE BeginResume
    <2>0. worker.phase # "idle"
        BY <1>2, Zenon DEF BeginResume
    <2>1. CASE StartGraph(TRUE)
        <3>1. /\ worker' \in Worker /\ worker'.action \in GraphActions
              /\ checkpoint' \in Checkpoint /\ events' \subseteq Event
              /\ inputs' \in [GraphActions -> Nat]
            BY <2>0, <2>1, StartGraphType, Zenon
        <3> QED
            BY <1>0, <1>2, <3>1, Zenon DEF BeginResume, TypeInv, TypeOK, SlotHoldsAction
    <2>2. CASE worker' = SlotFreed /\ UNCHANGED <<checkpoint, inputs, events>>
        <3>1. worker' \in Worker /\ worker'.phase = "idle"
            BY <1>0, <2>2, SlotFreedType, Zenon
        <3> QED
            BY <1>0, <1>2, <2>2, <3>1, Zenon DEF BeginResume, TypeInv, TypeOK, SlotHoldsAction
    <2> QED
        BY <1>2, <2>1, <2>2, Zenon DEF BeginResume
<1>3. CASE Cease
    <2>1. worker' \in Worker /\ worker'.phase = "idle" /\ events' \subseteq Event
        BY <1>3, ReportType, Zenon DEF Cease
    <2> QED
        BY <1>0, <1>3, <2>1, Zenon DEF Cease, TypeInv, TypeOK, SlotHoldsAction
<1>4. ASSUME NEW outcome \in {"completed", "interrupted", "failed"}, Finish(outcome)
      PROVE  TypeInv'
    <2>1. worker' \in Worker /\ worker'.phase = "idle" /\ events' \subseteq Event
        BY <1>4, ReportType, Zenon DEF Finish
    <2>2. checkpoint' \in Checkpoint
        BY <1>0, <1>4, Zenon DEF Finish, Checkpoint, CheckpointState
    <2> QED
        BY <1>0, <1>4, <2>1, <2>2, Zenon DEF Finish, TypeInv, TypeOK, SlotHoldsAction
<1> QED
    BY <1>1, <1>2, <1>3, <1>4, Zenon DEF WorkerStep

-----------------------------------------------------------------------------
(* Type correctness.                                                        *)

\* The acceptance commit leaves every variable in its type.
LEMMA InitTypes == Init => TypeInv
<1> SUFFICES ASSUME Init PROVE TypeInv
    OBVIOUS
<1>1. PICK d \in Dispatchers :
        /\ journal = [a \in Actions |->
              IF a = Ingest
              THEN [result |-> "accepted", holder |-> d, expires |-> LeaseTTL,
                    deadline |-> RunTimeout, position |-> 0, receipt |-> 1]
              ELSE Absent]
        /\ call = [x \in Dispatchers |->
              IF x = d
              THEN [stage |-> "claimed", kind |-> "create", action |-> Ingest, receipt |-> 0]
              ELSE IdleCall]
    BY Zenon DEF Init
<1>2. [result |-> "accepted", holder |-> d, expires |-> LeaseTTL,
       deadline |-> RunTimeout, position |-> 0, receipt |-> 1] \in Row
    BY TimeAssumption, Zenon DEF Row, Result
<1>3. [stage |-> "claimed", kind |-> "create", action |-> Ingest, receipt |-> 0] \in Call
    BY Zenon DEF Call, Actions, GraphActions
<1>4. journal \in [Actions -> Row] /\ call \in [Dispatchers -> Call]
    BY <1>1, <1>2, <1>3, InitialRecords, Zenon
<1>5. pass \in [Passes -> Pass]
    BY InitialRecords, Zenon DEF Init, NoPass
<1>6. line \in Seq(Followups) /\ inputs \in [GraphActions -> Nat] /\ events \subseteq Event
    BY SMTT(60) DEF Init
<1>7. worker \in Worker /\ worker.phase = "idle"
    BY InitialRecords DEF Init, FreshWorker
<1> QED
    BY <1>4, <1>5, <1>6, <1>7, InitialRecords DEF Init, TypeInv, TypeOK, SlotHoldsAction

\* Every step keeps the type invariant.
LEMMA StepTypes == TypeInv /\ [Next]_vars => TypeInv'
<1> SUFFICES ASSUME TypeInv, [Next]_vars PROVE TypeInv'
    OBVIOUS
<1> USE DEF store, gateway, outside, history
<1>0. TypeOK /\ SlotHoldsAction
    BY Zenon DEF TypeInv
<1>a. ASSUME TypeOK', worker' = worker PROVE TypeInv'
    BY <1>0, <1>a, Zenon DEF TypeInv, SlotHoldsAction
<1>1. ASSUME NEW d \in Dispatchers, Delivery(d) PROVE TypeInv'
    <2>1. TypeOK'
        BY <1>0, <1>1, DeliveryKeepsTypes, Zenon
    <2>2. \/ worker' = worker
          \/ DeliverGraph(d) \/ DeliverCancel(d)
        BY <1>1, Zenon DEF Delivery, Bind, DeliverDuplicate, DeliverBusy, Undelivered, RecordFailure,
                    RecordRedriveFailure, FinishCreate
    <2>3. CASE DeliverGraph(d)
        <3>1. worker \in Worker
            BY <1>0, Zenon DEF TypeOK
        <3>2. worker'.action \in GraphActions
            BY <2>3, <3>1, Zenon DEF DeliverGraph, Worker
        <3> QED
            BY <2>1, <3>2, Zenon DEF TypeInv, SlotHoldsAction
    <2>4. CASE DeliverCancel(d)
        <3>1. worker \in Worker
            BY <1>0, Zenon DEF TypeOK
        <3>2. worker'.action = worker.action /\ worker'.phase = worker.phase
            BY <2>4, <3>1, Zenon DEF DeliverCancel, Worker
        <3> QED
            BY <1>0, <2>1, <3>2, Zenon DEF TypeInv, SlotHoldsAction
    <2> QED
        BY <1>a, <2>1, <2>2, <2>3, <2>4, Zenon
<1>2. CASE Client
    <2>1. worker' = worker
        BY <1>2, ZenonT(60)
           DEF Client, SendFollowup, CancelThread, ClaimCancel, ElectCancel, ReadHeld, RefuseAnswer, AcceptAnswer,
                    ReadRun, Archive, Delete
    <2> QED
        BY <1>0, <1>2, <1>a, <2>1, ClientKeepsTypes, Zenon
<1>3. CASE Recovery
    <2>1. worker' = worker
        BY <1>3, Zenon DEF Recovery, Redrive, SweepClaim, RefuseRecovery, ExpireOverdue, SweepList, SweepSkip,
                    SweepRefuse
    <2> QED
        BY <1>0, <1>3, <1>a, <2>1, RecoveryKeepsTypes, Zenon
<1>4. ASSUME NEW e \in events, Relay(e) PROVE TypeInv'
    <2>1. worker' = worker
        BY <1>4, Zenon DEF Relay
    <2> QED
        BY <1>0, <1>4, <1>a, <2>1, RelayKeepsTypes, Zenon
<1>5. ASSUME NEW p \in Passes, PassStep(p) PROVE TypeInv'
    <2>1. worker' = worker
        BY <1>5, Zenon DEF PassStep, WitnessPause, WitnessReconcile, ReadCheckpoint, AbandonPass, MarkUnread,
                    ApplyPause, ApplyReconcile
    <2> QED
        BY <1>0, <1>5, <1>a, <2>1, PassKeepsTypes, Zenon
<1>6. CASE WorkerStep
    BY <1>6, WorkerKeepsTypes, Zenon
<1>7. CASE WorkerStops
    <2>1. worker' \in Worker /\ worker'.phase = "idle"
        BY <1>7, InitialRecords, ZenonT(60) DEF WorkerStops, FreshWorker
    <2>2. crashed' \in Nat
        BY <1>0, <1>7 DEF WorkerStops, TypeOK
    <2> QED
        BY <1>0, <1>7, <2>1, <2>2, ZenonT(60) DEF WorkerStops, TypeInv, TypeOK, SlotHoldsAction
<1>8. CASE GatewayRestarts
    <2>1. call' \in [Dispatchers -> Call]
        BY <1>8, InitialRecords, Zenon DEF GatewayRestarts
    <2>2. pass' \in [Passes -> Pass]
        <3>1. Open("boot_pause") \in Pass /\ NoPass \in Pass
            BY InitialRecords, Zenon DEF NoPass
        <3> QED
            BY <1>8, <3>1, Zenon DEF GatewayRestarts
    <2>3. sweep' \in Sweep
        BY <1>8, InitialRecords, Zenon DEF GatewayRestarts, Sweep
    <2>4. crashed' \in Nat
        BY <1>0, <1>8 DEF GatewayRestarts, TypeOK
    <2>5. TypeOK' /\ worker' = worker
        BY <1>0, <1>8, <2>1, <2>2, <2>3, <2>4, Zenon DEF GatewayRestarts, TypeOK
    <2> QED
        BY <1>a, <2>5, Zenon
<1>9. CASE Tick
    <2>1. now' \in Nat
        BY <1>0, <1>9 DEF Tick, TypeOK
    <2>2. TypeOK' /\ worker' = worker
        BY <1>0, <1>9, <2>1, Zenon DEF Tick, TypeOK
    <2> QED
        BY <1>a, <2>2, Zenon
<1>10. CASE UNCHANGED vars
    <2>1. TypeOK' /\ worker' = worker
        BY <1>0, <1>10, Zenon DEF vars, TypeOK
    <2> QED
        BY <1>a, <2>1, Zenon
<1> QED
    BY <1>1, <1>2, <1>3, <1>4, <1>5, <1>6, <1>7, <1>8, <1>9, <1>10, Zenon DEF Next

\* Every column, record and set of the model holds what the code's can, and an
\* occupied worker slot holds a graph action, in every reachable state.
THEOREM TypeCorrect == Spec => []TypeInv
<1>1. Init => TypeInv
    BY InitTypes, Zenon
<1>2. TypeInv /\ [Next]_vars => TypeInv'
    BY StepTypes, Zenon
<1> QED
    BY <1>1, <1>2, PTL DEF Spec

\* The type invariant the runs check holds for every value of the constants.
THEOREM TypesHold == Spec => []TypeOK
<1>1. TypeInv => TypeOK
    BY Zenon DEF TypeInv
<1> QED
    BY <1>1, TypeCorrect, PTL

=============================================================================
