------------------------ MODULE RunControlQueueProofs ------------------------
(***************************************************************************)
(* First in, first promoted: the waiting turns of a run take it in the      *)
(* order they were admitted, for any queue depth and number of follow-ups.  *)
(***************************************************************************)
EXTENDS RunControlProofs

\* The line names no follow-up twice.
ListedOnce == \A i, j \in 1..Len(line) : line[i] = line[j] => i = j

\* The line names the follow-ups the journal knows.
ListedIffKnown ==
    \A f \in Followups :
        journal[f].result # "absent" <=> \E i \in 1..Len(line) : line[i] = f

\* Ahead of a waiting follow-up stand promoted ones and waiting ones with
\* smaller positions.
WaitingInOrder ==
    \A i, j \in 1..Len(line) : i < j /\ journal[line[j]].result = "queued" =>
        \/ journal[line[i]].receipt # 0
        \/ /\ journal[line[i]].result = "queued"
           /\ journal[line[i]].position < journal[line[j]].position

\* While the run is active every follow-up it knows waits or was promoted.
WaitingOrPromoted ==
    thread.status \in Active =>
        \A f \in Followups : \/ journal[f].result \in {"absent", "queued"}
                             \/ journal[f].receipt # 0

\* What makes the promotion order inductive.
QueueOrder ==
    ListedOnce /\ ListedIffKnown /\ WaitingInOrder /\ WaitingOrPromoted /\ FifoPromotion

\* Only a reservation adds to the line.
LEMMA LineStep == [Next]_vars => line' = line \/ \E f \in Followups : SendFollowup(f)
<1> SUFFICES ASSUME [Next]_vars PROVE line' = line \/ \E f \in Followups : SendFollowup(f)
    OBVIOUS
<1> USE DEF store, gateway, outside, history
<1>1. ASSUME NEW d \in Dispatchers, Delivery(d) PROVE line' = line
    BY <1>1, Zenon DEF Delivery, Bind, DeliverDuplicate, DeliverGraph, DeliverCancel,
          DeliverBusy, Undelivered, RecordFailure, RecordRedriveFailure, FinishCreate
<1>2. ASSUME Client PROVE line' = line \/ \E f \in Followups : SendFollowup(f)
    BY <1>2, Zenon DEF Client, CancelThread, ClaimCancel, ElectCancel, ReadHeld, RefuseAnswer, AcceptAnswer, ReadRun,
          Archive, Delete
<1>3. ASSUME Recovery PROVE line' = line
    BY <1>3, Zenon DEF Recovery, Redrive, SweepClaim, RefuseRecovery, ExpireOverdue, SweepList, SweepSkip, SweepRefuse
<1>4. ASSUME NEW e \in events, Relay(e) PROVE line' = line
    BY <1>4, Zenon DEF Relay
<1>5. ASSUME NEW p \in Passes, PassStep(p) PROVE line' = line
    BY <1>5, Zenon DEF PassStep, WitnessPause, WitnessReconcile, ReadCheckpoint, AbandonPass, MarkUnread,
          ApplyPause, ApplyReconcile
<1>6. ASSUME WorkerStep \/ WorkerStops \/ GatewayRestarts \/ Tick \/ UNCHANGED vars
      PROVE  line' = line
    BY <1>6, Zenon DEF WorkerStep, BeginIngest, BeginResume, Cease, Finish, WorkerStops,
          GatewayRestarts, Tick, vars
<1> QED
    BY <1>1, <1>2, <1>3, <1>4, <1>5, <1>6, Zenon DEF Next

\* What the cases below read off the invariant.
QueueReads ==
    /\ thread \in Thread /\ journal \in [Actions -> Row] /\ line \in Seq(Followups)
    /\ thread.writer \in Actions /\ thread.status \in Status
    /\ Followups \subseteq Actions /\ Followups \subseteq GraphActions
    /\ Answers \cap Followups = {} /\ Answers \subseteq Actions
    /\ Cancel \notin Followups /\ Cancel \in Actions
    /\ \A i \in 1..Len(line) : line[i] \in Followups /\ line[i] \in Actions
    /\ \A a \in Actions : journal[a].receipt \in Nat /\ journal[a].position \in Nat
    /\ Active \cap NonActive = {}
    /\ \A s \in Status, a \in Actions : Successor(s, a).status = s
    /\ ListedOnce /\ ListedIffKnown /\ WaitingInOrder /\ WaitingOrPromoted /\ FifoPromotion
    /\ journal[thread.writer].result \notin {"absent", "queued"}

LEMMA QueueFacts == Inv /\ QueueOrder => QueueReads
<1> SUFFICES ASSUME Inv, QueueOrder PROVE QueueReads
    OBVIOUS
<1>1. /\ thread \in Thread /\ journal \in [Actions -> Row] /\ line \in Seq(Followups)
    BY Zenon DEF Inv, TypeInv, TypeOK
<1>2. /\ Followups \subseteq Actions /\ Followups \subseteq GraphActions
      /\ Answers \cap Followups = {} /\ Answers \subseteq Actions
      /\ Cancel \notin Followups /\ Cancel \in Actions
    BY ActionAssumption, Zenon DEF Actions, GraphActions
<1>3. thread.writer \in Actions /\ thread.status \in Status
    BY <1>1, Zenon DEF Thread
<1>4. \A i \in 1..Len(line) : line[i] \in Followups /\ line[i] \in Actions
    BY <1>1, <1>2
<1>5. \A a \in Actions : journal[a].receipt \in Nat /\ journal[a].position \in Nat
    BY <1>1, Zenon DEF Row
<1>6. Active \cap NonActive = {}
    BY StatusFacts, Zenon
<1>7. \A s \in Status, a \in Actions : Successor(s, a).status = s
    BY <1>1, SuccessorType, Zenon
<1>8. ListedOnce /\ ListedIffKnown /\ WaitingInOrder /\ WaitingOrPromoted /\ FifoPromotion
    BY Zenon DEF QueueOrder
<1>9. journal[thread.writer].result \notin {"absent", "queued"}
    BY Zenon DEF Inv, Authority, WriterIsReceipted
<1> QED
    BY <1>1, <1>2, <1>3, <1>4, <1>5, <1>6, <1>7, <1>8, <1>9, ZenonT(60) DEF QueueReads

\* A step that decides no follow-up anew keeps the order.
LEMMA QueueKept ==
    ASSUME QueueReads, line' = line,
           \A f \in Followups :
              /\ journal'[f].receipt = journal[f].receipt
              /\ journal'[f].position = journal[f].position
              /\ journal'[f].result = "queued" <=> journal[f].result = "queued"
              /\ journal'[f].result = "absent" <=> journal[f].result = "absent",
           thread'.status \in Active => thread.status \in Active
    PROVE  QueueOrder'
<1>a. \A i \in 1..Len(line) : line[i] \in Followups
    BY Zenon DEF QueueReads
<1>q. ListedOnce /\ ListedIffKnown /\ WaitingInOrder /\ WaitingOrPromoted /\ FifoPromotion
    BY Zenon DEF QueueReads
<1>0. \A i \in 1..Len(line) :
        /\ journal'[line[i]].receipt = journal[line[i]].receipt
        /\ journal'[line[i]].position = journal[line[i]].position
        /\ journal'[line[i]].result = "queued" <=> journal[line[i]].result = "queued"
    BY <1>a, Zenon
<1>1. ListedOnce'
    BY <1>q, Zenon DEF ListedOnce
<1>2. ListedIffKnown'
    BY <1>q, Zenon DEF ListedIffKnown
<1>3. WaitingInOrder'
    BY <1>q, <1>0 DEF WaitingInOrder
<1>4. WaitingOrPromoted'
    BY <1>q, Zenon DEF WaitingOrPromoted
<1>5. FifoPromotion'
    BY <1>q, <1>0 DEF FifoPromotion
<1> QED
    BY <1>1, <1>2, <1>3, <1>4, <1>5, Zenon DEF QueueOrder

\* The end of a run refuses what waits, and keeps the order.
LEMMA QueueRefusedInOrder ==
    ASSUME QueueReads, line' = line, NEW status \in Terminal, NEW result \in Settled,
           SettleTerminal(status, result)
    PROVE  QueueOrder'
<1>a. /\ thread \in Thread /\ journal \in [Actions -> Row]
      /\ thread.writer \in Actions /\ thread.status \in Status /\ Followups \subseteq Actions
      /\ \A i \in 1..Len(line) : line[i] \in Followups /\ line[i] \in Actions
      /\ Active \cap NonActive = {}
    BY Zenon DEF QueueReads
<1>b. \A s \in Status, a \in Actions : Successor(s, a).status = s
    BY Zenon DEF QueueReads
<1>q. ListedOnce /\ ListedIffKnown /\ WaitingInOrder /\ WaitingOrPromoted /\ FifoPromotion
    BY Zenon DEF QueueReads
<1>r. journal[thread.writer].result \notin {"absent", "queued"}
    BY Zenon DEF QueueReads
<1>0. status \in Status /\ status \notin Active
    BY <1>a, StatusFacts, Zenon
<1>1. /\ thread' = Successor(status, thread.writer)
      /\ \A a \in Actions :
            journal'[a] = IF a = thread.writer
                          THEN SettledAs(QueueRefused(journal)[a], result)
                          ELSE QueueRefused(journal)[a]
    BY <1>a, <1>0, SettleTerminalType, Zenon
<1>2. thread'.status \notin Active
    BY <1>a, <1>b, <1>0, <1>1, Zenon
<1>3. \A a \in Actions : /\ journal'[a].receipt = journal[a].receipt
                         /\ journal'[a].result # "queued"
    BY <1>a, <1>1, QueueRefusedType, SettledAsType DEF Settled
<1>4. \A a \in Actions : journal'[a].result = "absent" <=> journal[a].result = "absent"
    BY <1>a, <1>r, <1>1, QueueRefusedType, SettledAsType DEF Settled
<1>5. \A i \in 1..Len(line) : /\ journal'[line[i]].receipt = journal[line[i]].receipt
                              /\ journal'[line[i]].result # "queued"
    BY <1>a, <1>3, Zenon
<1>6. ListedOnce' /\ ListedIffKnown'
    BY <1>a, <1>q, <1>4, Zenon DEF ListedOnce, ListedIffKnown
<1>7. WaitingInOrder' /\ WaitingOrPromoted'
    BY <1>2, <1>5, Zenon DEF WaitingInOrder, WaitingOrPromoted
<1>8. FifoPromotion'
    BY <1>q, <1>5 DEF FifoPromotion
<1> QED
    BY <1>6, <1>7, <1>8, Zenon DEF QueueOrder

\* A promotion takes the first that waits.
LEMMA PromotedInOrder ==
    ASSUME QueueReads, Inv, line' = line, NEW f \in Followups, PromotionTakes(f)
    PROVE  QueueOrder'
<1>a. /\ thread \in Thread /\ journal \in [Actions -> Row]
      /\ thread.writer \in Actions /\ Followups \subseteq Actions
      /\ \A i \in 1..Len(line) : line[i] \in Followups /\ line[i] \in Actions
      /\ \A a \in Actions : journal[a].receipt \in Nat /\ journal[a].position \in Nat
    BY Zenon DEF QueueReads
<1>q. ListedOnce /\ ListedIffKnown /\ WaitingInOrder /\ WaitingOrPromoted /\ FifoPromotion
    BY Zenon DEF QueueReads
<1>r. journal[thread.writer].result \notin {"absent", "queued"}
    BY Zenon DEF QueueReads
<1>0. f \in Waiting /\ \A g \in Waiting : journal[f].position <= journal[g].position
    BY Zenon DEF PromotionTakes, NextContinuation
<1>1. f \in Actions /\ journal[f].result = "queued" /\ f # thread.writer
    BY <1>a, <1>r, <1>0, Zenon DEF Waiting, Queued
<1>2. journal[f].receipt = 0
    BY <1>0, Zenon DEF Inv, Authority, QueuedOwnsNothing
<1>3. thread'.generation = thread.generation + 1 /\ thread.generation \in Nat
    <2>1. thread' = Successor("running", f) /\ "running" \in Status
        BY StatusFacts, Zenon DEF PromotionTakes
    <2> QED
        BY <1>a, <1>1, <2>1, SuccessorType DEF Thread
<1>4. \A a \in Actions : journal[a].receipt < thread'.generation
    BY <1>a, <1>3 DEF Inv, Authority, ReceiptsAreUnique
<1>5. /\ journal'[f].receipt = thread'.generation /\ journal'[f].receipt # 0
      /\ journal'[f].result = "accepted"
    BY <1>3 DEF PromotionTakes
<1>6. \A g \in Followups \ {f} :
        /\ journal'[g].receipt = journal[g].receipt
        /\ journal'[g].position = journal[g].position
        /\ journal'[g].result = "queued" <=> journal[g].result = "queued"
        /\ journal'[g].result = "absent" <=> journal[g].result = "absent"
    BY <1>a, <1>r, <1>1, Zenon DEF PromotionTakes
<1>7. PICK k \in 1..Len(line) : line[k] = f
    BY <1>q, <1>1, Zenon DEF ListedIffKnown
<1>8. \A i \in 1..Len(line) : i # k => line[i] \in Followups \ {f}
    BY <1>a, <1>q, <1>7, Zenon DEF ListedOnce
<1>9. \A i \in 1..Len(line) : i # k =>
        /\ journal'[line[i]].receipt = journal[line[i]].receipt
        /\ journal'[line[i]].position = journal[line[i]].position
        /\ journal'[line[i]].result = "queued" <=> journal[line[i]].result = "queued"
    BY <1>6, <1>8, Zenon
<1>10. \A i \in 1..Len(line) : i < k => journal[line[i]].receipt # 0
    <2> SUFFICES ASSUME NEW i \in 1..Len(line), i < k, journal[line[i]].receipt = 0
                 PROVE  FALSE
        OBVIOUS
    <2>1. /\ journal[line[i]].result = "queued"
          /\ journal[line[i]].position < journal[f].position
        BY <1>q, <1>1, <1>7, Zenon DEF WaitingInOrder
    <2>2. line[i] \in Waiting
        BY <1>a, <2>1, Zenon DEF Waiting, Queued
    <2>3. journal[f].position <= journal[line[i]].position
        BY <1>0, <2>2, Zenon
    <2>4. journal[f].position \in Nat /\ journal[line[i]].position \in Nat
        BY <1>a, <1>1, Zenon
    <2> QED
        BY <2>1, <2>3, <2>4
<1>11. \A j \in 1..Len(line) : k < j => journal[line[j]].receipt = 0
    BY <1>q, <1>2, <1>7, Zenon DEF FifoPromotion
<1>12. FifoPromotion'
    <2> SUFFICES ASSUME NEW i \in 1..Len(line), NEW j \in 1..Len(line), i < j,
                        journal'[line[j]].receipt # 0
                 PROVE  /\ journal'[line[i]].receipt # 0
                        /\ journal'[line[i]].receipt < journal'[line[j]].receipt
        BY Zenon DEF FifoPromotion
    <2>1. CASE j = k
        <3>1. journal'[line[j]].receipt = thread'.generation
            BY <1>5, <1>7, <2>1, Zenon
        <3>2. i # k /\ i < k
            BY <2>1
        <3>3. journal'[line[i]].receipt = journal[line[i]].receipt
            BY <1>9, <3>2, Zenon
        <3>4. journal[line[i]].receipt < thread'.generation
            BY <1>a, <1>4, Zenon
        <3> QED
            BY <1>10, <3>1, <3>2, <3>3, <3>4, Zenon
    <2>2. CASE j # k /\ i = k
        BY <1>9, <1>11, <2>2, Zenon
    <2>3. CASE j # k /\ i # k
        BY <1>q, <1>9, <2>3, Zenon DEF FifoPromotion
    <2> QED
        BY <2>1, <2>2, <2>3, Zenon
<1>13. WaitingInOrder'
    <2> SUFFICES ASSUME NEW i \in 1..Len(line), NEW j \in 1..Len(line), i < j,
                        journal'[line[j]].result = "queued"
                 PROVE  \/ journal'[line[i]].receipt # 0
                        \/ /\ journal'[line[i]].result = "queued"
                           /\ journal'[line[i]].position < journal'[line[j]].position
        BY Zenon DEF WaitingInOrder
    <2>1. j # k
        BY <1>5, <1>7, Zenon
    <2>2. CASE i = k
        BY <1>5, <1>7, <2>2, Zenon
    <2>3. CASE i # k
        BY <1>q, <1>9, <2>1, <2>3, Zenon DEF WaitingInOrder
    <2> QED
        BY <2>2, <2>3, Zenon
<1>14. ListedOnce'
    BY <1>q, Zenon DEF ListedOnce
<1>15. ListedIffKnown'
    BY <1>q, <1>1, <1>5, <1>6, Zenon DEF ListedIffKnown
<1>16. WaitingOrPromoted'
    <2>1. thread.status \in Active
        BY Zenon DEF PromotionTakes
    <2> QED
        BY <1>q, <1>5, <1>6, <2>1, Zenon DEF WaitingOrPromoted
<1> QED
    BY <1>12, <1>13, <1>14, <1>15, <1>16, Zenon DEF QueueOrder

\* A reservation joins the line at its end.
LEMMA QueuedInOrder ==
    ASSUME QueueReads, Inv, NEW f \in Followups, SendFollowup(f)
    PROVE  QueueOrder'
<1>a. /\ journal \in [Actions -> Row] /\ line \in Seq(Followups)
      /\ Followups \subseteq Actions /\ Followups \subseteq GraphActions
      /\ \A i \in 1..Len(line) : line[i] \in Followups /\ line[i] \in Actions
      /\ \A a \in Actions : journal[a].receipt \in Nat /\ journal[a].position \in Nat
    BY Zenon DEF QueueReads
<1>q. ListedOnce /\ ListedIffKnown /\ WaitingInOrder /\ WaitingOrPromoted /\ FifoPromotion
    BY Zenon DEF QueueReads
<1>0. /\ line' = Append(line, f) /\ journal[f].result = "absent" /\ thread' = thread
      /\ thread.status \in Active
    BY StatusFacts, Zenon DEF SendFollowup, CanSendFollowup, Exists
<1>1. /\ Len(line') = Len(line) + 1 /\ Len(line) \in Nat
      /\ \A i \in 1..Len(line) : line'[i] = line[i]
      /\ line'[Len(line) + 1] = f
    BY <1>a, <1>0
<1>2. \A i \in 1..Len(line) : line[i] # f /\ line[i] \in Actions \ {f}
    BY <1>a, <1>q, <1>0, Zenon DEF ListedIffKnown
<1>3. /\ journal'[f].result = "queued" /\ journal'[f].receipt = 0
      /\ journal'[f].position = NextPosition
      /\ \A a \in Actions \ {f} : journal'[a] = journal[a]
    <2>1. f \in Actions /\ journal \in [Actions -> Row]
        BY <1>a, Zenon
    <2>2. journal' = [journal EXCEPT ![f] =
             [result |-> "queued", holder |-> f, expires |-> now + LeaseTTL,
              deadline |-> Lifetime, position |-> NextPosition, receipt |-> 0]]
        BY Zenon DEF SendFollowup
    <2> QED
        BY <2>1, <2>2, Zenon
<1>4. \A g \in Waiting : journal[g].position < NextPosition
    BY <1>a, NextPositionType, Zenon
<1>5. \A i \in 1..Len(line) : journal'[line[i]] = journal[line[i]]
    BY <1>2, <1>3, Zenon
<1>6. ListedOnce'
    BY <1>q, <1>1, <1>2 DEF ListedOnce
<1>7. ListedIffKnown'
    <2> SUFFICES ASSUME NEW g \in Followups
                 PROVE  journal'[g].result # "absent"
                          <=> \E i \in 1..Len(line') : line'[i] = g
        BY Zenon DEF ListedIffKnown
    <2>1. CASE g = f
        <3>1. Len(line) + 1 \in 1..Len(line')
            BY <1>1
        <3> QED
            BY <1>1, <1>3, <2>1, <3>1, Zenon
    <2>2. CASE g # f
        <3>1. journal'[g] = journal[g]
            BY <1>a, <1>3, <2>2, Zenon
        <3>2. (\E i \in 1..Len(line') : line'[i] = g) <=> \E i \in 1..Len(line) : line[i] = g
            BY <1>1, <2>2
        <3> QED
            BY <1>q, <3>1, <3>2, Zenon DEF ListedIffKnown
    <2> QED
        BY <2>1, <2>2, Zenon
<1>8. \A i \in 1..Len(line) :
        \/ journal[line[i]].receipt # 0
        \/ journal[line[i]].result = "queued" /\ journal[line[i]].position < NextPosition
    <2> SUFFICES ASSUME NEW i \in 1..Len(line), journal[line[i]].receipt = 0
                 PROVE  /\ journal[line[i]].result = "queued"
                        /\ journal[line[i]].position < NextPosition
        OBVIOUS
    <2>1. journal[line[i]].result # "absent"
        BY <1>a, <1>q, Zenon DEF ListedIffKnown
    <2>2. journal[line[i]].result = "queued"
        BY <1>a, <1>q, <1>0, <2>1, Zenon DEF WaitingOrPromoted
    <2>3. line[i] \in Waiting
        BY <1>a, <2>2, Zenon DEF Waiting, Queued
    <2> QED
        BY <1>4, <2>2, <2>3, Zenon
<1>9. WaitingInOrder'
    <2> SUFFICES ASSUME NEW i \in 1..Len(line'), NEW j \in 1..Len(line'), i < j,
                        journal'[line'[j]].result = "queued"
                 PROVE  \/ journal'[line'[i]].receipt # 0
                        \/ /\ journal'[line'[i]].result = "queued"
                           /\ journal'[line'[i]].position < journal'[line'[j]].position
        BY Zenon DEF WaitingInOrder
    <2>0. i \in 1..Len(line) /\ line'[i] = line[i] /\ journal'[line[i]] = journal[line[i]]
        BY <1>1, <1>5
    <2>1. CASE j = Len(line) + 1
        BY <1>1, <1>3, <1>8, <2>0, <2>1, ZenonT(60)
    <2>2. CASE j \in 1..Len(line)
        <3>1. line'[j] = line[j] /\ journal'[line[j]] = journal[line[j]]
            BY <1>1, <1>5, <2>2, Zenon
        <3> QED
            BY <1>q, <2>0, <2>2, <3>1, Zenon DEF WaitingInOrder
    <2> QED
        BY <1>1, <2>1, <2>2
<1>10. WaitingOrPromoted'
    BY <1>a, <1>q, <1>0, <1>3, Zenon DEF WaitingOrPromoted
<1>11. FifoPromotion'
    <2> SUFFICES ASSUME NEW i \in 1..Len(line'), NEW j \in 1..Len(line'), i < j,
                        journal'[line'[j]].receipt # 0
                 PROVE  /\ journal'[line'[i]].receipt # 0
                        /\ journal'[line'[i]].receipt < journal'[line'[j]].receipt
        BY Zenon DEF FifoPromotion
    <2>1. j # Len(line) + 1
        BY <1>1, <1>3, Zenon
    <2>2. j \in 1..Len(line) /\ i \in 1..Len(line)
        BY <1>1, <2>1
    <2>3. /\ line'[i] = line[i] /\ journal'[line[i]] = journal[line[i]]
          /\ line'[j] = line[j] /\ journal'[line[j]] = journal[line[j]]
        BY <1>1, <1>5, <2>2, Zenon
    <2> QED
        BY <1>q, <2>2, <2>3, Zenon DEF FifoPromotion
<1> QED
    BY <1>6, <1>7, <1>9, <1>10, <1>11, Zenon DEF QueueOrder

\* The order survives every step of the store.
LEMMA QueueOrderStep ==
    ASSUME Inv, QueueOrder, StoreStep, line' = line \/ \E f \in Followups : SendFollowup(f)
    PROVE  QueueOrder'
<1>f. QueueReads
    BY QueueFacts, Zenon
<1>0. /\ thread \in Thread /\ journal \in [Actions -> Row] /\ line \in Seq(Followups)
      /\ thread.writer \in Actions /\ thread.status \in Status
      /\ Followups \subseteq Actions /\ Followups \subseteq GraphActions
      /\ Answers \cap Followups = {} /\ Answers \subseteq Actions
      /\ Cancel \notin Followups /\ Cancel \in Actions
      /\ \A i \in 1..Len(line) : line[i] \in Followups /\ line[i] \in Actions
      /\ \A a \in Actions : journal[a].receipt \in Nat /\ journal[a].position \in Nat
      /\ Active \cap NonActive = {}
    BY <1>f, Zenon DEF QueueReads
<1>1. \A s \in Status, a \in Actions : Successor(s, a).status = s
    BY <1>f, Zenon DEF QueueReads
<1>r. journal[thread.writer].result \notin {"absent", "queued"}
    BY <1>f, Zenon DEF QueueReads
<1>3. ASSUME line' = line, SameDecisions \/ WriterDecided,
             thread'.status \in Active => thread.status \in Active
      PROVE  QueueOrder'
    <2>1. \A f \in Followups :
            /\ journal'[f].receipt = journal[f].receipt
            /\ journal'[f].position = journal[f].position
            /\ journal'[f].result = "queued" <=> journal[f].result = "queued"
            /\ journal'[f].result = "absent" <=> journal[f].result = "absent"
        BY <1>0, <1>3, <1>r, Zenon DEF SameDecisions, WriterDecided, Settled
    <2> QED
        BY <1>f, QueueKept, <1>3, <2>1, Zenon
<1>4. ASSUME line' = line, NEW status \in Active, Moved(status), SameDecisions \/ WriterDecided
      PROVE  QueueOrder'
    BY <1>3, <1>4, Zenon DEF Moved
<1>5. ASSUME line' = line, Archive \/ Delete
      PROVE  QueueOrder'
    <2>0. {"archived", "deleting"} \subseteq Status \cap NonActive
        BY StatusFacts, Zenon
    <2>1. journal' = journal /\ thread'.status \in NonActive
        <3>1. /\ journal' = journal
              /\ \E s \in {"archived", "deleting"} : thread' = Successor(s, thread.writer)
            BY <1>5, Zenon DEF Archive, Delete
        <3> QED
            BY <1>0, <1>1, <2>0, <3>1
    <2>2. SameDecisions
        BY <2>1, Zenon DEF SameDecisions
    <2> QED
        BY <1>0, <1>3, <1>5, <2>1, <2>2, Zenon
<1>6. ASSUME line' = line, NEW status \in Terminal, NEW result \in Settled,
             SettleTerminal(status, result)
      PROVE  QueueOrder'
    BY <1>f, <1>6, QueueRefusedInOrder, Zenon
<1>7. ASSUME line' = line, CancelTakes
      PROVE  QueueOrder'
    <2>1. \A f \in Followups : journal'[f] = journal[f]
        BY <1>0, <1>7, Zenon DEF CancelTakes
    <2>2. thread.status \in Active
        BY <1>0, <1>7, TransitionFacts, Zenon DEF CancelTakes
    <2> QED
        BY <1>f, QueueKept, <1>7, <2>1, <2>2, Zenon
<1>8. ASSUME line' = line, NEW a \in Answers, AnswerTakes(a)
      PROVE  QueueOrder'
    <2>1. \A f \in Followups : journal'[f] = journal[f]
        BY <1>0, <1>8, Zenon DEF AnswerTakes
    <2>2. thread.status \in Active
        BY <1>8, Zenon DEF AnswerTakes
    <2> QED
        BY <1>f, QueueKept, <1>8, <2>1, <2>2, Zenon
<1>9. ASSUME line' = line, NEW f \in Followups, PromotionTakes(f)
      PROVE  QueueOrder'
    BY <1>f, <1>9, PromotedInOrder, Zenon
<1>10. ASSUME NEW f \in Followups, SendFollowup(f)
       PROVE  QueueOrder'
    BY <1>f, <1>10, QueuedInOrder, Zenon
<1>11. CASE line' = line /\ ~\E f \in Followups : SendFollowup(f)
    BY <1>3, <1>4, <1>5, <1>6, <1>7, <1>8, <1>9, <1>11 DEF StoreStep
<1> QED
    BY <1>10, <1>11, Zenon

\* Follow-ups are promoted in the order they were admitted, for any queue
\* depth and any number of follow-ups, although positions are used again.
THEOREM FifoPromotionTheorem == Spec => []FifoPromotion
<1>1. Init => QueueOrder
    <2> SUFFICES ASSUME Init PROVE QueueOrder
        OBVIOUS
    <2>1. Len(line) = 0
        BY Zenon DEF Init
    <2>2. \A f \in Followups : f \in Actions /\ f # Ingest
        BY ActionAssumption, Zenon DEF Actions, GraphActions
    <2>3. \A f \in Followups : journal[f].result = "absent"
        BY <2>2 DEF Init, Absent
    <2> QED
        BY <2>1, <2>3
           DEF QueueOrder, ListedOnce, ListedIffKnown, WaitingInOrder, WaitingOrPromoted,
               FifoPromotion
<1>2. Inv /\ QueueOrder /\ [Next]_vars => QueueOrder'
    BY NextIsStoreStep, LineStep, QueueOrderStep, Zenon
<1>3. QueueOrder => FifoPromotion
    BY Zenon DEF QueueOrder
<1> QED
    BY <1>1, <1>2, <1>3, InvHolds, PTL DEF Spec

=============================================================================
