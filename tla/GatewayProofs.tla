---------------------------- MODULE GatewayProofs ----------------------------
(***************************************************************************)
(* What the components around the gateway's records promise, for every     *)
(* value of their constants: the deletion of a run, the recovery ledger,   *)
(* the stripe that keeps commits of one run apart, and the breaker in      *)
(* front of the worker.  They share no variable: each section proves one   *)
(* of them from its own specification.                                     *)
(***************************************************************************)
EXTENDS DeletionSaga, RecoveryLedger, CommitSingleFlight, CircuitBreaker, FiniteSetTheorems, TLAPS

-----------------------------------------------------------------------------
(* DeletionSaga.                                                            *)

\* The passes that met a failure of an item and have not recorded it yet.
Unsaved(i) == {r \in Requests : pass[r].pc = "advance" /\ pass[r].result = "failed" /\ CleansNext(r, i)}

\* A pass at its record knows what became of its item, and an item it removed
\* is gone.
PassesKnow ==
    \A r \in Requests : pass[r].pc = "advance" =>
        /\ pass[r].result # "none"
        /\ \A i \in Items : CleansNext(r, i) /\ pass[r].result = "done" => i \notin content

\* No attempt is recorded that did not fail, whichever pass recorded it.
AttemptsFailed ==
    \A i \in Items : Cardinality(Unsaved(i)) + saga.ledger[i].attempts <= refusals[i]

\* An item is given up after MaxAttempts attempts.
GivenUpLate ==
    \A i \in Items : saga.ledger[i].state = "abandoned" => saga.ledger[i].attempts >= MaxAttempts

\* The manifest covers what is left.
ManifestCovers == saga.exists => content \subseteq saga.manifest

SagaInv ==
    /\ SagaTypeOK /\ DeletionIsWhole
    /\ PassesKnow /\ AttemptsFailed /\ GivenUpLate /\ ManifestCovers

LEMMA UnsavedFinite ==
  ASSUME NEW i PROVE IsFiniteSet(Unsaved(i)) /\ Cardinality(Unsaved(i)) \in Nat
  BY SagaAssumption, FS_Subset, FS_CardinalityType, Zenon DEF Unsaved

\* A pass is at one item.
LEMMA AtOne ==
  ASSUME NEW r, NEW i \in Items, NEW j \in Items, CleansNext(r, i), CleansNext(r, j) PROVE i = j
  BY DEF CleansNext, Items

\* A step of one pass that neither meets nor records a failure.
LEMMA UnsavedSame ==
  ASSUME NEW r \in Requests, \A q \in Requests : q # r => pass'[q] = pass[q],
         ~(pass[r].pc = "advance" /\ pass[r].result = "failed"),
         ~(pass'[r].pc = "advance" /\ pass'[r].result = "failed"),
         NEW i \in Items
  PROVE  Unsaved(i)' = Unsaved(i)
  BY Zenon DEF Unsaved, CleansNext

\* What a claim leaves of the saga.
LEMMA ClaimedOnly ==
  ASSUME SagaTypeOK, NEW c \in {"free", "held", "expired"}, saga' = [saga EXCEPT !.claimed = c]
  PROVE  /\ saga' \in Sagas /\ saga'.exists = saga.exists
         /\ saga'.manifest = saga.manifest /\ saga'.ledger = saga.ledger
  BY Zenon DEF SagaTypeOK, Sagas

\* A step that takes a pass from one place to another and leaves the record.
LEMMA SagaPassMoves ==
  ASSUME SagaInv, NEW r \in Requests, NEW p \in DeletionPasses, pass' = [pass EXCEPT ![r] = p],
         pass[r].pc # "advance", p.pc # "advance",
         saga' \in Sagas, saga'.exists = saga.exists,
         saga'.manifest = saga.manifest, saga'.ledger = saga.ledger,
         UNCHANGED <<doomed, content, overruns, deaths, refusals, reported>>
  PROVE  SagaInv'
  <1> USE DEF SagaInv
  <1>1. pass' \in [Requests -> DeletionPasses] /\ pass'[r] = p
        /\ \A q \in Requests : q # r => pass'[q] = pass[q]
    BY Zenon DEF SagaTypeOK
  <1>2. SagaTypeOK'
    BY <1>1, Zenon DEF SagaTypeOK
  <1>3. DeletionIsWhole'
    BY Zenon DEF DeletionIsWhole, LeakIsReported, HiddenHasSaga, DoneIsGone
  <1>4. \A i \in Items : Unsaved(i)' = Unsaved(i)
    BY <1>1, UnsavedSame, Zenon
  <1>5. \A q \in Requests : pass'[q].pc = "advance" => pass'[q] = pass[q]
    BY <1>1, Zenon
  <1>6. PassesKnow'
    BY <1>5, Zenon DEF PassesKnow, CleansNext
  <1>7. AttemptsFailed' /\ GivenUpLate' /\ ManifestCovers'
    BY <1>4, Zenon DEF AttemptsFailed, GivenUpLate, ManifestCovers
  <1> QED
    BY <1>2, <1>3, <1>6, <1>7, Zenon

LEMMA SagaInitial == SagaInit => SagaInv
  <1> SUFFICES ASSUME SagaInit PROVE SagaInv
    OBVIOUS
  <1> USE SagaAssumption DEF SagaInit
  <1>1. SagaTypeOK
    BY DEF SagaTypeOK, NoSaga, Sagas, ItemResults, Unrecorded, DeletionPasses, NotAsked
  <1>2. DeletionIsWhole
    BY Zenon DEF DeletionIsWhole, LeakIsReported, HiddenHasSaga, DoneIsGone, NoSaga
  <1>3. \A i \in Items : Unsaved(i) = {}
    BY Zenon DEF Unsaved, NotAsked
  <1>4. \A i \in Items : Cardinality(Unsaved(i)) + saga.ledger[i].attempts <= refusals[i]
    BY <1>3, FS_EmptySet, SMTT(60) DEF NoSaga, Unrecorded
  <1> QED
    BY <1>1, <1>2, <1>4, Zenon
       DEF SagaInv, PassesKnow, AttemptsFailed, GivenUpLate, ManifestCovers, NoSaga, NotAsked, Unrecorded

LEMMA SagaStep == SagaInv /\ [SagaNext]_sagaVars => SagaInv'
  <1> SUFFICES ASSUME SagaInv, [SagaNext]_sagaVars PROVE SagaInv'
    OBVIOUS
  <1> USE SagaAssumption DEF SagaInv
  <1>1. CASE RunEnds
    BY <1>1, Zenon DEF RunEnds, SagaTypeOK, DeletionIsWhole, LeakIsReported, HiddenHasSaga, DoneIsGone,
                PassesKnow, AttemptsFailed, GivenUpLate, ManifestCovers, Unsaved, CleansNext
  <1>2. ASSUME NEW r \in Requests, RequestDeletion(r) PROVE SagaInv'
    <2> DEFINE p == [pass[r] EXCEPT !.pc = "claim"]
    <2>1. /\ p \in DeletionPasses /\ p.pc = "claim" /\ pass[r].pc = "idle"
          /\ pass' = [pass EXCEPT ![r] = p]
      BY <1>2 DEF RequestDeletion, SagaTypeOK, DeletionPasses, NotAsked
    <2>2. CASE UNCHANGED <<doomed, saga>>
      BY <1>2, <2>1, <2>2, SagaPassMoves, Zenon DEF RequestDeletion, SagaTypeOK
    <2>3. CASE doomed = "over" /\ doomed' = "deleting" /\ saga' = NewSaga
      <3>1. pass' \in [Requests -> DeletionPasses] /\ pass'[r] = p
            /\ \A q \in Requests : q # r => pass'[q] = pass[q]
        BY <2>1, Zenon DEF SagaTypeOK
      <3>2. NewSaga \in Sagas /\ saga'.exists /\ content \subseteq saga'.manifest
            /\ \A i \in Items : saga'.ledger[i] = Unrecorded
        BY <2>3 DEF NewSaga, Sagas, Manifest, SagaTypeOK, ItemResults, Unrecorded, Items
      <3>3. SagaTypeOK' /\ DeletionIsWhole'
        BY <1>2, <2>3, <3>1, <3>2
           DEF RequestDeletion, SagaTypeOK, Unrecorded, DeletionIsWhole, LeakIsReported, HiddenHasSaga, DoneIsGone
      <3>4. \A i \in Items : Unsaved(i)' = Unsaved(i)
        BY <2>1, <3>1, UnsavedSame, Zenon
      <3>5. \A i \in Items : Cardinality(Unsaved(i)') + saga'.ledger[i].attempts <= refusals'[i]
        BY <1>2, <3>2, <3>4, UnsavedFinite
           DEF RequestDeletion, Unrecorded, SagaTypeOK, Sagas, ItemResults, AttemptsFailed
      <3>6. \A q \in Requests : pass'[q].pc = "advance" => pass'[q] = pass[q]
        BY <2>1, <3>1, Zenon
      <3> QED
        BY <1>2, <3>2, <3>3, <3>5, <3>6
           DEF RequestDeletion, Unrecorded, CleansNext, PassesKnow, AttemptsFailed, GivenUpLate, ManifestCovers
    <2> QED
      BY <1>2, <2>2, <2>3, Zenon DEF RequestDeletion
  <1>3. ASSUME NEW r \in Requests, Claim(r) PROVE SagaInv'
    <2>1. [pc |-> "clean", todo |-> UncleanedItems, result |-> "none"] \in DeletionPasses
          /\ NotAsked \in DeletionPasses
      BY Zenon DEF DeletionPasses, UncleanedItems, NotAsked, SagaTypeOK, Sagas
    <2>2. CASE Claimable
      BY <1>3, <2>1, <2>2, ClaimedOnly, SagaPassMoves, Zenon DEF Claim
    <2>3. CASE ~Claimable
      BY <1>3, <2>1, <2>3, SagaPassMoves, Zenon DEF Claim, SagaTypeOK, NotAsked
    <2> QED
      BY <2>2, <2>3, Zenon
  <1>4. ASSUME NEW r \in Requests, CleanItem(r) PROVE SagaInv'
    <2>1. pass[r] \in DeletionPasses /\ pass[r].pc = "clean"
      BY <1>4, Zenon DEF CleanItem, SagaTypeOK
    <2>2. CASE pass' = [pass EXCEPT ![r].pc = "finalize"] /\ UNCHANGED <<content, refusals>>
      <3>1. /\ [pass[r] EXCEPT !.pc = "finalize"] \in DeletionPasses
            /\ [pass[r] EXCEPT !.pc = "finalize"].pc = "finalize"
        BY <2>1, Zenon DEF DeletionPasses
      <3> QED
        BY <1>4, <2>1, <2>2, <3>1, SagaPassMoves, Zenon DEF CleanItem, SagaTypeOK
    <2>3. ASSUME NEW i \in Items, CleansNext(r, i), NEW result \in {"done", "failed"},
                 pass' = [pass EXCEPT ![r].pc = "advance", ![r].result = result],
                 content' \subseteq content, result = "done" => i \notin content',
                 \A j \in Items : /\ refusals'[j] >= refusals[j]
                                  /\ result = "failed" /\ j = i => refusals'[j] = refusals[j] + 1,
                 refusals' \in [Items -> Nat]
          PROVE  SagaInv'
      <3>1. /\ pass'[r] = [pc |-> "advance", todo |-> pass[r].todo, result |-> result]
            /\ \A q \in Requests : q # r => pass'[q] = pass[q]
        BY <2>1, <2>3, Zenon DEF SagaTypeOK, DeletionPasses
      <3>2. pass' \in [Requests -> DeletionPasses]
        BY <2>1, <2>3, Zenon DEF SagaTypeOK, DeletionPasses
      <3>3. UNCHANGED <<doomed, saga, overruns, deaths, reported>>
        BY <1>4, Zenon DEF CleanItem
      <3>4. SagaTypeOK'
        BY <2>3, <3>2, <3>3, Zenon DEF SagaTypeOK
      <3>5. DeletionIsWhole'
        BY <2>3, <3>3 DEF DeletionIsWhole, LeakIsReported, HiddenHasSaga, DoneIsGone, SagaTypeOK
      <3>6. \A q \in Requests : \A j \in Items : CleansNext(q, j)' <=> CleansNext(q, j)
        BY <3>1 DEF CleansNext
      <3>7. PassesKnow'
        <4> SUFFICES ASSUME NEW q \in Requests, pass'[q].pc = "advance"
                     PROVE  /\ pass'[q].result # "none"
                            /\ \A j \in Items : CleansNext(q, j)' /\ pass'[q].result = "done" => j \notin content'
          BY Zenon DEF PassesKnow
        <4>1. CASE q = r
          <5>1. pass'[q].result = result
            BY <3>1, <4>1
          <5>2. \A j \in Items : CleansNext(q, j)' => j = i
            BY <2>3, <3>6, <4>1, AtOne, Zenon
          <5> QED
            BY <2>3, <5>1, <5>2, Zenon
        <4>2. CASE q # r
          <5>1. pass'[q] = pass[q]
            BY <3>1, <4>2, Zenon
          <5>2. /\ pass[q].result # "none"
                /\ \A j \in Items : CleansNext(q, j) /\ pass[q].result = "done" => j \notin content
            BY <5>1, Zenon DEF PassesKnow
          <5> QED
            BY <2>3, <3>6, <5>1, <5>2, Zenon
        <4> QED
          BY <4>1, <4>2, Zenon
      <3>8. ASSUME NEW j \in Items
            PROVE  Cardinality(Unsaved(j)') + saga.ledger[j].attempts <= refusals'[j]
        <4>0. /\ Cardinality(Unsaved(j)) + saga.ledger[j].attempts <= refusals[j]
              /\ Cardinality(Unsaved(j)) \in Nat /\ saga.ledger[j].attempts \in Nat
              /\ refusals[j] \in Nat /\ refusals'[j] \in Nat /\ refusals'[j] >= refusals[j]
          BY <2>3, UnsavedFinite, Zenon DEF AttemptsFailed, SagaTypeOK, Sagas, ItemResults
        <4>1. CASE j = i /\ result = "failed"
          <5>1. Unsaved(j)' = Unsaved(j) \cup {r}
            <6>1. r \in Unsaved(j)'
              BY <2>3, <3>1, <3>6, <4>1 DEF Unsaved
            <6>2. \A q \in Requests : q # r => (q \in Unsaved(j)' <=> q \in Unsaved(j))
              BY <3>1, <3>6, Zenon DEF Unsaved
            <6> QED
              BY <6>1, <6>2, Zenon DEF Unsaved
          <5>2. Cardinality(Unsaved(j) \cup {r}) = Cardinality(Unsaved(j)) + 1
            <6>1. r \notin Unsaved(j) /\ IsFiniteSet(Unsaved(j))
              BY <2>1, UnsavedFinite, Zenon DEF Unsaved
            <6> QED
              BY <6>1, FS_AddElement, Zenon
          <5>3. Cardinality(Unsaved(j) \cup {r}) \in Nat
            BY UnsavedFinite, FS_AddElement, FS_CardinalityType, Zenon
          <5> QED
            BY <2>3, <4>0, <4>1, <5>1, <5>2, <5>3
        <4>2. CASE j # i \/ result = "done"
          <5>1. r \notin Unsaved(j)' /\ r \notin Unsaved(j)
            <6>1. ~CleansNext(r, j)' \/ pass'[r].result = "done"
              BY <2>3, <3>1, <3>6, <4>2, AtOne
            <6> QED
              BY <2>1, <6>1, Zenon DEF Unsaved
          <5>2. \A q \in Requests : q # r => (q \in Unsaved(j)' <=> q \in Unsaved(j))
            BY <3>1, <3>6, Zenon DEF Unsaved
          <5>3. Unsaved(j)' = Unsaved(j)
            BY <5>1, <5>2, Zenon DEF Unsaved
          <5> QED
            BY <4>0, <5>3
        <4> QED
          BY <2>3, <4>1, <4>2, Zenon
      <3>9. AttemptsFailed' /\ GivenUpLate' /\ ManifestCovers'
        BY <2>3, <3>3, <3>8, Zenon DEF AttemptsFailed, GivenUpLate, ManifestCovers
      <3> QED
        BY <3>4, <3>5, <3>7, <3>9, Zenon
    <2>4. CASE \E i \in Items :
                 /\ CleansNext(r, i)
                 /\ content' = content \ {i}
                 /\ pass' = [pass EXCEPT ![r].pc = "advance", ![r].result = "done"]
                 /\ UNCHANGED refusals
      BY <2>3, <2>4 DEF SagaTypeOK
    <2>5. CASE \E i \in Items :
                 /\ CleansNext(r, i)
                 /\ refusals' = [refusals EXCEPT ![i] = @ + 1]
                 /\ pass' = [pass EXCEPT ![r].pc = "advance", ![r].result = "failed"]
                 /\ UNCHANGED content
      BY <2>3, <2>5 DEF SagaTypeOK
    <2> QED
      BY <1>4, <2>2, <2>4, <2>5, Zenon DEF CleanItem
  <1>5. ASSUME NEW r \in Requests, AdvanceItem(r) PROVE SagaInv'
    <2>1. PICK i \in Items :
             /\ CleansNext(r, i)
             /\ saga' = IF saga.exists
                          THEN [saga EXCEPT !.ledger[i] = RecordFor(@, pass[r].result)]
                          ELSE saga
             /\ pass' = [pass EXCEPT ![r] = [pc |-> "clean", todo |-> @.todo \ {i}, result |-> "none"]]
      BY <1>5, Zenon DEF AdvanceItem
    <2> DEFINE new == RecordFor(saga.ledger[i], pass[r].result)
    <2>2. /\ pass[r].pc = "advance" /\ pass[r].result \in {"done", "failed"}
          /\ UNCHANGED <<doomed, content, overruns, deaths, refusals, reported>>
      <3>1. pass[r].pc = "advance" /\ pass[r] \in DeletionPasses /\ pass[r].result # "none"
        BY <1>5, Zenon DEF AdvanceItem, SagaTypeOK, PassesKnow
      <3> QED
        BY <1>5, <3>1, Zenon DEF AdvanceItem, DeletionPasses
    <2>3. /\ pass' \in [Requests -> DeletionPasses] /\ pass'[r].pc = "clean"
          /\ \A q \in Requests : q # r => pass'[q] = pass[q]
      BY <2>1, Zenon DEF SagaTypeOK, DeletionPasses
    <2>4. saga.ledger[i] \in ItemResults
      BY Zenon DEF SagaTypeOK, Sagas
    <2>5. /\ new \in ItemResults
          /\ pass[r].result = "done" => new.state = "done" /\ new.attempts = saga.ledger[i].attempts
          /\ pass[r].result = "failed" => /\ new.state \in {"failed", "abandoned"}
                                         /\ new.attempts <= saga.ledger[i].attempts + 1
                                         /\ new.attempts > 0
                                         /\ (new.state = "abandoned" => new.attempts >= MaxAttempts)
      BY <2>2, <2>4 DEF RecordFor, ItemResults
    <2>6. /\ saga' \in Sagas /\ saga'.exists = saga.exists /\ saga'.manifest = saga.manifest
          /\ \A j \in Items : j # i => saga'.ledger[j] = saga.ledger[j]
          /\ saga'.ledger[i] \in {new, saga.ledger[i]}
          /\ saga.exists => saga'.ledger[i] = new
      <3>1. saga \in Sagas /\ saga.ledger \in [Items -> ItemResults]
        BY Zenon DEF SagaTypeOK, Sagas
      <3>2. [saga.ledger EXCEPT ![i] = new] \in [Items -> ItemResults]
        BY <2>5, <3>1, Zenon
      <3>3. CASE saga.exists
        <4>1. saga' = [saga EXCEPT !.ledger = [saga.ledger EXCEPT ![i] = new]]
          BY <2>1, <3>3, Zenon
        <4> QED
          BY <3>1, <3>2, <4>1, Zenon DEF Sagas
      <3>4. CASE ~saga.exists
        BY <2>1, <3>1, <3>4, Zenon
      <3> QED
        BY <3>3, <3>4, Zenon
    <2> HIDE DEF new
    <2>7. SagaTypeOK'
      <3>1. \A j \in Items : saga'.ledger[j].state \in {"failed", "abandoned"} => saga'.ledger[j].attempts > 0
        BY <2>2, <2>5, <2>6, Zenon DEF SagaTypeOK
      <3> QED
        BY <2>2, <2>3, <2>6, <3>1, Zenon DEF SagaTypeOK
    <2>8. pass[r].result = "done" => i \notin content
      BY <2>1, <2>2, Zenon DEF PassesKnow
    <2>9. DeletionIsWhole'
      <3>1. \A j \in Items : saga'.exists /\ saga'.ledger[j].state = "done" => j \notin content
        BY <2>2, <2>5, <2>6, <2>8, Zenon DEF DeletionIsWhole, DoneIsGone
      <3> QED
        BY <2>2, <2>6, <3>1, Zenon DEF DeletionIsWhole, LeakIsReported, HiddenHasSaga, DoneIsGone
    <2>10. ASSUME NEW j \in Items
           PROVE  Cardinality(Unsaved(j)') + saga'.ledger[j].attempts <= refusals'[j]
      <3>0. /\ Cardinality(Unsaved(j)) + saga.ledger[j].attempts <= refusals[j]
            /\ Cardinality(Unsaved(j)) \in Nat /\ saga.ledger[j].attempts \in Nat /\ refusals[j] \in Nat
        BY UnsavedFinite, Zenon DEF AttemptsFailed, SagaTypeOK, Sagas, ItemResults
      <3>1. CASE j = i /\ pass[r].result = "failed"
        <4>1. Unsaved(j)' = Unsaved(j) \ {r} /\ r \in Unsaved(j)
          BY <2>1, <2>2, <2>3, <3>1, Zenon DEF Unsaved, CleansNext
        <4>2. Cardinality(Unsaved(j) \ {r}) = Cardinality(Unsaved(j)) - 1
          BY <4>1, UnsavedFinite, FS_RemoveElement, Zenon
        <4>3. saga'.ledger[j].attempts <= saga.ledger[j].attempts + 1 /\ saga'.ledger[j].attempts \in Nat
          BY <2>4, <2>5, <2>6, <3>0, <3>1 DEF ItemResults
        <4> QED
          BY <2>2, <3>0, <4>1, <4>2, <4>3
      <3>2. CASE j # i \/ pass[r].result = "done"
        <4>1. Unsaved(j)' = Unsaved(j)
          BY <2>1, <2>2, <2>3, <3>2, AtOne, Zenon DEF Unsaved, CleansNext
        <4>2. saga'.ledger[j].attempts = saga.ledger[j].attempts
          BY <2>5, <2>6, <3>2
        <4> QED
          BY <2>2, <3>0, <4>1, <4>2, Zenon
      <3> QED
        BY <2>2, <3>1, <3>2, Zenon
    <2>11. GivenUpLate'
      BY <2>2, <2>5, <2>6, Zenon DEF GivenUpLate
    <2>12. \A q \in Requests : pass'[q].pc = "advance" => pass'[q] = pass[q]
      BY <2>3, Zenon
    <2>13. PassesKnow' /\ AttemptsFailed' /\ ManifestCovers'
      BY <2>2, <2>6, <2>10, <2>12, Zenon DEF PassesKnow, AttemptsFailed, ManifestCovers, CleansNext
    <2> QED
      BY <2>7, <2>9, <2>11, <2>13, Zenon
  <1>6. ASSUME NEW r \in Requests, Finalize(r) PROVE SagaInv'
    <2>1. NotAsked \in DeletionPasses /\ NotAsked.pc = "idle" /\ pass[r].pc = "finalize"
      BY <1>6, Zenon DEF DeletionPasses, NotAsked, Finalize
    <2>2. CASE UNCHANGED <<doomed, saga, reported>>
      BY <1>6, <2>1, <2>2, SagaPassMoves, Zenon DEF Finalize, SagaTypeOK
    <2>3. CASE saga' = [saga EXCEPT !.claimed = "free"] /\ UNCHANGED <<doomed, reported>>
      BY <1>6, <2>1, <2>3, ClaimedOnly, SagaPassMoves, Zenon DEF Finalize
    <2>4. CASE /\ saga.exists /\ SagaSettled
               /\ saga' = NoSaga /\ doomed' = "gone" /\ reported' = AbandonedItems
      <3>1. /\ UNCHANGED <<content, overruns, deaths, refusals>>
            /\ pass' \in [Requests -> DeletionPasses] /\ pass'[r] = NotAsked
            /\ \A q \in Requests : q # r => pass'[q] = pass[q]
        BY <1>6, <2>1, Zenon DEF Finalize, SagaTypeOK
      <3>2. NoSaga \in Sagas /\ ~NoSaga.exists /\ \A i \in Items : NoSaga.ledger[i] = Unrecorded
        BY Zenon DEF NoSaga, Sagas, ItemResults, Unrecorded
      <3>3. SagaTypeOK'
        BY <2>4, <3>1, <3>2 DEF SagaTypeOK, AbandonedItems, Sagas, Unrecorded
      <3>4. ASSUME NEW i \in content PROVE i \in AbandonedItems /\ refusals[i] >= MaxAttempts
        <4>1. i \in Items /\ i \in saga.manifest /\ saga.ledger[i].state # "done"
          BY <2>4, Zenon DEF SagaTypeOK, DeletionIsWhole, DoneIsGone, ManifestCovers
        <4>2. saga.ledger[i].state = "abandoned" /\ saga.ledger[i].attempts >= MaxAttempts
          BY <2>4, <4>1, Zenon DEF SagaSettled, GivenUpLate
        <4>3. refusals[i] >= saga.ledger[i].attempts
          BY <4>1, UnsavedFinite DEF AttemptsFailed, SagaTypeOK, Sagas, ItemResults
        <4> QED
          BY <4>1, <4>2, <4>3 DEF AbandonedItems, SagaTypeOK, Sagas, ItemResults
      <3>5. DeletionIsWhole'
        BY <2>4, <3>1, <3>2, <3>4, Zenon DEF DeletionIsWhole, LeakIsReported, HiddenHasSaga, DoneIsGone
      <3>6. \A i \in Items : Unsaved(i)' = Unsaved(i)
        BY <2>1, <3>1, UnsavedSame, Zenon
      <3>7. \A i \in Items : Cardinality(Unsaved(i)') + saga'.ledger[i].attempts <= refusals'[i]
        BY <2>4, <3>1, <3>2, <3>6, UnsavedFinite
           DEF SagaTypeOK, Sagas, ItemResults, Unrecorded, AttemptsFailed
      <3>8. \A q \in Requests : pass'[q].pc = "advance" => pass'[q] = pass[q]
        BY <2>1, <3>1, Zenon
      <3> QED
        BY <2>4, <3>1, <3>2, <3>3, <3>5, <3>7, <3>8
           DEF Unrecorded, CleansNext, PassesKnow, AttemptsFailed, GivenUpLate, ManifestCovers
    <2> QED
      BY <1>6, <2>2, <2>3, <2>4, Zenon DEF Finalize
  <1>7. CASE SagaDeath
    <2>1. /\ UNCHANGED <<doomed, saga, content, overruns, refusals, reported>>
          /\ \A r \in Requests : pass'[r] = NotAsked
      BY <1>7, Zenon DEF SagaDeath
    <2>2. SagaTypeOK' /\ DeletionIsWhole'
      BY <1>7, <2>1 DEF SagaDeath, SagaTypeOK, DeletionPasses, NotAsked, DeletionIsWhole,
                        LeakIsReported, HiddenHasSaga, DoneIsGone
    <2>3. \A i \in Items : Unsaved(i)' = {}
      BY <2>1 DEF Unsaved, NotAsked
    <2>4. \A i \in Items : Cardinality(Unsaved(i)') + saga'.ledger[i].attempts <= refusals'[i]
      <3> SUFFICES ASSUME NEW i \in Items
                   PROVE  Cardinality(Unsaved(i)') + saga'.ledger[i].attempts <= refusals'[i]
        OBVIOUS
      <3>1. /\ Cardinality(Unsaved(i)) + saga.ledger[i].attempts <= refusals[i]
            /\ Cardinality(Unsaved(i)) \in Nat /\ saga.ledger[i].attempts \in Nat /\ refusals[i] \in Nat
        BY UnsavedFinite, Zenon DEF AttemptsFailed, SagaTypeOK, Sagas, ItemResults
      <3>2. Cardinality(Unsaved(i)') = 0
        BY <2>3, FS_EmptySet, Zenon
      <3> QED
        BY <2>1, <3>1, <3>2
    <2> QED
      BY <2>1, <2>2, <2>4 DEF NotAsked, PassesKnow, AttemptsFailed, GivenUpLate, ManifestCovers
  <1>8. CASE ClaimExpires
    <2>1. /\ UNCHANGED <<doomed, content, pass, deaths, refusals, reported>> /\ overruns' \in 0..MaxOverruns
          /\ saga' \in Sagas /\ saga'.exists = saga.exists
          /\ saga'.manifest = saga.manifest /\ saga'.ledger = saga.ledger
      BY <1>8, ClaimedOnly, SMTT(60) DEF ClaimExpires, SagaTypeOK
    <2> QED
      BY <2>1, Zenon DEF SagaTypeOK, DeletionIsWhole, LeakIsReported, HiddenHasSaga, DoneIsGone,
                  PassesKnow, AttemptsFailed, GivenUpLate, ManifestCovers, Unsaved, CleansNext
  <1>9. CASE UNCHANGED sagaVars
    BY <1>9, Zenon DEF sagaVars, SagaTypeOK, DeletionIsWhole, LeakIsReported, HiddenHasSaga, DoneIsGone,
                PassesKnow, AttemptsFailed, GivenUpLate, ManifestCovers, Unsaved, CleansNext
  <1> QED
    BY <1>1, <1>2, <1>3, <1>4, <1>5, <1>6, <1>7, <1>8, <1>9, Zenon DEF SagaNext

\* For any number of requests, stores, overrun claims and deaths: what is left of
\* a deleted thread was refused MaxAttempts times and is reported, a hidden
\* thread has its saga, and what the ledger calls done is gone
\* (finalize_deletion_saga, advance_deletion_cleanup_item).
THEOREM DeletionIsWholeTheorem == SagaSpec => []DeletionIsWhole
  <1>1. SagaInv => DeletionIsWhole
    BY Zenon DEF SagaInv
  <1> QED
    BY <1>1, SagaInitial, SagaStep, PTL DEF SagaSpec

\* No step narrows or widens the manifest of a saga (create_deletion_saga).
THEOREM ManifestIsKeptTheorem == SagaSpec => [][ManifestIsKept]_sagaVars
  <1>1. SagaInv /\ [SagaNext]_sagaVars => [ManifestIsKept]_sagaVars
    <2> SUFFICES ASSUME SagaInv, [SagaNext]_sagaVars PROVE ManifestIsKept
      OBVIOUS
    <2>1. saga \in Sagas /\ (doomed = "over" => ~saga.exists)
      BY Zenon DEF SagaInv, SagaTypeOK, DeletionIsWhole, HiddenHasSaga
    <2>2. ASSUME NEW c, saga' = [saga EXCEPT !.claimed = c] PROVE saga'.manifest = saga.manifest
      BY <2>1, <2>2, Zenon DEF Sagas
    <2>3. ASSUME NEW l, saga' = [saga EXCEPT !.ledger = l] PROVE saga'.manifest = saga.manifest
      BY <2>1, <2>3, Zenon DEF Sagas
    <2>4. CASE RunEnds \/ SagaDeath \/ UNCHANGED sagaVars
      BY <2>4, Zenon DEF RunEnds, SagaDeath, sagaVars, ManifestIsKept
    <2>5. ASSUME NEW r \in Requests, RequestDeletion(r) \/ CleanItem(r) PROVE ManifestIsKept
      BY <2>1, <2>5, Zenon DEF RequestDeletion, CleanItem, ManifestIsKept
    <2>6. ASSUME NEW r \in Requests, Claim(r) PROVE ManifestIsKept
      BY <2>2, <2>6, Zenon DEF Claim, ManifestIsKept
    <2>7. ASSUME NEW r \in Requests, AdvanceItem(r) PROVE ManifestIsKept
      <3>1. PICK i \in Items :
              saga' = IF saga.exists THEN [saga EXCEPT !.ledger[i] = RecordFor(@, pass[r].result)] ELSE saga
        BY <2>7, Zenon DEF AdvanceItem
      <3> QED
        BY <2>3, <3>1, Zenon DEF ManifestIsKept
    <2>8. ASSUME NEW r \in Requests, Finalize(r) PROVE ManifestIsKept
      BY <2>2, <2>8 DEF Finalize, ManifestIsKept, NoSaga
    <2>9. CASE ClaimExpires
      BY <2>2, <2>9, Zenon DEF ClaimExpires, ManifestIsKept
    <2> QED
      BY <2>4, <2>5, <2>6, <2>7, <2>8, <2>9, Zenon DEF SagaNext
  <1> QED
    BY <1>1, SagaInitial, SagaStep, PTL DEF SagaSpec

-----------------------------------------------------------------------------
(* RecoveryLedger.                                                          *)

\* A closed record was closed for a cause that takes the lease from the live
\* dispatcher, so no late failure of its own can reach the record.
ClosedIsLost ==
    HasRow /\ Row.settled /\ Pending /\ now < ActionDeadline => moved /\ lease.holder # "live"

\* A pass that is at work has a record to write to.
PassHasRow == \A p \in Passes : sender[p] # "idle" => HasRow

\* The lease a pass took runs from the moment it took it, and is the pass's own
\* for that long.
SenderLease ==
    \A p \in Passes : sender[p] = "sending" /\ now < saw[p].started + ActionLease =>
        lease.holder = p /\ lease.until = saw[p].started + ActionLease

LedgerInv == LedgerTypeOK /\ PassHasRow /\ ClosedIsLost /\ SenderLease /\ NeverReopened

\* The record as one row.
LEMMA RowShape ==
  ASSUME LedgerTypeOK, HasRow PROVE Row \in AttemptRows /\ attemptRow = <<Row>>
  BY Zenon DEF LedgerTypeOK, HasRow, Row

LEMMA RowOf ==
  ASSUME NEW r \in AttemptRows, attemptRow' = <<r>> PROVE HasRow' /\ Row' = r
  BY Zenon DEF HasRow, Row

\* What a write under a claim leaves (_update_claimed).
LEMMA UpdatedLeaves ==
  ASSUME LedgerTypeOK, HasRow, NEW p, NEW r \in AttemptRows, attemptRow' = Updated(p, r)
  PROVE  /\ HasRow' /\ Row' \in AttemptRows /\ attemptRow' = <<Row'>>
         /\ attemptRow' = attemptRow \/ Row'.settled = r.settled
         /\ Row.holder # p => attemptRow' = attemptRow
  <1> DEFINE w == [r EXCEPT !.holder = "nobody", !.until = 0]
  <1>1. w \in AttemptRows /\ w.settled = r.settled
    <2>1. 0 \in 0..(MaxClock + ClaimLease)
      BY LedgerAssumption
    <2>2. w \in AttemptRows
      BY <2>1, Zenon DEF AttemptRows
    <2>3. w.settled = r.settled
      BY Zenon DEF AttemptRows
    <2> QED
      BY <2>2, <2>3, Zenon
  <1>2. CASE Row.holder = p /\ ~Row.settled
    <2>1. attemptRow' = <<w>>
      BY <1>2, Zenon DEF Updated
    <2>2. HasRow' /\ Row' = w
      BY <1>1, <2>1, RowOf, Zenon
    <2> QED
      BY <1>1, <1>2, <2>1, <2>2, Zenon
  <1>3. CASE ~(Row.holder = p /\ ~Row.settled)
    BY <1>3, RowShape, Zenon DEF Updated, HasRow, Row
  <1> QED
    BY <1>2, <1>3, Zenon

\* The three writes of a claimed record.
LEMMA ClaimedWrites ==
  ASSUME LedgerTypeOK, HasRow, NEW next \in Nat
  PROVE  /\ Row \in AttemptRows
         /\ [Row EXCEPT !.count = @ + 1, !.next = Earlier(next, ActionDeadline)] \in AttemptRows
         /\ [Row EXCEPT !.count = @ + 1, !.next = Earlier(next, ActionDeadline)].settled = Row.settled
         /\ [Row EXCEPT !.settled = TRUE] \in AttemptRows
  <1>1. Row \in AttemptRows
    BY RowShape, Zenon
  <1>2. Earlier(next, ActionDeadline) \in 0..ActionDeadline
    BY LedgerAssumption DEF Earlier
  <1>3. [Row EXCEPT !.settled = TRUE] \in AttemptRows
    BY <1>1, Zenon DEF AttemptRows
  <1>4. Row.count + 1 \in Nat \ {0}
    BY <1>1 DEF AttemptRows
  <1> DEFINE w == [Row EXCEPT !.count = @ + 1, !.next = Earlier(next, ActionDeadline)]
  <1>5. w \in AttemptRows
    BY <1>1, <1>2, <1>4, Zenon DEF AttemptRows
  <1>6. w.settled = Row.settled
    BY <1>1, Zenon DEF AttemptRows
  <1> QED
    BY <1>1, <1>3, <1>5, <1>6, Zenon

\* Nothing goes back: time, the run's writer and status, a verdict, and the
\* lease the live dispatcher lost.
LedgerForward ==
    /\ now <= now' /\ (owned' => owned) /\ (moved => moved')
    /\ applied # "no" => applied' = applied
    /\ lease.holder # "live" => lease'.holder # "live"

\* A record is never dropped, and is closed only for a cause.
RowKept ==
    \/ attemptRow' = attemptRow
    \/ /\ HasRow' /\ Row' \in AttemptRows /\ attemptRow' = <<Row'>>
       /\ \/ Row'.settled => HasRow /\ Row.settled
          \/ ~Pending' \/ now' >= ActionDeadline \/ (moved' /\ lease'.holder # "live")

LEMMA ForwardStep ==
  ASSUME LedgerInv, [LedgerNext]_ledgerVars PROVE LedgerForward
  <1> USE DEF LedgerForward
  <1>0. now \in Nat /\ lease \in [holder : Senders \cup {"nobody"}, until : 0..(MaxClock + ActionLease)]
    BY LedgerAssumption DEF LedgerInv, LedgerTypeOK
  <1>1. CASE LiveDelivers \/ Superseded \/ StatusMoves
    BY <1>0, <1>1 DEF LiveDelivers, Superseded, StatusMoves
  <1>2. ASSUME NEW b \in BOOLEAN, LiveFails(b) PROVE LedgerForward
    BY <1>0, <1>2 DEF LiveFails, Free
  <1>3. CASE Expire \/ ReceiptArrives
    BY <1>0, <1>3 DEF Expire, ReceiptArrives, Pending
  <1>4. CASE LedgerTick
    BY <1>0, <1>4 DEF LedgerTick
  <1>5. ASSUME NEW p \in Passes, OpenPass(p) \/ PassDies(p) \/ RedriveCloses(p) \/ RedriveDefers(p) \/ PassDelivers(p)
        PROVE  LedgerForward
    BY <1>0, <1>5 DEF OpenPass, PassDies, RedriveCloses, RedriveDefers, PassDelivers
  <1>6. ASSUME NEW p \in Passes, RedriveSends(p) \/ RedriveConflicts(p) PROVE LedgerForward
    BY <1>0, <1>6, LedgerAssumption DEF RedriveSends, RedriveConflicts
  <1>7. ASSUME NEW p \in Passes, RedriveRefuses(p) \/ PassIncompatible(p) PROVE LedgerForward
    BY <1>0, <1>7 DEF RedriveRefuses, PassIncompatible, RefusedRow, Pending
  <1>8. ASSUME NEW p \in Passes, NEW b \in BOOLEAN, PassFails(p, b) PROVE LedgerForward
    BY <1>0, <1>8 DEF PassFails, Free
  <1>9. CASE UNCHANGED ledgerVars
    BY <1>0, <1>9, SMTT(60) DEF ledgerVars
  <1> QED
    BY <1>1, <1>2, <1>3, <1>4, <1>5, <1>6, <1>7, <1>8, <1>9, Zenon DEF LedgerNext, PassStep

\* A write that leaves the record as open as it was.
LEMMA WriteKeeps ==
  ASSUME LedgerTypeOK, HasRow, NEW p \in Passes, NEW next \in Nat,
         attemptRow' = ReleasedRow(p) \/ attemptRow' = Rescheduled(p, next)
  PROVE  RowKept
  BY ClaimedWrites, UpdatedLeaves, ZenonT(60) DEF RowKept, ReleasedRow, Rescheduled

\* A write that closes the record.
LEMMA WriteCloses ==
  ASSUME LedgerTypeOK, HasRow, NEW p \in Passes, attemptRow' = SettledAction(p),
         ~Pending' \/ now' >= ActionDeadline \/ (moved' /\ lease'.holder # "live")
  PROVE  RowKept
  BY ClaimedWrites, UpdatedLeaves, Zenon DEF RowKept, SettledAction

LEMMA RowStep ==
  ASSUME LedgerInv, [LedgerNext]_ledgerVars PROVE RowKept
  <1> USE DEF LedgerInv
  <1>0. /\ now \in Nat /\ lease.until \in Nat
        /\ \A p \in Passes : saw[p].started \in Nat /\ saw[p].count \in Nat
    BY LedgerAssumption DEF LedgerTypeOK
  <1>1. CASE UNCHANGED attemptRow
    BY <1>1, Zenon DEF RowKept
  <1>2. CASE Expire
    <2> DEFINE w == IF HasRow THEN [Row EXCEPT !.holder = "nobody", !.until = 0, !.settled = TRUE]
                    ELSE [NewRow(ActionDeadline) EXCEPT !.settled = TRUE]
    <2>1. 0 \in 0..(MaxClock + ClaimLease) /\ ActionDeadline \in 0..ActionDeadline
      BY LedgerAssumption
    <2>2. w \in AttemptRows
      <3>1. CASE HasRow
        <4>1. Row \in AttemptRows
          BY <3>1, RowShape, Zenon
        <4> QED
          BY <2>1, <3>1, <4>1, Zenon DEF AttemptRows
      <3>2. CASE ~HasRow
        <4>1. NewRow(ActionDeadline) \in AttemptRows
          BY <2>1 DEF AttemptRows, NewRow
        <4> QED
          BY <3>2, <4>1, Zenon DEF AttemptRows
      <3> QED
        BY <3>1, <3>2, Zenon
    <2>3. attemptRow' = <<w>> /\ now' = now /\ now >= ActionDeadline
      BY <1>2, LedgerAssumption, <1>0, Zenon DEF Expire
    <2> HIDE DEF w
    <2> QED
      BY <2>2, <2>3, RowOf, Zenon DEF RowKept
  <1>3. ASSUME NEW b \in BOOLEAN, LiveFails(b), ~UNCHANGED attemptRow PROVE RowKept
    <2> DEFINE next == Earlier(now + 1, ActionDeadline)
    <2>1. next \in 0..ActionDeadline /\ 0 \in 0..(MaxClock + ClaimLease)
      BY <1>0, LedgerAssumption DEF Earlier
    <2>2. attemptRow' = Filed(next)
      BY <1>3, Zenon DEF LiveFails
    <2> HIDE DEF next
    <2>3. CASE ~HasRow
      <3>1. NewRow(next) \in AttemptRows /\ NewRow(next).settled = FALSE
        BY <2>1 DEF NewRow, AttemptRows
      <3> QED
        BY <2>2, <2>3, <3>1, RowOf, Zenon DEF RowKept, Filed
    <2>4. CASE HasRow
      <3> DEFINE w == [Row EXCEPT !.count = @ + 1, !.next = next, !.holder = "nobody", !.until = 0]
      <3>1. Row \in AttemptRows /\ Row.count + 1 \in Nat \ {0}
        BY <2>4, RowShape DEF AttemptRows
      <3>2. w \in AttemptRows
        BY <2>1, <3>1, Zenon DEF AttemptRows
      <3>3. w.settled = Row.settled
        BY <3>1, Zenon DEF AttemptRows
      <3>4. attemptRow' = <<w>>
        BY <2>2, <2>4, Zenon DEF Filed
      <3> HIDE DEF w
      <3> QED
        BY <2>4, <3>2, <3>3, <3>4, RowOf, Zenon DEF RowKept
    <2> QED
      BY <2>3, <2>4, Zenon
  <1>4. ASSUME NEW p \in Passes, OpenPass(p) PROVE RowKept
    <2> DEFINE rows == Seeded
               due == rows # <<>> /\ Due(rows[1])
               w == Claimed(p, rows[1])
               next == Earlier(IF lease.holder = "nobody" THEN now ELSE Later(now, lease.until), ActionDeadline)
    <2>1. next \in 0..ActionDeadline /\ 0 \in 0..(MaxClock + ClaimLease) /\ now + ClaimLease \in 0..(MaxClock + ClaimLease)
      BY <1>0, LedgerAssumption DEF Earlier, Later, LedgerTypeOK
    <2>2. NewRow(next) \in AttemptRows /\ NewRow(next).settled = FALSE
      BY <2>1 DEF NewRow, AttemptRows
    <2>3. rows = attemptRow \/ (~HasRow /\ rows = <<NewRow(next)>>)
      BY Zenon DEF Seeded, Unscheduled
    <2> HIDE DEF next, rows
    <2>4. CASE ~due
      <3>1. attemptRow' = rows
        BY <1>4, <2>4, Zenon DEF OpenPass, rows
      <3> QED
        BY <2>2, <2>3, <3>1, RowOf, Zenon DEF RowKept
    <2>5. CASE due
      <3>1. rows[1] \in AttemptRows /\ ~rows[1].settled
        BY <2>2, <2>3, <2>5, RowShape DEF Due, HasRow, Row
      <3>2. w \in AttemptRows /\ w.settled = FALSE
        <4>1. w \in AttemptRows
          BY <2>1, <3>1, Zenon DEF Claimed, AttemptRows
        <4>2. w.settled = rows[1].settled
          BY <3>1, Zenon DEF Claimed, AttemptRows
        <4> QED
          BY <3>1, <4>1, <4>2, Zenon DEF AttemptRows
      <3>3. attemptRow' = <<w>>
        BY <1>4, <2>5, Zenon DEF OpenPass, rows
      <3> HIDE DEF w
      <3> QED
        BY <3>2, <3>3, RowOf, Zenon DEF RowKept
    <2> QED
      BY <2>4, <2>5, Zenon
  <1>5. ASSUME NEW p \in Passes, sender[p] # "idle" PROVE HasRow
    BY <1>5, Zenon DEF PassHasRow
  <1>6. ASSUME NEW p \in Passes, RedriveCloses(p) PROVE RowKept
    <2>1. CASE attemptRow' = ReleasedRow(p)
      BY <1>5, <1>6, <2>1, WriteKeeps, Zenon DEF RedriveCloses
    <2>2. CASE attemptRow' = SettledAction(p) /\ (applied # "no" \/ ~owned)
      BY <1>5, <1>6, <2>2, WriteCloses, Zenon DEF RedriveCloses, Pending
    <2> QED
      BY <1>6, <2>1, <2>2, Zenon DEF RedriveCloses
  <1>7. ASSUME NEW p \in Passes, RedriveDefers(p) PROVE RowKept
    BY <1>0, <1>5, <1>7, WriteKeeps, Zenon DEF RedriveDefers
  <1>8. ASSUME NEW p \in Passes, RedriveConflicts(p) PROVE RowKept
    <2>1. moved' /\ lease'.holder # "live" /\ HasRow
      BY <1>5, <1>8, LedgerAssumption, Zenon DEF RedriveConflicts, CanSend
    <2> QED
      BY <1>8, <2>1, WriteCloses, Zenon DEF RedriveConflicts
  <1>9. ASSUME NEW p \in Passes, RedriveRefuses(p) \/ PassIncompatible(p) PROVE RowKept
    <2>1. HasRow /\ RefusedRow(p)
      BY <1>5, <1>9, Zenon DEF RedriveRefuses, PassIncompatible, CanSend
    <2>2. CASE Pending
      BY <2>1, <2>2, WriteCloses, Zenon DEF RefusedRow, Pending
    <2>3. CASE ~Pending
      BY <2>1, <2>3, <1>1, ZenonT(60) DEF RefusedRow
    <2> QED
      BY <2>2, <2>3, Zenon
  <1>10. ASSUME NEW p \in Passes, PassDelivers(p) PROVE RowKept
    <2>1. Later(now, saw[p].started + ActionLease) \in Nat
      BY <1>0, LedgerAssumption, SMTT(60) DEF Later
    <2> QED
      BY <1>0, <1>5, <1>10, <2>1, WriteKeeps, Zenon DEF PassDelivers
  <1>11. ASSUME NEW p \in Passes, NEW b \in BOOLEAN, PassFails(p, b) PROVE RowKept
    <2>1. now + RetryDelay(saw[p].count) \in Nat
      BY <1>0 DEF RetryDelay
    <2> QED
      BY <1>0, <1>5, <1>11, <2>1, WriteKeeps, Zenon DEF PassFails
  <1>12. ASSUME NEW p \in Passes, PassDies(p) \/ RedriveSends(p) PROVE UNCHANGED attemptRow
    BY <1>12, Zenon DEF PassDies, RedriveSends
  <1>13. CASE LiveDelivers \/ ReceiptArrives \/ Superseded \/ StatusMoves \/ LedgerTick \/ UNCHANGED ledgerVars
    BY <1>1, <1>13, Zenon DEF LiveDelivers, ReceiptArrives, Superseded, StatusMoves, LedgerTick, ledgerVars
  <1> QED
    BY <1>1, <1>2, <1>3, <1>4, <1>6, <1>7, <1>8, <1>9, <1>10, <1>11, <1>12, <1>13, Zenon DEF LedgerNext, PassStep

\* Who holds the action's lease, step by step: a pass takes it when it is free
\* and a sender gives back only its own.
LEMMA LeaseStep ==
  ASSUME LedgerInv, [LedgerNext]_ledgerVars PROVE SenderLease'
  <1> USE DEF LedgerInv
  <1>0. /\ now \in Nat /\ now' >= now /\ sender \in [Senders -> {"idle", "claimed", "sending"}]
        /\ saw \in [Passes -> [count : Nat, started : 0..MaxClock]]
        /\ lease \in [holder : Senders \cup {"nobody"}, until : 0..(MaxClock + ActionLease)]
        /\ Passes \subseteq Senders /\ "live" \notin Passes /\ ActionLease \in Nat
    BY LedgerAssumption, ForwardStep DEF LedgerTypeOK, LedgerForward, Senders
  <1>t. now' \in Nat
    <2>1. CASE LedgerTick
      BY <1>0, <2>1 DEF LedgerTick
    <2>2. CASE ~LedgerTick
      BY <1>0, <2>2, Zenon DEF LedgerNext, PassStep, ledgerVars, LiveDelivers, LiveFails, Expire, ReceiptArrives, Superseded,
                 StatusMoves, OpenPass, PassDies, RedriveCloses, RedriveDefers, RedriveSends, RedriveConflicts,
                 RedriveRefuses, PassDelivers, PassIncompatible, PassFails
    <2> QED
      BY <2>1, <2>2, Zenon
  \* A step that keeps the lease and starts no sending.
  <1>1. ASSUME UNCHANGED lease,
               \A p \in Passes : sender'[p] = "sending" => sender[p] = "sending" /\ saw'[p] = saw[p]
        PROVE  SenderLease'
    BY <1>0, <1>1, <1>t DEF SenderLease
  <1>2. CASE LiveDelivers \/ Expire \/ ReceiptArrives \/ Superseded \/ StatusMoves \/ LedgerTick \/ UNCHANGED ledgerVars
    <2>1. UNCHANGED <<lease, saw>> /\ \A p \in Passes : sender'[p] = sender[p]
      BY <1>0, <1>2, Zenon DEF LiveDelivers, Expire, ReceiptArrives, Superseded, StatusMoves, LedgerTick, ledgerVars
    <2> QED
      BY <1>1, <2>1, Zenon
  <1>3. ASSUME NEW b \in BOOLEAN, LiveFails(b) PROVE SenderLease'
    <2>1. UNCHANGED <<now, saw>> /\ (\A p \in Passes : sender'[p] = sender[p])
          /\ (lease' = lease \/ lease.holder = "live")
      BY <1>0, <1>3, Zenon DEF LiveFails
    <2> QED
      BY <1>0, <2>1, Zenon DEF SenderLease
  <1>4. ASSUME NEW p \in Passes, PassLeaves(p), UNCHANGED <<lease, saw>> PROVE SenderLease'
    BY <1>0, <1>1, <1>4, ZenonT(60) DEF PassLeaves
  <1>5. ASSUME NEW p \in Passes, PassDies(p) \/ RedriveCloses(p) \/ RedriveDefers(p) \/ RedriveRefuses(p)
                                 \/ PassDelivers(p) \/ PassIncompatible(p)
        PROVE  SenderLease'
    BY <1>4, <1>5, Zenon DEF PassDies, RedriveCloses, RedriveDefers, RedriveRefuses, PassDelivers, PassIncompatible, RefusedRow
  <1>6. ASSUME NEW p \in Passes, OpenPass(p) PROVE SenderLease'
    <2>1. UNCHANGED lease /\ (UNCHANGED <<sender, saw>> \/
             (sender' = [sender EXCEPT ![p] = "claimed"] /\ \E c : saw' = [saw EXCEPT ![p].count = c]))
      BY <1>6, ZenonT(60) DEF OpenPass
    <2> QED
      BY <1>0, <1>1, <2>1, Zenon
  \* Nobody sends inside a lease while it is free.
  <1>7. ASSUME LeaseFree, NEW p \in Passes, sender[p] = "sending" PROVE now >= saw[p].started + ActionLease
    BY <1>0, <1>7, LedgerAssumption DEF LeaseFree, SenderLease
  <1>8. ASSUME NEW p \in Passes, RedriveSends(p) PROVE SenderLease'
    <2>1. /\ LeaseFree /\ now' = now /\ lease' = [holder |-> p, until |-> now + ActionLease]
          /\ saw'[p].started = now /\ \A q \in Passes : q # p => saw'[q] = saw[q] /\ sender'[q] = sender[q]
      BY <1>0, <1>8, Zenon DEF RedriveSends, CanSend
    <2> SUFFICES ASSUME NEW q \in Passes, sender'[q] = "sending", now' < saw'[q].started + ActionLease
                 PROVE  lease'.holder = q /\ lease'.until = saw'[q].started + ActionLease
      BY Zenon DEF SenderLease
    <2>2. q = p
      BY <1>0, <1>7, <2>1
    <2> QED
      BY <2>1, <2>2, Zenon
  <1>9. ASSUME NEW p \in Passes, RedriveConflicts(p) PROVE SenderLease'
    <2>1. /\ LeaseFree /\ UNCHANGED <<now, saw>> /\ sender'[p] = "idle"
          /\ \A q \in Passes : q # p => sender'[q] = sender[q]
      BY <1>0, <1>9, Zenon DEF RedriveConflicts, CanSend, PassLeaves
    <2> QED
      BY <1>0, <1>7, <2>1 DEF SenderLease
  <1>10. ASSUME NEW p \in Passes, NEW b \in BOOLEAN, PassFails(p, b) PROVE SenderLease'
    <2>1. /\ UNCHANGED <<now, saw>> /\ sender'[p] = "idle" /\ (lease' = lease \/ lease.holder = p)
          /\ \A q \in Passes : q # p => sender'[q] = sender[q]
      BY <1>0, <1>10, Zenon DEF PassFails, PassLeaves
    <2> QED
      BY <1>0, <2>1, Zenon DEF SenderLease
  <1> QED
    BY <1>2, <1>3, <1>5, <1>6, <1>8, <1>9, <1>10, Zenon DEF LedgerNext, PassStep

LEMMA LedgerTypesStep ==
  ASSUME LedgerInv, [LedgerNext]_ledgerVars PROVE LedgerTypeOK'
  <1> USE LedgerAssumption DEF LedgerInv
  <1> DEFINE Leases == [holder : Senders \cup {"nobody"}, until : 0..(MaxClock + ActionLease)]
             Sightings == [count : Nat, started : 0..MaxClock]
             Rest == /\ now' \in 0..MaxClock /\ applied' \in {"no", "applied", "rejected"} /\ lease' \in Leases
                     /\ owned' \in BOOLEAN /\ moved' \in BOOLEAN
                     /\ sender' \in [Senders -> {"idle", "claimed", "sending"}]
                     /\ saw' \in [Passes -> Sightings]
                     /\ deliveries' \in 0..MaxDeliveries /\ passDeaths' \in 0..MaxPassDeaths
  <1>0. /\ now \in 0..MaxClock /\ applied \in {"no", "applied", "rejected"} /\ lease \in Leases
        /\ owned \in BOOLEAN /\ moved \in BOOLEAN
        /\ sender \in [Senders -> {"idle", "claimed", "sending"}] /\ saw \in [Passes -> Sightings]
        /\ deliveries \in 0..MaxDeliveries /\ passDeaths \in 0..MaxPassDeaths
        /\ Passes \subseteq Senders /\ "live" \in Senders /\ Free \in Leases
    BY DEF LedgerTypeOK, Senders, Free
  <1>1. HasRow' => Row' \in AttemptRows /\ attemptRow' = <<Row'>>
    BY RowStep, Zenon DEF RowKept, LedgerTypeOK, HasRow, Row
  <1>2. reopened' \in BOOLEAN
    BY ZenonT(60) DEF LedgerTypeOK, LedgerNext, PassStep, ledgerVars, LiveDelivers, LiveFails, Expire, ReceiptArrives, Superseded,
           StatusMoves, LedgerTick, OpenPass, PassDies, RedriveCloses, RedriveDefers, RedriveSends, RedriveConflicts,
           RedriveRefuses, PassDelivers, PassIncompatible, PassFails
  <1>3. ASSUME LiveDelivers \/ Expire \/ ReceiptArrives \/ Superseded \/ StatusMoves \/ LedgerTick \/ UNCHANGED ledgerVars
        PROVE  Rest
    <2>1. CASE LiveDelivers \/ LedgerTick \/ UNCHANGED ledgerVars
      BY <1>0, <2>1 DEF LiveDelivers, LedgerTick, ledgerVars
    <2>2. CASE Expire \/ ReceiptArrives \/ Superseded \/ StatusMoves
      <3>1. owned' \in BOOLEAN /\ moved' \in BOOLEAN
        BY <1>0, <2>2, Zenon DEF Expire, ReceiptArrives, Superseded, StatusMoves
      <3>2. UNCHANGED <<now, lease, sender, saw, deliveries, passDeaths>> /\ applied' \in {applied, "applied", "rejected"}
        BY <2>2, Zenon DEF Expire, ReceiptArrives, Superseded, StatusMoves
      <3> QED
        BY <1>0, <3>1, <3>2, Zenon
    <2> QED
      BY <1>3, <2>1, <2>2, Zenon
  <1>4. ASSUME NEW b \in BOOLEAN, LiveFails(b) PROVE Rest
    BY <1>0, <1>4 DEF LiveFails
  <1>5. ASSUME NEW p \in Passes, PassDies(p) \/ RedriveCloses(p) \/ RedriveDefers(p) \/ PassDelivers(p) PROVE Rest
    BY <1>0, <1>5 DEF PassDies, RedriveCloses, RedriveDefers, PassDelivers, PassLeaves
  <1>6. ASSUME NEW p \in Passes, RedriveRefuses(p) \/ PassIncompatible(p) PROVE Rest
    BY <1>0, <1>6, Zenon DEF RedriveRefuses, PassIncompatible, RefusedRow, PassLeaves
  <1>7. ASSUME NEW p \in Passes, NEW b \in BOOLEAN, PassFails(p, b) PROVE Rest
    <2>1. deliveries' \in 0..MaxDeliveries
      BY <1>0, <1>7, LedgerAssumption DEF PassFails
    <2> QED
      BY <1>0, <1>7, <2>1, Zenon DEF PassFails, PassLeaves
  <1>8. ASSUME NEW p \in Passes, RedriveSends(p) \/ RedriveConflicts(p) PROVE Rest
    <2>1. [holder |-> p, until |-> now + ActionLease] \in Leases
      BY <1>0 DEF Senders
    <2> QED
      BY <1>0, <1>8, <2>1 DEF RedriveSends, RedriveConflicts, PassLeaves
  <1>9. ASSUME NEW p \in Passes, OpenPass(p) PROVE Rest
    <2>1. ASSUME Seeded # <<>> PROVE Seeded[1].count \in Nat
      <3>1. ASSUME NEW next PROVE <<NewRow(next)>>[1].count = 1
        BY Zenon DEF NewRow
      <3>2. HasRow => attemptRow[1].count \in Nat
        BY RowShape, Zenon DEF AttemptRows, Row
      <3> QED
        BY <2>1, <3>1, <3>2 DEF Seeded, HasRow
    <2> QED
      BY <1>0, <1>9, <2>1, ZenonT(60) DEF OpenPass
  <1>10. Rest
    BY <1>3, <1>4, <1>5, <1>6, <1>7, <1>8, <1>9 DEF LedgerNext, PassStep, LedgerTypeOK
  <1> QED
    BY <1>1, <1>2, <1>10, Zenon DEF LedgerTypeOK

LEMMA LedgerStep == LedgerInv /\ [LedgerNext]_ledgerVars => LedgerInv'
  <1> SUFFICES ASSUME LedgerInv, [LedgerNext]_ledgerVars PROVE LedgerInv'
    OBVIOUS
  <1>1. LedgerForward /\ RowKept /\ LedgerTypeOK' /\ SenderLease'
    BY ForwardStep, RowStep, LedgerTypesStep, LeaseStep, Zenon
  <1>2. PassHasRow'
    <2>1. HasRow => HasRow'
      BY <1>1, Zenon DEF RowKept, HasRow
    <2>2. ASSUME NEW p \in Passes, sender[p] = "idle", sender'[p] # "idle" PROVE HasRow'
      <3>1. sender \in [Senders -> {"idle", "claimed", "sending"}] /\ p \in Senders /\ p # "live"
        BY LedgerAssumption, Zenon DEF LedgerInv, LedgerTypeOK, Senders
      <3>2. CASE \E q \in Passes : OpenPass(q)
        BY <2>2, <3>1, <3>2 DEF OpenPass, HasRow, Claimed
      <3>3. CASE ~\E q \in Passes : OpenPass(q)
        BY <2>2, <3>1, <3>3, Zenon
           DEF LedgerNext, PassStep, ledgerVars, LiveDelivers, LiveFails, Expire, ReceiptArrives, Superseded,
               StatusMoves, LedgerTick, PassDies, RedriveCloses, RedriveDefers, RedriveSends, RedriveConflicts, CanSend,
               RedriveRefuses, RefusedRow, PassDelivers, PassIncompatible, PassFails, PassLeaves
      <3> QED
        BY <3>2, <3>3, Zenon
    <2> QED
      BY <2>1, <2>2, Zenon DEF LedgerInv, PassHasRow
  <1>3. ClosedIsLost'
    <2>1. now \in Nat /\ now' \in Nat /\ ActionDeadline \in Nat
      BY <1>1, LedgerAssumption DEF LedgerInv, LedgerTypeOK
    <2>2. Pending' => Pending
      BY <1>1, Zenon DEF LedgerForward, Pending
    <2> SUFFICES ASSUME HasRow', Row'.settled, Pending', now' < ActionDeadline PROVE moved' /\ lease'.holder # "live"
      BY Zenon DEF ClosedIsLost
    <2>3. CASE HasRow /\ Row.settled
      BY <1>1, <2>1, <2>2, <2>3 DEF LedgerInv, ClosedIsLost, LedgerForward
    <2>4. CASE ~(HasRow /\ Row.settled)
      BY <1>1, <2>1, <2>4 DEF RowKept, HasRow, Row
    <2> QED
      BY <2>3, <2>4, Zenon
  <1>4. NeverReopened'
    <2>1. ASSUME NEW b \in BOOLEAN, LiveFails(b) PROVE NeverReopened'
      BY <2>1, LedgerAssumption, Zenon DEF LiveFails, MayFile, LedgerInv, ClosedIsLost, NeverReopened, LedgerTypeOK
    <2>2. CASE ~\E b \in BOOLEAN : LiveFails(b)
      BY <2>2, Zenon DEF LedgerInv, NeverReopened, LedgerNext, PassStep, ledgerVars, LiveDelivers, Expire, ReceiptArrives,
             Superseded, StatusMoves, LedgerTick, OpenPass, PassDies, RedriveCloses, RedriveDefers, RedriveSends,
             RedriveConflicts, RedriveRefuses, PassDelivers, PassIncompatible, PassFails
    <2> QED
      BY <2>1, <2>2, Zenon
  <1> QED
    BY <1>1, <1>2, <1>3, <1>4, Zenon DEF LedgerInv

LEMMA LedgerInitial == LedgerInit => LedgerInv
  <1> SUFFICES ASSUME LedgerInit PROVE LedgerInv
    OBVIOUS
  <1>1. \A p \in Passes : sender[p] = "idle"
    BY LedgerAssumption, Zenon DEF LedgerInit, Senders
  <1>2. LedgerTypeOK
    <2>1. now \in 0..MaxClock /\ deliveries \in 0..MaxDeliveries /\ passDeaths \in 0..MaxPassDeaths
      BY LedgerAssumption DEF LedgerInit
    <2>2. lease \in [holder : Senders \cup {"nobody"}, until : 0..(MaxClock + ActionLease)]
      BY LedgerAssumption DEF LedgerInit, Senders
    <2>3. saw \in [Passes -> [count : Nat, started : 0..MaxClock]]
      BY LedgerAssumption DEF LedgerInit
    <2>4. sender \in [Senders -> {"idle", "claimed", "sending"}]
      BY Zenon DEF LedgerInit
    <2> QED
      BY <2>1, <2>2, <2>3, <2>4, Zenon DEF LedgerInit, LedgerTypeOK, HasRow
  <1> QED
    BY <1>1, <1>2, Zenon DEF LedgerInit, LedgerInv, PassHasRow, ClosedIsLost, SenderLease, NeverReopened, HasRow

\* For any number of passes, deliveries and deaths, and any deadlines and leases:
\* a record is closed for a cause, no late failure is filed on a closed one, and
\* whoever sends inside the lease it took still holds it
\* (settle_recovery_action, record_dispatch_failure, _redrive_one_claim).
THEOREM LedgerTheorem == LedgerSpec => [](SettledForCause /\ NeverReopened /\ OneSenderPerLease)
  <1>1. LedgerInv => SettledForCause /\ NeverReopened /\ OneSenderPerLease
    <2> SUFFICES ASSUME LedgerInv PROVE SettledForCause /\ NeverReopened /\ OneSenderPerLease
      OBVIOUS
    <2>1. now \in Nat /\ ActionDeadline \in Nat
      BY LedgerAssumption DEF LedgerInv, LedgerTypeOK
    <2> QED
      BY <2>1 DEF LedgerInv, ClosedIsLost, SenderLease, SettledForCause, OneSenderPerLease, HasRow, Row, Pending
  <1> QED
    BY <1>1, LedgerInitial, LedgerStep, PTL DEF LedgerSpec

\* A verdict on an action stands, and a pass that lost its claim on the record
\* leaves without writing to it (_update_claimed).
THEOREM LedgerStepsTheorem == LedgerSpec => [][VerdictStands /\ ClaimIsExclusive]_ledgerVars
  <1>1. LedgerInv /\ [LedgerNext]_ledgerVars => [VerdictStands /\ ClaimIsExclusive]_ledgerVars
    <2> SUFFICES ASSUME LedgerInv, [LedgerNext]_ledgerVars PROVE VerdictStands /\ ClaimIsExclusive
      OBVIOUS
    <2>1. VerdictStands
      BY ForwardStep, Zenon DEF LedgerForward, VerdictStands
    <2>2. ASSUME NEW p \in Passes, attemptRow # <<>>, attemptRow[1].holder # p, sender[p] # "idle", sender'[p] = "idle"
          PROVE  attemptRow' = attemptRow
      <3>1. sender \in [Senders -> {"idle", "claimed", "sending"}] /\ p \in Senders /\ p # "live"
        BY LedgerAssumption, Zenon DEF LedgerInv, LedgerTypeOK, Senders
      <3>2. \A r : Updated(p, r) = attemptRow
        BY <2>2, ZenonT(60) DEF Updated, Row
      <3>3. PassStep(p) \/ PassDies(p)
        BY <2>2, <3>1
           DEF LedgerNext, PassStep, ledgerVars, LiveDelivers, LiveFails, Expire, ReceiptArrives, Superseded, OpenPass,
               StatusMoves, LedgerTick, PassDies, RedriveCloses, RedriveDefers, RedriveSends, RedriveConflicts, CanSend,
               RedriveRefuses, RefusedRow, PassDelivers, PassIncompatible, PassFails, PassLeaves
      <3>4. CASE PassDies(p) \/ RedriveSends(p)
        BY <3>4, Zenon DEF PassDies, RedriveSends
      <3> QED
        BY <3>2, <3>3, <3>4
           DEF PassStep, RedriveCloses, RedriveDefers, RedriveConflicts, RedriveRefuses, RefusedRow, PassDelivers,
               PassIncompatible, PassFails, ReleasedRow, Rescheduled, SettledAction
    <2> QED
      BY <2>1, <2>2, Zenon DEF ClaimIsExclusive
  <1> QED
    BY <1>1, LedgerInitial, LedgerStep, PTL DEF LedgerSpec

-----------------------------------------------------------------------------
(* CommitSingleFlight: any number of callers, identities and entries.       *)

Types ==
    /\ entries \in [Identities -> 0..MaxEntries]
    /\ made \in 0..MaxEntries
    /\ users \in [Entries -> Nat]
    /\ holding \in [Callers -> Call]

\* Who holds or waits for the lock of an entry.
UsersOf(e) == {c \in Callers : holding[c] # Idle /\ holding[c].entry = e}

\* The users field counts them.
Counted == \A e \in Entries : users[e] = Cardinality(UsersOf(e))

\* Everyone uses the entry the dict has for their identity.
InTable == \A c \in Callers : holding[c] # Idle => entries[holding[c].identity] = holding[c].entry

\* No two identities have one entry, and no entry is in the dict before it is made.
OneIdentityEach ==
    /\ \A i \in Identities : entries[i] <= made
    /\ \A i, j \in Identities : entries[i] = entries[j] /\ entries[i] # 0 => i = j

\* A lock is held once.
HeldOnce ==
    \A c, d \in Callers :
        holding[c].pc = "inside" /\ holding[d].pc = "inside" /\ holding[c].entry = holding[d].entry
        => c = d

FlightInv ==
    Types /\ Counted /\ InTable /\ OneIdentityEach /\ HeldOnce /\ SelfCleaning

\* What the cardinalities of finite sets of callers say about one caller more
\* or less.
LEMMA UsersFinite ==
    ASSUME NEW S, S \subseteq Callers
    PROVE  /\ IsFiniteSet(S)
           /\ Cardinality(S) \in Nat
           /\ \A c \in S : /\ Cardinality(S \ {c}) = Cardinality(S) - 1
                           /\ Cardinality(S) = 1 => S = {c}
           /\ \A c : c \notin S => Cardinality(S \cup {c}) = Cardinality(S) + 1
<1>1. IsFiniteSet(S)
  BY FS_Subset, SingleFlightAssumption, Zenon
<1>2. Cardinality(S) \in Nat
  BY <1>1, FS_CardinalityType, Zenon
<1>3. ASSUME NEW c \in S
      PROVE  /\ Cardinality(S \ {c}) = Cardinality(S) - 1
             /\ Cardinality(S) = 1 => S = {c}
  <2>1. IsFiniteSet(S \ {c}) /\ Cardinality(S \ {c}) = Cardinality(S) - 1
    BY <1>1, FS_RemoveElement, Zenon
  <2>2. ASSUME Cardinality(S) = 1 PROVE S = {c}
    <3>1. S \ {c} = {}
      BY <2>1, <2>2, FS_EmptySet
    <3> QED BY <3>1, Zenon
  <2> QED BY <2>1, <2>2, Zenon
<1>4. ASSUME NEW c, c \notin S PROVE Cardinality(S \cup {c}) = Cardinality(S) + 1
  BY <1>1, <1>4, FS_AddElement, Zenon
<1> QED BY <1>1, <1>2, <1>3, <1>4, Zenon

\* The dict is empty and nobody calls.
LEMMA FlightInitial == FlightInit => FlightInv
<1> SUFFICES ASSUME FlightInit PROVE FlightInv
  OBVIOUS
<1>1. Types
  BY SingleFlightAssumption DEF FlightInit, Types, Call, Entries
<1>2. Counted
  <2> SUFFICES ASSUME NEW e \in Entries PROVE users[e] = Cardinality(UsersOf(e))
    BY Zenon DEF Counted
  <2>1. UsersOf(e) = {}
    BY Zenon DEF UsersOf, FlightInit
  <2> QED BY <2>1, FS_EmptySet, Zenon DEF FlightInit
<1>3. InTable /\ OneIdentityEach /\ HeldOnce /\ SelfCleaning
  BY DEF FlightInit, InTable, OneIdentityEach, HeldOnce, SelfCleaning, Idle
<1> QED BY <1>1, <1>2, <1>3, Zenon DEF FlightInv

\* A caller joins the entry of its identity, or the first one makes it.
LEMMA HoldKeeps ==
    ASSUME FlightInv, NEW c \in Callers, NEW i \in Identities, Hold(c, i)
    PROVE  FlightInv'
<1> DEFINE e == IF entries[i] = 0 THEN made + 1 ELSE entries[i]
           new == [pc |-> "waiting", identity |-> i, entry |-> e]
<1>1. Types /\ e \in Entries
  BY SingleFlightAssumption DEF FlightInv, Types, Hold, Entries
<1>2. /\ holding[c] = Idle
      /\ made' = IF entries[i] = 0 THEN made + 1 ELSE made
      /\ entries' = [entries EXCEPT ![i] = e]
      /\ users' = [users EXCEPT ![e] = @ + 1]
      /\ holding' = [holding EXCEPT ![c] = new]
  BY Zenon DEF Hold
<1>3. new \in Call /\ new # Idle
  BY <1>1, Zenon DEF Call, Idle
<1> HIDE DEF new
<1>4. Types'
  <2>1. made' \in 0..MaxEntries /\ entries' \in [Identities -> 0..MaxEntries]
    BY <1>1, <1>2, SingleFlightAssumption DEF Types, Entries
  <2>2. users' \in [Entries -> Nat] /\ holding' \in [Callers -> Call]
    BY <1>1, <1>2, <1>3 DEF Types
  <2> QED BY <2>1, <2>2, Zenon DEF Types
<1>n. new.entry = e /\ new.identity = i /\ new.pc = "waiting"
  BY Zenon DEF new
<1>5. ASSUME NEW d \in Callers
      PROVE  holding'[d] = IF d = c THEN new ELSE holding[d]
  BY <1>1, <1>2, Zenon DEF Types
<1>6. ASSUME NEW d \in Callers, holding[d] # Idle
      PROVE  holding[d].identity \in Identities /\ holding[d].entry \in Entries
             /\ entries[holding[d].identity] = holding[d].entry /\ holding[d].entry <= made
  <2>1. holding[d] \in Call
    BY <1>1, Zenon DEF Types
  <2>2. holding[d].identity \in Identities /\ holding[d].entry \in Entries
    BY <2>1, <1>6, Zenon DEF Call
  <2> QED BY <2>2, <1>6, Zenon DEF FlightInv, InTable, OneIdentityEach
<1>7. Counted'
  <2> SUFFICES ASSUME NEW f \in Entries PROVE users'[f] = Cardinality(UsersOf(f)')
    BY Zenon DEF Counted
  <2>1. users[f] = Cardinality(UsersOf(f))
    BY Zenon DEF FlightInv, Counted
  <2>2. UsersOf(f) \subseteq Callers /\ c \notin UsersOf(f)
    BY <1>2, Zenon DEF UsersOf
  <2>3. CASE f = e
    <3>1. UsersOf(f)' = UsersOf(f) \cup {c}
      BY <1>5, <1>3, <1>2, <1>n, <2>3, Zenon DEF UsersOf
    <3> QED BY <3>1, <2>1, <2>2, <2>3, <1>1, <1>2, UsersFinite DEF Types
  <2>4. CASE f # e
    <3>1. UsersOf(f)' = UsersOf(f)
      BY <1>5, <1>3, <1>2, <1>n, <2>4, Zenon DEF UsersOf
    <3> QED BY <3>1, <2>1, <2>4, <1>1, <1>2, Zenon DEF Types
  <2> QED BY <2>3, <2>4, Zenon
<1>8. InTable'
  <2> SUFFICES ASSUME NEW d \in Callers, holding'[d] # Idle
               PROVE  entries'[holding'[d].identity] = holding'[d].entry
    BY Zenon DEF InTable
  <2>1. CASE d = c
    BY <2>1, <1>5, <1>n, <1>1, <1>2, Zenon DEF Types
  <2>2. CASE d # c
    <3>1. holding'[d] = holding[d] /\ holding[d] # Idle
      BY <2>2, <1>5, Zenon
    <3>2. holding[d].identity = i => e = holding[d].entry
      BY <3>1, <1>6 DEF Entries
    <3> QED BY <3>1, <3>2, <1>6, <1>1, <1>2, Zenon DEF Types
  <2> QED BY <2>1, <2>2, Zenon
<1>9. OneIdentityEach'
  <2>1. \A j \in Identities : entries'[j] = IF j = i THEN e ELSE entries[j]
    BY <1>1, <1>2, Zenon DEF Types
  <2>2. \A j \in Identities : entries[j] <= made /\ entries[j] \in 0..MaxEntries
    BY <1>1, Zenon DEF FlightInv, OneIdentityEach, Types
  <2>3. \A j, k \in Identities : entries[j] = entries[k] /\ entries[j] # 0 => j = k
    BY Zenon DEF FlightInv, OneIdentityEach
  <2>4. made \in Nat
    BY <1>1 DEF Types
  <2>5. CASE entries[i] = 0
    BY <2>1, <2>2, <2>3, <2>4, <2>5, <1>2 DEF OneIdentityEach
  <2>6. CASE entries[i] # 0
    BY <2>1, <2>2, <2>3, <2>4, <2>6, <1>2 DEF OneIdentityEach
  <2> QED BY <2>5, <2>6, Zenon
<1>10. HeldOnce'
  BY <1>5, <1>n DEF FlightInv, HeldOnce
<1>11. SelfCleaning'
  <2> SUFFICES ASSUME NEW j \in Identities
               PROVE  entries'[j] # 0 <=>
                        \E d \in Callers : holding'[d] # Idle /\ holding'[d].identity = j
    BY Zenon DEF SelfCleaning
  <2>1. entries[j] # 0 <=> \E d \in Callers : holding[d] # Idle /\ holding[d].identity = j
    BY Zenon DEF FlightInv, SelfCleaning
  <2>2. CASE j = i
    BY <2>2, <1>1, <1>2, <1>3, <1>5, <1>n DEF Types, Entries
  <2>3. CASE j # i
    BY <2>1, <2>3, <1>1, <1>2, <1>5, <1>n, Zenon DEF Types
  <2> QED BY <2>2, <2>3, Zenon
<1> QED BY <1>4, <1>7, <1>8, <1>9, <1>10, <1>11, Zenon DEF FlightInv

\* The lock goes to a caller only when it is free.
LEMMA AcquireKeeps ==
    ASSUME FlightInv, NEW c \in Callers, Acquire(c)
    PROVE  FlightInv'
<1>1. /\ holding[c].pc = "waiting" /\ holding[c] \in Call /\ ~Locked(holding[c].entry)
      /\ holding' = [holding EXCEPT ![c].pc = "inside"]
      /\ UNCHANGED <<entries, made, users>>
  BY Zenon DEF FlightInv, Types, Acquire
<1>2. /\ holding[c] # Idle
      /\ [holding[c] EXCEPT !.pc = "inside"] \in Call \ {Idle}
  BY <1>1 DEF Call, Idle
<1>3. ASSUME NEW d \in Callers
      PROVE  /\ holding'[d] # Idle <=> holding[d] # Idle
             /\ holding'[d].identity = holding[d].identity
             /\ holding'[d].entry = holding[d].entry
             /\ holding'[d].pc = IF d = c THEN "inside" ELSE holding[d].pc
  <2>1. holding'[d] = IF d = c THEN [holding[c] EXCEPT !.pc = "inside"] ELSE holding[d]
    BY <1>1, Zenon DEF FlightInv, Types
  <2>2. CASE d = c
    BY <2>1, <2>2, <1>1, <1>2 DEF Call, Idle
  <2>3. CASE d # c
    BY <2>1, <2>3, Zenon
  <2> QED BY <2>2, <2>3, Zenon
<1>4. Types'
  BY <1>1, <1>2, Zenon DEF FlightInv, Types
<1>5. Counted'
  <2>1. \A e \in Entries : UsersOf(e)' = UsersOf(e)
    BY <1>3, Zenon DEF UsersOf
  <2> QED BY <2>1, <1>1, Zenon DEF FlightInv, Counted
<1>6. InTable' /\ OneIdentityEach'
  BY <1>1, <1>3, Zenon DEF FlightInv, InTable, OneIdentityEach
<1>7. HeldOnce'
  BY <1>1, <1>3 DEF FlightInv, HeldOnce, Locked
<1>8. SelfCleaning'
  BY <1>1, <1>3 DEF FlightInv, SelfCleaning
<1> QED BY <1>4, <1>5, <1>6, <1>7, <1>8, Zenon DEF FlightInv

\* A caller leaves its entry, and the last one drops it.
LEMMA ForgetKeeps ==
    ASSUME FlightInv, NEW c \in Callers, holding[c].pc # "idle", Forget(c), UNCHANGED made
    PROVE  FlightInv'
<1> DEFINE e == holding[c].entry
           i == holding[c].identity
<1>1. Types /\ holding[c] # Idle /\ e \in Entries /\ i \in Identities
  <2>1. holding[c] \in Call /\ holding[c] # Idle
    BY DEF FlightInv, Types, Idle
  <2> QED BY <2>1, Zenon DEF FlightInv, Call
<1>2. /\ users' = [users EXCEPT ![e] = @ - 1]
      /\ entries' = IF users[e] = 1 THEN [entries EXCEPT ![i] = 0] ELSE entries
      /\ holding' = [holding EXCEPT ![c] = Idle]
      /\ made' = made
  BY Zenon DEF Forget
<1>3. ASSUME NEW d \in Callers
      PROVE  holding'[d] = IF d = c THEN Idle ELSE holding[d]
  BY <1>1, <1>2, Zenon DEF Types
<1>4. entries[i] = e
  BY <1>1, Zenon DEF FlightInv, InTable
<1>5. c \in UsersOf(e) /\ UsersOf(e) \subseteq Callers /\ users[e] = Cardinality(UsersOf(e))
  BY <1>1, Zenon DEF UsersOf, FlightInv, Counted
<1>6. users[e] \in Nat /\ users[e] - 1 = Cardinality(UsersOf(e) \ {c})
      /\ users[e] - 1 \in Nat /\ (users[e] = 1 => UsersOf(e) = {c})
  <2>1. UsersOf(e) \ {c} \subseteq Callers
    BY <1>5, Zenon
  <2>2. Cardinality(UsersOf(e) \ {c}) \in Nat
    BY <2>1, UsersFinite, Zenon
  <2> QED BY <1>5, <2>2, UsersFinite, Zenon
<1>7. users[e] # 1 => \E d \in Callers : d # c /\ holding[d] # Idle /\ holding[d].entry = e
  <2> SUFFICES ASSUME users[e] # 1, UsersOf(e) \subseteq {c} PROVE FALSE
    BY <1>5, Zenon DEF UsersOf
  <2>1. UsersOf(e) \ {c} = {}
    OBVIOUS
  <2>2. Cardinality({}) = 0
    BY FS_EmptySet, Zenon
  <2>3. Cardinality(UsersOf(e) \ {c}) = 0
    BY <2>1, <2>2, Zenon
  <2> QED BY <2>3, <1>6
<1>8. Types'
  <2>1. users' \in [Entries -> Nat]
    BY <1>1, <1>2, <1>6, Zenon DEF Types
  <2>2. entries' \in [Identities -> 0..MaxEntries]
    BY <1>1, <1>2, SingleFlightAssumption DEF Types
  <2>3. holding' \in [Callers -> Call]
    BY <1>1, <1>2, Zenon DEF Types, Call
  <2> QED BY <1>1, <1>2, <2>1, <2>2, <2>3, Zenon DEF Types
<1>9. Counted'
  <2> SUFFICES ASSUME NEW f \in Entries PROVE users'[f] = Cardinality(UsersOf(f)')
    BY Zenon DEF Counted
  <2>1. CASE f = e
    <3>1. UsersOf(f)' = UsersOf(e) \ {c}
      BY <1>3, <2>1, Zenon DEF UsersOf
    <3> QED BY <3>1, <2>1, <1>1, <1>2, <1>6, Zenon DEF Types
  <2>2. CASE f # e
    <3>1. UsersOf(f)' = UsersOf(f)
      BY <1>3, <2>2, Zenon DEF UsersOf
    <3> QED BY <3>1, <2>2, <1>1, <1>2, Zenon DEF Types, FlightInv, Counted
  <2> QED BY <2>1, <2>2, Zenon
<1>10. ASSUME NEW d \in Callers, d # c, holding[d] # Idle
       PROVE  /\ holding[d].identity \in Identities
              /\ entries[holding[d].identity] = holding[d].entry
              /\ holding[d].entry # 0
              /\ holding[d].identity = i => users[e] # 1
  <2>1. holding[d] \in Call
    BY <1>1, Zenon DEF Types
  <2>2. holding[d].identity \in Identities /\ holding[d].entry \in Entries
    BY <2>1, <1>10, Zenon DEF Call
  <2>3. entries[holding[d].identity] = holding[d].entry
    BY <1>10, Zenon DEF FlightInv, InTable
  <2>4. holding[d].identity = i => d \in UsersOf(e)
    BY <2>3, <1>4, <1>10, Zenon DEF UsersOf
  <2> QED BY <2>2, <2>3, <2>4, <1>6, <1>10 DEF Entries
<1>11. \A j \in Identities : entries'[j] = IF users[e] = 1 /\ j = i THEN 0 ELSE entries[j]
  BY <1>1, <1>2, ZenonT(60) DEF Types
<1>12. InTable'
  BY <1>3, <1>10, <1>11 DEF InTable
<1>13. OneIdentityEach'
  <2>1. made \in Nat
    BY <1>1 DEF Types
  <2> QED BY <1>2, <1>11, <2>1 DEF FlightInv, OneIdentityEach
<1>14. HeldOnce'
  BY <1>3 DEF FlightInv, HeldOnce, Idle
<1>15. SelfCleaning'
  <2> SUFFICES ASSUME NEW j \in Identities
               PROVE  entries'[j] # 0 <=>
                        \E d \in Callers : holding'[d] # Idle /\ holding'[d].identity = j
    BY Zenon DEF SelfCleaning
  <2>1. entries[j] # 0 <=> \E d \in Callers : holding[d] # Idle /\ holding[d].identity = j
    BY Zenon DEF FlightInv, SelfCleaning
  <2>2. CASE j # i
    BY <2>1, <2>2, <1>3, <1>11, Zenon
  <2>3. CASE j = i /\ users[e] = 1
    BY <2>3, <1>3, <1>10, <1>11, Zenon
  <2>4. CASE j = i /\ users[e] # 1
    <3>1. PICK d \in Callers : d # c /\ holding[d] # Idle /\ holding[d].entry = e
      BY <2>4, <1>7, Zenon
    <3>2. holding[d].identity = i
      BY <3>1, <1>10, <1>1, <1>4, Zenon DEF FlightInv, OneIdentityEach
    <3>3. entries'[j] = e /\ e # 0
      BY <2>4, <1>11, <1>4, <1>1 DEF Entries
    <3> QED BY <3>1, <3>2, <3>3, <2>4, <1>3, Zenon
  <2> QED BY <2>2, <2>3, <2>4, Zenon
<1> QED BY <1>8, <1>9, <1>12, <1>13, <1>14, <1>15, Zenon DEF FlightInv

\* FlightInv is inductive.
LEMMA FlightStep == FlightInv /\ [FlightNext]_flightVars => FlightInv'
<1> SUFFICES ASSUME FlightInv, [FlightNext]_flightVars PROVE FlightInv'
  OBVIOUS
<1>1. ASSUME NEW c \in Callers, NEW i \in Identities, Hold(c, i) PROVE FlightInv'
  BY <1>1, HoldKeeps, Zenon
<1>2. ASSUME NEW c \in Callers, Acquire(c) PROVE FlightInv'
  BY <1>2, AcquireKeeps, Zenon
<1>3. ASSUME NEW c \in Callers, Leave(c) \/ Cancel(c) PROVE FlightInv'
  <2>1. holding[c].pc # "idle" /\ Forget(c) /\ UNCHANGED made
    BY <1>3, Zenon DEF Leave, Cancel
  <2> QED BY <2>1, ForgetKeeps, Zenon
<1>4. CASE UNCHANGED flightVars
  BY <1>4 DEF FlightInv, Types, Counted, UsersOf, InTable, OneIdentityEach, HeldOnce,
              SelfCleaning, flightVars
<1> QED BY <1>1, <1>2, <1>3, <1>4, Zenon DEF FlightNext

\* FlightInv holds in every state of _CommitSingleFlight.
THEOREM FlightInvariant == FlightSpec => []FlightInv
  BY FlightInitial, FlightStep, PTL DEF FlightSpec

\* Two callers are never inside the stripe of one identity: hold excludes even
\* though the lock object of the identity comes and goes.
THEOREM MutualExclusionTheorem == FlightSpec => []MutualExclusion
<1>1. FlightInv => MutualExclusion
  <2> SUFFICES ASSUME FlightInv, NEW c \in Callers, NEW d \in Callers,
                      holding[c].pc = "inside", holding[d].pc = "inside",
                      holding[c].identity = holding[d].identity
               PROVE  c = d
    BY ZenonT(60) DEF MutualExclusion
  <2>1. holding[c] # Idle /\ holding[d] # Idle
    BY DEF Idle
  <2>2. holding[c].entry = holding[d].entry
    BY <2>1, Zenon DEF FlightInv, InTable
  <2> QED BY <2>2, Zenon DEF FlightInv, HeldOnce
<1> QED BY <1>1, FlightInvariant, PTL

\* The dict of hold has exactly the identities in use: it never leaks an entry
\* and never drops one that somebody holds or waits for.
THEOREM SelfCleaningTheorem == FlightSpec => []SelfCleaning
<1>1. FlightInv => SelfCleaning
  BY Zenon DEF FlightInv
<1> QED BY <1>1, FlightInvariant, PTL

-----------------------------------------------------------------------------
(* CircuitBreaker: any number of calls, any threshold and recovery window.   *)

\* The inductive invariant: every part of it is a property of its own.
BreakerInv == TypeOK /\ ProbeIsOwned /\ UnprovenKeepsItsFailures

LEMMA BreakerBounds ==
    /\ 0 \in 0..FailureThreshold /\ FailureThreshold \in 0..FailureThreshold
    /\ 0 \in 0..RecoveryTimeout
  BY BreakerAssumption

LEMMA BreakerInit == Init => BreakerInv
  BY BreakerBounds, Zenon DEF Init, BreakerInv, TypeOK, ProbeIsOwned,
     UnprovenKeepsItsFailures, Holdings

LEMMA BreakerStep == BreakerInv /\ [Next]_vars => BreakerInv'
  <1> SUFFICES ASSUME BreakerInv, [Next]_vars PROVE BreakerInv'
    OBVIOUS
  <1> USE BreakerAssumption DEF BreakerInv, TypeOK, ProbeIsOwned,
          UnprovenKeepsItsFailures, Holdings, InFlight, State
  <1>1. ASSUME NEW c \in Calls, Admit(c) PROVE BreakerInv'
    BY <1>1, Zenon DEF Admit
  <1>2. ASSUME NEW c \in Calls, SendCancel(c) PROVE BreakerInv'
    BY <1>2, Zenon DEF SendCancel
  <1>3. ASSUME NEW c \in Calls, Succeed(c) PROVE BreakerInv'
    BY <1>3, BreakerBounds, Zenon DEF Succeed, record_success, Close
  <1>4. ASSUME NEW c \in Calls, Refuse(c) PROVE BreakerInv'
    BY <1>4, BreakerBounds, Zenon DEF Refuse, record_refusal, Close
  <1>5. ASSUME NEW c \in Calls, Fail(c) PROVE BreakerInv'
    BY <1>5 DEF Fail, record_failure
  <1>6. ASSUME NEW c \in Calls, Abandon(c) PROVE BreakerInv'
    BY <1>6, Zenon DEF Abandon, release_probe
  <1>7. CASE ReadShutOut
    BY <1>7, Zenon DEF ReadShutOut
  <1>8. CASE force_open
    BY <1>8, BreakerBounds, Zenon DEF force_open
  <1>9. CASE Tick
    BY <1>9 DEF Tick
  <1>10. CASE UNCHANGED vars
    BY <1>10, Zenon DEF vars
  <1>11. CASE WorkerRestarted
    BY <1>11, BreakerBounds, Zenon DEF WorkerRestarted, record_success, Close
  <1>12. CASE RestartFails
    BY <1>12, Zenon DEF RestartFails
  <1> QED
    BY <1>1, <1>2, <1>3, <1>4, <1>5, <1>6, <1>7, <1>8, <1>9, <1>10, <1>11, <1>12, ZenonT(60)
       DEF Next, Settle

\* The breaker's invariant holds for every set of calls, threshold and window.
THEOREM BreakerInvariant == Spec => []BreakerInv
  BY BreakerInit, BreakerStep, PTL DEF Spec

\* A probe the half-open circuit waits for is held by a call whose POST is still
\* pending (release_probe, pre_dispatch).
THEOREM ProbeIsOwnedTheorem == Spec => []ProbeIsOwned
  BY BreakerInvariant, PTL DEF BreakerInv

\* A circuit that opened keeps its full count of failures until it closes, so
\* the first failure after the window reopens it (force_open, record_failure).
THEOREM UnprovenKeepsItsFailuresTheorem == Spec => []UnprovenKeepsItsFailures
  BY BreakerInvariant, PTL DEF BreakerInv

\* A half-open window keeps the reservation of its probe until that call's POST ends or
\* the window does (pre_dispatch, release_probe, record_failure).
THEOREM OneProbePerWindowTheorem == Spec => OneProbePerWindow
  <1>1. BreakerInv /\ [Next]_vars =>
          [\A c \in Calls :
             /\ circuit = "half_open" /\ circuit' = "half_open"
             /\ probeOwner = c /\ call'[c] = "probe"
             => probeOwner' = c]_vars
    <2> SUFFICES ASSUME BreakerInv, Next, NEW c \in Calls,
                        circuit = "half_open", circuit' = "half_open",
                        probeOwner = c, call'[c] = "probe"
                 PROVE  probeOwner' = c
      OBVIOUS
    <2>1. c # NoCall
      BY BreakerAssumption, Zenon
    <2>2. failures = FailureThreshold
      BY Zenon DEF BreakerInv, UnprovenKeepsItsFailures
    <2>3. ASSUME NEW d \in Calls, Admit(d) \/ SendCancel(d) PROVE probeOwner' = c
      BY <2>1, <2>3, Zenon DEF Admit, SendCancel, State
    <2>4. ASSUME NEW d \in Calls, Succeed(d) \/ Refuse(d) PROVE probeOwner' = c
      BY <2>4, Zenon DEF Succeed, Refuse, record_success, record_refusal, Close
    <2>5. ASSUME NEW d \in Calls, Fail(d) PROVE probeOwner' = c
      BY <2>2, <2>5, BreakerAssumption DEF Fail, record_failure
    <2>6. ASSUME NEW d \in Calls, Abandon(d) PROVE probeOwner' = c
      BY <2>6 DEF Abandon, release_probe, InFlight, BreakerInv, TypeOK
    <2>7. CASE ReadShutOut \/ Tick \/ RestartFails
      BY <2>7, Zenon DEF ReadShutOut, Tick, RestartFails
    <2>8. CASE force_open \/ WorkerRestarted
      BY <2>8, Zenon DEF force_open, WorkerRestarted, record_success, Close
    <2> QED
      BY <2>3, <2>4, <2>5, <2>6, <2>7, <2>8, Zenon DEF Next, Settle
  <1> QED
    BY <1>1, BreakerInvariant, PTL DEF Spec, OneProbePerWindow

=============================================================================
