---------------------------- MODULE DeletionSaga ----------------------------
(***************************************************************************)
(* The deletion of one thread: delete_thread_service of                    *)
(* control/thread_service.py, the saga of control/deletion_saga.py and the *)
(* cleanup of control/cleanup/executor.py.                                 *)
(*                                                                         *)
(* A request captures a manifest of the external state of the thread in    *)
(* the transaction that hides the thread, then drives the manifest in a    *)
(* pass of its own: claim the saga, clean an item, record the result,      *)
(* ..., finalize.  Each transaction and each external effect is one step;  *)
(* requests interleave between them, a claim expires while its pass is     *)
(* slow, and the process may die anywhere.                                 *)
(***************************************************************************)
EXTENDS Integers, FiniteSets

CONSTANTS
    Requests,    \* the concurrent delete requests
    Stores,      \* how many stores hold state of the thread; the first holds its checkpoint
    MaxAttempts, \* CLEANUP_MAX_ATTEMPTS
    MaxOverruns, \* bound: claims that expire while their pass still runs
    MaxDeaths,   \* bound: deaths of the process
    MaxRefusals  \* bound: failures of one item, more than MaxAttempts

ASSUME SagaAssumption ==
    /\ MaxAttempts \in Nat \ {0}
    /\ MaxOverruns \in Nat
    /\ MaxDeaths \in Nat
    /\ MaxRefusals \in Nat
    /\ Stores \in Nat \ {0}
    /\ IsFiniteSet(Requests)

VARIABLES
    doomed,    \* the thread's status, as far as deletion tells it apart
    saga,      \* the row of deletion_sagas: manifest, ledger and claim
    content,   \* the items whose external state still exists
    pass,      \* what each delete request is doing
    overruns,  \* claims that expired under a running pass so far
    deaths,    \* deaths of the process so far
    refusals,  \* history: failed attempts at an item
    reported   \* history: the items the final answer called abandoned

sagaVars == <<doomed, saga, content, pass, overruns, deaths, refusals, reported>>

\* The items of a manifest, numbered in its order.
Items == 1..Stores

Unrecorded == [state |-> "none", attempts |-> 0]
ItemResults == [state : {"none", "done", "failed", "abandoned"}, attempts : Nat]

NoSaga == [manifest |-> {}, ledger |-> [i \in Items |-> Unrecorded],
           claimed |-> "free", exists |-> FALSE]
Sagas == [manifest : SUBSET Items, ledger : [Items -> ItemResults],
          claimed : {"free", "held", "expired"}, exists : BOOLEAN]

NotAsked == [pc |-> "idle", todo |-> {}, result |-> "none"]
DeletionPasses == [pc : {"idle", "claim", "clean", "advance", "finalize"},
                   todo : SUBSET Items, result : {"none", "done", "failed"}]

SagaTypeOK ==
    /\ doomed \in {"active", "over", "deleting", "gone"}
    /\ saga \in Sagas
    /\ \A i \in Items : saga.ledger[i].state \in {"failed", "abandoned"} => saga.ledger[i].attempts > 0
    /\ content \subseteq Items
    /\ pass \in [Requests -> DeletionPasses]
    /\ overruns \in 0..MaxOverruns
    /\ deaths \in 0..MaxDeaths
    /\ refusals \in [Items -> Nat]
    /\ reported \subseteq Items

SagaInit ==
    /\ doomed = "active"
    /\ saga = NoSaga
    /\ content \in SUBSET Items
    /\ pass = [r \in Requests |-> NotAsked]
    /\ overruns = 0
    /\ deaths = 0
    /\ refusals = [i \in Items |-> 0]
    /\ reported = {}

-----------------------------------------------------------------------------

\* The run of the thread ends: can_delete holds from here on.
RunEnds ==
    /\ doomed = "active"
    /\ doomed' = "over"
    /\ UNCHANGED <<saga, content, pass, overruns, deaths, refusals, reported>>

\* build_cleanup_manifest: the checkpoint item, for the delete route answers a
\* request without a checkpointer with an error before it gets here
\* (get_checkpointer), and a journal item for each directory that exists
Manifest == {1} \cup content

\* create_deletion_saga: the row of a first request; a later one resumes it
NewSaga ==
    [manifest |-> Manifest, ledger |-> [i \in Items |-> Unrecorded],
     claimed |-> "free", exists |-> TRUE]

\* Mutant of RequestDeletion: the thread is hidden before its manifest is stored.
RequestDeletionHidesFirst(r) ==
    /\ pass[r] = NotAsked
    /\ \/ /\ doomed = "over"
          /\ doomed' = "deleting"
          /\ UNCHANGED saga
       \/ /\ doomed = "deleting"
          /\ saga' = IF saga.exists THEN saga
                     ELSE NewSaga
          /\ UNCHANGED doomed
    /\ pass' = [pass EXCEPT ![r].pc = "claim"]
    /\ UNCHANGED <<content, overruns, deaths, refusals, reported>>

\* delete_thread_service up to the call of _run_deletion_saga: a missing
\* thread and one whose run is active are refused and leave nothing behind
RequestDeletion(r) ==
    /\ pass[r] = NotAsked
    /\ \/ /\ doomed = "over"
          /\ doomed' = "deleting"
          /\ saga' = NewSaga
       \/ /\ doomed = "deleting"
          /\ UNCHANGED <<doomed, saga>>
    /\ pass' = [pass EXCEPT ![r].pc = "claim"]
    /\ UNCHANGED <<content, overruns, deaths, refusals, reported>>

\* claim_deletion_saga_row: no claim, or one whose lease ran out
Claimable == saga.exists /\ saga.claimed # "held"

\* The items of the manifest the ledger does not call done.
UncleanedItems == {i \in saga.manifest : saga.ledger[i].state # "done"}

\* Mutant of Claim: the claim of a dead pass is never taken over.
ClaimFreeOnly(r) ==
    /\ pass[r].pc = "claim"
    /\ IF saga.exists /\ saga.claimed = "free"
         THEN /\ saga' = [saga EXCEPT !.claimed = "held"]
              /\ pass' = [pass EXCEPT ![r] = [pc |-> "clean", todo |-> UncleanedItems, result |-> "none"]]
         ELSE /\ pass' = [pass EXCEPT ![r] = NotAsked]
              /\ UNCHANGED saga
    /\ UNCHANGED <<doomed, content, overruns, deaths, refusals, reported>>

\* claim_deletion_saga: the pass owns the saga and takes its snapshot of the
\* ledger, or it finds the saga finalized or held and the request is over
Claim(r) ==
    /\ pass[r].pc = "claim"
    /\ IF Claimable
         THEN /\ saga' = [saga EXCEPT !.claimed = "held"]
              /\ pass' = [pass EXCEPT ![r] = [pc |-> "clean", todo |-> UncleanedItems, result |-> "none"]]
         ELSE /\ pass' = [pass EXCEPT ![r] = NotAsked]
              /\ UNCHANGED saga
    /\ UNCHANGED <<doomed, content, overruns, deaths, refusals, reported>>

\* The item a pass is at: the first that it has still to do.
CleansNext(r, i) == i \in pass[r].todo /\ \A j \in pass[r].todo : i <= j

\* execute_cleanup_manifest, one item: the external effect happens or fails
\* with an exception that becomes a FAILED result; removing what is already
\* removed succeeds
CleanItem(r) ==
    /\ pass[r].pc = "clean"
    /\ \/ /\ pass[r].todo = {}
          /\ pass' = [pass EXCEPT ![r].pc = "finalize"]
          /\ UNCHANGED <<content, refusals>>
       \/ \E i \in Items :
            /\ CleansNext(r, i)
            /\ content' = content \ {i}
            /\ pass' = [pass EXCEPT ![r].pc = "advance", ![r].result = "done"]
            /\ UNCHANGED refusals
       \/ \E i \in Items :
            /\ CleansNext(r, i)
            /\ refusals[i] < MaxRefusals
            /\ refusals' = [refusals EXCEPT ![i] = @ + 1]
            /\ pass' = [pass EXCEPT ![r].pc = "advance", ![r].result = "failed"]
            /\ UNCHANGED content
    /\ UNCHANGED <<doomed, saga, overruns, deaths, reported>>

\* Mutant of RecordFor: the attempts are not counted.
RecordForUncounted(prior, result) ==
    [state |-> IF result = "done" THEN "done" ELSE "failed", attempts |-> 0]

\* _record_for: the entry a result leaves in the ledger
RecordFor(prior, result) ==
    IF result = "done"
      THEN [state |-> "done", attempts |-> prior.attempts]
      ELSE LET before == IF prior.state \in {"failed", "abandoned"} THEN prior.attempts ELSE 0
           IN  [state |-> IF before + 1 >= MaxAttempts THEN "abandoned" ELSE "failed",
                attempts |-> before + 1]

\* advance_deletion_cleanup_item: a compare-and-swap on the ledger's bytes, so
\* it applies to the ledger of this moment; nothing to do without a saga
AdvanceItem(r) ==
    /\ pass[r].pc = "advance"
    /\ \E i \in Items :
          /\ CleansNext(r, i)
          /\ saga' = IF saga.exists
                       THEN [saga EXCEPT !.ledger[i] = RecordFor(@, pass[r].result)]
                       ELSE saga
          /\ pass' = [pass EXCEPT ![r] = [pc |-> "clean", todo |-> @.todo \ {i}, result |-> "none"]]
    /\ UNCHANGED <<doomed, content, overruns, deaths, refusals, reported>>

\* _abandoned_items: None while some item of the manifest is not settled
SagaSettled == \A i \in saga.manifest : saga.ledger[i].state \in {"done", "abandoned"}
AbandonedItems == {i \in saga.manifest : saga.ledger[i].state = "abandoned"}

\* finalize_deletion_saga: an unsettled saga is released, a settled one is
\* removed together with the thread
Finalize(r) ==
    /\ pass[r].pc = "finalize"
    /\ pass' = [pass EXCEPT ![r] = NotAsked]
    /\ \/ /\ ~saga.exists
          /\ UNCHANGED <<doomed, saga, reported>>
       \/ /\ saga.exists /\ ~SagaSettled
          /\ saga' = [saga EXCEPT !.claimed = "free"]
          /\ UNCHANGED <<doomed, reported>>
       \/ /\ saga.exists /\ SagaSettled
          /\ saga' = NoSaga
          /\ doomed' = "gone"
          /\ reported' = AbandonedItems
    /\ UNCHANGED <<content, overruns, deaths, refusals>>

\* The process dies: every request it was serving dies with it.
SagaDeath ==
    /\ deaths < MaxDeaths
    /\ \E r \in Requests : pass[r] # NotAsked
    /\ deaths' = deaths + 1
    /\ pass' = [r \in Requests |-> NotAsked]
    /\ UNCHANGED <<doomed, saga, content, overruns, refusals, reported>>

InPass(r) == pass[r].pc \in {"clean", "advance", "finalize"}

\* DELETION_SAGA_CLAIM_LEASE runs out: the pass that took the claim is dead, or
\* it is alive and slower than the lease
ClaimExpires ==
    /\ saga.claimed = "held"
    /\ saga' = [saga EXCEPT !.claimed = "expired"]
    /\ IF \E r \in Requests : InPass(r)
         THEN overruns < MaxOverruns /\ overruns' = overruns + 1
         ELSE UNCHANGED overruns
    /\ UNCHANGED <<doomed, content, pass, deaths, refusals, reported>>

\* The steps of a pass once a request was made
SagaPassStep(r) == Claim(r) \/ CleanItem(r) \/ AdvanceItem(r) \/ Finalize(r)

SagaNext ==
    \/ RunEnds
    \/ \E r \in Requests : RequestDeletion(r)
    \/ \E r \in Requests : Claim(r)
    \/ \E r \in Requests : CleanItem(r)
    \/ \E r \in Requests : AdvanceItem(r)
    \/ \E r \in Requests : Finalize(r)
    \/ SagaDeath
    \/ ClaimExpires

\* The event loop runs every pass, time passes, and somebody keeps asking for
\* the deletion; nobody has to die or to be slow.
SagaFairness ==
    /\ \A r \in Requests : WF_sagaVars(SagaPassStep(r))
    /\ \A r \in Requests : WF_sagaVars(RequestDeletion(r))
    /\ WF_sagaVars(ClaimExpires)

SagaSpec == SagaInit /\ [][SagaNext]_sagaVars /\ SagaFairness

-----------------------------------------------------------------------------

(* finalize_deletion_saga removes the control rows only over a settled
   manifest, whichever pass recorded what: when the thread is gone, external
   state that is still there was refused MaxAttempts times and is in the
   answer as abandoned.  No pass loses another's item on the way. *)
LeakIsReported ==
    doomed = "gone" =>
        \A i \in content : i \in reported /\ refusals[i] >= MaxAttempts

(* The row hidden as DELETING and the saga come and go in one transaction, so
   a hidden thread always has the manifest that lets a later request finish,
   and a saga never outlives its thread. *)
HiddenHasSaga == (doomed = "deleting") <=> saga.exists

(* A DONE entry of the ledger is about state that is really gone: a pass that
   skips the item skips nothing. *)
DoneIsGone ==
    saga.exists => \A i \in Items : saga.ledger[i].state = "done" => i \notin content

(* What a deletion promises: nothing leaks unreported, a hidden thread can be
   finished, and the ledger of the saga tells the truth (deletion_saga). *)
DeletionIsWhole == LeakIsReported /\ HiddenHasSaga /\ DoneIsGone

(* The manifest is captured once: no later request narrows or widens it, and
   it covers all the external state the thread had. *)
ManifestIsKept ==
    saga.exists /\ saga'.exists => saga'.manifest = saga.manifest

(* A thread that was hidden is deleted in the end if somebody keeps asking:
   neither a dead pass, an item that always fails nor the claim itself wedges
   it. *)
HiddenIsDeleted ==
    (doomed = "deleting") ~> (doomed = "gone")

=============================================================================
