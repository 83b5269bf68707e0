----------------------------- MODULE StoreWrites -----------------------------
(***************************************************************************)
(* Write contention on a SQLite store (database/session.py) and on the one *)
(* connection the checkpoint saver shares between its tasks                *)
(* (database/checkpoints.py, database/checkpoint_retention.py).            *)
(*                                                                         *)
(* SQLite itself is external: one writer at a time; a deferred transaction *)
(* keeps the snapshot of its first read and cannot become a writer once    *)
(* another connection has committed; a writer that finds the lock taken    *)
(* waits for the busy timeout and is then refused.  A behaviour is about   *)
(* one of two stores (`side`): the checkpoint store, written by puts and   *)
(* prunes over one connection, or the application store, written by pooled *)
(* sessions: run starts in deferred transactions and verbs in immediate    *)
(* ones.  Another process writes beside them.                              *)
(***************************************************************************)
EXTENDS Naturals, FiniteSets

CONSTANTS Puts,            \* aput, aput_writes and adelete_thread calls
          Prunes,          \* retention passes over the saver's connection
          Starts,          \* starts of one run id, each in its own session
          WriteVerbs,           \* verbs in immediate transactions
          WriteAttempts,   \* _WRITE_CONTENTION_ATTEMPTS
          MaxOthers,       \* bound: transactions of the other process
          MaxCancels       \* bound: saver calls cancelled

ASSUME WritesConstants ==
    /\ WriteAttempts \in Nat \ {0} /\ MaxOthers \in Nat /\ MaxCancels \in Nat
    /\ Puts \intersect Prunes = {} /\ Starts \intersect WriteVerbs = {}

VARIABLES side, disk, conn, mutex, job, others, cancels

writesVars == <<side, disk, conn, mutex, job, others, cancels>>

SaverJobs == Puts \union Prunes
Sessions == Starts \union WriteVerbs
Jobs == SaverJobs \union Sessions
Over == {"done", "failed", "cancelled"}

NoTransaction == [open |-> FALSE, snapshot |-> 0, pending |-> {}]

To(j, at) == job' = [job EXCEPT ![j].at = at]

(* The other process can still write. *)
OthersLeft == others > 0 \/ disk.holder = "other"

WriteCall(j) ==
    /\ job[j].at = "idle" /\ j \in (IF side = "saver" THEN SaverJobs ELSE Sessions)
    /\ job' = [job EXCEPT ![j].at = "attempt", ![j].late = ~OthersLeft]
    /\ UNCHANGED <<side, disk, conn, mutex, others, cancels>>

(***************************************************************************)
(* The policy every contended write runs under.                            *)
(***************************************************************************)
LastTry(j) == job[j].tries + 1 >= WriteAttempts

(* After the reset: the last refusal is reported, an earlier one retried   *)
(* (or, for a start, first settled).                                       *)
AfterReset(j) ==
    [job[j] EXCEPT !.tries = IF LastTry(j) THEN @ ELSE @ + 1,
                   !.seen = 0,
                   !.at = CASE LastTry(j) -> "failed"
                            [] j \in Starts -> "settling"
                            [] OTHER -> "attempt"]

(***************************************************************************)
(* The saver's connection.  Every call holds the saver's lock (mutex) from *)
(* its first statement to its commit.                                      *)
(***************************************************************************)
StaleSnapshot == conn.snapshot # 0 /\ conn.snapshot # disk.version

SaverWrites(j) ==
    /\ job[j].at = "attempt" /\ mutex = "none" /\ ~StaleSnapshot
    /\ disk.holder \in {"none", "saver"}
    /\ disk' = [disk EXCEPT !.holder = "saver"]
    /\ conn' = [conn EXCEPT !.open = TRUE, !.pending = @ \union {j}]
    /\ mutex' = j /\ To(j, "written")
    /\ UNCHANGED <<side, others, cancels>>

SaverCommits(j) ==
    /\ job[j].at = "written"
    /\ disk' = [disk EXCEPT !.version = @ + 1, !.rows = @ \union conn.pending,
                            !.holder = "none"]
    /\ conn' = NoTransaction /\ mutex' = "none" /\ To(j, "done")
    /\ UNCHANGED <<side, others, cancels>>

(* At once over a stale snapshot, after the busy timeout over a held lock. *)
RefusedNow == StaleSnapshot \/ disk.holder = "other"

(* The driver's implicit BEGIN has succeeded: the transaction stays open. *)
PutIsRefused(j) ==
    /\ j \in Puts /\ job[j].at = "attempt" /\ mutex = "none" /\ RefusedNow
    /\ conn' = [conn EXCEPT !.open = TRUE] /\ To(j, "refused")
    /\ UNCHANGED <<side, disk, mutex, others, cancels>>

(* A prune rolls back before it lets go of the lock, and is not retried. *)
PruneIsRefused(j) ==
    /\ j \in Prunes /\ job[j].at = "attempt" /\ mutex = "none" /\ RefusedNow
    /\ conn' = NoTransaction /\ To(j, "failed")
    /\ UNCHANGED <<side, disk, mutex, others, cancels>>

RolledBack == /\ conn' = NoTransaction
              /\ disk' = [disk EXCEPT !.holder = IF @ = "saver" THEN "none" ELSE @]

DiscardRefused(j) ==
    /\ j \in Puts /\ job[j].at = "refused" /\ mutex = "none"
    /\ RolledBack /\ job' = [job EXCEPT ![j] = AfterReset(j)]
    /\ UNCHANGED <<side, mutex, others, cancels>>

(* A checkpoint read joins the open transaction and pins its snapshot. *)
SaverReads ==
    /\ side = "saver" /\ mutex = "none" /\ conn.open /\ conn.snapshot = 0
    /\ conn' = [conn EXCEPT !.snapshot = disk.version]
    /\ UNCHANGED <<side, disk, mutex, job, others, cancels>>

(* Cancellation is no Exception: a put leaves its transaction as it is,    *)
(* also while it waits for the lock to discard it; a prune rolls back.     *)
CancelCall(j) ==
    /\ j \in SaverJobs /\ job[j].at \in {"written", "refused"} /\ cancels > 0
    /\ cancels' = cancels - 1 /\ To(j, "cancelled")
    /\ mutex' = IF mutex = j THEN "none" ELSE mutex
    /\ IF j \in Prunes THEN RolledBack ELSE UNCHANGED <<disk, conn>>
    /\ UNCHANGED <<side, others>>

(***************************************************************************)
(* Pooled sessions.                                                        *)
(***************************************************************************)
(* BEGIN: the first read fixes the snapshot; a start that finds its run    *)
(* answers with it.                                                        *)
BeginDeferred(j) ==
    /\ j \in Starts /\ job[j].at = "attempt"
    /\ job' = [job EXCEPT ![j].seen = IF disk.run = "none" THEN disk.version ELSE 0,
                          ![j].at = IF disk.run = "none" THEN "read" ELSE "done",
                          ![j].answer = disk.run]
    /\ UNCHANGED <<side, disk, conn, mutex, others, cancels>>

(* BEGIN IMMEDIATE: the lock first, then the read. *)
BeginWriteTransaction(j) ==
    /\ j \in WriteVerbs /\ job[j].at = "attempt" /\ disk.holder = "none"
    /\ disk' = [disk EXCEPT !.holder = j]
    /\ job' = [job EXCEPT ![j].at = "holding", ![j].seen = disk.version]
    /\ UNCHANGED <<side, conn, mutex, others, cancels>>

(* A deferred reader becomes the writer, while its snapshot is the newest. *)
Upgrade(j) ==
    /\ job[j].at = "read" /\ job[j].seen = disk.version /\ disk.holder = "none"
    /\ disk' = [disk EXCEPT !.holder = j] /\ To(j, "holding")
    /\ UNCHANGED <<side, conn, mutex, others, cancels>>

SessionIsRefused(j) ==
    /\ \/ job[j].at = "read" /\ (job[j].seen # disk.version \/ disk.holder # "none")
       \/ j \in WriteVerbs /\ job[j].at = "attempt" /\ disk.holder # "none"
    /\ To(j, "refused")
    /\ UNCHANGED <<side, disk, conn, mutex, others, cancels>>

SessionCommits(j) ==
    /\ job[j].at = "holding"
    /\ disk' = [disk EXCEPT !.version = @ + 1, !.holder = "none",
                            !.run = IF j \in Starts THEN j ELSE @]
    /\ job' = [job EXCEPT ![j].at = "done", ![j].answer = IF j \in Starts THEN j ELSE @]
    /\ UNCHANGED <<side, conn, mutex, others, cancels>>

SessionRollsBack(j) ==
    /\ j \in Sessions /\ job[j].at = "refused"
    /\ job' = [job EXCEPT ![j] = AfterReset(j)]
    /\ UNCHANGED <<side, disk, conn, mutex, others, cancels>>

(* The durable winner of the race ends the start that lost it. *)
DurableWinner(j) ==
    /\ job[j].at = "settling"
    /\ job' = [job EXCEPT ![j].at = IF disk.run = "none" THEN "attempt" ELSE "done",
                          ![j].answer = disk.run]
    /\ UNCHANGED <<side, disk, conn, mutex, others, cancels>>

(***************************************************************************)
(* Another process with its own connection to the same file.               *)
(***************************************************************************)
OtherTakes ==
    /\ others > 0 /\ disk.holder = "none"
    /\ others' = others - 1 /\ disk' = [disk EXCEPT !.holder = "other"]
    /\ UNCHANGED <<side, conn, mutex, job, cancels>>

OtherCommits ==
    /\ disk.holder = "other"
    /\ disk' = [disk EXCEPT !.holder = "none", !.version = @ + 1]
    /\ UNCHANGED <<side, conn, mutex, job, others, cancels>>

WritesInit ==
    /\ side \in {"saver", "sessions"}
    /\ disk = [version |-> 1, rows |-> {}, run |-> "none", holder |-> "none"]
    /\ conn = NoTransaction /\ mutex = "none"
    /\ job = [j \in Jobs |-> [at |-> "idle", tries |-> 0, seen |-> 0,
                              answer |-> "none", late |-> FALSE]]
    /\ others = MaxOthers /\ cancels = MaxCancels

SaverStep(j) ==
    \/ SaverWrites(j) \/ SaverCommits(j) \/ PutIsRefused(j) \/ PruneIsRefused(j)
    \/ DiscardRefused(j)

SessionStep(j) ==
    \/ BeginDeferred(j) \/ BeginWriteTransaction(j) \/ Upgrade(j) \/ SessionIsRefused(j)
    \/ SessionCommits(j) \/ SessionRollsBack(j) \/ DurableWinner(j)

WritesNext ==
    \/ \E j \in Jobs : WriteCall(j)
    \/ \E j \in SaverJobs : SaverStep(j) \/ CancelCall(j)
    \/ \E j \in Sessions : SessionStep(j)
    \/ SaverReads \/ OtherTakes \/ OtherCommits

WritesFairness ==
    /\ \A j \in SaverJobs : WF_writesVars(SaverStep(j))
    /\ \A j \in Sessions : WF_writesVars(SessionStep(j))

WritesSpec == WritesInit /\ [][WritesNext]_writesVars /\ WritesFairness

-----------------------------------------------------------------------------
(* Every field keeps its shape; no write is tried more often than allowed. *)
WritesTypeOK ==
    /\ side \in {"saver", "sessions"}
    /\ disk.holder \in {"none", "saver", "other"} \union Sessions
    /\ disk.rows \subseteq SaverJobs /\ disk.run \in Starts \union {"none"}
    /\ disk.version \in 1..(1 + MaxOthers + Cardinality(Jobs))
    /\ conn.pending \subseteq SaverJobs /\ (conn.pending # {} => conn.open)
    /\ \A j \in Jobs :
          /\ job[j].at \in Over \union {"idle", "attempt", "read", "written", "holding",
                                        "refused", "settling"}
          /\ job[j].tries < WriteAttempts

(* A write reported done is durable, and one reported refused has applied  *)
(* nothing and never will, also when the shared connection is reset or     *)
(* committed by a sibling.  A start is answered with the run that exists.  *)
ReportsAreTrue ==
    /\ \A j \in SaverJobs : /\ job[j].at = "done" => j \in disk.rows
                            /\ job[j].at = "failed" => j \notin disk.rows \union conn.pending
    /\ \A j \in Starts : /\ job[j].at = "done" => job[j].answer = disk.run
                         /\ job[j].at = "failed" => disk.run # j

(* Unless a call was cancelled, a saver connection nobody is using has no  *)
(* transaction open: no read can pin a snapshot the log then keeps.        *)
QuietSaverIsFree ==
    /\ mutex = "none"
    /\ \A j \in SaverJobs : job[j].at \notin {"refused", "cancelled"}
    => ~conn.open /\ disk.holder # "saver"

(* A put made after the other process has finished is not refused for good *)
(* whatever earlier refusals or cancellations left on the connection: one  *)
(* moment of contention does not cost this process the store.              *)
LateWriteSucceeds ==
    \A j \in Puts : job[j].at = "failed" => ~job[j].late

(* A session commits only over the version it read: no update is lost.     *)
NoLostUpdate ==
    \A j \in Sessions :
       job[j].at = "holding" /\ job'[j].at = "done" => job[j].seen = disk.version

(* Every write ends, done or refused as retryable, even if the other       *)
(* process never lets go of the lock.                                      *)
WritesSettle ==
    \A j \in Jobs : (job[j].at # "idle") ~> (job[j].at \in Over)
=============================================================================
