------------------------------- MODULE RunRow -------------------------------
(***************************************************************************)
(* What the control plane promises about the row of one run                 *)
(* (database/thread_repository.py, thread/write_authority.py): the row      *)
(* moves only by elections.  An election takes an allowed transition,       *)
(* advances the revision by one, and advances the generation exactly when   *)
(* it installs another writer.  A run that is over keeps its writer for     *)
(* good and only leaves for the archive or the deletion sink.               *)
(***************************************************************************)
EXTENDS Integers, RunLifecycle

CONSTANT Actions        \* the control actions that may write the run

VARIABLE row            \* [status, revision, generation, writer]

\* RunWriteAuthority.successor, with the status the election installs.
Successor(from, status, a) ==
    [status     |-> status,
     revision   |-> from.revision + 1,
     generation |-> IF a = from.writer THEN from.generation ELSE from.generation + 1,
     writer     |-> a]

Init ==
    \E a \in Actions :
        row = [status |-> "submitted", revision |-> 0, generation |-> 1, writer |-> a]

\* elect_thread_status
Elect(status, a) ==
    /\ ValidateTransition(row.status, status)
    /\ status # row.status \/ a # row.writer
    /\ row.status \in NonActive => a = row.writer
    /\ row' = Successor(row, status, a)

\* elect_thread_deleting
EnterDeletion ==
    /\ CanDelete(row.status)
    /\ row' = Successor(row, "deleting", row.writer)

Next ==
    \/ \E status \in Status, a \in Actions : Elect(status, a)
    \/ EnterDeletion

Spec == Init /\ [][Next]_row

=============================================================================
