---------------------------- MODULE RunLifecycle ----------------------------
(***************************************************************************)
(* The pure lifecycle policy of a run (thread/): its statuses, the status   *)
(* transitions the state machine allows, and which verb each status admits. *)
(* No variables: every other module of the control plane builds on these.   *)
(***************************************************************************)

\* TERMINAL_STATUSES
Terminal == {"completed", "failed", "cancelled"}

\* NON_ACTIVE_STATUSES
NonActive == Terminal \cup {"archived", "deleting"}

\* ACTIVE_STATUSES
Active ==
    {"submitted", "running", "input_required", "cancelling", "reconciling",
     "repair_needed"}

\* ThreadStatus
Status == Active \cup NonActive

\* VALID_TRANSITIONS: where each status may go.
ValidTransitions ==
    [s \in Status |->
        CASE s = "submitted"      -> (Active \cup Terminal) \ {"submitted"}
          [] s = "running"        -> (Active \cup Terminal) \ {"submitted", "running"}
          [] s = "input_required" -> (Active \cup Terminal) \ {"submitted", "input_required"}
          [] s = "cancelling"     -> {"cancelled", "failed", "reconciling", "repair_needed"}
          [] s = "reconciling"    -> (Active \cup Terminal) \ {"reconciling"}
          [] s = "repair_needed"  ->
                (Active \cup Terminal) \ {"submitted", "repair_needed", "completed"}
          [] s \in Terminal       -> {"archived"}
          [] OTHER                -> {}]

\* validate_transition: staying put is always allowed.
ValidateTransition(from, to) == from = to \/ to \in ValidTransitions[from]

\* can_cancel: a run already cancelling may be cancelled again.
CanCancel(s) == s = "cancelling" \/ "cancelling" \in ValidTransitions[s]

\* can_send_followup: the statuses whose run still owns an unfinished turn.
CanSendFollowup(s) == s \in {"submitted", "running"}

\* can_archive
CanArchive(s) == s \in Terminal

\* can_delete
CanDelete(s) == s \in Terminal \cup {"archived"}

=============================================================================
