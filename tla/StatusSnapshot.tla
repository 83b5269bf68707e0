---------------------------- MODULE StatusSnapshot ----------------------------
(***************************************************************************)
(* The status a reconnecting client is served                              *)
(* (control/thread_state_service.py capture_thread_state, with             *)
(* control/projection.py, control/snapshot.py and thread/snapshots.py).    *)
(* One capture reads three stores one after another: the run's row and its *)
(* open permission rows, then the checkpoint, then the execution-state row *)
(* the worker last reported. Each may move between the reads, and each     *)
(* read is one action below.                                               *)
(***************************************************************************)
EXTENDS Integers, FiniteSets

CONSTANTS
    Prompts,     \* the questions a run may park on, each asked by a task of its own
    PlanPrompts,       \* those that are plan approvals
    Surveys,     \* those that are clarification questionnaires, which have no row
    Unnamed,     \* permissions whose interrupt names no request
    Illegible,   \* those whose row offers no option that can be read
    MaxSteps,    \* bound on the checkpoints of the run
    MaxCaptures  \* bound on the captures

ASSUME SnapshotAssumption ==
    /\ PlanPrompts \subseteq Prompts /\ Unnamed \subseteq Prompts /\ Surveys \subseteq Prompts /\ Illegible \subseteq Prompts
    /\ MaxSteps \in Nat \ {0} /\ MaxCaptures \in Nat

VARIABLES
    phaseOf,    \* the run's row: "running", "input_required" or "terminal"
    checkpoint, \* [id, asked, past]: the latest one, id 0 while there is none
    openRows,   \* the questions whose permission row is pending
    execution,  \* the checkpoint id the execution-state row describes, 0 without a row
    capture,    \* "idle", "durable", "checked" or "served": the reads a capture has done
    shot,       \* what the capture read, and what it serves
    stirred,    \* a store moved since the capture began
    captures

snapshotVars == <<phaseOf, checkpoint, openRows, execution, capture, shot, stirred, captures>>

NoPrompt == "none"
NoRepair == 0
ReplayGap == 1
NeedsReconciliation == 2
CheckpointUnavailable == 3
OperatorIntervention == 4

\* unanswered_interrupt_values: a task with a write of its own is past its interrupt
StillAsking(c) == c.asked \ c.past

\* _project_pending_interrupt: the permissions held by name
Named(c) == StillAsking(c) \ (Unnamed \cup Surveys)

\* pending_clarification: read from the checkpoint and from nowhere else
Surveyed(c) == StillAsking(c) \cap Surveys

Blank == [status |-> "running", rows |-> {}, shown |-> {}, approval |-> NoPrompt, survey |-> {}, cause |-> FALSE,
          reasons |-> {}, complete |-> TRUE, repair |-> NoRepair, read |-> "none", id |-> 0,
          held |-> {}, nodes |-> 0, replay |-> "unknown", transcript |-> "none"]

SnapshotTypeOK ==
    /\ phaseOf \in {"running", "input_required", "terminal"}
    /\ checkpoint.id \in 0..MaxSteps /\ checkpoint.past \subseteq checkpoint.asked
    /\ openRows \subseteq Prompts /\ execution \in 0..MaxSteps
    /\ capture \in {"idle", "durable", "checked", "served"}
    /\ shot.repair \in NoRepair..OperatorIntervention
    /\ shot.read \in {"none", "loaded", "absent", "unreadable", "broken"}
    /\ (shot.reasons # {}) => ~shot.complete
    /\ capture = "served" => shot.transcript # "none"

SnapshotInit ==
    /\ phaseOf = "running" /\ checkpoint = [id |-> 0, asked |-> {}, past |-> {}]
    /\ openRows = {} /\ execution = 0
    /\ capture = "idle" /\ shot = Blank /\ stirred = FALSE /\ captures = 0

(***************************************************************************)
(* The run, its rows and the worker's reports, seen from the capture.      *)
(***************************************************************************)
\* the run commits a checkpoint and parks on some questions, or on none
Commits(asked) ==
    /\ phaseOf # "terminal" /\ checkpoint.id < MaxSteps
    /\ checkpoint' = [id |-> checkpoint.id + 1, asked |-> asked, past |-> {}]
    /\ phaseOf' = IF asked = {} THEN "running" ELSE "input_required"
    /\ stirred' = TRUE
    /\ UNCHANGED <<openRows, execution, capture, shot, captures>>

\* an answered task of a fan-out runs on while the others still ask
RunsOn(q) ==
    /\ q \in StillAsking(checkpoint)
    /\ checkpoint' = [checkpoint EXCEPT !.past = @ \cup {q}]
    /\ stirred' = TRUE
    /\ UNCHANGED <<phaseOf, openRows, execution, capture, shot, captures>>

\* the permission journal opens or closes a row
RowMoves(q) ==
    /\ openRows' = IF q \in openRows THEN openRows \ {q} ELSE openRows \cup {q}
    /\ q \in Named(checkpoint) \/ q \in openRows
    /\ stirred' = TRUE
    /\ UNCHANGED <<phaseOf, checkpoint, execution, capture, shot, captures>>

\* record_thread_execution_state: the worker's report of the checkpoint it stopped at
Reports ==
    /\ checkpoint.id > 0 /\ execution' = checkpoint.id /\ execution # execution'
    /\ stirred' = TRUE
    /\ UNCHANGED <<phaseOf, checkpoint, openRows, capture, shot, captures>>

\* a terminal settlement that leaves a row open is the residue the capture reports
Ends(residue) ==
    /\ phaseOf # "terminal" /\ phaseOf' = "terminal"
    /\ residue \subseteq openRows /\ openRows' = residue
    /\ stirred' = TRUE
    /\ UNCHANGED <<checkpoint, execution, capture, shot, captures>>

(***************************************************************************)
(* The capture.                                                            *)
(***************************************************************************)
\* escalate_repair_posture: the worst demand stands
Escalated(current, demanded) == IF demanded > current THEN demanded ELSE current

\* mark_degraded
Degraded(s, reason, repair) ==
    [s EXCEPT !.complete = FALSE, !.reasons = @ \cup {reason}, !.repair = Escalated(@, repair)]

DegradedIf(cond, s, reason, repair) == IF cond THEN Degraded(s, reason, repair) ELSE s

\* _clear_non_actionable_pause_state
WithoutIdleCause(s) == [s EXCEPT !.cause = @ /\ (s.shown # {} \/ s.approval # NoPrompt)]

\* durable_approval: none unless every plan approval can be read
DurableApproval(rows) ==
    IF rows \cap PlanPrompts = {} \/ rows \cap PlanPrompts \cap Illegible # {} THEN NoPrompt
    ELSE CHOOSE q \in rows \cap PlanPrompts : TRUE

\* _merge_durable_permissions: the rows a response could be addressed to
MergedSnapshot(s, rows) ==
    WithoutIdleCause(
        DegradedIf(rows \cap Illegible # {},
            [s EXCEPT !.rows = rows, !.shown = rows \ Illegible, !.cause = rows \ Illegible # {},
                      !.approval = DurableApproval(rows)],
            "projection_unreadable", OperatorIntervention))

\* enrich_snapshot_from_durable_state
ReadDurable ==
    /\ capture = "idle" /\ captures < MaxCaptures
    /\ capture' = "durable" /\ captures' = captures + 1 /\ stirred' = FALSE
    /\ shot' = LET s == [Blank EXCEPT !.status = phaseOf] IN
               IF phaseOf = "terminal"
               THEN DegradedIf(openRows # {}, s, "terminal_residue", NeedsReconciliation)
               ELSE MergedSnapshot(s, openRows)
    /\ UNCHANGED <<phaseOf, checkpoint, openRows, execution>>

Disclosing(s) == s.shown # {} \/ s.approval # NoPrompt \/ s.cause \/ s.survey # {}

\* clear_permissions_without_checkpoint_truth
Cleared(s) ==
    DegradedIf(Disclosing(s), [s EXCEPT !.shown = {}, !.approval = NoPrompt, !.survey = {}, !.cause = FALSE],
               "no_checkpoint_truth", NoRepair)

\* the questions the checkpoint holds that no open row was read for
Orphans(s, c) == Named(c) \ s.rows

\* reconcile_checkpoint_permissions_with_durable_state
ReconciledRows(s, c) ==
    IF Orphans(s, c) = {} THEN s
    ELSE WithoutIdleCause(
            [Degraded(s, "permission_without_row", NeedsReconciliation)
             EXCEPT !.approval = IF @ \in Orphans(s, c) THEN NoPrompt ELSE @])

\* apply_checkpoint_projection
Projected(s, c) ==
    DegradedIf(StillAsking(c) \cap Unnamed # {},
               [s EXCEPT !.read = "loaded", !.id = c.id, !.held = Named(c), !.survey = Surveyed(c),
                         !.cause = @ \/ Named(c) \cup Surveyed(c) # {}],
               "interrupt_unreadable", NeedsReconciliation)

\* withhold_terminal_interrupt_disclosure
Withheld(s) ==
    IF s.status # "terminal" THEN s
    ELSE [s EXCEPT !.shown = {}, !.approval = NoPrompt, !.survey = {}, !.cause = FALSE]

Unread(s, outcome) == Cleared(Degraded([s EXCEPT !.read = outcome], "checkpoint_unavailable", CheckpointUnavailable))

\* _read_projected_checkpoint: loaded, absent, not answered, or answered with
\* something that cannot be projected
ReadCheckpoint(outcome) ==
    /\ capture = "durable" /\ capture' = "checked"
    /\ outcome \in {"loaded", "broken"} => checkpoint.id > 0
    /\ outcome = "absent" => checkpoint.id = 0
    /\ shot' = Withheld(CASE outcome = "loaded" -> ReconciledRows(Projected(shot, checkpoint), checkpoint)
                          [] outcome = "absent" -> Cleared([shot EXCEPT !.read = "absent"])
                          [] OTHER              -> Unread(shot, outcome))
    /\ UNCHANGED <<phaseOf, checkpoint, openRows, execution, stirred, captures>>

Present(s) == s.read \in {"loaded", "broken"}

\* execution_state_is_stale
StaleRows(s) == ~Present(s) \/ (s.id # 0 /\ execution # s.id)

\* enrich_snapshot_from_execution_state
WithExecution(s, legible) ==
    IF execution = 0 THEN DegradedIf(Present(s), s, "execution_missing", NoRepair)
    ELSE IF ~legible THEN Degraded(s, "execution_unreadable", OperatorIntervention)
    ELSE IF s.status = "terminal" THEN s
    ELSE IF StaleRows(s) THEN Degraded(s, "execution_stale", NeedsReconciliation)
    ELSE [s EXCEPT !.nodes = execution]

\* finalize_snapshot_replay_status, classify_transcript_availability
Finalized(s) ==
    CASE s.read = "loaded" -> [s EXCEPT !.replay = "durable", !.transcript = "available"]
      [] s.read \in {"unreadable", "broken"} ->
            [s EXCEPT !.complete = FALSE, !.replay = "unknown", !.transcript = "unreadable"]
      [] s.read = "absent" /\ s.status = "running" -> [s EXCEPT !.transcript = "not_yet_recorded"]
      [] OTHER -> [Degraded(s, "checkpoint_missing", ReplayGap)
                   EXCEPT !.replay = "gap_detected", !.transcript = "missing"]

ReadExecution(legible) ==
    /\ capture = "checked" /\ capture' = "served"
    /\ shot' = Finalized(WithExecution(shot, legible))
    /\ UNCHANGED <<phaseOf, checkpoint, openRows, execution, stirred, captures>>

Respond ==
    /\ capture = "served" /\ capture' = "idle" /\ shot' = Blank
    /\ UNCHANGED <<phaseOf, checkpoint, openRows, execution, stirred, captures>>

SnapshotNext ==
    \/ \E asked \in SUBSET Prompts : Commits(asked)
    \/ \E q \in Prompts : RunsOn(q) \/ RowMoves(q)
    \/ Reports \/ \E residue \in SUBSET Prompts : Ends(residue)
    \/ ReadDurable
    \/ \E outcome \in {"loaded", "absent", "unreadable", "broken"} : ReadCheckpoint(outcome)
    \/ \E legible \in BOOLEAN : ReadExecution(legible)
    \/ Respond

SnapshotSpec == SnapshotInit /\ [][SnapshotNext]_snapshotVars

(***************************************************************************)
(* Properties of what is served.                                           *)
(***************************************************************************)
ServedSnapshot == capture = "served"

\* A run that was over when the capture began discloses nothing to answer,
\* whatever rows and interrupts it left behind
\* (withhold_terminal_interrupt_disclosure).
SettledDisclosesNothing ==
    ServedSnapshot /\ shot.status = "terminal" => shot.shown \cup shot.survey = {} /\ shot.approval = NoPrompt /\ ~shot.cause

\* A question is disclosed only beside a checkpoint that was read
\* (clear_permissions_without_checkpoint_truth).
DisclosedHasAuthority == ServedSnapshot /\ (shot.shown \cup shot.survey # {} \/ shot.approval # NoPrompt) => shot.read = "loaded"

\* A capture that calls itself complete shows every question its own
\* checkpoint holds, and execution state of that same checkpoint
\* (reconcile_checkpoint_permissions_with_durable_state, execution_state_is_stale).
CompleteIsWhole ==
    ServedSnapshot /\ shot.complete /\ shot.status # "terminal"
        => shot.held \subseteq shot.shown /\ shot.nodes \in {0, shot.id}

\* The posture served is never milder than what any of its reasons demanded
\* (escalate_repair_posture).
WorstPostureStands ==
    ServedSnapshot => /\ "projection_unreadable" \in shot.reasons => shot.repair = OperatorIntervention
                      /\ "checkpoint_unavailable" \in shot.reasons => shot.repair >= CheckpointUnavailable
                      /\ {"permission_without_row", "execution_stale", "terminal_residue"} \cap shot.reasons # {}
                            => shot.repair >= NeedsReconciliation

\* A capture of stores at rest and in agreement is complete and shows exactly
\* the questions still asked: a task of a fan-out that ran on is not reported
\* as a lost question (_tasks_past_their_interrupt).
QuietReadIsExact ==
    ServedSnapshot /\ ~stirred /\ shot.read = "loaded" /\ phaseOf # "terminal" /\ execution = checkpoint.id
      /\ openRows = (checkpoint.asked \ checkpoint.past) \ Surveys /\ checkpoint.asked \cap (Unnamed \cup Illegible) = {}
      /\ "execution_unreadable" \notin shot.reasons
        => shot.complete /\ shot.shown = openRows /\ shot.survey = (checkpoint.asked \ checkpoint.past) \cap Surveys
===============================================================================
