--------------------------- MODULE DocumentPhases ---------------------------
(***************************************************************************)
(* A research_adr run and the way a human's verdict comes back to it:      *)
(* the document phase machine (graph/_compiler_research.py, graph/nodes/   *)
(* phase_gate.py, diverge.py), the idempotent submitter                    *)
(* (authoring/submitter.py), the engine that holds the proposals and feeds *)
(* an outbox of lifecycle events (external), the pause row of the gateway, *)
(* and the verdict subscriber that resumes a parked run                    *)
(* (control/verdict_subscriber.py).                                        *)
(*                                                                         *)
(* A writer's body is a counter: the n-th body of a phase is revision n,   *)
(* and the proposal of revision n is [phase, rev].  Between two awaits of  *)
(* the subscriber the run, the engine and the receipts move freely.        *)
(***************************************************************************)
EXTENDS Integers, Sequences, FiniteSets, Functions

CONSTANTS
    Phases,      \* the document phases, in order
    PhaseThreads,     \* the research threads the run fans out to
    Verdicts,    \* the decisions a human takes
    Budget,      \* topology.max_review_revisions
    MaxBodies,   \* bound: bodies the writers of the run produce
    MaxTrouble   \* bound: crashes, lost calls, refused snapshots

ASSUME PhasesAssumption ==
    /\ Len(Phases) \in Nat \ {0}
    /\ Verdicts \subseteq {"approved", "rejected", "request_changes"}
    /\ Budget \in Nat /\ MaxBodies \in Nat /\ MaxTrouble \in Nat

VARIABLES
    at,        \* the node of the next superstep, and its phase
    findings,  \* state: research_findings, by thread
    bodies,    \* state: the documents each phase's writer has produced
    spent,     \* state: review_revisions
    gate,      \* state: gate_pending_proposal_id
    fate,      \* how the run ended, "no" while it runs or waits
    engine,    \* the engine's proposals and their status
    outbox,    \* the engine's verdict events, in order
    rows,      \* the gateway's approval rows: the proposals known, and open
    claim,     \* the journal's verdict action of each proposal
    mail,      \* resumes the worker has accepted and not begun
    receipts,  \* dispatch receipts on their way to the gateway
    sub,       \* the subscriber: where it is and what it read
    cursor,    \* the subscriber's durable cursor
    trouble,   \* faults so far
    granted,   \* history: revisions granted since the phase last had a gate
    routed     \* history: the verdicts the gates routed on

phaseRunVars == <<at, findings, bodies, spent, gate, fate, granted, routed>>
phaseVars == <<at, findings, bodies, spent, gate, fate, engine, outbox, rows, claim, mail,
               receipts, sub, cursor, trouble, granted, routed>>

Index == 1..Len(Phases)
Proposals == [phase : Index, rev : 1..MaxBodies]
NoProposal == [phase |-> 0, rev |-> 0]
IdleSubscriber == [pc |-> "idle", proposal |-> NoProposal, verdict |-> "none", event |-> FALSE,
         fresh |-> FALSE]

PhasesTypeOK ==
    /\ at \in [kind : {"clarify", "research", "write", "review", "submit", "gate", "done"},
               phase : Index]
    /\ findings \subseteq PhaseThreads
    /\ bodies \in [Index -> 0..MaxBodies]
    /\ spent \in [Index -> 0..(Budget + 2)]
    /\ gate \in Proposals \cup {NoProposal}
    /\ fate \in {"no", "completed", "nonconforming", "failed"}
    /\ DOMAIN engine \subseteq Proposals
    /\ \A p \in DOMAIN engine :
          engine[p] \in {"needs_review", "approved", "applied", "rejected", "draft"}
    /\ \A i \in 1..Len(outbox) : outbox[i] \in [proposal : Proposals, verdict : Verdicts]
    /\ rows.open \subseteq rows.known /\ rows.known \subseteq Proposals
    /\ claim \in [Proposals -> {"none", "leased", "expired", "applied"}]
    /\ mail \subseteq [proposal : Proposals, verdict : Verdicts]
    /\ receipts \subseteq Proposals
    /\ sub \in [pc : {"idle", "prepare", "gate", "claim", "end"},
                proposal : Proposals \cup {NoProposal}, verdict : Verdicts \cup {"none"},
                event : BOOLEAN, fresh : BOOLEAN]
    /\ cursor \in 0..Len(outbox)
    /\ trouble \in 0..MaxTrouble
    /\ granted \in 0..(Budget + 2)
    /\ routed \subseteq [proposal : Proposals, verdict : Verdicts]

PhasesInit ==
    /\ at \in [kind : {"clarify", "research"}, phase : {1}]
    /\ findings = {}
    /\ bodies = [i \in Index |-> 0]
    /\ spent = [i \in Index |-> 0]
    /\ gate = NoProposal
    /\ fate = "no"
    /\ engine = <<>>
    /\ outbox = <<>>
    /\ rows = [known |-> {}, open |-> {}]
    /\ claim = [p \in Proposals |-> "none"]
    /\ mail = {}
    /\ receipts = {}
    /\ sub = IdleSubscriber
    /\ cursor = 0
    /\ trouble = 0
    /\ granted = 0
    /\ routed = {}

-----------------------------------------------------------------------------
\* The run

Goes == fate = "no"
Here(kind) == Goes /\ at.kind = kind
Enter(kind, i) == at' = [kind |-> kind, phase |-> i]

\* revision_granted
RevisionGranted(asked, used) == asked /\ used <= Budget

\* The clarification pair ahead of the fan-out: it asks or proceeds, and an answer
\* of any kind proceeds
Clarify ==
    /\ Here("clarify")
    /\ Enter("research", 1)
    /\ UNCHANGED <<findings, bodies, spent, gate, fate, engine, outbox, rows, claim, mail,
                   receipts, sub, cursor, trouble, granted, routed>>

\* A researcher branch appends a finding that meets the contract, or fails the run;
\* the synthesis is entered by the join of every branch
Research(t, valid) ==
    /\ Here("research")
    /\ t \notin findings
    /\ fate' = IF valid THEN "no" ELSE "failed"
    /\ findings' = IF valid THEN findings \cup {t} ELSE findings
    /\ IF findings' = PhaseThreads THEN Enter("write", 1) ELSE UNCHANGED at
    /\ UNCHANGED <<bodies, spent, gate, engine, outbox, rows, claim, mail, receipts, sub,
                   cursor, trouble, granted, routed>>

Write ==
    /\ Here("write")
    /\ FoldFunction(+, 0, bodies) < MaxBodies
    /\ bodies' = [bodies EXCEPT ![at.phase] = @ + 1]
    /\ Enter("review", at.phase)
    /\ UNCHANGED <<findings, spent, gate, fate, engine, outbox, rows, claim, mail, receipts,
                   sub, cursor, trouble, granted, routed>>

\* _count_review_revisions, then _doc_review_router
Review(asked) ==
    LET used == spent[at.phase] + (IF asked THEN 1 ELSE 0)
        again == RevisionGranted(asked, used) IN
    /\ Here("review")
    /\ spent' = [spent EXCEPT ![at.phase] = used]
    /\ granted' = IF again THEN granted + 1 ELSE granted
    /\ Enter(IF again THEN "write" ELSE "submit", at.phase)
    /\ UNCHANGED <<findings, bodies, gate, fate, engine, outbox, rows, claim, mail, receipts,
                   sub, cursor, trouble, routed>>

\* _resolve_grounding_related and _refuse_ungrounded: each earlier phase has an
\* applied document, as the snapshot shows it
Grounded(i) == \A j \in 1..(i - 1) : \E p \in DOMAIN engine : p.phase = j /\ engine[p] = "applied"

\* create_proposal and submit_for_review under their idempotency keys
Proposed(p) == IF p \in DOMAIN engine THEN engine
               ELSE [q \in DOMAIN engine \cup {p} |->
                        IF q = p THEN "needs_review" ELSE engine[q]]

Current == [phase |-> at.phase, rev |-> bodies[at.phase]]

\* phase_submit_node, the submitter accepting
Submit ==
    /\ Here("submit")
    /\ Grounded(at.phase)
    /\ engine' = Proposed(Current)
    /\ gate' = Current
    /\ spent' = [spent EXCEPT ![at.phase] = 0]
    /\ granted' = 0
    /\ Enter("gate", at.phase)
    /\ UNCHANGED <<findings, bodies, fate, outbox, rows, claim, mail, receipts, sub, cursor,
                   trouble, routed>>

\* phase_submit_node, the submitter refusing: a body that does not conform, or a
\* document whose grounding has not landed (an unreadable snapshot reads as none)
SubmitRefused ==
    LET again == RevisionGranted(TRUE, spent[at.phase]) IN
    /\ Here("submit")
    /\ IF again
         THEN /\ Enter("write", at.phase)
              /\ spent' = [spent EXCEPT ![at.phase] = @ + 1]
              /\ granted' = granted + 1
              /\ UNCHANGED fate
         ELSE /\ fate' = "nonconforming"
              /\ UNCHANGED <<at, spent, granted>>
    /\ UNCHANGED <<findings, bodies, gate, engine, outbox, rows, claim, mail, receipts, sub,
                   cursor, trouble, routed>>

\* The engine has the proposal and the superstep is not committed: a crash, or a
\* transport fault that the retry policy answers by running the node again
SubmitInterrupted ==
    /\ Here("submit")
    /\ trouble < MaxTrouble
    /\ Grounded(at.phase)
    /\ engine' = Proposed(Current)
    /\ trouble' = trouble + 1
    /\ UNCHANGED <<phaseRunVars, outbox, rows, claim, mail, receipts, sub, cursor>>

\* A typed refusal of the submitter (no bearer, no actor token, denied), or a
\* node that fails past its retries
NodeFails ==
    /\ Goes
    /\ at.kind \in {"write", "review", "submit"}
    /\ trouble < MaxTrouble
    /\ trouble' = trouble + 1
    /\ fate' = "failed"
    /\ UNCHANGED <<at, findings, bodies, spent, gate, engine, outbox, rows, claim, mail,
                   receipts, sub, cursor, granted, routed>>

Complete ==
    /\ Here("done")
    /\ fate' = "completed"
    /\ UNCHANGED <<at, findings, bodies, spent, gate, engine, outbox, rows, claim, mail,
                   receipts, sub, cursor, trouble, granted, routed>>

\* phase_gate_node routing on a decision
AfterGate(verdict) ==
    IF verdict # "approved" THEN [kind |-> "write", phase |-> at.phase]
    ELSE IF at.phase < Len(Phases) THEN [kind |-> "write", phase |-> at.phase + 1]
    ELSE [kind |-> "done", phase |-> at.phase]

\* await_request_scoped_resume: an answer that names another request parks again
AnswersGate(m) == m.proposal = gate

\* The worker begins a resume it accepted.  A resume of a run that is not parked
\* begins nothing.
Resume(m) ==
    /\ m \in mail
    /\ mail' = mail \ {m}
    /\ receipts' = IF Here("gate") THEN receipts \cup {m.proposal} ELSE receipts
    /\ IF Here("gate") /\ AnswersGate(m)
         THEN at' = AfterGate(m.verdict) /\ routed' = routed \cup {[m EXCEPT !.proposal = gate]}
         ELSE UNCHANGED <<at, routed>>
    /\ UNCHANGED <<findings, bodies, spent, gate, fate, engine, outbox, rows, claim, sub,
                   cursor, trouble, granted>>

PhaseWorkerDies ==
    /\ mail # {}
    /\ trouble < MaxTrouble
    /\ trouble' = trouble + 1
    /\ mail' = {}
    /\ UNCHANGED <<phaseRunVars, engine, outbox, rows, claim, receipts, sub, cursor>>

-----------------------------------------------------------------------------
\* The engine and the gateway

\* A proposal is decided; a request for changes returns the changeset to its draft
Decide(p, verdict) ==
    /\ p \in DOMAIN engine
    /\ engine[p] = "needs_review"
    /\ engine' = [engine EXCEPT ![p] = IF verdict = "request_changes" THEN "draft"
                                       ELSE verdict]
    /\ outbox' = Append(outbox, [proposal |-> p, verdict |-> verdict])
    /\ UNCHANGED <<phaseRunVars, rows, claim, mail, receipts, sub, cursor, trouble>>

Apply(p) ==
    /\ p \in DOMAIN engine
    /\ engine[p] = "approved"
    /\ engine' = [engine EXCEPT ![p] = "applied"]
    /\ UNCHANGED <<phaseRunVars, outbox, rows, claim, mail, receipts, sub, cursor, trouble>>

\* The row changed under whatever the subscriber read of it
Touched == [sub EXCEPT !.fresh = FALSE]

\* The pause recorder: the current gate's row opens once and supersedes the others
RecordPause ==
    /\ Here("gate")
    /\ gate \notin rows.known
    /\ rows' = [known |-> rows.known \cup {gate}, open |-> {gate}]
    /\ sub' = Touched
    /\ UNCHANGED <<phaseRunVars, engine, outbox, claim, mail, receipts, cursor, trouble>>

\* settle_verdict_dispatch_receipt: the action is applied, and every open row of the
\* run's document approvals with it
SettleReceipt(p) ==
    /\ p \in receipts
    /\ receipts' = receipts \ {p}
    /\ claim' = [claim EXCEPT ![p] = "applied"]
    /\ rows' = IF claim[p] = "applied" THEN rows ELSE [rows EXCEPT !.open = {}]
    /\ sub' = Touched
    /\ UNCHANGED <<phaseRunVars, engine, outbox, mail, cursor, trouble>>

\* A lease outlives the dispatch it covers, unless the dispatch is late
LeaseExpires(p) ==
    LET late == p \in receipts \/ \E m \in mail : m.proposal = p IN
    /\ claim[p] = "leased"
    /\ late => trouble < MaxTrouble
    /\ trouble' = IF late THEN trouble + 1 ELSE trouble
    /\ claim' = [claim EXCEPT ![p] = "expired"]
    /\ UNCHANGED <<phaseRunVars, engine, outbox, rows, mail, receipts, sub, cursor>>

-----------------------------------------------------------------------------
\* The subscriber

Consider(p, verdict, event) ==
    sub' = [pc |-> "prepare", proposal |-> p, verdict |-> verdict, event |-> event,
            fresh |-> FALSE]

\* The frame is done with: its cursor advances whatever became of the resume
EndFrame == sub' = IdleSubscriber /\ cursor' = IF sub.event THEN cursor + 1 ELSE cursor

\* _process_frame and _process_event: the event correlates through an open row
TakeEvent ==
    /\ sub.pc = "idle"
    /\ cursor < Len(outbox)
    /\ LET event == outbox[cursor + 1] IN
       IF event.proposal \in rows.open
         THEN Consider(event.proposal, event.verdict, TRUE) /\ UNCHANGED cursor
         ELSE sub' = IdleSubscriber /\ cursor' = cursor + 1
    /\ UNCHANGED <<phaseRunVars, engine, outbox, rows, claim, mail, receipts, trouble>>

\* _proposal_reconcile_verdict: the status, else the approval's decision
DecidedVerdict(p) ==
    IF p \notin DOMAIN engine \/ engine[p] = "needs_review" THEN "none"
    ELSE IF engine[p] \in {"applied", "approved"} THEN "approved"
    ELSE IF engine[p] = "rejected" THEN "rejected"
    ELSE "request_changes"

\* _reconcile_parked_runs on an empty page, and the snapshot of _handle_gap: a run
\* parked at a decided gate is resumed from the engine's own record
Reconcile ==
    /\ sub.pc = "idle"
    /\ cursor = Len(outbox)
    /\ Here("gate")
    /\ DecidedVerdict(gate) # "none"
    /\ Consider(gate, DecidedVerdict(gate), FALSE)
    /\ UNCHANGED <<phaseRunVars, engine, outbox, rows, claim, mail, receipts, cursor, trouble>>

\* _handle_gap: the events up to the latest are skipped, the decided gate is resumed
HandleGap ==
    /\ sub.pc = "idle"
    /\ cursor < Len(outbox)
    /\ trouble < MaxTrouble
    /\ trouble' = trouble + 1
    /\ cursor' = Len(outbox)
    /\ IF Here("gate") /\ DecidedVerdict(gate) # "none"
         THEN Consider(gate, DecidedVerdict(gate), FALSE)
         ELSE UNCHANGED sub
    /\ UNCHANGED <<phaseRunVars, engine, outbox, rows, claim, mail, receipts>>

\* _prepare_verdict_resume: the write expectation, then the checkpoint's gate
ReadExpectation ==
    /\ sub.pc = "prepare"
    /\ sub' = [sub EXCEPT !.pc = "gate", !.fresh = TRUE]
    /\ UNCHANGED <<phaseRunVars, engine, outbox, rows, claim, mail, receipts, cursor, trouble>>

ReadGate ==
    /\ sub.pc = "gate"
    /\ IF gate = sub.proposal
         THEN sub' = [sub EXCEPT !.pc = "claim"] /\ UNCHANGED cursor
         ELSE EndFrame
    /\ UNCHANGED <<phaseRunVars, engine, outbox, rows, claim, mail, receipts, trouble>>

\* prepare_control_action_claim, then dispatch_leased
Acquired(p) == sub.fresh /\ claim[p] \in {"none", "expired"}

ClaimAndDispatch(delivered) ==
    /\ sub.pc = "claim"
    /\ delivered \/ trouble < MaxTrouble
    /\ IF Acquired(sub.proposal)
         THEN /\ claim' = [claim EXCEPT ![sub.proposal] = "leased"]
              /\ mail' = IF delivered
                           THEN mail \cup {[proposal |-> sub.proposal, verdict |-> sub.verdict]}
                           ELSE mail
              /\ trouble' = IF delivered THEN trouble ELSE trouble + 1
         ELSE UNCHANGED <<claim, mail, trouble>>
    /\ sub' = [sub EXCEPT !.pc = "end"]
    /\ UNCHANGED <<phaseRunVars, engine, outbox, rows, receipts, cursor>>

\* _consume_page, the frame's last write
AdvanceCursor ==
    /\ sub.pc = "end"
    /\ EndFrame
    /\ UNCHANGED <<phaseRunVars, engine, outbox, rows, claim, mail, receipts, trouble>>

\* The gateway restarts: the subscriber begins again at its durable cursor
SubscriberDies ==
    /\ sub.pc # "idle"
    /\ trouble < MaxTrouble
    /\ trouble' = trouble + 1
    /\ sub' = IdleSubscriber
    /\ UNCHANGED <<phaseRunVars, engine, outbox, rows, claim, mail, receipts, cursor>>

SubscriberStep ==
    TakeEvent \/ Reconcile \/ ReadExpectation \/ ReadGate \/ ClaimAndDispatch(TRUE) \/ AdvanceCursor

RunStep ==
    \/ Clarify \/ Write \/ Submit \/ SubmitRefused \/ SubmitInterrupted \/ NodeFails
    \/ Complete \/ PhaseWorkerDies
    \/ \E t \in PhaseThreads, valid \in BOOLEAN : Research(t, valid)
    \/ \E asked \in BOOLEAN : Review(asked)
    \/ \E m \in mail : Resume(m)

\* A behaviour ends with its run: what a verdict does then is RunControl's matter
PhasesNext ==
    /\ Goes
    /\ \/ RunStep \/ RecordPause
       \/ \E p \in DOMAIN engine :
             \/ Apply(p) \/ SettleReceipt(p) \/ LeaseExpires(p)
             \/ \E verdict \in Verdicts : Decide(p, verdict)
       \/ SubscriberStep \/ HandleGap \/ ClaimAndDispatch(FALSE) \/ SubscriberDies

\* The subscriber's loop, the worker's accepted dispatches, the receipts and the
\* leases' clock keep going; no human and no model has to act
PhasesFairness ==
    /\ WF_phaseVars(Goes /\ SubscriberStep)
    /\ WF_phaseVars(Goes /\ \E m \in mail : Resume(m))
    /\ WF_phaseVars(Goes /\ \E p \in DOMAIN engine : SettleReceipt(p))
    /\ WF_phaseVars(Goes /\ \E p \in DOMAIN engine : LeaseExpires(p))

PhasesSpec == PhasesInit /\ [][PhasesNext]_phaseVars /\ PhasesFairness

-----------------------------------------------------------------------------
\* Properties

\* A phase is behind the run only when the engine holds an approval of the very last
\* body its writer produced: no verdict of an earlier revision and no verdict of
\* another phase's gate ever lets a document through (phase_gate_node,
\* _prepare_verdict_resume).
PassedIsApproved ==
    \A i \in Index :
        (i < at.phase \/ at.kind = "done")
            => LET p == [phase |-> i, rev |-> bodies[i]] IN
               p \in DOMAIN engine /\ engine[p] \in {"approved", "applied"}

\* A gate routes once per proposal, on the decision the engine recorded for it,
\* however often the verdict was replayed, reconciled or redelivered.
RoutedAsDecided ==
    /\ \A r \in routed : DecidedVerdict(r.proposal) = r.verdict
    /\ \A r, s \in routed : r.proposal = s.proposal => r = s

\* A run that leaves a gate has that gate's proposal among the routed ones: the node
\* moves on from a pause by its own answer and by nothing else.
GateIsAnswered ==
    \A i \in Index : at.phase = i /\ at.kind = "write" /\ gate.phase = i /\ granted = 0
                         => \E r \in routed : r.proposal = gate

\* Between two gates of a phase its writer is sent back at most once more than the
\* budget the review loop and the conformance backstop share.
RevisionsAreBounded == granted <= Budget + 1

\* A run parked at a gate that has been decided is resumed, also when the verdict's
\* event was consumed before the pause row existed, its row was settled by an
\* earlier receipt, its dispatch was lost or its page was a gap.
DecidedGateResumes ==
    (Here("gate") /\ DecidedVerdict(gate) # "none")
        ~> ~(Here("gate") /\ DecidedVerdict(gate) # "none")
=============================================================================
