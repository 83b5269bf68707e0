-------------------------- MODULE PermissionRecords --------------------------
(***************************************************************************)
(* The journal of the questions one run parks on                           *)
(* (database/permission_repository.py) and its three writers: the relay,   *)
(* which journals and reopens a question when a frame of the worker        *)
(* announces it and settles an answer when a receipt proves it applied     *)
(* (control/event_handlers.py, control/_event_application.py); the         *)
(* responders (control/permission_service.py); and the terminal            *)
(* settlement. The run's checkpoint decides what it is parked on: `parked` *)
(* is what a read of it says. Each relay and respond step that awaits a    *)
(* checkpoint read is split there.                                         *)
(***************************************************************************)
EXTENDS Integers, Sequences, FiniteSets

CONSTANTS
    Questions,      \* request ids
    Documents,      \* those that are document approvals
    Responders,     \* respond calls, each made once
    Deniers,        \* those that answer "deny", the others answer "allow"
    MaxAsksOf,      \* MAX_PERMISSION_ASKS
    MaxParks,       \* bound on the times the run parks
    MaxUndelivered  \* bound on the resumes the worker refuses

ASSUME RecordsAssumption ==
    /\ Documents \subseteq Questions /\ Deniers \subseteq Responders
    /\ MaxAsksOf \in Nat \ {0} /\ MaxParks \in Nat /\ MaxUndelivered \in Nat

VARIABLES
    parked,      \* the questions the checkpoint holds unanswered
    asks,        \* per question: how often the run asked it
    took,        \* per question: the options the run took, in order
    active,      \* the worker is streaming the run
    inHand,      \* << >> or <<[question, gen]>>: the resume the worker is running
    proven,      \* the receipt of inHand was sent
    announcing,  \* the one request the producer still holds
    over,        \* the run's row is terminal
    journal,     \* per question: its row
    answers,     \* per question: the accepted answers, one per ask
    writer,      \* << >> or <<question, gen>>: the answer that owns the run
    wire,        \* frames on their way to the gateway, in order
    relay,       \* << >> or the handler between its checkpoint read and its write
    responder,   \* per respond call: where it is and what it read
    rejections,  \* journaled rejections, by question and option
    parks, undelivered,
    stale,       \* the questions answered on a checkpoint read the run had left
    early        \* the questions answered before their row was journaled

runVars == <<parked, asks, took, active, inHand, proven, announcing, parks>>
recordVars == <<over, journal, answers, writer, rejections, stale, early>>
permVars == <<runVars, recordVars, wire, relay, responder, undelivered>>

OptionOf(k) == IF k \in Deniers THEN "deny" ELSE "allow"
Outstanding == {"pending", "answered"}
Resting == [at |-> "idle", question |-> "none", option |-> "none", held |-> FALSE, sure |-> TRUE, ask |-> 0, gen |-> 0]

PermTypeOK ==
    /\ parked \subseteq Questions
    /\ asks \in [Questions -> 0..MaxParks]
    /\ \A q \in Questions :
        /\ journal[q] \in {"none", "pending", "answered", "applied", "superseded", "expired"}
        /\ Len(answers[q]) <= MaxAsksOf /\ Len(took[q]) <= Len(answers[q])
    /\ \A k \in Responders : responder[k].at \in {"idle", "read", "sending", "done"}
    /\ active \in BOOLEAN /\ over \in BOOLEAN /\ proven \in BOOLEAN
    /\ Len(inHand) <= 1 /\ Len(relay) <= 1 /\ stale \cup early \subseteq Questions

RecordsInit ==
    /\ parked = {} /\ asks = [q \in Questions |-> 0] /\ took = [q \in Questions |-> << >>]
    /\ active = TRUE /\ inHand = << >> /\ proven = FALSE /\ announcing = "none" /\ parks = 0
    /\ over = FALSE /\ journal = [q \in Questions |-> "none"] /\ answers = [q \in Questions |-> << >>]
    /\ writer = << >> /\ rejections = {} /\ stale = {} /\ early = {}
    /\ wire = << >> /\ relay = << >> /\ responder = [k \in Responders |-> Resting] /\ undelivered = 0

(***************************************************************************)
(* The worker.                                                             *)
(***************************************************************************)
ReceiptOf(hand) == [kind |-> "receipt", question |-> hand.question, gen |-> hand.gen]

\* on_graph_started: the loop committed a checkpoint, which proves the resume landed
StartReceipt ==
    /\ active /\ inHand # << >> /\ ~proven
    /\ wire' = Append(wire, ReceiptOf(inHand[1]))
    /\ proven' = TRUE
    /\ UNCHANGED <<parked, asks, took, active, inHand, announcing, parks, recordVars, relay, responder, undelivered>>

RecordOrders(S) == {o \in [1..Cardinality(S) -> S] : \A i, j \in DOMAIN o : o[i] = o[j] => i = j}

\* emit_interrupt_events: every open question the producer does not hold is
\* announced, and each announced one replaces the one it holds
Announced(order) ==
    LET frames == [i \in DOMAIN order |-> [kind |-> "ask", question |-> order[i]]]
    IN  IF order[1] = announcing THEN Tail(frames) ELSE frames

\* _settle_run: the stream ends on the questions S asked now and those still open,
\* and the receipt follows their frames
Park(S) ==
    /\ active' = FALSE /\ parked' = parked \cup S
    /\ asks' = [q \in Questions |-> IF q \in S THEN asks[q] + 1 ELSE asks[q]]
    /\ \E order \in RecordOrders(parked \cup S) :
        /\ announcing' = order[Len(order)]
        /\ wire' = wire \o Announced(order) \o [i \in 1..Len(inHand) |-> ReceiptOf(inHand[i])]
    /\ inHand' = << >> /\ proven' = FALSE
    /\ UNCHANGED <<took, recordVars, relay, responder, undelivered>>

RunParks(q) ==
    /\ active /\ parks < MaxParks /\ q \notin parked
    /\ parks' = parks + 1
    /\ Park({q})

\* a fan-out parks on several questions at once
FanOutParks ==
    /\ active /\ inHand = << >> /\ parks < MaxParks /\ parked = {}
    /\ parks' = parks + 1
    /\ Park(Questions)

\* an answered branch waits for the others: the run parks on what is left of them
BranchParks ==
    /\ active /\ inHand # << >> /\ parked # {}
    /\ UNCHANGED parks
    /\ Park({})

AskingRunEnds ==
    /\ active /\ parked = {}
    /\ active' = FALSE
    /\ wire' = wire \o [i \in 1..Len(inHand) |-> ReceiptOf(inHand[i])] \o <<[kind |-> "terminal"]>>
    /\ inHand' = << >> /\ proven' = FALSE
    /\ UNCHANGED <<parked, asks, took, announcing, parks, recordVars, relay, responder, undelivered>>

(***************************************************************************)
(* The journal's verbs.                                                    *)
(***************************************************************************)
RecordedRow(rows, q) == [rows EXCEPT ![q] = "pending"]

\* reopen_reasked_permission_request: only a settled row
Reopened(rows, q) == [rows EXCEPT ![q] = IF @ \in {"none"} \cup Outstanding THEN @ ELSE "pending"]

\* supersede_permission_requests: outstanding rows the checkpoint does not hold
SupersededRows(rows, held) ==
    [q \in Questions |-> IF rows[q] \in Outstanding /\ q \notin held THEN "superseded" ELSE rows[q]]

\* expire_pending_permission_requests
Expired(rows) == [q \in Questions |-> IF rows[q] \in Outstanding THEN "expired" ELSE rows[q]]

\* record_permission_response_submission and its reset: no row, nothing to write
Moved(rows, q, status) == [rows EXCEPT ![q] = IF @ = "none" THEN @ ELSE status]

(***************************************************************************)
(* The relay, one frame at a time.                                         *)
(***************************************************************************)
NextFrame(kind) == relay = << >> /\ wire # << >> /\ Head(wire).kind = kind /\ wire' = Tail(wire)

\* _held_request_interrupt: a request the checkpoint does not hold is not journaled
RelayAsk ==
    /\ NextFrame("ask")
    /\ relay' = IF Head(wire).question \in parked
                THEN <<[kind |-> "ask", question |-> Head(wire).question, held |-> parked]>> ELSE << >>
    /\ UNCHANGED <<runVars, recordVars, responder, undelivered>>

\* _persist_permission_request: a request journaled before is a replay or a re-ask
PersistAsk ==
    /\ relay # << >> /\ relay[1].kind = "ask"
    /\ LET q == relay[1].question IN
       journal' = IF journal[q] # "none" THEN Reopened(journal, q)
                  ELSE RecordedRow(SupersededRows(journal, relay[1].held), q)
    /\ relay' = << >>
    /\ UNCHANGED <<runVars, over, answers, writer, rejections, stale, early, wire, responder, undelivered>>

\* commit_proven_application, _apply_permission_resolution: only the current
\* writer's answer, and only while its row awaits application
Settles(q, g) ==
    /\ ~answers[q][g].applied
    /\ writer = <<q, g>>
    /\ journal[q] = "answered"

RelayReceipt ==
    /\ NextFrame("receipt")
    /\ LET q == Head(wire).question
           g == Head(wire).gen IN
       /\ journal' = IF Settles(q, g) THEN [journal EXCEPT ![q] = "applied"] ELSE journal
       /\ answers' = IF Settles(q, g) THEN [answers EXCEPT ![q][g].applied = TRUE] ELSE answers
       /\ relay' = <<[kind |-> "settled", question |-> q, held |-> {}]>>
    /\ UNCHANGED <<runVars, over, writer, rejections, stale, early, responder, undelivered>>

\* _handle_reasked_permission_event: after the settlement its receipt proved
RelayReask ==
    /\ relay # << >> /\ relay[1].kind = "settled"
    /\ relay' = IF relay[1].question \in parked
                THEN <<[relay[1] EXCEPT !.kind = "reask", !.held = parked]>> ELSE << >>
    /\ UNCHANGED <<runVars, recordVars, wire, responder, undelivered>>

ReopenReasked ==
    /\ relay # << >> /\ relay[1].kind = "reask"
    /\ journal' = Reopened(journal, relay[1].question)
    /\ relay' = << >>
    /\ UNCHANGED <<runVars, over, answers, writer, rejections, stale, early, wire, responder, undelivered>>

\* settle_terminal_run: the rows still open expire with the run
RelayTerminal ==
    /\ NextFrame("terminal")
    /\ over' = TRUE
    /\ journal' = Expired(journal)
    /\ UNCHANGED <<runVars, answers, writer, rejections, stale, early, relay, responder, undelivered>>

(***************************************************************************)
(* The responders.                                                         *)
(***************************************************************************)
LeaveResponder(k) == responder' = [responder EXCEPT ![k] = [Resting EXCEPT !.at = "done"]]

\* what a call keeps of its reads once its answer is claimed
Sending(c, g) == [Resting EXCEPT !.at = "sending", !.question = c.question, !.option = c.option, !.gen = g]

\* respond_to_permission reads the checkpoint before its transaction opens; a
\* checkpoint that does not answer proves nothing
ReadHeld(k, q, sure) ==
    /\ responder[k].at = "idle" /\ asks[q] > 0
    /\ responder' = [responder EXCEPT ![k] = [at |-> "read", question |-> q, option |-> OptionOf(k),
                        held |-> sure /\ q \in parked, sure |-> sure, ask |-> asks[q], gen |-> 0]]
    /\ UNCHANGED <<runVars, recordVars, wire, relay, undelivered>>

\* journaled_permission_asks: the first ask whose answer has not been applied
FirstOpen(q) ==
    IF answers[q] # << >> /\ ~answers[q][Len(answers[q])].applied THEN Len(answers[q]) ELSE Len(answers[q]) + 1

\* Mutant of Addressed: a held request is always a new ask.
AddressedAnew(q, held) == IF held \/ answers[q] = << >> THEN Len(answers[q]) + 1 ELSE Len(answers[q])

\* JournaledAsks.addressed
Addressed(q, held) ==
    IF held \/ FirstOpen(q) <= Len(answers[q]) \/ answers[q] = << >> THEN FirstOpen(q) ELSE Len(answers[q])

\* the guards that end a response before its ask is looked at
TurnedDown(c) ==
    \/ ~c.held /\ journal[c.question] = "none"
    \/ c.question \in Documents
    \/ FirstOpen(c.question) > MaxAsksOf
    \/ <<c.question, c.option>> \in rejections

\* _deduplicate_permission_response: an answer accepted for the ask is replayed,
\* and delivered again only when its lease was released and it still owns the run
\* (a lease that runs out is RecoveryLedger's)
Replay(k) ==
    LET c == responder[k]
        g == Addressed(c.question, c.held)
        again == /\ answers[c.question][g].option = c.option /\ ~answers[c.question][g].applied
                 /\ ~answers[c.question][g].leased /\ ~over /\ writer = <<c.question, g>>
    IN
    /\ c.at = "read" /\ ~TurnedDown(c) /\ g <= Len(answers[c.question])
    /\ IF again
       THEN /\ responder' = [responder EXCEPT ![k] = Sending(c, g)]
            /\ answers' = [answers EXCEPT ![c.question][g].leased = TRUE]
            /\ journal' = Moved(journal, c.question, "answered")
       ELSE LeaveResponder(k) /\ UNCHANGED <<journal, answers>>
    /\ UNCHANGED <<runVars, over, writer, rejections, stale, early, wire, relay, undelivered>>

\* _authorize_permission_response, _refuse_unparked_permission: a request the
\* checkpoint was read not to hold is a journaled rejection
RefuseResponse(k) ==
    LET c == responder[k] IN
    /\ c.at = "read"
    /\ \/ TurnedDown(c) /\ UNCHANGED rejections
       \/ /\ ~TurnedDown(c) /\ Addressed(c.question, c.held) > Len(answers[c.question])
          /\ ~c.held \/ over
          /\ rejections' = IF ~c.held /\ c.sure /\ journal[c.question] # "applied"
                           THEN rejections \cup {<<c.question, c.option>>} ELSE rejections
    /\ LeaveResponder(k)
    /\ UNCHANGED <<runVars, over, journal, answers, writer, stale, early, wire, relay, undelivered>>

\* _record_permission_transition: the answer becomes the run's writer
AcceptAnswer(k) ==
    LET c == responder[k]
        q == c.question
        g == Addressed(q, c.held) IN
    /\ c.at = "read" /\ ~TurnedDown(c) /\ g > Len(answers[q]) /\ c.held /\ ~over
    /\ answers' = [answers EXCEPT ![q] = Append(@, [option |-> c.option, applied |-> FALSE, leased |-> TRUE])]
    /\ writer' = <<q, g>>
    /\ journal' = Moved(journal, q, "answered")
    /\ stale' = IF q \notin parked \/ asks[q] # c.ask THEN stale \cup {q} ELSE stale
    /\ early' = IF journal[q] = "none" THEN early \cup {q} ELSE early
    /\ responder' = [responder EXCEPT ![k] = Sending(c, g)]
    /\ UNCHANGED <<runVars, over, rejections, wire, relay, undelivered>>

\* _dispatch_permission_resume: an idle worker takes the resume, and its run the
\* answer when it is parked on that question
Deliver(k) ==
    LET c == responder[k] IN
    /\ c.at = "sending" /\ ~active /\ ~over
    /\ IF c.question \in parked
       THEN /\ parked' = parked \ {c.question} /\ active' = TRUE /\ proven' = FALSE
            /\ inHand' = <<[question |-> c.question, gen |-> c.gen]>>
            /\ took' = [took EXCEPT ![c.question] = Append(@, c.option)]
       ELSE UNCHANGED <<parked, active, proven, inHand, took>>
    /\ LeaveResponder(k)
    /\ UNCHANGED <<asks, announcing, parks, recordVars, wire, relay, undelivered>>

\* record_dispatch_failure: the failure counts while the answer owns an active run
StillOwns(c) == ~over /\ writer = <<c.question, c.gen>> /\ ~answers[c.question][c.gen].applied

\* _failed_permission_dispatch: a resume certainly not delivered reopens the row
Undeliver(k) ==
    LET c == responder[k] IN
    /\ c.at = "sending" /\ undelivered < MaxUndelivered
    /\ undelivered' = undelivered + 1
    /\ journal' = IF StillOwns(c) THEN Moved(journal, c.question, "pending") ELSE journal
    /\ answers' = IF StillOwns(c) THEN [answers EXCEPT ![c.question][c.gen].leased = FALSE] ELSE answers
    /\ LeaveResponder(k)
    /\ UNCHANGED <<runVars, over, writer, rejections, stale, early, wire, relay>>

RecordsNext ==
    \/ StartReceipt \/ FanOutParks \/ BranchParks \/ AskingRunEnds
    \/ \E q \in Questions : RunParks(q)
    \/ RelayAsk \/ PersistAsk \/ RelayReceipt \/ RelayReask \/ ReopenReasked \/ RelayTerminal
    \/ \E k \in Responders :
        \/ \E q \in Questions, sure \in BOOLEAN : ReadHeld(k, q, sure)
        \/ Replay(k) \/ RefuseResponse(k) \/ AcceptAnswer(k) \/ Deliver(k) \/ Undeliver(k)

RecordsSpec == RecordsInit /\ [][RecordsNext]_permVars

(***************************************************************************)
(* Properties.                                                             *)
(***************************************************************************)
\* nothing is on its way: no frame, no handler, no answer being sent, no stream
Quiet ==
    /\ wire = << >> /\ relay = << >> /\ ~active /\ ~over
    /\ \A k \in Responders : responder[k].at # "sending"

\* Another answer took the run before the receipt of one to q: proven_application_receipt
\* then refuses that receipt, whose action is no longer the writer of the run.
Overtaken(q) == \E g \in 1..Len(answers[q]) : ~answers[q][g].applied /\ writer # <<q, g>>

\* The order the journal is written for: every answer to q was accepted on what the run
\* held, after its row was journaled, and settled before another took the run.
InOrder(q) == q \notin stale \cup early /\ ~Overtaken(q)

\* A run at rest on a question answered in order has that question open in the journal,
\* however often it was asked, answered, refused by the worker or asked again
\* (reopen_reasked_permission_request from the frame and from the receipt).
QuietParkIsOpen == Quiet => \A q \in parked : InOrder(q) => journal[q] = "pending"

\* No row stays open for a question answered in order that the run has left (supersede,
\* the settlement of an answer and the reopening of a re-ask together).
OpenRowIsHeld == Quiet => \A q \in Questions : InOrder(q) /\ journal[q] \in Outstanding => q \in parked

\* The answer the run takes for its n-th ask of a question is the one journaled for that
\* ask (JournaledAsks.addressed), also for answers that overtake one another or their
\* row; a run takes no more answers than it asked for, whatever was read.
OneAnswerPerAsk ==
    \A q \in Questions :
        /\ Len(took[q]) <= asks[q]
        /\ q \notin stale =>
            \A g \in 1..Len(took[q]) : g <= Len(answers[q]) /\ took[q][g] = answers[q][g].option

\* A run that is over leaves no question open, whatever dispatch fails after it
\* (expire_pending_permission_requests, record_dispatch_failure).
TerminalIsClosed == over /\ relay = << >> => \A q \in Questions : journal[q] \notin Outstanding

==============================================================================
