---------------------------- MODULE StreamIngest ----------------------------
(***************************************************************************)
(* The worker's event producer for one run (streaming/ingest.py,           *)
(* buffering.py, emitters.py, transformer.py, translation.py,              *)
(* _run_callbacks.py, _interrupt_projection.py).  An ingest reads the      *)
(* frames of a graph stream until the stream ends, fails, stalls or is     *)
(* cancelled.  Text is gathered into one buffer that a timer, the next     *)
(* message, the size threshold or the end of the turn flushes; plan and    *)
(* tool-call updates are debounced, each with a sleeping task of its own;  *)
(* tool callbacks run beside the reader.  The ingest then closes: it       *)
(* flushes, and projects every question the run parked on.                 *)
(*                                                                         *)
(* The graph stream, the callbacks' timing and the clock are the           *)
(* environment.  What a frame says is reduced to what it makes the         *)
(* producer do; a debounced value is the number of its revision.           *)
(***************************************************************************)
EXTENDS Naturals, Sequences, FiniteSets, SequencesExt

CONSTANTS
    StreamCalls,          \* tool calls of the run
    StreamQuestions,      \* sequence of the questions a run may park on, in task order
    Clarifications, \* the questions that are questionnaires
    MaxPieces,      \* text pieces per run
    ChunkCap,       \* pieces the chunk buffer holds before it is flushed
    MaxRevisions,   \* revisions of one debounced value
    MaxIngests,     \* graph streams opened for the run
    Menus,          \* the combinations of frame kinds a run's streams yield
    MaxStreamCancels      \* cancels asked of it

ASSUME IngestAssumption == /\ ToSet(StreamQuestions) # {} /\ Clarifications \subseteq ToSet(StreamQuestions)
                           /\ {MaxPieces, ChunkCap, MaxRevisions, MaxIngests, MaxStreamCancels} \subseteq Nat

VARIABLES
    menu,                                  \* the frame kinds of this run's streams
    ingestPhase, ingestOutcome, parkSeen, unwinding,   \* the ingest's progress
    cancelEvent, streamCancels, ingests,
    committed, ingestReceipts,                   \* loop checkpoints seen; start receipts fired
    pieceMessage, textBuffer, textWire, flushTimers, \* text: message of each piece, buffer, frames sent, timer tasks
    flushArmed,                            \* chunk_flush_tasks holds a task for the run
    revision, pending, shown, window, young, ripe,   \* the debounced values, by key
    known, inFlight,                       \* tool calls registered; started by a callback
    asked, heldRequest, told, projected    \* open questions; _pending_permissions; questions relayed

progressVars == <<ingestPhase, ingestOutcome, parkSeen, unwinding, cancelEvent, streamCancels, ingests, committed, ingestReceipts>>
textVars     == <<pieceMessage, textBuffer, textWire, flushTimers, flushArmed>>
updateVars   == <<revision, pending, shown, window, young, ripe>>
toolVars     == <<known, inFlight>>
questionVars == <<asked, heldRequest, told, projected>>
ingestVars   == <<menu, progressVars, textVars, updateVars, toolVars, questionVars>>

Keys      == StreamCalls \cup {"plan"}
Sources   == {"input", "loop"}
Failures  == {"provider_cancelled", "drained", "recursion", "stall", "step_timeout", "provider", "task_cancelled"}
NoRequest == "none"

IngestInit ==
    /\ menu \in Menus
    /\ ingestPhase = "idle" /\ ingestOutcome = "none" /\ parkSeen = FALSE /\ unwinding = FALSE
    /\ cancelEvent = FALSE /\ streamCancels = 0 /\ ingests = 0 /\ committed = FALSE /\ ingestReceipts = 0
    /\ pieceMessage = <<>> /\ textBuffer = <<>> /\ textWire = <<>> /\ flushTimers = 0 /\ flushArmed = FALSE
    /\ revision = [k \in Keys |-> 0] /\ pending = revision /\ shown = revision
    /\ window = [k \in Keys |-> FALSE] /\ young = revision /\ ripe = revision
    /\ known = {} /\ inFlight = {}
    /\ asked = <<>> /\ heldRequest = NoRequest /\ told = {} /\ projected = FALSE

Reading == ingestPhase = "streaming" /\ ~cancelEvent

---------------------------------------------------------------------------
(* Text. *)

\* flush_chunk_buffer: take the buffer, forget the timer's entry (its task is not
\* cancelled here and will find whatever the buffer holds by then), send one frame.
Flushed(buffer, wire) == IF buffer = <<>> THEN wire ELSE Append(wire, buffer)

\* buffer_message_chunk: another message's text goes out first; at the threshold the
\* buffer goes out and its timer with it; otherwise a timer is armed if none is.
BufferChunk(m) ==
    LET piece == Len(pieceMessage) + 1
        other == textBuffer # <<>> /\ pieceMessage[Last(textBuffer)] # m
        wire  == IF other THEN Flushed(textBuffer, textWire) ELSE textWire
        buf   == IF other THEN <<piece>> ELSE Append(textBuffer, piece)
        armed == flushArmed /\ ~other
        alive == IF other /\ flushArmed THEN flushTimers - 1 ELSE flushTimers
    IN  /\ Len(pieceMessage) < MaxPieces
        /\ pieceMessage' = Append(pieceMessage, m)
        /\ IF Len(buf) >= ChunkCap
           THEN /\ textWire' = Flushed(buf, wire) /\ textBuffer' = <<>> /\ flushArmed' = FALSE
                /\ flushTimers' = IF armed THEN alive - 1 ELSE alive
           ELSE /\ textWire' = wire /\ textBuffer' = buf /\ flushArmed' = TRUE
                /\ flushTimers' = IF armed THEN alive ELSE alive + 1

FlushText ==
    /\ textWire' = Flushed(textBuffer, textWire) /\ textBuffer' = <<>> /\ flushArmed' = FALSE
    /\ UNCHANGED <<pieceMessage, flushTimers>>

\* _scheduled_chunk_flush: a timer flushes what it finds, armed or orphaned.
ChunkTimer ==
    /\ flushTimers > 0
    /\ flushTimers' = flushTimers - 1
    /\ textWire' = Flushed(textBuffer, textWire) /\ textBuffer' = <<>> /\ flushArmed' = FALSE
    /\ UNCHANGED <<pieceMessage, progressVars, updateVars, toolVars, questionVars>>

---------------------------------------------------------------------------
(* Debounced updates. *)

\* The gateway's mirror of the run (RunLiveStateMirror) applies every relayed update to
\* what it holds for the call or the plan: it keeps no number to compare.
ShownUpdate(k, v) == [shown EXCEPT ![k] = v]

\* RunLiveState: a call is registered when it is first reported.
Registered(c) == known \cup {c}

\* emit_tool_call_start and every event that is not debounced: sent at once.
SendNow(k) ==
    /\ revision[k] < MaxRevisions
    /\ revision' = [revision EXCEPT ![k] = @ + 1] /\ shown' = ShownUpdate(k, revision[k] + 1)
    /\ UNCHANGED <<pending, window, young, ripe>>

\* Whether storing a pending update starts another sleeping task: a plan update
\* always does, a tool update only when none was pending for its call.
Schedules(k) == k = "plan" \/ pending[k] = 0

\* emit_tool_call_update / emit_plan_update: sent when the interval since the last
\* direct send has passed, held in place of an earlier held one otherwise.
Debounced(k) ==
    /\ revision[k] < MaxRevisions
    /\ revision' = [revision EXCEPT ![k] = @ + 1]
    /\ IF window[k]
       THEN /\ pending' = [pending EXCEPT ![k] = revision[k] + 1]
            /\ young' = [young EXCEPT ![k] = IF Schedules(k) THEN @ + 1 ELSE @]
            /\ UNCHANGED <<shown, window, ripe>>
       ELSE /\ shown' = ShownUpdate(k, revision[k] + 1)
            /\ window' = [window EXCEPT ![k] = TRUE]
            /\ UNCHANGED <<pending, young, ripe>>

\* The interval runs out; the tasks that began to sleep within it wake after it.
IntervalPasses(k) ==
    /\ window[k] \/ young[k] > 0
    /\ window' = [window EXCEPT ![k] = FALSE]
    /\ ripe' = [ripe EXCEPT ![k] = @ + young[k]] /\ young' = [young EXCEPT ![k] = 0]
    /\ UNCHANGED <<revision, pending, shown, progressVars, textVars, toolVars, questionVars>>

\* broadcast_debounced_*: send what is held, if anything still is.
DebounceFires(k) ==
    /\ ripe[k] > 0
    /\ ripe' = [ripe EXCEPT ![k] = @ - 1]
    /\ shown' = IF pending[k] # 0 THEN ShownUpdate(k, pending[k]) ELSE shown
    /\ pending' = [pending EXCEPT ![k] = 0]
    /\ UNCHANGED <<revision, window, young, progressVars, textVars, toolVars, questionVars>>

---------------------------------------------------------------------------
(* Frames and callbacks. *)

\* _fire_start_receipt: once, on the first committed checkpoint of the run's loop.
ReceiptDue(source) == ingestReceipts = 0 /\ source = "loop"

CheckpointFrame(source) ==
    /\ Reading
    /\ committed' = (committed \/ source = "loop")
    /\ ingestReceipts' = IF ReceiptDue(source) THEN ingestReceipts + 1 ELSE ingestReceipts
    /\ UNCHANGED <<ingestPhase, ingestOutcome, parkSeen, unwinding, cancelEvent, streamCancels, ingests, textVars, updateVars, toolVars, questionVars>>

MessageFrame(m) == Reading /\ BufferChunk(m) /\ UNCHANGED <<progressVars, updateVars, toolVars, questionVars>>

\* translate_tool_call_chunks: a call of this run not registered yet is announced.
ToolChunk(c) ==
    /\ Reading /\ c \notin known
    /\ known' = Registered(c) /\ SendNow(c)
    /\ UNCHANGED <<inFlight, progressVars, textVars, questionVars>>

\* emit_completed_action: a one-shot item registers and resolves in one go; the
\* registration is relayed and the update that follows is debounced.
CompletedAction(c) ==
    /\ Reading /\ revision[c] + 2 <= MaxRevisions
    /\ known' = Registered(c)
    /\ revision' = [revision EXCEPT ![c] = @ + 2]
    /\ IF window[c]
       THEN /\ shown' = ShownUpdate(c, revision[c] + 1) /\ pending' = [pending EXCEPT ![c] = revision[c] + 2]
            /\ young' = [young EXCEPT ![c] = IF Schedules(c) THEN @ + 1 ELSE @] /\ UNCHANGED window
       ELSE /\ shown' = ShownUpdate(c, revision[c] + 2) /\ window' = [window EXCEPT ![c] = TRUE]
            /\ UNCHANGED <<pending, young>>
    /\ UNCHANGED <<ripe, inFlight, progressVars, textVars, questionVars>>

PlanFrame == Reading /\ Debounced("plan") /\ UNCHANGED <<progressVars, textVars, toolVars, questionVars>>

\* A frame that reports an interrupt: the run parks on some of the questions.
InterruptFrame(open) ==
    /\ Reading /\ ~parkSeen /\ open # {}
    /\ parkSeen' = TRUE
    /\ asked' = SelectSeq(StreamQuestions, LAMBDA q : q \in open)
    /\ UNCHANGED <<ingestPhase, ingestOutcome, unwinding, cancelEvent, streamCancels, ingests, committed, ingestReceipts,
                   heldRequest, told, projected, textVars, updateVars, toolVars>>

\* on_tool_start: an announced call moves to in progress, another is registered.
ToolEventStarts(c) ==
    /\ ingestPhase = "streaming" /\ c \notin inFlight
    /\ inFlight' = inFlight \cup {c} /\ known' = Registered(c)
    /\ IF c \in known THEN Debounced(c) ELSE SendNow(c)
    /\ UNCHANGED <<progressVars, textVars, questionVars>>

\* on_tool_end, on_tool_error: the call's last update.
ToolEnds(c) ==
    /\ ingestPhase = "streaming" /\ c \in inFlight
    /\ inFlight' = inFlight \ {c} /\ Debounced(c)
    /\ UNCHANGED <<known, progressVars, textVars, questionVars>>

\* on_llm_end: the turn's text goes out before the frame that says why it stopped.
LlmEnds == ingestPhase = "streaming" /\ textBuffer # <<>> /\ FlushText /\ UNCHANGED <<progressVars, updateVars, toolVars, questionVars>>

---------------------------------------------------------------------------
(* The ingest's life. *)

OpenIngest ==
    /\ ingestPhase = "idle" /\ ingests < MaxIngests /\ ingestOutcome \in {"none", "interrupted"}
    /\ ingestPhase' = "streaming" /\ ingestOutcome' = "completed" /\ ingests' = ingests + 1
    /\ parkSeen' = FALSE /\ unwinding' = FALSE /\ committed' = FALSE /\ ingestReceipts' = 0
    /\ projected' = FALSE /\ asked' = <<>>
    /\ UNCHANGED <<cancelEvent, streamCancels, heldRequest, told, textVars, updateVars, toolVars>>

\* cancel_thread: the event is kept, so an ingest about to start sees it.
CancelThread ==
    /\ streamCancels < MaxStreamCancels
    /\ streamCancels' = streamCancels + 1 /\ cancelEvent' = TRUE
    /\ UNCHANGED <<ingestPhase, ingestOutcome, parkSeen, unwinding, ingests, committed, ingestReceipts, textVars, updateVars, toolVars, questionVars>>

Leaves(result, raised) ==
    /\ ingestPhase' = "closing" /\ ingestOutcome' = result /\ unwinding' = raised
    /\ inFlight' = {}
    /\ UNCHANGED <<parkSeen, cancelEvent, streamCancels, ingests, committed, ingestReceipts, textVars, updateVars, known, questionVars>>

\* _next_ingest_event: a set event wins over a frame that is ready, and over the end.
ObserveCancel == ingestPhase = "streaming" /\ cancelEvent /\ Leaves("cancelled", FALSE)

StreamIsOver == Reading /\ Leaves("completed", FALSE)

\* _handle_ingest_failure: classified in order; a cancelled task unwinds unsettled.
StreamFails(failure) ==
    /\ ingestPhase = "streaming"
    /\ Leaves(CASE failure = "provider_cancelled" -> "cancelled"
                [] failure = "drained"            -> "drained"
                [] OTHER                          -> "failed",
              failure = "task_cancelled")

\* _close_ingest up to the projection: the event is dropped, the intervals forgotten
\* (sleeping tasks are not), and what is buffered goes out unless the task unwinds.
CloseIngest ==
    /\ ingestPhase = "closing"
    /\ ingestPhase' = IF parkSeen /\ ~unwinding THEN "projecting" ELSE "over"
    /\ cancelEvent' = FALSE
    /\ window' = [k \in Keys |-> FALSE]
    /\ ripe' = [k \in Keys |-> ripe[k] + young[k]] /\ young' = [k \in Keys |-> 0]
    /\ IF unwinding THEN UNCHANGED textVars ELSE FlushText
    /\ UNCHANGED <<ingestOutcome, parkSeen, unwinding, streamCancels, ingests, committed, ingestReceipts,
                   revision, pending, shown, toolVars, questionVars>>

\* _replace_thread_pending_permission: a permission request takes the place of the run's
\* earlier one; a questionnaire is a nudge and is not held.
HeldAfter(request, q) == IF q \in Clarifications THEN request ELSE q

\* emit_interrupt_events, one question: a request already held is not repeated.
Emitted(seen, q) ==
    IF q = seen.held THEN seen
    ELSE [held |-> HeldAfter(seen.held, q), told |-> seen.told \cup {q}]

\* _finalize_interrupt, the checkpoint was read: every open question is projected.
ProjectQuestions ==
    /\ ingestPhase = "projecting"
    /\ LET seen == FoldLeft(Emitted, [held |-> heldRequest, told |-> told], asked)
       IN  heldRequest' = seen.held /\ told' = seen.told
    /\ projected' = TRUE /\ ingestPhase' = "over"
    /\ ingestOutcome' = IF ingestOutcome = "completed" THEN "interrupted" ELSE ingestOutcome
    /\ UNCHANGED <<parkSeen, unwinding, cancelEvent, streamCancels, ingests, committed, ingestReceipts, asked, textVars, updateVars, toolVars>>

\* _read_graph_state failed or timed out: the run is parked all the same.
ProjectionUnread ==
    /\ ingestPhase = "projecting"
    /\ ingestPhase' = "over"
    /\ ingestOutcome' = IF ingestOutcome = "completed" THEN "interrupted" ELSE ingestOutcome
    /\ UNCHANGED <<parkSeen, unwinding, cancelEvent, streamCancels, ingests, committed, ingestReceipts, questionVars, textVars, updateVars, toolVars>>

\* The dispatch is done with the run: a parked run keeps its text timers, held
\* updates and requests and loses its tool calls (prune_sequences); an ended one
\* loses everything (clear_thread_state).
LeaveParked ==
    /\ ingestPhase = "over" /\ ingestOutcome = "interrupted"
    /\ ingestPhase' = "idle" /\ known' = {}
    /\ UNCHANGED <<ingestOutcome, parkSeen, unwinding, cancelEvent, streamCancels, ingests, committed, ingestReceipts, inFlight, textVars, updateVars, questionVars>>

ClearThread ==
    /\ ingestPhase = "over" /\ ingestOutcome # "interrupted"
    /\ ingestPhase' = "idle" /\ cancelEvent' = FALSE
    /\ textBuffer' = <<>> /\ flushTimers' = IF flushArmed THEN flushTimers - 1 ELSE flushTimers
    /\ flushArmed' = FALSE
    /\ pending' = [k \in Keys |-> 0] /\ known' = {} /\ heldRequest' = NoRequest
    /\ UNCHANGED <<ingestOutcome, parkSeen, unwinding, streamCancels, ingests, committed, ingestReceipts, pieceMessage, textWire,
                   revision, shown, window, young, ripe, inFlight, asked, told, projected>>

IngestReads ==
    \/ "checkpoint" \in menu /\ \E source \in Sources : CheckpointFrame(source)
    \/ "text" \in menu /\ \E m \in {"m1", "m2"} : MessageFrame(m)
    \/ "tool" \in menu /\ \E c \in StreamCalls : ToolChunk(c) \/ CompletedAction(c)
    \/ "plan" \in menu /\ PlanFrame
    \/ "interrupt" \in menu /\ \E open \in SUBSET ToSet(StreamQuestions) : InterruptFrame(open)
    \/ ObserveCancel \/ StreamIsOver
    \/ \E failure \in Failures : StreamFails(failure)

IngestSettling == CloseIngest \/ ProjectQuestions \/ ProjectionUnread \/ LeaveParked \/ ClearThread

ToolCallbacks == "tool" \in menu /\ \E c \in StreamCalls : ToolEventStarts(c) \/ ToolEnds(c)

IngestNext ==
    /\ \/ OpenIngest \/ CancelThread \/ IngestReads \/ IngestSettling
       \/ ToolCallbacks \/ LlmEnds \/ ChunkTimer
       \/ \E k \in Keys : IntervalPasses(k) \/ DebounceFires(k)
    /\ UNCHANGED menu

\* The reader is never left waiting: a stream that says nothing stalls
\* (_next_event_or_cancel).  Timers and sleeping tasks wake.
IngestFairness ==
    /\ WF_ingestVars((ObserveCancel \/ StreamFails("stall")) /\ UNCHANGED menu) /\ WF_ingestVars(IngestSettling /\ UNCHANGED menu)
    /\ WF_ingestVars(ChunkTimer /\ UNCHANGED menu)
    /\ \A k \in Keys : WF_ingestVars(IntervalPasses(k) /\ UNCHANGED menu) /\ WF_ingestVars(DebounceFires(k) /\ UNCHANGED menu)

IngestSpec == IngestInit /\ [][IngestNext]_ingestVars /\ IngestFairness

---------------------------------------------------------------------------
IngestTypeOK ==
    /\ ingestPhase \in {"idle", "streaming", "closing", "projecting", "over"}
    /\ ingestOutcome \in {"none", "completed", "cancelled", "failed", "drained", "interrupted"}
    /\ {parkSeen, unwinding, cancelEvent, committed, flushArmed, projected} \subseteq BOOLEAN
    /\ streamCancels \in 0..MaxStreamCancels /\ ingests \in 0..MaxIngests /\ ingestReceipts \in 0..1
    /\ Len(pieceMessage) <= MaxPieces /\ Len(textBuffer) < ChunkCap
    /\ flushTimers \in Nat /\ (flushArmed => flushTimers > 0)
    /\ \A k \in Keys : {revision[k], pending[k], shown[k]} \subseteq 0..MaxRevisions
    /\ inFlight \subseteq StreamCalls /\ known \subseteq StreamCalls /\ told \subseteq ToSet(StreamQuestions)
    /\ heldRequest \in {NoRequest} \cup ToSet(StreamQuestions)

\* A run's text leaves the worker in the order the model produced it, nothing twice and
\* nothing missing, each frame from one message; and when the ingest has closed, none of
\* it is still in the buffer, whatever timers were armed, cancelled or orphaned.
TextInOrder ==
    /\ \A f \in DOMAIN textWire : \A i, j \in ToSet(textWire[f]) : pieceMessage[i] = pieceMessage[j]
    /\ (ingestPhase \in {"streaming", "closing"} \/ ~unwinding) =>
           FlattenSeq(textWire) \o textBuffer = [i \in 1..Len(pieceMessage) |-> i]
    /\ (ingestPhase \in {"projecting", "over"} /\ ~unwinding) => textBuffer = <<>>

\* A debounced update that is held always has a task that will send it: an update
\* stored over an earlier one, after a direct send, or across a park is never stranded.
NothingIsWithheld == \A k \in Keys : pending[k] # 0 => young[k] + ripe[k] > 0

\* The start receipt the gateway settles a dispatch on is fired once, and exactly when
\* the run's own loop has committed a checkpoint: not for the input's checkpoint.
ReceiptIsProven == ingestReceipts = IF committed THEN 1 ELSE 0

\* When a parked run's questions have been projected, each of them has been relayed, though
\* the producer holds at most one permission request per run and skips one it holds.
EveryQuestionIsTold == (ingestPhase = "over" /\ projected) => ToSet(asked) \subseteq told

\* An ingest ends: it is left, closed and settled whatever its stream does, a cancel included.
IngestSettles ==
    ingestPhase = "streaming" ~> ingestPhase = "idle"

===========================================================================
