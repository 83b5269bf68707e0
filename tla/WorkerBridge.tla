---------------------------- MODULE WorkerBridge ----------------------------
(***************************************************************************)
(* The worker's outbound event buffer (worker/ipc.py, with the eviction    *)
(* rule of streaming/fanout.py): events of the runs are buffered in order, *)
(* posted to the gateway in batches it accepts, retried, re-queued and     *)
(* evicted when the buffer is full.                                        *)
(*                                                                         *)
(* Three tasks flush: the pending flush the first buffered event arms, the *)
(* immediate flush of a terminal, and the flush of close().  One lock lets *)
(* one of them post.  Event n is the n-th event sent.                      *)
(***************************************************************************)
EXTENDS Integers, Sequences, SequencesExt, FiniteSets

CONSTANTS
    MaxEvents,     \* bound: events sent
    Outcomes,      \* the events that are errors or terminals
    Oversize,      \* the events no batch can carry
    BufferCap,     \* ipc_max_event_buffer
    BatchCap,      \* events in internal_max_event_batch_bytes
    FlushRetries,  \* ipc_max_flush_retries
    MaxRefusedPosts  \* bound: posts the gateway refuses or whose answer is lost

Events == 1..MaxEvents
Flushers == {"timer", "outcome", "close"}

ASSUME BridgeAssumption ==
    /\ Outcomes \subseteq Events /\ Oversize \subseteq Events
    /\ {BufferCap, BatchCap, FlushRetries} \subseteq Nat \ {0}
    /\ MaxRefusedPosts \in Nat

VARIABLES
    sent,      \* events sent so far
    buffer,    \* _batch.events
    flusher,   \* each flush: its state, its batches, its attempt, and whether
               \* its snapshot held no oversized event
    flushLock,      \* _batch.flush_lock
    closing,   \* close(): no, running, or the answer it returned
    gateway,   \* the events of the batches the gateway took, in order
    given_up,  \* history: events evicted, and events reported undeliverable
    refused    \* posts refused so far

bridgeVars == <<sent, buffer, flusher, flushLock, closing, gateway, given_up, refused>>

Off == [pc |-> "off", batches |-> <<>>, attempt |-> 0, whole |-> TRUE]
Held == UNION {ToSet(FlattenSeq(flusher[f].batches)) : f \in Flushers}

BridgeTypeOK ==
    /\ sent \in 0..MaxEvents
    /\ ToSet(buffer) \subseteq 1..sent
    /\ Len(buffer) <= BufferCap + BatchCap
    /\ \A f \in Flushers :
          /\ flusher[f].pc \in {"off", "asleep", "waiting", "posting", "backoff"}
          /\ \A i \in 1..Len(flusher[f].batches) : Len(flusher[f].batches[i]) \in 1..BatchCap
          /\ flusher[f].attempt \in 0..(FlushRetries - 1)
          /\ flusher[f].whole \in BOOLEAN
    /\ flushLock \in Flushers \cup {"free"}
    /\ closing \in {"no", "running", "relayed", "short"}
    /\ ToSet(gateway) \subseteq 1..sent
    /\ given_up.evicted \cup given_up.oversized \subseteq 1..sent
    /\ refused \in 0..MaxRefusedPosts

BridgeInit ==
    /\ sent = 0
    /\ buffer = <<>>
    /\ flusher = [f \in Flushers |-> Off]
    /\ flushLock = "free"
    /\ closing = "no"
    /\ gateway = <<>>
    /\ given_up = [evicted |-> {}, oversized |-> {}]
    /\ refused = 0

-----------------------------------------------------------------------------

\* pop_oldest_droppable: the oldest entry that is no outcome, else the oldest
OldestDroppable(entries) ==
    LET droppable == {i \in 1..Len(entries) : entries[i] \notin Outcomes} IN
    IF droppable = {} THEN 1 ELSE CHOOSE i \in droppable : \A j \in droppable : i <= j

PopOldestDroppable(entries) == RemoveAt(entries, OldestDroppable(entries))

\* The events that survive in a buffer of at most cap, one eviction at a time
Fitted(entries, cap) ==
    LET fit[s \in Seq(Events)] == IF Len(s) <= cap THEN s ELSE fit[PopOldestDroppable(s)]
    IN fit[entries]

\* _split_into_deliverable_batches: consecutive events, as many as a batch holds
Batches(entries) ==
    LET fits == SelectSeq(entries, LAMBDA e : e \notin Oversize)
        count == (Len(fits) + BatchCap - 1) \div BatchCap
    IN [i \in 1..count |->
          SubSeq(fits, (i - 1) * BatchCap + 1,
                 IF i * BatchCap < Len(fits) THEN i * BatchCap ELSE Len(fits))]

\* _schedule_flush: at most one pending flush, and none once closing
Armed(fl) ==
    IF closing = "no" /\ fl["timer"].pc = "off"
      THEN [fl EXCEPT !["timer"] = [Off EXCEPT !.pc = "asleep"]] ELSE fl

\* send_event.  A terminal also forces a flush of its own.
Send ==
    LET e == sent + 1
        room == Fitted(buffer, BufferCap - 1)
        urgent == e \in Outcomes /\ flusher["outcome"].pc = "off"
        woken == IF urgent THEN [flusher EXCEPT !["outcome"].pc = "waiting"] ELSE flusher IN
    /\ sent < MaxEvents
    /\ closing \in {"no", "running"}
    /\ sent' = e
    /\ buffer' = Append(room, e)
    /\ given_up' = [given_up EXCEPT !.evicted = @ \cup (ToSet(buffer) \ ToSet(room))]
    /\ flusher' = Armed(woken)
    /\ UNCHANGED <<flushLock, closing, gateway, refused>>

TimerFires ==
    /\ flusher["timer"].pc = "asleep"
    /\ flusher' = [flusher EXCEPT !["timer"].pc = "waiting"]
    /\ UNCHANGED <<sent, buffer, flushLock, closing, gateway, given_up, refused>>

\* The end of a flush: the finishing pending flush arms the next one if events came
\* in behind its snapshot, a failed one arms the redrive, and close() answers
EndFlush(f, remaining, relayed) ==
    /\ flushLock' = "free"
    /\ flusher' = LET done == [flusher EXCEPT ![f] = Off] IN
                  IF remaining # <<>> /\ (f = "timer" \/ ~relayed) THEN Armed(done) ELSE done
    /\ closing' = IF f # "close" THEN closing ELSE IF relayed THEN "relayed" ELSE "short"

\* flush_events takes the lock; _flush_locked takes its snapshot
BeginFlush(f) ==
    LET oversized == ToSet(buffer) \cap Oversize IN
    /\ flusher[f].pc = "waiting"
    /\ flushLock = "free"
    /\ buffer' = <<>>
    /\ given_up' = [given_up EXCEPT !.oversized = @ \cup oversized]
    /\ IF Batches(buffer) = <<>>
         THEN EndFlush(f, <<>>, oversized = {})
         ELSE /\ flushLock' = f
              /\ flusher' = [flusher EXCEPT ![f] = [pc |-> "posting", batches |-> Batches(buffer),
                                                    attempt |-> 0, whole |-> oversized = {}]]
              /\ UNCHANGED closing
    /\ UNCHANGED <<sent, gateway, refused>>

\* The gateway takes the batch and its answer arrives: the next one is posted
Delivered(f) ==
    /\ flusher[f].pc = "posting"
    /\ gateway' = gateway \o Head(flusher[f].batches)
    /\ IF Tail(flusher[f].batches) = <<>>
         THEN EndFlush(f, buffer, flusher[f].whole)
         ELSE /\ flusher' = [flusher EXCEPT ![f].batches = Tail(@), ![f].attempt = 0]
              /\ UNCHANGED <<flushLock, closing>>
    /\ UNCHANGED <<sent, buffer, given_up, refused>>

\* Mutant of Requeue: the undelivered events go behind the newer ones.
RequeueBehind(f) ==
    LET all == buffer \o FlattenSeq(flusher[f].batches)
        kept == Fitted(all, BufferCap) IN
    /\ buffer' = kept
    /\ given_up' = [given_up EXCEPT !.evicted = @ \cup (ToSet(all) \ ToSet(kept))]
    /\ EndFlush(f, kept, FALSE)

\* _requeue_failed_batch: everything undelivered goes back in front, what does not
\* fit is given up
Requeue(f) ==
    LET all == FlattenSeq(flusher[f].batches) \o buffer
        kept == Fitted(all, BufferCap) IN
    /\ buffer' = kept
    /\ given_up' = [given_up EXCEPT !.evicted = @ \cup (ToSet(all) \ ToSet(kept))]
    /\ EndFlush(f, kept, FALSE)

\* The post fails, whether or not the gateway took the batch; the last attempt
\* re-queues
Refused(f, taken) ==
    /\ flusher[f].pc = "posting"
    /\ refused < MaxRefusedPosts
    /\ refused' = refused + 1
    /\ gateway' = IF taken THEN gateway \o Head(flusher[f].batches) ELSE gateway
    /\ IF flusher[f].attempt = FlushRetries - 1
         THEN Requeue(f)
         ELSE /\ flusher' = [flusher EXCEPT ![f].pc = "backoff", ![f].attempt = @ + 1]
              /\ UNCHANGED <<buffer, flushLock, closing, given_up>>
    /\ UNCHANGED sent

Retry(f) ==
    /\ flusher[f].pc = "backoff"
    /\ flusher' = [flusher EXCEPT ![f].pc = "posting"]
    /\ UNCHANGED <<sent, buffer, flushLock, closing, gateway, given_up, refused>>

\* The deadline close() was given passes while its flush posts or waits
DeadlinePasses ==
    /\ flusher["close"].pc \in {"posting", "backoff"}
    /\ Requeue("close")
    /\ UNCHANGED <<sent, gateway, refused>>

\* close(): the pending flush is cancelled and joined.  A post it was in puts its
\* own batch back; the batches behind it were the task's, and go with it.
CloseBridge(taken) ==
    LET timer == flusher["timer"]
        inPost == timer.pc \in {"posting", "backoff"} IN
    /\ closing = "no"
    /\ taken => timer.pc = "posting"
    /\ closing' = "running"
    /\ buffer' = IF inPost THEN Head(timer.batches) \o buffer ELSE buffer
    /\ gateway' = IF taken THEN gateway \o Head(timer.batches) ELSE gateway
    /\ flushLock' = IF inPost THEN "free" ELSE flushLock
    /\ flusher' = [flusher EXCEPT !["timer"] = Off, !["close"].pc = "waiting"]
    /\ UNCHANGED <<sent, given_up, refused>>

BridgeNext ==
    \/ Send \/ TimerFires \/ DeadlinePasses
    \/ \E f \in Flushers : BeginFlush(f) \/ Delivered(f) \/ Retry(f)
    \/ \E f \in Flushers, taken \in BOOLEAN : Refused(f, taken)
    \/ \E taken \in BOOLEAN : CloseBridge(taken)

\* The event loop's timers fire and its tasks run; the gateway answers in the end
FlushStep(f) == BeginFlush(f) \/ Delivered(f) \/ Retry(f)
BridgeFairness ==
    /\ WF_bridgeVars(TimerFires)
    /\ \A f \in Flushers : WF_bridgeVars(FlushStep(f))

BridgeSpec == BridgeInit /\ [][BridgeNext]_bridgeVars /\ BridgeFairness

-----------------------------------------------------------------------------
\* Properties

Reported == given_up.evicted \cup given_up.oversized
Accounted == ToSet(buffer) \cup Held \cup ToSet(gateway) \cup Reported

\* Until close() cancels the pending flush, no event vanishes: each one sent is
\* buffered, in a batch, with the gateway, or was given up with a log line.
NothingVanishes == closing = "no" => 1..sent \subseteq Accounted

\* The gateway meets the events of the worker in the order they were sent, whatever
\* was retried, re-queued or given up: a retry repeats events, it never reorders them.
ArrivesInOrder ==
    LET first(e) == CHOOSE i \in 1..Len(gateway) :
                       gateway[i] = e /\ \A j \in 1..(i - 1) : gateway[j] # e IN
    \A d, e \in ToSet(gateway) : d < e => first(d) < first(e)

\* An error or a terminal is evicted only from a buffer that holds nothing else.
OutcomesOutlive ==
    \A e \in (given_up'.evicted \ given_up.evicted) \cap Outcomes :
       ToSet(buffer') \subseteq Outcomes \cup {sent'}

\* Every event sent while the bridge stays open reaches the gateway or is reported:
\* an event buffered behind a posting flush's snapshot is not left for another
\* run's event to stir (_deferred_flush, _requeue_failed_batch).
EventsDrain ==
    \A e \in Events :
        (sent >= e) ~> (e \in ToSet(gateway) \cup Reported \/ closing # "no")
=============================================================================
