----------------------------- MODULE RunStream -----------------------------
(***************************************************************************)
(* The progress stream of one run: the gateway relays the worker's frames, *)
(* numbers them, holds a terminal until its settlement is durable, keeps a *)
(* ring and a table for replay, and serves a viewer that comes and goes    *)
(* (api/internal.py, streaming/subscribers.py, run_event_writer.py,        *)
(* fanout.py, database/run_event_repository.py, api/thread_stream.py,      *)
(* api/_stream_replay.py).                                                 *)
(*                                                                         *)
(* A publication is a frame handed to the subscribers; log lists them in   *)
(* order.  A client remembers the last id it was served and how much of    *)
(* the log it knows of: a notice tells it that something may be missing.   *)
(***************************************************************************)
EXTENDS Integers, Sequences, SequencesExt, FiniteSets, FiniteSetsExt

CONSTANTS
    MaxFrames,    \* bound: publications
    RingCap,      \* the writer's ring_capacity
    Window,       \* stream_replay_window_events
    QueueCap,     \* event_queue_maxsize
    MaxAttach,    \* bound: attachments of the viewer
    MaxRestarts   \* bound: restarts of the gateway

ASSUME StreamAssumption ==
    /\ RingCap \in Nat \ {0, 1} /\ {Window, QueueCap} \subseteq Nat \ {0}
    /\ {MaxFrames, MaxAttach, MaxRestarts} \subseteq Nat

VARIABLES
    numbering,  \* the allocator: how the run is numbered, its counter, its floor
    ring,       \* the writer's ring: publications, oldest first
    mark,       \* _flushed_through
    table,      \* the retained rows
    held,       \* terminal frames numbered and waiting for their settlement
    row,        \* the run's durable state: settled, and its last_sequence
    log,        \* every publication so far
    written,    \* those whose row was written, trimmed since or not
    vanished,   \* those that went with the whole ring, unwritten or unread by the viewer
    viewer,     \* the attachment being served
    client,     \* the client across its attachments
    attaches, restarts

streamVars == <<numbering, ring, mark, table, held, row, log, written, vanished, viewer, client,
                attaches, restarts>>

\* A refused terminal overtaken by a relay leaves a hole, so numbers outrun publications
MaxSeq == 2 * MaxFrames + 2

Unseeded == [state |-> "unseeded", counter |-> 0, floor |-> 0]
Publication == [at : 1..(MaxFrames + 1), seq : 0..MaxSeq, terminal : BOOLEAN, life : 0..MaxRestarts]
Detached == [pc |-> "off", subscribed |-> FALSE, queue |-> <<>>, dropped |-> FALSE,
             resume |-> 0, read |-> {}, settled |-> FALSE, highest |-> 0]

StreamTypeOK ==
    /\ numbering \in [state : {"unseeded", "numbered", "unseedable"},
                      counter : 0..MaxSeq, floor : 0..MaxSeq]
    /\ ToSet(ring) \subseteq Publication /\ Len(ring) <= RingCap
    /\ mark \in 0..MaxSeq
    /\ table \subseteq Publication /\ Cardinality(table) <= Window
    /\ held \subseteq [seq : 0..MaxSeq, state : {"held", "settled"}]
    /\ row \in [settled : BOOLEAN, last : 0..MaxSeq]
    /\ ToSet(log) \subseteq Publication /\ written \cup vanished \subseteq 1..Len(log)
    /\ viewer.pc \in {"off", "attached", "replay", "ring", "empty", "served", "live", "closed"}
    /\ ToSet(viewer.queue) \subseteq Publication /\ Len(viewer.queue) <= QueueCap
    /\ viewer.read \subseteq Publication
    /\ client \in [pos : 0..MaxSeq, known : 0..(MaxFrames + 1), warned : BOOLEAN,
                   missed : BOOLEAN, ended : BOOLEAN]
    /\ attaches \in 0..MaxAttach /\ restarts \in 0..MaxRestarts

StreamInit ==
    /\ numbering = Unseeded
    /\ ring = <<>> /\ mark = 0 /\ table = {} /\ held = {}
    /\ row = [settled |-> FALSE, last |-> 0]
    /\ log = <<>> /\ written = {} /\ vanished = {}
    /\ viewer = Detached
    /\ client = [pos |-> 0, known |-> 0, warned |-> FALSE, missed |-> FALSE, ended |-> FALSE]
    /\ attaches = 0 /\ restarts = 0

-----------------------------------------------------------------------------
\* Numbering and publishing

Sequences(pubs) == {p.seq : p \in pubs}
HighWater(pubs) == IF pubs = {} THEN 0 ELSE Max(Sequences(pubs))

\* RunSequenceAllocator.seed: the retained mark, else the settled cursor, never below
\* what this process already issued; a store that cannot be read leaves the run
\* without numbers
SeededFrom ==
    LET durable == IF table # {} THEN HighWater(table) ELSE row.last IN
    IF durable > numbering.floor THEN durable ELSE numbering.floor

Seed(readable) ==
    /\ numbering.state = "unseeded"
    /\ numbering' = IF readable
                      THEN [state |-> "numbered", counter |-> SeededFrom, floor |-> 0]
                      ELSE [numbering EXCEPT !.state = "unseedable"]
    /\ UNCHANGED <<ring, mark, table, held, row, log, written, vanished, viewer, client, attaches, restarts>>

Numbered == numbering.state = "numbered"
NextSeq == IF Numbered THEN numbering.counter + 1 ELSE 0

\* pop_oldest_droppable on a viewer's queue, whose outcome frames are the terminals
Evicted(queue) ==
    LET droppable == {i \in 1..Len(queue) : ~queue[i].terminal} IN
    RemoveAt(queue, IF droppable = {} THEN 1 ELSE Min(droppable))

\* Mutant of FanOut: an eviction from a full queue is not counted.
FanOutUncounted(p) ==
    IF ~viewer.subscribed THEN viewer
    ELSE IF Len(viewer.queue) < QueueCap THEN [viewer EXCEPT !.queue = Append(@, p)]
    ELSE [viewer EXCEPT !.queue = Append(Evicted(@), p)]

\* deliver_bounded
FanOut(p) ==
    IF ~viewer.subscribed THEN viewer
    ELSE IF Len(viewer.queue) < QueueCap THEN [viewer EXCEPT !.queue = Append(@, p)]
    ELSE [viewer EXCEPT !.queue = Append(Evicted(@), p), !.dropped = TRUE]

\* RunEventWriter.record: a numbered frame enters the ring, and the oldest leaves it
Recorded(p) ==
    IF p.seq = 0 THEN ring
    ELSE Append(IF Len(ring) < RingCap THEN ring ELSE Tail(ring), p)

Publish(seq, terminal) ==
    LET p == [at |-> Len(log) + 1, seq |-> seq, terminal |-> terminal, life |-> restarts] IN
    /\ log' = Append(log, p)
    /\ ring' = Recorded(p)

\* relay_payload.  A second batch may be relayed while a terminal of the first is
\* held: the worker repeats a batch whose answer was late.
Relay ==
    /\ numbering.state # "unseeded"
    /\ Len(log) < MaxFrames
    /\ Publish(NextSeq, FALSE)
    /\ viewer' = FanOut(log'[Len(log')])
    /\ numbering' = [numbering EXCEPT !.counter = IF Numbered THEN @ + 1 ELSE @]
    /\ UNCHANGED <<mark, table, held, row, written, vanished, client, attaches, restarts>>

\* hold_payload
HoldTerminal ==
    /\ numbering.state # "unseeded"
    /\ held = {}
    /\ Len(log) <= MaxFrames
    /\ held' = {[seq |-> NextSeq, state |-> "held"]}
    /\ numbering' = [numbering EXCEPT !.counter = IF Numbered THEN @ + 1 ELSE @]
    /\ UNCHANGED <<ring, mark, table, row, log, written, vanished, viewer, client, attaches, restarts>>

\* issued_high_water, captured before the durable write
Issued == CASE numbering.state = "numbered" -> numbering.counter
            [] numbering.state = "unseeded" -> numbering.floor
            [] OTHER -> 0

\* settle_terminal commits: the run is settled and its cursor recorded
SettleTerminal(h) ==
    /\ h \in held /\ h.state = "held"
    /\ ~row.settled
    /\ row' = [settled |-> TRUE, last |-> IF Issued > 0 THEN Issued ELSE row.last]
    /\ held' = (held \ {h}) \cup {[h EXCEPT !.state = "settled"]}
    /\ UNCHANGED <<numbering, ring, mark, table, log, written, vanished, viewer, client, attaches, restarts>>

\* RunSequenceAllocator.release: only the number at the top is given back
Released(seq) ==
    IF Numbered /\ numbering.counter = seq THEN [numbering EXCEPT !.counter = seq - 1]
    ELSE numbering

\* A promoted turn, a refused event or a handler that raised
RefuseTerminal(h) ==
    /\ h \in held /\ h.state = "held"
    /\ held' = held \ {h}
    /\ numbering' = Released(h.seq)
    /\ UNCHANGED <<ring, mark, table, row, log, written, vanished, viewer, client, attaches, restarts>>

\* publish_held, then clear_thread_state: the viewer's subscription goes, the counter
\* is forgotten and its floor kept
PublishTerminal(h) ==
    /\ h \in held /\ h.state = "settled"
    /\ held' = held \ {h}
    /\ Publish(h.seq, TRUE)
    /\ viewer' = [FanOut(log'[Len(log')]) EXCEPT !.subscribed = FALSE]
    /\ numbering' = [state |-> "unseeded", counter |-> 0,
                     floor |-> IF Numbered /\ numbering.counter > numbering.floor
                                 THEN numbering.counter ELSE numbering.floor]
    /\ UNCHANGED <<mark, table, row, written, vanished, client, attaches, restarts>>

-----------------------------------------------------------------------------
\* Retention and restarts

Unwritten == {p \in ToSet(ring) : p.seq > mark}

\* _trim_statement: the newest Window rows
Newest(pubs) ==
    {p \in pubs : Cardinality({q \in pubs : q.seq > p.seq}) < Window}

\* _flush_run: what is above the mark, in one statement that ignores rows it holds
Flush ==
    LET new == {p \in Unwritten : p.seq \notin Sequences(table)} IN
    /\ Unwritten # {}
    /\ table' = Newest(table \cup new)
    /\ written' = written \cup {p.at : p \in new}
    /\ mark' = HighWater(Unwritten)
    /\ UNCHANGED <<numbering, ring, held, row, log, vanished, viewer, client, attaches, restarts>>

\* A viewer between its two reads finds in neither what was written after the first
UnreadBy(v) == IF v.pc = "ring" THEN ToSet(ring) \ v.read ELSE {}

RingGoes ==
    /\ ring' = <<>> /\ mark' = 0
    /\ vanished' = vanished \cup {p.at : p \in Unwritten \cup UnreadBy(viewer)}

\* _ring_for: the ring of the coldest run goes when another run needs one, written or not
EvictRing ==
    /\ ring # <<>>
    /\ RingGoes
    /\ UNCHANGED <<numbering, table, held, row, log, written, viewer, client, attaches, restarts>>

\* The gateway goes away and comes back: an orderly one has written its ring (aclose),
\* one that died has not
Restart ==
    /\ restarts < MaxRestarts
    /\ restarts' = restarts + 1
    /\ numbering' = Unseeded
    /\ RingGoes /\ held' = {}
    /\ viewer' = Detached
    /\ UNCHANGED <<table, row, log, written, client, attaches>>

-----------------------------------------------------------------------------
\* The viewer

\* frames, _attach and subscribe: the subscription precedes every read.  Without a
\* cursor the client starts over and claims no earlier frame.
Attach(resume) ==
    /\ viewer.pc = "off"
    /\ ~client.ended
    /\ attaches < MaxAttach
    /\ attaches' = attaches + 1
    /\ viewer' = [Detached EXCEPT !.pc = "attached", !.subscribed = TRUE, !.resume = resume]
    /\ client' = IF resume > 0 THEN client ELSE [client EXCEPT !.pos = 0, !.warned = TRUE]
    /\ UNCHANGED <<numbering, ring, mark, table, held, row, log, written, vanished, restarts>>

\* _read_durable_state
ReadState ==
    /\ viewer.pc = "attached"
    /\ viewer' = [viewer EXCEPT !.settled = row.settled,
                                !.pc = IF viewer.resume = 0 THEN "served" ELSE "replay"]
    /\ UNCHANGED <<numbering, ring, mark, table, held, row, log, written, vanished, client, attaches, restarts>>

\* retained_after: the table is read, then the ring
ReadTable ==
    /\ viewer.pc = "replay"
    /\ viewer' = [viewer EXCEPT !.read = {p \in table : p.seq > viewer.resume}, !.pc = "ring"]
    /\ UNCHANGED <<numbering, ring, mark, table, held, row, log, written, vanished, client, attaches, restarts>>

Merged == viewer.read \cup {p \in ToSet(ring) : /\ p.seq > viewer.resume
                                                /\ p.seq \notin Sequences(viewer.read)}

\* _contiguous_tail
ContiguousTail(pubs) ==
    {p \in pubs : p.seq..HighWater(pubs) \subseteq Sequences(pubs)}

\* A client is served frames: it misses one when a publication it was not served lies
\* between what it knew of and what it gets, and no notice came.  A terminal is told
\* from the run's row as well (Proceed, IdleWait), so it is not missed; nor is a frame
\* that vanished, which nothing the gateway kept tells of.
Served(c, pubs) ==
    IF pubs = {} THEN c
    ELSE LET last == Max({p.at : p \in pubs})
             unseen == ((c.known + 1)..last) \ {p.at : p \in pubs} IN
         [c EXCEPT !.pos = IF HighWater(pubs) > 0 THEN HighWater(pubs) ELSE @,
                   !.known = IF last > c.known THEN last ELSE @,
                   !.warned = FALSE,
                   !.missed = @ \/ (~c.warned /\ \E i \in unseen : log[i].seq > 0 /\ ~log[i].terminal /\ i \notin vanished),
                   !.ended = @ \/ \E p \in pubs : p.terminal]

Warned(c) == [c EXCEPT !.warned = TRUE]

\* replay_window and _replayed: a short replay is announced before its frames
ServeReplay ==
    LET tail == ContiguousTail(Merged)
        complete == Min(Sequences(tail)) = viewer.resume + 1
        ended == \E p \in tail : p.terminal IN
    /\ viewer.pc = "ring"
    /\ IF Merged = {}
         THEN /\ viewer' = [viewer EXCEPT !.pc = "empty"]
              /\ UNCHANGED client
         ELSE /\ client' = Served(IF complete THEN client ELSE Warned(client), tail)
              /\ viewer' = [viewer EXCEPT !.highest = HighWater(tail), !.read = {},
                                          !.pc = IF ended THEN "closed" ELSE "served"]
    /\ UNCHANGED <<numbering, ring, mark, table, held, row, log, written, vanished, attaches, restarts>>

\* _empty_replay_window: the cursor is at the head, ahead of the run, or nothing is held
ServeEmpty ==
    LET kept == HighWater(table \cup ToSet(ring))
        honoured == kept > 0 /\ viewer.resume <= kept IN
    /\ viewer.pc = "empty"
    /\ client' = IF honoured THEN client ELSE Warned(client)
    /\ viewer' = [viewer EXCEPT !.pc = "served",
                                !.highest = IF viewer.resume < kept THEN viewer.resume ELSE kept]
    /\ UNCHANGED <<numbering, ring, mark, table, held, row, log, written, vanished, attaches, restarts>>

\* The durable terminal of a run that had settled at attachment, else the live loop
Proceed ==
    /\ viewer.pc = "served"
    /\ viewer' = [viewer EXCEPT !.pc = IF viewer.settled THEN "closed" ELSE "live"]
    /\ client' = IF viewer.settled THEN [client EXCEPT !.ended = TRUE] ELSE client
    /\ UNCHANGED <<numbering, ring, mark, table, held, row, log, written, vanished, attaches, restarts>>

\* replay_is_served: whether the numbers the frames carry are this gateway's
ReplayIsServed == numbering.state # "unseedable" /\ Issued > 0

\* _live: the notice of what was dropped, then the frame unless it was served already
ServeLive ==
    LET p == Head(viewer.queue)
        seq == IF ReplayIsServed THEN p.seq ELSE 0
        told == IF viewer.dropped THEN Warned(client) ELSE client
        again == seq > 0 /\ seq <= viewer.highest IN
    /\ viewer.pc = "live"
    /\ viewer.queue # <<>>
    /\ client' = IF again THEN told ELSE Served(told, {[p EXCEPT !.seq = seq]})
    /\ viewer' = [viewer EXCEPT !.queue = Tail(@), !.dropped = FALSE,
                                !.highest = IF seq > @ THEN seq ELSE @,
                                !.pc = IF p.terminal /\ ~again THEN "closed" ELSE "live"]
    /\ UNCHANGED <<numbering, ring, mark, table, held, row, log, written, vanished, attaches, restarts>>

\* _idle_frames: a heartbeat, or the terminal the run settled to unheard
IdleWait ==
    /\ viewer.pc = "live"
    /\ viewer.queue = <<>>
    /\ row.settled
    /\ viewer' = [viewer EXCEPT !.pc = "closed"]
    /\ client' = [client EXCEPT !.ended = TRUE]
    /\ UNCHANGED <<numbering, ring, mark, table, held, row, log, written, vanished, attaches, restarts>>

\* The client goes away, or the stream closed: the slot is released
Disconnect ==
    /\ viewer.pc # "off"
    /\ viewer' = Detached
    /\ UNCHANGED <<numbering, ring, mark, table, held, row, log, written, vanished, client, attaches, restarts>>

ViewerStep ==
    ReadState \/ ReadTable \/ ServeReplay \/ ServeEmpty \/ Proceed \/ ServeLive \/ IdleWait

StreamNext ==
    \/ Relay \/ HoldTerminal \/ Flush \/ EvictRing \/ Restart \/ Disconnect \/ ViewerStep
    \/ \E readable \in BOOLEAN : Seed(readable)
    \/ \E h \in held : SettleTerminal(h) \/ RefuseTerminal(h) \/ PublishTerminal(h)
    \/ \E resume \in {0, client.pos} : Attach(resume)

ViewerFairness == WF_streamVars(ViewerStep)

StreamSpec == StreamInit /\ [][StreamNext]_streamVars /\ ViewerFairness

-----------------------------------------------------------------------------
\* Properties

\* A gateway died before the row of a frame was written, and its successor, which counts
\* on from the rows, gave that frame's number or a lower one to another.
NumbersFellBack ==
    \E i, j \in 1..Len(log) : log[i].life < log[j].life /\ log[j].seq \in 1..log[i].seq

\* No numbered progress the gateway kept is lost to a client in silence while numbers only
\* go up: across disconnects, evictions from its queue and from the ring, trims of the
\* window and restarts of the gateway, it is told before the first frame that follows a
\* frame it did not get.
NoSilentLoss == client.missed => NumbersFellBack

\* One number names one frame over one lifetime of the gateway, and over its restarts for
\* every frame whose row was written, trimmed since or not: only a number whose frame
\* died with the ring of its gateway is given to a second frame.
OneFramePerNumber ==
    \A i, j \in 1..Len(log) :
        i < j /\ log[i].seq > 0 /\ log[i].seq = log[j].seq =>
            log[i].life # log[j].life /\ i \notin written

\* A client is told of a terminal only when the settlement is durable: the frame is
\* held back until the write that records it.
TerminalIsDurable == client.ended => row.settled

\* The ids a client is served go up, also from an attachment to the one that resumes it,
\* when a held terminal is published after a later number and when a gateway died with
\* frames unwritten: lower ids reach only a client that was told its cursor does not stand.
IdsGoUp == client'.pos >= client.pos \/ viewer'.pc = "attached" \/ client.warned

\* A viewer of a settled run is told how it ended, also when the terminal frame went by
\* before it subscribed, was dropped as a number already passed, or was never retained.
EndIsTold ==
    (viewer.pc # "off" /\ row.settled) ~> (viewer.pc = "off" \/ client.ended)
=============================================================================
