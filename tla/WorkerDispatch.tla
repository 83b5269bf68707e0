--------------------------- MODULE WorkerDispatch ---------------------------
(***************************************************************************)
(* One worker's dispatches: the capacity slot a dispatch reserves before   *)
(* anything else (worker/executor.py), the compiled graph it binds to its  *)
(* run and keeps in a bounded cache (worker/graph_lifecycle.py), the       *)
(* arbitration under which it settles (worker/_dispatch_settlement.py),    *)
(* and the cancels and the drain that meet it on the way.                  *)
(*                                                                         *)
(* A dispatch is its own reservation: generations are never reused.        *)
(***************************************************************************)
EXTENDS Integers, Sequences, FiniteSets, SequencesExt

CONSTANTS
    Threads,         \* run identities
    Dispatches,      \* dispatches of a gateway, each delivered once
    Digests,         \* compilation identities: assignment and definition
    Plans,           \* what the dispatches may ask for: [Dispatches -> [thread, digest, kind]]
    Cancellable,     \* the runs somebody may cancel
    MaxConcurrent,   \* max_concurrent_threads
    MaxCached        \* max_cached_graphs

Orders == [thread : Threads, digest : Digests, kind : {"ingest", "resume"}]

ASSUME DispatchAssumption ==
    Plans \subseteq [Dispatches -> Orders] /\ MaxConcurrent \in Nat \ {0} /\ MaxCached \in Nat \ {0}

VARIABLES
    order,        \* per dispatch: [thread, digest, kind], fixed at the start
    dispatchAt,           \* per dispatch: how far it has come
    bindingSeen,         \* per dispatch: the compilation its checkpoint read found
    outcome,      \* per dispatch: how its run ended
    slot,         \* per thread: the dispatch that holds its ingest slot
    arbiter,      \* per thread: who holds its terminal arbitration
    boundRuns,        \* per thread: thread_compilation_digests
    keyOf,        \* per thread: thread_to_cache_key
    graphCache,   \* cached graphs <<thread, digest>>, oldest first
    durable,      \* per thread: the compilation its checkpoint records
    runTokens,       \* threads whose actor tokens the worker holds
    parkedRuns,   \* parked_threads
    pendingCancel,\* threads with a cancel nobody has answered
    cancelledRuns,    \* threads reported cancelled
    controls,     \* threads with an open run control
    drain         \* "no", "asked" or "done"

dispatchVars == <<order, dispatchAt, bindingSeen, outcome, slot, arbiter, boundRuns, keyOf, graphCache, durable,
                  runTokens, parkedRuns, pendingCancel, cancelledRuns, controls, drain>>
stores == <<boundRuns, keyOf, graphCache>>
None == "none"
\* completed and failed runs leave alike: "ended"
StreamOutcomes == {"ended", "parked", "drained"}
TurnedAway == "turned_away"
Terminal == {"ended", "cancelled"}

DispatchTypeOK ==
    /\ dispatchAt \in [Dispatches -> {"offered", "refused", "preflight", "binding", "bound", "compiled", "streaming",
                              "stopped", "settling", "rejecting", "turned_away", "leaving", "gone"}]
    /\ bindingSeen \in [Dispatches -> Digests \cup {None}]
    /\ outcome \in [Dispatches -> StreamOutcomes \cup Terminal \cup {None, TurnedAway}]
    /\ slot \in [Threads -> Dispatches \cup {None}]
    /\ arbiter \in [Threads -> Dispatches \cup {None, "cancel"}]
    /\ boundRuns \in [Threads -> Digests \cup {None}] /\ keyOf \in [Threads -> Digests \cup {None}]
    /\ durable \in [Threads -> Digests \cup {None}]
    /\ graphCache \in Seq(Threads \X Digests) /\ Len(graphCache) <= MaxCached
    /\ runTokens \subseteq Threads /\ parkedRuns \subseteq Threads
    /\ pendingCancel \subseteq Threads /\ controls \subseteq Threads
    /\ cancelledRuns \subseteq Threads
    /\ drain \in {"no", "asked", "done"}

DispatchInit ==
    /\ order \in Plans
    /\ dispatchAt = [d \in Dispatches |-> "offered"]
    /\ bindingSeen = [d \in Dispatches |-> None] /\ outcome = [d \in Dispatches |-> None]
    /\ slot = [t \in Threads |-> None] /\ arbiter = [t \in Threads |-> None]
    /\ boundRuns = [t \in Threads |-> None] /\ keyOf = [t \in Threads |-> None]
    /\ graphCache = <<>> /\ durable = [t \in Threads |-> None]
    /\ runTokens = {} /\ parkedRuns = {} /\ pendingCancel = {} /\ controls = {}
    /\ cancelledRuns = {} /\ drain = "no"

T(d) == order[d].thread
Digest(d) == order[d].digest
DispatchGoes(d, from, to) == dispatchAt[d] = from /\ dispatchAt' = [dispatchAt EXCEPT ![d] = to]
-----------------------------------------------------------------------------
\* _reserve_dispatch_capacity
Reserve(d) ==
    /\ dispatchAt[d] = "offered" /\ arbiter[T(d)] = None
    /\ IF drain = "no" /\ slot[T(d)] = None
          /\ Cardinality({t \in Threads : slot[t] # None}) < MaxConcurrent
       THEN DispatchGoes(d, "offered", "preflight") /\ slot' = [slot EXCEPT ![T(d)] = d]
       ELSE DispatchGoes(d, "offered", "refused") /\ UNCHANGED slot
    /\ UNCHANGED <<order, bindingSeen, outcome, arbiter, stores, durable, runTokens, parkedRuns, pendingCancel,
                   cancelledRuns, controls, drain>>

\* release_dispatch_capacity: only the exact reservation is dropped (drop_held)
Freed(d) == IF slot[T(d)] = d THEN [slot EXCEPT ![T(d)] = None] ELSE slot

\* handle_reserved_dispatch, finally: the slot is released, again or for the first time
LeaveDispatch(d) ==
    /\ \/ DispatchGoes(d, "leaving", "gone") \/ DispatchGoes(d, "turned_away", "gone")
    /\ slot' = Freed(d)
    /\ UNCHANGED <<order, bindingSeen, outcome, arbiter, stores, durable, runTokens, parkedRuns, pendingCancel,
                   cancelledRuns, controls, drain>>

\* release_thread
ThreadReleased(t) ==
    /\ graphCache' = SelectSeq(graphCache, LAMBDA k : k # <<t, keyOf[t]>>)
    /\ keyOf' = [keyOf EXCEPT ![t] = None]
    /\ boundRuns' = [boundRuns EXCEPT ![t] = None]

-----------------------------------------------------------------------------
\* pre_flight_checkpoint for an ingest: goes on, is rejected, or finds its run parked
Preflight(d) ==
    /\ \/ DispatchGoes(d, "preflight", "binding")
       \/ order[d].kind = "ingest" /\ durable[T(d)] # None /\ DispatchGoes(d, "preflight", "rejecting")
       \/ order[d].kind = "ingest" /\ durable[T(d)] # None /\ DispatchGoes(d, "preflight", "turned_away")
    /\ outcome' = [outcome EXCEPT ![d] = IF dispatchAt'[d] = "turned_away" THEN TurnedAway ELSE @]
    /\ UNCHANGED <<order, bindingSeen, slot, arbiter, stores, durable, runTokens, parkedRuns,
                   pendingCancel, cancelledRuns, controls, drain>>

\* _checkpoint_compilation_digests, read only for a run this worker has not bound
ReadDigest(d) ==
    /\ DispatchGoes(d, "binding", "bound")
    /\ bindingSeen' = [bindingSeen EXCEPT ![d] = IF boundRuns[T(d)] = None THEN durable[T(d)] ELSE None]
    /\ UNCHANGED <<order, outcome, slot, arbiter, stores, durable, runTokens, parkedRuns, pendingCancel,
                   cancelledRuns, controls, drain>>

\* _bind_compilation_authority: what the run is bound to, or else what its checkpoint says
Agrees(d) ==
    IF boundRuns[T(d)] = None THEN bindingSeen[d] \in {None, Digest(d)} ELSE boundRuns[T(d)] = Digest(d)

\* _resume_checkpoint_missing
NothingToResume(d) == order[d].kind = "resume" /\ durable[T(d)] = None

\* _get_or_compile_cache_key: the oldest graphs make room
Inserted(k) ==
    LET from == IF Len(graphCache) >= MaxCached THEN Len(graphCache) - MaxCached + 2 ELSE 1 IN
    Append(SubSeq(graphCache, from, Len(graphCache)), k)

\* _get_or_compile_graph_locked: the run's cached graph, or one compiled for it now
GraphReady(d) ==
    LET k == <<T(d), Digest(d)>> IN
    /\ Agrees(d) /\ ~NothingToResume(d)
    /\ DispatchGoes(d, "bound", "compiled")
    /\ boundRuns' = [boundRuns EXCEPT ![T(d)] = Digest(d)]
    /\ IF keyOf[T(d)] # None /\ <<T(d), keyOf[T(d)]>> \in Range(graphCache)
       THEN /\ keyOf[T(d)] = Digest(d)
            /\ graphCache' = Append(SelectSeq(graphCache, LAMBDA e : e # k), k)
            /\ UNCHANGED keyOf
       ELSE /\ graphCache' = Inserted(k)
            /\ keyOf' = [keyOf EXCEPT ![T(d)] = Digest(d)]
    /\ UNCHANGED <<order, bindingSeen, outcome, slot, arbiter, durable, runTokens, parkedRuns, pendingCancel,
                   cancelledRuns, controls, drain>>

\* The dispatch is bound to another compilation, has nothing to resume, or does not compile
GraphRefused(d) ==
    /\ DispatchGoes(d, "bound", "rejecting")
    /\ boundRuns' = IF Agrees(d) /\ ~NothingToResume(d) THEN [boundRuns EXCEPT ![T(d)] = Digest(d)] ELSE boundRuns
    /\ UNCHANGED <<order, bindingSeen, outcome, slot, arbiter, keyOf, graphCache, durable, runTokens, parkedRuns,
                   pendingCancel, cancelledRuns, controls, drain>>

\* pre_flight_resume turns an answer away and leaves its run as it was (_refuse_resume)
RefuseResume(d) ==
    /\ order[d].kind = "resume" /\ DispatchGoes(d, "compiled", "turned_away")
    /\ outcome' = [outcome EXCEPT ![d] = TurnedAway]
    /\ UNCHANGED <<order, bindingSeen, slot, arbiter, stores, durable, runTokens, parkedRuns,
                   pendingCancel, cancelledRuns, controls, drain>>

\* RunControlRegistry.open: a run opened under a drain stops before its first node
StartsIn(d) == IF drain # "no" THEN "stopped" ELSE "streaming"

\* _execute_run: the tokens are registered, the run's control opened and its graph started
Execute(d) ==
    /\ DispatchGoes(d, "compiled", StartsIn(d))
    /\ runTokens' = runTokens \cup {T(d)}
    /\ controls' = controls \cup {T(d)}
    /\ outcome' = IF StartsIn(d) = "stopped" THEN [outcome EXCEPT ![d] = "drained"] ELSE outcome
    /\ durable' = IF StartsIn(d) = "streaming" THEN [durable EXCEPT ![T(d)] = Digest(d)] ELSE durable
    /\ UNCHANGED <<order, bindingSeen, slot, arbiter, stores, parkedRuns, pendingCancel, cancelledRuns, drain>>

\* producer.ingest returns, or raises; a drain stops the run at its next superstep
StreamEnds(d, e) ==
    /\ DispatchGoes(d, "streaming", "stopped")
    /\ e = "drained" => drain # "no"
    /\ outcome' = [outcome EXCEPT ![d] = e]
    /\ UNCHANGED <<order, bindingSeen, slot, arbiter, stores, durable, runTokens, parkedRuns, pendingCancel,
                   cancelledRuns, controls, drain>>

-----------------------------------------------------------------------------
\* _mark_ingest_done and the close of the run's control; the slot goes with it
MarkDone(d, e) ==
    /\ parkedRuns' = IF e \in Terminal THEN parkedRuns \ {T(d)}
                     ELSE IF e = "parked" THEN parkedRuns \cup {T(d)} ELSE parkedRuns
    /\ IF e \in Terminal THEN ThreadReleased(T(d)) /\ runTokens' = runTokens \ {T(d)}
       ELSE UNCHANGED <<stores, runTokens>>
    /\ slot' = Freed(d)
    /\ controls' = controls \ {T(d)}

\* _settle_run: a drained run reports nothing and keeps what it holds
SettleDrained(d) ==
    /\ outcome[d] = "drained" /\ DispatchGoes(d, "stopped", "leaving")
    /\ MarkDone(d, "drained")
    /\ UNCHANGED <<order, bindingSeen, outcome, arbiter, durable, pendingCancel, cancelledRuns, drain>>

\* ... every other outcome waits for the run's arbitration
TakeArbitration(d) ==
    /\ outcome[d] # "drained" /\ DispatchGoes(d, "stopped", "settling")
    /\ arbiter[T(d)] = None /\ arbiter' = [arbiter EXCEPT ![T(d)] = d]
    /\ UNCHANGED <<order, bindingSeen, outcome, slot, stores, durable, runTokens, parkedRuns, pendingCancel,
                   cancelledRuns, controls, drain>>

\* _emit_terminal_outcome: an accepted cancel decides over what the run came to
Decided(d) == IF T(d) \in pendingCancel THEN "cancelled" ELSE outcome[d]

\* _settle_terminal
SettleDispatch(d) ==
    /\ DispatchGoes(d, "settling", "leaving") /\ arbiter[T(d)] = d
    /\ outcome' = [outcome EXCEPT ![d] = Decided(d)]
    /\ cancelledRuns' = IF Decided(d) = "cancelled" THEN cancelledRuns \cup {T(d)} ELSE cancelledRuns
    /\ pendingCancel' = pendingCancel \ {T(d)}
    /\ MarkDone(d, Decided(d))
    /\ arbiter' = [arbiter EXCEPT ![T(d)] = None]
    /\ UNCHANGED <<order, bindingSeen, durable, drain>>

\* _reject_with_condition: the dispatch failed before it ran; an accepted cancel is answered
Reject(d) ==
    /\ DispatchGoes(d, "rejecting", "leaving") /\ arbiter[T(d)] = None
    /\ cancelledRuns' = cancelledRuns \cup (pendingCancel \cap {T(d)})
    /\ pendingCancel' = pendingCancel \ {T(d)}
    /\ ThreadReleased(T(d)) /\ slot' = Freed(d)
    /\ UNCHANGED <<order, bindingSeen, outcome, arbiter, durable, runTokens, parkedRuns, controls, drain>>

\* An exception no inner handler took: _fail_unhandled_dispatch
Unhandled(d) ==
    /\ dispatchAt[d] \in {"preflight", "binding", "bound", "compiled"}
    /\ arbiter[T(d)] = None
    /\ dispatchAt' = [dispatchAt EXCEPT ![d] = "leaving"]
    /\ outcome' = [outcome EXCEPT ![d] = IF T(d) \in pendingCancel THEN "cancelled" ELSE "ended"]
    /\ cancelledRuns' = cancelledRuns \cup (pendingCancel \cap {T(d)})
    /\ pendingCancel' = pendingCancel \ {T(d)}
    /\ MarkDone(d, outcome'[d])
    /\ UNCHANGED <<order, bindingSeen, arbiter, durable, drain>>

-----------------------------------------------------------------------------
\* _handle_cancel, under the run's arbitration: the cancel is pending before the slot is read
AcceptCancel(t) ==
    /\ arbiter[t] = None /\ t \notin pendingCancel /\ t \notin cancelledRuns
    /\ pendingCancel' = pendingCancel \cup {t}
    /\ arbiter' = [arbiter EXCEPT ![t] = "cancel"]
    /\ UNCHANGED <<order, dispatchAt, bindingSeen, outcome, slot, stores, durable, runTokens, parkedRuns, cancelledRuns,
                   controls, drain>>

\* Mutant of ResolveCancel: a cancel that finds no run leaves the answer to the next one.
ResolveCancelDefers(t) ==
    /\ arbiter[t] = "cancel" /\ arbiter' = [arbiter EXCEPT ![t] = None]
    /\ UNCHANGED <<order, dispatchAt, bindingSeen, outcome, slot, stores, durable, runTokens, parkedRuns, pendingCancel,
                   cancelledRuns, controls, drain>>

\* ... an active dispatch answers it when it settles; otherwise the cancel itself ends the run
ResolveCancel(t) ==
    /\ arbiter[t] = "cancel" /\ arbiter' = [arbiter EXCEPT ![t] = None]
    /\ IF slot[t] # None THEN UNCHANGED <<stores, runTokens, pendingCancel, cancelledRuns>>
       ELSE /\ ThreadReleased(t) /\ runTokens' = runTokens \ {t}
            /\ pendingCancel' = pendingCancel \ {t}
            /\ cancelledRuns' = cancelledRuns \cup {t}
    /\ UNCHANGED <<order, dispatchAt, bindingSeen, outcome, slot, durable, parkedRuns, controls, drain>>

\* drain: every open control is asked, and the call returns once none is open
AskDrain ==
    /\ drain = "no" /\ drain' = "asked"
    /\ UNCHANGED <<order, dispatchAt, bindingSeen, outcome, slot, arbiter, stores, durable, runTokens, parkedRuns,
                   pendingCancel, cancelledRuns, controls>>
DrainReturns ==
    /\ drain = "asked" /\ controls = {} /\ drain' = "done"
    /\ UNCHANGED <<order, dispatchAt, bindingSeen, outcome, slot, arbiter, stores, durable, runTokens, parkedRuns,
                   pendingCancel, cancelledRuns, controls>>

DispatchStep(d) ==
    \/ Reserve(d) \/ Preflight(d) \/ ReadDigest(d) \/ GraphReady(d) \/ GraphRefused(d)
    \/ RefuseResume(d) \/ Execute(d) \/ SettleDrained(d) \/ TakeArbitration(d) \/ SettleDispatch(d)
    \/ Reject(d) \/ LeaveDispatch(d) \/ \E e \in StreamOutcomes : StreamEnds(d, e)

DispatchNext ==
    \/ \E d \in Dispatches : DispatchStep(d) \/ Unhandled(d)
    \/ \E t \in Cancellable : AcceptCancel(t)
    \/ \E t \in Threads : ResolveCancel(t)
    \/ AskDrain \/ DrainReturns

DispatchFairness ==
    /\ \A d \in Dispatches : WF_dispatchVars(DispatchStep(d))
    /\ \A t \in Threads : WF_dispatchVars(ResolveCancel(t))
    /\ WF_dispatchVars(DrainReturns)

DispatchSpec == DispatchInit /\ [][DispatchNext]_dispatchVars /\ DispatchFairness
-----------------------------------------------------------------------------
Underway == {"preflight", "binding", "bound", "compiled", "streaming", "stopped", "settling", "rejecting"}

\* A run executes once at a time: two dispatches of one thread are never underway together,
\* however often a dispatch that already ended gives its slot back.
OneDispatchPerRun ==
    \A d, e \in Dispatches :
        d # e /\ dispatchAt[d] \in Underway /\ dispatchAt[e] \in Underway => order[d].thread # order[e].thread

\* A run goes on under the graph it began with: a streaming dispatch is bound to the
\* compilation it named, and so is everything its checkpoint already holds.
StreamsItsOwnGraph ==
    \A d \in Dispatches : dispatchAt[d] \in {"compiled", "streaming"} =>
        /\ boundRuns[order[d].thread] = order[d].digest
        /\ durable[order[d].thread] \in {"none", order[d].digest}

\* A parked run keeps the tokens it authors with until a terminal status closes its window:
\* a dispatch refused in between does not take them.
ParkedKeepsTokens ==
    parkedRuns \ cancelledRuns \subseteq runTokens

\* A drain that has returned stays true: no run executes a node after it.
DrainIsFinal == drain = "done" => \A d \in Dispatches : dispatchAt[d] # "streaming"

\* A cancel the worker accepted is answered: by the run it found, or by itself. It may stay
\* unanswered only when the worker drains, or when the dispatch it found was turned away.
CancelIsAnswered ==
    \A t \in Threads : t \in pendingCancel ~>
        \/ t \notin pendingCancel \/ drain # "no"
        \/ \E d \in Dispatches : order[d].thread = t /\ outcome[d] = "turned_away"

\* A drain returns: the runs it asked stop, whatever else happens to them.
DrainEnds ==
    drain = "asked" ~> drain = "done"
=============================================================================
