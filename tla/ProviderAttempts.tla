-------------------------- MODULE ProviderAttempts --------------------------
(***************************************************************************)
(* One worker turn and the attempts the graph's retry policy makes at it   *)
(* (graph/_compiler_retry.py, graph/nodes/worker.py, providers/conditions  *)
(* .py), over the two provider lanes' ways of failing (codex_chat_model.py *)
(* and _codex_protocol.py; acp_chat_model.py, _acp_prompt_outcomes.py and  *)
(* _acp_turn_failures.py).                                                 *)
(*                                                                         *)
(* A provider condition is kept as what the policy tells apart: "none"     *)
(* (the exception carries no condition), "unknown", "retryable"            *)
(* (THROTTLED, PROVIDER_OVERLOADED, NETWORK_UNREACHABLE) and "final".      *)
(***************************************************************************)
EXTENDS Integers, FiniteSets

CONSTANT MaxTurnAttempts   \* RetryPolicy.max_attempts

ASSUME AttemptsAssumption == MaxTurnAttempts \in Nat \ {0}

VARIABLES
    turnLane,      \* the lane of the turn
    attempt,       \* the attempt in progress
    stage,         \* "starting", "streaming", "raised", or how the turn ended
    relayedIn,     \* the attempts that streamed output to the client
    actedIn,       \* the attempts in which a tool may have acted
    silencedIn,    \* Codex: the attempts that went silent with no failure announced
    deferred,      \* Codex: the condition of the retry the lane announced, or "none"
    heldBack,          \* a permission request suspended the graph
    sentinelLost,  \* ACP: the chunk queue was full when the suspension was queued
    raised         \* the exception the attempt ended with

attemptVars == <<turnLane, attempt, stage, relayedIn, actedIn, silencedIn, deferred, heldBack, sentinelLost, raised>>

Conditions == {"none", "unknown", "retryable", "final"}
Stated == Conditions \ {"none"}
Hints == {"silent", "retry", "stop"}
Ended == {"done", "failed", "suspended"}
ErrorTypes == {"protocol", "transient", "session", "nodeTimeout"}

\* An exception: its class, the lane's own retry verdict, its condition, its effects flag
Exception(type, hint, condition, effects) ==
    [type |-> type, hint |-> hint, condition |-> condition, effects |-> effects]
NoException == Exception("protocol", "silent", "none", FALSE)

AttemptsTypeOK ==
    /\ turnLane \in {"acp", "codex"}
    /\ attempt \in 1..MaxTurnAttempts
    /\ stage \in {"starting", "streaming", "raised"} \cup Ended
    /\ relayedIn \cup actedIn \cup silencedIn \subseteq 1..MaxTurnAttempts
    /\ deferred \in Conditions /\ heldBack \in BOOLEAN /\ sentinelLost \in BOOLEAN
    /\ raised \in [type : ErrorTypes, hint : Hints, condition : Conditions, effects : BOOLEAN]

AttemptsInit ==
    /\ turnLane \in {"acp", "codex"}
    /\ attempt = 1 /\ stage = "starting"
    /\ relayedIn = {} /\ actedIn = {} /\ silencedIn = {} /\ deferred = "none"
    /\ heldBack = FALSE /\ sentinelLost = FALSE /\ raised = NoException

Acted == attempt \in actedIn

-----------------------------------------------------------------------------
\* The process starts, the session is set up and the prompt is sent
PromptSent ==
    /\ stage = "starting"
    /\ stage' = "streaming"
    /\ UNCHANGED <<turnLane, attempt, relayedIn, actedIn, silencedIn, deferred, heldBack, sentinelLost, raised>>

Raise(exception) ==
    /\ stage' = "raised" /\ raised' = exception
    /\ UNCHANGED <<turnLane, attempt, relayedIn, actedIn, silencedIn, deferred, heldBack, sentinelLost>>

\* The start fails: on the transport, or because the session cannot be proved
StartFails ==
    /\ stage = "starting"
    /\ \/ Raise(Exception("transient", "silent", "none", FALSE))
       \/ Raise(Exception("session", "silent", "none", FALSE))
       \/ \E c \in Stated : Raise(Exception("protocol", "silent", c, FALSE))

\* A text delta, a thought, or a tool item that is shown to the client
RelayOutput ==
    /\ stage = "streaming" /\ ~(heldBack /\ turnLane = "codex")
    /\ relayedIn' = relayedIn \cup {attempt}
    /\ UNCHANGED <<turnLane, attempt, stage, actedIn, silencedIn, deferred, heldBack, sentinelLost, raised>>

\* item/started of an action, an ACP tool_call, an effectful client request
ToolStarts ==
    /\ stage = "streaming" /\ ~(heldBack /\ turnLane = "codex")
    /\ actedIn' = actedIn \cup {attempt}
    /\ UNCHANGED <<turnLane, attempt, stage, relayedIn, silencedIn, deferred, heldBack, sentinelLost, raised>>

\* _record_turn_error of a failure the lane will retry itself: the first known one is kept
LaneWillRetry(c) ==
    /\ turnLane = "codex" /\ stage = "streaming" /\ ~heldBack
    /\ deferred' = IF deferred \in {"none", "unknown"} THEN c ELSE deferred
    /\ UNCHANGED <<turnLane, attempt, stage, relayedIn, actedIn, silencedIn, heldBack, sentinelLost, raised>>

\* _carry_condition
Carried(c) == IF c = "unknown" /\ deferred # "none" THEN deferred ELSE c

\* _record_turn_error of a final failure, and _complete_turn of a failed turn
LaneFails(c, hint) ==
    /\ turnLane = "codex" /\ stage = "streaming" /\ ~heldBack
    /\ Raise(Exception("protocol", hint, Carried(c), Acted))

\* A permission request suspends the graph (a held interrupt, or ctx.interrupt_exc)
HoldSuspension ==
    /\ stage = "streaming" /\ ~heldBack
    /\ heldBack' = TRUE
    /\ sentinelLost' \in IF turnLane = "acp" THEN BOOLEAN ELSE {FALSE}
    /\ UNCHANGED <<turnLane, attempt, stage, relayedIn, actedIn, silencedIn, deferred, raised>>

\* The turn consumer meets the suspension: at its next message, sentinel or end
Suspend ==
    /\ stage = "streaming" /\ heldBack
    /\ stage' = "suspended"
    /\ UNCHANGED <<turnLane, attempt, relayedIn, actedIn, silencedIn, deferred, heldBack, sentinelLost, raised>>

\* Whether the consumer looks at the suspension before the failure it has in hand
HeldFirst == heldBack /\ ~sentinelLost

\* Mutant of StreamCloses: the end of the stream is judged before the suspension.
StreamClosesFirst ==
    /\ stage = "streaming"
    /\ IF turnLane = "codex" /\ deferred # "none"
       THEN Raise(Exception("protocol", "retry", deferred, Acted))
       ELSE Raise(Exception("protocol", "silent", "unknown", Acted))

\* The process leaves before its turn ended: the deferred failure, or an abnormal exit
StreamCloses ==
    /\ stage = "streaming" /\ ~HeldFirst
    /\ IF turnLane = "codex" /\ deferred # "none"
       THEN Raise(Exception("protocol", "retry", deferred, Acted))
       ELSE Raise(Exception("protocol", "silent", "unknown", turnLane = "acp" /\ Acted))

\* No protocol activity for the idle limit: _next_turn_message, enforce_turn_deadline.  A
\* silent Codex turn that announced no failure raises the bare TimeoutError of the wait
IdleExpires ==
    /\ stage = "streaming" /\ ~HeldFirst
    /\ \/ turnLane = "acp" /\ Raise(Exception("protocol", "silent", "unknown", FALSE))
       \/ /\ turnLane = "codex" /\ deferred # "none"
          /\ Raise(Exception("protocol", "retry", deferred, Acted))
       \/ /\ turnLane = "codex" /\ deferred = "none"
          /\ stage' = "raised" /\ raised' = Exception("transient", "silent", "none", FALSE)
          /\ silencedIn' = silencedIn \cup {attempt}
          /\ UNCHANGED <<turnLane, attempt, relayedIn, actedIn, deferred, heldBack, sentinelLost>>

\* raise_prompt_error and raise_for_prompt_stop_reason
PromptFails(c) ==
    /\ turnLane = "acp" /\ stage = "streaming" /\ ~HeldFirst
    /\ Raise(Exception("protocol", "silent", c, Acted))

\* The turn ends well; an ACP end_turn still raises a suspension it holds
TurnCompletes ==
    /\ stage = "streaming" /\ ~heldBack
    /\ stage' = "done"
    /\ UNCHANGED <<turnLane, attempt, relayedIn, actedIn, silencedIn, deferred, heldBack, sentinelLost, raised>>

-----------------------------------------------------------------------------
\* _retry_verdict: the lane's word, else the condition, else the class
RetryVerdict(e) ==
    IF e.hint # "silent" THEN e.hint = "retry"
    ELSE IF e.condition # "none" THEN e.condition = "retryable"
    ELSE e.type = "transient"

\* _retry_wrapped_worker_error
RetryWrapped(e) ==
    /\ attempt \notin relayedIn
    /\ ~e.effects
    /\ e.type \notin {"session", "nodeTimeout"}
    /\ RetryVerdict(e)

RetriesLeft == attempt < MaxTurnAttempts

\* The graph's retry loop: another attempt with a fresh session, or the failure
RetryDecides ==
    /\ stage = "raised"
    /\ IF RetryWrapped(raised) /\ RetriesLeft
       THEN stage' = "starting" /\ attempt' = attempt + 1
       ELSE stage' = "failed" /\ attempt' = attempt
    /\ deferred' = "none" /\ heldBack' = FALSE /\ sentinelLost' = FALSE
    /\ UNCHANGED <<turnLane, relayedIn, actedIn, silencedIn, raised>>

\* TimeoutPolicy(run_timeout): the node has spent its budget
NodeTimesOut ==
    /\ stage \in {"starting", "streaming"}
    /\ Raise(Exception("nodeTimeout", "silent", "none", FALSE))

AttemptsNext ==
    \/ PromptSent \/ StartFails \/ RelayOutput \/ ToolStarts
    \/ \E c \in Stated : LaneWillRetry(c) \/ PromptFails(c)
    \/ \E c \in Stated, hint \in {"silent", "stop"} : LaneFails(c, hint)
    \/ HoldSuspension \/ Suspend \/ StreamCloses \/ IdleExpires \/ TurnCompletes
    \/ RetryDecides \/ NodeTimesOut

AttemptsFairness == WF_attemptVars(RetryDecides) /\ WF_attemptVars(NodeTimesOut)

AttemptsSpec == AttemptsInit /\ [][AttemptsNext]_attemptVars /\ AttemptsFairness
-----------------------------------------------------------------------------
\* What the client has been shown is never shown again: once an attempt has relayed any
\* output no other attempt of the turn is made (_RelayWatch, _retry_wrapped_worker_error).
OutputIsNotRepeated == \A a \in relayedIn : a = attempt /\ stage # "starting"

\* A turn in which a tool may have acted is not run again, however it failed: _compiler_retry
\* says "A tool may have changed external state even when no text was relayed."  The one
\* failure that does run it again is the bare TimeoutError of a Codex turn gone silent,
\* which says nothing of the tools that acted before it.
EffectsAreNotRepeated ==
    \A a \in actedIn : a \in silencedIn \/ (a = attempt /\ stage # "starting")

\* A question for a person is not lost to a failure that happens beside it: a held
\* suspension is what the turn ends with, unless the node ran out of its budget or the
\* full chunk queue had no room for the word of it (_raise_held_suspension).
SuspensionIsKept ==
    (stage = "raised" /\ heldBack) => sentinelLost \/ raised.type = "nodeTimeout"

\* What the retries of a turn promise: nothing shown or done is repeated, and no question
\* for a person is lost to them (_compiler_retry).
RetriesAreSafe == OutputIsNotRepeated /\ EffectsAreNotRepeated /\ SuspensionIsKept

\* Every turn is settled: done, failed or suspended, after the attempts it was granted.
TurnSettles ==
    (stage = "starting") ~> (stage \in Ended)

=============================================================================
