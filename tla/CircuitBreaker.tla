--------------------------- MODULE CircuitBreaker ---------------------------
(***************************************************************************)
(* The gateway's worker circuit breaker (control/circuit_breaker.py) and    *)
(* the dispatch calls and the watchdog that use it (control/dispatch.py,    *)
(* control/worker_management.py).                                           *)
(*                                                                          *)
(* The gateway is one asyncio process: the breaker's methods never await,   *)
(* so each is atomic, and what interleaves is the set of dispatch calls     *)
(* suspended in their HTTP POST.  A call is admitted in one step and        *)
(* answered, or abandoned, in a later one.                                  *)
(***************************************************************************)
EXTENDS Integers

CONSTANTS
    Calls,             \* the dispatch calls that may be in flight at once
    NoCall,            \* no call: the breaker's _probe_owner is None
    FailureThreshold,  \* consecutive failures that open the circuit
    RecoveryTimeout    \* ticks the circuit stays open

ASSUME BreakerAssumption ==
    /\ NoCall \notin Calls
    /\ FailureThreshold \in Nat \ {0}
    /\ RecoveryTimeout \in Nat

VARIABLES
    circuit,      \* _state
    failures,     \* _consecutive_failures, counted up to FailureThreshold
    elapsed,      \* monotonic() - _opened_at, counted up to RecoveryTimeout
    probeOwner,   \* the call whose admission is _probe_owner, or NoCall
    call,         \* what each dispatch call holds while its POST is pending
    restartCycle  \* the watchdog is restarting the worker

vars == <<circuit, failures, elapsed, probeOwner, call, restartCycle>>

\* "plain" and "probe" are a DispatchAdmission without and with holds_probe;
\* "cancel" is a call in flight that took no admission.
Holdings == {"idle", "plain", "probe", "cancel"}

TypeOK ==
    /\ circuit \in {"closed", "open", "half_open"}
    /\ failures \in 0..FailureThreshold
    /\ elapsed \in 0..RecoveryTimeout
    /\ probeOwner \in Calls \cup {NoCall}
    /\ call \in [Calls -> Holdings]
    /\ restartCycle \in BOOLEAN

Init ==
    /\ circuit = "closed"
    /\ failures = 0
    /\ elapsed = 0
    /\ probeOwner = NoCall
    /\ call = [c \in Calls |-> "idle"]
    /\ restartCycle = FALSE

InFlight(c) == call[c] # "idle"

-----------------------------------------------------------------------------
(* The breaker's methods.                                                   *)

\* The state property: reading it promotes an open circuit whose recovery
\* window is over.
State ==
    IF circuit = "open" /\ elapsed >= RecoveryTimeout THEN "half_open" ELSE circuit

\* _close: any answer of the worker settles the probe, whoever sent it.
Close ==
    /\ probeOwner' = NoCall
    /\ failures' = 0
    /\ circuit' = "closed"
    /\ UNCHANGED elapsed

record_success == Close

record_refusal == Close

\* Only ">= FailureThreshold" is ever asked of the count, so it stops there.
record_failure ==
    LET count == IF failures < FailureThreshold THEN failures + 1 ELSE failures
    IN  /\ probeOwner' = NoCall
        /\ failures' = count
        /\ IF count >= FailureThreshold
           THEN circuit' = "open" /\ elapsed' = 0
           ELSE UNCHANGED <<circuit, elapsed>>

\* Mutant of release_probe: whoever gives up gives the probe back.
release_probe_anyones(c) ==
    /\ probeOwner' = NoCall
    /\ UNCHANGED <<circuit, failures, elapsed>>

\* Mutant of release_probe: the abandoned probe is not given back.
release_probe_lost(c) == UNCHANGED <<circuit, failures, elapsed, probeOwner>>

release_probe(c) ==
    /\ probeOwner' = IF probeOwner = c THEN NoCall ELSE probeOwner
    /\ UNCHANGED <<circuit, failures, elapsed>>

-----------------------------------------------------------------------------
(* The dispatch calls.                                                      *)

\* pre_dispatch returns an admission; the POST is pending afterwards.
Admit(c) ==
    /\ ~InFlight(c)
    /\ State # "open"
    /\ State = "half_open" => probeOwner = NoCall
    /\ circuit' = State
    /\ probeOwner' = IF State = "half_open" THEN c ELSE probeOwner
    /\ call' = [call EXCEPT ![c] = IF State = "half_open" THEN "probe" ELSE "plain"]
    /\ UNCHANGED <<failures, elapsed, restartCycle>>

\* A cancel carries no graph receipt, so it is sent without asking.
SendCancel(c) ==
    /\ ~InFlight(c)
    /\ call' = [call EXCEPT ![c] = "cancel"]
    /\ UNCHANGED <<circuit, failures, elapsed, probeOwner, restartCycle>>

\* The worker replied 2xx.  Every arm ends in release_probe of the caller's own
\* admission, which finds the probe already settled.
Succeed(c) ==
    /\ InFlight(c)
    /\ record_success
    /\ call' = [call EXCEPT ![c] = "idle"]
    /\ UNCHANGED restartCycle

\* The worker replied 429 or another refusal it composed itself.
Refuse(c) ==
    /\ InFlight(c)
    /\ record_refusal
    /\ call' = [call EXCEPT ![c] = "idle"]
    /\ UNCHANGED restartCycle

\* A transport error, or a 5xx reply.
Fail(c) ==
    /\ InFlight(c)
    /\ record_failure
    /\ call' = [call EXCEPT ![c] = "idle"]
    /\ UNCHANGED restartCycle

\* The call is cancelled, or fails in the gateway, before either.
Abandon(c) ==
    /\ InFlight(c)
    /\ IF call[c] = "cancel"
       THEN UNCHANGED <<circuit, failures, elapsed, probeOwner>>
       ELSE release_probe(c)
    /\ call' = [call EXCEPT ![c] = "idle"]
    /\ UNCHANGED restartCycle

\* shut_out reads the state, and so may promote it; it reserves nothing.
ReadShutOut ==
    /\ circuit' = State
    /\ UNCHANGED <<failures, elapsed, probeOwner, call, restartCycle>>

\* Mutant of force_open: the watchdog opens the circuit without a failure run.
force_open_uncounted ==
    /\ ~restartCycle /\ restartCycle' = TRUE
    /\ probeOwner' = NoCall
    /\ circuit' = "open"
    /\ elapsed' = 0
    /\ UNCHANGED <<failures, call>>

\* The watchdog saw the worker crash, and starts to restart it.
force_open ==
    /\ ~restartCycle /\ restartCycle' = TRUE
    /\ probeOwner' = NoCall
    /\ failures' = FailureThreshold
    /\ circuit' = "open"
    /\ elapsed' = 0
    /\ UNCHANGED call

\* The worker is up again: the watchdog reports a success of no call.
WorkerRestarted ==
    /\ restartCycle /\ restartCycle' = FALSE
    /\ record_success
    /\ UNCHANGED call

\* The attempts are used up: the circuit stays as it is.
RestartFails ==
    /\ restartCycle /\ restartCycle' = FALSE
    /\ UNCHANGED <<circuit, failures, elapsed, probeOwner, call>>

Tick ==
    /\ circuit = "open"
    /\ elapsed < RecoveryTimeout
    /\ elapsed' = elapsed + 1
    /\ UNCHANGED <<circuit, failures, probeOwner, call, restartCycle>>

Settle(c) == Succeed(c) \/ Refuse(c) \/ Fail(c) \/ Abandon(c)

Next ==
    \/ \E c \in Calls : Admit(c) \/ SendCancel(c) \/ Settle(c)
    \/ ReadShutOut
    \/ force_open \/ WorkerRestarted \/ RestartFails
    \/ Tick

Spec == Init /\ [][Next]_vars

-----------------------------------------------------------------------------
(* Properties.                                                              *)

\* The probe the breaker waits for is always held by a call still in flight,
\* in a half-open circuit: release_probe's docstring names the alternative, a
\* "probe no one owns" that would "admit nothing until the process restarted".
ProbeIsOwned ==
    probeOwner # NoCall =>
        /\ circuit = "half_open"
        /\ call[probeOwner] = "probe"

\* A circuit that is not closed carries a full run of failures, so one further
\* failure of any call reopens a half-open circuit at once.
UnprovenKeepsItsFailures ==
    circuit # "closed" => failures = FailureThreshold

\* One half-open window waits for one call: while the window lasts and the POST of its
\* probe is pending, no other call takes the reservation over or gives it back, however
\* the calls admitted before it end ("no other dispatch is admitted until that probe
\* settles").  Another call's outcome does settle the probe, but it ends the window too:
\* an answer closes the circuit, and a failure reopens it because the count was kept.
OneProbePerWindow ==
    [][\A c \in Calls :
          /\ circuit = "half_open" /\ circuit' = "half_open"
          /\ probeOwner = c /\ call'[c] = "probe"
          => probeOwner' = c]_vars

=============================================================================
