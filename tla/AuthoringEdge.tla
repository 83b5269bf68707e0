---------------------------- MODULE AuthoringEdge ----------------------------
(***************************************************************************)
(* The client side of the engine's authoring plane: discovery and proof of   *)
(* the engine (authoring/discovery.py, _engine_trust.py,                     *)
(* _connection_proof.py), the client that re-resolves once                 *)
(* (authoring/client.py), the worker's relay of an agent's tool calls      *)
(* (worker/authoring_relay.py) and the session that submits a phase        *)
(* (authoring/session.py, used by submitter.py).                           *)
(*                                                                         *)
(* The engine is external: it serves one machine key at a time, names it     *)
(* in a discovery record it rewrites some time after a start or a          *)
(* rotation, keeps the commands it has applied under their idempotency     *)
(* keys, and may stop while a stranger takes its port.  A relayed call is  *)
(* one command, a submission is create_session, create_proposal and        *)
(* submit_for_review.  Heartbeat age, HMACs and the envelope grammar are   *)
(* reduced to the verdict "this listener holds this key".                  *)
(***************************************************************************)
EXTENDS Naturals, FiniteSets

CONSTANTS RelayCalls,      \* an agent's tool calls in one role of one run
          Submissions,     \* phase submissions of the run
          MaxEdgeDeliveries,   \* bound: deliveries of one logical call
          MaxEngineTurns   \* bound: stops and rotations of the engine

ASSUME EdgeConstants ==
    /\ RelayCalls \intersect Submissions = {} /\ "none" \notin RelayCalls
    /\ MaxEdgeDeliveries \in Nat /\ MaxEngineTurns \in Nat

VARIABLES authoringEngine, stranger, tokens, roleLock, relayCall

edgeVars == <<authoringEngine, stranger, tokens, roleLock, relayCall>>

EdgeCalls == RelayCalls \union Submissions
LastStep(k) == IF k \in Submissions THEN 3 ELSE 1
CallSettled == {"idle", "done", "refused", "denied", "failed"}

NewCall == [at |-> "idle", step |-> 1, deliveries |-> 0, key |-> 0, proc |-> 0,
            resent |-> FALSE, sends |-> 0, late |-> FALSE]

(* The submitter carries the endpoint the run was bound to at its start. *)
BoundKey == 1

(* Mutant of CommandKey: every delivery of a command has a key of its own. *)
KeyOfDelivery(k) == <<k, relayCall[k].step, relayCall[k].deliveries>>

(* The run-local material a key is derived from; not the delivery. *)
CommandKey(k) == <<k, relayCall[k].step, 0>>

(* Leaving the dispatch releases the role's lock. *)
CallEnds(k, at) ==
    /\ relayCall' = [relayCall EXCEPT ![k] = [NewCall EXCEPT !.at = at,
                                        !.deliveries = relayCall[k].deliveries]]
    /\ roleLock' = IF roleLock = k THEN "none" ELSE roleLock

CallTo(k, at) == relayCall' = [relayCall EXCEPT ![k].at = at] /\ UNCHANGED roleLock

-----------------------------------------------------------------------------
(* The CLI calls the tool, or the phase node runs; a delivery that failed  *)
(* is repeated under the same logical identity, from the first command.    *)
DeliverCommand(k) ==
    /\ relayCall[k].at \in {"idle", "failed"} /\ relayCall[k].deliveries < MaxEdgeDeliveries
    /\ relayCall' = [relayCall EXCEPT ![k] = [NewCall EXCEPT
                   !.at = IF k \in RelayCalls THEN "asked" ELSE "connect",
                   !.key = IF k \in RelayCalls THEN 0 ELSE BoundKey,
                   !.deliveries = relayCall[k].deliveries + 1]]
    /\ UNCHANGED <<authoringEngine, stranger, tokens, roleLock>>

(* authorize: the run still holds the role's token and the engine bearer.    *)
(* Checked on entry, again under the lock, again after the resolution.     *)
RoleAuthorized(k) == k \in Submissions \/ tokens

AdmitRelayed(k) ==
    /\ relayCall[k].at = "asked"
    /\ IF RoleAuthorized(k) THEN CallTo(k, "queued") ELSE CallEnds(k, "refused")
    /\ UNCHANGED <<authoringEngine, stranger, tokens>>

TakeRoleLock(k) ==
    /\ relayCall[k].at = "queued" /\ roleLock = "none"
    /\ IF RoleAuthorized(k) THEN roleLock' = k /\ relayCall' = [relayCall EXCEPT ![k].at = "resolve"]
       ELSE CallEnds(k, "refused")
    /\ UNCHANGED <<authoringEngine, stranger, tokens>>

(* The record names a key, and the listener proves that it holds it. *)
Proved == authoringEngine.record # 0 /\ authoringEngine.up /\ authoringEngine.key = authoringEngine.record

(* Runs in a thread: everything may have moved when it returns. *)
ResolveEngine(k) ==
    /\ relayCall[k].at = "resolve"
    /\ IF Proved
       THEN /\ relayCall' = [relayCall EXCEPT ![k].at = "authorize", ![k].key = authoringEngine.record,
                                    ![k].late = ~RoleAuthorized(k)]
            /\ UNCHANGED roleLock
       ELSE CallEnds(k, "failed")
    /\ UNCHANGED <<authoringEngine, stranger, tokens>>

AuthorizeAgain(k) ==
    /\ relayCall[k].at = "authorize"
    /\ IF RoleAuthorized(k) THEN CallTo(k, "connect") ELSE CallEnds(k, "refused")
    /\ UNCHANGED <<authoringEngine, stranger, tokens>>

-----------------------------------------------------------------------------
(* AuthoringClient._send: one re-resolution, on a failed proof or on a     *)
(* refused machine bearer, then the same command once more.                *)
ResolveOnce(k) == IF relayCall[k].resent THEN CallEnds(k, "failed") ELSE CallTo(k, "reresolve")

(* A new connection carries no request before its listener has proved the  *)
(* key.  Nobody listening is a plain transport failure.                    *)
ListenerHolds(k) == authoringEngine.up /\ authoringEngine.key = relayCall[k].key

Connect(k) ==
    /\ relayCall[k].at = "connect"
    /\ IF ListenerHolds(k)
       THEN /\ relayCall' = [relayCall EXCEPT ![k].at = "send",
                                    ![k].proc = IF stranger THEN 0 ELSE authoringEngine.proc]
            /\ UNCHANGED roleLock
       ELSE IF authoringEngine.up \/ stranger THEN ResolveOnce(k) ELSE CallEnds(k, "failed")
    /\ UNCHANGED <<authoringEngine, stranger, tokens>>

(* A stream whose process is gone breaks, or the pool drops it in time and *)
(* connects anew.  The engine answers on a proven stream: it refuses         *)
(* a key it no longer serves, replays a command it has applied, else       *)
(* applies or denies it; the answer may be lost, and a denial ends the     *)
(* submission.                                                             *)
SendCommand(k) ==
    /\ relayCall[k].at = "send"
    /\ IF ~authoringEngine.up \/ authoringEngine.proc # relayCall[k].proc
       THEN (CallEnds(k, "failed") \/ CallTo(k, "connect")) /\ UNCHANGED authoringEngine
       ELSE IF authoringEngine.key # relayCall[k].key
       THEN /\ UNCHANGED authoringEngine
            /\ IF relayCall[k].resent THEN CallEnds(k, "failed")
               ELSE /\ relayCall' = [relayCall EXCEPT ![k].at = "reresolve", ![k].sends = @ + 1]
                    /\ UNCHANGED roleLock
       ELSE \/ /\ CommandKey(k) \notin authoringEngine.ledger
               /\ CallEnds(k, "denied") /\ UNCHANGED authoringEngine
            \/ /\ authoringEngine' = [authoringEngine EXCEPT !.ledger = @ \union {CommandKey(k)}]
               /\ \/ CallEnds(k, "failed")
                  \/ /\ relayCall' = [relayCall EXCEPT ![k].at = "answered", ![k].sends = @ + 1]
                     /\ UNCHANGED roleLock
    /\ UNCHANGED <<stranger, tokens>>

Reresolve(k) ==
    /\ relayCall[k].at = "reresolve"
    /\ IF Proved
       THEN /\ relayCall' = [relayCall EXCEPT ![k].at = "connect", ![k].key = authoringEngine.record,
                                    ![k].resent = TRUE]
            /\ UNCHANGED roleLock
       ELSE CallEnds(k, "failed")
    /\ UNCHANGED <<authoringEngine, stranger, tokens>>

(* The session's next command goes over the same client; the re-resolution *)
(* is per command.                                                         *)
NextCommand(k) ==
    /\ relayCall[k].at = "answered"
    /\ IF relayCall[k].step = LastStep(k) THEN CallEnds(k, "done")
       ELSE /\ relayCall' = [relayCall EXCEPT ![k].at = "send", ![k].step = @ + 1,
                                    ![k].resent = FALSE, ![k].sends = 0]
            /\ UNCHANGED roleLock
    /\ UNCHANGED <<authoringEngine, stranger, tokens>>

-----------------------------------------------------------------------------
(* The engine, the port's next listener, and the end of the run's tokens.    *)
EngineStops ==
    /\ authoringEngine.up /\ authoringEngine.turns < MaxEngineTurns
    /\ authoringEngine' = [authoringEngine EXCEPT !.up = FALSE, !.turns = @ + 1]
    /\ UNCHANGED <<stranger, tokens, roleLock, relayCall>>

EngineStarts ==
    /\ ~authoringEngine.up /\ ~stranger
    /\ authoringEngine' = [authoringEngine EXCEPT !.up = TRUE, !.proc = @ + 1, !.key = @ + 1]
    /\ UNCHANGED <<stranger, tokens, roleLock, relayCall>>

EngineRotates ==
    /\ authoringEngine.up /\ authoringEngine.turns < MaxEngineTurns
    /\ authoringEngine' = [authoringEngine EXCEPT !.key = @ + 1, !.turns = @ + 1]
    /\ UNCHANGED <<stranger, tokens, roleLock, relayCall>>

EngineRecords ==
    /\ authoringEngine.up /\ authoringEngine.record # authoringEngine.key
    /\ authoringEngine' = [authoringEngine EXCEPT !.record = @ + 1]
    /\ UNCHANGED <<stranger, tokens, roleLock, relayCall>>

StrangerListens ==
    /\ ~authoringEngine.up
    /\ stranger' = ~stranger
    /\ UNCHANGED <<authoringEngine, tokens, roleLock, relayCall>>

ReleaseTokens ==
    /\ tokens /\ tokens' = FALSE
    /\ UNCHANGED <<authoringEngine, stranger, roleLock, relayCall>>

(* A role either submits its phase or calls the tools. *)
EdgeInit ==
    /\ authoringEngine = [up |-> TRUE, key |-> 1, record |-> 1, proc |-> 1, turns |-> 0,
                 ledger |-> {}]
    /\ stranger = FALSE /\ tokens = TRUE /\ roleLock = "none"
    /\ \E active \in {RelayCalls, Submissions} :
          relayCall = [k \in EdgeCalls |-> IF k \in active THEN NewCall
                    ELSE [NewCall EXCEPT !.deliveries = MaxEdgeDeliveries]]

EdgeStep(k) ==
    \/ AdmitRelayed(k) \/ TakeRoleLock(k) \/ ResolveEngine(k) \/ AuthorizeAgain(k)
    \/ Connect(k) \/ SendCommand(k) \/ Reresolve(k) \/ NextCommand(k)

EdgeNext ==
    \/ \E k \in EdgeCalls : DeliverCommand(k) \/ EdgeStep(k)
    \/ EngineStops \/ EngineStarts \/ EngineRotates \/ EngineRecords
    \/ StrangerListens \/ ReleaseTokens

EdgeFairness == \A k \in EdgeCalls : WF_edgeVars(EdgeStep(k))

EdgeSpec == EdgeInit /\ [][EdgeNext]_edgeVars /\ EdgeFairness

-----------------------------------------------------------------------------
(* Every field keeps its shape, and one command goes out at most twice.    *)
EdgeTypeOK ==
    /\ authoringEngine.record \in 0..authoringEngine.key /\ authoringEngine.key \in 1..(2 * MaxEngineTurns + 1)
    /\ authoringEngine.proc \in 1..(MaxEngineTurns + 1)
    /\ roleLock \in RelayCalls \union {"none"}
    /\ \A k \in EdgeCalls :
          /\ relayCall[k].step \in 1..LastStep(k) /\ relayCall[k].deliveries \in 0..MaxEdgeDeliveries
          /\ relayCall[k].sends \in 0..2
          /\ relayCall[k].at \in CallSettled \union {"asked", "queued", "resolve", "authorize",
                                            "connect", "send", "reresolve", "answered"}

(* However often a call is delivered, its answer lost or its bearer        *)
(* replaced on the way, the engine applies each logical command once.        *)
AppliedOnce ==
    \A x, y \in authoringEngine.ledger : x[1] = y[1] /\ x[2] = y[2] => x = y

(* A request leaves only on a stream whose listener proved the key the     *)
(* client carries: never to the process that took over the engine's port.    *)
SpokenToTheEngine ==
    \A k \in EdgeCalls : relayCall[k].at = "send" => relayCall[k].proc # 0 /\ relayCall[k].key # 0

(* A submission reaches review only behind its own proposal, and the       *)
(* proposal behind its session, whatever was denied, lost or repeated.     *)
SubmissionInOrder ==
    \A x \in authoringEngine.ledger : x[2] > 1 =>
        \E y \in authoringEngine.ledger : y[1] = x[1] /\ y[2] = x[2] - 1

(* Within one role at most one relayed call is past the lock, and none     *)
(* that found the run's tokens gone when its engine was resolved.            *)
OneCallPerRole ==
    /\ Cardinality({k \in RelayCalls :
          relayCall[k].at \notin CallSettled \union {"asked", "queued"}}) <= 1
    /\ \A k \in RelayCalls :
          relayCall[k].at \in {"connect", "send", "reresolve", "answered"} => ~relayCall[k].late

(* Every delivery ends: answered, denied, refused, or failed as retryable. *)
DeliveriesEnd ==
    \A k \in EdgeCalls : (relayCall[k].at # "idle") ~> (relayCall[k].at \in CallSettled)
=============================================================================
