----------------------------- MODULE EffectProofs -----------------------------
(***************************************************************************)
(* What an agent's tool calls and a run's submissions do to the engine, for  *)
(* any number of calls, deliveries, bridges, scopes and engine restarts:    *)
(* the client in front of the engine (AuthoringEdge) and the journal of     *)
(* bridged calls (ToolCallJournal).  They share no variable: each section  *)
(* proves one of them, and the last theorem puts them together.             *)
(***************************************************************************)
EXTENDS ToolCallJournal, FiniteSetTheorems, TLAPS

-----------------------------------------------------------------------------
(* The client of the authoring plane.                                       *)

\* Where a call is once its engine is known, and past the role's lock.
Resolved == {"authorize", "connect", "send", "reresolve", "answered"}
Underway == Resolved \cup {"resolve"}

EdgeCall ==
    [at : CallSettled \cup {"asked", "queued"} \cup Underway, step : Nat \ {0},
     deliveries : Nat, key : Nat, proc : Nat, resent : BOOLEAN, sends : Nat, late : BOOLEAN]

EngineType ==
    [up : BOOLEAN, key : Nat \ {0}, record : Nat, proc : Nat \ {0}, turns : Nat,
     ledger : SUBSET (EdgeCalls \X Nat \X {0})]

EdgeTypes ==
    /\ authoringEngine \in EngineType
    /\ relayCall \in [EdgeCalls -> EdgeCall]

\* No stranger has the port while the engine is up, and the ledger holds a
\* command only behind the one before it.
EngineFits ==
    /\ authoringEngine.up => ~stranger
    /\ \A k \in EdgeCalls, n \in Nat :
          n > 1 /\ <<k, n, 0>> \in authoringEngine.ledger => <<k, n - 1, 0>> \in authoringEngine.ledger

\* What a call carries, by where it is: a proven key, a proven process, the
\* commands that were applied before its own, its tokens and its lock.
CallFits(k) ==
    LET c == relayCall[k] IN
    /\ c.at \in Resolved => c.key # 0
    /\ c.at \in {"send", "answered"} => c.proc # 0
    /\ c.step > 1 => <<k, c.step - 1, 0>> \in authoringEngine.ledger
    /\ c.at = "answered" => <<k, c.step, 0>> \in authoringEngine.ledger
    /\ c.late => k \in RelayCalls /\ ~tokens
    /\ c.at \in Resolved \ {"authorize"} => ~c.late
    /\ k \in RelayCalls /\ c.at \in Underway => roleLock = k

EdgeInv == EdgeTypes /\ EngineFits /\ \A k \in EdgeCalls : CallFits(k)

\* A call that does not move keeps what it carries, as long as the ledger only
\* grows, the tokens do not come back and nobody takes its lock away.
LEMMA OtherCallFits ==
  ASSUME NEW j \in EdgeCalls, CallFits(j), relayCall'[j] = relayCall[j],
         authoringEngine.ledger \subseteq authoringEngine'.ledger,
         tokens' => tokens,
         j \in RelayCalls /\ roleLock = j => roleLock' = j
  PROVE  CallFits(j)'
  BY Zenon DEF CallFits

\* A step of one call.
LEMMA CallMoves ==
  ASSUME EdgeInv, NEW k \in EdgeCalls, NEW c \in EdgeCall,
         relayCall' = [relayCall EXCEPT ![k] = c],
         EdgeTypes => authoringEngine.ledger \subseteq authoringEngine'.ledger,
         tokens' => tokens,
         \A j \in RelayCalls : j # k /\ roleLock = j => roleLock' = j,
         relayCall'[k] = c => CallFits(k)'
  PROVE  /\ relayCall' \in [EdgeCalls -> EdgeCall]
         /\ \A j \in EdgeCalls : CallFits(j)'
  <1>1. /\ relayCall' \in [EdgeCalls -> EdgeCall]
        /\ relayCall'[k] = c
        /\ \A j \in EdgeCalls : j # k => relayCall'[j] = relayCall[j]
    BY Zenon DEF EdgeInv, EdgeTypes
  <1>2. ASSUME NEW j \in EdgeCalls PROVE CallFits(j)'
    <2>1. CASE j = k
      BY <1>1, <2>1, Zenon
    <2>2. CASE j # k
      BY <1>1, <2>2, OtherCallFits, Zenon DEF EdgeInv
    <2> QED
      BY <2>1, <2>2, Zenon
  <1> QED
    BY <1>1, <1>2, Zenon

\* A call that was not delivered.
LEMMA NewCallTyped == NewCall \in EdgeCall /\ NewCall.step = 1 /\ NewCall.late = FALSE
  <1>1. FALSE \in BOOLEAN /\ 0 \in Nat /\ 1 \in Nat \ {0} /\ "idle" \in CallSettled
    BY DEF CallSettled
  <1>2. NewCall \in EdgeCall
    BY <1>1, Zenon DEF EdgeCall, NewCall
  <1> QED
    BY <1>2, Zenon DEF NewCall

\* The end of a call: it carries nothing, and its lock is free.
LEMMA CallEndsFits ==
  ASSUME EdgeInv, NEW k \in EdgeCalls, NEW at \in CallSettled, CallEnds(k, at),
         authoringEngine.ledger \subseteq authoringEngine'.ledger, tokens' = tokens
  PROVE  /\ relayCall' \in [EdgeCalls -> EdgeCall]
         /\ \A j \in EdgeCalls : CallFits(j)'
  <1> DEFINE c == [NewCall EXCEPT !.at = at, !.deliveries = relayCall[k].deliveries]
  <1>1. relayCall[k].deliveries \in Nat
    BY Zenon DEF EdgeInv, EdgeTypes, EdgeCall
  <1>2. /\ c \in EdgeCall
        /\ c.at = at /\ c.step = 1 /\ c.late = FALSE
    BY <1>1, NewCallTyped, ZenonT(60) DEF EdgeCall
  <1>3. at \notin Underway /\ at \notin Resolved /\ at \notin {"send", "answered"} /\ ~(1 > 1)
    BY DEF CallSettled, Underway, Resolved
  <1>5. \A j \in RelayCalls : j # k /\ roleLock = j => roleLock' = j
    BY Zenon DEF CallEnds
  <1>6. relayCall' = [relayCall EXCEPT ![k] = c]
    BY Zenon DEF CallEnds
  <1> HIDE DEF c
  <1>4. ASSUME relayCall'[k] = c PROVE CallFits(k)'
    BY <1>2, <1>3, <1>4, Zenon DEF CallFits
  <1> QED
    BY <1>2, <1>4, <1>5, <1>6, CallMoves, ZenonT(60)

\* A call that only goes on to another place.
LEMMA CallToFits ==
  ASSUME EdgeInv, NEW k \in EdgeCalls, NEW at \in {"queued", "connect", "reresolve"}, CallTo(k, at),
         at # "queued" => relayCall[k].at \in Resolved /\ ~relayCall[k].late,
         authoringEngine' = authoringEngine, tokens' = tokens
  PROVE  /\ relayCall' \in [EdgeCalls -> EdgeCall]
         /\ \A j \in EdgeCalls : CallFits(j)'
  <1> DEFINE c == [relayCall[k] EXCEPT !.at = at]
  <1>1. /\ c \in EdgeCall /\ c.at = at
        /\ c.key = relayCall[k].key /\ c.step = relayCall[k].step /\ c.late = relayCall[k].late
    BY Zenon DEF EdgeInv, EdgeTypes, EdgeCall, Underway, Resolved
  <1>2. relayCall' = [relayCall EXCEPT ![k] = c] /\ roleLock' = roleLock
    BY Zenon DEF CallTo
  <1> HIDE DEF c
  <1>3. CallFits(k)
    BY Zenon DEF EdgeInv
  <1>4. at \notin {"send", "answered"} /\ (at \in Resolved \/ at \in Underway => at # "queued")
    BY Zenon DEF Resolved, Underway
  <1>5. relayCall[k].at \in Resolved => relayCall[k].at \in Underway
    BY Zenon DEF Underway
  <1>6. ASSUME relayCall'[k] = c PROVE CallFits(k)'
    BY <1>1, <1>2, <1>3, <1>4, <1>5, <1>6, Zenon DEF CallFits
  <1> QED
    BY <1>1, <1>2, <1>6, CallMoves, ZenonT(60)

\* A step of a call that the engine does not see.
LEMMA EngineUnseen ==
  ASSUME EdgeInv, UNCHANGED <<authoringEngine, stranger>>,
         relayCall' \in [EdgeCalls -> EdgeCall], \A j \in EdgeCalls : CallFits(j)'
  PROVE  EdgeInv'
  BY Zenon DEF EdgeInv, EdgeTypes, EngineFits

\* The engine applies the command a call is at, behind the one before it.
LEMMA EngineApplies ==
  ASSUME EdgeInv, NEW k \in EdgeCalls, stranger' = stranger,
         authoringEngine' = [authoringEngine EXCEPT !.ledger = @ \union {CommandKey(k)}]
  PROVE  /\ authoringEngine' \in EngineType /\ EngineFits'
         /\ authoringEngine.ledger \subseteq authoringEngine'.ledger
         /\ <<k, relayCall[k].step, 0>> \in authoringEngine'.ledger
  <1> DEFINE n == relayCall[k].step
  <1>1. n \in Nat \ {0}
    BY Zenon DEF EdgeInv, EdgeTypes, EdgeCall
  <1>2. authoringEngine \in EngineType /\ EngineFits
    BY Zenon DEF EdgeInv, EdgeTypes
  <1>3. n > 1 => <<k, n - 1, 0>> \in authoringEngine.ledger
    BY Zenon DEF EdgeInv, CallFits
  <1> HIDE DEF n
  <1>4. <<k, n, 0>> \in EdgeCalls \X Nat \X {0}
    BY <1>1, Zenon
  <1>5. CommandKey(k) = <<k, n, 0>>
    BY Zenon DEF CommandKey, n
  <1>6. /\ authoringEngine'.ledger = authoringEngine.ledger \cup {<<k, n, 0>>}
        /\ authoringEngine'.up = authoringEngine.up
    BY <1>2, <1>5, Zenon DEF EngineType
  <1>7. authoringEngine' \in EngineType
    BY <1>2, <1>4, <1>5, Zenon DEF EngineType
  <1>8. ASSUME NEW j \in EdgeCalls, NEW m \in Nat, m > 1, <<j, m, 0>> \in authoringEngine'.ledger
        PROVE  <<j, m - 1, 0>> \in authoringEngine'.ledger
    <2>1. CASE <<j, m, 0>> \in authoringEngine.ledger
      BY <1>2, <1>6, <1>8, <2>1, Zenon DEF EngineFits
    <2>2. CASE <<j, m, 0>> = <<k, n, 0>>
      <3>1. j = k /\ m = n
        BY <2>2, Zenon
      <3> QED
        BY <1>3, <1>6, <1>8, <3>1, Zenon
    <2> QED
      BY <1>6, <1>8, <2>1, <2>2, Zenon
  <1>9. EngineFits'
    BY <1>2, <1>6, <1>8, Zenon DEF EngineFits
  <1> QED
    BY <1>6, <1>7, <1>9, Zenon DEF n

\* One step per action.  A step of a call names the record it leaves.
LEMMA EdgeInvStep == EdgeInv /\ [EdgeNext]_edgeVars => EdgeInv'
  <1> SUFFICES ASSUME EdgeInv, [EdgeNext]_edgeVars PROVE EdgeInv'
    OBVIOUS
  <1> USE EdgeConstants
  <1>1. ASSUME NEW k \in EdgeCalls, DeliverCommand(k) PROVE EdgeInv'
    <2> DEFINE at  == IF k \in RelayCalls THEN "asked" ELSE "connect"
               key == IF k \in RelayCalls THEN 0 ELSE BoundKey
               n   == relayCall[k].deliveries + 1
               c   == [NewCall EXCEPT !.at = at, !.key = key, !.deliveries = n]
    <2>1. n \in Nat /\ key \in Nat /\ at \in {"asked", "connect"}
      BY DEF EdgeInv, EdgeTypes, EdgeCall, BoundKey
    <2>0. (k \in RelayCalls => at = "asked") /\ (at = "connect" => key # 0)
      BY DEF BoundKey
    <2>3. /\ relayCall' = [relayCall EXCEPT ![k] = c]
          /\ UNCHANGED <<authoringEngine, stranger, tokens, roleLock>>
      BY <1>1, Zenon DEF DeliverCommand
    <2> HIDE DEF at, key, n
    <2>2. /\ c \in EdgeCall /\ c.step = 1 /\ c.late = FALSE
          /\ c.at = at /\ c.key = key
      <3>1. at \in CallSettled \cup {"asked", "queued"} \cup Underway
        BY <2>1, Zenon DEF Underway, Resolved
      <3> QED
        BY <2>1, <3>1, NewCallTyped, ZenonT(60) DEF EdgeCall
    <2> HIDE DEF c
    <2>4. /\ ~(1 > 1) /\ c.at \notin {"send", "answered"} /\ (c.at \in Resolved => c.at = "connect")
          /\ (k \in RelayCalls => c.at \notin Underway)
      BY <2>0, <2>1, <2>2 DEF Resolved, Underway
    <2>5. ASSUME relayCall'[k] = c PROVE CallFits(k)'
      BY <2>0, <2>2, <2>3, <2>4, <2>5, Zenon DEF CallFits
    <2> QED
      BY <2>2, <2>3, <2>5, CallMoves, EngineUnseen, ZenonT(60)
  <1>2. ASSUME NEW k \in EdgeCalls, AdmitRelayed(k) PROVE EdgeInv'
    <2>1. CallTo(k, "queued") \/ CallEnds(k, "refused")
      BY <1>2, Zenon DEF AdmitRelayed
    <2>2. UNCHANGED <<authoringEngine, stranger, tokens>>
      BY <1>2, Zenon DEF AdmitRelayed
    <2> QED
      BY <2>1, <2>2, CallToFits, CallEndsFits, EngineUnseen, Zenon DEF CallSettled
  <1>3. ASSUME NEW k \in EdgeCalls, TakeRoleLock(k) PROVE EdgeInv'
    <2>1. UNCHANGED <<authoringEngine, stranger, tokens>> /\ relayCall[k].at = "queued" /\ roleLock = "none"
      BY <1>3, Zenon DEF TakeRoleLock
    <2>2. CASE CallEnds(k, "refused")
      BY <2>1, <2>2, CallEndsFits, EngineUnseen, Zenon DEF CallSettled
    <2>3. CASE roleLock' = k /\ relayCall' = [relayCall EXCEPT ![k].at = "resolve"]
      <3> DEFINE c == [relayCall[k] EXCEPT !.at = "resolve"]
      <3>1. /\ c \in EdgeCall /\ c.at = "resolve"
            /\ c.step = relayCall[k].step /\ c.late = relayCall[k].late
        BY DEF EdgeInv, EdgeTypes, EdgeCall, Underway, Resolved
      <3>2. relayCall' = [relayCall EXCEPT ![k] = c]
        BY <2>3, Zenon
      <3> HIDE DEF c
      <3>3. "resolve" \notin Resolved /\ "resolve" \notin {"send", "answered"}
        BY Zenon DEF Resolved
      <3>4. CallFits(k)
        BY Zenon DEF EdgeInv
      <3>5. ASSUME relayCall'[k] = c PROVE CallFits(k)'
        BY <2>1, <2>3, <3>1, <3>3, <3>4, <3>5, Zenon DEF CallFits
      <3> QED
        <4>1. \A j \in RelayCalls : roleLock # j
          BY <2>1, Zenon
        <4>2. /\ relayCall' \in [EdgeCalls -> EdgeCall]
              /\ \A j \in EdgeCalls : CallFits(j)'
          BY <2>1, <2>3, <3>1, <3>2, <3>5, <4>1, CallMoves, ZenonT(60)
        <4> QED
          BY <2>1, <4>2, EngineUnseen, Zenon
    <2> QED
      BY <1>3, <2>2, <2>3, Zenon DEF TakeRoleLock
  <1>4. ASSUME NEW k \in EdgeCalls, ResolveEngine(k) PROVE EdgeInv'
    <2>1. UNCHANGED <<authoringEngine, stranger, tokens>> /\ relayCall[k].at = "resolve"
      BY <1>4, Zenon DEF ResolveEngine
    <2>2. CASE CallEnds(k, "failed")
      BY <2>1, <2>2, CallEndsFits, EngineUnseen, Zenon DEF CallSettled
    <2>3. CASE /\ Proved /\ roleLock' = roleLock
               /\ relayCall' = [relayCall EXCEPT ![k].at = "authorize", ![k].key = authoringEngine.record,
                                                ![k].late = ~RoleAuthorized(k)]
      <3> DEFINE c == [relayCall[k] EXCEPT !.at = "authorize", !.key = authoringEngine.record,
                                           !.late = ~RoleAuthorized(k)]
      <3>1. /\ c.at = "authorize" /\ c.key = authoringEngine.record
            /\ c.step = relayCall[k].step /\ c.late = ~RoleAuthorized(k)
        BY Zenon DEF EdgeInv, EdgeTypes, EdgeCall
      <3>2. c \in EdgeCall
        <4>1. (~RoleAuthorized(k)) \in BOOLEAN
          BY Zenon
        <4> QED
          BY <4>1, ZenonT(60) DEF EdgeInv, EdgeTypes, EdgeCall, EngineType, Underway, Resolved
      <3>3. relayCall' = [relayCall EXCEPT ![k] = c]
        BY <2>3, ZenonT(60) DEF EdgeInv, EdgeTypes
      <3> HIDE DEF c
      <3>4. /\ "authorize" \in Resolved /\ "authorize" \notin {"send", "answered"}
            /\ "resolve" \in Underway /\ "authorize" \in Underway
        BY Zenon DEF Resolved, Underway
      <3>5. CallFits(k) /\ c.key # 0
        BY <2>3, <3>1, Zenon DEF EdgeInv, Proved
      <3>6. k \in RelayCalls \/ k \in Submissions
        BY Zenon DEF EdgeCalls
      <3>7. ASSUME relayCall'[k] = c PROVE CallFits(k)'
        BY <2>1, <2>3, <3>1, <3>4, <3>5, <3>6, <3>7, Zenon DEF CallFits, RoleAuthorized
      <3> QED
        <4>1. UNCHANGED <<authoringEngine, stranger, tokens, roleLock>>
          BY <2>1, <2>3, Zenon
        <4> QED
          BY <3>2, <3>3, <3>7, <4>1, CallMoves, EngineUnseen, ZenonT(60)
    <2> QED
      BY <1>4, <2>2, <2>3, Zenon DEF ResolveEngine
  <1>5. ASSUME NEW k \in EdgeCalls, AuthorizeAgain(k) PROVE EdgeInv'
    <2>1. UNCHANGED <<authoringEngine, stranger, tokens>> /\ relayCall[k].at = "authorize"
      BY <1>5, Zenon DEF AuthorizeAgain
    <2>2. CASE CallEnds(k, "refused")
      BY <2>1, <2>2, CallEndsFits, EngineUnseen, Zenon DEF CallSettled
    <2>3. CASE RoleAuthorized(k) /\ CallTo(k, "connect")
      <3>1. ~relayCall[k].late
        BY <2>3, Zenon DEF EdgeInv, CallFits, RoleAuthorized
      <3>2. relayCall[k].at \in Resolved
        BY <2>1, Zenon DEF Resolved
      <3> QED
        BY <2>1, <2>3, <3>1, <3>2, CallToFits, EngineUnseen, Zenon
    <2> QED
      BY <1>5, <2>2, <2>3, Zenon DEF AuthorizeAgain
  <1>6. ASSUME NEW k \in EdgeCalls, Connect(k) PROVE EdgeInv'
    <2>1. UNCHANGED <<authoringEngine, stranger, tokens>> /\ relayCall[k].at = "connect"
      BY <1>6, Zenon DEF Connect
    <2>2. CASE CallEnds(k, "failed")
      BY <2>1, <2>2, CallEndsFits, EngineUnseen, Zenon DEF CallSettled
    <2>3. CallFits(k) /\ relayCall[k].at \in Resolved /\ ~relayCall[k].late
      <3>1. "connect" \in Resolved \ {"authorize"} /\ "connect" \in Resolved
        BY Zenon DEF Resolved
      <3> QED
        BY <2>1, <3>1, Zenon DEF EdgeInv, CallFits
    <2>4. CASE CallTo(k, "reresolve")
      BY <2>1, <2>3, <2>4, CallToFits, EngineUnseen, Zenon
    <2>5. CASE /\ ListenerHolds(k) /\ roleLock' = roleLock
               /\ relayCall' = [relayCall EXCEPT ![k].at = "send",
                                    ![k].proc = IF stranger THEN 0 ELSE authoringEngine.proc]
      <3>1. ~stranger
        BY <2>5, Zenon DEF EdgeInv, EngineFits, ListenerHolds
      <3>2. authoringEngine.proc \in Nat \ {0}
        BY Zenon DEF EdgeInv, EdgeTypes, EngineType
      <3> DEFINE c == [relayCall[k] EXCEPT !.at = "send", !.proc = authoringEngine.proc]
      <3>3. /\ c \in EdgeCall /\ c.at = "send" /\ c.proc # 0
            /\ c.key = relayCall[k].key /\ c.step = relayCall[k].step /\ c.late = relayCall[k].late
        BY <3>2, ZenonT(60) DEF EdgeInv, EdgeTypes, EdgeCall, Underway, Resolved
      <3>4. relayCall' = [relayCall EXCEPT ![k] = c]
        <4>1. relayCall' = [relayCall EXCEPT ![k].at = "send", ![k].proc = authoringEngine.proc]
          BY <2>5, <3>1, Zenon
        <4> QED
          BY <4>1, ZenonT(60) DEF EdgeInv, EdgeTypes
      <3> HIDE DEF c
      <3>5. "connect" \in Underway
        BY Zenon DEF Underway, Resolved
      <3>6. ASSUME relayCall'[k] = c PROVE CallFits(k)'
        BY <2>1, <2>3, <2>5, <3>3, <3>5, <3>6, Zenon DEF CallFits
      <3> QED
        <4>1. UNCHANGED <<authoringEngine, stranger, tokens, roleLock>>
          BY <2>1, <2>5, Zenon
        <4> QED
          BY <3>3, <3>4, <3>6, <4>1, CallMoves, EngineUnseen, ZenonT(60)
    <2> QED
      BY <1>6, <2>2, <2>4, <2>5, Zenon DEF Connect, ResolveOnce
  <1>7. ASSUME NEW k \in EdgeCalls, Reresolve(k) PROVE EdgeInv'
    <2>1. UNCHANGED <<authoringEngine, stranger, tokens>> /\ relayCall[k].at = "reresolve"
      BY <1>7, Zenon DEF Reresolve
    <2>2. CASE CallEnds(k, "failed")
      BY <2>1, <2>2, CallEndsFits, EngineUnseen, Zenon DEF CallSettled
    <2>3. CASE /\ Proved /\ roleLock' = roleLock
               /\ relayCall' = [relayCall EXCEPT ![k].at = "connect", ![k].key = authoringEngine.record,
                                                ![k].resent = TRUE]
      <3> DEFINE c == [relayCall[k] EXCEPT !.at = "connect", !.key = authoringEngine.record, !.resent = TRUE]
      <3>1. /\ c.at = "connect" /\ c.key = authoringEngine.record
            /\ c.step = relayCall[k].step /\ c.late = relayCall[k].late
        BY Zenon DEF EdgeInv, EdgeTypes, EdgeCall
      <3>2. c \in EdgeCall
        BY ZenonT(60) DEF EdgeInv, EdgeTypes, EngineType, EdgeCall, Underway, Resolved
      <3>3. relayCall' = [relayCall EXCEPT ![k] = c]
        BY <2>3, ZenonT(60) DEF EdgeInv, EdgeTypes
      <3> HIDE DEF c
      <3>4. /\ "connect" \notin {"send", "answered"} /\ "connect" \in Resolved
            /\ "reresolve" \in Underway /\ "reresolve" \in Resolved \ {"authorize"}
        BY Zenon DEF Resolved, Underway
      <3>5. CallFits(k) /\ c.key # 0
        BY <2>3, <3>1, Zenon DEF EdgeInv, Proved
      <3>6. ASSUME relayCall'[k] = c PROVE CallFits(k)'
        BY <2>1, <2>3, <3>1, <3>4, <3>5, <3>6, Zenon DEF CallFits
      <3>7. UNCHANGED <<authoringEngine, stranger, tokens, roleLock>>
        BY <2>1, <2>3, Zenon
      <3> QED
        BY <3>2, <3>3, <3>6, <3>7, CallMoves, EngineUnseen, ZenonT(60)
    <2> QED
      BY <1>7, <2>2, <2>3, Zenon DEF Reresolve
  <1>8. ASSUME NEW k \in EdgeCalls, NextCommand(k) PROVE EdgeInv'
    <2>1. UNCHANGED <<authoringEngine, stranger, tokens>> /\ relayCall[k].at = "answered"
      BY <1>8, Zenon DEF NextCommand
    <2>2. CASE CallEnds(k, "done")
      BY <2>1, <2>2, CallEndsFits, EngineUnseen, Zenon DEF CallSettled
    <2>3. CASE /\ roleLock' = roleLock
               /\ relayCall' = [relayCall EXCEPT ![k].at = "send", ![k].step = @ + 1,
                                                ![k].resent = FALSE, ![k].sends = 0]
      <3> DEFINE c == [relayCall[k] EXCEPT !.at = "send", !.step = relayCall[k].step + 1,
                                           !.resent = FALSE, !.sends = 0]
      <3>1. /\ c.at = "send" /\ c.key = relayCall[k].key /\ c.proc = relayCall[k].proc
            /\ c.step = relayCall[k].step + 1 /\ c.late = relayCall[k].late
        BY Zenon DEF EdgeInv, EdgeTypes, EdgeCall
      <3>2. c \in EdgeCall
        <4>1. relayCall[k] \in EdgeCall
          BY Zenon DEF EdgeInv, EdgeTypes
        <4>2. relayCall[k].step + 1 \in Nat \ {0}
          BY <4>1 DEF EdgeCall
        <4>3. "send" \in CallSettled \cup {"asked", "queued"} \cup Underway /\ FALSE \in BOOLEAN /\ 0 \in Nat
          BY Zenon DEF Underway, Resolved
        <4> QED
          BY <4>1, <4>2, <4>3, ZenonT(60) DEF EdgeCall
      <3>3. relayCall' = [relayCall EXCEPT ![k] = c]
        BY <2>3, Zenon DEF EdgeInv, EdgeTypes
      <3>4. c.step - 1 = relayCall[k].step
        BY <3>1 DEF EdgeInv, EdgeTypes, EdgeCall
      <3> HIDE DEF c
      <3>5. /\ "send" # "answered" /\ "answered" \in Resolved /\ "answered" \in Underway
            /\ "answered" \in Resolved \ {"authorize"}
        BY Zenon DEF Resolved, Underway
      <3>6. CallFits(k)
        BY Zenon DEF EdgeInv
      <3>7. ASSUME relayCall'[k] = c PROVE CallFits(k)'
        BY <2>1, <2>3, <3>1, <3>4, <3>5, <3>6, <3>7, Zenon DEF CallFits
      <3>8. UNCHANGED <<authoringEngine, stranger, tokens, roleLock>>
        BY <2>1, <2>3, Zenon
      <3> QED
        BY <3>2, <3>3, <3>7, <3>8, CallMoves, EngineUnseen, Zenon
    <2> QED
      BY <1>8, <2>2, <2>3, Zenon DEF NextCommand
  <1>9. ASSUME NEW k \in EdgeCalls, SendCommand(k) PROVE EdgeInv'
    <2>1. UNCHANGED <<stranger, tokens>> /\ relayCall[k].at = "send"
      BY <1>9, Zenon DEF SendCommand
    <2>2. CallFits(k) /\ relayCall[k].at \in Resolved /\ ~relayCall[k].late
      <3>1. "send" \in Resolved \ {"authorize"} /\ "send" \in Resolved
        BY Zenon DEF Resolved
      <3> QED
        BY <2>1, <3>1, Zenon DEF EdgeInv, CallFits
    <2>3. CASE UNCHANGED authoringEngine /\ (CallEnds(k, "failed") \/ CallEnds(k, "denied"))
      BY <2>1, <2>3, CallEndsFits, EngineUnseen, Zenon DEF CallSettled
    <2>4. CASE UNCHANGED authoringEngine /\ CallTo(k, "connect")
      BY <2>1, <2>2, <2>4, CallToFits, EngineUnseen, Zenon
    <2>5. ASSUME NEW at \in {"reresolve", "answered"}, roleLock' = roleLock,
                 relayCall' = [relayCall EXCEPT ![k].at = at, ![k].sends = @ + 1],
                 authoringEngine.ledger \subseteq authoringEngine'.ledger,
                 at = "answered" => <<k, relayCall[k].step, 0>> \in authoringEngine'.ledger
          PROVE  relayCall' \in [EdgeCalls -> EdgeCall] /\ \A j \in EdgeCalls : CallFits(j)'
      <3> DEFINE c == [relayCall[k] EXCEPT !.at = at, !.sends = relayCall[k].sends + 1]
      <3>1. /\ c.at = at /\ c.key = relayCall[k].key /\ c.proc = relayCall[k].proc
            /\ c.step = relayCall[k].step /\ c.late = relayCall[k].late
        BY Zenon DEF EdgeInv, EdgeTypes, EdgeCall
      <3>2. c \in EdgeCall
        <4>1. relayCall[k] \in EdgeCall
          BY Zenon DEF EdgeInv, EdgeTypes
        <4>2. relayCall[k].sends + 1 \in Nat
          BY <4>1 DEF EdgeCall
        <4>3. at \in CallSettled \cup {"asked", "queued"} \cup Underway
          BY Zenon DEF Underway, Resolved
        <4> QED
          BY <4>1, <4>2, <4>3, ZenonT(60) DEF EdgeCall
      <3>3. relayCall' = [relayCall EXCEPT ![k] = c]
        BY <2>5, Zenon DEF EdgeInv, EdgeTypes
      <3> HIDE DEF c
      <3>4. "send" \in Underway
        BY Zenon DEF Resolved, Underway
      <3>5. ASSUME relayCall'[k] = c PROVE CallFits(k)'
        BY <2>1, <2>2, <2>5, <3>1, <3>4, <3>5, Zenon DEF CallFits
      <3> QED
        BY <2>1, <2>5, <3>2, <3>3, <3>5, CallMoves, ZenonT(60)
    <2>6. CASE /\ UNCHANGED <<authoringEngine, roleLock>>
               /\ relayCall' = [relayCall EXCEPT ![k].at = "reresolve", ![k].sends = @ + 1]
      BY <2>1, <2>5, <2>6, EngineUnseen, Zenon
    <2>7. CASE authoringEngine' = [authoringEngine EXCEPT !.ledger = @ \union {CommandKey(k)}]
               /\ \/ CallEnds(k, "failed")
                  \/ /\ relayCall' = [relayCall EXCEPT ![k].at = "answered", ![k].sends = @ + 1]
                     /\ UNCHANGED roleLock
      <3>1. /\ authoringEngine' \in EngineType /\ EngineFits'
            /\ authoringEngine.ledger \subseteq authoringEngine'.ledger
            /\ <<k, relayCall[k].step, 0>> \in authoringEngine'.ledger
        BY <2>1, <2>7, EngineApplies, ZenonT(60)
      <3>2. relayCall' \in [EdgeCalls -> EdgeCall] /\ \A j \in EdgeCalls : CallFits(j)'
        <4>1. CASE CallEnds(k, "failed")
          BY <2>1, <3>1, <4>1, CallEndsFits, Zenon DEF CallSettled
        <4>2. CASE /\ UNCHANGED roleLock
                   /\ relayCall' = [relayCall EXCEPT ![k].at = "answered", ![k].sends = @ + 1]
          BY <2>5, <3>1, <4>2, Zenon
        <4> QED
          BY <2>7, <4>1, <4>2, Zenon
      <3> QED
        BY <3>1, <3>2, Zenon DEF EdgeInv, EdgeTypes
    <2>8. CASE ~authoringEngine.up \/ authoringEngine.proc # relayCall[k].proc
      BY <1>9, <2>3, <2>4, <2>8, Zenon DEF SendCommand
    <2>9. CASE /\ ~(~authoringEngine.up \/ authoringEngine.proc # relayCall[k].proc)
               /\ authoringEngine.key # relayCall[k].key
      BY <1>9, <2>3, <2>6, <2>9, Zenon DEF SendCommand
    <2>10. CASE /\ ~(~authoringEngine.up \/ authoringEngine.proc # relayCall[k].proc)
                /\ ~(authoringEngine.key # relayCall[k].key)
      <3>1. \/ CallEnds(k, "denied") /\ UNCHANGED authoringEngine
            \/ /\ authoringEngine' = [authoringEngine EXCEPT !.ledger = @ \union {CommandKey(k)}]
               /\ \/ CallEnds(k, "failed")
                  \/ /\ relayCall' = [relayCall EXCEPT ![k].at = "answered", ![k].sends = @ + 1]
                     /\ UNCHANGED roleLock
        BY <1>9, <2>10, Zenon DEF SendCommand
      <3> QED
        BY <2>3, <2>7, <3>1, Zenon
    <2> QED
      BY <2>8, <2>9, <2>10, Zenon
  <1>10. ASSUME EngineStops \/ EngineStarts \/ EngineRotates \/ EngineRecords PROVE EdgeInv'
    <2>1. UNCHANGED <<stranger, tokens, roleLock, relayCall>>
      BY <1>10, Zenon DEF EngineStops, EngineStarts, EngineRotates, EngineRecords
    <2>2. authoringEngine \in EngineType
      BY Zenon DEF EdgeInv, EdgeTypes
    <2>3. authoringEngine'.ledger = authoringEngine.ledger
      BY <1>10, <2>2, ZenonT(60) DEF EngineStops, EngineStarts, EngineRotates, EngineRecords, EngineType
    <2>4. authoringEngine' \in EngineType
      <3> DEFINE e == authoringEngine
      <3>1. \A n \in {e.turns, e.record} : n + 1 \in Nat
        BY <2>2 DEF EngineType
      <3>2. \A n \in {e.proc, e.key} : n + 1 \in Nat \ {0}
        BY <2>2 DEF EngineType
      <3>3. \/ e' = [e EXCEPT !.up = FALSE, !.turns = e.turns + 1]
            \/ e' = [e EXCEPT !.up = TRUE, !.proc = e.proc + 1, !.key = e.key + 1]
            \/ e' = [e EXCEPT !.key = e.key + 1, !.turns = e.turns + 1]
            \/ e' = [e EXCEPT !.record = e.record + 1]
        BY <1>10, Zenon DEF EngineStops, EngineStarts, EngineRotates, EngineRecords
      <3> QED
        BY <2>2, <3>1, <3>2, <3>3, ZenonT(60) DEF EngineType
    <2>5. authoringEngine'.up => authoringEngine.up \/ ~stranger
      BY <1>10, <2>2, Zenon DEF EngineStops, EngineStarts, EngineRotates, EngineRecords, EngineType
    <2>6. EngineFits'
      BY <2>1, <2>3, <2>5, Zenon DEF EdgeInv, EngineFits
    <2>7. \A j \in EdgeCalls : CallFits(j)'
      BY <2>1, <2>3, OtherCallFits, Zenon DEF EdgeInv
    <2> QED
      BY <2>1, <2>4, <2>6, <2>7, Zenon DEF EdgeInv, EdgeTypes
  <1>11. CASE StrangerListens \/ ReleaseTokens \/ UNCHANGED edgeVars
    <2>1. UNCHANGED <<authoringEngine, roleLock, relayCall>>
      BY <1>11, Zenon DEF StrangerListens, ReleaseTokens, edgeVars
    <2>2. (tokens' => tokens) /\ (authoringEngine.up => stranger' = stranger)
      <3>1. CASE StrangerListens
        BY <3>1, Zenon DEF StrangerListens
      <3>2. CASE ReleaseTokens
        BY <3>2, Zenon DEF ReleaseTokens
      <3>3. CASE UNCHANGED edgeVars
        BY <3>3, Zenon DEF edgeVars
      <3> QED
        BY <1>11, <3>1, <3>2, <3>3, Zenon
    <2>3. EngineFits'
      <3>1. EngineFits /\ authoringEngine' = authoringEngine
        BY <2>1, Zenon DEF EdgeInv
      <3>2. authoringEngine'.up => ~stranger'
        BY <2>2, <3>1, Zenon DEF EngineFits
      <3> QED
        BY <3>1, <3>2, Zenon DEF EngineFits
    <2>4. \A j \in EdgeCalls : CallFits(j)'
      BY <2>1, <2>2, OtherCallFits, Zenon DEF EdgeInv
    <2> QED
      BY <2>1, <2>3, <2>4, Zenon DEF EdgeInv, EdgeTypes
  <1> QED
    BY <1>1, <1>2, <1>3, <1>4, <1>5, <1>6, <1>7, <1>8, <1>9, <1>10, <1>11, Zenon DEF EdgeNext, EdgeStep

\* The engine is up, its record is current and nothing was called.
LEMMA EdgeInitial == EdgeInit => EdgeInv
  <1> SUFFICES ASSUME EdgeInit PROVE EdgeInv
    OBVIOUS
  <1>1. ASSUME NEW k \in EdgeCalls
        PROVE  relayCall[k] \in EdgeCall /\ relayCall[k].at = "idle" /\ relayCall[k].step = 1
               /\ relayCall[k].late = FALSE
    <2>1. relayCall[k] \in {NewCall, [NewCall EXCEPT !.deliveries = MaxEdgeDeliveries]}
      BY Zenon DEF EdgeInit
    <2>2. NewCall.at = "idle"
      BY Zenon DEF NewCall
    <2> QED
      BY <2>1, <2>2, NewCallTyped, EdgeConstants, Zenon DEF EdgeCall
  <1>2. \E active \in {RelayCalls, Submissions} :
          relayCall = [k \in EdgeCalls |-> IF k \in active THEN NewCall
                    ELSE [NewCall EXCEPT !.deliveries = MaxEdgeDeliveries]]
    BY Zenon DEF EdgeInit
  <1>3. relayCall \in [EdgeCalls -> EdgeCall]
    BY <1>1, <1>2, Zenon
  <1>4. /\ authoringEngine.ledger = {} /\ stranger = FALSE
        /\ authoringEngine \in EngineType
    BY DEF EdgeInit, EngineType
  <1>5. "idle" \notin Resolved /\ "idle" \notin Underway /\ "idle" \notin {"send", "answered"} /\ ~(1 > 1)
    BY DEF Resolved, Underway
  <1>6. \A k \in EdgeCalls : CallFits(k)
    BY <1>1, <1>5, Zenon DEF CallFits
  <1>7. EngineFits
    BY <1>4, Zenon DEF EngineFits
  <1> QED
    BY <1>3, <1>4, <1>6, <1>7, Zenon DEF EdgeInv, EdgeTypes

\* What the invariant says of the engine and of the calls under way.
LEMMA EdgeSafe == EdgeInv => AppliedOnce /\ SpokenToTheEngine /\ SubmissionInOrder /\ OneCallPerRole
  <1> SUFFICES ASSUME EdgeInv PROVE AppliedOnce /\ SpokenToTheEngine /\ SubmissionInOrder /\ OneCallPerRole
    OBVIOUS
  <1>1. \A x \in authoringEngine.ledger :
           x = <<x[1], x[2], 0>> /\ x[1] \in EdgeCalls /\ x[2] \in Nat
    BY DEF EdgeInv, EdgeTypes, EngineType
  <1>2. AppliedOnce
    BY <1>1, Zenon DEF AppliedOnce
  <1>3. SpokenToTheEngine
    <2>1. "send" \in Resolved
      BY Zenon DEF Resolved
    <2> QED
      BY <2>1, Zenon DEF EdgeInv, CallFits, SpokenToTheEngine
  <1>4. SubmissionInOrder
    <2> SUFFICES ASSUME NEW x \in authoringEngine.ledger, x[2] > 1
                 PROVE  \E y \in authoringEngine.ledger : y[1] = x[1] /\ y[2] = x[2] - 1
      BY Zenon DEF SubmissionInOrder
    <2>1. <<x[1], x[2] - 1, 0>> \in authoringEngine.ledger
      BY <1>1, Zenon DEF EdgeInv, EngineFits
    <2> QED
      BY <2>1, Zenon
  <1>5. ASSUME NEW k \in RelayCalls, relayCall[k].at \notin CallSettled \cup {"asked", "queued"}
        PROVE  k = roleLock
    <2>1. k \in EdgeCalls /\ relayCall[k].at \in Underway
      BY <1>5, Zenon DEF EdgeInv, EdgeTypes, EdgeCall, EdgeCalls
    <2> QED
      BY <2>1, Zenon DEF EdgeInv, CallFits
  <1>6. Cardinality({k \in RelayCalls : relayCall[k].at \notin CallSettled \union {"asked", "queued"}}) <= 1
    <2> DEFINE S == {k \in RelayCalls : relayCall[k].at \notin CallSettled \union {"asked", "queued"}}
    <2>1. S \subseteq {roleLock}
      BY <1>5, Zenon
    <2>2. IsFiniteSet({roleLock}) /\ Cardinality({roleLock}) = 1
      BY FS_Singleton, Zenon
    <2> HIDE DEF S
    <2>3. Cardinality(S) <= Cardinality({roleLock})
      BY <2>1, <2>2, FS_Subset, Zenon
    <2> QED
      BY <2>2, <2>3, Zenon DEF S
  <1>7. \A k \in RelayCalls :
          relayCall[k].at \in {"connect", "send", "reresolve", "answered"} => ~relayCall[k].late
    <2>1. \A k \in RelayCalls : k \in EdgeCalls
      BY Zenon DEF EdgeCalls
    <2>2. {"connect", "send", "reresolve", "answered"} \subseteq Resolved \ {"authorize"}
      BY Zenon DEF Resolved
    <2> QED
      BY <2>1, <2>2, Zenon DEF EdgeInv, CallFits
  <1> QED
    BY <1>2, <1>3, <1>4, <1>6, <1>7, Zenon DEF OneCallPerRole

\* However often a command is delivered, lost, answered late or sent again
\* under another bearer, the engine applies it once and behind the command
\* before it; a request leaves only on a stream whose listener proved the key;
\* and of a role's calls one at most is past the lock, with its tokens held.
THEOREM EdgeTheorem ==
  EdgeSpec => [](AppliedOnce /\ SpokenToTheEngine /\ SubmissionInOrder /\ OneCallPerRole)
  BY EdgeInitial, EdgeInvStep, EdgeSafe, PTL DEF EdgeSpec

-----------------------------------------------------------------------------
(* The journal of bridged calls.                                            *)

\* What a bridge's record says of its call: it is in a transaction on its
\* journal, it is about to commit a preparation, its key was committed.
Writing(x) == x.pc \in {"write", "commit"}
Proposing(x) == x.pc = "commit" /\ x.op = "prepare"
Carrying(x) == x.pc = "deliver" \/ x.op = "complete"
WellFormed(x) == x = Rested \/ (x.scope \in Scopes /\ x.call \in LogicalCalls)

\* The keys that left the journal: those the engine executed and those a
\* bridge delivers or completes.
KeptKeys == appliedCalls \cup {KeyOf(bridge[b]) : b \in {o \in Bridges : Carrying(bridge[o])}}

\* A key is executed below the last revision.
SpentRevisions ==
    /\ \A k \in appliedCalls : k.revision < MaxRevision
    /\ \A b \in Bridges :
          bridge[b].op = "complete" /\ bridge[b].answer = "ok" => bridge[b].revision < MaxRevision

\* A transaction is on a journal that was there and not closed when it was
\* opened, and no two are on one.
WritersFit ==
    /\ \A b \in Bridges :
          /\ bridge[b].pc \in {"begin", "write", "commit"} =>
                bridge[b].inode # 0 /\ inode[bridge[b].scope] # 0
          /\ Writing(bridge[b]) => bridge[b].inode = 1
    /\ \A b, o \in Bridges :
          Writing(bridge[b]) /\ Writing(bridge[o]) /\ bridge[b].scope = bridge[o].scope => b = o

\* Only a closed run has a closed header or a retirement.
HeadsFit ==
    /\ \A s \in Scopes : inode[s] = 2 => closed
    /\ retiring.pc # "idle" => closed

\* The index lists every journal that is there or may still be made, until the
\* retirement has replaced them all.
RetireFits ==
    /\ \A s \in Scopes : inode[s] = 1 => s \in index
    /\ \A b \in Bridges : bridge[b].pc = "open" => bridge[b].scope \in index \/ closed
    /\ retiring.pc = "replacing" =>
          \A s \in Scopes : inode[s] = 1 => s \in retiring.left \/ retiring.failed
    /\ RetiredLeavesNothing

\* A key that left the journal is the one the journal has, and where the
\* journal was replaced, still the only one of its call.
KeysKept ==
    /\ \A k \in KeptKeys :
          LET c == calls[k.scope][k.call] IN
          /\ c.state # "none" \/ inode[k.scope] = 2
          /\ c.state # "none" => k.revision = c.revision
    /\ \A k, l \in KeptKeys : k.scope = l.scope /\ k.call = l.call => k.revision = l.revision

\* The pending call of a journal is the only one and expects the current
\* revision.
PendingFits ==
    \A s \in Scopes, c \in LogicalCalls : calls[s][c].state = "pending" =>
        /\ calls[s][c].revision = refs[s]
        /\ \A o \in LogicalCalls : calls[s][o].state = "pending" => o = c

\* A preparation about to be committed repeats the key of its call, or is the
\* first one of it, at the current revision and with nothing pending.
ProposalsFit ==
    \A b \in Bridges : Proposing(bridge[b]) =>
        LET x == bridge[b] IN
        /\ calls[x.scope][x.call].state # "none" => x.revision = calls[x.scope][x.call].revision
        /\ calls[x.scope][x.call].state = "none" =>
              /\ x.revision = refs[x.scope]
              /\ \A o \in LogicalCalls : calls[x.scope][o].state # "pending"
        /\ \A k \in KeptKeys : k.scope = x.scope /\ k.call = x.call => k.revision = x.revision

JournalInv ==
    /\ JournalTypeOK /\ SpentRevisions /\ WritersFit /\ HeadsFit /\ RetireFits
    /\ KeysKept /\ PendingFits /\ ProposalsFit

\* A bridge at rest.
LEMMA RestedTyped == /\ Rested \in BridgeStates /\ WellFormed(Rested)
                     /\ Rested.pc = "idle" /\ Rested.op = "prepare" /\ ~Carrying(Rested)
                     /\ Rested.scope = "none" /\ Rested.call = "none" /\ Rested.answer = "none"
  <1>1. 0 \in Revisions
    BY JournalAssumption DEF Revisions
  <1>2. Rested \in BridgeStates
    BY <1>1 DEF Rested, BridgeStates
  <1>3. /\ Rested.pc = "idle" /\ Rested.op = "prepare"
        /\ Rested.scope = "none" /\ Rested.call = "none" /\ Rested.answer = "none"
    BY Zenon DEF Rested
  <1> QED
    BY <1>2, <1>3, Zenon DEF Carrying, WellFormed

\* A bridge that is doing something has a call.
LEMMA BusyTyped ==
  ASSUME JournalTypeOK, NEW b \in Bridges, bridge[b].pc # "idle" \/ bridge[b].op = "complete"
  PROVE  bridge[b] \in BridgeStates /\ bridge[b].scope \in Scopes /\ bridge[b].call \in LogicalCalls
  <1>1. bridge[b] # Rested
    BY RestedTyped, Zenon
  <1> QED
    BY <1>1, Zenon DEF JournalTypeOK

\* One bridge moves.
LEMMA BridgeMoves ==
  ASSUME JournalTypeOK, NEW b \in Bridges, NEW x \in BridgeStates, WellFormed(x),
         bridge' = [bridge EXCEPT ![b] = x]
  PROVE  /\ bridge' \in [Bridges -> BridgeStates] /\ bridge'[b] = x
         /\ \A o \in Bridges : o # b => bridge'[o] = bridge[o]
         /\ \A o \in Bridges : WellFormed(bridge'[o])
  <1>1. /\ bridge' \in [Bridges -> BridgeStates] /\ bridge'[b] = x
        /\ \A o \in Bridges : o # b => bridge'[o] = bridge[o]
    BY Zenon DEF JournalTypeOK
  <1>2. \A o \in Bridges : WellFormed(bridge[o])
    BY Zenon DEF JournalTypeOK, WellFormed
  <1> QED
    BY <1>1, <1>2, Zenon

\* Nobody's key leaves the journal.
LEMMA KeptStays ==
  ASSUME \A o \in Bridges : Carrying(bridge'[o]) =>
            Carrying(bridge[o]) /\ KeyOf(bridge'[o]) = KeyOf(bridge[o]),
         appliedCalls' \subseteq KeptKeys
  PROVE  KeptKeys' \subseteq KeptKeys
  <1> SUFFICES ASSUME NEW k \in KeptKeys' PROVE k \in KeptKeys
    OBVIOUS
  <1>1. CASE k \in appliedCalls'
    BY <1>1, Zenon
  <1>2. CASE \E o \in Bridges : Carrying(bridge'[o]) /\ k = KeyOf(bridge'[o])
    <2>1. PICK o \in Bridges : Carrying(bridge'[o]) /\ k = KeyOf(bridge'[o])
      BY <1>2, Zenon
    <2>2. Carrying(bridge[o]) /\ k = KeyOf(bridge[o])
      BY <2>1, Zenon
    <2> QED
      BY <2>2, Zenon DEF KeptKeys
  <1> QED
    BY <1>1, <1>2, Zenon DEF KeptKeys

\* What a step leaves of the keys when no call is written and none proposed.
LEMMA KeysStay ==
  ASSUME KeysKept, PendingFits, ProposalsFit,
         KeptKeys' \subseteq KeptKeys, UNCHANGED <<calls, refs>>,
         \A k \in KeptKeys : inode[k.scope] = 2 => inode'[k.scope] = 2,
         \A o \in Bridges : Proposing(bridge'[o]) => bridge'[o] = bridge[o]
  PROVE  KeysKept' /\ PendingFits' /\ ProposalsFit'
  <1>1. KeysKept'
    BY Zenon DEF KeysKept
  <1>2. PendingFits'
    BY DEF PendingFits
  <1>3. ProposalsFit'
    BY SMTT(60) DEF ProposalsFit
  <1> QED
    BY <1>1, <1>2, <1>3, Zenon

\* What a step leaves of the transactions when none begins and no journal goes.
LEMMA WritersStay ==
  ASSUME WritersFit,
         \A o \in Bridges : bridge'[o].pc \in {"begin", "write", "commit"} =>
            /\ bridge[o].pc \in {"begin", "write", "commit"}
            /\ Writing(bridge'[o]) => Writing(bridge[o])
            /\ bridge'[o].scope = bridge[o].scope /\ bridge'[o].inode = bridge[o].inode
            /\ inode[bridge[o].scope] # 0 => inode'[bridge[o].scope] # 0
  PROVE  WritersFit'
  <1>1. \A o \in Bridges : Writing(bridge'[o]) => bridge'[o].pc \in {"begin", "write", "commit"}
    BY Zenon DEF Writing
  <1> QED
    BY <1>1, Zenon DEF WritersFit

\* A step of one bridge outside the transactions: the journals stay.
LEMMA BridgeQuiet ==
  ASSUME JournalInv, NEW b \in Bridges, NEW x \in BridgeStates, WellFormed(x),
         bridge' = [bridge EXCEPT ![b] = x],
         UNCHANGED <<closed, inode, calls, refs, retiring>>,
         index \subseteq index', index' \subseteq Scopes, indexer' \in Bridges \cup {"nobody"},
         journalTrouble' \in 0..MaxJournalTrouble,
         x.pc \notin {"begin", "write", "commit"},
         x.pc = "open" => x.scope \in index',
         Carrying(x) => Carrying(bridge[b]) /\ KeyOf(x) = KeyOf(bridge[b]),
         x.op = "complete" /\ x.answer = "ok" => x.revision < MaxRevision,
         appliedCalls' \subseteq KeptKeys,
         appliedCalls' \subseteq [scope : Scopes, call : LogicalCalls, revision : Revisions],
         \A k \in appliedCalls' : k.revision < MaxRevision
  PROVE  JournalInv'
  <1>1. /\ JournalTypeOK /\ SpentRevisions /\ WritersFit /\ HeadsFit /\ RetireFits
        /\ KeysKept /\ PendingFits /\ ProposalsFit
    BY Zenon DEF JournalInv
  <1>2. /\ bridge' \in [Bridges -> BridgeStates] /\ bridge'[b] = x
        /\ \A o \in Bridges : o # b => bridge'[o] = bridge[o]
        /\ \A o \in Bridges : WellFormed(bridge'[o])
    BY <1>1, BridgeMoves, ZenonT(60)
  <1>3. JournalTypeOK'
    BY <1>1, <1>2, Zenon DEF JournalTypeOK, WellFormed
  <1>4. SpentRevisions'
    BY <1>1, <1>2, Zenon DEF SpentRevisions
  <1>5. WritersFit'
    <2>1. \A o \in Bridges : bridge'[o].pc \in {"begin", "write", "commit"} => bridge'[o] = bridge[o]
      BY <1>2, Zenon
    <2> QED
      BY <1>1, <2>1, WritersStay, Zenon
  <1>6. HeadsFit'
    BY <1>1, Zenon DEF HeadsFit
  <1>7. RetireFits'
    <2>1. \A o \in Bridges : bridge'[o].pc = "open" => bridge'[o].scope \in index' \/ closed'
      BY <1>1, <1>2, Zenon DEF RetireFits
    <2> QED
      BY <1>1, <2>1, Zenon DEF RetireFits, RetiredLeavesNothing
  <1>8. KeptKeys' \subseteq KeptKeys
    BY <1>2, KeptStays, Zenon
  <1>9. \A o \in Bridges : Proposing(bridge'[o]) => bridge'[o] = bridge[o]
    BY <1>2, Zenon DEF Proposing
  <1>10. KeysKept' /\ PendingFits' /\ ProposalsFit'
    BY <1>1, <1>8, <1>9, KeysStay, Zenon
  <1> QED
    BY <1>3, <1>4, <1>5, <1>6, <1>7, <1>10, Zenon DEF JournalInv

\* A bridge that gives up.
LEMMA GivesUp ==
  ASSUME JournalInv, NEW b \in Bridges, GiveUp(b),
         UNCHANGED <<closed, index, inode, calls, refs, retiring, appliedCalls>>,
         indexer' \in Bridges \cup {"nobody"}, journalTrouble' \in 0..MaxJournalTrouble
  PROVE  JournalInv'
  <1>1. index \subseteq Scopes /\ appliedCalls \subseteq [scope : Scopes, call : LogicalCalls, revision : Revisions]
    BY Zenon DEF JournalInv, JournalTypeOK
  <1>2. appliedCalls \subseteq KeptKeys /\ \A k \in appliedCalls : k.revision < MaxRevision
    BY Zenon DEF KeptKeys, JournalInv, SpentRevisions
  <1>3. bridge' = [bridge EXCEPT ![b] = Rested]
    BY Zenon DEF GiveUp
  <1> QED
    BY <1>1, <1>2, <1>3, RestedTyped, BridgeQuiet, ZenonT(60)

\* A bridge that only goes on.
LEMMA GoesOn ==
  ASSUME JournalTypeOK, NEW b \in Bridges, bridge[b].pc # "idle",
         NEW pc \in {"register", "indexing", "open", "begin", "write", "commit", "deliver"},
         NEW x, x = [bridge[b] EXCEPT !.pc = pc]
  PROVE  /\ x \in BridgeStates /\ WellFormed(x) /\ KeyOf(x) = KeyOf(bridge[b])
         /\ x.pc = pc /\ x.op = bridge[b].op /\ x.scope = bridge[b].scope /\ x.call = bridge[b].call
         /\ x.inode = bridge[b].inode /\ x.revision = bridge[b].revision /\ x.answer = bridge[b].answer
  <1>1. bridge[b] \in BridgeStates /\ bridge[b].scope \in Scopes /\ bridge[b].call \in LogicalCalls
    BY BusyTyped, Zenon
  <1>2. /\ x.pc = pc /\ x.op = bridge[b].op /\ x.scope = bridge[b].scope /\ x.call = bridge[b].call
        /\ x.inode = bridge[b].inode /\ x.revision = bridge[b].revision /\ x.answer = bridge[b].answer
    BY <1>1, Zenon DEF BridgeStates
  <1>3. x \in BridgeStates
    BY <1>1, Zenon DEF BridgeStates
  <1> QED
    BY <1>1, <1>2, <1>3, Zenon DEF WellFormed, KeyOf

\* What most steps leave alone.
LEMMA JournalReads ==
  ASSUME JournalInv
  PROVE  /\ index \subseteq Scopes /\ indexer \in Bridges \cup {"nobody"}
         /\ journalTrouble \in 0..MaxJournalTrouble
         /\ appliedCalls \subseteq [scope : Scopes, call : LogicalCalls, revision : Revisions]
         /\ appliedCalls \subseteq KeptKeys
         /\ \A k \in appliedCalls : k.revision < MaxRevision
         /\ \A b \in Bridges : bridge[b].op = "complete" /\ bridge[b].answer = "ok" =>
               bridge[b].revision < MaxRevision
  <1>1. JournalTypeOK /\ SpentRevisions
    BY Zenon DEF JournalInv
  <1> QED
    BY <1>1, Zenon DEF JournalTypeOK, SpentRevisions, KeptKeys

\* The steps that lead a bridge to its journal.
LEMMA ReachStep ==
  ASSUME JournalInv, NEW b \in Bridges,
         \/ \E s \in Scopes, c \in LogicalCalls : DispatchCall(b, s, c)
         \/ RegisterScope(b) \/ CommitIndex(b) \/ BridgeDies(b)
  PROVE  JournalInv'
  <1>0. JournalTypeOK
    BY Zenon DEF JournalInv
  <1>1. ASSUME NEW s \in Scopes, NEW c \in LogicalCalls, DispatchCall(b, s, c) PROVE JournalInv'
    <2> DEFINE x == [Rested EXCEPT !.pc = "register", !.scope = s, !.call = c]
    <2>1. /\ x \in BridgeStates /\ x.pc = "register" /\ x.op = "prepare"
          /\ x.scope = s /\ x.call = c
      BY RestedTyped, ZenonT(60) DEF BridgeStates
    <2>2. bridge' = [bridge EXCEPT ![b] = x]
          /\ UNCHANGED <<closed, index, indexer, inode, calls, refs, retiring, appliedCalls, journalTrouble>>
      BY <1>1, Zenon DEF DispatchCall
    <2> HIDE DEF x
    <2>3. WellFormed(x) /\ ~Carrying(x) /\ x.pc \notin {"begin", "write", "commit"} /\ x.pc # "open"
      BY <2>1, Zenon DEF WellFormed, Carrying
    <2> QED
      BY <2>1, <2>2, <2>3, JournalReads, BridgeQuiet, ZenonT(60)
  <1>2. ASSUME RegisterScope(b) PROVE JournalInv'
    <2>1. /\ bridge[b].pc = "register"
          /\ UNCHANGED <<closed, index, inode, calls, refs, retiring, appliedCalls, journalTrouble>>
      BY <1>2, Zenon DEF RegisterScope
    <2>2. CASE GiveUp(b) /\ UNCHANGED indexer
      BY <2>1, <2>2, JournalReads, GivesUp, Zenon
    <2>3. CASE bridge' = [bridge EXCEPT ![b].pc = "indexing"] /\ indexer' = b
      <3> DEFINE x == [bridge[b] EXCEPT !.pc = "indexing"]
      <3>1. bridge' = [bridge EXCEPT ![b] = x]
        BY <2>3, Zenon
      <3> HIDE DEF x
      <3>2. /\ x \in BridgeStates /\ WellFormed(x) /\ KeyOf(x) = KeyOf(bridge[b])
            /\ x.pc = "indexing" /\ x.op = bridge[b].op
            /\ x.revision = bridge[b].revision /\ x.answer = bridge[b].answer
        BY <1>0, <2>1, GoesOn DEF x
      <3>3. (Carrying(x) => Carrying(bridge[b])) /\ x.pc \notin {"begin", "write", "commit"} /\ x.pc # "open"
        BY <3>2, Zenon DEF Carrying
      <3>4. x.op = "complete" /\ x.answer = "ok" => x.revision < MaxRevision
        BY <3>2, JournalReads, ZenonT(60)
      <3> QED
        BY <2>1, <2>3, <3>1, <3>2, <3>3, <3>4, JournalReads, BridgeQuiet, ZenonT(60)
    <2> QED
      BY <1>2, <2>2, <2>3, Zenon DEF RegisterScope
  <1>3. ASSUME CommitIndex(b) PROVE JournalInv'
    <2> DEFINE x == [bridge[b] EXCEPT !.pc = "open"]
    <2>1. /\ bridge[b].pc = "indexing" /\ index' = index \cup {bridge[b].scope} /\ indexer' = "nobody"
          /\ bridge' = [bridge EXCEPT ![b] = x]
          /\ UNCHANGED <<closed, inode, calls, refs, retiring, appliedCalls, journalTrouble>>
      BY <1>3, Zenon DEF CommitIndex
    <2> HIDE DEF x
    <2>2. /\ x \in BridgeStates /\ WellFormed(x) /\ KeyOf(x) = KeyOf(bridge[b])
          /\ x.pc = "open" /\ x.op = bridge[b].op /\ x.scope = bridge[b].scope
          /\ x.revision = bridge[b].revision /\ x.answer = bridge[b].answer
      BY <1>0, <2>1, GoesOn DEF x
    <2>3. (Carrying(x) => Carrying(bridge[b])) /\ x.pc \notin {"begin", "write", "commit"}
      BY <2>2, Zenon DEF Carrying
    <2>4. x.op = "complete" /\ x.answer = "ok" => x.revision < MaxRevision
      BY <2>2, JournalReads, ZenonT(60)
    <2>5. bridge[b].scope \in Scopes
      BY <1>0, <2>1, BusyTyped, Zenon
    <2>6. index \subseteq index' /\ index' \subseteq Scopes /\ x.scope \in index'
      BY <2>1, <2>2, <2>5, JournalReads, Zenon
    <2> QED
      BY <2>1, <2>2, <2>3, <2>4, <2>6, JournalReads, BridgeQuiet, ZenonT(60)
  <1>4. ASSUME BridgeDies(b) PROVE JournalInv'
    <2>1. /\ GiveUp(b) /\ UNCHANGED <<closed, index, inode, calls, refs, retiring, appliedCalls>>
          /\ indexer' = IF indexer = b THEN "nobody" ELSE indexer
      BY <1>4, Zenon DEF BridgeDies
    <2>2. journalTrouble' \in 0..MaxJournalTrouble
      BY <1>4, JournalReads, JournalAssumption DEF BridgeDies
    <2>3. indexer' \in Bridges \cup {"nobody"}
      BY <2>1, JournalReads, Zenon
    <2> QED
      BY <2>1, <2>2, <2>3, GivesUp, Zenon
  <1> QED
    BY <1>1, <1>2, <1>3, <1>4, Zenon

\* A delivery sends the key the journal committed, and the engine executes it
\* below the last revision.
LEMMA DeliverStep ==
  ASSUME JournalInv, NEW b \in Bridges, DeliverCall(b) PROVE JournalInv'
  <1> DEFINE k == KeyOf(bridge[b])
             low == k.revision < MaxRevision
  <1>0. JournalTypeOK /\ bridge[b].pc = "deliver"
        /\ UNCHANGED <<closed, index, indexer, inode, calls, refs, retiring>>
    BY Zenon DEF JournalInv, DeliverCall
  <1>1. /\ bridge[b] \in BridgeStates /\ bridge[b].scope \in Scopes /\ bridge[b].call \in LogicalCalls
        /\ bridge[b].pc # "idle"
    BY <1>0, BusyTyped, Zenon
  <1>2. k \in [scope : Scopes, call : LogicalCalls, revision : Revisions] /\ k.revision = bridge[b].revision
    BY <1>1, Zenon DEF KeyOf, BridgeStates
  <1>3. Carrying(bridge[b]) /\ k \in KeptKeys
    BY <1>0, Zenon DEF Carrying, KeptKeys
  <1>4. PICK answer \in {"ok", "denied", "rejected", "lost"} :
          /\ answer = "ok" => k \in appliedCalls \/ low
          /\ \/ appliedCalls' = appliedCalls
             \/ appliedCalls' = appliedCalls \cup {k} /\ (k \in appliedCalls \/ low)
          /\ answer = "lost" => journalTrouble < MaxJournalTrouble
          /\ journalTrouble' = IF answer = "lost" THEN journalTrouble + 1 ELSE journalTrouble
          /\ bridge' = [bridge EXCEPT ![b] =
                          IF answer = "lost" \/ closed THEN Rested
                          ELSE [bridge[b] EXCEPT !.pc = "register", !.op = "complete", !.answer = answer,
                                                 !.inode = 0]]
    <2> DEFINE current == EngineRevision(k.scope) = k.revision
               Executed(a) == CASE a = "ok" -> {TRUE}
                                [] a = "lost" -> {FALSE, current /\ low}
                                [] OTHER -> {FALSE}
    <2>1. PICK answer \in {"ok", "denied", "rejected", "lost"} :
            /\ answer = "ok" => k \in appliedCalls \/ (current /\ low)
            /\ answer = "lost" => journalTrouble < MaxJournalTrouble
            /\ \E executed \in Executed(answer) :
                  appliedCalls' = IF executed THEN appliedCalls \cup {k} ELSE appliedCalls
            /\ journalTrouble' = IF answer = "lost" THEN journalTrouble + 1 ELSE journalTrouble
            /\ bridge' = [bridge EXCEPT ![b] =
                            IF answer = "lost" \/ closed THEN Rested
                            ELSE [bridge[b] EXCEPT !.pc = "register", !.op = "complete", !.answer = answer,
                                                   !.inode = 0]]
      BY Zenon DEF DeliverCall
    <2>2. PICK executed \in Executed(answer) :
            appliedCalls' = IF executed THEN appliedCalls \cup {k} ELSE appliedCalls
      BY <2>1, Zenon
    <2>3. answer # "ok" => executed = FALSE \/ executed = (current /\ low)
      BY <2>1, <2>2, Zenon
    <2>4. executed => k \in appliedCalls \/ low
      BY <2>1, <2>3, Zenon
    <2>5. \/ appliedCalls' = appliedCalls
          \/ appliedCalls' = appliedCalls \cup {k} /\ (k \in appliedCalls \/ low)
      BY <2>2, <2>4, Zenon
    <2> QED
      BY <2>1, <2>5, Zenon
  <1> HIDE DEF k
  <1>5. /\ appliedCalls' \subseteq KeptKeys
        /\ appliedCalls' \subseteq [scope : Scopes, call : LogicalCalls, revision : Revisions]
    BY <1>2, <1>3, <1>4, JournalReads, Zenon
  <1>6. \A l \in appliedCalls' : l.revision < MaxRevision
    BY <1>4, JournalReads, Zenon
  <1>7. journalTrouble' \in 0..MaxJournalTrouble
    BY <1>4, JournalReads, JournalAssumption
  <1>8. CASE answer = "lost" \/ closed
    <2>1. bridge' = [bridge EXCEPT ![b] = Rested]
      BY <1>4, <1>8, Zenon
    <2>2. Rested.pc \notin {"begin", "write", "commit"} /\ Rested.pc # "open" /\ Rested.op # "complete"
      BY RestedTyped, Zenon
    <2> QED
      BY <1>0, <1>5, <1>6, <1>7, <2>1, <2>2, RestedTyped, JournalReads, BridgeQuiet, ZenonT(60)
  <1>9. CASE ~(answer = "lost" \/ closed)
    <2> DEFINE x == [bridge[b] EXCEPT !.pc = "register", !.op = "complete", !.answer = answer, !.inode = 0]
    <2>1. bridge' = [bridge EXCEPT ![b] = x]
      BY <1>4, <1>9, Zenon
    <2>2. /\ x.pc = "register" /\ x.op = "complete" /\ x.answer = answer /\ x.scope = bridge[b].scope
          /\ x.call = bridge[b].call /\ x.revision = bridge[b].revision
      BY <1>1, Zenon DEF BridgeStates
    <2>3. x \in BridgeStates
      <3>1. answer \in {"none", "ok", "denied", "rejected"} /\ 0 \in 0..2
        BY <1>4, <1>9
      <3>2. [bridge[b] EXCEPT !.pc = "register", !.op = "complete"] \in BridgeStates
        BY <1>1, ZenonT(60) DEF BridgeStates
      <3>3. [[bridge[b] EXCEPT !.pc = "register", !.op = "complete"] EXCEPT !.answer = answer, !.inode = 0]
               \in BridgeStates
        BY <3>1, <3>2, ZenonT(60) DEF BridgeStates
      <3> QED
        BY <3>3, Zenon
    <2> HIDE DEF x
    <2>4. WellFormed(x) /\ KeyOf(x) = KeyOf(bridge[b])
      BY <1>1, <2>2, Zenon DEF WellFormed, KeyOf
    <2>5. x.pc \notin {"begin", "write", "commit"} /\ x.pc # "open"
      BY <2>2, Zenon
    <2>6. x.op = "complete" /\ x.answer = "ok" => x.revision < MaxRevision
      BY <1>2, <1>4, <2>2, JournalReads, Zenon
    <2> QED
      BY <1>0, <1>3, <1>5, <1>6, <1>7, <2>1, <2>3, <2>4, <2>5, <2>6, JournalReads, BridgeQuiet, ZenonT(60)
  <1> QED
    BY <1>8, <1>9, Zenon

\* A journal is opened, or made, only where the index has its scope.
LEMMA OpenStep ==
  ASSUME JournalInv, NEW b \in Bridges, OpenJournal(b) PROVE JournalInv'
  <1> DEFINE s == bridge[b].scope
             there == IF inode[s] = 0 THEN 1 ELSE inode[s]
             x == [bridge[b] EXCEPT !.pc = "begin", !.inode = there]
  <1>0. /\ JournalTypeOK /\ SpentRevisions /\ WritersFit /\ HeadsFit /\ RetireFits
        /\ KeysKept /\ PendingFits /\ ProposalsFit
    BY Zenon DEF JournalInv
  <1>1. /\ bridge[b].pc = "open"
        /\ UNCHANGED <<closed, index, indexer, calls, refs, retiring, appliedCalls, journalTrouble>>
    BY Zenon DEF OpenJournal
  <1>2. CASE closed
    BY <1>1, <1>2, JournalReads, GivesUp, Zenon DEF OpenJournal
  <1>3. CASE ~closed
    <2>1. inode' = [inode EXCEPT ![s] = there] /\ bridge' = [bridge EXCEPT ![b] = x]
      BY <1>3, Zenon DEF OpenJournal
    <2>2. bridge[b] \in BridgeStates /\ s \in Scopes /\ bridge[b].call \in LogicalCalls
      BY <1>0, <1>1, BusyTyped, Zenon
    <2>3. /\ there \in 1..2 /\ (there = 2 => inode[s] = 2)
          /\ inode' \in [Scopes -> 0..2] /\ inode'[s] = there
          /\ \A t \in Scopes : t # s => inode'[t] = inode[t]
      BY <1>0, <2>1, <2>2 DEF JournalTypeOK
    <2> HIDE DEF there
    <2>4. /\ x.pc = "begin" /\ x.op = bridge[b].op /\ x.scope = s /\ x.call = bridge[b].call
          /\ x.inode = there /\ x.revision = bridge[b].revision /\ x.answer = bridge[b].answer
      BY <2>2, Zenon DEF BridgeStates
    <2>5. x \in BridgeStates
      BY <2>2, <2>3, ZenonT(60) DEF BridgeStates
    <2> HIDE DEF x
    <2>6. WellFormed(x) /\ KeyOf(x) = KeyOf(bridge[b])
      BY <2>2, <2>4, Zenon DEF WellFormed, KeyOf
    <2>7. /\ bridge' \in [Bridges -> BridgeStates] /\ bridge'[b] = x
          /\ \A o \in Bridges : o # b => bridge'[o] = bridge[o]
          /\ \A o \in Bridges : WellFormed(bridge'[o])
      BY <1>0, <2>1, <2>5, <2>6, BridgeMoves, ZenonT(60)
    <2>8. JournalTypeOK'
      BY <1>0, <1>1, <2>3, <2>7, Zenon DEF JournalTypeOK, WellFormed
    <2>9. SpentRevisions'
      BY <1>0, <1>1, <2>4, <2>7, Zenon DEF SpentRevisions
    <2>10. WritersFit'
      <3>1. there # 0 /\ ~Writing(x)
        BY <2>3, <2>4 DEF Writing
      <3>2. \A t \in Scopes : inode[t] # 0 => inode'[t] # 0
        BY <2>3, <3>1, Zenon
      <3>3. \A o \in Bridges : o # b /\ bridge[o].pc \in {"begin", "write", "commit"} =>
               inode'[bridge[o].scope] # 0
        <4> SUFFICES ASSUME NEW o \in Bridges, bridge[o].pc \in {"begin", "write", "commit"}
                     PROVE  inode'[bridge[o].scope] # 0
          OBVIOUS
        <4>1. bridge[o].scope \in Scopes
          BY <1>0, BusyTyped, Zenon
        <4> QED
          BY <1>0, <3>2, <4>1, Zenon DEF WritersFit
      <3> QED
        BY <1>0, <2>3, <2>4, <2>7, <3>1, <3>3, ZenonT(60) DEF WritersFit
    <2>11. HeadsFit'
      BY <1>0, <1>1, <2>3, Zenon DEF HeadsFit
    <2>12. RetireFits'
      <3>1. retiring'.pc # "replacing" /\ retiring'.pc # "done"
        BY <1>0, <1>1, <1>3, Zenon DEF HeadsFit
      <3>2. s \in index
        BY <1>0, <1>1, <1>3, Zenon DEF RetireFits
      <3>3. \A t \in Scopes : inode'[t] = 1 => t \in index'
        BY <1>0, <1>1, <2>3, <3>2, Zenon DEF RetireFits
      <3>4. x.pc # "open"
        BY <2>4, Zenon
      <3>5. \A o \in Bridges : bridge'[o].pc = "open" => bridge'[o].scope \in index' \/ closed'
        BY <1>0, <1>1, <2>7, <3>4, Zenon DEF RetireFits
      <3> QED
        BY <3>1, <3>3, <3>5, Zenon DEF RetireFits, RetiredLeavesNothing
    <2>13. KeysKept' /\ PendingFits' /\ ProposalsFit'
      <3>1. Carrying(x) => Carrying(bridge[b])
        BY <2>4, Zenon DEF Carrying
      <3>2. KeptKeys' \subseteq KeptKeys
        BY <1>1, <2>6, <2>7, <3>1, KeptStays, JournalReads, Zenon
      <3>3. \A o \in Bridges : Proposing(bridge'[o]) => bridge'[o] = bridge[o]
        <4>1. ~Proposing(x)
          BY <2>4, Zenon DEF Proposing
        <4> QED
          BY <2>7, <4>1, Zenon
      <3>4. \A k \in KeptKeys : inode[k.scope] = 2 => inode'[k.scope] = 2
        <4>1. inode' = inode \/ inode[s] = 0
          BY <1>0, <2>1, <2>2, Zenon DEF JournalTypeOK, there
        <4> QED
          BY <1>0, <2>1, <2>2, <4>1 DEF JournalTypeOK
      <3> QED
        BY <1>0, <1>1, <3>2, <3>3, <3>4, KeysStay, Zenon
    <2> QED
      BY <2>8, <2>9, <2>10, <2>11, <2>12, <2>13, Zenon DEF JournalInv
  <1> QED
    BY <1>2, <1>3, Zenon

\* A step of one bridge within its transaction: nothing is written yet.
LEMMA BridgeInside ==
  ASSUME JournalInv, NEW b \in Bridges, NEW x \in BridgeStates,
         bridge' = [bridge EXCEPT ![b] = x],
         UNCHANGED <<closed, index, indexer, inode, calls, refs, retiring, appliedCalls, journalTrouble>>,
         bridge[b].pc \in {"begin", "write"}, x.pc \in {"write", "commit"},
         x.op = bridge[b].op, x.scope = bridge[b].scope, x.call = bridge[b].call,
         x.answer = bridge[b].answer, x.op = "complete" => x.revision = bridge[b].revision
  PROVE  /\ JournalTypeOK' /\ SpentRevisions' /\ HeadsFit' /\ RetireFits' /\ KeysKept' /\ PendingFits'
         /\ KeptKeys' \subseteq KeptKeys
         /\ bridge'[b] = x /\ \A o \in Bridges : o # b => bridge'[o] = bridge[o]
  <1>0. /\ JournalTypeOK /\ SpentRevisions /\ WritersFit /\ HeadsFit /\ RetireFits
        /\ KeysKept /\ PendingFits /\ ProposalsFit
    BY Zenon DEF JournalInv
  <1>1. bridge[b].scope \in Scopes /\ bridge[b].call \in LogicalCalls
    BY <1>0, BusyTyped, Zenon
  <1>2. /\ bridge' \in [Bridges -> BridgeStates] /\ bridge'[b] = x
        /\ \A o \in Bridges : o # b => bridge'[o] = bridge[o]
        /\ \A o \in Bridges : WellFormed(bridge'[o])
    <2>1. WellFormed(x)
      BY <1>1, Zenon DEF WellFormed
    <2> QED
      BY <1>0, <2>1, BridgeMoves, ZenonT(60)
  <1>3. JournalTypeOK'
    BY <1>0, <1>2, Zenon DEF JournalTypeOK, WellFormed
  <1>4. SpentRevisions'
    BY <1>0, <1>2, ZenonT(60) DEF SpentRevisions
  <1>5. HeadsFit'
    BY <1>0, Zenon DEF HeadsFit
  <1>6. RetireFits'
    <2>1. x.pc # "open"
      OBVIOUS
    <2>2. \A o \in Bridges : bridge'[o].pc = "open" => bridge'[o].scope \in index' \/ closed'
      BY <1>0, <1>2, <2>1, Zenon DEF RetireFits
    <2> QED
      BY <1>0, <2>2, Zenon DEF RetireFits, RetiredLeavesNothing
  <1>7. KeptKeys' \subseteq KeptKeys
    <2>1. Carrying(x) => x.op = "complete" /\ Carrying(bridge[b])
      BY Zenon DEF Carrying
    <2>2. Carrying(x) => KeyOf(x) = KeyOf(bridge[b])
      BY <2>1, Zenon DEF KeyOf
    <2> QED
      BY <1>2, <2>1, <2>2, KeptStays, JournalReads, Zenon
  <1>8. KeysKept' /\ PendingFits'
    <2>1. KeysKept'
      BY <1>0, <1>7, Zenon DEF KeysKept
    <2>2. PendingFits'
      BY <1>0, Zenon DEF PendingFits
    <2> QED
      BY <2>1, <2>2, Zenon
  <1> QED
    BY <1>2, <1>3, <1>4, <1>5, <1>6, <1>7, <1>8, Zenon

\* A transaction begins where no other is.
LEMMA BeginStep ==
  ASSUME JournalInv, NEW b \in Bridges, BeginJournal(b) PROVE JournalInv'
  <1> DEFINE x == [bridge[b] EXCEPT !.pc = "write"]
  <1>0. JournalTypeOK /\ WritersFit /\ KeysKept /\ PendingFits /\ ProposalsFit
    BY Zenon DEF JournalInv
  <1>1. /\ bridge[b].pc = "begin"
        /\ \A o \in Bridges : bridge[o].scope = bridge[b].scope => ~Writing(bridge[o])
        /\ UNCHANGED <<closed, index, indexer, inode, calls, refs, retiring, appliedCalls, journalTrouble>>
    BY Zenon DEF BeginJournal, Writing
  <1>2. CASE closed \/ bridge[b].inode = 2
    <2>1. GiveUp(b)
      BY <1>2, Zenon DEF BeginJournal
    <2> QED
      BY <1>1, <2>1, JournalReads, GivesUp, Zenon
  <1>3. CASE ~(closed \/ bridge[b].inode = 2)
    <2>1. bridge' = [bridge EXCEPT ![b] = x]
      BY <1>3, Zenon DEF BeginJournal
    <2> HIDE DEF x
    <2>2. /\ x \in BridgeStates /\ x.pc = "write" /\ x.op = bridge[b].op /\ x.scope = bridge[b].scope
          /\ x.call = bridge[b].call /\ x.inode = bridge[b].inode
          /\ x.revision = bridge[b].revision /\ x.answer = bridge[b].answer
      BY <1>0, <1>1, GoesOn DEF x
    <2>3. /\ JournalTypeOK' /\ SpentRevisions' /\ HeadsFit' /\ RetireFits' /\ KeysKept' /\ PendingFits'
          /\ KeptKeys' \subseteq KeptKeys
          /\ bridge'[b] = x /\ \A o \in Bridges : o # b => bridge'[o] = bridge[o]
      BY <1>1, <2>1, <2>2, BridgeInside, ZenonT(60)
    <2>4. x.inode = 1 /\ x.inode # 0 /\ inode[x.scope] # 0
      <3>1. bridge[b].inode \in 0..2
        BY <1>0, Zenon DEF JournalTypeOK, BridgeStates
      <3>2. bridge[b].inode # 0 /\ inode[bridge[b].scope] # 0
        BY <1>0, <1>1, Zenon DEF WritersFit
      <3> QED
        BY <1>3, <2>2, <3>1, <3>2
    <2>5. WritersFit'
      <3>1. \A o \in Bridges :
              /\ bridge'[o].pc \in {"begin", "write", "commit"} =>
                    bridge'[o].inode # 0 /\ inode'[bridge'[o].scope] # 0
              /\ Writing(bridge'[o]) => bridge'[o].inode = 1
        BY <1>0, <1>1, <2>3, <2>4, Zenon DEF WritersFit
      <3>2. ASSUME NEW o \in Bridges, NEW q \in Bridges, Writing(bridge'[o]), Writing(bridge'[q]),
                   bridge'[o].scope = bridge'[q].scope
            PROVE  o = q
        <4>1. CASE o = b
          BY <1>1, <2>2, <2>3, <3>2, <4>1, Zenon
        <4>2. CASE q = b
          BY <1>1, <2>2, <2>3, <3>2, <4>2, Zenon
        <4>3. CASE o # b /\ q # b
          BY <1>0, <2>3, <3>2, <4>3, Zenon DEF WritersFit
        <4> QED
          BY <4>1, <4>2, <4>3, Zenon
      <3> QED
        BY <3>1, <3>2, Zenon DEF WritersFit
    <2>6. ProposalsFit'
      <3>1. ~Proposing(x)
        BY <2>2, Zenon DEF Proposing
      <3>2. \A o \in Bridges : Proposing(bridge'[o]) => bridge'[o] = bridge[o]
        BY <2>3, <3>1, Zenon
      <3> QED
        BY <1>0, <1>1, <2>3, <3>2, KeysStay, Zenon
    <2> QED
      BY <2>3, <2>5, <2>6, Zenon DEF JournalInv
  <1> QED
    BY <1>2, <1>3, Zenon

\* A transaction decides: a preparation takes the key its call has, or is the
\* first of it.
LEMMA WriteStep ==
  ASSUME JournalInv, NEW b \in Bridges, WriteJournal(b) PROVE JournalInv'
  <1> DEFINE s == bridge[b].scope
             c == bridge[b].call
             revision == IF bridge[b].op = "prepare" THEN PreparedRevision(s, c) ELSE bridge[b].revision
             x == [bridge[b] EXCEPT !.pc = "commit", !.revision = revision]
  <1>0. JournalTypeOK /\ WritersFit /\ HeadsFit /\ KeysKept /\ ProposalsFit
    BY Zenon DEF JournalInv
  <1>1. /\ bridge[b].pc = "write"
        /\ UNCHANGED <<closed, index, indexer, inode, calls, refs, retiring, appliedCalls, journalTrouble>>
    BY Zenon DEF WriteJournal
  <1>2. CASE closed \/ (bridge[b].op = "prepare" /\ ~PrepareAllowed(s, c))
    <2>1. GiveUp(b)
      BY <1>2, Zenon DEF WriteJournal
    <2> QED
      BY <1>1, <2>1, JournalReads, GivesUp, Zenon
  <1>3. CASE ~(closed \/ (bridge[b].op = "prepare" /\ ~PrepareAllowed(s, c)))
    <2>1. bridge' = [bridge EXCEPT ![b].pc = "commit", ![b].revision = revision]
      BY <1>3, Zenon DEF WriteJournal
    <2>2. bridge[b] \in BridgeStates /\ s \in Scopes /\ c \in LogicalCalls
      BY <1>0, <1>1, BusyTyped, Zenon
    <2>3. calls[s][c].revision \in Revisions /\ refs[s] \in Revisions
      BY <1>0, <2>2, SMTT(60) DEF JournalTypeOK
    <2>4. revision \in Revisions
      BY <2>2, <2>3, Zenon DEF PreparedRevision, BridgeStates
    <2>5. /\ bridge[b].op = "complete" => revision = bridge[b].revision
          /\ bridge[b].op = "prepare" => revision = PreparedRevision(s, c)
      BY Zenon
    <2> HIDE DEF revision
    <2>6. bridge' = [bridge EXCEPT ![b] = x]
      BY <1>0, <2>1, Zenon DEF JournalTypeOK
    <2>7. /\ x \in BridgeStates /\ x.pc = "commit" /\ x.op = bridge[b].op /\ x.scope = s
          /\ x.call = c /\ x.inode = bridge[b].inode
          /\ x.revision = revision /\ x.answer = bridge[b].answer
      BY <2>2, <2>4, ZenonT(60) DEF BridgeStates
    <2> HIDE DEF x
    <2>8. /\ JournalTypeOK' /\ SpentRevisions' /\ HeadsFit' /\ RetireFits' /\ KeysKept' /\ PendingFits'
          /\ KeptKeys' \subseteq KeptKeys
          /\ bridge'[b] = x /\ \A o \in Bridges : o # b => bridge'[o] = bridge[o]
      BY <1>1, <2>5, <2>6, <2>7, BridgeInside, ZenonT(60)
    <2>9. WritersFit'
      <3>1. Writing(bridge[b]) /\ bridge[b].pc \in {"begin", "write", "commit"}
        BY <1>1, Zenon DEF Writing
      <3> QED
        BY <1>0, <1>1, <2>7, <2>8, <3>1, WritersStay, Zenon
    <2>10. ProposalsFit'
      <3>1. ASSUME Proposing(x)
            PROVE  /\ calls[s][c].state # "none" => revision = calls[s][c].revision
                   /\ calls[s][c].state = "none" =>
                        revision = refs[s] /\ \A o \in LogicalCalls : calls[s][o].state # "pending"
                   /\ \A k \in KeptKeys : k.scope = s /\ k.call = c => k.revision = revision
        <4>1. bridge[b].op = "prepare"
          BY <2>7, <3>1, Zenon DEF Proposing
        <4>2. revision = PreparedRevision(s, c) /\ PrepareAllowed(s, c) /\ ~closed
          BY <1>3, <2>5, <4>1, Zenon
        <4>3. inode[s] # 2
          BY <1>0, <2>2, <4>2, Zenon DEF HeadsFit
        <4>4. /\ calls[s][c].state # "none" => revision = calls[s][c].revision
              /\ calls[s][c].state = "none" => revision = refs[s]
          BY <4>2, Zenon DEF PreparedRevision
        <4>5. calls[s][c].state = "none" => \A o \in LogicalCalls : calls[s][o].state # "pending"
          BY <4>2, Zenon DEF PrepareAllowed
        <4>6. ASSUME NEW k \in KeptKeys, k.scope = s, k.call = c PROVE k.revision = revision
          <5>1. calls[s][c].state # "none" /\ k.revision = calls[s][c].revision
            BY <1>0, <4>3, <4>6, Zenon DEF KeysKept
          <5> QED
            BY <4>4, <5>1, Zenon
        <4> QED
          BY <4>4, <4>5, <4>6, Zenon
      <3> DEFINE Fits(o) ==
            LET y == bridge'[o] IN
            /\ calls[y.scope][y.call].state # "none" => y.revision = calls[y.scope][y.call].revision
            /\ calls[y.scope][y.call].state = "none" =>
                  /\ y.revision = refs[y.scope]
                  /\ \A q \in LogicalCalls : calls[y.scope][q].state # "pending"
            /\ \A k \in KeptKeys : k.scope = y.scope /\ k.call = y.call => k.revision = y.revision
      <3>2. ASSUME NEW o \in Bridges, o # b, Proposing(bridge'[o]) PROVE Fits(o)
        <4>1. bridge'[o] = bridge[o]
          BY <2>8, <3>2, Zenon
        <4> QED
          BY <1>0, <3>2, <4>1, Zenon DEF ProposalsFit
      <3>3. ASSUME Proposing(bridge'[b]) PROVE Fits(b)
        BY <2>7, <2>8, <3>1, <3>3, Zenon
      <3>4. \A o \in Bridges : Proposing(bridge'[o]) => Fits(o)
        BY <3>2, <3>3, Zenon
      <3>5. calls' = calls /\ refs' = refs
        BY <1>1, Zenon
      <3> QED
        BY <2>8, <3>4, <3>5, Zenon DEF ProposalsFit
    <2> QED
      BY <2>8, <2>9, <2>10, Zenon DEF JournalInv
  <1> QED
    BY <1>2, <1>3, Zenon

ToolCallStates == [state : {"none", "pending", "completed", "rejected"}, revision : Revisions]

\* What a transaction makes of its call.
LEMMA CallAfterIs ==
  ASSUME NEW prior \in ToolCallStates, NEW x \in BridgeStates
  PROVE  /\ CallAfter(prior, x) \in ToolCallStates
         /\ prior.state # "none" => CallAfter(prior, x).state # "none" /\ CallAfter(prior, x).revision = prior.revision
         /\ x.op = "prepare" /\ prior.state # "none" => CallAfter(prior, x) = prior
         /\ x.op = "prepare" /\ prior.state = "none" =>
               CallAfter(prior, x).state = "pending" /\ CallAfter(prior, x).revision = x.revision
         /\ x.op = "complete" => CallAfter(prior, x).state # "pending"
         /\ x.op = "complete" /\ prior.state = "none" => CallAfter(prior, x) = prior
  <1> DEFINE after == CallAfter(prior, x)
  <1>1. CASE x.op = "prepare" /\ prior.state = "none"
    <2>1. after = [state |-> "pending", revision |-> x.revision]
      BY <1>1, Zenon DEF CallAfter
    <2> QED
      BY <1>1, <2>1 DEF ToolCallStates, BridgeStates
  <1>2. CASE x.op = "prepare" /\ prior.state # "none"
    <2>1. after = prior
      BY <1>2, Zenon DEF CallAfter
    <2> QED
      BY <1>2, <2>1
  <1>3. CASE x.op = "complete" /\ prior.state = "pending"
    <2>1. \E state \in {"rejected", "completed"} : after = [prior EXCEPT !.state = state]
      BY <1>3, Zenon DEF CallAfter
    <2> QED
      BY <1>3, <2>1, Zenon DEF ToolCallStates
  <1>4. CASE x.op = "complete" /\ prior.state # "pending"
    <2>1. after = prior
      BY <1>4, Zenon DEF CallAfter
    <2> QED
      BY <1>4, <2>1, Zenon
  <1>5. x.op \in {"prepare", "complete"}
    BY Zenon DEF BridgeStates
  <1> QED
    BY <1>1, <1>2, <1>3, <1>4, <1>5, Zenon

\* What the commit of a bridge leaves of the call c in the journal of s.
CommitLeaves(b, s, c) ==
    /\ s \in Scopes /\ c \in LogicalCalls /\ bridge[b].inode = 1 /\ inode[s] \in {1, 2}
    /\ calls' \in [Scopes -> [LogicalCalls -> ToolCallStates]] /\ refs' \in [Scopes -> Revisions]
    /\ \A t \in Scopes, o \in LogicalCalls : t # s \/ o # c => calls'[t][o] = calls[t][o]
    /\ \A t \in Scopes : t # s => refs'[t] = refs[t]
    /\ calls[s][c].state # "none" =>
          calls'[s][c].state # "none" /\ calls'[s][c].revision = calls[s][c].revision
    /\ bridge[b].op = "prepare" =>
          /\ refs'[s] = refs[s]
          /\ calls[s][c].state # "none" => calls'[s][c] = calls[s][c]
          /\ calls[s][c].state = "none" =>
                \/ inode[s] = 2 /\ calls'[s][c] = calls[s][c]
                \/ calls'[s][c].state = "pending" /\ calls'[s][c].revision = bridge[b].revision
    /\ bridge[b].op = "complete" =>
          /\ calls[s][c].state = "none" => calls'[s][c] = calls[s][c]
          /\ calls'[s][c].state = "pending" => calls'[s][c] = calls[s][c]
          /\ \/ refs'[s] = refs[s]
             \/ /\ calls[s][c].state = "pending" /\ calls'[s][c].state # "pending"
                /\ refs'[s] = bridge[b].revision + 1 /\ bridge[b].answer = "ok"

\* What a committed transaction changes: its own call, and the revision of its
\* scope.
LEMMA CommitWrites ==
  ASSUME JournalInv, NEW b \in Bridges, CommitJournal(b)
  PROVE  CommitLeaves(b, bridge[b].scope, bridge[b].call)
  <1> SUFFICES ASSUME NEW s, s = bridge[b].scope, NEW c, c = bridge[b].call
               PROVE  CommitLeaves(b, s, c)
    BY Zenon
  <1> DEFINE x == bridge[b]
             after == CallAfter(calls[s][c], x)
             next == RefsAfter(calls[s][c], x, refs[s])
  <1>0. JournalTypeOK /\ WritersFit /\ SpentRevisions
    BY Zenon DEF JournalInv
  <1>1. x.pc = "commit"
    BY Zenon DEF CommitJournal
  <1>2. x \in BridgeStates /\ s \in Scopes /\ c \in LogicalCalls
    BY <1>0, <1>1, BusyTyped, Zenon
  <1>3. x.inode = 1 /\ inode[s] \in {1, 2}
    <2>1. Writing(x) /\ x.pc \in {"begin", "write", "commit"}
      BY <1>1, Zenon DEF Writing
    <2>2. x.inode = 1 /\ inode[s] # 0
      BY <1>0, <2>1, Zenon DEF WritersFit
    <2>3. inode[s] \in 0..2
      BY <1>0, <1>2, Zenon DEF JournalTypeOK
    <2> QED
      BY <2>2, <2>3
  <1>4. /\ calls \in [Scopes -> [LogicalCalls -> ToolCallStates]] /\ refs \in [Scopes -> Revisions]
        /\ calls[s][c] \in ToolCallStates
    BY <1>0, <1>2 DEF JournalTypeOK, ToolCallStates
  <1>5. /\ calls' = IF inode[s] = x.inode THEN [calls EXCEPT ![s][c] = after] ELSE calls
        /\ refs' = IF inode[s] = x.inode THEN [refs EXCEPT ![s] = next] ELSE refs
    BY Zenon DEF CommitJournal
  <1>6. CASE inode[s] = 2
    <2>0. inode[s] # x.inode
      BY <1>3, <1>6
    <2>1. calls' = calls /\ refs' = refs
      BY <1>5, <2>0, Zenon
    <2> QED
      BY <1>2, <1>3, <1>4, <1>6, <2>1, ZenonT(60) DEF CommitLeaves
  <1>7. CASE inode[s] = 1
    <2>1. calls' = [calls EXCEPT ![s][c] = after] /\ refs' = [refs EXCEPT ![s] = next]
      BY <1>3, <1>5, <1>7, ZenonT(60)
    <2>2. /\ after \in ToolCallStates
          /\ calls[s][c].state # "none" => after.state # "none" /\ after.revision = calls[s][c].revision
          /\ x.op = "prepare" /\ calls[s][c].state # "none" => after = calls[s][c]
          /\ x.op = "prepare" /\ calls[s][c].state = "none" =>
                after.state = "pending" /\ after.revision = x.revision
          /\ x.op = "complete" => after.state # "pending"
          /\ x.op = "complete" /\ calls[s][c].state = "none" => after = calls[s][c]
      BY <1>2, <1>4, CallAfterIs, ZenonT(60)
    <2>3. /\ x.op = "prepare" => next = refs[s]
          /\ \/ next = refs[s]
             \/ /\ calls[s][c].state = "pending" /\ next = x.revision + 1
                /\ x.op = "complete" /\ x.answer = "ok"
      <3>1. CASE x.op = "complete" /\ calls[s][c].state = "pending" /\ x.answer = "ok"
        <4>1. next = x.revision + 1
          BY <3>1, Zenon DEF RefsAfter
        <4>2. x.op # "prepare"
          BY <3>1, Zenon
        <4> QED
          BY <3>1, <4>1, <4>2, Zenon
      <3>2. CASE ~(x.op = "complete" /\ calls[s][c].state = "pending" /\ x.answer = "ok")
        <4>1. next = refs[s]
          BY <3>2, Zenon DEF RefsAfter
        <4> QED
          BY <4>1, Zenon
      <3> QED
        BY <3>1, <3>2, Zenon
    <2>4. next \in Revisions
      <3>1. CASE next = refs[s]
        BY <1>2, <1>4, <3>1, Zenon
      <3>2. CASE next = x.revision + 1 /\ x.op = "complete" /\ x.answer = "ok"
        <4>1. x.revision < MaxRevision /\ x.revision \in Revisions
          BY <1>0, <1>2, <3>2, Zenon DEF SpentRevisions, BridgeStates
        <4> QED
          BY <3>2, <4>1, JournalAssumption DEF Revisions
      <3> QED
        BY <2>3, <3>1, <3>2, Zenon
    <2> HIDE DEF after, next
    <2>5. /\ calls' \in [Scopes -> [LogicalCalls -> ToolCallStates]] /\ calls'[s][c] = after
          /\ \A t \in Scopes, o \in LogicalCalls : t # s \/ o # c => calls'[t][o] = calls[t][o]
      BY <1>2, <1>4, <2>1, <2>2, Zenon
    <2>6. refs' \in [Scopes -> Revisions] /\ refs'[s] = next /\ \A t \in Scopes : t # s => refs'[t] = refs[t]
      BY <1>2, <1>4, <2>1, <2>4, Zenon
    <2> QED
      BY <1>2, <1>3, <2>2, <2>3, <2>5, <2>6, ZenonT(60) DEF CommitLeaves
  <1> QED
    BY <1>3, <1>6, <1>7, ZenonT(60) DEF CommitLeaves

\* A key that left the journal is the key of a call.
LEMMA KeptTyped ==
  ASSUME JournalTypeOK, NEW k \in KeptKeys
  PROVE  k \in [scope : Scopes, call : LogicalCalls, revision : Revisions]
  <1>1. CASE k \in appliedCalls
    BY <1>1, Zenon DEF JournalTypeOK
  <1>2. CASE \E b \in Bridges : Carrying(bridge[b]) /\ k = KeyOf(bridge[b])
    <2>1. PICK b \in Bridges : Carrying(bridge[b]) /\ k = KeyOf(bridge[b])
      BY <1>2, Zenon
    <2>2. bridge[b].pc # "idle" \/ bridge[b].op = "complete"
      BY <2>1, Zenon DEF Carrying
    <2>3. bridge[b] \in BridgeStates /\ bridge[b].scope \in Scopes /\ bridge[b].call \in LogicalCalls
      BY <2>2, BusyTyped, Zenon
    <2> QED
      BY <2>1, <2>3, Zenon DEF KeyOf, BridgeStates
  <1> QED
    BY <1>1, <1>2, Zenon DEF KeptKeys

\* The bridge that commits: what it becomes, and the keys that have left its
\* journal then.
LEMMA CommitMoves ==
  ASSUME JournalInv, NEW b \in Bridges, CommitJournal(b)
  PROVE  /\ calls' \in [Scopes -> [LogicalCalls -> ToolCallStates]] /\ refs' \in [Scopes -> Revisions]
               => JournalTypeOK'
         /\ SpentRevisions' /\ WritersFit' /\ HeadsFit' /\ RetireFits'
         /\ KeptKeys' \subseteq KeptKeys \cup {KeyOf(bridge[b])}
         /\ bridge[b].op = "complete" => KeyOf(bridge[b]) \in KeptKeys
         /\ UNCHANGED inode
         /\ \A o \in Bridges : Proposing(bridge'[o]) =>
               bridge'[o] = bridge[o] /\ bridge[o].scope # bridge[b].scope
  <1> DEFINE x == bridge[b]
             y == IF x.op = "prepare" THEN [x EXCEPT !.pc = "deliver"] ELSE Rested
  <1>0. JournalTypeOK /\ SpentRevisions /\ WritersFit /\ HeadsFit /\ RetireFits
    BY Zenon DEF JournalInv
  <1>1. /\ x.pc = "commit" /\ bridge' = [bridge EXCEPT ![b] = y]
        /\ UNCHANGED <<closed, index, indexer, inode, retiring, appliedCalls, journalTrouble>>
    BY Zenon DEF CommitJournal
  <1>2. x \in BridgeStates /\ x.scope \in Scopes /\ x.call \in LogicalCalls /\ x.op \in {"prepare", "complete"}
    <2>1. x \in BridgeStates /\ x.scope \in Scopes /\ x.call \in LogicalCalls
      BY <1>0, <1>1, BusyTyped, Zenon
    <2> QED
      BY <2>1, Zenon DEF BridgeStates
  <1>3. /\ y \in BridgeStates /\ WellFormed(y) /\ y.op = "prepare" /\ y.pc \in {"idle", "deliver"}
        /\ Carrying(y) => KeyOf(y) = KeyOf(x)
    <2>1. CASE x.op = "prepare"
      <3> DEFINE z == [x EXCEPT !.pc = "deliver"]
      <3>1. y = z
        BY <2>1, Zenon
      <3>2. z \in BridgeStates /\ WellFormed(z) /\ z.op = x.op /\ z.pc = "deliver" /\ KeyOf(z) = KeyOf(x)
        BY <1>0, <1>1, GoesOn
      <3> HIDE DEF z, y
      <3> QED
        BY <2>1, <3>1, <3>2, Zenon
    <2>2. CASE x.op # "prepare"
      <3>1. y = Rested
        BY <2>2, Zenon
      <3> HIDE DEF y
      <3> QED
        BY <3>1, RestedTyped, Zenon
    <2> QED
      BY <2>1, <2>2, Zenon
  <1> HIDE DEF y
  <1>4. /\ bridge' \in [Bridges -> BridgeStates] /\ bridge'[b] = y
        /\ \A o \in Bridges : o # b => bridge'[o] = bridge[o]
        /\ \A o \in Bridges : WellFormed(bridge'[o])
    BY <1>0, <1>1, <1>3, BridgeMoves, ZenonT(60)
  <1>5. y.pc \notin {"begin", "write", "commit"} /\ y.pc # "open" /\ y.op # "complete"
    BY <1>3, Zenon
  <1>6. calls' \in [Scopes -> [LogicalCalls -> ToolCallStates]] /\ refs' \in [Scopes -> Revisions]
          => JournalTypeOK'
    BY <1>0, <1>1, <1>4, Zenon DEF JournalTypeOK, WellFormed, ToolCallStates
  <1>7. SpentRevisions'
    BY <1>0, <1>1, <1>4, <1>5, Zenon DEF SpentRevisions
  <1>8. WritersFit'
    <2>1. \A o \in Bridges : bridge'[o].pc \in {"begin", "write", "commit"} => bridge'[o] = bridge[o]
      BY <1>4, <1>5, Zenon
    <2> QED
      BY <1>0, <1>1, <2>1, WritersStay, Zenon
  <1>9. HeadsFit'
    BY <1>0, <1>1, Zenon DEF HeadsFit
  <1>10. RetireFits'
    <2>1. \A o \in Bridges : bridge'[o].pc = "open" => bridge'[o].scope \in index' \/ closed'
      BY <1>0, <1>1, <1>4, <1>5, Zenon DEF RetireFits
    <2> QED
      BY <1>0, <1>1, <2>1, Zenon DEF RetireFits, RetiredLeavesNothing
  <1>11. KeptKeys' \subseteq KeptKeys \cup {KeyOf(x)}
    <2> SUFFICES ASSUME NEW k \in KeptKeys' PROVE k \in KeptKeys \/ k = KeyOf(x)
      OBVIOUS
    <2>1. CASE k \in appliedCalls'
      BY <1>1, <2>1, Zenon DEF KeptKeys
    <2>2. CASE \E o \in Bridges : Carrying(bridge'[o]) /\ k = KeyOf(bridge'[o])
      <3>1. PICK o \in Bridges : Carrying(bridge'[o]) /\ k = KeyOf(bridge'[o])
        BY <2>2, Zenon
      <3>2. CASE o = b
        BY <1>3, <1>4, <3>1, <3>2, Zenon
      <3>3. CASE o # b
        BY <1>4, <3>1, <3>3, Zenon DEF KeptKeys
      <3> QED
        BY <3>2, <3>3, Zenon
    <2> QED
      BY <2>1, <2>2, Zenon DEF KeptKeys
  <1>12. x.op = "complete" => KeyOf(x) \in KeptKeys
    BY Zenon DEF Carrying, KeptKeys
  <1>13. ASSUME NEW o \in Bridges, Proposing(bridge'[o])
         PROVE  bridge'[o] = bridge[o] /\ bridge[o].scope # x.scope
    <2>1. o # b
      BY <1>4, <1>5, <1>13, Zenon DEF Proposing
    <2>2. bridge'[o] = bridge[o]
      BY <1>4, <2>1, Zenon
    <2>3. Writing(bridge[o]) /\ Writing(x)
      BY <1>1, <1>13, <2>2, Zenon DEF Proposing, Writing
    <2> QED
      BY <1>0, <2>1, <2>2, <2>3, Zenon DEF WritersFit
  <1> QED
    BY <1>1, <1>6, <1>7, <1>8, <1>9, <1>10, <1>11, <1>12, <1>13, ZenonT(60)

\* A commit keeps the keys: the first preparation of a call fixes its key, a
\* repeated one repeats it, and a completion leaves it.
LEMMA CommitStep ==
  ASSUME JournalInv, NEW b \in Bridges, CommitJournal(b) PROVE JournalInv'
  <1> DEFINE x == bridge[b]
             s == x.scope
             c == x.call
             prior == calls[s][c]
             after == calls'[s][c]
  <1>0. JournalTypeOK /\ KeysKept /\ PendingFits /\ ProposalsFit
    BY Zenon DEF JournalInv
  <1>1. x.pc = "commit" /\ x \in BridgeStates /\ x.op \in {"prepare", "complete"}
    <2>1. x.pc = "commit"
      BY Zenon DEF CommitJournal
    <2>2. x \in BridgeStates
      BY <1>0, <2>1, BusyTyped, Zenon
    <2> QED
      BY <2>1, <2>2, Zenon DEF BridgeStates
  <1>2. /\ s \in Scopes /\ c \in LogicalCalls
        /\ calls' \in [Scopes -> [LogicalCalls -> ToolCallStates]] /\ refs' \in [Scopes -> Revisions]
        /\ \A t \in Scopes, o \in LogicalCalls : t # s \/ o # c => calls'[t][o] = calls[t][o]
        /\ \A t \in Scopes : t # s => refs'[t] = refs[t]
        /\ prior.state # "none" => after.state # "none" /\ after.revision = prior.revision
        /\ x.op = "prepare" =>
              /\ refs'[s] = refs[s]
              /\ prior.state # "none" => after = prior
              /\ prior.state = "none" =>
                    \/ inode[s] = 2 /\ after = prior
                    \/ after.state = "pending" /\ after.revision = x.revision
        /\ x.op = "complete" =>
              /\ prior.state = "none" => after = prior
              /\ after.state = "pending" => after = prior
              /\ refs'[s] = refs[s] \/ (prior.state = "pending" /\ after.state # "pending")
    <2>1. CommitLeaves(b, s, c)
      BY CommitWrites, Zenon
    <2> HIDE DEF x, s, c, prior, after
    <2> QED
      BY <2>1, Zenon DEF CommitLeaves, x, prior, after
  <1>3. /\ JournalTypeOK' /\ SpentRevisions' /\ WritersFit' /\ HeadsFit' /\ RetireFits'
        /\ KeptKeys' \subseteq KeptKeys \cup {KeyOf(x)}
        /\ x.op = "complete" => KeyOf(x) \in KeptKeys
        /\ inode' = inode
        /\ \A o \in Bridges : Proposing(bridge'[o]) => bridge'[o] = bridge[o] /\ bridge[o].scope # s
    BY <1>2, CommitMoves, Zenon
  <1>4. KeyOf(x).scope = s /\ KeyOf(x).call = c /\ KeyOf(x).revision = x.revision
    BY Zenon DEF KeyOf
  <1>5. x.op = "prepare" => Proposing(x)
    BY <1>1, Zenon DEF Proposing
  <1> HIDE DEF after, prior
  <1>6. ASSUME NEW k \in KeptKeys, k.scope = s, k.call = c PROVE k.revision = x.revision
    <2>1. CASE x.op = "prepare"
      BY <1>0, <1>5, <1>6, <2>1, ZenonT(60) DEF ProposalsFit
    <2>2. CASE x.op = "complete"
      BY <1>0, <1>3, <1>4, <1>6, <2>2, SMTT(60) DEF KeysKept
    <2> QED
      BY <1>1, <2>1, <2>2, Zenon
  <1>7. /\ after.state # "none" \/ inode[s] = 2
        /\ after.state # "none" => x.revision = after.revision
    <2>1. CASE x.op = "prepare"
      <3>1. prior.state # "none" => x.revision = prior.revision
        BY <1>0, <1>5, <2>1, Zenon DEF ProposalsFit, prior
      <3> QED
        BY <1>2, <2>1, <3>1, Zenon
    <2>2. CASE x.op = "complete"
      <3>1. /\ prior.state # "none" \/ inode[s] = 2
            /\ prior.state # "none" => x.revision = prior.revision
        BY <1>0, <1>3, <1>4, <2>2, SMTT(60) DEF KeysKept, prior
      <3> QED
        BY <1>2, <2>2, <3>1, ZenonT(60)
    <2> QED
      BY <1>1, <2>1, <2>2, Zenon
  <1>8. KeysKept'
    <2>1. ASSUME NEW k \in KeptKeys'
          PROVE  /\ calls'[k.scope][k.call].state # "none" \/ inode'[k.scope] = 2
                 /\ calls'[k.scope][k.call].state # "none" => k.revision = calls'[k.scope][k.call].revision
      <3>1. CASE k.scope = s /\ k.call = c
        <4>1. k.revision = x.revision
          BY <1>3, <1>4, <1>6, <3>1, Zenon
        <4> QED
          BY <1>3, <1>7, <3>1, <4>1, Zenon DEF after
      <3>2. CASE ~(k.scope = s /\ k.call = c)
        <4>1. k \in KeptKeys
          BY <1>3, <1>4, <3>2, Zenon
        <4>2. k.scope \in Scopes /\ k.call \in LogicalCalls
          BY <1>0, <4>1, KeptTyped, Zenon
        <4>3. calls'[k.scope][k.call] = calls[k.scope][k.call]
          BY <1>2, <3>2, <4>2, Zenon
        <4> QED
          BY <1>0, <1>3, <4>1, <4>3, ZenonT(60) DEF KeysKept
      <3> QED
        BY <3>1, <3>2, Zenon
    <2>2. ASSUME NEW k \in KeptKeys', NEW l \in KeptKeys', k.scope = l.scope, k.call = l.call
          PROVE  k.revision = l.revision
      <3>1. CASE k \in KeptKeys /\ l \in KeptKeys
        BY <1>0, <2>2, <3>1, Zenon DEF KeysKept
      <3>2. CASE k = KeyOf(x) \/ l = KeyOf(x)
        BY <1>3, <1>4, <1>6, <2>2, <3>2, Zenon
      <3> QED
        BY <1>3, <3>1, <3>2, Zenon
    <2> QED
      BY <2>1, <2>2, Zenon DEF KeysKept
  <1>9. PendingFits'
    <2> SUFFICES ASSUME NEW t \in Scopes, NEW o \in LogicalCalls, calls'[t][o].state = "pending"
                 PROVE  /\ calls'[t][o].revision = refs'[t]
                        /\ \A q \in LogicalCalls : calls'[t][q].state = "pending" => q = o
      BY Zenon DEF PendingFits
    <2>1. CASE t # s
      <3>1. refs'[t] = refs[t] /\ \A q \in LogicalCalls : calls'[t][q] = calls[t][q]
        BY <1>2, <2>1, Zenon
      <3>2. calls[t][o].state = "pending"
        BY <3>1, Zenon
      <3>3. calls[t][o].revision = refs[t] /\ \A q \in LogicalCalls : calls[t][q].state = "pending" => q = o
        BY <1>0, <3>2, Zenon DEF PendingFits
      <3> QED
        BY <3>1, <3>3, Zenon
    <2>2. CASE t = s /\ \A q \in LogicalCalls : calls'[s][q].state = "pending" => calls'[s][q] = calls[s][q]
      <3>1. calls[s][o].state = "pending" /\ calls'[s][o] = calls[s][o]
        BY <2>2, Zenon
      <3>2. calls[s][o].revision = refs[s] /\ \A q \in LogicalCalls : calls[s][q].state = "pending" => q = o
        BY <1>2, <1>0, <3>1, ZenonT(60) DEF PendingFits
      <3>3. refs'[s] = refs[s]
        <4>1. CASE x.op = "prepare"
          BY <1>2, <4>1, Zenon
        <4>2. CASE x.op = "complete"
          <5>1. prior.state = "pending" => c = o
            BY <1>2, <3>2, Zenon DEF prior
          <5> QED
            BY <1>2, <2>2, <4>2, <5>1, Zenon DEF after
        <4> QED
          BY <1>1, <4>1, <4>2, Zenon
      <3> QED
        BY <2>2, <3>1, <3>2, <3>3, Zenon
    <2>3. CASE t = s /\ ~(\A q \in LogicalCalls : calls'[s][q].state = "pending" => calls'[s][q] = calls[s][q])
      <3>1. PICK q \in LogicalCalls : calls'[s][q].state = "pending" /\ calls'[s][q] # calls[s][q]
        BY <2>3, Zenon
      <3>2. q = c
        BY <1>2, <3>1, Zenon
      <3>3. after.state = "pending" /\ after # prior
        BY <3>1, <3>2, Zenon DEF after, prior
      <3>4. x.op = "prepare" /\ prior.state = "none" /\ after.revision = x.revision /\ refs'[s] = refs[s]
        BY <1>1, <1>2, <3>3, Zenon
      <3>5. x.revision = refs[s] /\ \A r \in LogicalCalls : calls[s][r].state # "pending"
        BY <1>0, <1>5, <3>4, Zenon DEF ProposalsFit, prior
      <3>6. \A r \in LogicalCalls : calls'[s][r].state = "pending" => r = c
        BY <1>2, <3>5, ZenonT(60)
      <3> QED
        BY <2>3, <3>4, <3>5, <3>6, ZenonT(60) DEF after
    <2> QED
      BY <2>1, <2>2, <2>3, Zenon
  <1>10. ProposalsFit'
    <2> SUFFICES ASSUME NEW o \in Bridges, Proposing(bridge'[o]), NEW z, z = bridge'[o]
                 PROVE  /\ calls'[z.scope][z.call].state # "none" => z.revision = calls'[z.scope][z.call].revision
                        /\ calls'[z.scope][z.call].state = "none" =>
                              /\ z.revision = refs'[z.scope]
                              /\ \A q \in LogicalCalls : calls'[z.scope][q].state # "pending"
                        /\ \A k \in KeptKeys' : k.scope = z.scope /\ k.call = z.call => k.revision = z.revision
      BY Zenon DEF ProposalsFit
    <2>1. z = bridge[o] /\ z.scope # s /\ Proposing(bridge[o])
      BY <1>3, Zenon
    <2>2. z.scope \in Scopes /\ z.call \in LogicalCalls
      <3>1. bridge[o].pc # "idle"
        BY <2>1, Zenon DEF Proposing
      <3> QED
        BY <1>0, <2>1, <3>1, BusyTyped, Zenon
    <2>3. refs'[z.scope] = refs[z.scope] /\ \A q \in LogicalCalls : calls'[z.scope][q] = calls[z.scope][q]
      BY <1>2, <2>1, <2>2, Zenon
    <2>4. \A k \in KeptKeys' : k.scope = z.scope => k \in KeptKeys
      BY <1>3, <1>4, <2>1, Zenon
    <2>5. /\ calls[z.scope][z.call].state # "none" => z.revision = calls[z.scope][z.call].revision
          /\ calls[z.scope][z.call].state = "none" =>
                /\ z.revision = refs[z.scope]
                /\ \A q \in LogicalCalls : calls[z.scope][q].state # "pending"
          /\ \A k \in KeptKeys : k.scope = z.scope /\ k.call = z.call => k.revision = z.revision
      <3>1. Proposing(z)
        BY <2>1, Zenon
      <3> QED
        BY <1>0, <2>1, <3>1, ZenonT(60) DEF ProposalsFit
    <2>6. calls'[z.scope][z.call] = calls[z.scope][z.call]
      BY <2>2, <2>3, Zenon
    <2>7. calls'[z.scope][z.call].state # "none" => z.revision = calls'[z.scope][z.call].revision
      BY <2>5, <2>6, Zenon
    <2>8. calls'[z.scope][z.call].state = "none" =>
              /\ z.revision = refs'[z.scope]
              /\ \A q \in LogicalCalls : calls'[z.scope][q].state # "pending"
      BY <2>3, <2>5, <2>6, Zenon
    <2>9. \A k \in KeptKeys' : k.scope = z.scope /\ k.call = z.call => k.revision = z.revision
      BY <2>4, <2>5, Zenon
    <2> QED
      BY <2>7, <2>8, <2>9, Zenon
  <1> QED
    BY <1>3, <1>8, <1>9, <1>10, Zenon DEF JournalInv

RetireStates == [pc : {"idle", "marked", "replacing", "done"}, left : SUBSET Scopes, failed : BOOLEAN]

\* A step of the retirement leaves the bridges, and the keys, alone.
LEMMA RetireQuiet ==
  ASSUME JournalInv, UNCHANGED <<indexer, calls, refs, bridge, appliedCalls>>,
         closed' \in BOOLEAN, index' \subseteq Scopes, inode' \in [Scopes -> 0..2],
         retiring' \in RetireStates, journalTrouble' \in 0..MaxJournalTrouble,
         \A s \in Scopes : inode'[s] = inode[s] \/ inode'[s] = 2,
         HeadsFit', RetireFits'
  PROVE  JournalInv'
  <1>0. JournalTypeOK /\ SpentRevisions /\ WritersFit /\ KeysKept /\ PendingFits /\ ProposalsFit
    BY Zenon DEF JournalInv
  <1>1. JournalTypeOK'
    BY <1>0, Zenon DEF JournalTypeOK, RetireStates
  <1>2. SpentRevisions'
    BY <1>0, Zenon DEF SpentRevisions
  <1>3. WritersFit'
    <2>1. ASSUME NEW o \in Bridges, bridge[o].pc \in {"begin", "write", "commit"}, inode[bridge[o].scope] # 0
          PROVE  inode'[bridge[o].scope] # 0
      <3>1. bridge[o].scope \in Scopes
        BY <1>0, <2>1, BusyTyped, Zenon
      <3>2. inode'[bridge[o].scope] = inode[bridge[o].scope] \/ inode'[bridge[o].scope] = 2
        BY <3>1, Zenon
      <3> QED
        BY <2>1, <3>2
    <2> QED
      BY <1>0, <2>1, WritersStay, Zenon
  <1>4. KeptKeys' = KeptKeys
    BY Zenon DEF KeptKeys
  <1>5. \A k \in KeptKeys : inode[k.scope] = 2 => inode'[k.scope] = 2
    <2> SUFFICES ASSUME NEW k \in KeptKeys, inode[k.scope] = 2 PROVE inode'[k.scope] = 2
      OBVIOUS
    <2>1. k.scope \in Scopes
      BY <1>0, KeptTyped, Zenon
    <2> QED
      BY <2>1, Zenon
  <1>6. KeysKept' /\ PendingFits' /\ ProposalsFit'
    <2>1. \A o \in Bridges : Proposing(bridge'[o]) => bridge'[o] = bridge[o]
      BY Zenon
    <2> QED
      BY <1>0, <1>4, <1>5, <2>1, KeysStay, Zenon
  <1> QED
    BY <1>1, <1>2, <1>3, <1>6, Zenon DEF JournalInv

\* What the retirement reads.
LEMMA RetireReads ==
  ASSUME JournalInv
  PROVE  /\ closed \in BOOLEAN /\ inode \in [Scopes -> 0..2] /\ retiring \in RetireStates
         /\ index \subseteq Scopes /\ journalTrouble \in 0..MaxJournalTrouble
         /\ HeadsFit /\ RetireFits
  BY Zenon DEF JournalInv, JournalTypeOK, RetireStates

\* The steps of the retirement: whatever it interrupts and whatever interrupts
\* it, the index lists what is left to replace.
LEMMA RetireStep ==
  ASSUME JournalInv,
         CloseRun \/ ReadScopes \/ (\E s \in Scopes : RetireJournal(s)) \/ EndRetirement \/ RetirementDies
  PROVE  JournalInv'
  <1>0. /\ closed \in BOOLEAN /\ inode \in [Scopes -> 0..2] /\ retiring \in RetireStates
        /\ index \subseteq Scopes /\ journalTrouble \in 0..MaxJournalTrouble
        /\ HeadsFit /\ RetireFits
    BY RetireReads, Zenon
  <1>1. /\ [pc |-> "idle", left |-> {}, failed |-> FALSE] \in RetireStates
        /\ [pc |-> "done", left |-> {}, failed |-> FALSE] \in RetireStates
        /\ \A scopes \in SUBSET Scopes : [pc |-> "replacing", left |-> scopes, failed |-> FALSE] \in RetireStates
    BY Zenon DEF RetireStates
  <1>2. CASE CloseRun
    <2>1. /\ closed' = TRUE /\ retiring' = [retiring EXCEPT !.pc = "marked"]
          /\ UNCHANGED <<index, indexer, inode, calls, refs, bridge, appliedCalls, journalTrouble>>
      BY <1>2, Zenon DEF CloseRun
    <2>2. retiring' \in RetireStates /\ retiring'.pc = "marked"
      BY <1>0, <2>1, Zenon DEF RetireStates
    <2>3. HeadsFit'
      BY <2>1, Zenon DEF HeadsFit
    <2>4. RetireFits'
      BY <1>0, <2>1, <2>2, Zenon DEF RetireFits, RetiredLeavesNothing
    <2> QED
      BY <1>0, <2>1, <2>2, <2>3, <2>4, RetireQuiet, Zenon
  <1>3. CASE ReadScopes
    <2>1. /\ retiring.pc = "marked"
          /\ retiring' = [pc |-> "replacing", left |-> index, failed |-> FALSE]
          /\ UNCHANGED <<closed, index, indexer, inode, calls, refs, bridge, appliedCalls, journalTrouble>>
      BY <1>3, Zenon DEF ReadScopes
    <2>2. retiring' \in RetireStates
      BY <1>0, <1>1, <2>1, Zenon
    <2>3. retiring'.pc = "replacing" /\ retiring'.left = index
      BY <2>1, Zenon
    <2>4. closed /\ closed'
      BY <1>0, <2>1, Zenon DEF HeadsFit
    <2>5. HeadsFit'
      BY <2>4, Zenon DEF HeadsFit
    <2>6. RetireFits'
      BY <1>0, <2>1, <2>3, <2>4, Zenon DEF RetireFits, RetiredLeavesNothing
    <2> QED
      BY <1>0, <2>1, <2>2, <2>5, <2>6, RetireQuiet, Zenon
  <1>4. ASSUME NEW s \in Scopes, RetireJournal(s) PROVE JournalInv'
    <2>1. /\ retiring.pc = "replacing" /\ s \in retiring.left
          /\ UNCHANGED <<closed, index, indexer, calls, refs, bridge, appliedCalls>>
      BY <1>4, Zenon DEF RetireJournal
    <2>2. closed /\ closed'
      BY <1>0, <2>1, Zenon DEF HeadsFit
    <2>3. HeadsFit'
      BY <2>2, Zenon DEF HeadsFit
    <2>4. CASE /\ inode' = [inode EXCEPT ![s] = 2]
               /\ retiring' = [retiring EXCEPT !.left = retiring.left \ {s}]
               /\ UNCHANGED journalTrouble
      <3>1. /\ inode' \in [Scopes -> 0..2] /\ inode'[s] = 2
            /\ \A t \in Scopes : t # s => inode'[t] = inode[t]
        BY <1>0, <2>4
      <3>2. /\ retiring' \in RetireStates /\ retiring'.pc = retiring.pc
            /\ retiring'.left = retiring.left \ {s} /\ retiring'.failed = retiring.failed
        BY <1>0, <2>4, Zenon DEF RetireStates
      <3>3. \A t \in Scopes : inode'[t] = 1 => t # s /\ inode[t] = 1
        BY <3>1
      <3>4. RetireFits'
        BY <1>0, <2>1, <3>2, <3>3, Zenon DEF RetireFits, RetiredLeavesNothing
      <3> QED
        BY <1>0, <2>1, <2>3, <2>4, <3>1, <3>2, <3>4, RetireQuiet, Zenon
    <2>5. CASE /\ journalTrouble < MaxJournalTrouble /\ journalTrouble' = journalTrouble + 1
               /\ retiring' = [retiring EXCEPT !.left = retiring.left \ {s}, !.failed = TRUE]
               /\ UNCHANGED inode
      <3>1. journalTrouble' \in 0..MaxJournalTrouble
        BY <1>0, <2>5, JournalAssumption
      <3>2. retiring' \in RetireStates
        <4> DEFINE y == [retiring EXCEPT !.left = retiring.left \ {s}]
        <4>1. y \in RetireStates
          BY <1>0, Zenon DEF RetireStates
        <4>2. retiring' = [y EXCEPT !.failed = TRUE]
          BY <2>5, Zenon
        <4> HIDE DEF y
        <4> QED
          BY <4>1, <4>2, ZenonT(60) DEF RetireStates
      <3>3. retiring'.pc = retiring.pc /\ retiring'.failed
        BY <1>0, <2>5, Zenon DEF RetireStates
      <3>4. RetireFits'
        BY <1>0, <2>1, <2>5, <3>3, Zenon DEF RetireFits, RetiredLeavesNothing
      <3> QED
        BY <1>0, <2>1, <2>3, <2>5, <3>1, <3>2, <3>4, RetireQuiet, Zenon
    <2> QED
      BY <1>4, <2>4, <2>5, Zenon DEF RetireJournal
  <1>5. CASE EndRetirement
    <2>1. /\ retiring.pc = "replacing" /\ retiring.left = {}
          /\ index' = IF retiring.failed THEN index ELSE {}
          /\ retiring' = [pc |-> IF retiring.failed THEN "idle" ELSE "done", left |-> {}, failed |-> FALSE]
          /\ UNCHANGED <<closed, indexer, inode, calls, refs, bridge, appliedCalls, journalTrouble>>
      BY <1>5, Zenon DEF EndRetirement
    <2>2. closed /\ closed'
      BY <1>0, <2>1, Zenon DEF HeadsFit
    <2>3. HeadsFit'
      BY <2>2, Zenon DEF HeadsFit
    <2>4. CASE retiring.failed
      <3>1. retiring' = [pc |-> "idle", left |-> {}, failed |-> FALSE] /\ index' = index
        BY <2>1, <2>4, Zenon
      <3>2. retiring'.pc = "idle"
        BY <3>1, Zenon
      <3>3. RetireFits'
        BY <1>0, <2>1, <2>2, <3>1, <3>2, Zenon DEF RetireFits, RetiredLeavesNothing
      <3> QED
        BY <1>0, <1>1, <2>1, <2>3, <3>1, <3>3, RetireQuiet, Zenon
    <2>5. CASE ~retiring.failed
      <3>1. retiring' = [pc |-> "done", left |-> {}, failed |-> FALSE] /\ index' = {}
        BY <2>1, <2>5, Zenon
      <3>2. retiring'.pc = "done"
        BY <3>1, Zenon
      <3>3. \A s \in Scopes : inode'[s] # 1
        BY <1>0, <2>1, <2>5, Zenon DEF RetireFits
      <3>4. RetireFits'
        BY <2>2, <3>2, <3>3, Zenon DEF RetireFits, RetiredLeavesNothing
      <3>5. index' \subseteq Scopes
        BY <3>1, Zenon
      <3> QED
        BY <1>0, <1>1, <2>1, <2>3, <3>1, <3>4, <3>5, RetireQuiet, Zenon
    <2> QED
      BY <2>4, <2>5, Zenon
  <1>6. CASE RetirementDies
    <2>1. /\ retiring.pc \in {"marked", "replacing"}
          /\ journalTrouble < MaxJournalTrouble /\ journalTrouble' = journalTrouble + 1
          /\ retiring' = [pc |-> "idle", left |-> {}, failed |-> FALSE]
          /\ UNCHANGED <<closed, index, indexer, inode, calls, refs, bridge, appliedCalls>>
      BY <1>6, Zenon DEF RetirementDies
    <2>2. journalTrouble' \in 0..MaxJournalTrouble
      BY <1>0, <2>1, JournalAssumption
    <2>3. retiring'.pc = "idle"
      BY <2>1, Zenon
    <2>4. HeadsFit'
      BY <1>0, <2>1, <2>3, Zenon DEF HeadsFit
    <2>5. RetireFits'
      BY <1>0, <2>1, <2>3, Zenon DEF RetireFits, RetiredLeavesNothing
    <2> QED
      BY <1>0, <1>1, <2>1, <2>2, <2>4, <2>5, RetireQuiet, Zenon
  <1> QED
    BY <1>2, <1>3, <1>4, <1>5, <1>6, Zenon

LEMMA JournalInvStep == JournalInv /\ [JournalNext]_journalVars => JournalInv'
  <1> SUFFICES ASSUME JournalInv, [JournalNext]_journalVars PROVE JournalInv'
    OBVIOUS
  <1>1. ASSUME NEW b \in Bridges,
               \/ \E s \in Scopes, c \in LogicalCalls : DispatchCall(b, s, c)
               \/ RegisterScope(b) \/ CommitIndex(b) \/ BridgeDies(b)
        PROVE  JournalInv'
    BY <1>1, ReachStep, Zenon
  <1>2. ASSUME NEW b \in Bridges, OpenJournal(b) PROVE JournalInv'
    BY <1>2, OpenStep, Zenon
  <1>3. ASSUME NEW b \in Bridges, BeginJournal(b) PROVE JournalInv'
    BY <1>3, BeginStep, SMTT(60)
  <1>4. ASSUME NEW b \in Bridges, WriteJournal(b) PROVE JournalInv'
    BY <1>4, WriteStep, Zenon
  <1>5. ASSUME NEW b \in Bridges, CommitJournal(b) PROVE JournalInv'
    BY <1>5, CommitStep, Zenon
  <1>6. ASSUME NEW b \in Bridges, DeliverCall(b) PROVE JournalInv'
    BY <1>6, DeliverStep, Zenon
  <1>7. CASE CloseRun \/ ReadScopes \/ (\E s \in Scopes : RetireJournal(s)) \/ EndRetirement \/ RetirementDies
    BY <1>7, RetireStep, Zenon
  <1>8. CASE UNCHANGED journalVars
    <2>1. UNCHANGED <<closed, index, indexer, inode, calls, refs, bridge, retiring, appliedCalls, journalTrouble>>
      BY <1>8, Zenon DEF journalVars
    <2>2. HeadsFit' /\ RetireFits'
      BY <2>1, RetireReads, Zenon DEF HeadsFit, RetireFits, RetiredLeavesNothing
    <2> QED
      BY <2>1, <2>2, RetireReads, RetireQuiet, Zenon
  <1> QED
    BY <1>1, <1>2, <1>3, <1>4, <1>5, <1>6, <1>7, <1>8, Zenon DEF JournalNext

LEMMA JournalInitial == JournalInit => JournalInv
  <1> SUFFICES ASSUME JournalInit PROVE JournalInv
    OBVIOUS
  <1>1. /\ closed = FALSE /\ index = {} /\ indexer = "nobody" /\ appliedCalls = {} /\ journalTrouble = 0
        /\ \A s \in Scopes : inode[s] = 0 /\ refs[s] = 0
        /\ inode \in [Scopes -> {0}] /\ refs \in [Scopes -> {0}]
        /\ calls \in [Scopes -> [LogicalCalls -> {NoToolCall}]]
        /\ \A s \in Scopes, c \in LogicalCalls : calls[s][c] = NoToolCall
        /\ bridge \in [Bridges -> {Rested}] /\ \A b \in Bridges : bridge[b] = Rested
    BY Zenon DEF JournalInit
  <1>2. retiring \in RetireStates /\ retiring.pc = "idle"
    <2>1. retiring = [pc |-> "idle", left |-> {}, failed |-> FALSE]
      BY Zenon DEF JournalInit
    <2>2. retiring \in RetireStates
      BY <2>1, Zenon DEF RetireStates
    <2> QED
      BY <2>1, <2>2, Zenon
  <1>3. NoToolCall \in ToolCallStates /\ NoToolCall.state = "none"
    BY JournalAssumption DEF NoToolCall, ToolCallStates, Revisions
  <1>4. JournalTypeOK
    <2>1. 0 \in Revisions /\ 0 \in 0..2 /\ 0 \in 0..MaxJournalTrouble
      BY JournalAssumption DEF Revisions
    <2>2. /\ inode \in [Scopes -> 0..2] /\ refs \in [Scopes -> Revisions]
          /\ bridge \in [Bridges -> BridgeStates]
      BY <1>1, <2>1, RestedTyped, Zenon
    <2>3. calls \in [Scopes -> [LogicalCalls -> ToolCallStates]]
      BY <1>1, <1>3, Zenon
    <2> QED
      BY <1>1, <1>2, <2>1, <2>2, <2>3, Zenon DEF JournalTypeOK, ToolCallStates, RetireStates
  <1>5. \A b \in Bridges : /\ ~Carrying(bridge[b]) /\ ~Proposing(bridge[b]) /\ ~Writing(bridge[b])
                           /\ bridge[b].pc = "idle" /\ bridge[b].op = "prepare"
    <2>1. ~Carrying(Rested) /\ ~Proposing(Rested) /\ ~Writing(Rested) /\ Rested.pc = "idle" /\ Rested.op = "prepare"
      BY RestedTyped, Zenon DEF Carrying, Proposing, Writing
    <2> QED
      BY <1>1, <2>1, Zenon
  <1>6. KeptKeys = {}
    BY <1>1, <1>5, Zenon DEF KeptKeys
  <1>7. SpentRevisions /\ WritersFit
    BY <1>1, <1>5, Zenon DEF SpentRevisions, WritersFit
  <1>8. HeadsFit /\ RetireFits
    <2>1. \A s \in Scopes : inode[s] # 2 /\ inode[s] # 1
      BY <1>1
    <2>2. retiring.pc # "replacing" /\ retiring.pc # "done" /\ \A b \in Bridges : bridge[b].pc # "open"
      BY <1>2, <1>5, Zenon
    <2> QED
      BY <1>2, <2>1, <2>2, Zenon DEF HeadsFit, RetireFits, RetiredLeavesNothing
  <1>9. KeysKept /\ PendingFits /\ ProposalsFit
    <2>1. \A s \in Scopes, c \in LogicalCalls : calls[s][c].state # "pending"
      BY <1>1, <1>3, Zenon
    <2> QED
      BY <1>5, <1>6, <2>1, Zenon DEF KeysKept, PendingFits, ProposalsFit
  <1> QED
    BY <1>4, <1>7, <1>8, <1>9, Zenon DEF JournalInv

\* Two executed keys of one call are one key.
LEMMA JournalSafe == JournalInv => ExecutedOnce /\ RetiredLeavesNothing
  <1> SUFFICES ASSUME JournalInv PROVE ExecutedOnce /\ RetiredLeavesNothing
    OBVIOUS
  <1>1. KeysKept /\ RetireFits
    BY Zenon DEF JournalInv
  <1>2. ASSUME NEW k \in appliedCalls, NEW l \in appliedCalls, k.scope = l.scope, k.call = l.call
        PROVE  k = l
    <2>1. k.revision = l.revision
      BY <1>1, <1>2, JournalReads, Zenon DEF KeysKept
    <2>2. /\ k \in [scope : Scopes, call : LogicalCalls, revision : Revisions]
          /\ l \in [scope : Scopes, call : LogicalCalls, revision : Revisions]
      BY JournalReads, Zenon
    <2> QED
      BY <1>2, <2>1, <2>2
  <1>3. RetiredLeavesNothing
    BY <1>1, Zenon DEF RetireFits
  <1> QED
    BY <1>2, <1>3, Zenon DEF ExecutedOnce

\* Only a completion moves the revision of a scope, and what it completes was
\* pending at that revision.
LEMMA JournalForward == JournalInv /\ JournalNext => LifecycleGoesForward
  <1> SUFFICES ASSUME JournalInv, JournalNext, NEW s \in Scopes PROVE refs'[s] >= refs[s]
    BY Zenon DEF LifecycleGoesForward
  <1>0. refs[s] \in Nat
    BY JournalAssumption DEF JournalInv, JournalTypeOK, Revisions
  <1>1. CASE refs' = refs
    BY <1>0, <1>1
  <1>2. ASSUME NEW b \in Bridges, CommitJournal(b) PROVE refs'[s] >= refs[s]
    <2> DEFINE x == bridge[b]
               prior == calls[x.scope][x.call]
    <2>1. /\ x.scope \in Scopes /\ x.call \in LogicalCalls
          /\ \A t \in Scopes : t # x.scope => refs'[t] = refs[t]
          /\ x.op = "prepare" => refs'[x.scope] = refs[x.scope]
          /\ x.op = "complete" => refs'[x.scope] = refs[x.scope]
                                  \/ (prior.state = "pending" /\ refs'[x.scope] = x.revision + 1)
      BY <1>2, CommitWrites, ZenonT(60) DEF CommitLeaves
    <2>2. x.op \in {"prepare", "complete"}
      BY Zenon DEF JournalInv, JournalTypeOK, BridgeStates
    <2>3. CASE refs'[s] = refs[s]
      BY <1>0, <2>3, SMTT(60)
    <2>4. CASE s = x.scope /\ x.op = "complete" /\ prior.state = "pending" /\ refs'[s] = x.revision + 1
      <3>1. KeyOf(x) \in KeptKeys
        BY <1>2, <2>4, CommitMoves, Zenon
      <3>2. KeyOf(x).scope = x.scope /\ KeyOf(x).call = x.call /\ KeyOf(x).revision = x.revision
        BY Zenon DEF KeyOf
      <3>3. x.revision = prior.revision
        BY <2>4, <3>1, <3>2, Zenon DEF JournalInv, KeysKept
      <3>4. prior.revision = refs[s]
        BY <2>1, <2>4, Zenon DEF JournalInv, PendingFits
      <3> QED
        BY <1>0, <2>4, <3>3, <3>4
    <2> QED
      BY <2>1, <2>2, <2>3, <2>4, ZenonT(60)
  <1>3. refs' = refs \/ \E b \in Bridges : CommitJournal(b)
    BY Zenon DEF JournalNext, DispatchCall, RegisterScope, CommitIndex, OpenJournal, BeginJournal,
                 WriteJournal, DeliverCall, BridgeDies, CloseRun, ReadScopes, RetireJournal,
                 EndRetirement, RetirementDies
  <1> QED
    BY <1>1, <1>2, <1>3, Zenon

(* The invariant of the journal holds of every behaviour of the bridges, the
   retirement and what interrupts them. *)
LEMMA JournalAlways == JournalSpec => []JournalInv
  BY JournalInitial, JournalInvStep, PTL DEF JournalSpec

(* Whatever number of bridges, scopes and calls, and whatever is lost, dies or
   is retried: the revision the lifecycle table of a journal hands to the next
   call never goes back ("a late replay must not roll it backward"). *)
THEOREM JournalForwardTheorem == JournalSpec => [][LifecycleGoesForward]_journalVars
  BY JournalAlways, JournalForward, PTL DEF JournalSpec

(* The authoring edge and the tool-call journal together, for every number of
   calls, roles, bridges and scopes: a command is applied once, to the engine
   that was proven, in the order of its submission and one per role; a logical
   tool call is executed once, however often it is delivered; and a run that
   was retired leaves no journal behind. *)
THEOREM EffectsHappenOnceTheorem == EdgeSpec /\ JournalSpec => []EffectsHappenOnce
  <1>1. EdgeSpec => [](AppliedOnce /\ SpokenToTheEngine /\ SubmissionInOrder /\ OneCallPerRole)
    BY EdgeTheorem, Zenon
  <1>2. (AppliedOnce /\ SpokenToTheEngine /\ SubmissionInOrder /\ OneCallPerRole)
          /\ (ExecutedOnce /\ RetiredLeavesNothing) => EffectsHappenOnce
    BY Zenon DEF EffectsHappenOnce
  <1> QED
    BY <1>1, <1>2, JournalAlways, JournalSafe, PTL

=============================================================================
