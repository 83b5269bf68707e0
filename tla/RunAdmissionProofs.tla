------------------------- MODULE RunAdmissionProofs -------------------------
(***************************************************************************)
(* What the reservation broker and the drain gate promise, for any number  *)
(* of posts, bodies, reservations and restarts.  First the types, the      *)
(* places of the handlers and the leases, the part of the invariant that   *)
(* needs no counting; then the capacity, the stripes and the gate.         *)
(***************************************************************************)
EXTENDS RunAdmission, FiniteSetTheorems, TLAPS

\* Where only a commit is, and where a start and a commit are making the run.
Committing == {"lookup", "selection", "ready", "bind", "again", "complete", "classify"}
Making == {"admit", "create", "dispatch", "release", "undo", "taken"}

\* The handler is inside the stripe of its run.
Holds(p) ==
    \/ request[p].verb = "commit" /\ request[p].pc \in Committing \cup Making
    \/ request[p].pc = "free"

\* The commit has bound its reservation and not settled it yet.
Bound(p) ==
    /\ request[p].verb = "commit"
    /\ request[p].pc \in Making \cup {"again", "complete", "classify"}

\* Where a handler can be, by what was posted.
HandlersFit ==
    \A p \in Requests :
        LET h == request[p] IN
        /\ h.pc # "new" => h.body \in Bodies
        /\ h.id <= issued
        /\ h.id = 0 <=> h.verb \in {"start", "prepare"}
        /\ h.pc = "read" => h.verb = "start"
        /\ h.pc = "probe" => h.verb = "prepare"
        /\ h.pc = "free" => h.verb = "release"
        /\ h.pc = "stripe" => h.verb \in {"commit", "release"}
        /\ h.pc \in Committing \cup {"committed"} => h.verb = "commit"
        /\ h.pc \in Making => h.verb \in {"start", "commit"}
        /\ Holds(p) => stripe[RunOf(p)] = p

\* No reservation is there before it is minted.
MintedOnce == \A i \in Ids : i > issued => reservations[i] = Gone

\* A commit past its bind is alone with its reservation, which nobody else may
\* bind and which no other run carries.
BoundAlone ==
    \A p \in Requests : Bound(p) =>
        LET i == request[p].id IN
        /\ reservations[i].state # "active"
        /\ Live(i) => PreparedDigest(reservations[i].body) = PreparedDigest(request[p].body)
        /\ \A r \in Runs : run[r].lease = i => r = RunOf(p)
        /\ \A q \in Requests : Bound(q) /\ request[q].id = i => p = q

\* A run that carries a lease is the only one, and the reservation, if it is
\* still there, was prepared for that run and is not open.
LeasedAlone ==
    \A r \in Runs : run[r].lease # 0 =>
        LET i == run[r].lease IN
        /\ i <= issued
        /\ run[r].body.run = r
        /\ reservations[i].state # "active"
        /\ Live(i) => PreparedDigest(reservations[i].body) = PreparedDigest(run[r].body)
        /\ \A s \in Runs : run[s].lease = i => r = s

-----------------------------------------------------------------------------
(* Type correctness.                                                        *)

\* A handler that was called has a run.
LEMMA CalledHasRun ==
  ASSUME TypeOK, HandlersFit, NEW p \in Requests, request[p].pc # "new"
  PROVE  request[p].body \in Bodies /\ RunOf(p) \in Runs
  BY Zenon DEF HandlersFit, RunOf, Runs

\* A handler that only moves on stays a handler.
LEMMA GoesTyped ==
  ASSUME TypeOK, NEW p \in Requests, NEW pc \in PCs, Goes(p, pc)
  PROVE  request' \in [Requests -> Handler]
  BY DEF TypeOK, Goes, Handler, PCs

\* A reservation that is there stays one whichever state it is put in.
LEMMA StateMoves ==
  ASSUME NEW f \in [Ids -> Reservation], NEW i \in Ids, f[i].state # "gone",
         NEW s \in {"active", "committing"}
  PROVE  [f EXCEPT ![i].state = s] \in [Ids -> Reservation]
  <1>1. f[i] \in [state : {"active", "committing"}, body : Bodies, expires : Nat]
    BY DEF Reservation, Gone
  <1>2. [f[i] EXCEPT !.state = s] \in [state : {"active", "committing"}, body : Bodies, expires : Nat]
    BY <1>1, Zenon
  <1> QED
    BY <1>2, Zenon DEF Reservation

\* The broker's operators return reservations.
LEMMA BrokerTyped ==
  ASSUME TypeOK
  PROVE  /\ Swept \in [Ids -> Reservation]
         /\ \A i \in 0..Issues : Consumed(i) \in [Ids -> Reservation]
         /\ \A i \in 0..Issues : Restored(i) \in [Ids -> Reservation]
         /\ \A i \in 0..Issues : \A b : Freed(i, b) \in [Ids -> Reservation]
         /\ \A i \in 0..Issues : Swept[i].state # "gone" =>
              [Swept EXCEPT ![i].state = "committing"] \in [Ids -> Reservation]
  <1> USE DEF TypeOK, Reservation, Gone, Ids
  <1>1. Swept \in [Ids -> Reservation]
    BY Zenon DEF Swept
  <1>2. ASSUME NEW i \in 0..Issues PROVE Consumed(i) \in [Ids -> Reservation]
    BY Zenon DEF Consumed
  <1>3. ASSUME NEW i \in 0..Issues PROVE Restored(i) \in [Ids -> Reservation]
    <2>1. CASE reservations[i].state = "committing" /\ i \in Ids
      BY <1>2, <2>1, StateMoves, Zenon DEF Restored
    <2>2. CASE reservations[i].state # "committing"
      BY <2>2, Zenon DEF Restored
    <2>3. CASE i \notin Ids
      BY <1>2, <2>3, Zenon DEF Restored
    <2> QED
      BY <2>1, <2>2, <2>3, Zenon
  <1>4. ASSUME NEW i \in 0..Issues, NEW b PROVE Freed(i, b) \in [Ids -> Reservation]
    BY <1>2, Zenon DEF Freed
  <1>5. ASSUME NEW i \in 0..Issues, Swept[i].state # "gone"
        PROVE  [Swept EXCEPT ![i].state = "committing"] \in [Ids -> Reservation]
    <2>1. CASE i \in Ids
      BY <1>1, <1>5, <2>1, StateMoves, Zenon
    <2>2. CASE i \notin Ids
      BY <1>1, <2>2, Zenon
    <2> QED
      BY <2>1, <2>2, Zenon
  <1> QED
    BY <1>1, <1>2, <1>3, <1>4, <1>5, Zenon

\* The steps of a handler that touch neither the store, the broker nor a stripe.
Quiet(p) ==
    \/ Read(p) \/ RefuseEarly(p) \/ RefuseNickname(p) \/ JoinWinner(p) \/ FailCreate(p)
    \/ Dispatch(p) \/ RaiseAfterInsert(p) \/ ReadAgain(p) \/ Admit(p) \/ ReleaseStart(p)

\* A quiet step moves its handler on, to where its verb may go, and may touch
\* the set of the gate.
LEMMA QuietMoves ==
  ASSUME TypeOK, HandlersFit, NEW p \in Requests, Quiet(p)
  PROVE  /\ UNCHANGED <<run, broker, stripe, drain, releasing, clock, mine>>
         /\ request[p].pc \in Making \cup {"read", "again"}
         /\ \E pc \in Making \cup {"answered", "refused", "nickname", "complete", "classify"} :
               /\ Goes(p, pc)
               /\ pc \in {"complete", "classify"} <=> /\ request[p].verb = "commit"
                                                      /\ pc \notin Making
         /\ active' \subseteq Runs
  <1>1. request[p].pc \in Making \cup {"read", "again"}
    BY Zenon DEF Quiet, Read, RefuseEarly, RefuseNickname, JoinWinner, FailCreate, Dispatch,
           RaiseAfterInsert, ReadAgain, Admit, ReleaseStart, Making
  <1>2. RunOf(p) \in Runs
    BY <1>1, CalledHasRun, Zenon DEF Making
  <1> DEFINE Next1(pc) == /\ pc \in Making \cup {"answered", "refused", "nickname", "complete", "classify"}
                          /\ Goes(p, pc)
                          /\ pc \in {"complete", "classify"} <=> /\ request[p].verb = "commit"
                                                                 /\ pc \notin Making
  <1>3. \E pc : Next1(pc)
    <2>1. CASE Read(p)
      BY <2>1 DEF Read, Replayed, Succeeded, Failed, Making
    <2>2. CASE RefuseEarly(p)
      BY <2>2 DEF RefuseEarly, Failed, Making
    <2>3. CASE RefuseNickname(p)
      BY <2>3 DEF RefuseNickname, Making
    <2>4. CASE JoinWinner(p)
      BY <2>4 DEF JoinWinner, Replayed, Succeeded, Failed, Making
    <2>5. CASE FailCreate(p)
      BY <2>5 DEF FailCreate, Making
    <2>6. CASE Dispatch(p)
      BY <2>6 DEF Dispatch, Succeeded, Failed, Making
    <2>7. CASE RaiseAfterInsert(p)
      BY <2>7 DEF RaiseAfterInsert, Making
    <2>8. CASE ReadAgain(p)
      BY <2>8 DEF ReadAgain, Replayed, Succeeded, Failed, Making
    <2>9. CASE Admit(p)
      BY <2>9 DEF Admit, Failed, Making
    <2>10. CASE ReleaseStart(p)
      BY <2>10 DEF ReleaseStart, Failed, Making
    <2> QED
      BY <2>1, <2>2, <2>3, <2>4, <2>5, <2>6, <2>7, <2>8, <2>9, <2>10, Zenon DEF Quiet
  <1>4. /\ UNCHANGED <<run, broker, stripe, drain, releasing, clock, mine>>
        /\ active' \subseteq Runs
    BY <1>2, Zenon DEF Quiet, Read, RefuseEarly, RefuseNickname, JoinWinner, FailCreate, Dispatch,
           RaiseAfterInsert, ReadAgain, Admit, ReleaseStart, gate, TypeOK
  <1> QED
    BY <1>1, <1>3, <1>4, Zenon

\* A mishap is added to those of its run.
LEMMA BefallsGrows ==
  ASSUME TypeOK, NEW r \in Runs, NEW mishap \in Mishaps, Befalls(r, mishap)
  PROVE  /\ befell' \in [Runs -> SUBSET Mishaps]
         /\ \A s \in Runs : befell[s] \subseteq befell'[s]
         /\ mishap \in befell'[r]
  BY Zenon DEF Befalls, TypeOK

\* No step forgets a mishap.
LEMMA BefellStep ==
  ASSUME TypeOK, HandlersFit, [Next]_vars
  PROVE  befell' \in [Runs -> SUBSET Mishaps] /\ \A s \in Runs : befell[s] \subseteq befell'[s]
  <1>1. ASSUME UNCHANGED befell
        PROVE  befell' \in [Runs -> SUBSET Mishaps] /\ \A s \in Runs : befell[s] \subseteq befell'[s]
    BY <1>1, Zenon DEF TypeOK
  <1>2. ASSUME NEW p \in Requests, Post(p)
        PROVE  befell' \in [Runs -> SUBSET Mishaps] /\ \A s \in Runs : befell[s] \subseteq befell'[s]
    <2>1. \/ befell' = befell
          \/ \E b \in Bodies : Befalls(b.run, "overlap")
      BY <1>2, Zenon DEF Post
    <2>2. \A b \in Bodies : b.run \in Runs
      BY Zenon DEF Runs
    <2> QED BY <1>1, <2>1, <2>2, BefallsGrows, Zenon DEF Mishaps
  <1>3. ASSUME NEW p \in Requests, RaiseAfterInsert(p)
        PROVE  befell' \in [Runs -> SUBSET Mishaps] /\ \A s \in Runs : befell[s] \subseteq befell'[s]
    <2>1. RunOf(p) \in Runs
      BY <1>3, CalledHasRun, Zenon DEF RaiseAfterInsert
    <2> QED BY <1>3, <2>1, BefallsGrows, Zenon DEF RaiseAfterInsert, Mishaps
  <1>4. ASSUME NEW r \in Runs, SettleUnseen(r)
        PROVE  befell' \in [Runs -> SUBSET Mishaps] /\ \A s \in Runs : befell[s] \subseteq befell'[s]
    BY <1>4, BefallsGrows, Zenon DEF SettleUnseen, Mishaps
  <1>5. ASSUME NEW p \in Requests, Handle(p) PROVE RaiseAfterInsert(p) \/ UNCHANGED befell
    BY <1>5, Zenon DEF Handle, Read, RefuseEarly, Admit, Insert, RefuseNickname, JoinWinner, FailCreate,
              Dispatch, ReleaseStart, Prepare, TakeStripe, Lookup, Selection, Ready, Bind, ReadAgain,
              Complete, Classify, Free
  <1>6. ASSUME NEW r \in Runs, Settle(r) \/ ReleaseSettled(r) PROVE UNCHANGED befell
    BY <1>6, Zenon DEF Settle, ReleaseSettled
  <1>7. CASE CloseAdmission \/ WaitQuiescent \/ Tick \/ Restart \/ UNCHANGED vars
    BY <1>1, <1>7, Zenon DEF CloseAdmission, WaitQuiescent, Tick, Restart, vars
  <1> QED BY <1>1, <1>2, <1>3, <1>4, <1>5, <1>6, <1>7, Zenon DEF Next

LEMMA AdmissionTypeStep == TypeOK /\ HandlersFit /\ [Next]_vars => TypeOK'
  <1> SUFFICES ASSUME TypeOK, HandlersFit, [Next]_vars PROVE TypeOK'
    OBVIOUS
  <1> USE AdmissionAssumption
  <1>0. befell' \in [Runs -> SUBSET Mishaps]
    BY BefellStep, Zenon
  <1>1. ASSUME NEW p \in Requests, Post(p) PROVE TypeOK'
    <2>1. request' \in [Requests -> Handler]
      BY <1>1 DEF Post, TypeOK, Handler, PCs, AllVerbs
    <2> QED
      BY <1>0, <1>1, <2>1, Zenon DEF Post, TypeOK, broker, gate, clock
  <1>2. ASSUME NEW p \in Requests, Quiet(p) PROVE TypeOK'
    <2>1. request' \in [Requests -> Handler]
      BY <1>2, QuietMoves, GoesTyped, Zenon DEF Making, PCs
    <2> QED
      BY <1>0, <1>2, <2>1, QuietMoves, Zenon DEF TypeOK, broker, clock
  <1>3. ASSUME NEW p \in Requests, Insert(p) PROVE TypeOK'
    <2>1. request' \in [Requests -> Handler]
      BY <1>3, GoesTyped, Zenon DEF Insert, PCs
    <2>2. run' \in [Runs -> RunRow] /\ mine' \subseteq Runs
      BY <1>3, CalledHasRun, Zenon DEF Insert, TypeOK, RunRow, Handler, RunOf
    <2> QED
      BY <1>0, <1>3, <2>1, <2>2, Zenon DEF Insert, TypeOK, broker, gate, clock
  <1>4. ASSUME NEW p \in Requests, Prepare(p) PROVE TypeOK'
    <2>1. request' \in [Requests -> Handler]
      BY <1>4, GoesTyped, Zenon DEF Prepare, PCs
    <2>2. issued' \in 0..Issues
      BY <1>4 DEF Prepare, TypeOK, broker
    <2>3. reservations' \in [Ids -> Reservation]
      <3>1. CASE reservations' \in {reservations, Swept}
        BY <3>1, BrokerTyped, Zenon DEF TypeOK
      <3>2. CASE /\ issued < Issues
                 /\ reservations' = [Swept EXCEPT ![issued + 1] =
                      [state |-> "active", body |-> request[p].body, expires |-> now + TTL]]
        <4>1. [state |-> "active", body |-> request[p].body, expires |-> now + TTL] \in Reservation
          BY <1>4, CalledHasRun DEF Prepare, Reservation, TypeOK
        <4> QED
          BY <3>2, <4>1, BrokerTyped, Zenon
      <3> QED
        BY <1>4, <3>1, <3>2, Zenon DEF Prepare, broker
    <2> QED
      BY <1>0, <1>4, <2>1, <2>2, <2>3, Zenon DEF Prepare, TypeOK, gate, clock
  <1>5. ASSUME NEW p \in Requests, TakeStripe(p) PROVE TypeOK'
    <2>1. request' \in [Requests -> Handler]
      BY <1>5, GoesTyped, Zenon DEF TakeStripe, PCs
    <2> QED
      BY <1>0, <1>5, <2>1, Zenon DEF TakeStripe, TypeOK, broker, gate, clock
  <1>6. ASSUME NEW p \in Requests,
               Lookup(p) \/ Selection(p) \/ Ready(p) \/ Bind(p) \/ Complete(p) \/ Classify(p) \/ Free(p)
        PROVE  TypeOK'
    <2>1. request[p].id \in 0..Issues
      BY Zenon DEF TypeOK, Handler
    <2>2. request' \in [Requests -> Handler]
      BY <1>6, GoesTyped, Zenon DEF Lookup, Selection, Ready, Bind, Complete, Classify, Free, Leaves, PCs
    <2>3. stripe' \in [Runs -> Requests \cup {NoRequest}]
      BY <1>6, Zenon DEF Lookup, Selection, Ready, Bind, Complete, Classify, Free, Leaves, TypeOK
    <2>4. reservations' \in [Ids -> Reservation]
      BY <1>6, <2>1, BrokerTyped
         DEF Lookup, Selection, Ready, Bind, Complete, Classify, Free, TypeOK
    <2>5. UNCHANGED <<run, issued, gate, clock, mine>>
      BY <1>6, Zenon DEF Lookup, Selection, Ready, Bind, Complete, Classify, Free
    <2> QED
      BY <1>0, <2>2, <2>3, <2>4, <2>5, Zenon DEF TypeOK, gate, clock
  <1>7. ASSUME NEW r \in Runs, Settle(r) \/ ReleaseSettled(r) \/ SettleUnseen(r) PROVE TypeOK'
    <2>1. run' \in [Runs -> RunRow]
      <3>1. CASE Exists(r) /\ run' = [run EXCEPT ![r].status = "ended"]
        <4>1. run[r] \in [status : {"live", "ended"}, body : Bodies, lease : 0..Issues]
          BY <3>1 DEF TypeOK, RunRow, NoRun, Exists
        <4>2. [run[r] EXCEPT !.status = "ended"] \in [status : {"live", "ended"}, body : Bodies, lease : 0..Issues]
          BY <4>1, Zenon
        <4> QED
          BY <3>1, <4>2, Zenon DEF TypeOK, RunRow
      <3> QED
        BY <1>7, <3>1, Zenon DEF Settle, ReleaseSettled, SettleUnseen, Exists, TypeOK
    <2> QED
      BY <1>0, <1>7, <2>1, Zenon DEF Settle, ReleaseSettled, SettleUnseen, TypeOK, broker, gate, clock
  <1>8. CASE CloseAdmission \/ WaitQuiescent \/ Tick
    BY <1>0, <1>8 DEF CloseAdmission, WaitQuiescent, Tick, TypeOK, broker, gate, clock
  <1>9. CASE Restart
    <2>1. request' \in [Requests -> Handler]
      BY <1>9 DEF Restart, TypeOK, Handler, PCs
    <2> QED
      BY <1>0, <1>9, <2>1 DEF Restart, TypeOK, Reservation
  <1>10. CASE UNCHANGED vars
    BY <1>0, <1>10, Zenon DEF vars, TypeOK, broker, gate, clock
  <1> QED
    BY <1>1, <1>2, <1>3, <1>4, <1>5, <1>6, <1>7, <1>8, <1>9, <1>10, Zenon DEF Next, Handle, Quiet

-----------------------------------------------------------------------------
(* Where the handlers are.                                                  *)

LEMMA HandlersFitStep == TypeOK /\ HandlersFit /\ [Next]_vars => HandlersFit'
  <1> SUFFICES ASSUME TypeOK, HandlersFit, [Next]_vars PROVE HandlersFit'
    OBVIOUS
  <1> USE AdmissionAssumption DEF Committing, Making
  <1>1. ASSUME NEW p \in Requests, Post(p) PROVE HandlersFit'
    <2>1. PICK verb \in Verbs, b \in Bodies, id \in 0..issued :
             /\ id = 0 <=> verb \in {"start", "prepare"}
             /\ request' = [request EXCEPT ![p] =
                  [pc |-> CASE verb = "start" -> "read"
                            [] verb = "prepare" -> "probe"
                            [] OTHER -> "stripe",
                   verb |-> verb, body |-> b, id |-> id]]
      BY <1>1, Zenon DEF Post
    <2>2. \E pc \in {"read", "probe", "stripe"} :
             /\ request'[p] = [pc |-> pc, verb |-> verb, body |-> b, id |-> id]
             /\ pc = "read" => verb = "start"
             /\ pc = "probe" => verb = "prepare"
             /\ pc = "stripe" => verb \in {"commit", "release"}
      BY <2>1, Zenon DEF TypeOK, AllVerbs
    <2>3. UNCHANGED <<issued, stripe>> /\ \A q \in Requests : q # p => request'[q] = request[q]
      BY <1>1, <2>1, Zenon DEF Post, broker, TypeOK
    <2>4. request'[p].pc \in {"read", "probe", "stripe"} /\ request'[p].verb \in AllVerbs
      BY <2>2
    <2> QED
      BY <2>1, <2>2, <2>3, <2>4 DEF HandlersFit, Holds, TypeOK, RunOf
  <1>2. ASSUME NEW p \in Requests, Quiet(p) PROVE HandlersFit'
    <2>1. PICK pc \in Making \cup {"answered", "refused", "nickname", "complete", "classify"} :
               /\ Goes(p, pc)
               /\ pc \in {"complete", "classify"} <=> /\ request[p].verb = "commit"
                                                      /\ pc \notin Making
      BY <1>2, QuietMoves, Zenon
    <2>2. request[p].pc \in Making \cup {"read", "again"} /\ UNCHANGED <<broker, stripe>>
      BY <1>2, QuietMoves, Zenon
    <2> QED
      BY <2>1, <2>2 DEF Goes, HandlersFit, Holds, TypeOK, Handler, RunOf, broker
  <1>3. ASSUME NEW p \in Requests, Insert(p) PROVE HandlersFit'
    BY <1>3 DEF Insert, Goes, HandlersFit, Holds, TypeOK, Handler, RunOf, broker
  <1>4. ASSUME NEW p \in Requests, Prepare(p) PROVE HandlersFit'
    <2>1. PICK pc \in {"refused", "answered"} : Goes(p, pc)
      BY <1>4, Zenon DEF Prepare
    <2>2. request[p].pc = "probe" /\ stripe' = stripe
      BY <1>4, Zenon DEF Prepare
    <2>3. issued' \in Nat /\ issued <= issued'
      BY <1>4 DEF Prepare, broker, TypeOK, Ids
    <2>4. \A q \in Requests : q # p => request'[q] = request[q]
      BY <2>1, Zenon DEF Goes, TypeOK
    <2>5. request'[p] = [request[p] EXCEPT !.pc = pc]
      BY <2>1, Zenon DEF Goes, TypeOK
    <2>6. /\ request'[p].pc = pc /\ request'[p].verb = request[p].verb
          /\ request'[p].id = request[p].id /\ request'[p].body = request[p].body
      BY <2>5 DEF TypeOK, Handler
    <2>7. \A q \in Requests : request[q].id \in Nat /\ issued \in Nat
      BY DEF TypeOK, Handler, Ids
    <2>8. \A q \in Requests : request'[q].id <= issued'
      BY <2>3, <2>4, <2>6, <2>7 DEF HandlersFit
    <2>9. request[p].verb = "prepare" /\ request[p].body \in Bodies
      BY <2>2, Zenon DEF HandlersFit
    <2> QED
      BY <2>2, <2>4, <2>6, <2>8, <2>9 DEF HandlersFit, Holds, RunOf
  <1>5. ASSUME NEW p \in Requests, TakeStripe(p) PROVE HandlersFit'
    <2>1. RunOf(p) \in Runs
      BY <1>5, CalledHasRun, Zenon DEF TakeStripe
    <2> QED
      BY <1>5, <2>1 DEF TakeStripe, Goes, HandlersFit, Holds, TypeOK, Handler, RunOf, broker, NoRequest
  <1>6. ASSUME NEW p \in Requests,
               Lookup(p) \/ Selection(p) \/ Ready(p) \/ Bind(p) \/ Complete(p) \/ Classify(p) \/ Free(p)
        PROVE  HandlersFit'
    <2>1. request[p].pc \in Committing \cup {"free"} /\ Holds(p)
      BY <1>6, Zenon DEF Lookup, Selection, Ready, Bind, Complete, Classify, Free, HandlersFit, Holds
    <2>2. RunOf(p) \in Runs
      BY <2>1, CalledHasRun, Zenon
    <2>3. PICK pc \in {"selection", "ready", "bind", "again", "committed", "refused", "answered"} :
             /\ Goes(p, pc)
             /\ pc \notin {"refused", "answered"} => request[p].verb = "commit"
             /\ \/ stripe' = stripe
                \/ Leaves(p, pc) /\ pc \in {"committed", "refused", "answered"}
      BY <1>6, Zenon DEF Lookup, Selection, Ready, Bind, Complete, Classify, Free, HandlersFit, Leaves
    <2>4. issued' = issued
      BY <1>6, Zenon DEF Lookup, Selection, Ready, Bind, Complete, Classify, Free
    <2>5. CASE stripe' = stripe
      BY <2>1, <2>3, <2>4, <2>5 DEF Goes, HandlersFit, Holds, TypeOK, Handler, RunOf
    <2>6. CASE Leaves(p, pc) /\ pc \in {"committed", "refused", "answered"}
      BY <2>1, <2>2, <2>3, <2>4, <2>6 DEF Leaves, Goes, HandlersFit, Holds, TypeOK, Handler, RunOf
    <2> QED
      BY <2>3, <2>5, <2>6, Zenon
  <1>7. ASSUME NEW r \in Runs, Settle(r) \/ ReleaseSettled(r) \/ SettleUnseen(r) PROVE HandlersFit'
    BY <1>7 DEF Settle, ReleaseSettled, SettleUnseen, broker, HandlersFit, Holds, RunOf
  <1>8. CASE CloseAdmission \/ WaitQuiescent \/ Tick
    BY <1>8, ZenonT(60) DEF CloseAdmission, WaitQuiescent, Tick, broker, HandlersFit, Holds, RunOf
  <1>9. CASE Restart
    BY <1>9 DEF Restart, HandlersFit, Holds, RunOf, TypeOK, Handler, Over
  <1>10. CASE UNCHANGED vars
    BY <1>10, Zenon DEF vars, broker, HandlersFit, Holds, RunOf
  <1> QED
    BY <1>1, <1>2, <1>3, <1>4, <1>5, <1>6, <1>7, <1>8, <1>9, <1>10, Zenon DEF Next, Handle, Quiet

-----------------------------------------------------------------------------
(* Leases.                                                                  *)

Leases == MintedOnce /\ BoundAlone /\ LeasedAlone

\* The counters of the broker are numbers.
LEMMA BrokerNumbers ==
  ASSUME TypeOK
  PROVE  issued \in Nat /\ Issues \in Nat
  BY AdmissionAssumption DEF TypeOK

\* A consumed record is neither active nor live.
LEMMA GoneIs == Gone.state = "gone" /\ Gone.state # "active"
  BY Zenon DEF Gone

\* A bound commit and a leased run name a reservation that was minted.
LEMMA BoundMinted ==
  ASSUME TypeOK, HandlersFit, NEW q \in Requests, Bound(q)
  PROVE  request[q].id \in Ids /\ request[q].id <= issued
  BY DEF Bound, HandlersFit, TypeOK, Handler, Ids

LEMMA LeaseMinted ==
  ASSUME TypeOK, LeasedAlone, NEW r \in Runs, run[r].lease # 0
  PROVE  run[r].lease \in Ids /\ run[r].lease <= issued
  <1>1. run[r].lease \in 0..Issues
    BY AdmissionAssumption DEF TypeOK, RunRow, NoRun
  <1> QED
    BY <1>1 DEF LeasedAlone, Ids

\* Equal prepared digests are of one run.
LEMMA DigestNamesRun ==
  ASSUME NEW a, NEW b, PreparedDigest(a) = PreparedDigest(b)
  PROVE  a.run = b.run
  BY Zenon DEF PreparedDigest

\* A step that only drops reservations, makes no run and binds nothing keeps
\* the leases apart.
LEMMA LeasesShrink ==
  ASSUME TypeOK, TypeOK', HandlersFit, Leases,
         issued' = issued,
         \A i \in Ids : reservations'[i] \in {reservations[i], Gone},
         \A r \in Runs : run'[r].lease = run[r].lease /\ run'[r].body = run[r].body,
         \A q \in Requests : Bound(q)' =>
            Bound(q) /\ request'[q].id = request[q].id /\ request'[q].body = request[q].body
  PROVE  Leases'
  <1> USE AdmissionAssumption DEF Leases, Gone, Ids
  <1>1. MintedOnce'
    BY Zenon DEF MintedOnce
  <1>2. \A q \in Requests : Bound(q) => request[q].id \in Ids
    BY BoundMinted, Zenon
  <1>3. BoundAlone'
    <2> SUFFICES ASSUME NEW q \in Requests, Bound(q)'
                 PROVE  /\ reservations'[request[q].id].state # "active"
                        /\ reservations'[request[q].id].state # "gone" =>
                             PreparedDigest(reservations'[request[q].id].body)
                               = PreparedDigest(request[q].body)
                        /\ \A r \in Runs : run'[r].lease = request[q].id => r = RunOf(q)
                        /\ \A s \in Requests :
                             Bound(s)' /\ request'[s].id = request[q].id => q = s
      BY DEF BoundAlone, Live, RunOf
    <2>1. Bound(q) /\ reservations'[request[q].id] \in {reservations[request[q].id], Gone}
      BY <1>2, Zenon
    <2>2. \A r \in Runs : run'[r].lease = request[q].id => r = RunOf(q)
      BY <2>1 DEF BoundAlone
    <2>3. \A s \in Requests : Bound(s)' /\ request'[s].id = request[q].id => q = s
      BY <2>1, Zenon DEF BoundAlone
    <2> QED
      BY <2>1, <2>2, <2>3 DEF BoundAlone, Live
  <1>5. LeasedAlone'
    <2> SUFFICES ASSUME NEW r \in Runs, run[r].lease # 0
                 PROVE  /\ run[r].lease <= issued'
                        /\ run'[r].body.run = r
                        /\ reservations'[run[r].lease].state # "active"
                        /\ reservations'[run[r].lease].state # "gone" =>
                             PreparedDigest(reservations'[run[r].lease].body) = PreparedDigest(run'[r].body)
                        /\ \A s \in Runs : run'[s].lease = run[r].lease => r = s
      BY DEF LeasedAlone, Live
    <2>1. reservations'[run[r].lease] \in {reservations[run[r].lease], Gone}
      BY LeaseMinted, Zenon
    <2> QED
      BY <2>1 DEF LeasedAlone, Live
  <1> QED
    BY <1>1, <1>3, <1>5, Zenon

\* What the broker's operators leave of a reservation.
LEMMA BrokerShrinks ==
  ASSUME TypeOK
  PROVE  \A i \in Ids :
           /\ Swept[i] \in {reservations[i], Gone}
           /\ \A j \in Ids : Consumed(j)[i] \in {reservations[i], Gone}
           /\ \A j \in Ids : \A b : Freed(j, b)[i] \in {reservations[i], Gone}
  BY Zenon DEF TypeOK, Swept, Consumed, Freed

\* A step of a handler that binds nothing leaves no commit bound that was not.
LEMMA BoundStays ==
  ASSUME TypeOK, HandlersFit, NEW p \in Requests, NEW pc \in PCs, Goes(p, pc),
         Bound(p) \/ request[p].verb # "commit" \/ pc \notin Making \cup {"again", "complete", "classify"},
         NEW q \in Requests, Bound(q)'
  PROVE  Bound(q) /\ request'[q].id = request[q].id /\ request'[q].body = request[q].body
  BY Zenon DEF Bound, Goes, TypeOK, Handler, Making

\* The row a handler inserts is the row of its own run, and its lease, when it
\* has one, is the one its commit is bound to.
LEMMA InsertHas ==
  ASSUME TypeOK, HandlersFit, NEW p \in Requests, Insert(p)
  PROVE  /\ request[p].pc = "create" /\ RunOf(p) \in Runs /\ request[p].body.run = RunOf(p)
         /\ request[p].id # 0 => Bound(p)
  <1>1. request[p].pc = "create"
    BY Zenon DEF Insert
  <1>2. RunOf(p) \in Runs
    BY <1>1, CalledHasRun, Zenon
  <1>3. request[p].body.run = RunOf(p)
    BY Zenon DEF RunOf
  <1>4. request[p].pc \in Making
    BY <1>1, Zenon DEF Making
  <1>5. request[p].verb \in {"start", "commit"}
    BY <1>4, Zenon DEF HandlersFit
  <1>6. request[p].id # 0 => request[p].verb = "commit"
    BY <1>1, <1>5, ZenonT(60) DEF HandlersFit
  <1> QED
    BY <1>1, <1>2, <1>3, <1>4, <1>6, Zenon DEF Bound

LEMMA LeasesStep ==
  ASSUME TypeOK, TypeOK', HandlersFit, HandlersFit', Leases, [Next]_vars
  PROVE  Leases'
  <1> USE AdmissionAssumption
  <1>1. ASSUME NEW p \in Requests, Post(p) PROVE Leases'
    <2>1. \A q \in Requests : Bound(q)' =>
            Bound(q) /\ request'[q].id = request[q].id /\ request'[q].body = request[q].body
      <3>1. request'[p].pc \in {"read", "probe", "stripe"}
        BY <1>1 DEF Post, TypeOK
      <3>2. \A q \in Requests : q # p => request'[q] = request[q]
        BY <1>1, Zenon DEF Post, TypeOK
      <3> QED
        BY <3>1, <3>2, Zenon DEF Bound, Making
    <2> QED
      BY <1>1, <2>1, LeasesShrink, Zenon DEF Post, broker
  <1>2. ASSUME NEW p \in Requests, Quiet(p) PROVE Leases'
    <2>1. PICK pc \in Making \cup {"answered", "refused", "nickname", "complete", "classify"} :
               Goes(p, pc)
      BY <1>2, QuietMoves, Zenon
    <2>2. request[p].pc \in Making \cup {"read", "again"} /\ UNCHANGED <<run, broker>>
      BY <1>2, QuietMoves, Zenon
    <2>3. Bound(p) \/ request[p].verb # "commit"
      BY <2>2, Zenon DEF Bound, HandlersFit
    <2>4. pc \in PCs
      BY Zenon DEF Making, PCs
    <2>5. \A q \in Requests : Bound(q)' =>
            Bound(q) /\ request'[q].id = request[q].id /\ request'[q].body = request[q].body
      BY <2>1, <2>3, <2>4, BoundStays, Zenon
    <2> QED
      BY <2>2, <2>5, LeasesShrink, Zenon DEF broker
  <1>3. ASSUME NEW p \in Requests, Insert(p) PROVE Leases'
    <2> DEFINE i == request[p].id
    <2>1. /\ request[p].pc = "create" /\ RunOf(p) \in Runs /\ request[p].body.run = RunOf(p)
          /\ i # 0 => Bound(p)
      BY <1>3, InsertHas, Zenon
    <2>2. /\ run'[RunOf(p)].lease = i /\ run'[RunOf(p)].body = request[p].body
          /\ \A r \in Runs : r # RunOf(p) => run'[r] = run[r]
      BY <1>3, <2>1, ZenonT(60) DEF Insert, TypeOK, RunOf
    <2>3. UNCHANGED <<reservations, issued>>
      BY <1>3, Zenon DEF Insert, broker
    <2>4. \A q \in Requests : /\ Bound(q)' <=> Bound(q)
                              /\ request'[q].id = request[q].id
                              /\ request'[q].body = request[q].body
      BY <1>3 DEF Insert, Goes, Bound, Making, TypeOK, Handler
    <2>5. MintedOnce'
      BY <2>3, Zenon DEF Leases, MintedOnce
    <2>6. BoundAlone'
      <3>1. ASSUME NEW q \in Requests, Bound(q), NEW r \in Runs, run'[r].lease = request'[q].id
            PROVE  r = RunOf(q)'
        <4>1. request[q].id # 0
          BY <3>1, Zenon DEF Bound, HandlersFit
        <4>2. r = RunOf(q)
          <5>1. CASE r = RunOf(p)
            <6>1. request[q].id = i /\ Bound(p)
              BY <2>1, <2>2, <2>4, <3>1, <4>1, <5>1, Zenon
            <6>2. p = q
              BY <3>1, <6>1, Zenon DEF Leases, BoundAlone
            <6> QED
              BY <5>1, <6>2, Zenon
          <5>2. CASE r # RunOf(p)
            <6>1. run[r].lease = request[q].id
              BY <2>2, <2>4, <3>1, <5>2, Zenon
            <6> QED
              BY <3>1, <6>1, Zenon DEF Leases, BoundAlone
          <5> QED
            BY <5>1, <5>2, Zenon
        <4> QED
          BY <2>4, <4>2, Zenon DEF RunOf
      <3>2. ASSUME NEW q \in Requests, Bound(q)
            PROVE  /\ reservations'[request'[q].id].state # "active"
                   /\ Live(request[q].id)' => PreparedDigest(reservations'[request'[q].id].body)
                                                = PreparedDigest(request'[q].body)
        BY <2>3, <2>4, <3>2, Zenon DEF Leases, BoundAlone, Live
      <3>3. ASSUME NEW q \in Requests, Bound(q),
                   NEW s \in Requests, Bound(s), request'[s].id = request'[q].id
            PROVE  q = s
        BY <2>4, <3>3, Zenon DEF Leases, BoundAlone
      <3> QED
        BY <2>4, <3>1, <3>2, <3>3, Zenon DEF BoundAlone, Live
    <2>7. LeasedAlone'
      <3>1. ASSUME NEW r \in Runs, run'[r].lease # 0, r # RunOf(p)
            PROVE  \A s \in Runs : run'[s].lease = run'[r].lease => r = s
        BY <2>1, <2>2, <3>1, SMTT(60) DEF Leases, LeasedAlone, BoundAlone
      <3>2. ASSUME i # 0
            PROVE  /\ i <= issued
                   /\ reservations[i].state # "active"
                   /\ Live(i) => PreparedDigest(reservations[i].body) = PreparedDigest(request[p].body)
                   /\ \A s \in Runs : run'[s].lease = i => RunOf(p) = s
        BY <2>1, <2>2, <3>2 DEF Leases, BoundAlone, HandlersFit
      <3>3. ASSUME NEW r \in Runs, run'[r].lease # 0
            PROVE  /\ run'[r].lease <= issued
                   /\ run'[r].body.run = r
                   /\ reservations[run'[r].lease].state # "active"
                   /\ Live(run'[r].lease) => PreparedDigest(reservations[run'[r].lease].body)
                                               = PreparedDigest(run'[r].body)
                   /\ \A s \in Runs : run'[s].lease = run'[r].lease => r = s
        <4>1. CASE r = RunOf(p)
          BY <2>1, <2>2, <3>2, <3>3, <4>1, Zenon
        <4>2. CASE r # RunOf(p)
          <5>1. run'[r] = run[r]
            BY <2>2, <4>2, Zenon
          <5> QED
            BY <3>1, <3>3, <4>2, <5>1, Zenon DEF Leases, LeasedAlone
        <4> QED
          BY <4>1, <4>2, Zenon
      <3> QED
        BY <2>3, <3>3, Zenon DEF LeasedAlone, Live
    <2> QED
      BY <2>5, <2>6, <2>7, Zenon DEF Leases
  <1>4. ASSUME NEW p \in Requests, Prepare(p) PROVE Leases'
    <2>1. PICK pc \in {"refused", "answered"} : Goes(p, pc)
      BY <1>4, Zenon DEF Prepare
    <2>2. \A q \in Requests : Bound(q)' =>
            Bound(q) /\ request'[q].id = request[q].id /\ request'[q].body = request[q].body
      BY <2>1, BoundStays, Zenon DEF PCs, Making
    <2>3. run' = run
      BY <1>4, Zenon DEF Prepare
    <2>4. CASE issued' = issued
      <3>1. \A i \in Ids : reservations'[i] \in {reservations[i], Gone}
        BY <1>4, <2>4, BrokerShrinks DEF Prepare, broker, TypeOK
      <3> QED
        BY <2>2, <2>3, <2>4, <3>1, LeasesShrink, Zenon
    <2>5. CASE issued' # issued
      <3>1. /\ issued' = issued + 1 /\ issued + 1 \in Ids
            /\ \A i \in Ids : i # issued + 1 => reservations'[i] = Swept[i]
        <4>1. /\ issued < Issues /\ issued' = issued + 1
              /\ \E e : reservations' = [Swept EXCEPT ![issued + 1] = e]
          BY <1>4, <2>5, Zenon DEF Prepare, broker
        <4>2. issued + 1 \in Ids
          BY <4>1, BrokerNumbers DEF Ids
        <4> QED
          BY <4>1, <4>2, BrokerTyped, Zenon
      <3>2. \A i \in Ids : i <= issued => reservations'[i] \in {reservations[i], Gone}
        <4>1. \A i \in Ids : i <= issued => i # issued + 1
          BY BrokerNumbers DEF Ids
        <4> QED
          BY <3>1, <4>1, BrokerShrinks, Zenon
      <3>3. MintedOnce'
        <4> SUFFICES ASSUME NEW i \in Ids, i > issued' PROVE reservations'[i] = Gone
          BY Zenon DEF MintedOnce
        <4>1. i # issued + 1 /\ i > issued
          BY <3>1, BrokerNumbers DEF Ids
        <4>2. reservations[i] = Gone
          BY <4>1, Zenon DEF Leases, MintedOnce
        <4>3. Swept[i] \in {reservations[i], Gone}
          BY BrokerShrinks, Zenon
        <4>4. reservations'[i] = Swept[i]
          BY <3>1, <4>1, Zenon
        <4> QED
          BY <4>2, <4>3, <4>4, Zenon
      <3>4. \A q \in Requests : Bound(q) => request[q].id \in Ids /\ request[q].id <= issued
        BY BoundMinted, Zenon
      <3>5. BoundAlone'
        <4>1. ASSUME NEW q \in Requests, Bound(q)
              PROVE  reservations'[request[q].id] \in {reservations[request[q].id], Gone}
          BY <3>2, <3>4, <4>1, Zenon
        <4>2. ASSUME NEW q \in Requests, Bound(q)
              PROVE  /\ reservations'[request[q].id].state # "active"
                     /\ reservations'[request[q].id].state # "gone" =>
                          PreparedDigest(reservations'[request[q].id].body) = PreparedDigest(request[q].body)
          <5>1. /\ reservations[request[q].id].state # "active"
                /\ reservations[request[q].id].state # "gone" =>
                     PreparedDigest(reservations[request[q].id].body) = PreparedDigest(request[q].body)
            BY <4>2, Zenon DEF Leases, BoundAlone, Live
          <5> QED
            BY <4>1, <4>2, <5>1, GoneIs, Zenon
        <4> QED
          <5>1. BoundAlone
            BY Zenon DEF Leases
          <5> QED
            BY <2>2, <2>3, <4>2, <5>1, ZenonT(60) DEF BoundAlone, Live, RunOf
      <3>6. \A r \in Runs : run[r].lease # 0 => run[r].lease \in Ids /\ run[r].lease <= issued
        BY LeaseMinted, Zenon DEF Leases
      <3>7. LeasedAlone'
        <4> SUFFICES ASSUME NEW r \in Runs, run[r].lease # 0
                     PROVE  /\ run[r].lease <= issued'
                            /\ run[r].body.run = r
                            /\ reservations'[run[r].lease].state # "active"
                            /\ reservations'[run[r].lease].state # "gone" =>
                                 PreparedDigest(reservations'[run[r].lease].body) = PreparedDigest(run[r].body)
                            /\ \A s \in Runs : run[s].lease = run[r].lease => r = s
          BY <2>3, Zenon DEF LeasedAlone, Live
        <4>1. reservations'[run[r].lease] \in {reservations[run[r].lease], Gone}
          BY <3>2, <3>6, Zenon
        <4>2. run[r].lease <= issued'
          BY <3>1, <3>6, BrokerNumbers DEF Ids
        <4>3. /\ run[r].body.run = r
              /\ reservations[run[r].lease].state # "active"
              /\ reservations[run[r].lease].state # "gone" =>
                   PreparedDigest(reservations[run[r].lease].body) = PreparedDigest(run[r].body)
              /\ \A s \in Runs : run[s].lease = run[r].lease => r = s
          BY Zenon DEF Leases, LeasedAlone, Live
        <4> QED
          BY <4>1, <4>2, <4>3, GoneIs, Zenon
      <3> QED
        BY <3>3, <3>5, <3>7, Zenon DEF Leases
    <2> QED
      BY <2>4, <2>5, Zenon
  <1>5. ASSUME NEW p \in Requests,
               TakeStripe(p) \/ Lookup(p) \/ Selection(p) \/ Ready(p) \/ Complete(p) \/ Free(p)
        PROVE  Leases'
    <2>1. PICK pc \in {"lookup", "free", "selection", "ready", "bind", "committed", "refused", "answered"} :
             Goes(p, pc)
      BY <1>5, Zenon DEF TakeStripe, Lookup, Selection, Ready, Complete, Free, Leaves
    <2>2. \A q \in Requests : Bound(q)' =>
            Bound(q) /\ request'[q].id = request[q].id /\ request'[q].body = request[q].body
      <3>1. pc \in PCs /\ pc \notin Making \cup {"again", "complete", "classify"}
        BY Zenon DEF PCs, Making
      <3> QED
        BY <2>1, <3>1, BoundStays, Zenon
    <2>3. TakeStripe(p) \/ request[p].id \in Ids
      <3>1. TakeStripe(p) \/ request[p].pc \in {"lookup", "selection", "ready", "complete", "free"}
        BY <1>5, Zenon DEF Lookup, Selection, Ready, Complete, Free
      <3>2. ASSUME request[p].pc \in {"lookup", "selection", "ready", "complete", "free"}
            PROVE  request[p].verb \in {"commit", "release"}
        BY <3>2, Zenon DEF HandlersFit, Committing
      <3>3. ASSUME request[p].verb \in {"commit", "release"}
            PROVE  request[p].id # 0
        BY <3>3, Zenon DEF HandlersFit
      <3>4. request[p].id \in 0..Issues
        BY Zenon DEF TypeOK, Handler
      <3>5. request[p].id # 0 => request[p].id \in Ids
        BY <3>4, AdmissionAssumption DEF Ids
      <3> QED
        BY <3>1, <3>2, <3>3, <3>5, Zenon
    <2>4. \A i \in Ids : reservations'[i] \in {reservations[i], Gone}
      BY <1>5, <2>3, BrokerShrinks, ZenonT(60) DEF TakeStripe, Lookup, Selection, Ready, Complete, Free, broker
    <2>5. run' = run /\ issued' = issued
      BY <1>5, Zenon DEF TakeStripe, Lookup, Selection, Ready, Complete, Free, broker
    <2> QED
      BY <2>2, <2>4, <2>5, LeasesShrink, Zenon
  <1>7. ASSUME NEW r \in Runs, Settle(r) \/ ReleaseSettled(r) \/ SettleUnseen(r) PROVE Leases'
    <2>1. \A s \in Runs : run'[s].lease = run[s].lease /\ run'[s].body = run[s].body
      BY <1>7 DEF Settle, ReleaseSettled, SettleUnseen, TypeOK, RunRow, NoRun
    <2>2. UNCHANGED <<broker, request>>
      BY <1>7, Zenon DEF Settle, ReleaseSettled, SettleUnseen
    <2> QED
      BY <2>1, <2>2, LeasesShrink, Zenon DEF broker, Bound
  <1>8. CASE CloseAdmission \/ WaitQuiescent \/ Tick
    BY <1>8, LeasesShrink, Zenon DEF CloseAdmission, WaitQuiescent, Tick, broker, Bound
  <1>9. CASE Restart
    <2>1. \A q \in Requests : ~Bound(q)'
      BY <1>9 DEF Restart, Bound, Making, TypeOK, Over
    <2> QED
      BY <1>9, <2>1, LeasesShrink, Zenon DEF Restart, TypeOK
  <1>10. CASE UNCHANGED vars
    BY <1>10, LeasesShrink, Zenon DEF vars, broker, Bound
  <1>11. ASSUME NEW p \in Requests, Bind(p) PROVE Leases'
    <2> DEFINE i == request[p].id
    <2>1. /\ request[p].pc = "bind" /\ request[p].verb = "commit" /\ i \in Ids /\ i <= issued
          /\ Holds(p) /\ stripe[RunOf(p)] = p
      <3>1. request[p].pc = "bind" /\ request[p].verb = "commit" /\ Holds(p)
        BY <1>11, Zenon DEF Bind, HandlersFit, Committing, Holds
      <3>2. i # 0 /\ i <= issued /\ stripe[RunOf(p)] = p
        BY <3>1, Zenon DEF HandlersFit
      <3> QED
        BY <3>1, <3>2, SMTT(60) DEF TypeOK, Handler, Ids
    <2>2. run' = run /\ issued' = issued
      BY <1>11, ZenonT(60) DEF Bind
    <2>3. CASE reservations' = Swept /\ Leaves(p, "refused")
      <3>1. \A q \in Requests : Bound(q)' =>
              Bound(q) /\ request'[q].id = request[q].id /\ request'[q].body = request[q].body
        BY <2>3, BoundStays, Zenon DEF Leaves, PCs, Making
      <3> QED
        BY <2>2, <2>3, <3>1, BrokerShrinks, LeasesShrink, Zenon
    <2>4. CASE /\ Swept[i].state # "gone"
               /\ PreparedDigest(Swept[i].body) = PreparedDigest(request[p].body)
               /\ reservations' = [Swept EXCEPT ![i].state = "committing"]
               /\ Goes(p, "again")
      <3>1. /\ Swept[i] = reservations[i] /\ Live(i)
            /\ PreparedDigest(reservations[i].body) = PreparedDigest(request[p].body)
        BY <2>1, <2>4, BrokerShrinks DEF Gone, Live
      <3>2. /\ reservations'[i].state = "committing" /\ reservations'[i].body = reservations[i].body
            /\ \A j \in Ids : j # i => reservations'[j] \in {reservations[j], Gone}
        BY <2>1, <2>4, <3>1, BrokerShrinks, BrokerTyped DEF Reservation
      <3>3. \A q \in Requests : /\ q # p => (Bound(q)' <=> Bound(q))
                                /\ request'[q].id = request[q].id
                                /\ request'[q].body = request[q].body
        BY <2>4, Zenon DEF Goes, Bound, TypeOK, Handler
      <3>4. \A q \in Requests : Bound(q) => request[q].id \in Ids /\ request[q].id # i
        <4> SUFFICES ASSUME NEW q \in Requests, Bound(q), request[q].id = i PROVE FALSE
          BY BoundMinted, Zenon
        <4>1. RunOf(q) = RunOf(p)
          <5>1. PreparedDigest(request[q].body) = PreparedDigest(request[p].body)
            BY <3>1, Zenon DEF Leases, BoundAlone
          <5> QED
            BY <5>1, DigestNamesRun, Zenon DEF RunOf
        <4>2. Holds(q) /\ stripe[RunOf(q)] = q
          BY Zenon DEF Bound, Holds, HandlersFit, Committing
        <4> QED
          BY <2>1, <4>1, <4>2, Zenon DEF Bound, Making
      <3>5. \A r \in Runs : run[r].lease = i => r = RunOf(p)
        <4> SUFFICES ASSUME NEW r \in Runs, run[r].lease = i PROVE r = RunOf(p)
          OBVIOUS
        <4>1. run[r].lease # 0
          BY <2>1 DEF Ids
        <4>2. /\ run[r].body.run = r
              /\ PreparedDigest(run[r].body) = PreparedDigest(request[p].body)
          BY <3>1, <4>1, Zenon DEF Leases, LeasedAlone
        <4> QED
          BY <4>2, DigestNamesRun, Zenon DEF RunOf
      <3>6. MintedOnce'
        <4> SUFFICES ASSUME NEW j \in Ids, j > issued' PROVE reservations'[j] = Gone
          BY Zenon DEF MintedOnce
        <4>1. j # i /\ j > issued
          BY <2>1, <2>2, BrokerNumbers DEF Ids
        <4>2. reservations[j] = Gone
          BY <4>1, Zenon DEF Leases, MintedOnce
        <4> QED
          BY <3>2, <4>1, <4>2, Zenon
      <3>7. BoundAlone'
        <4>1. ASSUME NEW q \in Requests, Bound(q)', q # p
              PROVE  /\ reservations'[request[q].id] \in {reservations[request[q].id], Gone}
                     /\ Bound(q) /\ request[q].id # i
          BY <3>2, <3>3, <3>4, <4>1, Zenon
        <4>2. \A q \in Requests : Bound(q)' /\ request'[q].id = i => q = p
          BY <3>3, <4>1, Zenon
        <4>3. ASSUME NEW q \in Requests, Bound(q)'
              PROVE  /\ reservations'[request[q].id].state # "active"
                     /\ reservations'[request[q].id].state # "gone" =>
                          PreparedDigest(reservations'[request[q].id].body) = PreparedDigest(request[q].body)
                     /\ \A r \in Runs : run[r].lease = request[q].id => r = RunOf(q)
                     /\ \A t \in Requests : Bound(t)' /\ request[t].id = request[q].id => q = t
          <5>1. CASE q = p
            BY <3>1, <3>2, <3>3, <3>5, <4>2, <5>1, Zenon
          <5>2. CASE q # p
            <6>1. \A t \in Requests : Bound(t)' /\ request[t].id = request[q].id => q = t
              BY <3>3, <4>1, <4>3, <5>2, Zenon DEF Leases, BoundAlone
            <6> QED
              <7>1. /\ reservations[request[q].id].state # "active"
                    /\ reservations[request[q].id].state # "gone" =>
                         PreparedDigest(reservations[request[q].id].body) = PreparedDigest(request[q].body)
                    /\ \A r \in Runs : run[r].lease = request[q].id => r = RunOf(q)
                BY <4>1, <4>3, <5>2, Zenon DEF Leases, BoundAlone, Live
              <7> QED
                BY <4>1, <4>3, <5>2, <6>1, <7>1, GoneIs, Zenon
          <5> QED
            BY <5>1, <5>2, Zenon
        <4> QED
          BY <2>2, <3>3, <4>3, Zenon DEF BoundAlone, Live, RunOf
      <3>8. \A r \in Runs : run[r].lease # 0 => run[r].lease \in Ids
        BY LeaseMinted, Zenon DEF Leases
      <3>9. LeasedAlone'
        <4> SUFFICES ASSUME NEW r \in Runs, run[r].lease # 0
                     PROVE  /\ reservations'[run[r].lease].state # "active"
                            /\ reservations'[run[r].lease].state # "gone" =>
                                 PreparedDigest(reservations'[run[r].lease].body) = PreparedDigest(run[r].body)
          BY <2>2, Zenon DEF Leases, LeasedAlone, Live
        <4>1. CASE run[r].lease = i
          BY <3>1, <3>2, <4>1, ZenonT(60) DEF Leases, LeasedAlone
        <4>2. CASE run[r].lease # i
          <5>1. reservations'[run[r].lease] \in {reservations[run[r].lease], Gone}
            BY <3>2, <3>8, <4>2, Zenon
          <5>2. /\ reservations[run[r].lease].state # "active"
                /\ reservations[run[r].lease].state # "gone" =>
                     PreparedDigest(reservations[run[r].lease].body) = PreparedDigest(run[r].body)
            BY Zenon DEF Leases, LeasedAlone, Live
          <5> QED
            BY <5>1, <5>2, GoneIs, Zenon
        <4> QED
          BY <4>1, <4>2, ZenonT(60)
      <3> QED
        BY <3>6, <3>7, <3>9, Zenon DEF Leases
    <2> QED
      BY <1>11, <2>3, <2>4, Zenon DEF Bind
  <1>12. ASSUME NEW p \in Requests, Classify(p) PROVE Leases'
    <2> DEFINE i == request[p].id
    <2>1. Goes(p, "refused") /\ run' = run /\ issued' = issued
      BY <1>12, Zenon DEF Classify, Leaves
    <2>2. i \in Ids /\ i <= issued /\ Bound(p) /\ RunOf(p) \in Runs
      <3>1. request[p].pc = "classify" /\ Bound(p)
        BY <1>12, Zenon DEF Classify, HandlersFit, Committing, Bound
      <3> QED
        BY <3>1, BoundMinted, CalledHasRun, Zenon
    <2>3. \A q \in Requests : Bound(q)' =>
            Bound(q) /\ request'[q].id = request[q].id /\ request'[q].body = request[q].body
      BY <2>1, BoundStays, Zenon DEF PCs, Making
    <2>4. CASE \A j \in Ids : reservations'[j] \in {reservations[j], Gone}
      BY <2>1, <2>3, <2>4, LeasesShrink, Zenon
    <2>5. CASE /\ ~Exists(RunOf(p)) /\ reservations[i].state = "committing"
               /\ reservations' = [reservations EXCEPT ![i].state = "active"]
      <3>1. /\ reservations'[i].body = reservations[i].body
            /\ \A j \in Ids : j # i => reservations'[j] = reservations[j]
        BY <2>2, <2>5, Zenon DEF TypeOK, Reservation
      <3>2. \A r \in Runs : run[r].lease # i
        <4>1. run[RunOf(p)] = NoRun
          BY <2>2, <2>5, Zenon DEF Exists, TypeOK, RunRow
        <4>2. \A r \in Runs : run[r].lease = i => r = RunOf(p)
          BY <2>2, Zenon DEF Leases, BoundAlone
        <4> QED
          BY <2>2, <4>1, <4>2 DEF NoRun, Ids
      <3>3. \A q \in Requests : Bound(q)' => request[q].id \in Ids /\ request[q].id # i
        <4>1. ~Bound(p)'
          BY <2>1, Zenon DEF Goes, Bound, Making, TypeOK, Handler
        <4>2. \A q \in Requests : Bound(q) /\ request[q].id = i => p = q
          BY <2>2, Zenon DEF Leases, BoundAlone
        <4> QED
          BY <2>3, <4>1, <4>2, BoundMinted, Zenon
      <3>4. MintedOnce'
        <4>1. \A j \in Ids : j > issued => j # i
          BY <2>2, BrokerNumbers DEF Ids
        <4> QED
          BY <2>1, <3>1, <4>1, Zenon DEF Leases, MintedOnce
      <3>5. BoundAlone'
        <4>1. ASSUME NEW q \in Requests, Bound(q)'
              PROVE  /\ Bound(q) /\ request'[q].id = request[q].id /\ request'[q].body = request[q].body
                     /\ reservations'[request[q].id] = reservations[request[q].id]
          BY <2>3, <3>1, <3>3, <4>1, Zenon
        <4> QED
          <5>1. \A q \in Requests : Bound(q)' => RunOf(q)' = RunOf(q)
            BY <4>1, Zenon DEF RunOf
          <5> QED
            <6>1. BoundAlone
              BY Zenon DEF Leases
            <6>2. ASSUME NEW q \in Requests, Bound(q)'
                  PROVE  /\ reservations'[request'[q].id].state # "active"
                         /\ reservations'[request'[q].id].state # "gone" =>
                               PreparedDigest(reservations'[request'[q].id].body)
                                   = PreparedDigest(request'[q].body)
              BY <4>1, <6>1, <6>2, Zenon DEF BoundAlone, Live
            <6>3. ASSUME NEW q \in Requests, Bound(q)'
                  PROVE  \A r \in Runs : run'[r].lease = request'[q].id => r = RunOf(q)'
              BY <2>1, <4>1, <5>1, <6>1, <6>3, Zenon DEF BoundAlone
            <6>4. ASSUME NEW q \in Requests, NEW u \in Requests, Bound(q)', Bound(u)',
                         request'[u].id = request'[q].id
                  PROVE  q = u
              BY <4>1, <6>1, <6>4, Zenon DEF BoundAlone
            <6> QED
              BY <6>2, <6>3, <6>4, Zenon DEF BoundAlone, Live
      <3>6. \A r \in Runs : run[r].lease # 0 => run[r].lease \in Ids
        BY DEF TypeOK, RunRow, NoRun, Ids
      <3>7. LeasedAlone'
        BY <2>1, <3>1, <3>2, <3>6 DEF Leases, LeasedAlone, Live
      <3> QED
        BY <3>4, <3>5, <3>7, Zenon DEF Leases
    <2> QED
      BY <1>12, <2>2, <2>4, <2>5, BrokerShrinks, Zenon DEF Classify, Restored
  <1> QED
    BY <1>1, <1>2, <1>3, <1>4, <1>5, <1>7, <1>8, <1>9, <1>10, <1>11, <1>12, Zenon
       DEF Next, Handle, Quiet

\* What makes the broker's promises inductive.
BrokerInv ==
    TypeOK /\ HandlersFit /\ MintedOnce /\ BoundAlone /\ LeasedAlone /\ CapacityNeverOversold

-----------------------------------------------------------------------------
(* Capacity.                                                                *)

LEMMA OccupiedFinite ==
  ASSUME NEW rs
  PROVE  IsFiniteSet(Occupied(rs)) /\ Cardinality(Occupied(rs)) \in Nat
  <1>1. IsFiniteSet(Ids)
    BY AdmissionAssumption, FS_Interval DEF Ids
  <1>2. IsFiniteSet(Occupied(rs))
    BY <1>1, FS_Subset, Zenon DEF Occupied
  <1> QED
    BY <1>2, FS_CardinalityType, Zenon

\* Fewer reservations take no more room.
LEMMA OccupiedShrinks ==
  ASSUME NEW rs, NEW rt, \A i \in Ids : rs[i].state # "gone" => rt[i].state # "gone"
  PROVE  Cardinality(Occupied(rs)) <= Cardinality(Occupied(rt))
  <1>1. Occupied(rs) \subseteq Occupied(rt)
    BY Zenon DEF Occupied
  <1> QED
    BY <1>1, OccupiedFinite, FS_Subset, Zenon

\* Only a prepare adds a reservation.
LEMMA OnlyPrepareAdds ==
  ASSUME TypeOK, HandlersFit, [Next]_vars, \A p \in Requests : ~Prepare(p),
         NEW i \in Ids, reservations'[i].state # "gone"
  PROVE  Live(i)
  <1> USE DEF Live
  <1>1. ASSUME NEW p \in Requests, Post(p) \/ Quiet(p) \/ Insert(p) \/ TakeStripe(p) PROVE Live(i)
    BY <1>1, QuietMoves, Zenon DEF Post, Insert, TakeStripe, broker
  <1>2. ASSUME NEW p \in Requests,
               Lookup(p) \/ Selection(p) \/ Ready(p) \/ Complete(p) \/ Free(p)
        PROVE  Live(i)
    <2>1. request[p].id \in Ids
      BY <1>2, SMTT(60) DEF Lookup, Selection, Ready, Complete, Free, HandlersFit, Committing, TypeOK, Handler, Ids
    <2>2. reservations'[i] \in {reservations[i], Gone}
      BY <1>2, <2>1, BrokerShrinks, Zenon DEF Lookup, Selection, Ready, Complete, Free
    <2> QED
      BY <2>2 DEF Gone
  <1>3. ASSUME NEW p \in Requests, Bind(p) PROVE Live(i)
    <2>1. \A j \in Ids : Swept[j].state # "gone" => Live(j)
      BY BrokerShrinks DEF Gone
    <2>2. CASE reservations' = Swept
      BY <2>1, <2>2, Zenon
    <2>3. CASE /\ Swept[request[p].id].state # "gone"
               /\ reservations' = [Swept EXCEPT ![request[p].id].state = "committing"]
      BY <2>1, <2>3, BrokerTyped, Zenon
    <2> QED
      BY <1>3, <2>2, <2>3, Zenon DEF Bind
  <1>4. ASSUME NEW p \in Requests, Classify(p) PROVE Live(i)
    <2>1. request[p].id \in Ids
      BY <1>4 DEF Classify, HandlersFit, Committing, TypeOK, Handler, Ids
    <2>2. \/ reservations'[i] \in {reservations[i], Gone}
          \/ /\ reservations[request[p].id].state = "committing"
             /\ reservations' = [reservations EXCEPT ![request[p].id].state = "active"]
      BY <1>4, <2>1, BrokerShrinks, Zenon DEF Classify, Restored
    <2> QED
      BY <2>1, <2>2 DEF Gone, TypeOK
  <1>5. ASSUME NEW r \in Runs, Settle(r) \/ ReleaseSettled(r) \/ SettleUnseen(r) PROVE Live(i)
    BY <1>5, Zenon DEF Settle, ReleaseSettled, SettleUnseen, broker
  <1>6. CASE CloseAdmission \/ WaitQuiescent \/ Tick \/ UNCHANGED vars
    BY <1>6, Zenon DEF CloseAdmission, WaitQuiescent, Tick, vars, broker
  <1>7. CASE Restart
    BY <1>7, Zenon DEF Restart, Gone
  <1> QED
    BY <1>1, <1>2, <1>3, <1>4, <1>5, <1>6, <1>7, ZenonT(60) DEF Next, Handle, Quiet

LEMMA CapacityStep ==
  ASSUME TypeOK, HandlersFit, CapacityNeverOversold, [Next]_vars
  PROVE  CapacityNeverOversold'
  <1> USE AdmissionAssumption
  <1>1. ASSUME \A i \in Ids : reservations'[i].state # "gone" => reservations[i].state # "gone"
        PROVE  CapacityNeverOversold'
    BY <1>1, OccupiedFinite, OccupiedShrinks DEF CapacityNeverOversold
  <1>2. CASE \A p \in Requests : ~Prepare(p)
    BY <1>1, <1>2, OnlyPrepareAdds, Zenon DEF Live
  <1>3. ASSUME NEW p \in Requests, Prepare(p) PROVE CapacityNeverOversold'
    <2>1. CASE reservations' \in {reservations, Swept}
      BY <1>1, <2>1, BrokerShrinks DEF Gone
    <2>2. CASE /\ Cardinality(Occupied(Swept)) < MaxReservations
               /\ reservations' = [Swept EXCEPT ![issued + 1] =
                     [state |-> "active", body |-> request[p].body, expires |-> now + TTL]]
      <3>1. Occupied(reservations') \subseteq Occupied(Swept) \cup {issued + 1}
        BY <2>2, BrokerTyped, Zenon DEF Occupied
      <3>2. /\ IsFiniteSet(Occupied(Swept) \cup {issued + 1})
            /\ Cardinality(Occupied(Swept) \cup {issued + 1}) <= Cardinality(Occupied(Swept)) + 1
        BY OccupiedFinite, FS_AddElement
      <3>3. Cardinality(Occupied(reservations')) <= Cardinality(Occupied(Swept) \cup {issued + 1})
        BY <3>1, <3>2, FS_Subset, Zenon
      <3>4. Cardinality(Occupied(Swept) \cup {issued + 1}) \in Nat
        BY <3>2, FS_CardinalityType, Zenon
      <3> QED
        BY <2>2, <3>2, <3>3, <3>4, OccupiedFinite DEF CapacityNeverOversold
    <2> QED
      BY <1>3, <2>1, <2>2, Zenon DEF Prepare, broker
  <1> QED
    BY <1>2, <1>3, Zenon

-----------------------------------------------------------------------------
(* The broker's promises.                                                   *)

LEMMA BrokerInit == Init => BrokerInv
  <1> SUFFICES ASSUME Init PROVE BrokerInv
    OBVIOUS
  <1> USE AdmissionAssumption DEF Init
  <1>1. TypeOK
    BY DEF TypeOK, RunRow, Reservation, Handler, PCs, AllVerbs, Uncalled
  <1>2. HandlersFit
    BY DEF HandlersFit, Holds, Uncalled, Committing, Making
  <1>3. MintedOnce /\ LeasedAlone
    BY Zenon DEF MintedOnce, LeasedAlone, NoRun
  <1>4. BoundAlone
    BY Zenon DEF BoundAlone, Bound, Uncalled
  <1>5. CapacityNeverOversold
    <2>1. Occupied(reservations) = {}
      BY Zenon DEF Occupied, Gone
    <2> QED
      BY <2>1, FS_EmptySet, SMTT(60) DEF CapacityNeverOversold
  <1> QED
    BY <1>1, <1>2, <1>3, <1>4, <1>5, Zenon DEF BrokerInv

LEMMA BrokerStep == BrokerInv /\ [Next]_vars => BrokerInv'
  <1> SUFFICES ASSUME BrokerInv, [Next]_vars PROVE BrokerInv'
    OBVIOUS
  <1>1. TypeOK /\ HandlersFit /\ Leases /\ CapacityNeverOversold
    BY Zenon DEF BrokerInv, Leases
  <1>2. TypeOK' /\ HandlersFit'
    BY <1>1, AdmissionTypeStep, HandlersFitStep, Zenon
  <1>3. Leases'
    BY <1>1, <1>2, LeasesStep, Zenon
  <1>4. CapacityNeverOversold'
    BY <1>1, CapacityStep, Zenon
  <1> QED
    BY <1>2, <1>3, <1>4, Zenon DEF BrokerInv, Leases

\* The inductive invariant of the broker holds, whatever the environment does
\* to the posts and the store.
THEOREM BrokerInvariant == Spec => []BrokerInv
  BY BrokerInit, BrokerStep, PTL DEF Spec

LEMMA LeasedAloneCounts ==
  ASSUME LeasedAlone PROVE OneRunPerLease
  <1> SUFFICES ASSUME NEW i \in Ids
               PROVE  Cardinality({r \in Runs : run[r].lease = i})
                        <= IF reservations[i].state = "active" THEN 0 ELSE 1
    BY Zenon DEF OneRunPerLease
  <1> DEFINE S == {r \in Runs : run[r].lease = i}
  <1>1. i # 0
    BY AdmissionAssumption DEF Ids
  <1>2. CASE S = {}
    <2>1. Cardinality(S) = 0
      BY <1>2, FS_EmptySet, Zenon
    <2> QED
      BY <2>1
  <1>3. CASE S # {}
    <2>1. PICK r \in Runs : run[r].lease = i
      BY <1>3, Zenon
    <2>2. S = {r} /\ reservations[i].state # "active"
      BY <1>1, <2>1, ZenonT(60) DEF LeasedAlone
    <2>3. Cardinality(S) = 1
      BY <2>2, FS_Singleton, Zenon
    <2> QED
      BY <2>2, <2>3
  <1> QED
    BY <1>2, <1>3, Zenon

\* For any number of posts and reservations: the capacity is never oversold and
\* no two runs are made under one lease, however prepares, commits, releases and
\* expiries interleave (AdmissionBroker, _run_commit_locked).
THEOREM BrokerIsSoundTheorem == Spec => []BrokerIsSound
  <1>1. BrokerInv => BrokerIsSound
    BY LeasedAloneCounts, Zenon DEF BrokerInv, BrokerIsSound
  <1> QED
    BY <1>1, BrokerInvariant, PTL

LEMMA EndsByItsOwnStep ==
  ASSUME TypeOK, HandlersFit, Leases, [Next]_vars
  PROVE  EndsByItsOwn
  <1> DEFINE Due(i) == reservations[i].expires <= now
             Owned(p, i) == /\ request[p].id = i
                            /\ request'[p] # request[p]
                            /\ PreparedDigest(request[p].body) = PreparedDigest(reservations[i].body)
  <1> SUFFICES ASSUME NEW i \in Ids, Live(i), reservations'[i].state = "gone"
               PROVE  Due(i) \/ restarts' # restarts \/ \E p \in Requests : Owned(p, i)
    BY Zenon DEF EndsByItsOwn
  <1> USE AdmissionAssumption DEF Live
  <1>1. ASSUME NEW p \in Requests, Post(p) \/ Quiet(p) \/ Insert(p) \/ TakeStripe(p) PROVE FALSE
    BY <1>1, QuietMoves, Zenon DEF Post, Insert, TakeStripe, broker
  <1>2. ASSUME Swept[i].state = "gone" PROVE Due(i)
    BY <1>2, Zenon DEF Swept
  <1>3. ASSUME NEW j, reservations' = Consumed(j) PROVE i = j
    BY <1>3, Zenon DEF Consumed, TypeOK
  <1>4. ASSUME NEW p \in Requests, NEW pc, Goes(p, pc), pc # request[p].pc
        PROVE  request'[p] # request[p]
    BY <1>4, Zenon DEF Goes, TypeOK, Handler
  <1>5. ASSUME NEW p \in Requests, Prepare(p) PROVE Due(i)
    <2>1. reservations'[i] \in {reservations[i], Swept[i]}
      <3>1. CASE reservations' = [Swept EXCEPT ![issued + 1] =
                     [state |-> "active", body |-> request[p].body, expires |-> now + TTL]]
        BY <3>1, BrokerTyped, Zenon
      <3> QED
        BY <1>5, <3>1, Zenon DEF Prepare, broker
    <2> QED
      BY <1>2, <2>1, Zenon
  <1>6. ASSUME NEW p \in Requests, Selection(p) \/ Bind(p) PROVE Due(i)
    <2>1. reservations'[i] = reservations[i] \/ reservations'[i] = Swept[i] \/ reservations'[i].state = "committing"
      <3>1. CASE reservations' = [Swept EXCEPT ![request[p].id].state = "committing"]
        <4>1. Swept \in [Ids -> Reservation] /\ Swept[i] \in Reservation
          BY BrokerTyped, Zenon
        <4>2. [Swept[i] EXCEPT !.state = "committing"].state = "committing"
          BY <4>1, Zenon DEF Reservation, Gone
        <4> QED
          BY <3>1, <4>1, <4>2, Zenon
      <3> QED
        BY <1>6, <3>1, Zenon DEF Selection, Bind
    <2> QED
      BY <1>2, <2>1, Zenon
  <1>7. ASSUME NEW p \in Requests, Lookup(p) PROVE Owned(p, i)
    <2>1. /\ reservations' = Consumed(request[p].id) /\ BoundTo(p)
          /\ request[p].pc = "lookup" /\ Goes(p, "committed")
      BY <1>7, Zenon DEF Lookup, Leaves
    <2>2. request[p].id = i /\ request'[p] # request[p]
      BY <1>3, <1>4, <2>1, Zenon
    <2>3. RunOf(p) \in Runs /\ i # 0
      BY <2>1, CalledHasRun DEF Ids
    <2> QED
      BY <2>1, <2>2, <2>3, ZenonT(60) DEF BoundTo, RequestDigest, Leases, LeasedAlone
  <1>8. ASSUME NEW p \in Requests, Ready(p) \/ Free(p) PROVE Owned(p, i)
    <2>1. /\ reservations' = Freed(request[p].id, request[p].body)
          /\ request'[p] # request[p]
      BY <1>4, <1>8, Zenon DEF Ready, Free, Leaves
    <2>2. request[p].id = i
      BY <1>3, <2>1, Zenon DEF Freed
    <2> QED
      BY <2>1, <2>2, Zenon DEF Freed
  <1>9. ASSUME NEW p \in Requests, Complete(p) \/ Classify(p) PROVE Due(i) \/ Owned(p, i)
    <2>1. Bound(p) /\ request'[p] # request[p]
      BY <1>4, <1>9, Zenon DEF Complete, Classify, Leaves, Bound, HandlersFit, Committing
    <2>2. request[p].id \in Ids
      BY <2>1, BoundMinted, Zenon
    <2>3. reservations' = Consumed(request[p].id)
      <3>1. reservations' # reservations
        OBVIOUS
      <3>2. reservations' # [reservations EXCEPT ![request[p].id].state = "active"]
        <4>1. reservations[i] \in Reservation
          BY Zenon DEF TypeOK
        <4>2. [reservations[i] EXCEPT !.state = "active"].state = "active"
          BY <4>1, Zenon DEF Reservation, Gone
        <4> QED
          BY <2>2, <4>2, Zenon DEF TypeOK
      <3> QED
        BY <1>9, <3>1, <3>2, Zenon DEF Complete, Classify, Restored
    <2>4. request[p].id = i
      BY <1>3, <2>3, Zenon
    <2> QED
      BY <2>1, <2>4, Zenon DEF Leases, BoundAlone
  <1>10. ASSUME NEW r \in Runs, Settle(r) \/ ReleaseSettled(r) \/ SettleUnseen(r) PROVE FALSE
    BY <1>10, Zenon DEF Settle, ReleaseSettled, SettleUnseen, broker
  <1>11. CASE CloseAdmission \/ WaitQuiescent \/ Tick \/ UNCHANGED vars
    BY <1>11, Zenon DEF CloseAdmission, WaitQuiescent, Tick, vars, broker
  <1>12. CASE Restart
    BY <1>12 DEF Restart, TypeOK
  <1> QED
    BY <1>1, <1>5, <1>6, <1>7, <1>8, <1>9, <1>10, <1>11, <1>12, ZenonT(60) DEF Next, Handle, Quiet

\* For any number of posts and reservations: a reservation ends by expiry, with
\* the process, or by a request with its prepared digest; no other run's commit
\* or release can take it (AdmissionBroker.release, complete_commit).
THEOREM ReservationEndsTheorem == Spec => ReservationEndsByItsOwn
  <1>1. BrokerInv /\ [Next]_vars => [EndsByItsOwn]_vars
    BY EndsByItsOwnStep, Zenon DEF BrokerInv, Leases
  <1> QED
    BY <1>1, BrokerInvariant, PTL DEF Spec, ReservationEndsByItsOwn

-----------------------------------------------------------------------------
(* The gate, run by run.  What befell a run is its own affair: a mishap of   *)
(* one run excuses nothing of another.                                       *)

Crossed(r) == "overlap" \in befell[r]

Starting(p) ==
    request[p].verb \in {"start", "commit"} /\ request[p].pc \notin Over \cup {"new"}

\* Two posts that start one run are commits, which its stripe puts in order, or
\* the run is one whose starts overlapped.
NoOverlap ==
    \A p, q \in Requests :
        p # q /\ Starting(p) /\ Starting(q) /\ RunOf(p) = RunOf(q) =>
            \/ request[p].verb = "commit" /\ request[q].verb = "commit"
            \/ Crossed(RunOf(p))

\* What a handler has found or made of its run.
Unmade == {"selection", "ready", "bind", "again", "admit", "create", "taken"}
Fits(p) ==
    LET h == request[p]
        r == RunOf(p) IN
    \/ Crossed(r)
    \/ /\ h.pc \in Unmade => ~Exists(r)
       /\ h.pc = "undo" => ~Exists(r) \/ "raise" \in befell[r]
       /\ h.pc = "dispatch" => Exists(r) /\ run[r].lease = h.id
       /\ h.pc = "release" => run[r].status = "ended"
       /\ h.pc \in {"complete", "committed"} => run[r].lease = h.id
       /\ h.pc = "create" => r \in active

RunAsFound == \A p \in Requests : Fits(p)

\* Somebody's start keeps run r in the gate.
Kept(r) == \E p \in Requests : request[p].pc \in Admitted /\ RunOf(p) = r

\* Whom the gate counts, and who will be counted out.
GateCounts ==
    /\ \A r \in mine : Exists(r)
    /\ \A r \in releasing : run[r].status = "ended"
    /\ \A r \in active : run[r].status = "ended" =>
          r \in releasing \/ Crossed(r) \/ "unseen" \in befell[r]
    /\ \A r \in active : ~Exists(r) => Kept(r) \/ Crossed(r)
    /\ \A r \in mine : run[r].status = "live" =>
          r \in active \/ Crossed(r) \/ "raise" \in befell[r]
    /\ drain = "quiescent" => active = {}

GateFits == RunAsFound /\ GateCounts

GateInv == BrokerInv /\ NoOverlap /\ GateFits

\* Two handlers that have got past their stripe are not of one run, unless its
\* starts overlapped.
LEMMA OneMaker ==
  ASSUME TypeOK, HandlersFit, NoOverlap, NEW p \in Requests, NEW q \in Requests, p # q,
         request[p].pc \in Committing \cup Making \cup {"read"},
         request[q].pc \in Committing \cup Making \cup {"read"},
         ~Crossed(RunOf(p))
  PROVE  RunOf(p) # RunOf(q)
  <1> SUFFICES ASSUME RunOf(p) = RunOf(q) PROVE FALSE
    OBVIOUS
  <1>1. Starting(p) /\ Starting(q)
    BY Zenon DEF Starting, HandlersFit, Committing, Making, Over
  <1>2. request[p].verb = "commit" /\ request[q].verb = "commit"
    BY <1>1, Zenon DEF NoOverlap
  <1>3. Holds(p) /\ Holds(q)
    BY <1>2, Zenon DEF Holds, HandlersFit
  <1> QED
    BY <1>3, Zenon DEF HandlersFit

\* A step that calls nobody starts nobody.
LEMMA NoOverlapKept ==
  ASSUME NoOverlap, TypeOK, HandlersFit, \A r \in Runs : befell[r] \subseteq befell'[r],
         \A q \in Requests : Starting(q)' =>
            Starting(q) /\ request'[q].body = request[q].body /\ request'[q].verb = request[q].verb
  PROVE  NoOverlap'
  <1>1. \A q \in Requests : Starting(q) => RunOf(q) \in Runs
    BY CalledHasRun, Zenon DEF Starting
  <1>2. \A q \in Requests : Starting(q)' => RunOf(q)' = RunOf(q)
    BY Zenon DEF RunOf
  <1>3. \A r \in Runs : Crossed(r) => Crossed(r)'
    BY Zenon DEF Crossed
  <1> SUFFICES ASSUME NEW p \in Requests, NEW q \in Requests, p # q, Starting(p)', Starting(q)',
                      RunOf(p)' = RunOf(q)'
               PROVE  \/ request'[p].verb = "commit" /\ request'[q].verb = "commit"
                      \/ "overlap" \in befell'[RunOf(p)']
    BY Zenon DEF NoOverlap, Crossed
  <1>4. Starting(p) /\ Starting(q) /\ RunOf(p) = RunOf(q) /\ RunOf(p)' = RunOf(p) /\ RunOf(p) \in Runs
    BY <1>1, <1>2, Zenon
  <1>5. (request[p].verb = "commit" /\ request[q].verb = "commit") \/ Crossed(RunOf(p))
    BY <1>4, Zenon DEF NoOverlap
  <1> QED BY <1>4, <1>5, Zenon DEF Crossed

LEMMA NoOverlapStep ==
  ASSUME TypeOK, HandlersFit, NoOverlap, [Next]_vars
  PROVE  NoOverlap'
  <1>0. \A r \in Runs : befell[r] \subseteq befell'[r]
    BY BefellStep, Zenon
  <1>1. ASSUME NEW p \in Requests, Post(p) PROVE NoOverlap'
    <2>1. PICK verb \in Verbs, b \in Bodies : \E id \in 0..issued :
             /\ IF Alone(p, verb, b.run) THEN befell' = befell ELSE Befalls(b.run, "overlap")
             /\ request' = [request EXCEPT ![p] =
                  [pc |-> CASE verb = "start" -> "read"
                            [] verb = "prepare" -> "probe"
                            [] OTHER -> "stripe",
                   verb |-> verb, body |-> b, id |-> id]]
      BY <1>1, Zenon DEF Post
    <2>2. /\ request'[p].verb = verb /\ request'[p].body = b
          /\ \A q \in Requests : q # p => request'[q] = request[q]
      BY <2>1 DEF TypeOK
    <2>3. ASSUME NEW q \in Requests, q # p, Starting(q), verb \in {"start", "commit"}, RunOf(q) = b.run
          PROVE  (verb = "commit" /\ request[q].verb = "commit") \/ "overlap" \in befell'[b.run]
      <3>1. CASE Alone(p, verb, b.run)
        BY <2>3, <3>1, Zenon DEF Alone, Starting
      <3>2. CASE ~Alone(p, verb, b.run)
        <4>1. Befalls(b.run, "overlap") /\ b.run \in Runs
          BY <2>1, <3>2, Zenon DEF Runs
        <4> QED BY <4>1, BefallsGrows, Zenon DEF Mishaps
      <3> QED BY <3>1, <3>2, Zenon
    <2>4. \A q \in Requests : q # p => (Starting(q)' <=> Starting(q)) /\ RunOf(q)' = RunOf(q)
      BY <2>2, Zenon DEF Starting, RunOf
    <2>5. Starting(p)' => verb \in {"start", "commit"}
      BY <2>2, Zenon DEF Starting
    <2>6. RunOf(p)' = b.run
      BY <2>2, Zenon DEF RunOf
    <2> SUFFICES ASSUME NEW u \in Requests, NEW q \in Requests, u # q, Starting(u)', Starting(q)',
                        RunOf(u)' = RunOf(q)'
                 PROVE  \/ request'[u].verb = "commit" /\ request'[q].verb = "commit"
                        \/ "overlap" \in befell'[RunOf(u)']
      BY Zenon DEF NoOverlap, Crossed
    <2>7. CASE u # p /\ q # p
      <3>1. Starting(u) /\ Starting(q) /\ RunOf(u) = RunOf(q) /\ RunOf(u)' = RunOf(u)
        BY <2>4, <2>7, Zenon
      <3>2. RunOf(u) \in Runs
        BY <3>1, CalledHasRun, Zenon DEF Starting
      <3>3. (request[u].verb = "commit" /\ request[q].verb = "commit") \/ "overlap" \in befell[RunOf(u)]
        BY <3>1, Zenon DEF NoOverlap, Crossed
      <3> QED BY <1>0, <2>2, <2>7, <3>1, <3>2, <3>3, Zenon
    <2>8. CASE u = p
      BY <2>2, <2>3, <2>4, <2>5, <2>6, <2>8, Zenon
    <2>9. CASE q = p
      BY <2>2, <2>3, <2>4, <2>5, <2>6, <2>9, Zenon
    <2> QED BY <2>7, <2>8, <2>9, Zenon
  <1>2. ASSUME NEW p \in Requests, NEW pc, Goes(p, pc),
               request[p].pc \notin Over \cup {"new"}
        PROVE  NoOverlap'
    <2>1. \A q \in Requests : Starting(q)' =>
            Starting(q) /\ request'[q].body = request[q].body /\ request'[q].verb = request[q].verb
      BY <1>2, Zenon DEF Goes, Starting, TypeOK, Handler
    <2> QED
      BY <1>0, <2>1, NoOverlapKept, Zenon
  <1>3. ASSUME NEW p \in Requests, Handle(p) PROVE NoOverlap'
    <2>1. request[p].pc \notin Over \cup {"new"}
      BY <1>3, Zenon DEF Handle, Read, RefuseEarly, Admit, Insert, RefuseNickname, JoinWinner, FailCreate,
                  Dispatch, RaiseAfterInsert, ReleaseStart, Prepare, TakeStripe, Lookup, Selection,
                  Ready, Bind, ReadAgain, Complete, Classify, Free, Over
    <2>2. \E pc : Goes(p, pc)
      <3>1. CASE Quiet(p)
        BY <3>1, QuietMoves, Zenon
      <3>2. CASE Insert(p) \/ Prepare(p) \/ TakeStripe(p)
        BY <3>2, ZenonT(60) DEF Insert, Prepare, TakeStripe
      <3>3. CASE Lookup(p) \/ Selection(p) \/ Ready(p) \/ Bind(p) \/ Complete(p) \/ Classify(p) \/ Free(p)
        BY <3>3, Zenon DEF Lookup, Selection, Ready, Bind, Complete, Classify, Free, Leaves
      <3> QED
        BY <1>3, <3>1, <3>2, <3>3, Zenon DEF Handle, Quiet
    <2> QED
      BY <1>2, <2>1, <2>2, Zenon
  <1>4. CASE UNCHANGED request
    BY <1>0, <1>4, NoOverlapKept, Zenon DEF Starting
  <1>5. CASE Restart
    BY <1>0, <1>5, NoOverlapKept, Zenon DEF Restart, Starting, TypeOK, Handler, Over
  <1> QED
    BY <1>1, <1>3, <1>4, <1>5, Zenon
       DEF Next, Settle, ReleaseSettled, SettleUnseen, CloseAdmission, WaitQuiescent, Tick, vars

\* What a handler that stays where it is found of its run is still so.
LEMMA FitsStays ==
  ASSUME NEW q \in Requests, Fits(q), request'[q].pc = request[q].pc,
         request'[q].body = request[q].body, request'[q].id = request[q].id,
         \/ "overlap" \in befell'[RunOf(q)]
         \/ /\ befell[RunOf(q)] \subseteq befell'[RunOf(q)]
            /\ run'[RunOf(q)].status = "none" <=> run[RunOf(q)].status = "none"
            /\ run'[RunOf(q)].lease = run[RunOf(q)].lease
            /\ run[RunOf(q)].status = "ended" => run'[RunOf(q)].status = "ended"
            /\ request[q].pc = "create" /\ RunOf(q) \in active => RunOf(q) \in active'
  PROVE  Fits(q)'
  <1>1. RunOf(q)' = RunOf(q)
    BY Zenon DEF RunOf
  <1>2. CASE "overlap" \in befell'[RunOf(q)]
    BY <1>1, <1>2, Zenon DEF Fits, Crossed
  <1>3. CASE "overlap" \notin befell'[RunOf(q)]
    BY <1>1, <1>3, Zenon DEF Fits, Crossed, Exists
  <1> QED BY <1>2, <1>3, Zenon

\* A handler at a place that says nothing of its run.
Indifferent == PCs \ (Unmade \cup {"undo", "dispatch", "release", "complete", "committed"})
LEMMA FitsAnyway ==
  ASSUME NEW q \in Requests, request'[q].pc \in Indifferent
  PROVE  Fits(q)'
  BY Zenon DEF Fits, Indifferent, Unmade

\* A step that leaves the store and the gate alone counts as before, when the
\* starts that keep a run that is not there still keep it.
LEMMA GateCountsStay ==
  ASSUME TypeOK, GateFits, UNCHANGED <<run, active, drain, releasing, mine>>,
         \A r \in Runs : befell[r] \subseteq befell'[r],
         \A r : ~Exists(r) /\ ~Crossed(r) /\ Kept(r) => Kept(r)'
  PROVE  GateCounts'
  <1>1. active \subseteq Runs /\ mine \subseteq Runs
    BY Zenon DEF TypeOK
  <1>2. \A r \in Runs : /\ Crossed(r) => "overlap" \in befell'[r]
                        /\ "unseen" \in befell[r] => "unseen" \in befell'[r]
                        /\ "raise" \in befell[r] => "raise" \in befell'[r]
    BY Zenon DEF Crossed
  <1>3. \A r \in active : ~Exists(r) => Kept(r)' \/ "overlap" \in befell'[r]
    BY <1>1, <1>2, Zenon DEF GateFits, GateCounts
  <1> QED BY <1>1, <1>2, <1>3, Zenon DEF GateFits, GateCounts, Exists, Crossed

\* A handler that moves on, and finds its run as its new place says, leaves the
\* gate as sound as it was.
LEMMA GateMoves ==
  ASSUME TypeOK, GateFits, NEW p \in Requests, NEW pc \in PCs, Goes(p, pc),
         UNCHANGED <<run, gate, mine, befell>>,
         Crossed(RunOf(p)) \/
           /\ pc \in Unmade \cup {"undo"} => ~Exists(RunOf(p))
           /\ pc = "release" => run[RunOf(p)].status = "ended"
           /\ pc \in {"complete", "committed"} => run[RunOf(p)].lease = request[p].id,
         pc \notin {"create", "dispatch"},
         request[p].pc \in Admitted => pc \in Admitted \/ Exists(RunOf(p)) \/ Crossed(RunOf(p))
  PROVE  GateFits'
  <1>1. /\ \A q \in Requests : /\ request'[q].body = request[q].body
                               /\ request'[q].id = request[q].id
                               /\ q # p => request'[q].pc = request[q].pc
        /\ request'[p].pc = pc
    BY Zenon DEF Goes, TypeOK, Handler
  <1>2. RunAsFound'
    <2>1. ASSUME NEW q \in Requests, q # p PROVE Fits(q)'
      BY <1>1, <2>1, FitsStays, Zenon DEF GateFits, RunAsFound, gate
    <2>2. Fits(p)'
      BY <1>1, Zenon DEF Fits, Crossed, Exists, RunOf
    <2> QED BY <2>1, <2>2, Zenon DEF RunAsFound
  <1>3. ASSUME NEW r, ~Exists(r), ~Crossed(r), Kept(r) PROVE Kept(r)'
    <2>1. PICK q \in Requests : request[q].pc \in Admitted /\ RunOf(q) = r
      BY <1>3, Zenon DEF Kept
    <2>2. request'[q].pc \in Admitted /\ RunOf(q)' = r
      BY <1>1, <1>3, <2>1, Zenon DEF RunOf
    <2> QED BY <2>2, Zenon DEF Kept
  <1>4. GateCounts'
    BY <1>3, GateCountsStay, Zenon DEF gate
  <1> QED
    BY <1>2, <1>4, Zenon DEF GateFits

\* The steps of a handler that leave the store and the gate alone.
LEMMA GateHandlerStep ==
  ASSUME TypeOK, HandlersFit, NoOverlap, GateFits, NEW p \in Requests,
         Handle(p), ~Admit(p), ~Insert(p), ~ReleaseStart(p), ~RaiseAfterInsert(p)
  PROVE  GateFits'
  <1> USE DEF PCs, Unmade, Admitted
  <1>1. Crossed(RunOf(p)) \/ ~Exists(RunOf(p)) \/ request[p].pc \notin Unmade
    BY Zenon DEF GateFits, RunAsFound, Fits
  <1>2. CASE Read(p) \/ ReadAgain(p)
    <2>1. PICK pc \in {"admit", "classify", "refused", "complete", "answered"} :
             /\ Goes(p, pc)
             /\ pc = "admit" => ~Exists(RunOf(p))
             /\ pc = "complete" => Crossed(RunOf(p))
             /\ request[p].pc \notin Admitted
      BY <1>1, <1>2, ZenonT(60) DEF Read, ReadAgain, Replayed, Succeeded, Failed, HandlersFit
    <2> QED
      BY <1>2, <2>1, GateMoves, Zenon DEF Read, ReadAgain
  <1>3. CASE RefuseEarly(p)
    BY <1>3, GateMoves, Zenon DEF RefuseEarly, Failed
  <1>4. CASE RefuseNickname(p) \/ FailCreate(p)
    BY <1>1, <1>4, GateMoves, Zenon DEF RefuseNickname, FailCreate
  <1>5. CASE JoinWinner(p)
    <2>1. PICK pc \in {"classify", "refused", "complete", "answered"} : Goes(p, pc)
      BY <1>5, Zenon DEF JoinWinner, Replayed, Succeeded, Failed
    <2>2. Crossed(RunOf(p)) /\ Exists(RunOf(p))
      BY <1>1, <1>5, Zenon DEF JoinWinner
    <2> QED
      BY <1>5, <2>1, <2>2, GateMoves, Zenon DEF JoinWinner
  <1>6. CASE Dispatch(p)
    <2>1. (Exists(RunOf(p)) /\ run[RunOf(p)].lease = request[p].id) \/ Crossed(RunOf(p))
      BY <1>6, ZenonT(60) DEF Dispatch, GateFits, RunAsFound, Fits
    <2>2. PICK pc \in {"complete", "answered", "classify", "refused", "release"} :
             Goes(p, pc) /\ (pc = "release" => run[RunOf(p)].status = "ended")
      BY <1>6, Zenon DEF Dispatch, Succeeded, Failed
    <2> QED
      BY <1>6, <2>1, <2>2, GateMoves, Zenon DEF Dispatch
  <1>7. CASE Prepare(p) \/ TakeStripe(p) \/ Free(p)
    BY <1>7, GateMoves, ZenonT(60) DEF Prepare, TakeStripe, Free, Leaves
  <1>8. CASE Lookup(p)
    BY <1>8, GateMoves, Zenon DEF Lookup, Leaves, BoundTo
  <1>9. CASE Selection(p) \/ Ready(p) \/ Bind(p) \/ Classify(p)
    <2>1. PICK pc \in {"refused", "ready", "bind", "again"} :
             Goes(p, pc) /\ (pc # "refused" => ~Exists(RunOf(p)) \/ Crossed(RunOf(p)))
      BY <1>1, <1>9, ZenonT(60) DEF Selection, Ready, Bind, Classify, Leaves
    <2> QED
      BY <1>9, <2>1, GateMoves, Zenon DEF Selection, Ready, Bind, Classify
  <1>10. CASE Complete(p)
    <2>1. run[RunOf(p)].lease = request[p].id \/ Crossed(RunOf(p))
      BY <1>10, ZenonT(60) DEF Complete, GateFits, RunAsFound, Fits
    <2> QED
      BY <1>10, <2>1, GateMoves, ZenonT(60) DEF Complete, Leaves
  <1> QED
    BY <1>2, <1>3, <1>4, <1>5, <1>6, <1>7, <1>8, <1>9, <1>10, Zenon DEF Handle

\* A step that raises after the insert says so of its run.
LEMMA GateRaiseStep ==
  ASSUME TypeOK, HandlersFit, GateFits, NEW p \in Requests, RaiseAfterInsert(p)
  PROVE  GateFits'
  <1>1. /\ request[p].pc = "dispatch" /\ Goes(p, "undo") /\ Befalls(RunOf(p), "raise")
        /\ UNCHANGED <<run, active, drain, releasing, mine>>
    BY Zenon DEF RaiseAfterInsert, gate
  <1>2. RunOf(p) \in Runs
    BY <1>1, CalledHasRun, Zenon
  <1>3. /\ \A r \in Runs : befell[r] \subseteq befell'[r]
        /\ "raise" \in befell'[RunOf(p)]
    BY <1>1, <1>2, BefallsGrows, Zenon DEF Mishaps
  <1>4. /\ \A q \in Requests : /\ request'[q].body = request[q].body
                               /\ request'[q].id = request[q].id
                               /\ q # p => request'[q].pc = request[q].pc
        /\ request'[p].pc = "undo"
    BY <1>1, Zenon DEF Goes, TypeOK, Handler
  <1>5. ASSUME NEW q \in Requests PROVE Fits(q)'
    <2>1. CASE q = p
      BY <1>3, <1>4, <2>1, Zenon DEF Fits, Unmade, RunOf
    <2>2. CASE request[q].pc = "new" /\ q # p
      BY <1>4, <2>2, FitsAnyway, Zenon DEF Indifferent, PCs, Unmade
    <2>3. CASE request[q].pc # "new" /\ q # p
      <3>1. RunOf(q) \in Runs
        BY <2>3, CalledHasRun, Zenon
      <3> QED BY <1>1, <1>3, <1>4, <2>3, <3>1, FitsStays, Zenon DEF GateFits, RunAsFound
    <2> QED BY <2>1, <2>2, <2>3, Zenon
  <1>6. ASSUME NEW r, Kept(r) PROVE Kept(r)'
    <2>1. PICK q \in Requests : request[q].pc \in Admitted /\ RunOf(q) = r
      BY <1>6, Zenon DEF Kept
    <2>2. request'[q].pc \in Admitted /\ RunOf(q)' = r
      BY <1>4, <2>1, Zenon DEF RunOf, Admitted
    <2> QED BY <2>2, Zenon DEF Kept
  <1>7. GateCounts'
    BY <1>1, <1>3, <1>6, GateCountsStay, Zenon
  <1> QED BY <1>5, <1>7, Zenon DEF GateFits, RunAsFound

\* The handler that asks the gate.
LEMMA GateAdmitStep ==
  ASSUME TypeOK, HandlersFit, GateFits, NEW p \in Requests, Admit(p)
  PROVE  GateFits'
  <1>1. /\ UNCHANGED <<run, mine, releasing, drain, befell>> /\ request[p].pc = "admit"
        /\ \/ drain = "serving" /\ active' = active \cup {RunOf(p)} /\ Goes(p, "create")
           \/ active' = active /\ \E pc \in {"classify", "refused"} : Goes(p, pc)
    BY Zenon DEF Admit, Failed
  <1>2. PICK pc \in {"create", "classify", "refused"} :
           /\ Goes(p, pc)
           /\ \/ drain = "serving" /\ active' = active \cup {RunOf(p)} /\ pc = "create"
              \/ active' = active /\ pc # "create"
    BY <1>1, Zenon
  <1>3. /\ \A q \in Requests : /\ request'[q].body = request[q].body
                               /\ request'[q].id = request[q].id
                               /\ q # p => request'[q].pc = request[q].pc
        /\ request'[p].pc = pc
    BY <1>2, Zenon DEF Goes, TypeOK, Handler
  <1>4. Crossed(RunOf(p)) \/ ~Exists(RunOf(p))
    BY <1>1, Zenon DEF GateFits, RunAsFound, Fits, Unmade
  <1>5. active \subseteq active'
    BY <1>2, Zenon
  <1>6. ASSUME NEW q \in Requests PROVE Fits(q)'
    <2>1. CASE q # p
      BY <1>1, <1>3, <1>5, <2>1, FitsStays, Zenon DEF GateFits, RunAsFound
    <2>2. CASE q = p /\ pc = "create"
      BY <1>1, <1>2, <1>3, <1>4, <2>2, Zenon DEF Fits, Crossed, Exists, RunOf, Unmade
    <2>3. CASE q = p /\ pc # "create"
      BY <1>3, <2>3, FitsAnyway, Zenon DEF Indifferent, PCs, Unmade
    <2> QED BY <2>1, <2>2, <2>3, Zenon
  <1>7. ASSUME NEW r, Kept(r) PROVE Kept(r)'
    <2>1. PICK q \in Requests : request[q].pc \in Admitted /\ RunOf(q) = r
      BY <1>7, Zenon DEF Kept
    <2>2. q # p
      BY <1>1, <2>1, Zenon DEF Admitted
    <2>3. request'[q].pc \in Admitted /\ RunOf(q)' = r
      BY <1>3, <2>1, <2>2, Zenon DEF RunOf
    <2> QED BY <2>3, Zenon DEF Kept
  <1>8. GateCounts'
    <2>1. CASE active' = active
      BY <1>1, <1>7, <2>1, GateCountsStay, Zenon
    <2>2. CASE drain = "serving" /\ active' = active \cup {RunOf(p)} /\ pc = "create"
      <3>1. ASSUME NEW r, r = RunOf(p) PROVE Kept(r)'
        BY <1>3, <3>1, <2>2, Zenon DEF Kept, RunOf, Admitted
      <3>2. \A r \in active' : run[r].status = "ended" =>
               r \in releasing \/ Crossed(r) \/ "unseen" \in befell[r]
        BY <1>4, <2>2, Zenon DEF GateFits, GateCounts, Exists
      <3>3. \A r \in active' : ~Exists(r) => Kept(r)' \/ Crossed(r)
        BY <1>7, <2>2, <3>1, Zenon DEF GateFits, GateCounts
      <3> QED
        BY <1>1, <1>5, <2>2, <3>2, <3>3, Zenon DEF GateFits, GateCounts, Exists, Crossed
    <2> QED BY <1>2, <2>1, <2>2, Zenon
  <1> QED BY <1>6, <1>8, Zenon DEF GateFits, RunAsFound

\* The handler that makes the run.
LEMMA GateInsertStep ==
  ASSUME TypeOK, HandlersFit, NoOverlap, GateFits, NEW p \in Requests, Insert(p)
  PROVE  GateFits'
  <1>1. request[p].pc = "create" /\ Goes(p, "dispatch")
    BY Zenon DEF Insert
  <1>2. RunOf(p) \in Runs
    BY <1>1, CalledHasRun, Zenon
  <1>3. /\ run'[RunOf(p)].status = "live" /\ run'[RunOf(p)].lease = request[p].id
        /\ \A r \in Runs : r # RunOf(p) => run'[r] = run[r]
        /\ mine' = mine \cup {RunOf(p)}
        /\ UNCHANGED <<active, drain, releasing, befell>>
        /\ ~Exists(RunOf(p))
    BY <1>2, Zenon DEF Insert, RunOf, TypeOK, gate
  <1>4. run[RunOf(p)].lease = 0
    BY <1>2, <1>3 DEF Exists, TypeOK, RunRow, NoRun
  <1>5. /\ \A q \in Requests : /\ request'[q].body = request[q].body
                               /\ request'[q].id = request[q].id
                               /\ q # p => request'[q].pc = request[q].pc
        /\ request'[p].pc = "dispatch"
    BY <1>1, Zenon DEF Goes, TypeOK, Handler
  <1>6. Crossed(RunOf(p)) \/ RunOf(p) \in active
    BY <1>1, Zenon DEF GateFits, RunAsFound, Fits
  <1>7. ASSUME NEW q \in Requests, q # p PROVE Fits(q)'
    <2>1. CASE request[q].pc \in Indifferent
      BY <1>5, <1>7, <2>1, FitsAnyway, Zenon
    <2>2. CASE request[q].pc \notin Indifferent /\ RunOf(q) # RunOf(p)
      <3>1. request[q].pc # "new"
        BY <2>2, Zenon DEF Indifferent, PCs, Unmade
      <3>2. run'[RunOf(q)] = run[RunOf(q)]
        BY <1>3, <2>2, <3>1, CalledHasRun, Zenon
      <3> QED BY <1>3, <1>5, <1>7, <3>2, FitsStays, Zenon DEF GateFits, RunAsFound
    <2>3. CASE request[q].pc \notin Indifferent /\ RunOf(q) = RunOf(p)
      <3>1. CASE Crossed(RunOf(p))
        BY <1>3, <1>5, <1>7, <2>3, <3>1, FitsStays, Zenon DEF GateFits, RunAsFound, Crossed
      <3>2. CASE ~Crossed(RunOf(p))
        <4>1. request[q].pc \in PCs
          BY Zenon DEF TypeOK, Handler
        <4>2. request[q].pc \in Committing \cup Making \/ request[q].pc = "committed"
          BY <2>3, <4>1, Zenon DEF Indifferent, PCs, Unmade, Committing, Making
        <4>3. request[q].pc = "committed"
          BY <1>1, <1>7, <2>3, <3>2, <4>2, OneMaker, Zenon DEF Making
        <4>4. run[RunOf(q)].lease = request[q].id /\ request[q].id # 0
          BY <2>3, <3>2, <4>3, Zenon DEF GateFits, RunAsFound, Fits, HandlersFit
        <4> QED BY <1>4, <2>3, <4>4, Zenon
      <3> QED BY <3>1, <3>2, Zenon
    <2> QED BY <2>1, <2>2, <2>3, Zenon
  <1>8. Fits(p)'
    BY <1>3, <1>5, Zenon DEF Fits, Exists, RunOf, Unmade
  <1>9. ASSUME NEW r, Kept(r), r # RunOf(p) PROVE Kept(r)'
    <2>1. PICK q \in Requests : request[q].pc \in Admitted /\ RunOf(q) = r
      BY <1>9, Zenon DEF Kept
    <2>2. request'[q].pc \in Admitted /\ RunOf(q)' = r
      BY <1>5, <1>9, <2>1, Zenon DEF RunOf
    <2> QED BY <2>2, Zenon DEF Kept
  <1>10. GateCounts'
    <2>1. active \subseteq Runs /\ mine \subseteq Runs /\ releasing \subseteq Runs
      BY Zenon DEF TypeOK
    <2>2. \A r \in releasing : r # RunOf(p)
      BY <1>3, Zenon DEF GateFits, GateCounts, Exists
    <2>3. /\ \A r \in mine' : run'[r].status # "none"
          /\ \A r \in releasing : run'[r].status = "ended"
      BY <1>3, <2>1, <2>2, Zenon DEF GateFits, GateCounts, Exists
    <2>4. \A r \in active : run'[r].status = "ended" => r # RunOf(p) /\ run'[r] = run[r]
      BY <1>3, <2>1, Zenon
    <2>5. \A r \in active : run'[r].status = "none" => r # RunOf(p) /\ run'[r] = run[r]
      BY <1>3, <2>1, Zenon
    <2>6. \A r \in active : run'[r].status = "none" => Kept(r)' \/ Crossed(r)
      BY <1>9, <2>5, Zenon DEF GateFits, GateCounts, Exists
    <2>7. \A r \in mine' : run'[r].status = "live" => r \in active \/ Crossed(r) \/ "raise" \in befell[r]
      BY <1>3, <1>6, <2>1, Zenon DEF GateFits, GateCounts
    <2> QED
      BY <1>3, <2>3, <2>4, <2>6, <2>7, Zenon DEF GateFits, GateCounts, Exists, Crossed
  <1> QED BY <1>7, <1>8, <1>10, Zenon DEF GateFits, RunAsFound

\* The handler that gives its admission back.
LEMMA GateReleaseStep ==
  ASSUME TypeOK, HandlersFit, NoOverlap, GateFits, NEW p \in Requests, ReleaseStart(p)
  PROVE  GateFits'
  <1>1. /\ UNCHANGED <<run, mine, releasing, drain, befell>>
        /\ active' = active \ {RunOf(p)}
        /\ request[p].pc \in {"release", "undo", "taken"}
    BY Zenon DEF ReleaseStart
  <1>2. PICK pc \in {"classify", "refused", "nickname"} : Goes(p, pc)
    BY Zenon DEF ReleaseStart, Failed
  <1>3. /\ \A q \in Requests : /\ request'[q].body = request[q].body
                               /\ request'[q].id = request[q].id
                               /\ q # p => request'[q].pc = request[q].pc
        /\ request'[p].pc = pc
    BY <1>2, Zenon DEF Goes, TypeOK, Handler
  <1>4. run[RunOf(p)].status # "live" \/ Crossed(RunOf(p)) \/ "raise" \in befell[RunOf(p)]
    BY <1>1, Zenon DEF GateFits, RunAsFound, Fits, Unmade, Exists
  <1>5. ASSUME NEW q \in Requests PROVE Fits(q)'
    <2>1. CASE q = p
      BY <1>3, <2>1, FitsAnyway, Zenon DEF Indifferent, PCs, Unmade
    <2>2. CASE q # p
      <3>1. Crossed(RunOf(q)) \/ request[q].pc # "create" \/ RunOf(q) # RunOf(p)
        BY <1>1, <2>2, OneMaker, Zenon DEF Making
      <3>2. request[q].pc = "create" /\ RunOf(q) \in active => RunOf(q) \in active' \/ Crossed(RunOf(q))
        BY <1>1, <3>1, Zenon
      <3> QED BY <1>1, <1>3, <2>2, <3>2, FitsStays, Zenon DEF GateFits, RunAsFound, Crossed
    <2> QED BY <2>1, <2>2, Zenon
  <1>6. ASSUME NEW r, Kept(r), r # RunOf(p) PROVE Kept(r)'
    <2>1. PICK q \in Requests : request[q].pc \in Admitted /\ RunOf(q) = r
      BY <1>6, Zenon DEF Kept
    <2>2. request'[q].pc \in Admitted /\ RunOf(q)' = r
      BY <1>3, <1>6, <2>1, Zenon DEF RunOf
    <2> QED BY <2>2, Zenon DEF Kept
  <1>7. GateCounts'
    <2>1. \A r \in active' : r \in active /\ r # RunOf(p)
      BY <1>1, Zenon
    <2>2. \A r \in active' : ~Exists(r) => Kept(r)' \/ Crossed(r)
      BY <1>6, <2>1, Zenon DEF GateFits, GateCounts
    <2>3. \A r \in mine : run[r].status = "live" => r \in active' \/ Crossed(r) \/ "raise" \in befell[r]
      BY <1>1, <1>4, Zenon DEF GateFits, GateCounts
    <2>4. drain = "quiescent" => active' = {}
      BY <1>1, Zenon DEF GateFits, GateCounts
    <2> QED
      BY <1>1, <2>1, <2>2, <2>3, <2>4, Zenon DEF GateFits, GateCounts, Exists, Crossed
  <1> QED BY <1>5, <1>7, Zenon DEF GateFits, RunAsFound

\* A step that moves no handler and changes nothing but how far its runs got.
LEMMA GateSettles ==
  ASSUME TypeOK, HandlersFit, GateFits, UNCHANGED request,
         \A r \in Runs : /\ befell[r] \subseteq befell'[r]
                         /\ run'[r].lease = run[r].lease
                         /\ run'[r].status = "none" <=> run[r].status = "none"
                         /\ run[r].status = "ended" => run'[r].status = "ended",
         \A q \in Requests : request[q].pc = "create" /\ RunOf(q) \in active =>
            RunOf(q) \in active' \/ Crossed(RunOf(q))
  PROVE  RunAsFound'
  <1> SUFFICES ASSUME NEW q \in Requests PROVE Fits(q)'
    BY Zenon DEF RunAsFound
  <1>1. CASE request[q].pc = "new"
    BY <1>1, FitsAnyway, Zenon DEF Indifferent, PCs, Unmade
  <1>2. CASE request[q].pc # "new"
    <2>1. RunOf(q) \in Runs
      BY <1>2, CalledHasRun, Zenon
    <2>2. Crossed(RunOf(q)) => "overlap" \in befell'[RunOf(q)]
      BY <2>1, Zenon DEF Crossed
    <2> QED BY <2>1, <2>2, FitsStays, Zenon DEF GateFits, RunAsFound
  <1> QED BY <1>1, <1>2, Zenon

\* A run that ends is released by the handler that settled it, or was settled
\* unseen.
LEMMA SettledCounts ==
  ASSUME TypeOK, GateFits, NEW r \in Runs, run'[r].status = "ended", run[r].status # "none",
         \A s \in Runs : s # r => run'[s] = run[s],
         \A s \in Runs : befell[s] \subseteq befell'[s],
         \/ releasing' = releasing \cup {r}
         \/ releasing' = releasing /\ "unseen" \in befell'[r],
         UNCHANGED <<active, drain, request, mine>>
  PROVE  GateCounts'
  <1>1. active \subseteq Runs /\ mine \subseteq Runs /\ releasing \subseteq Runs
    BY Zenon DEF TypeOK
  <1>2. \A s \in Runs : /\ Crossed(s) => "overlap" \in befell'[s]
                        /\ "unseen" \in befell[s] => "unseen" \in befell'[s]
                        /\ "raise" \in befell[s] => "raise" \in befell'[s]
    BY Zenon DEF Crossed
  <1>3. \A s : Kept(s) => Kept(s)'
    BY Zenon DEF Kept, RunOf
  <1>4. \A s \in releasing' : run'[s].status = "ended"
    BY <1>1, Zenon DEF GateFits, GateCounts
  <1>5. \A s \in mine : run'[s].status # "none"
    BY <1>1, Zenon DEF GateFits, GateCounts, Exists
  <1>6. \A s \in active : run'[s].status = "ended" =>
           s \in releasing' \/ "overlap" \in befell'[s] \/ "unseen" \in befell'[s]
    BY <1>1, <1>2, Zenon DEF GateFits, GateCounts
  <1>7. \A s \in active : run'[s].status = "none" => Kept(s)' \/ "overlap" \in befell'[s]
    BY <1>1, <1>2, <1>3, Zenon DEF GateFits, GateCounts, Exists
  <1>8. \A s \in mine : run'[s].status = "live" =>
           s \in active \/ "overlap" \in befell'[s] \/ "raise" \in befell'[s]
    BY <1>1, <1>2, Zenon DEF GateFits, GateCounts
  <1>9. drain = "quiescent" => active = {}
    BY Zenon DEF GateFits, GateCounts
  <1> QED
    BY <1>4, <1>5, <1>6, <1>7, <1>8, <1>9, Zenon DEF GateCounts, Exists, Crossed

LEMMA GateStep ==
  ASSUME TypeOK, HandlersFit, NoOverlap, GateFits, [Next]_vars
  PROVE  GateFits'
  <1>0. \A r \in Runs : befell[r] \subseteq befell'[r]
    BY BefellStep, Zenon
  <1>1. ASSUME NEW p \in Requests, Post(p) PROVE GateFits'
    <2>1. /\ UNCHANGED <<run, active, drain, releasing, mine>> /\ request[p].pc = "new"
          /\ request'[p].pc \in {"read", "probe", "stripe"}
          /\ \A q \in Requests : q # p => request'[q] = request[q]
      BY <1>1, SMTT(60) DEF Post, TypeOK, gate
    <2>2. ASSUME NEW q \in Requests PROVE Fits(q)'
      <3>1. CASE q = p \/ request[q].pc = "new"
        BY <2>1, <3>1, FitsAnyway, Zenon DEF Indifferent, PCs, Unmade
      <3>2. CASE q # p /\ request[q].pc # "new"
        <4>1. RunOf(q) \in Runs
          BY <3>2, CalledHasRun, Zenon
        <4> QED BY <1>0, <2>1, <3>2, <4>1, FitsStays, Zenon DEF GateFits, RunAsFound
      <3> QED BY <3>1, <3>2, Zenon
    <2>3. ASSUME NEW r, Kept(r) PROVE Kept(r)'
      <3>1. PICK q \in Requests : request[q].pc \in Admitted /\ RunOf(q) = r
        BY <2>3, Zenon DEF Kept
      <3>2. q # p
        BY <2>1, <3>1, Zenon DEF Admitted
      <3>3. request'[q].pc \in Admitted /\ RunOf(q)' = r
        BY <2>1, <3>1, <3>2, Zenon DEF RunOf
      <3> QED BY <3>3, Zenon DEF Kept
    <2>4. GateCounts'
      BY <1>0, <2>1, <2>3, GateCountsStay, Zenon
    <2> QED BY <2>2, <2>4, Zenon DEF GateFits, RunAsFound
  <1>2. ASSUME NEW p \in Requests, Handle(p) PROVE GateFits'
    BY <1>2, GateHandlerStep, GateRaiseStep, GateAdmitStep, GateInsertStep, GateReleaseStep, Zenon
  <1>3. ASSUME NEW r \in Runs, Settle(r) PROVE GateFits'
    <2>1. /\ run'[r].status = "ended" /\ run[r].status # "none"
          /\ \A s \in Runs : run'[s].lease = run[s].lease /\ (s # r => run'[s] = run[s])
          /\ releasing' = releasing \cup {r}
          /\ UNCHANGED <<active, drain, request, mine, befell>>
      <3>1. run[r] \in [status : {"live", "ended"}, body : Bodies, lease : 0..Issues]
        BY <1>3 DEF Settle, Exists, TypeOK, RunRow, NoRun
      <3> QED
        BY <1>3, <3>1, Zenon DEF Settle, Exists, TypeOK
    <2>2. RunAsFound'
      BY <1>0, <2>1, GateSettles, Zenon
    <2>3. GateCounts'
      BY <2>1, SettledCounts, Zenon
    <2> QED BY <2>2, <2>3, Zenon DEF GateFits
  <1>4. ASSUME NEW r \in Runs, ReleaseSettled(r) PROVE GateFits'
    <2>1. /\ run[r].status = "ended" /\ active' = active \ {r} /\ releasing' = releasing \ {r}
          /\ UNCHANGED <<run, drain, request, mine, befell>>
      BY <1>4, Zenon DEF ReleaseSettled, GateFits, GateCounts
    <2>2. ASSUME NEW q \in Requests, request[q].pc = "create", RunOf(q) \in active
          PROVE  RunOf(q) \in active' \/ Crossed(RunOf(q))
      BY <2>1, <2>2, Zenon DEF GateFits, RunAsFound, Fits, Unmade, Exists
    <2>3. RunAsFound'
      BY <1>0, <2>1, <2>2, GateSettles, Zenon
    <2>4. \A s : Kept(s) => Kept(s)'
      BY <2>1, Zenon DEF Kept, RunOf
    <2>5. GateCounts'
      BY <2>1, <2>4, Zenon DEF GateFits, GateCounts, Exists, Crossed
    <2> QED BY <2>3, <2>5, Zenon DEF GateFits
  <1>5. ASSUME NEW r \in Runs, SettleUnseen(r) PROVE GateFits'
    <2>1. /\ run'[r].status = "ended" /\ run[r].status # "none"
          /\ \A s \in Runs : run'[s].lease = run[s].lease /\ (s # r => run'[s] = run[s])
          /\ UNCHANGED <<active, drain, releasing, request, mine>>
      <3>1. run[r] \in [status : {"live", "ended"}, body : Bodies, lease : 0..Issues]
        BY <1>5 DEF SettleUnseen, TypeOK, RunRow, NoRun
      <3> QED
        BY <1>5, <3>1, Zenon DEF SettleUnseen, TypeOK, gate
    <2>2. RunAsFound'
      BY <1>0, <2>1, GateSettles, Zenon
    <2>3. "unseen" \in befell'[r]
      BY <1>5, BefallsGrows, Zenon DEF SettleUnseen, Mishaps
    <2>4. GateCounts'
      BY <1>0, <2>1, <2>3, SettledCounts, Zenon
    <2> QED BY <2>2, <2>4, Zenon DEF GateFits
  <1>6. CASE CloseAdmission \/ WaitQuiescent \/ Tick \/ UNCHANGED vars
    <2>1. /\ UNCHANGED <<run, active, releasing, request, mine, befell>>
          /\ drain' = "quiescent" => drain = "quiescent" \/ active = {}
      BY <1>6, Zenon DEF CloseAdmission, WaitQuiescent, Tick, vars, gate
    <2>2. RunAsFound'
      BY <2>1, GateSettles, Zenon
    <2>3. \A s : Kept(s) => Kept(s)'
      BY <2>1, Zenon DEF Kept, RunOf
    <2>4. GateCounts'
      BY <2>1, <2>3, Zenon DEF GateFits, GateCounts, Exists, Crossed
    <2> QED BY <2>2, <2>4, Zenon DEF GateFits
  <1>7. CASE Restart
    <2>1. /\ UNCHANGED <<run, befell>>
          /\ active' = {} /\ releasing' = {} /\ mine' = {} /\ drain' = "serving"
          /\ \A q \in Requests : /\ request'[q].pc \in Over \cup {"new"}
                                 /\ request'[q].pc = "committed" => request'[q] = request[q]
      BY <1>7, Zenon DEF Restart, TypeOK, Handler, Over
    <2>2. ASSUME NEW q \in Requests PROVE Fits(q)'
      <3>1. CASE request'[q].pc = "committed"
        BY <2>1, <3>1, FitsStays, Zenon DEF GateFits, RunAsFound
      <3>2. CASE request'[q].pc # "committed"
        BY <2>1, <3>2, FitsAnyway, Zenon DEF Indifferent, PCs, Unmade, Over
      <3> QED BY <3>1, <3>2, Zenon
    <2>3. GateCounts'
      BY <2>1, Zenon DEF GateCounts
    <2> QED BY <2>2, <2>3, Zenon DEF GateFits, RunAsFound
  <1> QED
    BY <1>1, <1>2, <1>3, <1>4, <1>5, <1>6, <1>7, Zenon DEF Next

LEMMA GateInit == Init => NoOverlap /\ GateFits
  <1> SUFFICES ASSUME Init PROVE NoOverlap /\ GateFits
    OBVIOUS
  <1>1. \A q \in Requests : request[q].pc = "new"
    BY DEF Init, Uncalled
  <1>2. active = {} /\ releasing = {} /\ mine = {} /\ drain = "serving"
    BY DEF Init
  <1>3. NoOverlap
    BY <1>1, Zenon DEF NoOverlap, Starting
  <1>4. RunAsFound
    BY <1>1, Zenon DEF RunAsFound, Fits, Unmade
  <1>5. GateCounts
    BY <1>2, Zenon DEF GateCounts
  <1> QED BY <1>3, <1>4, <1>5, Zenon DEF GateFits

\* The gate's invariant speaks for its four promises.
LEMMA GateInvSound == GateInv => GateIsSound
  <1> SUFFICES ASSUME GateInv PROVE GateIsSound
    OBVIOUS
  <1> USE DEF GateInv, GateFits
  <1>1. CommittedLeaseIsDurable
    BY Zenon DEF RunAsFound, Fits, Crossed, CommittedLeaseIsDurable
  <1>2. \A r \in Runs : run[r].status \in {"none", "live", "ended"}
    BY DEF BrokerInv, TypeOK, RunRow, NoRun
  <1>3. GateCoversLiveRuns
    BY Zenon DEF GateCounts, GateCoversLiveRuns, Crossed
  <1>4. NoPhantomAdmission
    BY <1>2, Zenon DEF BrokerInv, TypeOK, GateCounts, NoPhantomAdmission, Kept, Exists, Crossed
  <1>5. QuiescentUnlessOverlapped
    BY Zenon DEF QuiescentUnlessOverlapped, AtRest, GateCounts, RunAsFound, Fits, Crossed
  <1> QED
    BY <1>1, <1>3, <1>4, <1>5, Zenon DEF GateIsSound

\* For any number of posts that overlap in any way, run by run and up to what
\* befell that run itself: a committed lease is a durable run, and the gate
\* counts the runs of this process that work and no other until it answers
\* quiescent (_run_commit, _create_run_core, DrainGate).
THEOREM GateIsSoundTheorem == Spec => []GateIsSound
  <1>1. Init => GateInv
    BY BrokerInit, GateInit, Zenon DEF GateInv
  <1>2. GateInv /\ [Next]_vars => GateInv'
    BY BrokerStep, NoOverlapStep, GateStep, Zenon DEF GateInv, BrokerInv
  <1> QED
    BY <1>1, <1>2, GateInvSound, PTL DEF Spec
=============================================================================
