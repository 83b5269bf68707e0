------------------------- MODULE CommitSingleFlight -------------------------
(***************************************************************************)
(* The per-run serialisation of commits and releases: _CommitSingleFlight  *)
(* of api/run_admission.py.  A dict holds one asyncio.Lock per identity    *)
(* while anybody uses it, and forgets it with its last user; a caller may  *)
(* be cancelled while it waits.                                            *)
(*                                                                         *)
(* The guard's two critical sections contain no await, so each is one      *)
(* step.  An asyncio.Lock is handed over in the order of arrival.          *)
(***************************************************************************)
EXTENDS Integers, Sequences, FiniteSets

CONSTANTS
    Callers,     \* the handlers that hold a stripe
    Identities,  \* the run ids
    MaxEntries   \* bound: entries made in one behaviour

ASSUME SingleFlightAssumption ==
    /\ IsFiniteSet(Callers)
    /\ MaxEntries \in Nat

VARIABLES
    entries,  \* _CommitSingleFlight._entries: the entry of an identity, 0 if none
    made,     \* how many entries were made
    users,    \* _CommitLockEntry.users
    queue,    \* the waiters of _CommitLockEntry.lock
    holding      \* what each caller of hold is doing, and with which entry

flightVars == <<entries, made, users, queue, holding>>

Entries == 1..MaxEntries
NoIdentity == "none"
Idle == [pc |-> "idle", identity |-> NoIdentity, entry |-> 0]
Call == [pc : {"waiting", "inside"}, identity : Identities, entry : Entries] \cup {Idle}

FlightTypeOK ==
    /\ entries \in [Identities -> 0..MaxEntries]
    /\ made \in 0..MaxEntries
    /\ users \in [Entries -> Nat]
    /\ queue \in [Entries -> Seq(Callers)]
    /\ holding \in [Callers -> Call]

FlightInit ==
    /\ entries = [i \in Identities |-> 0]
    /\ made = 0
    /\ users = [e \in Entries |-> 0]
    /\ queue = [e \in Entries |-> <<>>]
    /\ holding = [c \in Callers |-> Idle]

-----------------------------------------------------------------------------

\* hold, up to the acquisition of the entry's lock
Hold(c, i) ==
    LET e == IF entries[i] = 0 THEN made + 1 ELSE entries[i] IN
    /\ holding[c] = Idle
    /\ e <= MaxEntries
    /\ made' = IF entries[i] = 0 THEN made + 1 ELSE made
    /\ entries' = [entries EXCEPT ![i] = e]
    /\ users' = [users EXCEPT ![e] = @ + 1]
    /\ queue' = [queue EXCEPT ![e] = Append(@, c)]
    /\ holding' = [holding EXCEPT ![c] = [pc |-> "waiting", identity |-> i, entry |-> e]]

Locked(e) == \E d \in Callers : holding[d].pc = "inside" /\ holding[d].entry = e

\* Mutant of Acquire: the first waiter does not wait for the lock.
AcquireHeld(c) ==
    /\ holding[c].pc = "waiting"
    /\ queue[holding[c].entry] # <<>> /\ Head(queue[holding[c].entry]) = c
    /\ queue' = [queue EXCEPT ![holding[c].entry] = Tail(@)]
    /\ holding' = [holding EXCEPT ![c].pc = "inside"]
    /\ UNCHANGED <<entries, made, users>>

\* async with entry.lock: the first waiter takes the lock once it is free
Acquire(c) ==
    /\ holding[c].pc = "waiting"
    /\ queue[holding[c].entry] # <<>> /\ Head(queue[holding[c].entry]) = c
    /\ ~Locked(holding[c].entry)
    /\ queue' = [queue EXCEPT ![holding[c].entry] = Tail(@)]
    /\ holding' = [holding EXCEPT ![c].pc = "inside"]
    /\ UNCHANGED <<entries, made, users>>

\* Mutant of Forget: no entry is ever dropped.
ForgetNever(c) ==
    /\ users' = [users EXCEPT ![holding[c].entry] = @ - 1]
    /\ entries' = entries
    /\ holding' = [holding EXCEPT ![c] = Idle]

\* The finally of hold: the entry loses a user and, with its last one, its place.
Forget(c) ==
    /\ users' = [users EXCEPT ![holding[c].entry] = @ - 1]
    /\ entries' = IF users[holding[c].entry] = 1
                  THEN [entries EXCEPT ![holding[c].identity] = 0]
                  ELSE entries
    /\ holding' = [holding EXCEPT ![c] = Idle]

\* The body of the with statement ends, or raises.
Leave(c) ==
    /\ holding[c].pc = "inside"
    /\ Forget(c)
    /\ UNCHANGED <<made, queue>>

\* The caller's task is cancelled while it waits for the lock.
Cancel(c) ==
    /\ holding[c].pc = "waiting"
    /\ queue' = [queue EXCEPT ![holding[c].entry] = SelectSeq(@, LAMBDA d : d # c)]
    /\ Forget(c)
    /\ UNCHANGED made

FlightNext ==
    \E c \in Callers :
        \/ \E i \in Identities : Hold(c, i)
        \/ Acquire(c) \/ Leave(c) \/ Cancel(c)

FlightSpec == FlightInit /\ [][FlightNext]_flightVars

\* A handler inside the stripe ends, and the event loop runs the waiter it woke.
SingleFlightFairness == \A c \in Callers : WF_flightVars(Acquire(c)) /\ WF_flightVars(Leave(c))

FlightFairSpec == FlightSpec /\ SingleFlightFairness

-----------------------------------------------------------------------------

\* At most one caller is inside the stripe of an identity, although the lock of
\* the identity is dropped and made again between callers (_CommitSingleFlight).
MutualExclusion ==
    \A c, d \in Callers :
        /\ holding[c].pc = "inside" /\ holding[d].pc = "inside"
        /\ holding[c].identity = holding[d].identity
        => c = d

\* The dict has exactly the identities somebody holds or waits for: it neither
\* leaks an entry nor drops one that is in use (the finally of hold).
SelfCleaning ==
    \A i \in Identities :
        entries[i] # 0 <=> \E c \in Callers : holding[c] # Idle /\ holding[c].identity = i

\* Whoever waits gets in, or is cancelled: no hand-over is lost when a waiter
\* before it is cancelled or the entry is dropped.
EveryWaiterGetsIn ==
    \A c \in Callers : holding[c].pc = "waiting" ~> holding[c].pc # "waiting"

=============================================================================
