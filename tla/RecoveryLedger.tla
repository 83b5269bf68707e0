--------------------------- MODULE RecoveryLedger ---------------------------
(***************************************************************************)
(* The durable retry record of one accepted action                         *)
(* (database/recovery_attempt_repository.py, control/recovery.py), the     *)
(* live dispatcher that files its failures there (control/action_lease.py) *)
(* and the recovery passes that claim, redeliver, reschedule and close it  *)
(* (control/direct_control_recovery.py). Each action below is one          *)
(* transaction.                                                            *)
(***************************************************************************)
EXTENDS Integers, FiniteSets

CONSTANTS
    Passes,        \* recovery passes that may overlap
    ActionDeadline,\* recovery_deadline_at
    ActionLease,   \* CONTROL_ACTION_LEASE_TTL
    ClaimLease,    \* RECOVERY_CLAIM_TTL
    MaxClock,      \* bound on the clock, past the deadline
    MaxDeliveries, \* bound on the deliveries
    MaxPassDeaths  \* bound on the passes that die

ASSUME LedgerAssumption ==
    /\ MaxClock \in Nat /\ MaxDeliveries \in Nat /\ MaxPassDeaths \in Nat
    /\ ActionDeadline \in 1..MaxClock /\ ActionLease \in Nat \ {0} /\ ClaimLease \in Nat \ {0}
    /\ Passes \cap {"live", "nobody"} = {}

VARIABLES
    now,
    attemptRow,   \* <<>> or << [count, next, holder, until, settled] >>
    applied,      \* the action: "no", "applied" or "rejected"
    lease,        \* the action's lease: [holder, until]
    owned,        \* the run is active and names this action its writer
    moved,        \* the run's status is no longer the one the action asked for
    sender,       \* per sender: "idle", "claimed", "sending"
    saw,          \* per pass: the attempt count it claimed, and when it took the lease
    deliveries,
    reopened,     \* a failure was filed on a settled record: the code raises
    passDeaths

ledgerVars == <<now, attemptRow, applied, lease, owned, moved, sender, saw, deliveries, reopened, passDeaths>>
Senders == Passes \cup {"live"}
Free == [holder |-> "nobody", until |-> 0]
Earlier(a, b) == IF a <= b THEN a ELSE b
Later(a, b) == IF a >= b THEN a ELSE b
HasRow == attemptRow # <<>>
Row == attemptRow[1]

AttemptRows ==
    [count : Nat \ {0}, next : 0..ActionDeadline, holder : Passes \cup {"nobody"},
     until : 0..(MaxClock + ClaimLease), settled : BOOLEAN]

LedgerTypeOK ==
    /\ now \in 0..MaxClock
    /\ HasRow => Row \in AttemptRows /\ attemptRow = <<Row>>
    /\ applied \in {"no", "applied", "rejected"}
    /\ lease \in [holder : Senders \cup {"nobody"}, until : 0..(MaxClock + ActionLease)]
    /\ owned \in BOOLEAN /\ moved \in BOOLEAN /\ reopened \in BOOLEAN
    /\ sender \in [Senders -> {"idle", "claimed", "sending"}]
    /\ saw \in [Passes -> [count : Nat, started : 0..MaxClock]]
    /\ deliveries \in 0..MaxDeliveries /\ passDeaths \in 0..MaxPassDeaths

\* finalize_control_action_acceptance: accepted under the live dispatcher's lease
LedgerInit ==
    /\ now = 0 /\ attemptRow = <<>> /\ applied = "no"
    /\ lease = [holder |-> "live", until |-> ActionLease]
    /\ owned = TRUE /\ moved = FALSE /\ reopened = FALSE
    /\ sender = [s \in Senders |-> IF s = "live" THEN "sending" ELSE "idle"]
    /\ saw = [p \in Passes |-> [count |-> 0, started |-> 0]]
    /\ deliveries = 0 /\ passDeaths = 0

Pending == owned /\ applied = "no"
-----------------------------------------------------------------------------
\* _due_unclaimed
Due(r) == ~r.settled /\ r.next <= now /\ ActionDeadline > now /\ (r.holder = "nobody" \/ r.until <= now)

NewRow(next) == [count |-> 1, next |-> next, holder |-> "nobody", until |-> 0, settled |-> FALSE]

\* schedule_recovery_attempt: create the record, or advance it and clear its claim
Filed(next) ==
    IF ~HasRow THEN <<NewRow(next)>>
    ELSE <<[Row EXCEPT !.count = @ + 1, !.next = next, !.holder = "nobody", !.until = 0]>>

\* The live dispatch reaches the worker
LiveDelivers ==
    /\ sender["live"] = "sending" /\ deliveries < MaxDeliveries
    /\ sender' = [sender EXCEPT !["live"] = "idle"] /\ deliveries' = deliveries + 1
    /\ UNCHANGED <<now, attemptRow, applied, lease, owned, moved, saw, reopened, passDeaths>>

\* _failure_action, _failure_thread_authority: the action is pending and the lease still held
MayFile == Pending /\ ActionDeadline > now /\ lease.holder = "live"

\* record_dispatch_failure: only the writer that still holds the action's lease files it,
\* and only a proven non-delivery gives the lease back
LiveFails(definite) ==
    /\ sender["live"] = "sending"
    /\ sender' = [sender EXCEPT !["live"] = "idle"]
    /\ IF MayFile
       THEN /\ lease' = IF definite /\ lease.holder = "live" THEN Free ELSE lease
            /\ IF HasRow /\ Row.settled THEN reopened' = TRUE /\ UNCHANGED attemptRow
               ELSE attemptRow' = Filed(Earlier(now + 1, ActionDeadline)) /\ UNCHANGED reopened
       ELSE UNCHANGED <<lease, attemptRow, reopened>>
    /\ \/ deliveries' = deliveries
       \/ ~definite /\ deliveries < MaxDeliveries /\ deliveries' = deliveries + 1
    /\ UNCHANGED <<now, applied, owned, moved, saw, passDeaths>>

-----------------------------------------------------------------------------
\* _expire_overdue_actions with settle_expired_recovery_attempt
Expire ==
    /\ ActionDeadline <= now /\ Pending
    /\ attemptRow' = IF ~HasRow THEN <<[NewRow(ActionDeadline) EXCEPT !.settled = TRUE]>>
                     ELSE <<[Row EXCEPT !.holder = "nobody", !.until = 0, !.settled = TRUE]>>
    /\ applied' = "rejected" /\ moved' = TRUE
    /\ UNCHANGED <<now, lease, owned, sender, saw, deliveries, reopened, passDeaths>>

\* unscheduled_recovery_actions
Unscheduled == ~HasRow /\ Pending /\ ActionDeadline > now

\* seed_recovery_attempts, for pending work without a record: first when its lease is free
Seeded ==
    IF Unscheduled
    THEN <<NewRow(Earlier(IF lease.holder = "nobody" THEN now ELSE Later(now, lease.until), ActionDeadline))>>
    ELSE attemptRow

\* claim_recovery_attempt
Claimed(p, r) == [r EXCEPT !.holder = p, !.until = now + ClaimLease]

\* The transaction that opens a pass: seed, then claim what is due
OpenPass(p) ==
    LET rows == Seeded
        due == rows # <<>> /\ Due(rows[1]) IN
    /\ sender[p] = "idle"
    /\ rows # attemptRow \/ due
    /\ attemptRow' = IF due THEN <<Claimed(p, rows[1])>> ELSE rows
    /\ sender' = IF due THEN [sender EXCEPT ![p] = "claimed"] ELSE sender
    /\ saw' = IF due THEN [saw EXCEPT ![p].count = rows[1].count] ELSE saw
    /\ UNCHANGED <<now, applied, lease, owned, moved, deliveries, reopened, passDeaths>>

\* Mutant of Updated: the record is written whoever holds its claim by now.
UpdatedUnheld(p, r) == <<[r EXCEPT !.holder = "nobody", !.until = 0]>>

\* _update_claimed: nothing is written unless the pass still holds the unsettled record
Updated(p, r) ==
    IF Row.holder = p /\ ~Row.settled THEN <<[r EXCEPT !.holder = "nobody", !.until = 0]>> ELSE attemptRow

ReleasedRow(p) == Updated(p, Row)
Rescheduled(p, next) == Updated(p, [Row EXCEPT !.count = @ + 1, !.next = Earlier(next, ActionDeadline)])
SettledAction(p) == Updated(p, [Row EXCEPT !.settled = TRUE])
PassLeaves(p) == sender' = [sender EXCEPT ![p] = "idle"]

\* _redrive_one_claim: applied already, out of time, or no longer the writer's to send
RedriveCloses(p) ==
    /\ sender[p] = "claimed" /\ PassLeaves(p)
    /\ attemptRow' = IF applied # "no" \/ (now < ActionDeadline /\ ~owned) THEN SettledAction(p) ELSE ReleasedRow(p)
    /\ applied # "no" \/ now >= ActionDeadline \/ (~owned /\ (lease.holder = "nobody" \/ lease.until <= now))
    /\ UNCHANGED <<now, applied, lease, owned, moved, saw, deliveries, reopened, passDeaths>>

\* ... the action's lease is still owned: look again when it is free
RedriveDefers(p) ==
    /\ sender[p] = "claimed" /\ applied = "no" /\ now < ActionDeadline
    /\ lease.holder # "nobody" /\ lease.until > now
    /\ PassLeaves(p) /\ attemptRow' = Rescheduled(p, lease.until)
    /\ UNCHANGED <<now, applied, lease, owned, moved, saw, deliveries, reopened, passDeaths>>

LeaseFree == lease.holder = "nobody" \/ lease.until <= now
CanSend(p) == sender[p] = "claimed" /\ Pending /\ now < ActionDeadline /\ LeaseFree

\* ... the lease is taken and the dispatch rebuilt and sent
RedriveSends(p) ==
    /\ CanSend(p) /\ ~moved
    /\ lease' = [holder |-> p, until |-> now + ActionLease]
    /\ saw' = [saw EXCEPT ![p].started = now]
    /\ sender' = [sender EXCEPT ![p] = "sending"]
    /\ UNCHANGED <<now, attemptRow, applied, owned, moved, deliveries, reopened, passDeaths>>

\* ... the run's status has moved on (_restore_requested_state): the record is closed
RedriveConflicts(p) ==
    /\ CanSend(p) /\ moved
    /\ lease' = [holder |-> p, until |-> now + ActionLease]
    /\ PassLeaves(p) /\ attemptRow' = SettledAction(p)
    /\ UNCHANGED <<now, applied, owned, moved, saw, deliveries, reopened, passDeaths>>

\* _settle_permanent_refusal: only for an action still pending under this writer
RefusedRow(p) ==
    /\ PassLeaves(p)
    /\ IF Pending THEN applied' = "rejected" /\ moved' = TRUE /\ attemptRow' = SettledAction(p)
       ELSE UNCHANGED <<applied, moved, attemptRow>>

\* ... the accepted input cannot be rebuilt (_reconstruct_dispatch)
RedriveRefuses(p) ==
    /\ CanSend(p) /\ RefusedRow(p)
    /\ UNCHANGED <<now, lease, owned, saw, deliveries, reopened, passDeaths>>

\* _dispatch_prepared_claim: delivered, and looked at again once the lease would be free
PassDelivers(p) ==
    /\ sender[p] = "sending" /\ deliveries < MaxDeliveries
    /\ deliveries' = deliveries + 1 /\ PassLeaves(p)
    /\ attemptRow' = IF now >= ActionDeadline THEN ReleasedRow(p)
                     ELSE Rescheduled(p, Later(now, saw[p].started + ActionLease))
    /\ UNCHANGED <<now, applied, lease, owned, moved, saw, reopened, passDeaths>>

\* _retry_delay: one tick, then two
RetryDelay(n) == IF n < 2 THEN 1 ELSE 2

\* _settle_delivery_failure: unless it proves non-delivery, the failure may be only the
\* answer's, of a dispatch the worker took
PassFails(p, definite) ==
    /\ sender[p] = "sending" /\ PassLeaves(p)
    /\ lease' = IF definite /\ lease.holder = p THEN Free ELSE lease
    /\ attemptRow' = IF now >= ActionDeadline THEN ReleasedRow(p)
                     ELSE Rescheduled(p, now + RetryDelay(saw[p].count))
    /\ \/ deliveries' = deliveries
       \/ ~definite /\ deliveries < MaxDeliveries /\ deliveries' = deliveries + 1
    /\ UNCHANGED <<now, applied, owned, moved, saw, reopened, passDeaths>>

\* ... an incompatible state is refused for good
PassIncompatible(p) ==
    /\ sender[p] = "sending" /\ RefusedRow(p)
    /\ UNCHANGED <<now, lease, owned, saw, deliveries, reopened, passDeaths>>

\* The gateway dies in the middle of a pass
PassDies(p) ==
    /\ sender[p] # "idle" /\ passDeaths < MaxPassDeaths
    /\ passDeaths' = passDeaths + 1 /\ PassLeaves(p)
    /\ UNCHANGED <<now, attemptRow, applied, lease, owned, moved, saw, deliveries, reopened>>

-----------------------------------------------------------------------------
\* The worker's application receipt for a delivery it took
ReceiptArrives ==
    /\ deliveries > 0 /\ Pending /\ applied' = "applied"
    /\ UNCHANGED <<now, attemptRow, lease, owned, moved, sender, saw, deliveries, reopened, passDeaths>>

\* Another writer takes the run, or it ends; or its status moves under the same writer
Superseded ==
    /\ owned /\ owned' = FALSE
    /\ UNCHANGED <<now, attemptRow, applied, lease, moved, sender, saw, deliveries, reopened, passDeaths>>
StatusMoves ==
    /\ ~moved /\ moved' = TRUE
    /\ UNCHANGED <<now, attemptRow, applied, lease, owned, sender, saw, deliveries, reopened, passDeaths>>

LedgerTick ==
    /\ now < MaxClock /\ now' = now + 1
    /\ UNCHANGED <<attemptRow, applied, lease, owned, moved, sender, saw, deliveries, reopened, passDeaths>>

PassStep(p) ==
    \/ RedriveCloses(p) \/ RedriveDefers(p) \/ RedriveSends(p) \/ RedriveConflicts(p) \/ RedriveRefuses(p)
    \/ PassDelivers(p) \/ PassIncompatible(p) \/ \E b \in BOOLEAN : PassFails(p, b)

LedgerNext ==
    \/ LiveDelivers \/ \E b \in BOOLEAN : LiveFails(b)
    \/ Expire \/ ReceiptArrives \/ Superseded \/ StatusMoves \/ LedgerTick
    \/ \E p \in Passes : OpenPass(p) \/ PassStep(p) \/ PassDies(p)

LedgerFairness ==
    /\ WF_ledgerVars(LedgerTick) /\ WF_ledgerVars(Expire)
    /\ \A p \in Passes : WF_ledgerVars(OpenPass(p)) /\ WF_ledgerVars(PassStep(p))

LedgerSpec == LedgerInit /\ [][LedgerNext]_ledgerVars /\ LedgerFairness
-----------------------------------------------------------------------------
\* A retry record is closed for a cause: while the action is still the run's to apply, its
\* status still the one asked for and its deadline ahead, the record stays open.
SettledForCause ==
    attemptRow # <<>> /\ attemptRow[1].settled /\ owned /\ applied = "no" => moved \/ now >= ActionDeadline

\* A failure is never filed on a closed record: "settled recovery attempt cannot be reopened"
\* is raised for nobody, however late the live dispatcher reports.
NeverReopened == ~reopened

\* One sender at a time: whoever is sending inside the lease it took still holds it, unless
\* nobody does, so two senders never deliver under leases that both run.
OneSenderPerLease ==
    \A p \in Passes : sender[p] = "sending" /\ now < saw[p].started + ActionLease /\ applied = "no" =>
        lease.holder = p

\* A verdict stands: an applied action is never rejected later, nor the other way round.
VerdictStands == applied # "no" => applied' = applied

\* A pass that lost its claim writes nothing: only its holder or the deadline changes a
\* claimed record.
ClaimIsExclusive ==
    \A p \in Passes : attemptRow # <<>> /\ attemptRow[1].holder # p /\ sender[p] # "idle"
       /\ sender'[p] = "idle" => attemptRow' = attemptRow

\* No accepted action is forgotten: it is applied, rejected or superseded in the end.
AcceptedIsSettled ==
    <>(applied # "no" \/ ~owned)
=============================================================================
