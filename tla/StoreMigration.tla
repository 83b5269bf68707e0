---------------------------- MODULE StoreMigration ----------------------------
(***************************************************************************)
(* The schema work of an application home (desktop/migration.py) and the   *)
(* check an armed gateway makes before it serves                             *)
(* (database/compatibility.py, database/checkpoint_schema.py).             *)
(*                                                                         *)
(* A home has a primary store, whose Alembic revision counts up to the     *)
(* packaged head, and a checkpoint store, whose identity marker is written *)
(* last.  `migrate` and `setup` are child processes the dashboard spawns:  *)
(* two may run at once and each may die between any two of its             *)
(* transactions.  An unarmed gateway migrates on boot (verb "boot"); an    *)
(* armed one validates and mutates nothing.  The generation that served    *)
(* before the update may still be there, idle or in a transaction.         *)
(*                                                                         *)
(* Abstracted: a revision is a number, HeadRevision + 1 one this package   *)
(* lacks; `sound` says that the write-authority columns, CHECKs, receipt   *)
(* index and rows are the required ones, `legible` that every checkpoint   *)
(* row decodes, `pending` that some row lacks the SDD fields.  Alembic     *)
(* runs each statement in autocommit on SQLite, so a death inside a        *)
(* revision leaves it half applied (`torn`).                               *)
(***************************************************************************)
EXTENDS Naturals, FiniteSets

CONSTANTS Migrators,   \* migrating processes
          HeadRevision, \* the packaged head revision
          MaxRuns,     \* bound: migrations asked for
          MaxKills     \* bound: migrations killed

ASSUME MigrationConstants == HeadRevision \in Nat \ {0} /\ MaxRuns \in Nat /\ MaxKills \in Nat

VARIABLES primary, ckpt, older, mig, bootArmed, spoiled, runs, kills

migrationVars == <<primary, ckpt, older, mig, bootArmed, spoiled, runs, kills>>

AnyRevision == HeadRevision + 2
MigrationVerbs == {"migrate", "setup", "boot"}
MigrationPhases == {"idle", "asked", "probe", "primary", "upgrading", "tables",
           "backfill", "mark", "stamp", "compact", "done"}
Mutating == {"primary", "upgrading", "tables", "backfill", "mark", "stamp", "compact"}

NoMigration == [at |-> "idle", verb |-> "migrate", expect |-> AnyRevision, compact |-> FALSE,
                base |-> 0, truncated |-> {}, result |-> "none",
                owes |-> FALSE]

(* A service that holds a configured port. *)
Listening == older # "gone" \/ bootArmed = "serving"

(***************************************************************************)
(* What an armed gateway requires of the two stores.                         *)
(***************************************************************************)
AtHead == primary.rev = HeadRevision
AuthorityHolds == primary.sound
PrimaryFits == AtHead /\ AuthorityHolds

StructureFits == ckpt.tables
IdentityFits == ckpt.marker = "current"

(* Mutant of RowsFit: rows that still wait for the backfill pass. *)
RowsFitUncounted == ckpt.legible

RowsFit == ckpt.legible /\ ~ckpt.pending
CheckpointFits == StructureFits /\ IdentityFits /\ RowsFit

(***************************************************************************)
(* Steps of a migration.  The ghost `owes` says that nothing stood in the   *)
(* way of this migration when it was asked for and nobody has moved since: *)
(* a step of one process withdraws it from every other one in flight.      *)
(***************************************************************************)
Disturbed(x) == IF mig[x].at \in {"idle", "done"} THEN mig[x]
                ELSE [mig[x] EXCEPT !.owes = FALSE]

Stepped(m, r) == mig' = [x \in Migrators |-> IF x = m THEN r ELSE Disturbed(x)]

Advance(m, at) == Stepped(m, [mig[m] EXCEPT !.at = at])

Report(m, result) == Stepped(m, [mig[m] EXCEPT !.at = "done", !.result = result])

(* Reasons, standing when the migration is asked for, for it to be refused. *)
Excused(v, e, c) ==
    \/ primary.rev > HeadRevision \/ primary.torn \/ (primary.rev > 0 /\ ~primary.sound)
    \/ ckpt.tables /\ ~ckpt.legible
    \/ ckpt.marker \in {"empty", "foreign"}
    \/ e # AnyRevision /\ e # primary.rev
    \/ v = "setup" /\ primary.rev # 0
    \/ c /\ Listening
    \/ older = "writing"

(* The dashboard or an operator asks; `expect` may be stale when it is read. *)
AskMigration(m) ==
    /\ mig[m].at = "idle" /\ runs < MaxRuns
    /\ \E v \in MigrationVerbs, e \in {AnyRevision, primary.rev}, c \in BOOLEAN :
          /\ v # "migrate" => (e = AnyRevision /\ ~c)
          /\ Stepped(m, [NoMigration EXCEPT !.at = "asked", !.verb = v, !.expect = e,
                                            !.compact = c, !.owes = ~Excused(v, e, c)])
    /\ runs' = runs + 1
    /\ UNCHANGED <<primary, ckpt, older, bootArmed, spoiled, kills>>

(* The assertions made before any store is touched; setup and migrate have *)
(* one mutation core.                                                      *)
Refuses(m) ==
    \/ mig[m].verb = "setup" /\ primary.rev # 0
    \/ mig[m].expect \notin {AnyRevision, primary.rev}
    \/ mig[m].compact /\ Listening

Precondition(m) ==
    /\ mig[m].at = "asked"
    /\ IF Refuses(m) THEN Report(m, "failed")
       ELSE Stepped(m, [mig[m] EXCEPT
                !.expect = AnyRevision,
                !.verb = IF @ = "boot" THEN @ ELSE "migrate",
                !.at = IF mig[m].verb = "boot" THEN "primary" ELSE "probe"])
    /\ UNCHANGED <<primary, ckpt, older, bootArmed, spoiled, runs, kills>>

(* BEGIN IMMEDIATE with no busy timeout on either store: only a writer is  *)
(* seen, an idle service holds no lock.                                    *)
EnsureUnlocked(m) ==
    /\ mig[m].at = "probe"
    /\ IF older = "writing" THEN Report(m, "failed") ELSE Advance(m, "primary")
    /\ UNCHANGED <<primary, ckpt, older, bootArmed, spoiled, runs, kills>>

(* Alembic refuses a revision outside the graph, env.py a store without    *)
(* its write authority; otherwise the revisions to apply are now fixed.    *)
PlanUpgrade(m) ==
    /\ mig[m].at = "primary"
    /\ IF primary.rev > HeadRevision \/ (primary.rev > 0 /\ ~primary.sound)
       THEN Report(m, "failed")
       ELSE Stepped(m, [mig[m] EXCEPT !.at = "upgrading", !.base = primary.rev])
    /\ UNCHANGED <<primary, ckpt, older, bootArmed, spoiled, runs, kills>>

Upgraded(m) == mig[m].base = HeadRevision

(* One revision: applied once, it fails when applied again or over half of *)
(* itself.                                                                 *)
ApplyRevision(m) ==
    /\ mig[m].at = "upgrading" /\ older # "writing"
    /\ IF Upgraded(m)
       THEN Stepped(m, [mig[m] EXCEPT !.at = "tables", !.base = 0]) /\ UNCHANGED primary
       ELSE IF primary.rev = mig[m].base /\ ~primary.torn
       THEN /\ primary' = [primary EXCEPT !.rev = @ + 1,
                                          !.sound = IF primary.rev = 0 THEN TRUE ELSE @]
            /\ Stepped(m, [mig[m] EXCEPT !.base = @ + 1])
       ELSE Report(m, "failed") /\ UNCHANGED primary
    /\ UNCHANGED <<ckpt, older, bootArmed, spoiled, runs, kills>>

(* CREATE TABLE IF NOT EXISTS; an unarmed boot goes no further. *)
SetupCheckpointer(m) ==
    /\ mig[m].at = "tables" /\ older # "writing"
    /\ ckpt' = [ckpt EXCEPT !.tables = TRUE]
    /\ IF mig[m].verb = "boot" THEN Report(m, "succeeded") ELSE Advance(m, "backfill")
    /\ UNCHANGED <<primary, older, bootArmed, spoiled, runs, kills>>

(* One transaction over every row; a row that does not decode undoes it. *)
BackfillSdd(m) ==
    /\ mig[m].at = "backfill" /\ older # "writing"
    /\ IF ckpt.legible THEN ckpt' = [ckpt EXCEPT !.pending = FALSE] /\ Advance(m, "mark")
       ELSE Report(m, "failed") /\ UNCHANGED ckpt
    /\ UNCHANGED <<primary, older, bootArmed, spoiled, runs, kills>>

Finish(m) == IF mig[m].compact THEN Advance(m, "compact") ELSE Report(m, "succeeded")

(* An existing marker is validated, never overwritten.  The driver commits *)
(* the CREATE of the marker table by itself; its row is a later commit.    *)
CreateMarker(m) ==
    /\ mig[m].at = "mark" /\ older # "writing"
    /\ CASE ckpt.marker = "none" ->
                ckpt' = [ckpt EXCEPT !.marker = "empty"] /\ Advance(m, "stamp")
         [] ckpt.marker = "current" -> Finish(m) /\ UNCHANGED ckpt
         [] OTHER -> Report(m, "failed") /\ UNCHANGED ckpt
    /\ UNCHANGED <<primary, older, bootArmed, spoiled, runs, kills>>

StampMarker(m) ==
    /\ mig[m].at = "stamp" /\ older # "writing"
    /\ IF ckpt.marker = "empty" THEN ckpt' = [ckpt EXCEPT !.marker = "current"] /\ Finish(m)
       ELSE Report(m, "failed") /\ UNCHANGED ckpt
    /\ UNCHANGED <<primary, older, bootArmed, spoiled, runs, kills>>

(* The log of the primary store, then that of the checkpoint store; an     *)
(* open reader of a live service blocks the truncation, and VACUUM is      *)
(* skipped.                                                                *)
CompactStore(m) ==
    /\ mig[m].at = "compact" /\ older # "writing"
    /\ \/ LET done == mig[m].truncated \union
                      {IF "primary" \in mig[m].truncated THEN "ckpt" ELSE "primary"}
          IN Stepped(m, [mig[m] EXCEPT !.truncated = done,
                           !.at = IF Cardinality(done) = 2 THEN "done" ELSE @,
                           !.result = IF Cardinality(done) = 2 THEN "succeeded" ELSE @])
       \/ Listening /\ Report(m, "failed")
    /\ UNCHANGED <<primary, ckpt, older, bootArmed, spoiled, runs, kills>>

(* The busy timeout passes on a store another connection is writing.  The  *)
(* rollback does not undo a marker table already created.                  *)
StageTimesOut(m) ==
    /\ mig[m].at \in Mutating \ {"primary"} /\ older = "writing"
    /\ Report(m, "failed")
    /\ UNCHANGED <<primary, ckpt, older, bootArmed, spoiled, runs, kills>>

(* The process is killed between two commits, possibly inside a revision. *)
KillMigration(m) ==
    /\ mig[m].at \notin {"idle", "done"} /\ kills < MaxKills
    /\ kills' = kills + 1
    /\ \/ UNCHANGED primary
       \/ /\ mig[m].at = "upgrading" /\ ~Upgraded(m) /\ primary.rev = mig[m].base
          /\ primary' = [primary EXCEPT !.torn = TRUE]
    /\ Stepped(m, NoMigration)
    /\ UNCHANGED <<ckpt, older, bootArmed, spoiled, runs>>

ReadReport(m) ==
    /\ mig[m].at = "done"
    /\ mig' = [mig EXCEPT ![m] = NoMigration]
    /\ UNCHANGED <<primary, ckpt, older, bootArmed, spoiled, runs, kills>>

(***************************************************************************)
(* The armed gateway: both stores are validated, in this order, and          *)
(* nothing is changed; it may stop at any time.                            *)
(***************************************************************************)
ValidatePrimary ==
    /\ bootArmed = "down" /\ PrimaryFits
    /\ bootArmed' = "validated"
    /\ UNCHANGED <<primary, ckpt, older, mig, spoiled, runs, kills>>

ValidateCheckpoint ==
    /\ bootArmed = "validated"
    /\ bootArmed' = IF CheckpointFits THEN "serving" ELSE "down"
    /\ mig' = [x \in Migrators |-> Disturbed(x)]
    /\ UNCHANGED <<primary, ckpt, older, spoiled, runs, kills>>

StopArmed ==
    /\ bootArmed = "serving"
    /\ bootArmed' = "down"
    /\ UNCHANGED <<primary, ckpt, older, mig, spoiled, runs, kills>>

(***************************************************************************)
(* The generation before the update.  A row it writes lacks the new        *)
(* fields; `spoiled` records one written under a migration that had passed *)
(* its lock probe, or under the new gateway.  Bound: one transaction of it *)
(* commits, and is the last thing it does.                                 *)
(***************************************************************************)
OlderMoves(to) ==
    /\ older' = to
    /\ mig' = [x \in Migrators |-> Disturbed(x)]
    /\ UNCHANGED <<primary, bootArmed, runs, kills>>

OlderBegins == older = "idle" /\ ckpt.tables /\ OlderMoves("writing") /\ UNCHANGED <<ckpt, spoiled>>

OlderCommits ==
    /\ older = "writing" /\ OlderMoves("gone")
    /\ ckpt' = [ckpt EXCEPT !.pending = TRUE]
    /\ spoiled' = (spoiled \/ bootArmed # "down"
                           \/ \E m \in Migrators : mig[m].at \in Mutating \union {"done"})

OlderStops == older = "idle" /\ OlderMoves("gone") /\ UNCHANGED <<ckpt, spoiled>>

(* What can be wrong with a home before anyone migrates it. *)
Anomalies ==
    {a \in {"revision", "authority", "identity", "row"} :
        \/ a = "revision" /\ primary.rev > HeadRevision
        \/ a = "authority" /\ primary.rev > 0 /\ ~primary.sound
        \/ a = "identity" /\ ckpt.marker = "foreign"
        \/ a = "row" /\ ~ckpt.legible}

MigrationInit ==
    /\ primary \in [rev : 0..(HeadRevision + 1), sound : BOOLEAN, torn : {FALSE}]
    /\ ckpt \in [tables : BOOLEAN, marker : {"none", "current", "foreign"},
                 pending : BOOLEAN, legible : BOOLEAN]
    /\ ~ckpt.tables => ckpt.marker = "none" /\ ~ckpt.pending /\ ckpt.legible
    /\ primary.rev = 0 => ~primary.sound /\ ~ckpt.tables
    /\ Cardinality(Anomalies) <= 1
    /\ older \in (IF primary.rev \in 1..(HeadRevision - 1) THEN {"gone", "idle"} ELSE {"gone"})
    /\ mig = [m \in Migrators |-> NoMigration]
    /\ bootArmed = "down" /\ spoiled = FALSE /\ runs = 0 /\ kills = 0

MigrationStep(m) ==
    \/ Precondition(m) \/ EnsureUnlocked(m) \/ PlanUpgrade(m) \/ ApplyRevision(m)
    \/ SetupCheckpointer(m) \/ BackfillSdd(m) \/ CreateMarker(m) \/ StampMarker(m)
    \/ CompactStore(m) \/ StageTimesOut(m) \/ ReadReport(m)

MigrationNext ==
    \/ \E m \in Migrators : AskMigration(m) \/ MigrationStep(m) \/ KillMigration(m)
    \/ ValidatePrimary \/ ValidateCheckpoint \/ StopArmed
    \/ OlderBegins \/ OlderCommits \/ OlderStops

MigrationFairness == \A m \in Migrators : WF_migrationVars(MigrationStep(m))

MigrationSpec == MigrationInit /\ [][MigrationNext]_migrationVars /\ MigrationFairness

-----------------------------------------------------------------------------
(* Every field keeps its shape, and no migration is beyond the head. *)
MigrationTypeOK ==
    /\ primary \in [rev : 0..(HeadRevision + 1), sound : BOOLEAN, torn : BOOLEAN]
    /\ ckpt \in [tables : BOOLEAN, marker : {"none", "empty", "current", "foreign"},
                 pending : BOOLEAN, legible : BOOLEAN]
    /\ older \in {"gone", "idle", "writing"} /\ bootArmed \in {"down", "validated", "serving"}
    /\ \A m \in Migrators :
          /\ mig[m].at \in MigrationPhases /\ mig[m].base \in 0..HeadRevision
          /\ mig[m].truncated # {} => mig[m].compact
    /\ runs \in 0..MaxRuns /\ kills \in 0..MaxKills

(* A gateway armed with a capsule serves only over stores at the packaged    *)
(* head with sound write authority, the current checkpoint identity and no *)
(* row still to backfill, whatever migrations run, die or race beside its  *)
(* boot - unless an older generation was left running (spoiled).           *)
ServingIsCompatible ==
    bootArmed = "serving" /\ ~spoiled =>
        /\ primary.rev = HeadRevision /\ primary.sound /\ ~primary.torn
        /\ ckpt.tables /\ ckpt.marker = "current" /\ ckpt.legible /\ ~ckpt.pending

(* A migration or setup that reports success has brought both stores all   *)
(* the way, and a compacting one has truncated both logs.                  *)
SucceededIsComplete ==
    \A m \in Migrators :
        mig[m].result = "succeeded" /\ mig[m].verb # "boot" /\ ~spoiled =>
            /\ primary.rev = HeadRevision /\ primary.sound /\ ~primary.torn
            /\ ckpt.tables /\ ckpt.marker = "current" /\ ckpt.legible /\ ~ckpt.pending
            /\ mig[m].compact => mig[m].truncated = {"primary", "ckpt"}

(* A migration nobody disturbed fails only for a reason that stood when it *)
(* was asked for: run again over what an earlier one left behind, or over  *)
(* stores already at the head, it completes.                               *)
QuietFailureIsExplained ==
    \A m \in Migrators :
        mig[m].result = "failed" => ~mig[m].owes

(* The checkpoint identity is stamped last: at the moment it becomes       *)
(* current the tables exist and no row is left to backfill.                *)
IdentityIsLast ==
    ckpt.marker # "current" /\ ckpt'.marker = "current" =>
        ckpt.tables /\ (ckpt.pending => spoiled)

(* A store of another generation is never relabelled, and under a primary  *)
(* store of another generation no migration touches either store.          *)
ForeignIsUntouched ==
    /\ ckpt.marker = "foreign" => ckpt'.marker = "foreign"
    /\ primary.rev > HeadRevision =>
          primary' = primary /\ (ckpt' = ckpt \/ older = "writing")

(* Every migration asked for is reported or dies: a store kept locked by   *)
(* another process costs it the busy timeout and no more.                  *)
MigrationsEnd ==
    \A m \in Migrators : (mig[m].at # "idle") ~> (mig[m].at = "idle")
=============================================================================
