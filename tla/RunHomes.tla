----------------------------- MODULE RunHomes -----------------------------
(***************************************************************************)
(* The private home a provider process gets for one turn: created beside   *)
(* the other homes while abandoned ones are swept, seeded with a copy of   *)
(* the operator's login, and taken down when the process is gone.  Codex   *)
(* rotates the login it was given, so a changed one is returned to the     *)
(* home it came from, under a lock every process sharing it takes.         *)
(*                                                                         *)
(* A login is a serial (its content), the refresh stamp it carries (0 when *)
(* it carries none) and whether it is a JSON object at all.  The age of a  *)
(* home stands for the modification time the sweep reads.                  *)
(***************************************************************************)
EXTENDS Naturals

CONSTANTS
    HomeWorkers,   \* worker processes sharing one operator login
    HomeTurns,     \* turns that need a home
    WorkerOf,      \* the worker process each turn runs in
    OrphanAge,     \* ORPHAN_HOME_MIN_AGE_SECONDS
    MaxLogins,     \* bound: logins issued
    MaxFaults      \* bound: failing steps and crashes

ASSUME HomesAssumption ==
    /\ WorkerOf \in [HomeTurns -> HomeWorkers]
    /\ OrphanAge \in Nat \ {0}
    /\ MaxLogins \in Nat \ {0}
    /\ MaxFaults \in Nat

VARIABLES
    source,    \* the login in the operator's home
    home,      \* per turn: its home and how far its owner is with it
    keeper,    \* the turn holding the write-back lock, or Nobody
    issued,    \* logins issued so far
    returned,  \* the newest stamp returned since a login without one was
    homeFaults     \* failures and crashes so far

homeVars == <<source, home, keeper, issued, returned, homeFaults>>

Nobody == "nobody"

Login(serial, stamp, sound) == [serial |-> serial, stamp |-> stamp, sound |-> sound]

NoLogin == Login(0, 0, FALSE)

NoHome == [at |-> "none", exists |-> FALSE, login |-> NoLogin, seed |-> NoLogin,
           seeded |-> FALSE, age |-> 0, lost |-> FALSE]

HomesInit ==
    /\ source = Login(1, 1, TRUE)
    /\ home = [t \in HomeTurns |-> NoHome]
    /\ keeper = Nobody
    /\ issued = 1
    /\ returned = 0
    /\ homeFaults = 0

At(t, at) == home[t].at = at

SetHome(t, h) == home' = [home EXCEPT ![t] = h]

Faulty == homeFaults < MaxFaults /\ homeFaults' = homeFaults + 1

-----------------------------------------------------------------------------
\* Building: a fresh directory, the sweep of old ones, then the seed.

Collectable(t, by) == home[t].exists /\ t # by /\ home[t].age >= OrphanAge

Swept(by) == [t \in HomeTurns |-> IF Collectable(t, by) THEN [home[t] EXCEPT !.exists = FALSE] ELSE home[t]]

CreateHome(t) ==
    /\ At(t, "none")
    /\ home' = [Swept(t) EXCEPT ![t] = [NoHome EXCEPT !.at = "building", !.exists = TRUE]]
    /\ UNCHANGED <<source, keeper, issued, returned, homeFaults>>

\* The copy of the login, remembered with what it was and where it came from.
SeedHome(t) ==
    /\ At(t, "building")
    /\ home[t].exists
    /\ SetHome(t, [home[t] EXCEPT !.at = "live", !.login = source, !.seed = source, !.seeded = TRUE])
    /\ UNCHANGED <<source, keeper, issued, returned, homeFaults>>

\* Hardening, seeding or rendering fails: the home is cleaned up on the way out.
BuildFails(t) ==
    /\ At(t, "building")
    /\ Faulty
    /\ SetHome(t, [home[t] EXCEPT !.at = "removing"])
    /\ UNCHANGED <<source, keeper, issued, returned>>

-----------------------------------------------------------------------------
\* While the turn lives Codex may rotate its login, or leave something that is
\* no login at all.

RotateLogin(t) ==
    /\ At(t, "live")
    /\ home[t].seeded /\ home[t].exists
    /\ issued < MaxLogins
    /\ issued' = issued + 1
    /\ \E stamp \in {0, issued + 1}, sound \in BOOLEAN :
          SetHome(t, [home[t] EXCEPT !.login = Login(issued + 1, stamp, sound)])
    /\ UNCHANGED <<source, keeper, returned, homeFaults>>

\* The operator signs in again, with no regard for the lock.
OperatorSignsIn ==
    /\ issued < MaxLogins
    /\ issued' = issued + 1
    /\ source' = Login(issued + 1, issued + 1, TRUE)
    /\ UNCHANGED <<home, keeper, returned, homeFaults>>

HomesAge ==
    /\ \E t \in HomeTurns : home[t].exists /\ home[t].age < OrphanAge
    /\ home' = [t \in HomeTurns |->
                  IF home[t].exists /\ home[t].age < OrphanAge
                  THEN [home[t] EXCEPT !.age = @ + 1] ELSE home[t]]
    /\ UNCHANGED <<source, keeper, issued, returned, homeFaults>>

-----------------------------------------------------------------------------
\* Cleanup, once the provider process is reaped: return what changed, forget the
\* seed, remove the home.

RefreshedLogin(t) ==
    /\ home[t].seeded
    /\ home[t].exists
    /\ home[t].login # home[t].seed
    /\ home[t].login.sound

BeginCleanup(t) ==
    /\ At(t, "live")
    /\ IF RefreshedLogin(t)
       THEN SetHome(t, [home[t] EXCEPT !.at = "returning"])
       ELSE SetHome(t, [home[t] EXCEPT !.at = "removing", !.seeded = FALSE])
    /\ UNCHANGED <<source, keeper, issued, returned, homeFaults>>

MayReturn == keeper = Nobody

TakeCredentialLock(t) ==
    /\ At(t, "returning")
    /\ MayReturn
    /\ keeper' = t
    /\ SetHome(t, [home[t] EXCEPT !.at = "comparing"])
    /\ UNCHANGED <<source, issued, returned, homeFaults>>

\* The lock was held for the whole wait, or the file cannot be written: what the
\* turn holds is lost, and said so.
ReturnFails(t) ==
    /\ home[t].at \in {"returning", "comparing", "publishing"}
    /\ Faulty
    /\ keeper' = IF keeper = t THEN Nobody ELSE keeper
    /\ SetHome(t, [home[t] EXCEPT !.at = "removing", !.seeded = FALSE, !.lost = TRUE])
    /\ UNCHANGED <<source, issued, returned>>

\* Mutant of Overtook: the login is the turn's to return, whatever happened to it since.
OvertookNever(seed, current, held) == FALSE

Overtook(seed, current, held) ==
    /\ current # seed
    /\ current.stamp # 0
    /\ held.stamp = 0 \/ current.stamp > held.stamp

CompareSource(t) ==
    /\ At(t, "comparing")
    /\ IF Overtook(home[t].seed, source, home[t].login)
       THEN /\ keeper' = Nobody
            /\ SetHome(t, [home[t] EXCEPT !.at = "removing", !.seeded = FALSE])
       ELSE /\ keeper' = keeper
            /\ SetHome(t, [home[t] EXCEPT !.at = "publishing"])
    /\ UNCHANGED <<source, issued, returned, homeFaults>>

\* The temporary file replaces the login in one step.
PublishLogin(t) ==
    /\ At(t, "publishing")
    /\ source' = home[t].login
    /\ returned' = IF home[t].login.stamp \in 1..returned THEN returned ELSE home[t].login.stamp
    /\ keeper' = IF keeper = t THEN Nobody ELSE keeper
    /\ SetHome(t, [home[t] EXCEPT !.at = "removing", !.seeded = FALSE])
    /\ UNCHANGED <<issued, homeFaults>>

RemoveHome(t) ==
    /\ At(t, "removing")
    /\ SetHome(t, [home[t] EXCEPT !.at = "gone", !.exists = FALSE])
    /\ UNCHANGED <<source, keeper, issued, returned, homeFaults>>

\* rmtree fails, and the owner of the cleanup hears of it.
RemoveFails(t) ==
    /\ At(t, "removing")
    /\ home[t].exists
    /\ Faulty
    /\ SetHome(t, [home[t] EXCEPT !.at = "stuck"])
    /\ UNCHANGED <<source, keeper, issued, returned>>

\* A worker dies: its turns, its memory of their seeds and its lock go with it.
HomeWorkerDies(w) ==
    /\ \E t \in HomeTurns : WorkerOf[t] = w /\ home[t].at \notin {"none", "gone", "stuck", "orphan"}
    /\ Faulty
    /\ home' = [t \in HomeTurns |->
                  IF WorkerOf[t] = w /\ home[t].at \notin {"none", "gone", "stuck", "orphan"}
                  THEN [home[t] EXCEPT !.at = "orphan", !.seeded = FALSE] ELSE home[t]]
    /\ keeper' = IF keeper \in {t \in HomeTurns : WorkerOf[t] = w} THEN Nobody ELSE keeper
    /\ UNCHANGED <<source, issued, returned>>

CleanupStep(t) ==
    TakeCredentialLock(t) \/ ReturnFails(t) \/ CompareSource(t) \/ PublishLogin(t)
    \/ RemoveHome(t) \/ RemoveFails(t)

HomesNext ==
    \/ \E t \in HomeTurns :
         CreateHome(t) \/ SeedHome(t) \/ BuildFails(t) \/ RotateLogin(t) \/ BeginCleanup(t) \/ CleanupStep(t)
    \/ \E w \in HomeWorkers : HomeWorkerDies(w)
    \/ OperatorSignsIn
    \/ HomesAge

\* A cleanup that began is shielded and runs to its end in the worker's thread.
HomesFairness == \A t \in HomeTurns : WF_homeVars(CleanupStep(t))

HomesSpec == HomesInit /\ [][HomesNext]_homeVars /\ HomesFairness

-----------------------------------------------------------------------------
HomeStages == {"none", "building", "live", "returning", "comparing", "publishing", "removing", "gone", "stuck", "orphan"}

\* The state is what the processes can hold; the lock is held exactly by the turn
\* that compares or publishes.
HomesTypeOK ==
    /\ source.serial \in 1..MaxLogins
    /\ keeper \in HomeTurns \union {Nobody}
    /\ issued \in 1..MaxLogins
    /\ returned \in 0..MaxLogins
    /\ homeFaults \in 0..MaxFaults
    /\ \A t \in HomeTurns :
         /\ home[t].at \in HomeStages
         /\ home[t].age \in 0..OrphanAge
         /\ home[t].seeded => home[t].at \in {"live", "returning", "comparing", "publishing"}
         /\ (home[t].at \in {"comparing", "publishing"}) = (keeper = t)

\* The operator's login is never older than one a turn has returned: two turns
\* that rotated copies of one login cannot lose the later to the earlier,
\* whatever the order they finish in (write_back_refreshed_credential, under the
\* lock).  Behind a returned login without a stamp the count starts again.
ReturnedIsNotLost == source.stamp >= returned

\* What a turn left in its home reaches the operator's only when it is a login.
SourceIsALogin == source.sound

\* A turn that rotated its login and whose cleanup ended has returned it, or was
\* overtaken by a later one, or reported that it could not: the only home that
\* takes a newer login with it silently is one the sweep removed under a turn
\* that outlived the window, or one whose worker died.
RotationIsReturned ==
    \A t \in HomeTurns :
      (/\ home'[t].at = "gone" /\ home[t].at # "gone"
       /\ home[t].exists
       /\ home[t].login # home[t].seed
       /\ home[t].login.sound /\ home[t].login.stamp # 0)
      => \/ source.stamp = 0 \/ source.stamp >= home[t].login.stamp
         \/ home[t].lost

\* A home outlives its owner's cleanup only when its removal failed: one whose
\* building failed is taken down too (build_codex_config_home).
CleanedIsRemoved == \A t \in HomeTurns : home[t].at = "gone" => ~home[t].exists

\* The sweep leaves a running turn its home until the window has passed.
LiveHomeIsKept ==
    \A t \in HomeTurns :
      (home[t].at \in {"building", "live"} /\ home[t].age < OrphanAge) => home[t].exists

\* Every cleanup that began ends, unless its worker dies.
CleanupEnds ==
    \A t \in HomeTurns :
      (home[t].at \in {"returning", "removing"}) ~> (home[t].at \in {"gone", "stuck", "orphan"})
=============================================================================
