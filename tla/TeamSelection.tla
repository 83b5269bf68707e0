--------------------------- MODULE TeamSelection ---------------------------
(***************************************************************************)
(* Which provider lanes a run executes on: a start request names catalog   *)
(* entries, the gateway freezes them against the catalogs it serves, the   *)
(* freeze is stored with the run and is all that compilation reads, and a  *)
(* request sent again is recognised against the freeze and not against the *)
(* catalogs of the day.                                                    *)
(*                                                                         *)
(* A lane has one entry with one control; a revision stands for the entry  *)
(* and the options it has.  The default of the control is not part of the  *)
(* revision: it moves under it.                                            *)
(***************************************************************************)
EXTENDS Naturals, Sequences, FiniteSets

CONSTANTS
    SelectionLanes,  \* provider lanes
    SelectionRoles,  \* role ids a preset may require
    Starters,        \* clients that start the run
    Bodies,          \* the request bodies they send
    MaxMoves         \* bound: moves of catalogs, presets, launchers and settings

Unset == "unset"

ASSUME SelectionAssumption ==
    /\ MaxMoves \in Nat
    /\ \A b \in Bodies :
          /\ b.selection.lane \in SelectionLanes
          /\ DOMAIN b.overrides \subseteq SelectionRoles
          /\ \A i \in DOMAIN b.fallbacks : b.fallbacks[i].lane \in SelectionLanes

VARIABLES
    offers,    \* per lane: the catalog record served now
    modes,     \* per lane: the execution mode the settings select
    required,  \* the roles the preset requires now
    run,       \* the durable run with its stored selection, or NoRun
    starts,    \* per client: its request
    compiled,  \* per role: the lane its model was built on, or NoLane
    moves      \* moves so far

selectionVars == <<offers, modes, required, run, starts, compiled, moves>>

-----------------------------------------------------------------------------
NoLane == [lane |-> "none", mode |-> 0, revision |-> 0, option |-> Unset, defaulted |-> FALSE]

NoFreeze == [valid |-> FALSE, selection |-> NoLane, overrides |-> << >>, fallbacks |-> << >>,
             roles |-> {}]

NoBody == [selection |-> [lane |-> "none", mode |-> 0, revision |-> 0, option |-> Unset],
           overrides |-> << >>, fallbacks |-> << >>, message |-> "none"]

NoRun == [exists |-> FALSE, frozen |-> NoFreeze, digest |-> NoBody, asked |-> NoBody, view |-> << >>]

NoStart == [at |-> "idle", body |-> NoBody, staged |-> FALSE, view |-> << >>,
            frozen |-> NoFreeze, heard |-> "nothing"]

SelectionInit ==
    /\ offers = [l \in SelectionLanes |-> [revision |-> 1, default |-> "low", selectable |-> TRUE]]
    /\ modes = [l \in SelectionLanes |-> 1]
    /\ required = SelectionRoles
    /\ run = NoRun
    /\ starts = [c \in Starters |-> NoStart]
    /\ compiled = [r \in SelectionRoles \cup {"supervisor"} |-> NoLane]
    /\ moves = 0

-----------------------------------------------------------------------------
\* _normalize_reference: the lane must be served in that mode, selectable, and at
\* the revision the client read.
RefusedStart(ref, view) ==
    \/ view[ref.lane].mode # ref.mode
    \/ ~view[ref.lane].selectable
    \/ view[ref.lane].revision # ref.revision

\* _freeze_controls: a control left open takes the catalog's default.
FreezeLane(ref, view) ==
    [lane |-> ref.lane, mode |-> ref.mode, revision |-> ref.revision,
     option |-> IF ref.option = Unset THEN view[ref.lane].default ELSE ref.option,
     defaulted |-> ref.option = Unset]

Fingerprint(lane) == [lane EXCEPT !.defaulted = FALSE]

Repeats(lanes) ==
    \E i, j \in DOMAIN lanes : i # j /\ Fingerprint(lanes[i]) = Fingerprint(lanes[j])

UnknownRoles(b, roles) == DOMAIN b.overrides \ roles

\* freeze_team_selection: everything the request names, or nothing.
FreezeTeam(b, roles, view) ==
    LET selection == FreezeLane(b.selection, view)
        fallbacks == [i \in DOMAIN b.fallbacks |-> FreezeLane(b.fallbacks[i], view)]
        refused == \/ UnknownRoles(b, roles) # {}
                   \/ RefusedStart(b.selection, view)
                   \/ \E r \in DOMAIN b.overrides : RefusedStart(b.overrides[r], view)
                   \/ \E i \in DOMAIN b.fallbacks : RefusedStart(b.fallbacks[i], view)
                   \/ Repeats(<<selection>> \o fallbacks)
    IN IF refused THEN NoFreeze
       ELSE [valid |-> TRUE, selection |-> selection, fallbacks |-> fallbacks, roles |-> roles,
             overrides |-> [r \in DOMAIN b.overrides |-> FreezeLane(b.overrides[r], view)]]

-----------------------------------------------------------------------------
\* The reference a frozen lane was frozen from, its default made explicit.
Reference(lane) == [lane |-> lane.lane, mode |-> lane.mode, revision |-> lane.revision,
                    option |-> lane.option]

\* _body_with_frozen_selection
BodyWithFrozen(b, f) ==
    [b EXCEPT !.selection = Reference(f.selection),
              !.overrides = [r \in DOMAIN f.overrides |-> Reference(f.overrides[r])],
              !.fallbacks = [i \in DOMAIN f.fallbacks |-> Reference(f.fallbacks[i])]]

\* _normalize_replay_lane: what the client left open and the run took from the
\* catalog is filled in from the run.
Filled(ref, stored) ==
    [ref EXCEPT !.option = IF @ = Unset /\ stored.defaulted THEN stored.option ELSE @]

LaneMatches(ref, stored) == Filled(ref, stored) = Reference(stored)

\* normalize_replay_selection: the same roles overridden, the same number of
\* fallbacks, and lane by lane the accepted references.
SelectionMatches(b, f) ==
    /\ DOMAIN b.overrides = DOMAIN f.overrides
    /\ Len(b.fallbacks) = Len(f.fallbacks)
    /\ LaneMatches(b.selection, f.selection)
    /\ \A r \in DOMAIN b.overrides : LaneMatches(b.overrides[r], f.overrides[r])
    /\ \A i \in DOMAIN b.fallbacks : LaneMatches(b.fallbacks[i], f.fallbacks[i])

\* frozen_team_selection_from_record: the stored record is read back only while
\* the settings still execute every lane of it.
LanesOf(f) == {f.selection} \cup {f.overrides[r] : r \in DOMAIN f.overrides}
              \cup {f.fallbacks[i] : i \in DOMAIN f.fallbacks}

Executable(x) == modes[x.lane] = x.mode

Readable(f) == \A x \in LanesOf(f) : Executable(x)

\* _replay_identity_or_conflict
ReplayAnswer(b) ==
    IF /\ Readable(run.frozen)
       /\ SelectionMatches(b, run.frozen)
       /\ run.digest = BodyWithFrozen(b, run.frozen)
    THEN "replayed" ELSE "conflict"

-----------------------------------------------------------------------------
HearFor(c, b, answer) ==
    starts' = [starts EXCEPT ![c] = [NoStart EXCEPT !.at = "heard", !.body = b, !.heard = answer]]

Hear(c, answer) == HearFor(c, starts[c].body, answer)

ServedOffer == [l \in SelectionLanes |-> [mode |-> modes[l], revision |-> offers[l].revision,
                                     default |-> offers[l].default,
                                     selectable |-> offers[l].selectable]]

\* A client sends the request, in one stage or as prepare and commit.
SendStart(c) ==
    /\ starts[c].at \in {"idle", "heard"}
    /\ \E b \in Bodies, staged \in BOOLEAN :
          starts' = [starts EXCEPT ![c] = [NoStart EXCEPT
              !.at = IF staged THEN "read" ELSE "look", !.body = b, !.staged = staged]]
    /\ UNCHANGED <<offers, modes, required, run, compiled, moves>>

\* _existing_run_replay: a run id that is taken is answered from its run.
LookForRun(c) ==
    /\ starts[c].at = "look"
    /\ IF run.exists THEN Hear(c, ReplayAnswer(starts[c].body))
       ELSE starts' = [starts EXCEPT ![c].at = "read"]
    /\ UNCHANGED <<offers, modes, required, run, compiled, moves>>

\* The records of the catalog service, awaited.
ReadCatalogs(c) ==
    /\ starts[c].at = "read"
    /\ starts' = [starts EXCEPT ![c].at = "freeze", ![c].view = ServedOffer]
    /\ UNCHANGED <<offers, modes, required, run, compiled, moves>>

\* _validate_and_freeze_selection_or_refuse; a prepare reserves its freeze.
Freeze(c) ==
    /\ starts[c].at = "freeze"
    /\ LET f == FreezeTeam(starts[c].body, required, starts[c].view) IN
       IF f.valid
       THEN starts' = [starts EXCEPT ![c].frozen = f,
                                     ![c].at = IF starts[c].staged THEN "reserved" ELSE "create"]
       ELSE Hear(c, "invalid")
    /\ UNCHANGED <<offers, modes, required, run, compiled, moves>>

\* The commit: answered from the run when there is one, else held to the freeze
\* of its reservation, whatever the catalogs serve now.
CommitStart(c) ==
    /\ starts[c].at = "reserved"
    /\ \E b \in Bodies :
          \/ /\ run.exists
             /\ HearFor(c, b, ReplayAnswer(b))
          \/ /\ ~run.exists
             /\ IF /\ starts[c].frozen.roles = required
                   /\ SelectionMatches(b, starts[c].frozen)
                   /\ b.message = starts[c].body.message
                THEN starts' = [starts EXCEPT ![c].at = "create"]
                ELSE Hear(c, "mismatch")
    /\ UNCHANGED <<offers, modes, required, run, compiled, moves>>

\* _create_run_core: the row with its freeze and its request digest, unless
\* another request created it first.
CreateRun(c) ==
    /\ starts[c].at = "create"
    /\ IF run.exists
       THEN /\ Hear(c, ReplayAnswer(starts[c].body))
            /\ UNCHANGED run
       ELSE /\ run' = [exists |-> TRUE, frozen |-> starts[c].frozen, asked |-> starts[c].body,
                       digest |-> BodyWithFrozen(starts[c].body, starts[c].frozen),
                       view |-> starts[c].view]
            /\ Hear(c, "created")
    /\ UNCHANGED <<offers, modes, required, compiled, moves>>

-----------------------------------------------------------------------------
\* Compilation: every candidate of every role must still be executable; a role
\* takes the first candidate whose launcher is proven now, the supervisor only
\* the team's selection.
AssignmentOf(r, f) == IF r \in DOMAIN f.overrides THEN f.overrides[r] ELSE f.selection

Candidates(r, f) == <<AssignmentOf(r, f)>> \o f.fallbacks

\* A model is built in the mode frozen, on a launcher with a current proof.
Built(x, usable) == Executable(x) /\ x.lane \in usable

FirstUsable(s, usable) ==
    LET ok == {i \in DOMAIN s : Built(s[i], usable)}
    IN IF ok = {} THEN NoLane ELSE s[CHOOSE i \in ok : \A j \in ok : i <= j]

SupervisorLane(f, usable) == IF Built(f.selection, usable) THEN f.selection ELSE NoLane

\* The launchers are probed anew for every compilation.
CompileRun ==
    /\ run.exists
    /\ Readable(run.frozen)
    /\ \E usable \in SUBSET SelectionLanes :
          LET f == run.frozen
              chosen == [r \in f.roles |-> FirstUsable(Candidates(r, f), usable)]
              boss == SupervisorLane(f, usable)
          IN compiled' = IF boss = NoLane \/ \E r \in f.roles : chosen[r] = NoLane
                         THEN [r \in DOMAIN compiled |-> NoLane]
                         ELSE [r \in DOMAIN compiled |->
                                  CASE r \in f.roles -> chosen[r]
                                    [] r = "supervisor" -> boss
                                    [] OTHER -> NoLane]
    /\ UNCHANGED <<offers, modes, required, run, starts, moves>>

-----------------------------------------------------------------------------
\* What moves around a request: a provider lists other models, moves a default or
\* stops being selectable, the preset is edited.
Move == moves < MaxMoves /\ moves' = moves + 1

CatalogMoves(l) ==
    /\ Move
    /\ \/ offers' = [offers EXCEPT ![l].revision = 3 - @]
       \/ offers' = [offers EXCEPT ![l].default = IF @ = "low" THEN "high" ELSE "low"]
       \/ offers' = [offers EXCEPT ![l].selectable = ~@]
    /\ UNCHANGED <<modes, required, run, starts, compiled>>

PresetMoves ==
    /\ Move
    /\ \E rs \in SUBSET SelectionRoles \ {{}} : rs # required /\ required' = rs
    /\ UNCHANGED <<offers, modes, run, starts, compiled>>

\* The gateway comes back with another backend: requests and reservations in
\* memory are gone, the run is not.
SettingsMove(l) ==
    /\ Move
    /\ modes' = [modes EXCEPT ![l] = 3 - @]
    /\ starts' = [c \in Starters |-> NoStart]
    /\ compiled' = [r \in DOMAIN compiled |-> NoLane]
    /\ UNCHANGED <<offers, required, run>>

SelectionNext ==
    \/ \E c \in Starters : \/ SendStart(c)
                           \/ LookForRun(c)
                           \/ ReadCatalogs(c)
                           \/ Freeze(c)
                           \/ CommitStart(c)
                           \/ CreateRun(c)
    \/ CompileRun
    \/ \E l \in SelectionLanes : CatalogMoves(l) \/ SettingsMove(l)
    \/ PresetMoves

SelectionSpec == SelectionInit /\ [][SelectionNext]_selectionVars

-----------------------------------------------------------------------------
\* The shape of the state: a freeze is whole or absent, and names no fallback
\* twice.
SelectionTypeOK ==
    /\ moves \in 0..MaxMoves
    /\ required \subseteq SelectionRoles
    /\ \A f \in {run.frozen} \cup {starts[c].frozen : c \in Starters} :
          f.valid => /\ DOMAIN f.overrides \subseteq f.roles
                     /\ \A i, j \in DOMAIN f.fallbacks :
                           i # j => Reference(f.fallbacks[i]) # Reference(f.fallbacks[j])
    /\ \A c \in Starters :
          starts[c].at \in {"idle", "look", "read", "freeze", "reserved", "create", "heard"}

\* The option a reference asks for, when the view is the catalog it is frozen with.
Asked(ref, view) == IF ref.option = Unset THEN view[ref.lane].default ELSE ref.option

\* Lane x is what reference ref asks for in that view, and was offered in it.
Honours(x, ref, view) ==
    /\ x.lane = ref.lane /\ x.mode = ref.mode /\ x.revision = ref.revision
    /\ x.option = Asked(ref, view)
    /\ view[ref.lane].selectable
    /\ view[ref.lane].revision = ref.revision

\* The stored freeze is the request's own, resolved in the catalogs the request
\* was admitted with (those of its prepare when it was prepared): every lane was
\* selectable then, and each open control has the default of then.
FrozenAsAdmitted ==
    run.exists =>
        /\ Honours(run.frozen.selection, run.asked.selection, run.view)
        /\ \A r \in DOMAIN run.asked.overrides :
              Honours(run.frozen.overrides[r], run.asked.overrides[r], run.view)
        /\ \A i \in DOMAIN run.asked.fallbacks :
              Honours(run.frozen.fallbacks[i], run.asked.fallbacks[i], run.view)

\* What a body asks for is what the run has: the same lanes, and each option the
\* one frozen, or left open where the run took a default.
Wants(ref, x) ==
    /\ x.lane = ref.lane /\ x.mode = ref.mode /\ x.revision = ref.revision
    /\ ref.option = x.option \/ (ref.option = Unset /\ x.defaulted)

SameRequest(b) ==
    /\ b.message = run.asked.message
    /\ Wants(b.selection, run.frozen.selection)
    /\ DOMAIN b.overrides = DOMAIN run.frozen.overrides
    /\ \A r \in DOMAIN b.overrides : Wants(b.overrides[r], run.frozen.overrides[r])
    /\ Len(b.fallbacks) = Len(run.frozen.fallbacks)
    /\ \A i \in DOMAIN b.fallbacks : Wants(b.fallbacks[i], run.frozen.fallbacks[i])

\* A request for a run that exists is answered with that run exactly when it asks
\* for what the run has, whichever request created it and wherever the catalogs
\* moved since; a run whose lanes the settings no longer execute is a conflict.
RepeatIsRecognised ==
    \A c \in Starters :
     (starts[c].heard = "nothing" /\ starts'[c].heard \in {"replayed", "conflict"}) =>
         (starts'[c].heard = "replayed" <=>
             /\ SameRequest(starts'[c].body)
             /\ \A x \in LanesOf(run.frozen) : modes[x.lane] = x.mode)

\* A role executes on the lane the request chose for it, or on one of the run's
\* fallbacks, in the mode the settings execute; the supervisor on the team's own.
CompiledAsChosen ==
    \A r \in DOMAIN compiled :
        compiled[r] # NoLane =>
            /\ modes[compiled[r].lane] = compiled[r].mode
            /\ r = "supervisor" => compiled[r] = run.frozen.selection
            /\ r # "supervisor" =>
                  \/ compiled[r] \in {run.frozen.fallbacks[i] : i \in DOMAIN run.frozen.fallbacks}
                  \/ r \in DOMAIN run.frozen.overrides /\ compiled[r] = run.frozen.overrides[r]
                  \/ r \notin DOMAIN run.frozen.overrides /\ compiled[r] = run.frozen.selection
=============================================================================
