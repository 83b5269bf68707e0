------------------------ MODULE MCGateway ------------------------
(*****************************************************************************)
(* The components that keep and show what the gateway knows of its runs,     *)
(* each on a small instance. They meet only in the run's own rows, which     *)
(* RunControl and RunAdmission model, so a behaviour runs one of them, the   *)
(* component in focus, and what is said of a component is checked in the     *)
(* behaviours that run it.                                                   *)
(*****************************************************************************)
EXTENDS PermissionRecords, StatusSnapshot, ClarificationAnswers,
        TeamSelection, RunListing, DeletionSaga, StoreWrites,
        CommitSingleFlight, ServiceHealth, StoreMigration, RunStream,
        RecoveryLedger, TLC

(* Two questionnaires in a row, and answers that fit one, both or neither. *)
MCQuestionnaires ==
    << ("a" :> [required |-> TRUE, choice |-> TRUE]) @@ ("b" :> [required |-> FALSE, choice |-> FALSE]),
       ("a" :> [required |-> TRUE, choice |-> FALSE]) >>
MCResolutions ==
    {[kind |-> "answers", answers |-> ("a" :> "option")],
     [kind |-> "answers", answers |-> ("a" :> "text") @@ ("b" :> "text")],
     [kind |-> "decline", answers |-> << >>]}

(* Starts that differ in an option or in a role's own selection. *)
Ref(l, o) == [lane |-> l, mode |-> 1, revision |-> 1, option |-> o]
StartBody(o, overrides, fallbacks) ==
    [selection |-> Ref("a", o), overrides |-> overrides, fallbacks |-> fallbacks, message |-> "m1"]
MCBodies == {StartBody("unset", << >>, <<Ref("b", "unset")>>),
             StartBody("low", << >>, <<Ref("b", "unset")>>),
             StartBody("unset", "r2" :> Ref("b", "high"), << >>)}

VARIABLE focus   \* the component this behaviour runs; the others stay at rest

groupVars ==
    <<focus, permVars, snapshotVars, clarVars, selectionVars, listingVars,
      sagaVars, writesVars, flightVars, healthVars, migrationVars, streamVars,
      ledgerVars>>

Components ==
    {"records", "snapshot", "clarification", "selection", "listing",
     "deletion", "writes", "flight", "health", "migration", "stream",
     "ledger"}

(* A component at rest has one initial state, so that only the one in focus adds states. *)
GroupInit ==
    /\ focus \in Components
    /\ RecordsInit
    /\ SnapshotInit
    /\ ClarInit
    /\ SelectionInit
    /\ ListingInit
    /\ focus # "listing" => finder = NoFinder
    /\ SagaInit
    /\ focus # "deletion" => content = Items
    /\ WritesInit
    /\ focus # "writes" => side = "saver"
    /\ FlightInit
    /\ HealthInit
    /\ focus # "health" => world.worker = "ours" /\ world.spawned /\ world.local /\ world.armed = CHOOSE
       a \in HealthProfiles : TRUE
    /\ MigrationInit
    /\ focus # "migration" => primary.rev = 0 /\ ~ckpt.tables
    /\ StreamInit
    /\ LedgerInit

GroupNext ==
    /\ UNCHANGED focus
    /\ IF focus = "records" THEN TRUE ELSE UNCHANGED permVars
    /\ IF focus = "snapshot" THEN TRUE ELSE UNCHANGED snapshotVars
    /\ IF focus = "clarification" THEN TRUE ELSE UNCHANGED clarVars
    /\ IF focus = "selection" THEN TRUE ELSE UNCHANGED selectionVars
    /\ IF focus = "listing" THEN TRUE ELSE UNCHANGED listingVars
    /\ IF focus = "deletion" THEN TRUE ELSE UNCHANGED sagaVars
    /\ IF focus = "writes" THEN TRUE ELSE UNCHANGED writesVars
    /\ IF focus = "flight" THEN TRUE ELSE UNCHANGED flightVars
    /\ IF focus = "health" THEN TRUE ELSE UNCHANGED healthVars
    /\ IF focus = "migration" THEN TRUE ELSE UNCHANGED migrationVars
    /\ IF focus = "stream" THEN TRUE ELSE UNCHANGED streamVars
    /\ IF focus = "ledger" THEN TRUE ELSE UNCHANGED ledgerVars
    /\ \/ focus = "records" /\ RecordsNext
       \/ focus = "snapshot" /\ SnapshotNext
       \/ focus = "clarification" /\ ClarNext
       \/ focus = "selection" /\ SelectionNext
       \/ focus = "listing" /\ ListingNext
       \/ focus = "deletion" /\ SagaNext
       \/ focus = "writes" /\ WritesNext
       \/ focus = "flight" /\ FlightNext
       \/ focus = "health" /\ HealthNext
       \/ focus = "migration" /\ MigrationNext
       \/ focus = "stream" /\ StreamNext
       \/ focus = "ledger" /\ LedgerNext

GroupSpec == GroupInit /\ [][GroupNext]_groupVars

\* What the gateway accepted is held until it took effect and answers nothing else: a
\* parked run's question has an open row and an ended run's has none, an ask is answered
\* once, a questionnaire is resolved as it was accepted, and an action of the recovery
\* ledger is settled only for a cause, by one sender at a time, and never opened again.
AcceptedIsHonoured ==
    /\ focus = "records" => QuietParkIsOpen /\ OpenRowIsHeld /\ OneAnswerPerAsk /\ TerminalIsClosed
    /\ focus = "clarification" => ResolvedAsAccepted /\ SaidIsWhole /\ HeardIsTrue
    /\ focus = "ledger" => SettledForCause /\ NeverReopened /\ OneSenderPerLease

\* What a reader is shown is so: a status capture discloses what has authority and is
\* complete only when it is whole, a listing neither cuts silently nor offers an ended
\* run, readiness is what was observed, and a viewer of the stream is told of every gap.
ShownIsTrue ==
    /\ focus = "snapshot" =>
         /\ SettledDisclosesNothing /\ DisclosedHasAuthority /\ CompleteIsWhole
         /\ WorstPostureStands /\ QuietReadIsExact
    /\ focus = "listing" => TruncatedIsTrue /\ EndedIsNotOffered /\ ReadyWasRead /\ WalkSeesAll
    /\ focus = "health" =>
         /\ ReadyWasSeen /\ DegradedIsExplained /\ QuietAnswersAgree
         /\ AdoptedIsOurs /\ BusyIsNotAbsent
    /\ focus = "stream" => NoSilentLoss /\ OneFramePerNumber /\ TerminalIsDurable

\* What is written is what was admitted: a start's team is frozen and compiled as
\* chosen, a write reports what it did while others contend, and a store serves only
\* under the schema its migration finished.
WritesAreWhole ==
    /\ focus = "selection" => FrozenAsAdmitted /\ CompiledAsChosen
    /\ focus = "writes" => ReportsAreTrue /\ QuietSaverIsFree /\ LateWriteSucceeds
    /\ focus = "migration" => ServingIsCompatible /\ SucceededIsComplete /\ QuietFailureIsExplained

\* Every component keeps its variables within their types and bounds: the type invariant
\* of the component in focus.
TypesOK ==
    /\ focus = "records" => PermTypeOK
    /\ focus = "snapshot" => SnapshotTypeOK
    /\ focus = "clarification" => ClarTypeOK
    /\ focus = "selection" => SelectionTypeOK
    /\ focus = "listing" => ListingTypeOK
    /\ focus = "deletion" => SagaTypeOK
    /\ focus = "writes" => WritesTypeOK
    /\ focus = "flight" => FlightTypeOK
    /\ focus = "health" => HealthTypeOK
    /\ focus = "migration" => MigrationTypeOK
    /\ focus = "stream" => StreamTypeOK
    /\ focus = "ledger" => LedgerTypeOK

\* No step of a gateway component undoes what an earlier one settled: a repeated start
\* is told apart by its body, a deletion keeps its manifest, a commit saw the newest
\* row, frame numbers go up, a verdict stands, a claim is its holder's, and a store's
\* identity is the last thing a migration writes.
GatewaySteps ==
    [][ /\ [RepeatIsRecognised]_selectionVars
        /\ [ManifestIsKept]_sagaVars
        /\ [NoLostUpdate]_writesVars
        /\ [IdentityIsLast]_migrationVars
        /\ [ForeignIsUntouched]_migrationVars
        /\ [IdsGoUp]_streamVars
        /\ [VerdictStands]_ledgerVars
        /\ [ClaimIsExclusive]_ledgerVars
      ]_groupVars
=============================================================================
