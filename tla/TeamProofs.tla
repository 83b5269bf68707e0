------------------------------ MODULE TeamProofs ------------------------------
(***************************************************************************)
(* The governance of a team, for any team, budget and number of faults:    *)
(* the retries of a worker's turn, the phases of its documents, and its    *)
(* graph.  They share no variable: each section proves one of them from    *)
(* its own specification, and TeamIsGovernedTheorem joins the last two.    *)
(***************************************************************************)
EXTENDS TeamGraph, ProviderAttempts, WellFoundedInduction, TLAPS

-----------------------------------------------------------------------------
(* ProviderAttempts: any number of attempts.                                 *)

\* Only the attempt in progress has shown or done anything, but for the attempts a
\* Codex turn went silent in, and a failure after a tool acted is one the policy
\* does not retry.
AttemptsInv ==
    /\ AttemptsTypeOK
    /\ relayedIn \subseteq {attempt} /\ actedIn \subseteq silencedIn \cup {attempt}
    /\ stage = "starting" => relayedIn = {} /\ actedIn \subseteq silencedIn /\ ~heldBack
    /\ stage = "raised" /\ Acted => ~RetryWrapped(raised) \/ attempt \in silencedIn
    /\ SuspensionIsKept

Exceptions == [type : ErrorTypes, hint : Hints, condition : Conditions, effects : BOOLEAN]

\* An exception has the fields it was made with.
LEMMA ExceptionFields ==
  ASSUME NEW t \in ErrorTypes, NEW h \in Hints, NEW c \in Conditions, NEW f \in BOOLEAN
  PROVE  LET e == Exception(t, h, c, f) IN
         e \in Exceptions /\ e.type = t /\ e.hint = h /\ e.condition = c /\ (e.effects <=> f)
  BY Zenon DEF Exception, Exceptions

LEMMA AttemptsInitial == AttemptsInit => AttemptsInv
  <1> SUFFICES ASSUME AttemptsInit PROVE AttemptsInv
    OBVIOUS
  <1>1. NoException \in Exceptions
    BY ExceptionFields, Zenon DEF NoException, Exceptions, Exception, ErrorTypes, Hints, Conditions
  <1>2. heldBack \in BOOLEAN /\ sentinelLost \in BOOLEAN /\ ~heldBack
    BY ZenonT(60) DEF AttemptsInit
  <1> QED
    BY <1>1, <1>2, AttemptsAssumption
       DEF AttemptsInit, AttemptsInv, AttemptsTypeOK, SuspensionIsKept, Exceptions, Conditions, Ended

LEMMA AttemptsStep ==
  ASSUME AttemptsInv, [AttemptsNext]_attemptVars
  PROVE  AttemptsInv'
  <1> USE AttemptsAssumption DEF AttemptsInv, AttemptsTypeOK, Ended
  <1>1. ASSUME NEW e \in Exceptions, Raise(e), stage \in {"starting", "streaming"},
               Acted => ~RetryWrapped(e) \/ attempt \in silencedIn,
               heldBack => sentinelLost \/ e.type = "nodeTimeout"
        PROVE  AttemptsInv'
    BY <1>1, Zenon DEF Raise, RetryWrapped, RetryVerdict, Exceptions, Acted, SuspensionIsKept
  <1>2. Acted \in BOOLEAN /\ (turnLane = "acp" /\ Acted) \in BOOLEAN
    BY DEF Acted
  <1>3. ASSUME NEW t \in ErrorTypes, NEW h \in Hints, NEW c \in Conditions, NEW f \in BOOLEAN,
               Raise(Exception(t, h, c, f)), stage \in {"starting", "streaming"},
               Acted => \/ f \/ attempt \in silencedIn
                        \/ t \in {"session", "nodeTimeout"}
                        \/ h = "stop"
                        \/ h = "silent" /\ c # "none" /\ c # "retryable",
               heldBack => sentinelLost \/ t = "nodeTimeout"
        PROVE  AttemptsInv'
    BY <1>1, <1>3, ExceptionFields, SMTT(60) DEF RetryWrapped, RetryVerdict
  <1> USE DEF ErrorTypes, Hints, Conditions, Stated
  <1>4. CASE PromptSent \/ RelayOutput \/ ToolStarts \/ HoldSuspension \/ Suspend \/ TurnCompletes
    BY <1>4, Zenon DEF PromptSent, RelayOutput, ToolStarts, HoldSuspension, Suspend, TurnCompletes, Acted, SuspensionIsKept
  <1>5. CASE StartFails
    <2>1. ~heldBack /\ (Acted => attempt \in silencedIn)
      BY <1>5, Zenon DEF StartFails, Acted
    <2> QED
      BY <1>3, <1>5, <2>1, Zenon DEF StartFails
  <1>6. ASSUME NEW c \in Stated, LaneWillRetry(c) PROVE AttemptsInv'
    BY <1>6, Zenon DEF LaneWillRetry, Acted, SuspensionIsKept
  <1>7. ASSUME NEW c \in Stated, PromptFails(c) PROVE AttemptsInv'
    BY <1>2, <1>3, <1>7, Zenon DEF PromptFails, HeldFirst
  <1>8. ASSUME NEW c \in Stated, NEW hint \in {"silent", "stop"}, LaneFails(c, hint) PROVE AttemptsInv'
    <2>1. Carried(c) \in Conditions
      BY Zenon DEF Carried
    <2> QED
      BY <1>2, <1>3, <1>8, <2>1 DEF LaneFails
  <1>9. CASE StreamCloses
    BY <1>2, <1>3, <1>9, ZenonT(60) DEF StreamCloses, HeldFirst
  <1>10. CASE IdleExpires
    <2>1. CASE turnLane = "codex" /\ deferred = "none"
      <3>1. Exception("transient", "silent", "none", FALSE) \in Exceptions
        BY ExceptionFields, Zenon DEF Exceptions, Exception
      <3>2. /\ raised' = Exception("transient", "silent", "none", FALSE)
            /\ stage' = "raised" /\ silencedIn' = silencedIn \cup {attempt}
            /\ UNCHANGED <<turnLane, attempt, relayedIn, actedIn, deferred, heldBack, sentinelLost>>
        BY <1>10, <2>1, Zenon DEF IdleExpires
      <3>3. heldBack => sentinelLost
        BY <1>10, Zenon DEF IdleExpires, HeldFirst
      <3>4. AttemptsTypeOK'
        BY <3>1, <3>2, ZenonT(60) DEF Exceptions
      <3>5. /\ relayedIn' \subseteq {attempt'} /\ actedIn' \subseteq silencedIn' \cup {attempt'}
            /\ attempt' \in silencedIn'
        BY <3>2, Zenon
      <3>6. SuspensionIsKept'
        BY <3>2, <3>3, Zenon DEF SuspensionIsKept
      <3> QED
        BY <3>2, <3>4, <3>5, <3>6, Zenon
    <2> QED
      BY <1>2, <1>3, <1>10, <2>1, Zenon DEF IdleExpires, HeldFirst
  <1>11. CASE NodeTimesOut
    BY <1>3, <1>11, Zenon DEF NodeTimesOut
  <1>12. CASE RetryDecides
    <2>1. heldBack' \in BOOLEAN /\ sentinelLost' \in BOOLEAN /\ ~heldBack' /\ deferred' \in Conditions
      BY <1>12, Zenon DEF RetryDecides
    <2> QED
      BY <1>12, <2>1 DEF RetryDecides, RetryWrapped, RetriesLeft, Acted, SuspensionIsKept
  <1>13. CASE UNCHANGED attemptVars
    BY <1>13 DEF attemptVars, RetryWrapped, Acted, SuspensionIsKept
  <1> QED
    BY <1>4, <1>5, <1>6, <1>7, <1>8, <1>9, <1>10, <1>11, <1>12, <1>13 DEF AttemptsNext

\* For any number of attempts, on both lanes: nothing shown is repeated by a retry, nothing
\* done is but what an attempt did before its Codex turn went silent, and no question for
\* a person is lost to a failure beside it (_retry_wrapped_worker_error,
\* _raise_held_suspension, _next_turn_message).
THEOREM RetriesAreSafeTheorem == AttemptsSpec => []RetriesAreSafe
  <1>1. AttemptsInv => RetriesAreSafe
    BY Zenon DEF AttemptsInv, RetriesAreSafe, OutputIsNotRepeated, EffectsAreNotRepeated
  <1> QED
    BY <1>1, AttemptsInitial, AttemptsStep, PTL DEF AttemptsSpec

-----------------------------------------------------------------------------
(* DocumentPhases: what travels from the engine's decision to the gate.      *)

\* The proposals of a run, and a verdict about one.
Names == [phase : Index, rev : Nat]
Message == [proposal : Names, verdict : {"approved", "rejected", "request_changes"}]

\* The verdicts the engine has recorded.
Told == {m \in Message : DecidedVerdict(m.proposal) = m.verdict}

\* What the subscriber carries.
Held == [proposal |-> sub.proposal, verdict |-> sub.verdict]

\* The types the argument needs.
RunTypes ==
    /\ at \in [kind : {"clarify", "research", "write", "review", "submit", "gate", "done"},
               phase : Index]
    /\ bodies \in [Index -> Nat] /\ spent \in [Index -> Nat] /\ granted \in Nat
    /\ gate \in Names \cup {NoProposal}

SubscriberFields == {"pc", "proposal", "verdict", "event", "fresh"}

\* Whatever is on its way to a gate, and whatever a gate routed on, is what the
\* engine decided.
VerdictsFit ==
    /\ outbox \in Seq(Message) /\ cursor \in Nat /\ DOMAIN sub = SubscriberFields
    /\ \A i \in 1..Len(outbox) : outbox[i] \in Told
    /\ mail \subseteq Told /\ routed \subseteq Told
    /\ sub.pc \in {"prepare", "gate", "claim"} => Held \in Told

\* A parked run waits for its last body, with no revision counted; before the
\* first document there is no gate; and a revision granted is one spent.
GateFits ==
    /\ at.kind = "gate" => gate = Current /\ granted = 0
    /\ at.kind \in {"clarify", "research"} => gate = NoProposal /\ granted = 0
    /\ granted <= spent[at.phase]

\* PassedIsApproved, in terms of the verdict.
LastBody(i) == [phase |-> i, rev |-> bodies[i]]
PassedFits ==
    \A i \in Index : (i < at.phase \/ at.kind = "done") => DecidedVerdict(LastBody(i)) = "approved"

RunInv == RunTypes /\ GateFits /\ PassedFits /\ GateIsAnswered /\ RevisionsAreBounded
PhasesInv == RunInv /\ VerdictsFit /\ DOMAIN engine \subseteq Names

\* A decision that was recorded stands.
EngineKeeps ==
    \A p \in Names : DecidedVerdict(p) # "none" => DecidedVerdict(p)' = DecidedVerdict(p)

LEMMA PassedIs == PassedFits => PassedIsApproved
  BY Zenon DEF PassedFits, PassedIsApproved, DecidedVerdict, LastBody

LEMMA SameEngine == ASSUME UNCHANGED engine PROVE EngineKeeps
  BY Zenon DEF EngineKeeps, DecidedVerdict

LEMMA ProposedKeeps == ASSUME NEW p, engine' = Proposed(p) PROVE EngineKeeps
  <1>1. CASE p \in DOMAIN engine
    BY <1>1, SameEngine, Zenon DEF Proposed
  <1>2. CASE p \notin DOMAIN engine
    <2>1. engine' = [q \in DOMAIN engine \cup {p} |-> IF q = p THEN "needs_review" ELSE engine[q]]
      BY <1>2, Zenon DEF Proposed
    <2> QED BY <1>2, <2>1, Zenon DEF EngineKeeps, DecidedVerdict
  <1> QED BY <1>1, <1>2, Zenon

LEMMA DecideKeeps ==
  ASSUME NEW p, NEW verdict \in Verdicts, Decide(p, verdict), p \in Names
  PROVE  EngineKeeps /\ [proposal |-> p, verdict |-> verdict] \in Told'
  <1>1. verdict \in {"approved", "rejected", "request_changes"}
    BY PhasesAssumption, Zenon
  <1>2. [proposal |-> p, verdict |-> verdict] \in Message
    BY <1>1, Zenon DEF Message
  <1>3. EngineKeeps
    BY Zenon DEF Decide, EngineKeeps, DecidedVerdict
  <1>4. DecidedVerdict(p)' = verdict
    BY <1>1, Zenon DEF Decide, DecidedVerdict
  <1> QED BY <1>2, <1>3, <1>4, Zenon DEF Told

LEMMA ApplyKeeps == ASSUME NEW p, Apply(p) PROVE EngineKeeps
  BY Zenon DEF Apply, EngineKeeps, DecidedVerdict

LEMMA ToldGrows == ASSUME EngineKeeps PROVE Told \subseteq Told'
  <1> SUFFICES ASSUME NEW m \in Told PROVE m \in Told'
    OBVIOUS
  <1>1. m \in Message /\ DecidedVerdict(m.proposal) = m.verdict
    BY Zenon DEF Told
  <1>2. m.proposal \in Names /\ m.verdict # "none"
    BY <1>1, Zenon DEF Message
  <1>3. DecidedVerdict(m.proposal)' = m.verdict
    BY <1>1, <1>2, Zenon DEF EngineKeeps
  <1> QED BY <1>1, <1>3, Zenon DEF Told

LEMMA LastBodyNamed == ASSUME RunTypes, NEW i \in Index PROVE LastBody(i) \in Names
  BY Zenon DEF RunTypes, LastBody, Names

\* What was passed stays passed, while the bodies of passed phases stay.
LEMMA PassedStays ==
  ASSUME RunTypes, PassedFits, EngineKeeps, at'.phase = at.phase, at'.kind = "done" => at.kind = "done",
         \A i \in Index : i < at.phase \/ at.kind = "done" => bodies'[i] = bodies[i]
  PROVE  PassedFits'
  <1> SUFFICES ASSUME NEW i \in Index, i < at'.phase \/ at'.kind = "done"
               PROVE  DecidedVerdict(LastBody(i))' = "approved"
    BY Zenon DEF PassedFits
  <1>1. i < at.phase \/ at.kind = "done"
    OBVIOUS
  <1>2. LastBody(i)' = LastBody(i)
    BY <1>1, Zenon DEF LastBody
  <1>3. DecidedVerdict(LastBody(i)) = "approved" /\ LastBody(i) \in Names
    BY <1>1, LastBodyNamed, Zenon DEF PassedFits
  <1>4. \A p \in Names : DecidedVerdict(p) = "approved" => DecidedVerdict(p)' = "approved"
    BY Zenon DEF EngineKeeps
  <1>5. DecidedVerdict(LastBody(i))' = "approved"
    BY <1>2, <1>3, <1>4, Zenon DEF DecidedVerdict
  <1> QED BY <1>5, Zenon

\* The run does not move.
LEMMA RunStays ==
  ASSUME RunInv, EngineKeeps, UNCHANGED <<at, bodies, spent, gate, granted, routed>>
  PROVE  RunInv'
  <1>1. UNCHANGED <<at, bodies, spent, gate, granted, routed>>
    OBVIOUS
  <1>2. RunTypes' /\ GateFits'
    BY <1>1, Zenon DEF RunInv, RunTypes, GateFits, Current
  <1>3. GateIsAnswered' /\ RevisionsAreBounded'
    BY <1>1, Zenon DEF RunInv, GateIsAnswered, RevisionsAreBounded
  <1>4. PassedFits'
    BY <1>1, PassedStays, Zenon DEF RunInv
  <1> QED BY <1>2, <1>3, <1>4, Zenon DEF RunInv

\* The verdicts do not move.
LEMMA VerdictsStay ==
  ASSUME VerdictsFit, EngineKeeps, UNCHANGED <<outbox, cursor, mail, routed, sub>>
  PROVE  VerdictsFit'
  <1>1. Held' = Held
    BY Zenon DEF Held
  <1> QED BY <1>1, ToldGrows, Zenon DEF VerdictsFit

\* The run's own nodes.
LEMMA ClarifyFits == ASSUME RunInv, Clarify PROVE RunInv'
  <1>1. /\ at' = [kind |-> "research", phase |-> 1] /\ at.kind = "clarify"
        /\ UNCHANGED <<bodies, spent, gate, engine, granted, routed>>
    BY Zenon DEF Clarify, Enter, Here
  <1>2. 1 \in Index
    BY PhasesAssumption DEF Index
  <1>3. RunTypes'
    BY <1>1, <1>2, Zenon DEF RunInv, RunTypes
  <1>4. GateFits'
    BY <1>1, <1>2 DEF RunInv, RunTypes, GateFits
  <1>5. PassedFits'
    BY <1>1 DEF PassedFits, Index
  <1>6. GateIsAnswered' /\ RevisionsAreBounded'
    BY <1>1, Zenon DEF RunInv, GateIsAnswered, RevisionsAreBounded
  <1> QED BY <1>3, <1>4, <1>5, <1>6, Zenon DEF RunInv

LEMMA ResearchFits == ASSUME RunInv, NEW t, NEW valid, Research(t, valid) PROVE RunInv'
  <1>1. /\ at' = [kind |-> "write", phase |-> 1] \/ at' = at
        /\ at.kind = "research"
        /\ UNCHANGED <<bodies, spent, gate, engine, granted, routed>>
    BY Zenon DEF Research, Enter, Here
  <1>2. 1 \in Index /\ 0 \notin Index
    BY PhasesAssumption DEF Index
  <1>a. gate = NoProposal /\ granted = 0
    BY <1>1, Zenon DEF RunInv, GateFits
  <1>3. RunTypes'
    BY <1>1, <1>2 DEF RunInv, RunTypes
  <1>4. GateFits'
    BY <1>1, <1>2, <1>a DEF RunInv, RunTypes, GateFits
  <1>5. PassedFits'
    <2>1. CASE at' = [kind |-> "write", phase |-> 1]
      BY <2>1 DEF PassedFits, Index
    <2>2. CASE at' = at
      BY <1>1, <2>2, PassedStays, SameEngine, Zenon DEF RunInv
    <2> QED BY <1>1, <2>1, <2>2, Zenon
  <1>6. GateIsAnswered'
    BY <1>1, <1>2, <1>a, Zenon DEF GateIsAnswered, NoProposal
  <1>7. RevisionsAreBounded'
    BY <1>1, Zenon DEF RunInv, RevisionsAreBounded
  <1> QED BY <1>3, <1>4, <1>5, <1>6, <1>7, Zenon DEF RunInv

LEMMA WriteFits == ASSUME RunInv, Write PROVE RunInv'
  <1>1. /\ at' = [kind |-> "review", phase |-> at.phase] /\ at.kind = "write"
        /\ bodies' = [bodies EXCEPT ![at.phase] = @ + 1]
        /\ UNCHANGED <<spent, gate, engine, granted, routed>>
    BY Zenon DEF Write, Enter, Here
  <1>2. at.phase \in Index
    BY Zenon DEF RunInv, RunTypes
  <1>3. RunTypes'
    BY <1>1, <1>2 DEF RunInv, RunTypes
  <1>4. GateFits'
    BY <1>1, <1>2, Zenon DEF RunInv, GateFits
  <1>5. PassedFits'
    <2>1. \A j \in Index : j < at.phase \/ at.kind = "done" => bodies'[j] = bodies[j]
      BY <1>1, <1>2 DEF RunInv, RunTypes, Index
    <2> QED BY <1>1, <2>1, PassedStays, SameEngine, Zenon DEF RunInv
  <1>6. GateIsAnswered' /\ RevisionsAreBounded'
    BY <1>1, Zenon DEF RunInv, GateIsAnswered, RevisionsAreBounded
  <1> QED BY <1>3, <1>4, <1>5, <1>6, Zenon DEF RunInv

LEMMA ReviewFits == ASSUME RunInv, NEW asked \in BOOLEAN, Review(asked) PROVE RunInv'
  <1> DEFINE used == spent[at.phase] + (IF asked THEN 1 ELSE 0)
             again == RevisionGranted(asked, used)
  <1>1. /\ at' = [kind |-> IF again THEN "write" ELSE "submit", phase |-> at.phase]
        /\ at.kind = "review"
        /\ spent' = [spent EXCEPT ![at.phase] = used]
        /\ granted' = IF again THEN granted + 1 ELSE granted
        /\ UNCHANGED <<bodies, gate, engine, routed>>
    BY Zenon DEF Review, Enter, Here
  <1>2. at.phase \in Index /\ granted \in Nat /\ spent \in [Index -> Nat] /\ spent[at.phase] \in Nat
    BY Zenon DEF RunInv, RunTypes
  <1>3. used \in Nat /\ spent[at.phase] <= used /\ spent'[at.phase] = used
    BY <1>1, <1>2
  <1>a. again => asked /\ used = spent[at.phase] + 1 /\ used <= Budget
    BY Zenon DEF RevisionGranted
  <1>b. granted <= spent[at.phase] /\ granted <= Budget + 1
    BY Zenon DEF RunInv, GateFits, RevisionsAreBounded
  <1>c. again \/ ~again
    OBVIOUS
  <1> HIDE DEF used, again
  <1>d. granted' \in Nat /\ granted' <= used /\ granted' <= Budget + 1 /\ (again => granted' # 0)
    BY <1>1, <1>2, <1>3, <1>a, <1>b, PhasesAssumption
  <1>e. /\ at'.phase = at.phase /\ at'.kind \in {"write", "submit"}
        /\ at'.kind = "write" => again
        /\ at' \in [kind : {"clarify", "research", "write", "review", "submit", "gate", "done"},
                    phase : Index]
    BY <1>1, <1>2, Zenon
  <1>4. RunTypes'
    BY <1>1, <1>2, <1>3, <1>d, <1>e, Zenon DEF RunInv, RunTypes
  <1>5. GateFits'
    BY <1>3, <1>d, <1>e, Zenon DEF GateFits
  <1>6. PassedFits'
    BY <1>1, <1>e, PassedStays, SameEngine, Zenon DEF RunInv
  <1>7. GateIsAnswered' /\ RevisionsAreBounded'
    BY <1>d, <1>e, Zenon DEF GateIsAnswered, RevisionsAreBounded
  <1> QED BY <1>4, <1>5, <1>6, <1>7, Zenon DEF RunInv

LEMMA SubmitFits == ASSUME RunInv, Submit PROVE RunInv'
  <1>1. /\ at' = [kind |-> "gate", phase |-> at.phase] /\ at.kind = "submit"
        /\ engine' = Proposed(Current) /\ gate' = Current
        /\ spent' = [spent EXCEPT ![at.phase] = 0] /\ granted' = 0
        /\ UNCHANGED <<bodies, routed>>
    BY Zenon DEF Submit, Enter, Here
  <1>2. at.phase \in Index
    BY Zenon DEF RunInv, RunTypes
  <1>3. Current \in Names /\ Current' = Current
    BY <1>1, <1>2, Zenon DEF RunInv, RunTypes, Current, Names
  <1>4. RunTypes'
    BY <1>1, <1>2, <1>3, Zenon DEF RunInv, RunTypes
  <1>5. GateFits'
    BY <1>1, <1>2, <1>3 DEF RunInv, RunTypes, GateFits
  <1>6. PassedFits'
    <2>1. EngineKeeps
      BY <1>1, ProposedKeeps, Zenon
    <2> QED BY <1>1, <2>1, PassedStays, Zenon DEF RunInv
  <1>7. GateIsAnswered' /\ RevisionsAreBounded'
    BY <1>1, PhasesAssumption DEF GateIsAnswered, RevisionsAreBounded
  <1> QED BY <1>4, <1>5, <1>6, <1>7, Zenon DEF RunInv

LEMMA SubmitRefusedFits == ASSUME RunInv, SubmitRefused PROVE RunInv'
  <1>1. UNCHANGED <<bodies, gate, engine, routed>>
    BY Zenon DEF SubmitRefused
  <1>2. at.phase \in Index /\ granted \in Nat /\ spent \in [Index -> Nat] /\ spent[at.phase] \in Nat
    BY Zenon DEF RunInv, RunTypes
  <1>3. CASE RevisionGranted(TRUE, spent[at.phase])
    <2>1. /\ at' = [kind |-> "write", phase |-> at.phase]
          /\ spent' = [spent EXCEPT ![at.phase] = @ + 1] /\ granted' = granted + 1
          /\ spent[at.phase] <= Budget
      BY <1>3, Zenon DEF SubmitRefused, Enter, RevisionGranted
    <2>2. /\ spent'[at.phase] = spent[at.phase] + 1 /\ spent' \in [Index -> Nat]
          /\ at'.phase = at.phase /\ at'.kind = "write"
          /\ at' \in [kind : {"clarify", "research", "write", "review", "submit", "gate", "done"},
                      phase : Index]
      BY <1>2, <2>1
    <2>3. granted' \in Nat /\ granted' # 0 /\ granted' <= spent'[at.phase] /\ granted' <= Budget + 1
      BY <1>2, <2>1, <2>2, PhasesAssumption DEF RunInv, GateFits
    <2>4. RunTypes'
      BY <1>1, <2>2, <2>3, Zenon DEF RunInv, RunTypes
    <2>5. GateFits'
      BY <2>2, <2>3, Zenon DEF GateFits
    <2>6. PassedFits'
      BY <1>1, <2>2, PassedStays, SameEngine, Zenon DEF RunInv
    <2>7. GateIsAnswered' /\ RevisionsAreBounded'
      BY <2>3, Zenon DEF GateIsAnswered, RevisionsAreBounded
    <2> QED BY <2>4, <2>5, <2>6, <2>7, Zenon DEF RunInv
  <1>4. CASE ~RevisionGranted(TRUE, spent[at.phase])
    BY <1>1, <1>4, RunStays, SameEngine, Zenon DEF SubmitRefused
  <1> QED BY <1>3, <1>4, ZenonT(60)

\* A gate routes on the verdict of its own proposal, which is the last body.
LEMMA ResumeFits == ASSUME PhasesInv, NEW m \in mail, Resume(m) PROVE RunInv' /\ routed' \subseteq Told
  <1>1. /\ UNCHANGED <<bodies, spent, gate, engine, granted>>
        /\ RunInv /\ VerdictsFit /\ EngineKeeps
    BY SameEngine, Zenon DEF Resume, PhasesInv
  <1>2. CASE Here("gate") /\ AnswersGate(m)
    <2>1. /\ at' = AfterGate(m.verdict) /\ routed' = routed \cup {[m EXCEPT !.proposal = gate]}
          /\ at.kind = "gate" /\ m.proposal = gate /\ m \in Told /\ m \in Message
      BY <1>1, <1>2, Zenon DEF Resume, Here, AnswersGate, VerdictsFit, Told
    <2>2. [m EXCEPT !.proposal = gate] = m
      BY <2>1, Zenon DEF Message
    <2>3. routed' \subseteq Told /\ m \in routed'
      BY <1>1, <2>1, <2>2, Zenon DEF VerdictsFit
    <2>4. /\ at.phase \in Index /\ gate = LastBody(at.phase) /\ gate.phase = at.phase /\ granted = 0
          /\ DecidedVerdict(gate) = m.verdict
      BY <1>1, <2>1 DEF RunInv, RunTypes, GateFits, Current, LastBody, Told
    <2>5. /\ at' \in [kind : {"write", "done"}, phase : Index]
          /\ \/ at'.phase = at.phase /\ at'.kind = "write"
             \/ at'.phase = at.phase + 1 /\ at'.kind = "write" /\ m.verdict = "approved"
             \/ at'.phase = at.phase /\ at'.kind = "done" /\ m.verdict = "approved" /\ at.phase = Len(Phases)
      <3>1. CASE m.verdict # "approved"
        BY <2>1, <2>4, <3>1, Zenon DEF AfterGate
      <3>2. CASE m.verdict = "approved" /\ at.phase < Len(Phases)
        BY <2>1, <2>4, <3>2, PhasesAssumption DEF AfterGate, Index
      <3>3. CASE m.verdict = "approved" /\ ~(at.phase < Len(Phases))
        BY <2>1, <2>4, <3>3, PhasesAssumption DEF AfterGate, Index
      <3> QED BY <3>1, <3>2, <3>3, Zenon
    <2>6. RunTypes'
      BY <1>1, <2>5, Zenon DEF RunInv, RunTypes
    <2>7. GateFits'
      BY <1>1, <2>4, <2>5 DEF RunInv, RunTypes, GateFits
    <2>8. PassedFits'
      <3> SUFFICES ASSUME NEW i \in Index, i < at'.phase \/ at'.kind = "done"
                   PROVE  DecidedVerdict(LastBody(i))' = "approved"
        BY Zenon DEF PassedFits
      <3>1. i < at.phase \/ (i = at.phase /\ m.verdict = "approved")
        BY <2>4, <2>5, PhasesAssumption DEF Index
      <3>2. DecidedVerdict(LastBody(i)) = "approved"
        BY <1>1, <2>4, <3>1, Zenon DEF RunInv, PassedFits
      <3> QED BY <1>1, <3>2, Zenon DEF DecidedVerdict, LastBody
    <2>9. GateIsAnswered' /\ RevisionsAreBounded'
      BY <1>1, <2>1, <2>3, Zenon DEF RunInv, GateIsAnswered, RevisionsAreBounded
    <2> QED BY <2>3, <2>6, <2>7, <2>8, <2>9, Zenon DEF RunInv
  <1>3. CASE ~(Here("gate") /\ AnswersGate(m))
    BY <1>1, <1>3, RunStays, Zenon DEF Resume, VerdictsFit
  <1> QED BY <1>2, <1>3, Zenon

\* The engine decides: a proposal it has is one of the run's.
LEMMA DecideFits ==
  ASSUME PhasesInv, NEW p \in Names, NEW verdict \in Verdicts, Decide(p, verdict)
  PROVE  PhasesInv'
  <1> DEFINE told == [proposal |-> p, verdict |-> verdict]
  <1>1. /\ EngineKeeps /\ told \in Told' /\ told \in Message
        /\ outbox' = Append(outbox, told)
        /\ UNCHANGED <<at, bodies, spent, gate, granted, routed, mail, sub, cursor>>
    BY DecideKeeps, ZenonT(60) DEF Decide, phaseRunVars, Told
  <1> HIDE DEF told
  <1>2. RunInv'
    BY <1>1, RunStays, Zenon DEF PhasesInv
  <1>3. /\ outbox \in Seq(Message) /\ Len(outbox) \in Nat
        /\ \A i \in 1..Len(outbox) : outbox[i] \in Told
    BY DEF PhasesInv, VerdictsFit
  <1>4. /\ outbox' \in Seq(Message) /\ Len(outbox') = Len(outbox) + 1
        /\ \A i \in 1..Len(outbox) : outbox'[i] = outbox[i]
        /\ outbox'[Len(outbox) + 1] = told
    BY <1>1, <1>3
  <1>5. \A i \in 1..Len(outbox') : outbox'[i] \in Told'
    <2> SUFFICES ASSUME NEW i \in 1..Len(outbox') PROVE outbox'[i] \in Told'
      OBVIOUS
    <2>1. CASE i \in 1..Len(outbox)
      BY <1>1, <1>3, <1>4, <2>1, ToldGrows, Zenon
    <2>2. CASE i = Len(outbox) + 1
      BY <1>1, <1>4, <2>2, Zenon
    <2> QED BY <1>3, <1>4, <2>1, <2>2
  <1>6. /\ mail' \subseteq Told' /\ routed' \subseteq Told' /\ cursor' \in Nat
        /\ DOMAIN sub' = SubscriberFields
    BY <1>1, ToldGrows, Zenon DEF PhasesInv, VerdictsFit
  <1>7. sub'.pc \in {"prepare", "gate", "claim"} => Held' \in Told'
    BY <1>1, ToldGrows, Zenon DEF PhasesInv, VerdictsFit, Held
  <1>8. VerdictsFit'
    BY <1>4, <1>5, <1>6, <1>7, Zenon DEF VerdictsFit
  <1>9. DOMAIN engine' = DOMAIN engine
    BY Zenon DEF Decide
  <1> QED BY <1>2, <1>8, <1>9, Zenon DEF PhasesInv

\* The subscriber, and what it hands to the worker.
Subscribing ==
    /\ UNCHANGED <<at, bodies, spent, gate, granted, routed, engine, outbox>>
    /\ cursor' \in Nat /\ DOMAIN sub' = SubscriberFields
    /\ mail' \subseteq mail \cup (IF sub.pc = "claim" THEN {Held} ELSE {})
    /\ sub'.pc \in {"prepare", "gate", "claim"} =>
          \/ sub.pc \in {"prepare", "gate", "claim"} /\ Held' = Held
          \/ \E i \in 1..Len(outbox) : Held' = outbox[i]
          \/ Held'.proposal = gate /\ gate \in Names
             /\ Held'.verdict = DecidedVerdict(gate) /\ DecidedVerdict(gate) # "none"

LEMMA SubscribingFits == ASSUME PhasesInv, Subscribing PROVE PhasesInv'
  <1>1. EngineKeeps /\ Told' = Told
    BY SameEngine, Zenon DEF Subscribing, Told, DecidedVerdict
  <1>2. RunInv'
    BY <1>1, RunStays, Zenon DEF PhasesInv, Subscribing
  <1>3. mail' \subseteq Told
    BY Zenon DEF PhasesInv, VerdictsFit, Subscribing
  <1>4. ASSUME sub'.pc \in {"prepare", "gate", "claim"} PROVE Held' \in Told
    <2>1. CASE sub.pc \in {"prepare", "gate", "claim"} /\ Held' = Held
      BY <2>1, Zenon DEF PhasesInv, VerdictsFit
    <2>2. CASE \E i \in 1..Len(outbox) : Held' = outbox[i]
      BY <2>2, Zenon DEF PhasesInv, VerdictsFit
    <2>3. CASE /\ Held'.proposal = gate /\ gate \in Names
               /\ Held'.verdict = DecidedVerdict(gate) /\ DecidedVerdict(gate) # "none"
      <3>1. DecidedVerdict(gate) \in {"approved", "rejected", "request_changes"}
        BY <2>3, Zenon DEF DecidedVerdict
      <3>2. Held' = [proposal |-> gate, verdict |-> DecidedVerdict(gate)]
        BY <2>3, Zenon DEF Held
      <3>3. Held' \in Message
        BY <2>3, <3>1, <3>2, Zenon DEF Message
      <3> QED BY <2>3, <3>3, Zenon DEF Told
    <2> QED BY <1>4, <2>1, <2>2, <2>3, Zenon DEF Subscribing
  <1>5. VerdictsFit'
    BY <1>1, <1>3, <1>4, Zenon DEF PhasesInv, VerdictsFit, Subscribing
  <1> QED BY <1>2, <1>5, Zenon DEF PhasesInv, Subscribing

\* What an update of its place or of its freshness leaves of the subscriber.
LEMMA HeldKept ==
  ASSUME DOMAIN sub = SubscriberFields, NEW pc,
         sub' = Touched \/ sub' = [sub EXCEPT !.pc = pc] \/ sub' = [sub EXCEPT !.pc = pc, !.fresh = TRUE]
  PROVE  Held' = Held /\ DOMAIN sub' = SubscriberFields /\ sub'.pc \in {sub.pc, pc}
  <1>1. CASE sub' = Touched
    BY <1>1, Zenon DEF Held, Touched, SubscriberFields
  <1>2. CASE sub' = [sub EXCEPT !.pc = pc]
    BY <1>2, Zenon DEF Held, SubscriberFields
  <1>3. CASE sub' = [sub EXCEPT !.pc = pc, !.fresh = TRUE]
    BY <1>3, Zenon DEF Held, SubscriberFields
  <1> QED BY <1>1, <1>2, <1>3, Zenon

LEMMA NewFields ==
  ASSUME NEW pc, NEW proposal, NEW verdict, NEW event, NEW fresh,
         sub' = [pc |-> pc, proposal |-> proposal, verdict |-> verdict, event |-> event, fresh |-> fresh]
  PROVE  /\ DOMAIN sub' = SubscriberFields /\ sub'.pc = pc
         /\ Held' = [proposal |-> proposal, verdict |-> verdict]
  BY Zenon DEF SubscriberFields, Held

LEMMA SubscriberSteps ==
  ASSUME PhasesInv,
         \/ SubscriberStep \/ HandleGap \/ ClaimAndDispatch(FALSE) \/ SubscriberDies
         \/ RecordPause \/ (\E p \in DOMAIN engine : SettleReceipt(p) \/ LeaseExpires(p))
  PROVE  Subscribing
  <1>1. /\ outbox \in Seq(Message) /\ cursor \in Nat /\ Len(outbox) \in Nat
        /\ DOMAIN sub = SubscriberFields
    BY DEF PhasesInv, VerdictsFit
  <1>2. Here("gate") => gate \in Names
    BY DEF PhasesInv, RunInv, RunTypes, GateFits, Here, Current, Names
  <1>a. sub' = IdleSubscriber => DOMAIN sub' = SubscriberFields /\ sub'.pc = "idle"
    BY NewFields, Zenon DEF IdleSubscriber
  <1>b. EndFrame => DOMAIN sub' = SubscriberFields /\ sub'.pc = "idle" /\ cursor' \in Nat
    BY <1>1, <1>a DEF EndFrame
  <1>c. ASSUME NEW p, NEW verdict, NEW event, Consider(p, verdict, event)
        PROVE  DOMAIN sub' = SubscriberFields /\ Held' = [proposal |-> p, verdict |-> verdict]
    BY <1>c, NewFields, Zenon DEF Consider
  <1>d. ASSUME Here("gate"), DecidedVerdict(gate) # "none", Consider(gate, DecidedVerdict(gate), FALSE)
        PROVE  /\ DOMAIN sub' = SubscriberFields
               /\ Held'.proposal = gate /\ gate \in Names
               /\ Held'.verdict = DecidedVerdict(gate) /\ DecidedVerdict(gate) # "none"
    <2>1. DOMAIN sub' = SubscriberFields /\ Held' = [proposal |-> gate, verdict |-> DecidedVerdict(gate)]
      BY <1>c, <1>d, ZenonT(60)
    <2> QED BY <1>2, <1>d, <2>1, Zenon
  <1>3. CASE TakeEvent
    <2>1. /\ UNCHANGED <<at, bodies, spent, gate, granted, routed, engine, outbox, mail>>
          /\ cursor < Len(outbox)
      BY <1>3, Zenon DEF TakeEvent, phaseRunVars
    <2>a. cursor + 1 \in 1..Len(outbox)
      BY <1>1, <2>1
    <2>b. cursor' \in Nat
      <3>1. cursor' = cursor \/ cursor' = cursor + 1
        <4>1. CASE outbox[cursor + 1].proposal \in rows.open
          BY <1>3, <4>1, Zenon DEF TakeEvent
        <4>2. CASE outbox[cursor + 1].proposal \notin rows.open
          BY <1>3, <4>2, Zenon DEF TakeEvent
        <4> QED BY <4>1, <4>2, Zenon
      <3> QED BY <1>1, <3>1
    <2>2. outbox[cursor + 1] \in Message
      BY <1>1, <2>a
    <2>3. CASE outbox[cursor + 1].proposal \in rows.open
      <3>1. /\ DOMAIN sub' = SubscriberFields
            /\ Held' = [proposal |-> outbox[cursor + 1].proposal, verdict |-> outbox[cursor + 1].verdict]
        BY <1>3, <1>c, <2>3, ZenonT(60) DEF TakeEvent
      <3>2. Held' = outbox[cursor + 1]
        BY <2>2, <3>1, Zenon DEF Message
      <3> QED BY <2>1, <2>a, <2>b, <3>1, <3>2, Zenon DEF Subscribing
    <2>4. CASE outbox[cursor + 1].proposal \notin rows.open
      <3>1. sub'.pc = "idle" /\ DOMAIN sub' = SubscriberFields
        BY <1>3, <1>a, <2>4, Zenon DEF TakeEvent
      <3> QED BY <2>1, <2>b, <3>1, Zenon DEF Subscribing
    <2> QED BY <2>3, <2>4, Zenon
  <1>4. CASE Reconcile
    <2>1. UNCHANGED <<at, bodies, spent, gate, granted, routed, engine, outbox, mail, cursor>>
      BY <1>4, Zenon DEF Reconcile, phaseRunVars
    <2> QED BY <1>1, <1>4, <1>d, <2>1, Zenon DEF Subscribing, Reconcile
  <1>5. CASE HandleGap
    <2>1. UNCHANGED <<at, bodies, spent, gate, granted, routed, engine, outbox, mail>> /\ cursor' \in Nat
      BY <1>1, <1>5, Zenon DEF HandleGap, phaseRunVars
    <2>2. CASE Here("gate") /\ DecidedVerdict(gate) # "none"
      BY <1>5, <1>d, <2>1, <2>2, ZenonT(60) DEF Subscribing, HandleGap
    <2>3. CASE ~(Here("gate") /\ DecidedVerdict(gate) # "none")
      <3>1. sub' = sub
        BY <1>5, <2>3, ZenonT(60) DEF HandleGap
      <3> QED BY <1>1, <2>1, <3>1, ZenonT(60) DEF Subscribing, Held
    <2> QED BY <2>2, <2>3, Zenon
  <1>6. CASE ReadExpectation
    <2>1. Held' = Held /\ sub.pc = "prepare" /\ DOMAIN sub' = SubscriberFields
      BY <1>1, <1>6, HeldKept, ZenonT(60) DEF ReadExpectation
    <2>2. UNCHANGED <<at, bodies, spent, gate, granted, routed, engine, outbox, mail, cursor>>
      BY <1>6, Zenon DEF ReadExpectation, phaseRunVars
    <2> QED BY <1>1, <2>1, <2>2, Zenon DEF Subscribing
  <1>7. CASE ReadGate
    <2>1. UNCHANGED <<at, bodies, spent, gate, granted, routed, engine, outbox, mail>>
      BY <1>7, Zenon DEF ReadGate, phaseRunVars
    <2>2. CASE gate = sub.proposal
      <3>1. Held' = Held /\ sub.pc = "gate" /\ cursor' = cursor /\ DOMAIN sub' = SubscriberFields
        BY <1>1, <1>7, <2>2, HeldKept, ZenonT(60) DEF ReadGate
      <3> QED BY <1>1, <2>1, <3>1, Zenon DEF Subscribing
    <2>3. CASE gate # sub.proposal
      <3>1. EndFrame
        BY <1>7, <2>3, Zenon DEF ReadGate
      <3> QED BY <1>b, <2>1, <3>1, Zenon DEF Subscribing
    <2> QED BY <2>2, <2>3, Zenon
  <1>8. ASSUME NEW delivered \in BOOLEAN, ClaimAndDispatch(delivered) PROVE Subscribing
    <2>1. /\ UNCHANGED <<at, bodies, spent, gate, granted, routed, engine, outbox, cursor>>
          /\ sub.pc = "claim"
      BY <1>8, Zenon DEF ClaimAndDispatch, phaseRunVars
    <2>2. mail' \subseteq mail \cup {Held}
      BY <1>8, Zenon DEF ClaimAndDispatch, Held
    <2>3. Held' = Held /\ DOMAIN sub' = SubscriberFields
      BY <1>1, <1>8, HeldKept, ZenonT(60) DEF ClaimAndDispatch
    <2> QED BY <1>1, <2>1, <2>2, <2>3, Zenon DEF Subscribing
  <1>9. CASE AdvanceCursor
    <2>1. UNCHANGED <<at, bodies, spent, gate, granted, routed, engine, outbox, mail>> /\ EndFrame
      BY <1>9, Zenon DEF AdvanceCursor, phaseRunVars
    <2> QED BY <1>b, <2>1, Zenon DEF Subscribing
  <1>10. CASE SubscriberDies
    <2>1. /\ UNCHANGED <<at, bodies, spent, gate, granted, routed, engine, outbox, mail, cursor>>
          /\ sub' = IdleSubscriber
      BY <1>10, Zenon DEF SubscriberDies, phaseRunVars
    <2> QED BY <1>1, <1>a, <2>1, Zenon DEF Subscribing
  <1>e. ASSUME UNCHANGED <<at, bodies, spent, gate, granted, routed, engine, outbox, mail, cursor>>,
               sub' = Touched
        PROVE  Subscribing
    <2>1. Held' = Held /\ DOMAIN sub' = SubscriberFields /\ sub'.pc = sub.pc
      <3>1. sub'.pc \in {sub.pc, sub.pc}
        BY <1>1, <1>e, HeldKept, ZenonT(60)
      <3> QED BY <1>1, <1>e, <3>1, HeldKept, Zenon
    <2> QED BY <1>1, <1>e, <2>1, Zenon DEF Subscribing
  <1>11. CASE RecordPause
    BY <1>11, <1>e, Zenon DEF RecordPause, phaseRunVars
  <1>12. ASSUME NEW p \in DOMAIN engine, SettleReceipt(p) PROVE Subscribing
    BY <1>12, <1>e, Zenon DEF SettleReceipt, phaseRunVars
  <1>13. ASSUME NEW p \in DOMAIN engine, LeaseExpires(p) PROVE Subscribing
    <2>1. UNCHANGED <<at, bodies, spent, gate, granted, routed, engine, outbox, mail, cursor, sub>>
      BY <1>13, ZenonT(60) DEF LeaseExpires, phaseRunVars
    <2> QED BY <1>1, <2>1, Zenon DEF Subscribing, Held
  <1> QED BY <1>3, <1>4, <1>5, <1>6, <1>7, <1>8, <1>9, <1>10, <1>11, <1>12, <1>13, ZenonT(60) DEF SubscriberStep

LEMMA PhasesInvStep == PhasesInv /\ [PhasesNext]_phaseVars => PhasesInv'
  <1> SUFFICES ASSUME PhasesInv, [PhasesNext]_phaseVars PROVE PhasesInv'
    OBVIOUS
  <1>1. RunInv /\ VerdictsFit /\ DOMAIN engine \subseteq Names
    BY Zenon DEF PhasesInv
  \* A step of the run leaves the verdicts alone.
  <1>2. ASSUME RunInv', UNCHANGED <<outbox, cursor, mail, routed, sub, engine>> PROVE PhasesInv'
    BY <1>1, <1>2, SameEngine, VerdictsStay, Zenon DEF PhasesInv
  <1>3. CASE Clarify
    <2>1. UNCHANGED <<outbox, cursor, mail, routed, sub, engine>>
      BY <1>3, Zenon DEF Clarify
    <2> QED BY <1>1, <1>2, <1>3, <2>1, ClarifyFits, Zenon
  <1>4. ASSUME NEW t, NEW valid, Research(t, valid) PROVE PhasesInv'
    <2>1. UNCHANGED <<outbox, cursor, mail, routed, sub, engine>>
      BY <1>4, Zenon DEF Research
    <2> QED BY <1>1, <1>2, <1>4, <2>1, ResearchFits, Zenon
  <1>5. CASE Write
    <2>1. UNCHANGED <<outbox, cursor, mail, routed, sub, engine>>
      BY <1>5, Zenon DEF Write
    <2> QED BY <1>1, <1>2, <1>5, <2>1, WriteFits, Zenon
  <1>6. ASSUME NEW asked \in BOOLEAN, Review(asked) PROVE PhasesInv'
    <2>1. UNCHANGED <<outbox, cursor, mail, routed, sub, engine>>
      BY <1>6, Zenon DEF Review
    <2> QED BY <1>1, <1>2, <1>6, <2>1, ReviewFits, Zenon
  <1>7. CASE Submit \/ SubmitInterrupted
    <2>1. UNCHANGED <<outbox, cursor, mail, routed, sub>> /\ engine' = Proposed(Current)
      BY <1>7, Zenon DEF Submit, SubmitInterrupted, phaseRunVars
    <2>2. EngineKeeps
      BY <2>1, ProposedKeeps, Zenon
    <2>3. VerdictsFit'
      BY <1>1, <2>1, <2>2, VerdictsStay, Zenon
    <2>4. DOMAIN engine' \subseteq Names
      <3>1. Current \in Names
        BY <1>1, Zenon DEF RunInv, RunTypes, Current, Names
      <3> QED BY <1>1, <2>1, <3>1, Zenon DEF Proposed
    <2>5. CASE Submit
      BY <1>1, <2>3, <2>4, <2>5, SubmitFits, Zenon DEF PhasesInv
    <2>6. CASE SubmitInterrupted
      <3>1. UNCHANGED <<at, bodies, spent, gate, granted, routed>>
        BY <2>6, Zenon DEF SubmitInterrupted, phaseRunVars
      <3> QED BY <1>1, <2>2, <2>3, <2>4, <3>1, RunStays, Zenon DEF PhasesInv
    <2> QED BY <1>7, <2>5, <2>6, Zenon
  <1>8. CASE SubmitRefused
    <2>1. UNCHANGED <<outbox, cursor, mail, routed, sub, engine>>
      BY <1>8, Zenon DEF SubmitRefused
    <2> QED BY <1>1, <1>2, <1>8, <2>1, SubmitRefusedFits, Zenon
  <1>9. CASE NodeFails \/ Complete
    <2>1. UNCHANGED <<at, bodies, spent, gate, granted, outbox, cursor, mail, routed, sub, engine>>
      BY <1>9, Zenon DEF NodeFails, Complete
    <2> QED BY <1>1, <1>2, <2>1, RunStays, SameEngine, Zenon
  \* The mail is taken, and is lost.
  <1>10. ASSUME RunInv', mail' \subseteq mail, routed' \subseteq Told,
                UNCHANGED <<outbox, cursor, sub, engine>>
         PROVE  PhasesInv'
    <2>1. Told' = Told /\ Held' = Held
      BY <1>10, Zenon DEF Told, DecidedVerdict, Held
    <2>2. VerdictsFit'
      BY <1>1, <1>10, <2>1, Zenon DEF VerdictsFit
    <2> QED BY <1>1, <1>10, <2>2, Zenon DEF PhasesInv
  <1>11. ASSUME NEW m \in mail, Resume(m) PROVE PhasesInv'
    <2>1. mail' \subseteq mail /\ UNCHANGED <<outbox, cursor, sub, engine>>
      BY <1>11, Zenon DEF Resume
    <2> QED BY <1>10, <1>11, <2>1, ResumeFits, Zenon
  <1>12. CASE PhaseWorkerDies
    <2>1. /\ mail' \subseteq mail
          /\ UNCHANGED <<at, bodies, spent, gate, granted, routed, outbox, cursor, sub, engine>>
      BY <1>12, Zenon DEF PhaseWorkerDies, phaseRunVars
    <2> QED BY <1>1, <1>10, <2>1, RunStays, SameEngine, Zenon DEF VerdictsFit
  <1>13. ASSUME NEW p \in DOMAIN engine, Apply(p) PROVE PhasesInv'
    <2>1. /\ EngineKeeps /\ DOMAIN engine' = DOMAIN engine
          /\ UNCHANGED <<at, bodies, spent, gate, granted, routed, outbox, cursor, mail, sub>>
      BY <1>13, ApplyKeeps, ZenonT(60) DEF Apply, phaseRunVars
    <2> QED BY <1>1, <2>1, RunStays, VerdictsStay, Zenon DEF PhasesInv
  <1>14. ASSUME NEW p \in DOMAIN engine, NEW verdict \in Verdicts, Decide(p, verdict) PROVE PhasesInv'
    BY <1>1, <1>14, DecideFits, Zenon
  <1>15. CASE \/ SubscriberStep \/ HandleGap \/ ClaimAndDispatch(FALSE) \/ SubscriberDies
              \/ RecordPause \/ (\E p \in DOMAIN engine : SettleReceipt(p) \/ LeaseExpires(p))
    BY <1>15, SubscriberSteps, SubscribingFits, ZenonT(60)
  <1>16. CASE UNCHANGED phaseVars
    <2>1. UNCHANGED <<at, bodies, spent, gate, granted, routed, outbox, cursor, mail, sub, engine>>
      BY <1>16, Zenon DEF phaseVars
    <2> QED BY <1>1, <1>2, <2>1, RunStays, SameEngine, Zenon
  <1> QED
    BY <1>3, <1>4, <1>5, <1>6, <1>7, <1>8, <1>9, <1>11, <1>12, <1>13, <1>14, <1>15, <1>16, ZenonT(60)
       DEF PhasesNext, RunStep

LEMMA PhasesInitial == PhasesInit => PhasesInv
  <1> SUFFICES ASSUME PhasesInit PROVE PhasesInv
    OBVIOUS
  <1>1. 1 \in Index /\ 0 \notin Index /\ at.kind \in {"clarify", "research"} /\ at.phase = 1
    BY PhasesAssumption DEF PhasesInit, Index
  <1>2. RunTypes
    BY <1>1, Zenon DEF PhasesInit, RunTypes
  <1>3. GateFits
    BY <1>1 DEF PhasesInit, GateFits
  <1>4. PassedFits
    BY <1>1 DEF PassedFits, Index
  <1>5. GateIsAnswered /\ RevisionsAreBounded
    BY <1>1, PhasesAssumption DEF PhasesInit, GateIsAnswered, RevisionsAreBounded
  <1>6. VerdictsFit
    <2>1. DOMAIN sub = SubscriberFields /\ sub.pc = "idle"
      BY Zenon DEF PhasesInit, IdleSubscriber, SubscriberFields
    <2>2. outbox \in Seq(Message) /\ Len(outbox) = 0 /\ cursor \in Nat /\ mail = {} /\ routed = {}
      BY DEF PhasesInit
    <2> QED BY <2>1, <2>2 DEF VerdictsFit
  <1>7. DOMAIN engine \subseteq Names
    BY DEF PhasesInit
  <1> QED BY <1>2, <1>3, <1>4, <1>5, <1>6, <1>7, Zenon DEF PhasesInv, RunInv

LEMMA PhasesSafe ==
  PhasesInv => PassedIsApproved /\ RoutedAsDecided /\ GateIsAnswered /\ RevisionsAreBounded
  <1> SUFFICES ASSUME PhasesInv
               PROVE  PassedIsApproved /\ RoutedAsDecided /\ GateIsAnswered /\ RevisionsAreBounded
    OBVIOUS
  <1>1. routed \subseteq Told
    BY Zenon DEF PhasesInv, VerdictsFit
  <1>2. ASSUME NEW r \in routed PROVE DecidedVerdict(r.proposal) = r.verdict
    BY <1>1, Zenon DEF Told
  <1>3. ASSUME NEW r \in routed, NEW s \in routed, r.proposal = s.proposal PROVE r = s
    <2>1. r \in Message /\ s \in Message /\ r.verdict = s.verdict
      BY <1>1, <1>3, Zenon DEF Told
    <2> QED BY <1>3, <2>1 DEF Message
  <1> QED BY <1>2, <1>3, PassedIs, Zenon DEF PhasesInv, RunInv, RoutedAsDecided

\* However often a verdict is replayed, reconciled, redelivered or lost, a phase
\* is passed only on the engine's approval of its last body, a gate is left only
\* on its own answer, and a writer is sent back within the budget of its phase.
THEOREM PhasesTheorem ==
  PhasesSpec => [](PassedIsApproved /\ RoutedAsDecided /\ GateIsAnswered /\ RevisionsAreBounded)
  BY PhasesInitial, PhasesInvStep, PhasesSafe, PTL DEF PhasesSpec

-----------------------------------------------------------------------------
(* TeamGraph: the gates of the supervisor.                                   *)

Nodes == {Supervisor, PlanApproval, Completion}
         \cup {Mount(w) : w \in Team} \cup {Agent(w) : w \in Team}

GraphTypes ==
    /\ node \in Nodes
    /\ counters \in [reasks : Nat, blocks : Nat, loops : Nat] /\ counters.blocks <= FinishBlockLimit
    /\ steps \in Nat

\* What leads to a node.
NodeFits ==
    /\ topology \in {"star", "pipeline", "pipeline_loop"}
    /\ topology = "star" => FinishBlockBudgetFits
    /\ topology = "pipeline_loop" => Len(Order) > 1
    /\ node = PlanApproval => "plan" \in vault /\ next \in Team
    /\ topology = "star" /\ node = Completion =>
          ~errors /\ (policy.feature /\ "exec" \in vault => "audit" \in vault)
    /\ graphEnded = "completed" => node = Completion

\* The completion gate refuses FINISH outright: nobody owns the phase that has
\* to act, or its own prerequisite is missing.
FinishRefused(index) ==
    \/ FinishNeeds(index) # "nothing" /\ Owner(FinishNeeds(index)) = "none"
    \/ FinishNeeds(index) = "exec" /\ policy.feature /\ "plan" \notin index

\* A supervisor that has answered nothing but FINISH: what the blocked ones have
\* cost so far, and that a FINISH once refused outright is refused from then on.
Insisting == topology = "star" /\ onlyFinish /\ graphEnded = "no"

InsistingFits ==
    Insisting =>
        /\ counters.blocks > 0 => \E w \in Team : PhaseOf[w] \in {"exec", "audit"}
        /\ counters.blocks > 0 /\ errors =>
              Owner("exec") # "none" /\ (policy.feature => "plan" \in vault)
        /\ node = Supervisor => \/ steps <= 3 * counters.blocks
                                \/ counters.reasks > 0 /\ FinishRefused(Refreshed)
        /\ node.kind = "mount" => counters.blocks > 0 /\ steps <= 3 * counters.blocks - 2
        /\ node.kind = "agent" => counters.blocks > 0 /\ steps <= 3 * counters.blocks - 1
        /\ node = PlanApproval => counters.blocks > 0
        /\ node = Completion => counters.blocks = 0

GraphInv ==
    /\ GraphTypes /\ NodeFits /\ InsistingFits
    /\ ExecutionIsApproved /\ BlockedFinishIsReported

\* Two nodes of different kinds differ.
LEMMA NodeKinds ==
  /\ Supervisor.kind = "supervisor" /\ PlanApproval.kind = "plan_approval"
  /\ Completion.kind = "completion"
  /\ \A w \in Team : /\ Mount(w).kind = "mount" /\ Mount(w).agent = w
                     /\ Agent(w).kind = "agent" /\ Agent(w).agent = w
  BY Zenon DEF Supervisor, PlanApproval, Completion, Mount, Agent

\* The worker that owns a phase is of the team and of that phase.
LEMMA OwnerIs ==
  ASSUME NEW phase
  PROVE  /\ Owner(phase) = "none" <=> ~\E w \in Team : PhaseOf[w] = phase
         /\ Owner(phase) # "none" => Owner(phase) \in Team /\ PhaseOf[Owner(phase)] = phase
  <1> DEFINE Has == {i \in 1..Len(Order) : PhaseOf[Order[i]] = phase}
  <1>1. Len(Order) \in Nat /\ "none" \notin Team
    BY TeamAssumption
  <1>2. (\E w \in Team : PhaseOf[w] = phase) <=> Has # {}
    BY Zenon DEF Team
  <1>3. CASE Has = {}
    BY <1>2, <1>3, Zenon DEF Owner
  <1>4. CASE Has # {}
    <2>1. Has \subseteq Nat
      BY <1>1
    <2>2. \E i \in Has : \A j \in Has : ~(<<j, i>> \in OpToRel(<, Nat))
      <3> HIDE DEF Has
      <3> QED BY <1>4, <2>1, WFMin, NatLessThanWellFounded, Zenon
    <2>3. PICK i \in Has : \A j \in Has : ~(<<j, i>> \in OpToRel(<, Nat))
      BY <2>2, Zenon
    <2>4. \A j \in 1..(i - 1) : PhaseOf[Order[j]] # phase
      <3> SUFFICES ASSUME NEW j \in 1..(i - 1), PhaseOf[Order[j]] = phase PROVE FALSE
        OBVIOUS
      <3>1. j \in Has /\ j < i /\ j \in Nat /\ i \in Nat
        BY <1>1, <2>1
      <3>2. <<j, i>> \in OpToRel(<, Nat)
        BY <3>1, Zenon DEF OpToRel
      <3> QED BY <2>3, <3>1, <3>2, Zenon
    <2>5. \E k \in 1..Len(Order) : /\ PhaseOf[Order[k]] = phase
                                   /\ \A j \in 1..(k - 1) : PhaseOf[Order[j]] # phase
      BY <2>4, Zenon
    <2>6. \E k \in 1..Len(Order) : PhaseOf[Order[k]] = phase /\ Owner(phase) = Order[k]
      BY <2>5, ZenonT(60) DEF Owner
    <2>7. Owner(phase) \in Team /\ PhaseOf[Owner(phase)] = phase
      BY <2>6, Zenon DEF Team
    <2> QED BY <1>1, <2>7, Zenon
  <1> QED BY <1>3, <1>4, Zenon

Answers == Team \cup {"FINISH", "unclear"}

\* What has to act before FINISH.
LEMMA NeedsIs ==
  ASSUME NEW index
  PROVE  /\ errors => FinishNeeds(index) = "exec"
         /\ ~errors /\ policy.feature /\ "exec" \in index /\ "audit" \notin index
               => FinishNeeds(index) = "audit"
         /\ ~errors /\ ~(policy.feature /\ "exec" \in index /\ "audit" \notin index)
               => FinishNeeds(index) = "nothing"
  BY Zenon DEF FinishNeeds

\* What the supervisor makes of an answer: it is refused; FINISH is rerouted to
\* the owner of the phase that has to act; FINISH stands; or a worker is named.
LEMMA DecisionIs ==
  ASSUME NEW answer \in Answers, NEW index
  PROVE  LET d == Decision(answer, index) IN
         \/ d.refused
         \/ /\ answer = "FINISH" /\ ~FinishRefused(index)
            /\ FinishNeeds(index) \in {"exec", "audit"} /\ Owner(FinishNeeds(index)) # "none"
            /\ ~d.refused /\ d = Gated(Owner(FinishNeeds(index)), TRUE, index)
         \/ /\ answer = "FINISH" /\ FinishNeeds(index) = "nothing"
            /\ ~d.refused /\ d = Gated("FINISH", FALSE, index)
         \/ answer \in Team /\ ~d.refused /\ d = Gated(answer, FALSE, index)
  <1> DEFINE d == Decision(answer, index)
             need == FinishNeeds(index)
  <1>1. need \in {"exec", "audit", "nothing"}
    BY NeedsIs, Zenon
  <1>2. CASE answer = "unclear"
    BY <1>2, ZenonT(60) DEF Decision, Refusal
  <1>3. CASE answer = "FINISH" /\ need # "nothing"
    <2>1. CASE Owner(need) = "none"
      BY <1>3, <2>1, ZenonT(60) DEF Decision, Refusal
    <2>2. CASE Owner(need) # "none"
      <3>1. d = Gated(Owner(need), TRUE, index)
        BY <1>3, <2>2, Zenon DEF Decision
      <3>2. d.refused <=> GateRefuses(Owner(need), index)
        BY <3>1 DEF Gated
      <3>3. Owner(need) \in Team /\ PhaseOf[Owner(need)] = need
        BY <2>2, OwnerIs, Zenon
      <3>4. need = "exec" /\ policy.feature /\ "plan" \notin index => GateRefuses(Owner(need), index)
        BY <3>3 DEF GateRefuses, PhaseFor, HardPrerequisite
      <3>5. ~d.refused => ~FinishRefused(index)
        BY <2>2, <3>2, <3>4, Zenon DEF FinishRefused
      <3> QED BY <1>1, <1>3, <2>2, <3>1, <3>5, ZenonT(60)
    <2> QED BY <2>1, <2>2, ZenonT(60)
  <1>4. CASE answer = "FINISH" /\ need = "nothing"
    <2>1. d = Gated("FINISH", FALSE, index)
      BY <1>4, Zenon DEF Decision
    <2> QED BY <1>4, <2>1, ZenonT(60)
  <1>5. CASE answer \in Team
    <2>1. answer # "FINISH" /\ answer # "unclear"
      BY <1>5, TeamAssumption, Zenon
    <2>2. d = Gated(answer, FALSE, index)
      BY <2>1, Zenon DEF Decision
    <2> QED BY <1>5, <2>2, ZenonT(60)
  <1> QED BY <1>2, <1>3, <1>4, <1>5, ZenonT(60) DEF Answers

\* A FINISH that is refused is one the gate refuses outright.
LEMMA RefusedIs ==
  ASSUME NEW index, Decision("FINISH", index).refused
  PROVE  FinishRefused(index)
  <1> DEFINE d == Decision("FINISH", index)
             need == FinishNeeds(index)
  <1>1. need \in {"exec", "audit", "nothing"}
    BY NeedsIs, Zenon
  <1>2. CASE need = "nothing"
    <2>1. d = Gated("FINISH", FALSE, index)
      BY <1>2, Zenon DEF Decision
    <2>2. GateRefuses("FINISH", index)
      BY <2>1 DEF Gated
    <2>3. PhaseFor("FINISH") = "none"
      BY TeamAssumption, Zenon DEF PhaseFor
    <2> QED BY <2>2, <2>3, Zenon DEF GateRefuses, HardPrerequisite
  <1>3. CASE need # "nothing" /\ Owner(need) # "none"
    <2>1. d = Gated(Owner(need), TRUE, index)
      BY <1>3, Zenon DEF Decision
    <2>2. GateRefuses(Owner(need), index)
      BY <2>1 DEF Gated
    <2>3. Owner(need) \in Team /\ PhaseOf[Owner(need)] = need
      BY <1>3, OwnerIs, Zenon
    <2>4. PhaseFor(Owner(need)) = need
      BY <2>3, Zenon DEF PhaseFor
    <2>5. CASE need = "exec"
      BY <2>2, <2>4, <2>5 DEF GateRefuses, HardPrerequisite, FinishRefused
    <2>6. CASE need = "audit"
      <3>1. "exec" \notin index
        BY <2>2, <2>4, <2>6 DEF GateRefuses, HardPrerequisite
      <3>2. FALSE
        BY <2>6, <3>1, NeedsIs, Zenon
      <3> QED BY <3>2, Zenon
    <2> QED BY <1>1, <1>3, <2>5, <2>6, Zenon
  <1>4. CASE need # "nothing" /\ Owner(need) = "none"
    BY <1>4, Zenon DEF FinishRefused
  <1> QED BY <1>2, <1>3, <1>4, Zenon

\* What a gated route says.
LEMMA GatedIs ==
  ASSUME NEW route, NEW blocked \in BOOLEAN, NEW index, ~Gated(route, blocked, index).refused
  PROVE  LET d == Gated(route, blocked, index) IN
         /\ d.route = route /\ (d.blocked <=> blocked)
         /\ d.asks <=> MustAsk(route, index)
         /\ ~GateRefuses(route, index)
  BY Zenon DEF Gated

CounterTypes == [reasks : Nat, blocks : Nat, loops : Nat]

\* A worker is routed to, or a human is asked first.
RoutedTo(w) ==
    /\ w \in Team /\ ~GateRefuses(w, Refreshed)
    /\ \/ MustAsk(w, Refreshed) /\ node' = PlanApproval /\ next' = w
       \/ ~MustAsk(w, Refreshed) /\ node' = Mount(w) /\ approval' = CarriedApproval

\* What a turn of the supervisor comes to.
Stopped == graphEnded' = "routing" /\ UNCHANGED <<node, next, approval, counters>>
AskedAgain(answer) ==
    /\ Decision(answer, Refreshed).refused /\ graphEnded' = "no"
    /\ node' = Supervisor /\ counters' \in CounterTypes /\ counters'.blocks = counters.blocks
    /\ counters'.reasks > 0
Rerouted(answer) ==
    /\ answer = "FINISH" /\ ~FinishRefused(Refreshed) /\ graphEnded' = "no"
    /\ FinishNeeds(Refreshed) \in {"exec", "audit"} /\ RoutedTo(Owner(FinishNeeds(Refreshed)))
    /\ counters' \in CounterTypes /\ counters'.blocks = counters.blocks + 1
    /\ counters'.blocks <= FinishBlockLimit
Finished(answer) ==
    /\ answer = "FINISH" /\ FinishNeeds(Refreshed) = "nothing" /\ graphEnded' = "no"
    /\ node' = Completion /\ counters' \in CounterTypes /\ counters'.blocks = 0
Named(answer) ==
    /\ RoutedTo(answer) /\ graphEnded' = "no"
    /\ counters' \in CounterTypes /\ counters'.blocks = 0

LEMMA TurnOutcomes ==
  ASSUME GraphTypes, NEW answer \in Answers, SupervisorTurn(answer)
  PROVE  Stopped \/ AskedAgain(answer) \/ Rerouted(answer) \/ Finished(answer) \/ Named(answer)
  <1> DEFINE d == Decision(answer, Refreshed)
  <1>1. /\ IF d.refused THEN RefuseRun(d) ELSE Route(d)
        /\ graphEnded = "no"
    BY Zenon DEF SupervisorTurn, Running
  <1>2. counters \in CounterTypes /\ FinishBlockLimit \in Nat /\ counters.blocks \in Nat
    BY TeamAssumption, Zenon DEF GraphTypes, CounterTypes
  <1>3. CASE d.refused
    <2>1. RefuseRun(d)
      BY <1>1, <1>3, Zenon
    <2>2. CASE counters.reasks + 1 > ReaskLimit
      BY <2>1, <2>2, Zenon DEF RefuseRun, FailRun, Stopped
    <2>3. CASE ~(counters.reasks + 1 > ReaskLimit)
      <3>1. counters' = [counters EXCEPT !.reasks = @ + 1] /\ node' = Supervisor /\ UNCHANGED graphEnded
        BY <2>1, <2>3, Zenon DEF RefuseRun
      <3>2. counters' \in CounterTypes /\ counters'.blocks = counters.blocks /\ counters'.reasks > 0
        BY <1>2, <3>1 DEF CounterTypes
      <3> QED BY <1>1, <1>3, <3>1, <3>2, Zenon DEF AskedAgain
    <2> QED BY <2>2, <2>3, Zenon
  <1>4. CASE ~d.refused /\ d.blocked /\ counters.blocks + 1 > FinishBlockLimit
    <2>1. Route(d)
      BY <1>1, <1>4, Zenon
    <2> QED BY <1>4, <2>1, Zenon DEF Route, FailRun, Stopped
  <1>5. CASE ~d.refused /\ ~(d.blocked /\ counters.blocks + 1 > FinishBlockLimit)
    <2>1. Route(d)
      BY <1>1, <1>5, Zenon
    <2>2. /\ counters' = [counters EXCEPT !.reasks = 0, !.blocks = IF d.blocked THEN @ + 1 ELSE 0]
          /\ next' = d.route
          /\ approval' = IF d.asks THEN "pending" ELSE CarriedApproval
          /\ node' = CASE d.asks -> PlanApproval
                       [] ~d.asks /\ d.route = "FINISH" -> Completion
                       [] OTHER -> Mount(d.route)
          /\ graphEnded' = "no"
      BY <1>1, <1>5, <2>1, Zenon DEF Route
    <2> HIDE DEF d
    <2>3. /\ counters' \in CounterTypes
          /\ d.blocked => counters'.blocks = counters.blocks + 1
          /\ ~d.blocked => counters'.blocks = 0
      <3>1. CASE d.blocked
        <4>1. counters' = [counters EXCEPT !.reasks = 0, !.blocks = @ + 1]
          BY <2>2, <3>1, Zenon
        <4>2. counters.blocks + 1 \in Nat
          BY <1>2
        <4>3. counters'.blocks = counters.blocks + 1 /\ counters' \in CounterTypes
          BY <1>2, <4>1, <4>2, Zenon DEF CounterTypes
        <4> QED BY <3>1, <4>3, Zenon
      <3>2. CASE ~d.blocked
        <4>1. counters' = [counters EXCEPT !.reasks = 0, !.blocks = 0]
          BY <2>2, <3>2, Zenon
        <4>2. counters'.blocks = 0 /\ counters' \in CounterTypes
          BY <1>2, <4>1, ZenonT(60) DEF CounterTypes
        <4> QED BY <3>2, <4>2, Zenon
      <3> QED BY <3>1, <3>2, Zenon
    <2>4. ASSUME NEW w \in Team, NEW blocked \in BOOLEAN, d = Gated(w, blocked, Refreshed)
          PROVE  RoutedTo(w) /\ (d.blocked <=> blocked)
      <3>1. /\ d.route = w /\ (d.blocked <=> blocked)
            /\ d.asks <=> MustAsk(w, Refreshed)
            /\ ~GateRefuses(w, Refreshed)
        BY <1>5, <2>4, GatedIs
      <3>2. w # "FINISH"
        BY TeamAssumption, Zenon
      <3>3. CASE d.asks
        BY <2>2, <3>1, <3>3, Zenon DEF RoutedTo
      <3>4. CASE ~d.asks
        <4>1. node' = Mount(w) /\ approval' = CarriedApproval
          BY <2>2, <3>1, <3>2, <3>4, Zenon
        <4> QED BY <3>1, <3>4, <4>1, Zenon DEF RoutedTo
      <3> QED BY <3>1, <3>3, <3>4, Zenon
    <2>5. CASE /\ answer = "FINISH" /\ ~FinishRefused(Refreshed)
               /\ FinishNeeds(Refreshed) \in {"exec", "audit"} /\ Owner(FinishNeeds(Refreshed)) # "none"
               /\ d = Gated(Owner(FinishNeeds(Refreshed)), TRUE, Refreshed)
      <3>1. Owner(FinishNeeds(Refreshed)) \in Team
        BY <2>5, OwnerIs, Zenon
      <3>2. RoutedTo(Owner(FinishNeeds(Refreshed))) /\ d.blocked
        BY <2>4, <2>5, <3>1, ZenonT(60)
      <3>3. counters'.blocks = counters.blocks + 1 /\ counters'.blocks <= FinishBlockLimit
        BY <1>2, <1>5, <2>3, <3>2
      <3> QED BY <2>2, <2>3, <2>5, <3>2, <3>3, Zenon DEF Rerouted
    <2>6. CASE /\ answer = "FINISH" /\ FinishNeeds(Refreshed) = "nothing"
               /\ d = Gated("FINISH", FALSE, Refreshed)
      <3>1. d.route = "FINISH" /\ ~d.blocked /\ (d.asks <=> MustAsk("FINISH", Refreshed))
        BY <1>5, <2>6, GatedIs, ZenonT(60)
      <3>2. ~MustAsk("FINISH", Refreshed)
        BY TeamAssumption, Zenon DEF MustAsk, PhaseFor
      <3>3. node' = Completion
        BY <2>2, <3>1, <3>2, Zenon
      <3> QED BY <2>2, <2>3, <2>6, <3>1, <3>3, ZenonT(60) DEF Finished
    <2>7. CASE answer \in Team /\ d = Gated(answer, FALSE, Refreshed)
      <3>1. RoutedTo(answer) /\ ~d.blocked
        BY <2>4, <2>7, ZenonT(60)
      <3> QED BY <2>2, <2>3, <3>1, Zenon DEF Named
    <2> QED BY <1>5, <2>5, <2>6, <2>7, DecisionIs, ZenonT(60) DEF d
  <1> QED BY <1>3, <1>4, <1>5, Zenon

LEMMA TurnFacts ==
  ASSUME NEW answer, SupervisorTurn(answer)
  PROVE  /\ graphEnded = "no" /\ node = Supervisor /\ steps' = steps + 1 /\ vault' = Refreshed
         /\ UNCHANGED <<topology, policy, errors, vaultDisk>>
         /\ onlyFinish' => onlyFinish /\ answer = "FINISH"
         /\ Refreshed' = Refreshed /\ vault \subseteq Refreshed
  <1>1. /\ graphEnded = "no" /\ node = Supervisor /\ steps' = steps + 1 /\ vault' = Refreshed
        /\ UNCHANGED <<topology, policy, errors, vaultDisk>>
    BY Zenon DEF SupervisorTurn, Running
  <1>2. onlyFinish' => onlyFinish /\ answer = "FINISH"
    BY Zenon DEF SupervisorTurn
  <1>3. CASE policy.feature
    BY <1>1, <1>2, <1>3, Zenon DEF Refreshed
  <1>4. CASE ~policy.feature
    BY <1>1, <1>2, <1>4, Zenon DEF Refreshed
  <1> QED BY <1>3, <1>4, Zenon

\* A worker that is mounted for execution was approved, and has its plan.
LEMMA RoutedIsApproved ==
  ASSUME NEW w, RoutedTo(w), vault' = Refreshed, UNCHANGED policy
  PROVE  /\ ExecutionIsApproved'
         /\ node' \in Nodes
         /\ node' = PlanApproval => "plan" \in vault' /\ next' \in Team
         /\ node' # Completion /\ node' # Supervisor /\ node'.kind # "agent"
         /\ node' = PlanApproval \/ node'.kind = "mount"
  <1>1. CASE MustAsk(w, Refreshed) /\ node' = PlanApproval /\ next' = w
    <2>1. "plan" \in Refreshed /\ w \in Team
      BY <1>1, Zenon DEF MustAsk, RoutedTo
    <2>2. node'.kind = "plan_approval" /\ node' \in Nodes
      BY <1>1, NodeKinds, Zenon DEF Nodes
    <2> QED BY <1>1, <2>1, <2>2, NodeKinds, Zenon DEF ExecutionIsApproved
  <1>2. CASE ~MustAsk(w, Refreshed) /\ node' = Mount(w) /\ approval' = CarriedApproval
    <2>1. w \in Team /\ node'.kind = "mount" /\ node'.agent = w /\ node' \in Nodes
      BY <1>2, NodeKinds, Zenon DEF RoutedTo, Nodes
    <2>2. ASSUME PhaseOf[w] = "exec", policy.feature, ~policy.autonomous
          PROVE  approval' = "approved" /\ "plan" \in Refreshed
      <3>1. PhaseFor(w) = "exec"
        BY <2>1, <2>2, Zenon DEF PhaseFor
      <3>2. "plan" \in Refreshed
        BY <2>2, <3>1 DEF RoutedTo, GateRefuses, HardPrerequisite
      <3>3. approval = "approved"
        BY <1>2, <2>2, <3>1, <3>2, Zenon DEF MustAsk
      <3> QED BY <1>2, <3>2, <3>3, Zenon DEF CarriedApproval
    <2>3. ExecutionIsApproved'
      BY <2>1, <2>2, Zenon DEF ExecutionIsApproved
    <2> QED BY <2>1, <2>3, NodeKinds, Zenon
  <1> QED BY <1>1, <1>2, Zenon DEF RoutedTo

LEMMA SupervisorFits ==
  ASSUME GraphInv, NEW answer \in Answers, SupervisorTurn(answer)
  PROVE  GraphInv'
  <1>1. GraphTypes /\ NodeFits /\ InsistingFits
    BY Zenon DEF GraphInv
  <1>2. /\ graphEnded = "no" /\ node = Supervisor /\ steps' = steps + 1 /\ vault' = Refreshed
        /\ UNCHANGED <<topology, policy, errors, vaultDisk>>
        /\ onlyFinish' => onlyFinish /\ answer = "FINISH"
        /\ Refreshed' = Refreshed /\ vault \subseteq Refreshed
    BY TurnFacts, Zenon
  <1>3. steps \in Nat /\ steps' \in Nat /\ counters.blocks \in Nat /\ counters.blocks <= FinishBlockLimit
    BY <1>1, <1>2 DEF GraphTypes
  <1>4. FinishBlockBudgetFits' <=> FinishBlockBudgetFits
    BY Zenon DEF FinishBlockBudgetFits
  <1>5. ASSUME graphEnded' \in {"no", "routing"} PROVE BlockedFinishIsReported'
    BY <1>5, Zenon DEF BlockedFinishIsReported
  <1>6. CASE Stopped
    <2>1. UNCHANGED <<node, counters>> /\ graphEnded' = "routing"
      BY <1>6, Zenon DEF Stopped
    <2>2. GraphTypes'
      BY <1>1, <1>3, <2>1, Zenon DEF GraphTypes
    <2>3. NodeFits' /\ InsistingFits' /\ ExecutionIsApproved'
      BY <1>1, <1>2, <1>4, <2>1, NodeKinds, Zenon DEF NodeFits, InsistingFits, Insisting, ExecutionIsApproved
    <2> QED BY <1>5, <2>1, <2>2, <2>3, Zenon DEF GraphInv
  <1>7. CASE AskedAgain(answer)
    <2>1. /\ node' = Supervisor /\ graphEnded' = "no" /\ counters' \in CounterTypes
          /\ counters'.blocks = counters.blocks /\ Decision(answer, Refreshed).refused
          /\ counters'.reasks > 0
      BY <1>7, Zenon DEF AskedAgain
    <2>2. GraphTypes'
      BY <1>3, <2>1, Zenon DEF GraphTypes, CounterTypes, Nodes
    <2>3. NodeFits' /\ ExecutionIsApproved'
      BY <1>1, <1>2, <1>4, <2>1, NodeKinds, Zenon DEF NodeFits, ExecutionIsApproved
    <2>4. ASSUME Insisting'
          PROVE  /\ FinishRefused(Refreshed)'
                 /\ counters'.blocks > 0 => \E w \in Team : PhaseOf[w] \in {"exec", "audit"}
                 /\ counters'.blocks > 0 /\ errors' =>
                       Owner("exec") # "none" /\ (policy'.feature => "plan" \in vault')
      <3>1. Insisting /\ answer = "FINISH"
        BY <1>2, <2>4, Zenon DEF Insisting
      <3>2. FinishRefused(Refreshed)
        BY <2>1, <3>1, RefusedIs, Zenon
      <3>3. FinishRefused(Refreshed)'
        BY <1>2, <3>2, Zenon DEF FinishRefused, FinishNeeds
      <3> QED BY <1>1, <1>2, <2>1, <3>1, <3>3, Zenon DEF InsistingFits
    <2>5. InsistingFits'
      BY <2>1, <2>4, NodeKinds, Zenon DEF InsistingFits
    <2> QED BY <1>5, <2>1, <2>2, <2>3, <2>5, Zenon DEF GraphInv
  <1>8. CASE Rerouted(answer)
    <2> DEFINE need == FinishNeeds(Refreshed)
    <2>1. /\ RoutedTo(Owner(need)) /\ graphEnded' = "no" /\ counters' \in CounterTypes
          /\ need \in {"exec", "audit"} /\ ~FinishRefused(Refreshed)
          /\ counters'.blocks = counters.blocks + 1 /\ counters'.blocks <= FinishBlockLimit
      BY <1>8, Zenon DEF Rerouted
    <2>2. /\ ExecutionIsApproved' /\ node' \in Nodes
          /\ node' = PlanApproval => "plan" \in vault' /\ next' \in Team
          /\ node' # Completion /\ node' # Supervisor /\ node'.kind # "agent"
          /\ node' = PlanApproval \/ node'.kind = "mount"
      BY <1>2, <2>1, RoutedIsApproved, Zenon
    <2>3. GraphTypes'
      BY <1>3, <2>1, <2>2, Zenon DEF GraphTypes, CounterTypes
    <2>4. NodeFits'
      BY <1>1, <1>2, <1>4, <2>1, <2>2, Zenon DEF NodeFits
    <2>5. ASSUME Insisting' PROVE steps' <= 3 * counters'.blocks - 2
      <3>1. Insisting
        BY <1>2, <2>5, Zenon DEF Insisting
      <3>2. steps <= 3 * counters.blocks
        BY <1>1, <1>2, <2>1, <3>1, Zenon DEF InsistingFits
      <3> QED BY <1>2, <1>3, <2>1, <3>2
    <2>6. \E w \in Team : PhaseOf[w] \in {"exec", "audit"}
      <3>1. Owner(need) # "none"
        BY <2>1, Zenon DEF FinishRefused
      <3> QED BY <2>1, <3>1, OwnerIs, Zenon
    <2>7. errors' => Owner("exec") # "none" /\ (policy'.feature => "plan" \in vault')
      <3>1. errors => need = "exec"
        BY NeedsIs, Zenon
      <3> QED BY <1>2, <2>1, <3>1, Zenon DEF FinishRefused
    <2>8. counters'.blocks > 0
      BY <1>3, <2>1
    <2>9. InsistingFits'
      BY <2>2, <2>5, <2>6, <2>7, <2>8, Zenon DEF InsistingFits
    <2> QED BY <1>5, <2>1, <2>2, <2>3, <2>4, <2>9, Zenon DEF GraphInv
  <1>9. CASE Finished(answer)
    <2>1. /\ node' = Completion /\ graphEnded' = "no" /\ counters' \in CounterTypes
          /\ counters'.blocks = 0 /\ FinishNeeds(Refreshed) = "nothing"
      BY <1>9, Zenon DEF Finished
    <2>2. GraphTypes'
      BY <1>3, <2>1, TeamAssumption DEF GraphTypes, CounterTypes, Nodes
    <2>3. ~errors /\ (policy.feature /\ "exec" \in Refreshed => "audit" \in Refreshed)
      BY <2>1, NeedsIs, Zenon
    <2>4. NodeFits'
      BY <1>1, <1>2, <1>4, <2>1, <2>3, NodeKinds, Zenon DEF NodeFits
    <2>5. ExecutionIsApproved' /\ InsistingFits'
      BY <2>1, NodeKinds DEF ExecutionIsApproved, InsistingFits
    <2> QED BY <1>5, <2>1, <2>2, <2>4, <2>5, Zenon DEF GraphInv
  <1>10. CASE Named(answer)
    <2>1. /\ RoutedTo(answer) /\ graphEnded' = "no" /\ counters' \in CounterTypes /\ counters'.blocks = 0
      BY <1>10, Zenon DEF Named
    <2>2. /\ ExecutionIsApproved' /\ node' \in Nodes
          /\ node' = PlanApproval => "plan" \in vault' /\ next' \in Team
          /\ node' # Completion
      BY <1>2, <2>1, RoutedIsApproved, Zenon
    <2>3. GraphTypes'
      BY <1>3, <2>1, <2>2, TeamAssumption DEF GraphTypes, CounterTypes
    <2>4. NodeFits'
      BY <1>1, <1>2, <1>4, <2>1, <2>2, Zenon DEF NodeFits
    <2>5. ~Insisting'
      BY <1>2, <2>1, TeamAssumption, Zenon DEF Insisting, RoutedTo
    <2>6. InsistingFits'
      BY <2>5, Zenon DEF InsistingFits
    <2> QED BY <1>5, <2>1, <2>2, <2>3, <2>4, <2>6, Zenon DEF GraphInv
  <1> QED BY <1>1, <1>6, <1>7, <1>8, <1>9, <1>10, TurnOutcomes, Zenon

\* A step that ends the run where it stands.
LEMMA EndsWell ==
  ASSUME GraphInv, graphEnded' \notin {"no", "completed", "recursion"},
         UNCHANGED <<topology, policy, node, next, approval, counters, errors, vault, steps, onlyFinish>>
  PROVE  GraphInv'
  <1>1. GraphTypes' /\ NodeFits'
    BY Zenon DEF GraphInv, GraphTypes, NodeFits, FinishBlockBudgetFits
  <1>2. InsistingFits' /\ BlockedFinishIsReported'
    BY Zenon DEF InsistingFits, Insisting, BlockedFinishIsReported
  <1>3. ExecutionIsApproved'
    BY Zenon DEF GraphInv, ExecutionIsApproved
  <1> QED BY <1>1, <1>2, <1>3, Zenon DEF GraphInv

\* The recursion limit the compiler accepts is not reached by blocked FINISHes.
LEMMA OutOfStepsFits == ASSUME GraphInv, OutOfSteps PROVE GraphInv'
  <1>1. /\ graphEnded = "no" /\ node # PlanApproval /\ steps = RecursionLimit /\ graphEnded' = "recursion"
        /\ UNCHANGED <<topology, policy, node, next, approval, counters, errors, vault, steps, onlyFinish>>
    BY Zenon DEF OutOfSteps, FailRun
  <1>2. GraphTypes' /\ NodeFits'
    BY <1>1, Zenon DEF GraphInv, GraphTypes, NodeFits, FinishBlockBudgetFits
  <1>3. InsistingFits'
    BY <1>1, Zenon DEF InsistingFits, Insisting
  <1>4. ExecutionIsApproved'
    BY <1>1, Zenon DEF GraphInv, ExecutionIsApproved
  <1>5. ASSUME topology = "star", counters.blocks > 0, onlyFinish
        PROVE  node = Supervisor /\ counters.reasks > 0 /\ Owner("audit") = "none"
    <2>1. Insisting
      BY <1>1, <1>5, Zenon DEF Insisting
    <2>2. \E w \in Team : PhaseOf[w] \in {"exec", "audit"}
      BY <1>5, <2>1, Zenon DEF GraphInv, InsistingFits
    <2>3. RecursionLimit >= 3 * FinishBlockLimit + 1
      BY <1>5, <2>2, Zenon DEF GraphInv, NodeFits, FinishBlockBudgetFits
    <2>4. /\ counters.blocks \in Nat /\ counters.blocks <= FinishBlockLimit /\ steps \in Nat
          /\ FinishBlockLimit \in Nat /\ RecursionLimit \in Nat
      BY TeamAssumption, Zenon DEF GraphInv, GraphTypes
    <2>5. node = Supervisor \/ node = Completion \/ node.kind = "mount" \/ node.kind = "agent"
      BY <1>1, NodeKinds DEF GraphInv, GraphTypes, Nodes
    <2>6. ~(steps <= 3 * counters.blocks)
      BY <1>1, <2>3, <2>4
    <2>7. counters.blocks # 0 /\ ~(steps <= 3 * counters.blocks - 2) /\ ~(steps <= 3 * counters.blocks - 1)
      BY <1>5, <2>4, <2>6
    <2>8. node = Supervisor /\ counters.reasks > 0 /\ FinishRefused(Refreshed)
      BY <2>1, <2>5, <2>6, <2>7, Zenon DEF GraphInv, InsistingFits
    <2>9. errors => Owner("exec") # "none" /\ (policy.feature => "plan" \in Refreshed)
      <3>1. vault \subseteq Refreshed
        BY Zenon DEF Refreshed
      <3> QED BY <1>5, <2>1, <3>1, Zenon DEF GraphInv, InsistingFits
    <2>10. Owner("audit") = "none"
      <3>1. CASE errors
        BY <2>8, <2>9, <3>1, NeedsIs, Zenon DEF FinishRefused
      <3>2. CASE ~errors
        BY <2>8, <3>2, NeedsIs, Zenon DEF FinishRefused
      <3> QED BY <3>1, <3>2, Zenon
    <2> QED BY <2>8, <2>10, Zenon
  <1>6. BlockedFinishIsReported'
    BY <1>1, <1>5, Zenon DEF BlockedFinishIsReported
  <1> QED BY <1>2, <1>3, <1>4, <1>6, Zenon DEF GraphInv

LEMMA CompleteFits == ASSUME GraphInv, CompleteGraph PROVE GraphInv'
  <1>1. /\ node = Completion /\ graphEnded' = "completed" /\ steps' = steps + 1
        /\ UNCHANGED <<topology, policy, node, next, approval, counters, errors, vault, onlyFinish>>
    BY Zenon DEF CompleteGraph
  <1>2. GraphTypes' /\ NodeFits'
    BY <1>1 DEF GraphInv, GraphTypes, NodeFits, FinishBlockBudgetFits
  <1>3. InsistingFits' /\ BlockedFinishIsReported'
    BY <1>1, Zenon DEF InsistingFits, Insisting, BlockedFinishIsReported
  <1>4. ExecutionIsApproved'
    BY <1>1, Zenon DEF GraphInv, ExecutionIsApproved
  <1> QED BY <1>2, <1>3, <1>4, Zenon DEF GraphInv

LEMMA MountFits == ASSUME GraphInv, MountTurn PROVE GraphInv'
  <1>1. /\ graphEnded = "no" /\ node.kind = "mount" /\ steps' = steps + 1 /\ vault' = Refreshed
        /\ node' = Agent(node.agent)
        /\ UNCHANGED <<topology, policy, graphEnded, approval, counters, errors, onlyFinish>>
    BY Zenon DEF MountTurn, Running
  <1>2. vault \subseteq vault'
    BY <1>1, Zenon DEF Refreshed
  <1>3. PICK w \in Team : node = Mount(w) /\ node.agent = w
    BY <1>1, NodeKinds DEF GraphInv, GraphTypes, Nodes
  <1>4. node'.kind = "agent" /\ node'.agent = w /\ node' \in Nodes
    BY <1>1, <1>3, NodeKinds, Zenon DEF Nodes
  <1>5. node' # PlanApproval /\ node' # Completion /\ node' # Supervisor
    BY <1>4, NodeKinds, Zenon
  <1>6. steps \in Nat /\ counters.blocks \in Nat
    BY Zenon DEF GraphInv, GraphTypes
  <1>7. GraphTypes'
    BY <1>1, <1>4 DEF GraphInv, GraphTypes
  <1>8. NodeFits'
    BY <1>1, <1>5, Zenon DEF GraphInv, NodeFits, FinishBlockBudgetFits
  <1>9. ExecutionIsApproved'
    BY <1>1, <1>2, <1>3, <1>4, Zenon DEF GraphInv, ExecutionIsApproved
  <1>10. BlockedFinishIsReported'
    BY <1>1, Zenon DEF BlockedFinishIsReported
  <1>11. ASSUME Insisting'
         PROVE  /\ counters'.blocks > 0 /\ steps' <= 3 * counters'.blocks - 1
                /\ \E x \in Team : PhaseOf[x] \in {"exec", "audit"}
                /\ errors' => Owner("exec") # "none" /\ (policy'.feature => "plan" \in vault')
    <2>1. Insisting
      BY <1>1, <1>11, Zenon DEF Insisting
    <2>2. /\ counters.blocks > 0 /\ steps <= 3 * counters.blocks - 2
          /\ \E x \in Team : PhaseOf[x] \in {"exec", "audit"}
          /\ errors => Owner("exec") # "none" /\ (policy.feature => "plan" \in vault)
      BY <1>1, <2>1, Zenon DEF GraphInv, InsistingFits
    <2>3. steps' <= 3 * counters'.blocks - 1
      BY <1>1, <1>6, <2>2
    <2> QED BY <1>1, <1>2, <2>2, <2>3, Zenon
  <1>12. InsistingFits'
    BY <1>4, <1>5, <1>11, Zenon DEF InsistingFits
  <1> QED BY <1>7, <1>8, <1>9, <1>10, <1>12, Zenon DEF GraphInv

\* A worker's edges lead to nodes of the graph; a star's lead to the supervisor.
LEMMA EdgesAreNodes ==
  ASSUME NEW w \in Team, NEW revise \in BOOLEAN, NodeFits
  PROVE  /\ WorkerEdge(w, revise) \in Nodes /\ WorkerEdge(w, revise) # PlanApproval
         /\ topology = "star" => WorkerEdge(w, revise) = Supervisor
  <1>1. Len(Order) \in Nat
    BY TeamAssumption
  <1>2. \A i \in 1..Len(Order) : Order[i] \in Team
    BY Zenon DEF Team
  <1>3. \A u \in Team : Mount(u) \in Nodes /\ Mount(u) # PlanApproval
    BY NodeKinds, Zenon DEF Nodes
  <1>4. Supervisor \in Nodes /\ Completion \in Nodes /\ Supervisor # PlanApproval /\ Completion # PlanApproval
    BY NodeKinds, Zenon DEF Nodes
  <1>5. Successor(w) \in Nodes /\ Successor(w) # PlanApproval
    <2> DEFINE k == CHOOSE j \in 1..Len(Order) : Order[j] = w
    <2>1. k \in 1..Len(Order)
      BY Zenon DEF Team
    <2>2. Successor(w) = IF k = Len(Order) THEN Completion ELSE Mount(Order[k + 1])
      BY Zenon DEF Successor
    <2> HIDE DEF k
    <2>3. k # Len(Order) => k + 1 \in 1..Len(Order)
      BY <1>1, <2>1
    <2> QED BY <1>2, <1>3, <1>4, <2>2, <2>3, Zenon
  <1>6. ASSUME topology = "pipeline_loop"
        PROVE  Mount(Order[Len(Order) - 1]) \in Nodes /\ Mount(Order[Len(Order) - 1]) # PlanApproval
    <2>1. Len(Order) > 1
      BY <1>6, Zenon DEF NodeFits
    <2>2. Len(Order) - 1 \in 1..Len(Order)
      BY <1>1, <2>1
    <2> QED BY <1>2, <1>3, <2>2, Zenon
  <1>7. CASE topology = "star"
    BY <1>4, <1>7, Zenon DEF WorkerEdge
  <1>8. CASE topology # "star"
    <2>1. \/ WorkerEdge(w, revise) = Successor(w)
          \/ topology = "pipeline_loop" /\ WorkerEdge(w, revise) = Mount(Order[Len(Order) - 1])
          \/ WorkerEdge(w, revise) = Completion
      <3>1. CASE topology = "pipeline"
        BY <3>1, Zenon DEF WorkerEdge
      <3>2. CASE topology = "pipeline_loop" /\ w # LoopNode
        BY <3>2, Zenon DEF WorkerEdge
      <3>3. CASE topology # "pipeline" /\ ~(topology = "pipeline_loop" /\ w # LoopNode)
        <4>1. topology = "pipeline_loop"
          BY <1>8, <3>3, Zenon DEF NodeFits
        <4> QED BY <1>8, <3>3, <4>1, Zenon DEF WorkerEdge
      <3> QED BY <3>1, <3>2, <3>3, Zenon
    <2> QED BY <1>4, <1>5, <1>6, <1>8, <2>1, Zenon
  <1> QED BY <1>7, <1>8, Zenon

LEMMA WorkerFits ==
  ASSUME GraphInv, NEW revise \in BOOLEAN, NEW writes \in BOOLEAN, WorkerTurn(revise, writes)
  PROVE  GraphInv'
  <1>1. /\ graphEnded = "no" /\ node.kind = "agent" /\ steps' = steps + 1
        /\ node' = WorkerEdge(node.agent, revise)
        /\ UNCHANGED <<topology, policy, graphEnded, vault, onlyFinish>>
    BY Zenon DEF WorkerTurn, Running
  <1>2. errors' => errors
    BY Zenon DEF WorkerTurn, ErrorsAfter
  <1>3. PICK w \in Team : node = Agent(w) /\ node.agent = w
    BY <1>1, NodeKinds DEF GraphInv, GraphTypes, Nodes
  <1>4. node' \in Nodes /\ node' # PlanApproval /\ (topology = "star" => node' = Supervisor)
    BY <1>1, <1>3, EdgesAreNodes, Zenon DEF GraphInv
  <1>5. counters' \in CounterTypes /\ counters'.blocks = counters.blocks
    <2>1. counters \in CounterTypes
      BY Zenon DEF GraphInv, GraphTypes, CounterTypes
    <2>2. counters' = counters \/ counters' = [counters EXCEPT !.loops = @ + 1]
      BY Zenon DEF WorkerTurn
    <2> QED BY <2>1, <2>2 DEF CounterTypes
  <1>6. steps \in Nat /\ counters.blocks \in Nat
    BY Zenon DEF GraphInv, GraphTypes
  <1>7. GraphTypes'
    BY <1>1, <1>4, <1>5, SMTT(60) DEF GraphInv, GraphTypes, CounterTypes
  <1>8. NodeFits'
    BY <1>1, <1>4, NodeKinds, Zenon DEF GraphInv, NodeFits, FinishBlockBudgetFits
  <1>9. ExecutionIsApproved'
    BY <1>1, <1>4, NodeKinds, Zenon DEF ExecutionIsApproved
  <1>10. BlockedFinishIsReported'
    BY <1>1, Zenon DEF BlockedFinishIsReported
  <1>11. ASSUME Insisting'
         PROVE  /\ node' = Supervisor /\ counters'.blocks > 0 /\ steps' <= 3 * counters'.blocks
                /\ \E x \in Team : PhaseOf[x] \in {"exec", "audit"}
                /\ errors' => Owner("exec") # "none" /\ (policy'.feature => "plan" \in vault')
    <2>1. Insisting /\ node' = Supervisor
      BY <1>1, <1>4, <1>11, Zenon DEF Insisting
    <2>2. /\ counters.blocks > 0 /\ steps <= 3 * counters.blocks - 1
          /\ \E x \in Team : PhaseOf[x] \in {"exec", "audit"}
          /\ errors => Owner("exec") # "none" /\ (policy.feature => "plan" \in vault)
      BY <1>1, <2>1, Zenon DEF GraphInv, InsistingFits
    <2>3. steps' <= 3 * counters'.blocks /\ counters'.blocks > 0
      BY <1>1, <1>5, <1>6, <2>2
    <2> QED BY <1>1, <1>2, <2>1, <2>2, <2>3, Zenon
  <1>12. InsistingFits'
    <2>1. ASSUME Insisting'
          PROVE /\ node'.kind = "supervisor" /\ node' # PlanApproval /\ node' # Completion
                /\ counters'.blocks # 0
      BY <1>5, <1>6, <1>11, <2>1, NodeKinds
    <2> QED BY <1>11, <2>1, Zenon DEF InsistingFits
  <1> QED BY <1>7, <1>8, <1>9, <1>10, <1>12, Zenon DEF GraphInv

\* An approval lets the approved worker go; a rejection sends to the owner of
\* the plan, who does not execute, or back to the supervisor.
LEMMA AnswerFits ==
  ASSUME GraphInv, NEW r, NEW verdict \in {"approved", "rejected"}, AnswerPlan(r, verdict)
  PROVE  GraphInv'
  <1>1. /\ graphEnded = "no" /\ node = PlanApproval
        /\ UNCHANGED <<topology, policy, graphEnded, counters, errors, vault, onlyFinish>>
    BY Zenon DEF AnswerPlan
  <1>2. "plan" \in vault /\ next \in Team /\ counters.blocks \in Nat
    BY <1>1, Zenon DEF GraphInv, NodeFits, GraphTypes
  <1>3. BlockedFinishIsReported'
    BY <1>1, Zenon DEF BlockedFinishIsReported
  <1>4. Insisting' => Insisting
    BY <1>1, Zenon DEF Insisting
  <1>5. Insisting => /\ counters.blocks > 0
                     /\ \E w \in Team : PhaseOf[w] \in {"exec", "audit"}
                     /\ errors => Owner("exec") # "none" /\ (policy.feature => "plan" \in vault)
    BY <1>1, Zenon DEF GraphInv, InsistingFits
  <1>6. CASE r # questions
    <2>1. steps' = 0 /\ UNCHANGED <<node, next, approval>>
      BY <1>6, Zenon DEF AnswerPlan
    <2>2. GraphTypes' /\ NodeFits'
      BY <1>1, <2>1, Zenon DEF GraphInv, GraphTypes, NodeFits, FinishBlockBudgetFits
    <2>3. ExecutionIsApproved'
      BY <1>1, <2>1, NodeKinds, Zenon DEF ExecutionIsApproved
    <2>4. node'.kind = "plan_approval" /\ node' # Supervisor /\ node' # Completion
      BY <1>1, <2>1, NodeKinds, Zenon
    <2>5. InsistingFits'
      BY <1>1, <1>4, <1>5, <2>4 DEF InsistingFits
    <2> QED BY <1>3, <2>2, <2>3, <2>5, Zenon DEF GraphInv
  <1>7. CASE r = questions
    <2> DEFINE goto == CASE verdict = "approved" -> next
                         [] verdict = "rejected" /\ Owner("plan") # "none" -> Owner("plan")
                         [] OTHER -> "supervisor"
    <2>1. /\ steps' = 1 /\ approval' = verdict
          /\ node' = IF goto = "supervisor" THEN Supervisor ELSE Mount(goto)
      BY <1>7, Zenon DEF AnswerPlan
    <2>2. \/ verdict = "approved" /\ goto = next
          \/ verdict = "rejected" /\ Owner("plan") # "none" /\ goto = Owner("plan")
          \/ goto = "supervisor"
      <3>1. CASE verdict = "approved"
        BY <3>1, Zenon
      <3>2. CASE verdict = "rejected" /\ Owner("plan") # "none"
        BY <3>2, Zenon
      <3>3. CASE verdict = "rejected" /\ Owner("plan") = "none"
        BY <3>3, Zenon
      <3> QED BY <3>1, <3>2, <3>3, Zenon
    <2> HIDE DEF goto
    <2>3. "supervisor" \notin Team
      BY TeamAssumption, Zenon
    <2>4. \/ /\ goto \in Team /\ node' = Mount(goto) /\ (verdict = "approved" \/ PhaseOf[goto] = "plan")
          \/ node' = Supervisor
      BY <1>2, <2>1, <2>2, <2>3, OwnerIs, Zenon
    <2>5. /\ node' \in Nodes /\ node' # PlanApproval /\ node' # Completion
          /\ node'.kind \in {"mount", "supervisor"}
      BY <2>4, NodeKinds, SMTT(60) DEF Nodes
    <2>6. GraphTypes' /\ NodeFits'
      BY <1>1, <2>1, <2>5, Zenon DEF GraphInv, GraphTypes, NodeFits, FinishBlockBudgetFits
    <2>7. ExecutionIsApproved'
      BY <1>1, <1>2, <2>1, <2>4, NodeKinds, Zenon DEF ExecutionIsApproved
    <2>8. counters.blocks > 0 => steps' <= 3 * counters'.blocks - 2 /\ steps' <= 3 * counters'.blocks
      BY <1>1, <1>2, <2>1
    <2>9. InsistingFits'
      BY <1>1, <1>2, <1>4, <1>5, <2>5, <2>8 DEF InsistingFits
    <2> QED BY <1>3, <2>6, <2>7, <2>9, Zenon DEF GraphInv
  <1> QED BY <1>6, <1>7, Zenon

LEMMA GraphInvStep == GraphInv /\ [GraphNext]_graphVars => GraphInv'
  <1> SUFFICES ASSUME GraphInv, [GraphNext]_graphVars PROVE GraphInv'
    OBVIOUS
  <1>1. CASE \E answer \in Team \cup {"FINISH", "unclear"} : SupervisorTurn(answer)
    BY <1>1, SupervisorFits, Zenon DEF Answers
  <1>2. CASE \E r \in 0..MaxAsks, verdict \in {"approved", "rejected"} : AnswerPlan(r, verdict)
    BY <1>2, AnswerFits, Zenon
  <1>3. CASE MountTurn
    BY <1>3, MountFits, Zenon
  <1>4. CASE \E revise, writes \in BOOLEAN : WorkerTurn(revise, writes)
    BY <1>4, WorkerFits, Zenon
  <1>5. CASE WorkerFails
    BY <1>5, EndsWell, Zenon DEF WorkerFails, FailRun
  <1>6. CASE CompleteGraph
    BY <1>6, CompleteFits, Zenon
  <1>7. CASE OutOfSteps
    BY <1>7, OutOfStepsFits, Zenon
  <1>8. CASE UNCHANGED graphVars
    <2>1. UNCHANGED <<topology, policy, node, graphEnded, next, approval, counters, errors, vault,
                      vaultDisk, questions, steps, onlyFinish>>
      BY <1>8, Zenon DEF graphVars
    <2>2. GraphTypes' /\ NodeFits' /\ ExecutionIsApproved' /\ BlockedFinishIsReported'
      BY <2>1 DEF GraphInv, GraphTypes, NodeFits, FinishBlockBudgetFits, ExecutionIsApproved,
                  BlockedFinishIsReported
    <2>3. Insisting' = Insisting /\ FinishRefused(Refreshed)' = FinishRefused(Refreshed)
      BY <2>1, Zenon DEF Insisting, FinishRefused, FinishNeeds, Refreshed
    <2>4. InsistingFits'
      BY <2>1, <2>3, Zenon DEF GraphInv, InsistingFits
    <2> QED BY <2>2, <2>4, Zenon DEF GraphInv
  <1> QED BY <1>1, <1>2, <1>3, <1>4, <1>5, <1>6, <1>7, <1>8, Zenon DEF GraphNext

LEMMA GraphInitial == GraphInit => GraphInv
  <1> SUFFICES ASSUME GraphInit PROVE GraphInv
    OBVIOUS
  <1>1. /\ topology \in {"star", "pipeline", "pipeline_loop"}
        /\ topology = "star" => FinishBlockBudgetFits /\ node = Supervisor
        /\ topology = "pipeline_loop" => Len(Order) > 1
        /\ topology # "star" => node = Mount(Order[1])
        /\ graphEnded = "no" /\ steps = 0 /\ counters = [reasks |-> 0, blocks |-> 0, loops |-> 0]
    BY Zenon DEF GraphInit, LoopFits
  <1>2. Order[1] \in Team
    BY TeamAssumption, SMTT(60) DEF Team
  <1>3. node \in Nodes /\ node # PlanApproval /\ node # Completion
    BY <1>1, <1>2, NodeKinds DEF Nodes
  <1>4. GraphTypes
    BY <1>1, <1>3, TeamAssumption DEF GraphTypes
  <1>5. NodeFits
    BY <1>1, <1>3, Zenon DEF NodeFits
  <1>6. ExecutionIsApproved /\ BlockedFinishIsReported
    BY <1>1, NodeKinds, Zenon DEF ExecutionIsApproved, BlockedFinishIsReported
  <1>7. InsistingFits
    <2>1. counters.blocks = 0 /\ node.kind # "agent" /\ (topology = "star" => node.kind # "mount")
      BY <1>1, <1>2, NodeKinds, Zenon
    <2>2. Insisting => topology = "star"
      BY Zenon DEF Insisting
    <2> QED BY <1>1, <1>3, <2>1, <2>2 DEF InsistingFits
  <1> QED BY <1>4, <1>5, <1>6, <1>7, Zenon DEF GraphInv

LEMMA GraphSafe == GraphInv => ExecutionIsApproved /\ CompletionIsReviewed /\ BlockedFinishIsReported
  BY Zenon DEF GraphInv, NodeFits, CompletionIsReviewed

\* A run of any team executes only an approved plan, completes only what was
\* reviewed, and reports a blocked FINISH before the recursion limit that the
\* compiler accepts is reached, unless its FINISH is refused for want of a reviewer.
THEOREM GraphTheorem ==
  GraphSpec => [](ExecutionIsApproved /\ CompletionIsReviewed /\ BlockedFinishIsReported)
  BY GraphInitial, GraphInvStep, GraphSafe, PTL DEF GraphSpec

\* The graph of any team and the phases of its documents together.
THEOREM TeamIsGovernedTheorem == GraphSpec /\ PhasesSpec => []TeamIsGoverned
  <1>1. /\ ExecutionIsApproved /\ CompletionIsReviewed /\ BlockedFinishIsReported
        /\ PassedIsApproved /\ RoutedAsDecided /\ GateIsAnswered /\ RevisionsAreBounded
        => TeamIsGoverned
    BY Zenon DEF TeamIsGoverned
  <1> QED BY <1>1, GraphTheorem, PhasesTheorem, PTL

=============================================================================
