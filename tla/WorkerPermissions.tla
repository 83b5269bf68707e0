------------------------- MODULE WorkerPermissions --------------------------
(***************************************************************************)
(* The permissions of a worker turn, in two parts that share no variable:  *)
(* the decision on one tool call, and how the answer of a person finds the *)
(* call it was given for.                                                  *)
(***************************************************************************)
EXTENDS FiniteSets, Integers, Sequences

(***************************************************************************)
(* The decision on one tool call an agent asks permission for, on both     *)
(* provider lanes (providers/_tool_policy.py, _acp_rpc_handlers.py,        *)
(* _codex_permission.py, _project_scope.py, graph/acp_options.py).         *)
(*                                                                         *)
(* The option an agent offers is named by its kind.  A call is the tool it *)
(* names ("composed": on the allowlist the run composed, "floor": one of   *)
(* the lane's own read tools, "withheld": a harness tool the registry      *)
(* withholds, "other") and where its arguments point ("inside" the run's   *)
(* project, "outside" it, "foreign": a project argument naming another     *)
(* project).  The ACP request names its call itself; the Codex request     *)
(* names a server only, and is joined to the call that server announced    *)
(* last: with two calls of one server in flight that may be the other one. *)
(***************************************************************************)

CONSTANTS
    PermissionCalls,   \* the tool calls of the session, all of one server
    CallShapes         \* the <<tool, paths>> pairs a call may have

VARIABLES
    lane,         \* "acp" or "codex"
    supervised,   \* whether a permission_callback is wired
    scoped,       \* whether the run's workspace resolves to a project
    offered,      \* the option kinds the session's requests offer
    toolCall,     \* per call: its tool, its arguments, its progress, the call it was decided
                  \* about, the human's choice, the reply
    crossed,      \* Codex: the calls undecided when another call of the server was announced
    announced,    \* CodexPermissionRung._announced for the one server, or NoPermission
    suspension,   \* the call whose human rung suspended the graph, or NoPermission
    shut          \* the session is closing

permissionVars == <<lane, supervised, scoped, offered, toolCall, crossed, announced, suspension,
                    shut>>

NoPermission == "no call"
OptionKinds == {"allow_once", "allow_always", "reject_once", "reject_always"}
Approving == {"allow_once", "allow_always"}
Remembering == {"allow_always", "reject_always"}
CallTools == {"composed", "floor", "withheld", "other"}
CallPaths == {"inside", "outside", "foreign", "none"}
Answers == OptionKinds \cup {"unknown"}

ASSUME PermissionAssumption ==
    /\ IsFiniteSet(PermissionCalls)
    /\ CallShapes \subseteq CallTools \X CallPaths

PermissionTypeOK ==
    /\ lane \in {"acp", "codex"} /\ supervised \in BOOLEAN /\ scoped \in BOOLEAN
    /\ offered \subseteq OptionKinds
    /\ toolCall \in [PermissionCalls ->
                       [tool : CallTools, paths : CallPaths,
                        pc : {"idle", "announced", "asked", "human", "answered", "dropped"},
                        about : PermissionCalls \cup {NoPermission},
                        chose : Answers \cup {"nothing"},
                        reply : Answers \cup {"nothing", "cancelled"}]]
    /\ crossed \subseteq PermissionCalls
    /\ announced \in PermissionCalls \cup {NoPermission}
    /\ suspension \in PermissionCalls \cup {NoPermission}
    /\ shut \in BOOLEAN

PermissionInit ==
    /\ lane \in {"acp", "codex"} /\ supervised \in BOOLEAN /\ scoped \in BOOLEAN
    /\ offered \in IF lane = "codex" THEN {{"allow_once", "reject_once"}} ELSE SUBSET OptionKinds
    /\ toolCall = [c \in PermissionCalls |-> [tool |-> "other", paths |-> "none", pc |-> "idle",
                                              about |-> NoPermission, chose |-> "nothing", reply |-> "nothing"]]
    /\ crossed = {} /\ announced = NoPermission /\ suspension = NoPermission /\ shut = FALSE

PermissionInFlight(c) == toolCall[c].pc \in {"announced", "asked", "human"}

\* observe: on Codex a started or updated item announces its call to the rung
Announced(c) ==
    IF lane = "codex"
    THEN /\ announced' = c
         /\ crossed' = crossed \cup {d \in PermissionCalls \ {c} :
                                        toolCall[d].pc \in {"announced", "asked"}}
    ELSE UNCHANGED <<announced, crossed>>

\* The agent starts a tool call, whether or not another is in flight
Announce(c, shape) ==
    /\ toolCall[c].pc = "idle" /\ ~shut
    /\ toolCall' = [toolCall EXCEPT ![c].tool = shape[1], ![c].paths = shape[2], ![c].pc = "announced"]
    /\ Announced(c)
    /\ UNCHANGED <<lane, supervised, scoped, offered, suspension, shut>>

\* An item of a call in flight is updated
AnnounceAgain(c) ==
    /\ PermissionInFlight(c) /\ ~shut
    /\ Announced(c)
    /\ UNCHANGED <<lane, supervised, scoped, offered, toolCall, suspension, shut>>

AskPermission(c) ==
    /\ toolCall[c].pc = "announced" /\ ~shut
    /\ toolCall' = [toolCall EXCEPT ![c].pc = "asked"]
    /\ UNCHANGED <<lane, supervised, scoped, offered, crossed, announced, suspension, shut>>

-----------------------------------------------------------------------------
\* The call a request is decided about: its own title, or the server's last announcement
DecidedCall(c) == IF lane = "codex" THEN announced ELSE c

\* _refused_ahead_of_both_rungs: no project, another project, or a withheld tool
RefusedAhead(c) ==
    \/ ~scoped
    \/ toolCall[c].paths = "foreign"
    \/ toolCall[c].tool = "withheld"

\* path_arguments_in_project: some path is named, and every one named is the run's
Confined(c) == scoped /\ toolCall[c].paths = "inside"

\* _composed_surface_covers, or the composed (server, tool) pairs of the Codex lane
Covered(c) ==
    \/ toolCall[c].tool = "composed"
    \/ lane = "acp" /\ toolCall[c].tool = "floor" /\ Confined(c)

\* narrowest_option_id
Narrowest(once, remembering) ==
    IF once \in offered THEN once ELSE IF remembering \in offered THEN remembering ELSE "nothing"

\* _autonomous_answer
AutonomousAnswer(c) ==
    IF Covered(c) THEN Narrowest("allow_once", "allow_always")
    ELSE IF "reject_once" \in offered THEN "reject_once" ELSE "nothing"

\* _narrowed_to_one_use
Narrowed(choice) ==
    LET once == IF choice \in Approving THEN "allow_once" ELSE "reject_once" IN
    IF choice \notin offered \cap Remembering THEN choice
    ELSE IF once \in offered THEN once
    ELSE IF choice \in Approving THEN choice ELSE "nothing"

\* Mutant of Checked: an answer that was not offered is forwarded.
CheckedNever(choice) == choice

\* decide: an id that was not offered is refused; with no id offered it is forwarded
Checked(choice) == IF offered # {} /\ choice \notin offered THEN "nothing" ELSE choice

\* _refused_outcome and the Codex decline: the once-only refusal, or an abandoned call
RefusalReply == IF lane = "codex" \/ "reject_once" \in offered THEN "reject_once" ELSE "cancelled"

ReplyFor(choice) == IF choice = "nothing" THEN RefusalReply ELSE choice

\* The rung's answer; a closing session answers nothing more
Replied(c, d, choice, human) ==
    toolCall' = IF shut THEN [toolCall EXCEPT ![c].pc = "dropped", ![c].chose = human]
                ELSE [toolCall EXCEPT ![c].pc = "answered", ![c].about = d, ![c].chose = human,
                                      ![c].reply = ReplyFor(choice)]

-----------------------------------------------------------------------------
\* on_request_permission / CodexPermissionRung.decide, up to the human rung
DecidePermission(c) ==
    LET d == DecidedCall(c) IN
    /\ toolCall[c].pc = "asked"
    /\ IF RefusedAhead(d) THEN Replied(c, d, "nothing", "nothing")
       ELSE IF supervised THEN toolCall' = [toolCall EXCEPT ![c].pc = "human", ![c].about = d]
       ELSE Replied(c, d, Checked(AutonomousAnswer(d)), "nothing")
    /\ UNCHANGED <<lane, supervised, scoped, offered, crossed, announced, suspension, shut>>

\* A request of another session, or one no announced call matches, is refused unasked
RefuseUnmatched(c) ==
    /\ toolCall[c].pc = "asked"
    /\ Replied(c, NoPermission, "nothing", "nothing")
    /\ UNCHANGED <<lane, supervised, scoped, offered, crossed, announced, suspension, shut>>

\* _human_answer: the callback answers, with any id
HumanAnswers(c, choice) ==
    /\ toolCall[c].pc = "human"
    /\ LET n == Narrowed(choice) IN
       Replied(c, toolCall[c].about, IF n = "nothing" THEN n ELSE Checked(n), choice)
    /\ UNCHANGED <<lane, supervised, scoped, offered, crossed, announced, suspension, shut>>

\* _human_answer: the callback raises, and the call is refused
HumanFails(c) ==
    /\ toolCall[c].pc = "human"
    /\ Replied(c, toolCall[c].about, "nothing", "nothing")
    /\ UNCHANGED <<lane, supervised, scoped, offered, crossed, announced, suspension, shut>>

\* GraphBubbleUp: the graph suspends to ask a person; the open call is cancelled
HumanSuspends(c) ==
    /\ toolCall[c].pc = "human" /\ suspension = NoPermission
    /\ suspension' = c
    /\ toolCall' = [toolCall EXCEPT ![c].pc = IF shut THEN "dropped" ELSE "answered",
                                    ![c].reply = IF shut THEN "nothing" ELSE "cancelled"]
    /\ UNCHANGED <<lane, supervised, scoped, offered, crossed, announced, shut>>

\* The session closes and its decision tasks are cancelled
ShutSession ==
    /\ ~shut
    /\ shut' = TRUE
    /\ UNCHANGED <<lane, supervised, scoped, offered, toolCall, crossed, announced, suspension>>

DropDecision(c) ==
    /\ shut /\ PermissionInFlight(c)
    /\ toolCall' = [toolCall EXCEPT ![c].pc = "dropped"]
    /\ UNCHANGED <<lane, supervised, scoped, offered, crossed, announced, suspension, shut>>

PermissionNext ==
    \/ \E c \in PermissionCalls, shape \in CallShapes : Announce(c, shape)
    \/ \E c \in PermissionCalls :
         \/ AnnounceAgain(c) \/ AskPermission(c) \/ DecidePermission(c) \/ RefuseUnmatched(c)
         \/ \E choice \in Answers : HumanAnswers(c, choice)
         \/ HumanFails(c) \/ HumanSuspends(c) \/ DropDecision(c)
    \/ ShutSession

PermissionFairness ==
    \A c \in PermissionCalls :
        /\ WF_permissionVars(DecidePermission(c))
        /\ WF_permissionVars(HumanFails(c) \/ \E a \in Answers : HumanAnswers(c, a))
        /\ WF_permissionVars(DropDecision(c))

PermissionSpec == PermissionInit /\ [][PermissionNext]_permissionVars /\ PermissionFairness
-----------------------------------------------------------------------------
\* No answer, whoever gives it, approves a withheld tool or a call of another project; and
\* with nobody at the prompt an approved tool is one the run composed, or a read tool of
\* the ACP lane that works inside the project only (decide, _composed_surface_covers).
\* That is said of the call the decision was about.  It is the very call that asked,
\* except on Codex when its server announced another one before the decision.
ApprovedIsCovered ==
    \A c \in PermissionCalls :
        toolCall[c].reply \in Approving =>
            LET d == toolCall[c].about IN
            /\ d = c \/ c \in crossed
            /\ scoped /\ toolCall[d].paths # "foreign" /\ toolCall[d].tool # "withheld"
            /\ ~supervised => \/ toolCall[d].tool = "composed"
                              \/ lane = "acp" /\ toolCall[d].tool = "floor"
                                             /\ toolCall[d].paths = "inside"

\* A durable rule is written for nobody who did not have to: a remembered refusal is never
\* sent, and a remembered approval only when no once-only approval was offered.
NoRuleIsForced ==
    \A c \in PermissionCalls :
        toolCall[c].reply \in Remembering =>
            /\ toolCall[c].reply = "allow_always" \/ offered = {}
            /\ "allow_once" \notin offered

\* The person's answer keeps its polarity: whatever an answer is narrowed to, an approval
\* is sent only for a choice that approves.
PolarityIsKept ==
    \A c \in PermissionCalls :
        (supervised /\ toolCall[c].reply \in Approving) => toolCall[c].chose \in Approving

\* Where the request offers options, the option answered is one of them, or a refusal.
AnswerWasOffered ==
    \A c \in PermissionCalls :
        (offered # {} /\ toolCall[c].reply # "nothing") =>
            toolCall[c].reply \in offered \cup {"cancelled"}

\* A closing session sends no answer to a call it was still deciding.
NothingAfterClose ==
    shut => \A c \in PermissionCalls : toolCall'[c].reply = toolCall[c].reply

\* Every request for permission is answered, or dropped with its session: a decision
\* never stalls the turn that waits for it.
RequestsAreSettled ==
    \A c \in PermissionCalls :
        (toolCall[c].pc = "asked") ~> (toolCall[c].pc \in {"answered", "dropped"})

-----------------------------------------------------------------------------
(***************************************************************************)
(* A worker turn that asks a person for permission suspends its run, and   *)
(* the whole turn is replayed once the answer arrives: how an answer finds *)
(* the call it was given for (graph/nodes/_worker_permissions.py), and     *)
(* which answers a parked run takes (worker/state_projection.py,           *)
(* worker/executor.py).                                                    *)
(*                                                                         *)
(* A replayed turn may reach its calls in another order, or not at all.    *)
(* The tasks of FanOutTasks have an input fixed when they were dispatched: the  *)
(* answers the run records never reach them, only the values LangGraph     *)
(* stores for the task do, strictly by position.                           *)
(***************************************************************************)

CONSTANTS
    Tasks,        \* the worker tasks of the superstep
    FanOutTasks,       \* those whose input cannot carry the run's answers
    CallNames,    \* the tool calls a turn may ask about
    MaxUnusable   \* bound on the answers that settle nothing

ASSUME ReplayAssumption == FanOutTasks \subseteq Tasks /\ MaxUnusable \in Nat

VARIABLES
    turnOf,      \* per task: "running", "parked" or "done"
    called,      \* per task: the calls this execution has already got past
    question,    \* per task: the request its suspension asks
    reads,       \* per task: how many interrupt() calls this execution has made
    stored,      \* per task: its resume values, in order
    learned,     \* per task: the answers this execution read for other calls
    plain,       \* the unaddressed resume value not yet read, or <<>>
    recorded,    \* the run's permission_answers channel
    given,       \* the answers people gave: <<request, option>>
    grantedCalls,     \* the options calls went ahead with: <<request, option>>
    unusable

replayVars == <<turnOf, called, question, reads, stored, learned, plain, recorded, given, grantedCalls, unusable>>

\* _permission_request_id: the task's namespace and the exact call
ReplayRequests == Tasks \X CallNames
Usable == {"allow", "deny"}
CallOptions == Usable \cup {"withdrawn"}
NoReplayRequest == <<"no", "request">>
Value(q, o) == [request |-> q, option |-> o]
AnswerValues == [request : ReplayRequests \cup {NoReplayRequest}, option : CallOptions]

ReplayTypeOK ==
    /\ turnOf \in [Tasks -> {"running", "parked", "done"}]
    /\ called \in [Tasks -> SUBSET CallNames]
    /\ question \in [Tasks -> ReplayRequests \cup {NoReplayRequest}]
    /\ reads \in [Tasks -> Nat] /\ \A t \in Tasks : reads[t] <= Len(stored[t]) + 1
    /\ stored \in [Tasks -> Seq(AnswerValues)]
    /\ learned \in [Tasks -> SUBSET (ReplayRequests \X CallOptions)]
    /\ plain \in {<<>>} \cup {<<v>> : v \in AnswerValues}
    /\ recorded \in [ReplayRequests -> CallOptions \cup {"none"}]
    /\ given \subseteq ReplayRequests \X CallOptions /\ grantedCalls \subseteq ReplayRequests \X Usable
    /\ unusable \in 0..MaxUnusable

ReplayInit ==
    /\ turnOf = [t \in Tasks |-> "running"]
    /\ called = [t \in Tasks |-> {}]
    /\ question = [t \in Tasks |-> NoReplayRequest]
    /\ reads = [t \in Tasks |-> 0]
    /\ stored = [t \in Tasks |-> <<>>]
    /\ learned = [t \in Tasks |-> {}]
    /\ plain = <<>>
    /\ recorded = [q \in ReplayRequests |-> "none"]
    /\ given = {} /\ grantedCalls = {} /\ unusable = 0

-----------------------------------------------------------------------------
\* _answered_option: the answer bound to the turn, or met earlier in it, if still offered
AnsweredAsks(t, q, o) ==
    /\ o \in Usable
    /\ IF t \in FanOutTasks THEN <<q, o>> \in learned[t] ELSE recorded[q] = o

\* What interrupt() hands out from here on: the stored values, then the unaddressed one
ReadableAnswer(t) == SubSeq(stored[t] \o plain, reads[t] + 1, Len(stored[t]) + Len(plain))

\* _read_permission_answer: the value names this request and an option still offered
AnswerSettles(v, q) == v.request = q /\ v.option \in Usable

\* How many values the call reads: one, or on past those of other calls on a fan-out task
ReadDepth(t, q) ==
    LET vs == ReadableAnswer(t)
        hits == {i \in DOMAIN vs : AnswerSettles(vs[i], q)} IN
    IF vs = <<>> THEN 0
    ELSE IF t \notin FanOutTasks THEN 1
    ELSE IF hits = {} THEN Len(vs) ELSE CHOOSE i \in hits : \A j \in hits : i <= j

GrantedCall(t, q, o) ==
    /\ grantedCalls' = grantedCalls \cup {<<q, o>>}
    /\ called' = [called EXCEPT ![t] = @ \cup {q[2]}]
    /\ UNCHANGED <<turnOf, question>>

Parked(t, q) ==
    /\ turnOf' = [turnOf EXCEPT ![t] = "parked"]
    /\ question' = [question EXCEPT ![t] = q]
    /\ UNCHANGED <<grantedCalls, called>>

\* permission_callback, for a call that finds its answer without asking
CallFindsAnswer(t, c) ==
    LET q == <<t, c>> IN
    /\ turnOf[t] = "running" /\ c \notin called[t]
    /\ \E o \in Usable : AnsweredAsks(t, q, o) /\ GrantedCall(t, q, o)
    /\ UNCHANGED <<reads, stored, learned, plain, recorded, given, unusable>>

\* ... for a call that reads the values it is handed, and suspends when none is its own
CallReadsAnswers(t, c) ==
    LET q == <<t, c>>
        n == ReadDepth(t, q)
        vs == SubSeq(ReadableAnswer(t), 1, n)
        tookPlain == plain # <<>> /\ reads[t] + n > Len(stored[t]) IN
    /\ turnOf[t] = "running" /\ c \notin called[t]
    /\ \A o \in Usable : ~AnsweredAsks(t, q, o)
    /\ IF n > 0 /\ AnswerSettles(vs[n], q) THEN GrantedCall(t, q, vs[n].option) ELSE Parked(t, q)
    /\ reads' = [reads EXCEPT ![t] = @ + n]
    /\ stored' = IF tookPlain THEN [stored EXCEPT ![t] = @ \o plain] ELSE stored
    /\ plain' = IF tookPlain THEN <<>> ELSE plain
    /\ learned' = [learned EXCEPT ![t] =
                     @ \cup {<<vs[i].request, vs[i].option>> :
                             i \in {j \in 1..n : t \in FanOutTasks /\ vs[j].request \in ReplayRequests \ {q}}}]
    /\ UNCHANGED <<recorded, given, unusable>>

\* The provider's turn ends
TurnDone(t) ==
    /\ turnOf[t] = "running"
    /\ turnOf' = [turnOf EXCEPT ![t] = "done"]
    /\ UNCHANGED <<called, question, reads, stored, learned, plain, recorded, given, grantedCalls, unusable>>

-----------------------------------------------------------------------------
\* live_interrupts: the tasks the run is parked on, once its superstep is over
Asking == {t \in Tasks : turnOf[t] = "parked"}
RunParked == Asking # {} /\ \A t \in Tasks : turnOf[t] # "running"

\* Mutant of Admits: an answer is taken whatever the run is waiting on.
AdmitsAnything(v) == TRUE

\* _addressed_admission: a named request must be pending, an unnamed one unambiguous
Admits(v) ==
    IF v.request = NoReplayRequest THEN Cardinality(Asking) = 1
    ELSE v.request \in {question[t] : t \in Asking}

\* _answered_permission_update
RecordedAnswer(v) ==
    IF v.request = NoReplayRequest THEN recorded ELSE [recorded EXCEPT ![v.request] = v.option]

\* _resume_command: addressed to its interrupt when the run asks more than one question,
\* and every parked turn is replayed from its start
ResumeRun(v) ==
    /\ RunParked /\ Admits(v)
    /\ IF Cardinality(Asking) = 1
       THEN plain' = <<v>> /\ UNCHANGED stored
       ELSE /\ stored' = [t \in Tasks |-> IF question[t] = v.request /\ t \in Asking
                                          THEN Append(stored[t], v) ELSE stored[t]]
            /\ UNCHANGED plain
    /\ recorded' = RecordedAnswer(v)
    /\ given' = IF v.request = NoReplayRequest THEN given ELSE given \cup {<<v.request, v.option>>}
    /\ turnOf' = [t \in Tasks |-> IF t \in Asking THEN "running" ELSE turnOf[t]]
    /\ question' = [t \in Tasks |-> NoReplayRequest]
    /\ called' = [t \in Tasks |-> {}]
    /\ reads' = [t \in Tasks |-> 0]
    /\ learned' = [t \in Tasks |-> {}]
    /\ UNCHANGED grantedCalls

\* A person answers a request with an option it offers
AnswerRequest(q, o) ==
    /\ ResumeRun(Value(q, o))
    /\ UNCHANGED unusable

\* An answer that settles nothing: an option no longer offered, or no request named
AnswerUnusably(q) ==
    /\ unusable < MaxUnusable
    /\ ResumeRun(Value(q, "withdrawn"))
    /\ unusable' = unusable + 1

ReplayNext ==
    \/ \E t \in Tasks :
         \/ TurnDone(t)
         \/ \E c \in CallNames : CallFindsAnswer(t, c) \/ CallReadsAnswers(t, c)
    \/ \E q \in ReplayRequests, o \in Usable : AnswerRequest(q, o)
    \/ \E q \in ReplayRequests \cup {NoReplayRequest} : AnswerUnusably(q)

ReplayFairness ==
    /\ WF_replayVars(\E q \in ReplayRequests, o \in Usable : AnswerRequest(q, o))
    /\ \A t \in Tasks : WF_replayVars(TurnDone(t) \/ \E c \in CallNames :
                                        CallFindsAnswer(t, c) \/ CallReadsAnswers(t, c))

ReplaySpec == ReplayInit /\ [][ReplayNext]_replayVars /\ ReplayFairness
-----------------------------------------------------------------------------
\* An approval never lands on a call nobody saw: whatever order a replayed turn reaches its
\* calls in, a call goes ahead only with an option a person gave for that very request.
ApprovedAsAnswered == grantedCalls \subseteq given

\* A person is not asked again: a suspended turn never asks a request that somebody has
\* already answered with an option it offers.
AskedOnce ==
    \A t \in Tasks : turnOf[t] = "parked" => \A o \in Usable : <<question[t], o>> \notin given

\* An answer is taken only from the question it is for: what the run records was pending.
RecordedWasAsked ==
    \A q \in ReplayRequests : recorded'[q] # recorded[q] =>
      RunParked /\ \E t \in Tasks : turnOf[t] = "parked" /\ question[t] = q

\* A run whose questions are answered gets past them: its turns end.
AnsweredRunEnds ==
    <>(\A t \in Tasks : turnOf[t] = "done")

=============================================================================
