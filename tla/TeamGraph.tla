----------------------------- MODULE TeamGraph -----------------------------
(***************************************************************************)
(* One run of a compiled team graph: the star topology with its supervisor *)
(* and its plan approval, the pipeline and the pipeline with a review loop *)
(* (graph/compiler.py, graph/_compiler_topologies.py,                      *)
(* graph/nodes/supervisor.py, graph/nodes/vault_reader.py and the state    *)
(* channels a worker's return writes).                                     *)
(*                                                                         *)
(* A step is a superstep of the graph.  The models decide what the code    *)
(* does not: the supervisor's model names a route, several or none, a      *)
(* worker writes its document or not, a reviewer asks for a revision.  A     *)
(* human answers an approval, perhaps an earlier one.  A run ends when the *)
(* completion node has run, when a typed routing error is raised, when a   *)
(* worker fails, or at the recursion limit of one invocation.              *)
(*                                                                         *)
(* The remaining topology, research_adr, is DocumentPhases; the two share  *)
(* no variable.  TeamIsGoverned, the last definition, says what both        *)
(* promise.                                                                 *)
(***************************************************************************)
EXTENDS DocumentPhases

CONSTANTS
    Order,            \* the team's agents, in order
    PhaseOf,          \* _ROLE_TO_PHASE of each agent's role, "none" if it has none
    ReaskLimit,       \* supervisor_reask_limit
    FinishBlockLimit, \* supervisor_finish_block_limit
    RecursionLimit,   \* graph.recursion_limit
    MaxLoops,         \* topology.max_loops
    MaxAsks           \* bound: plan approvals asked in one run

Team == {Order[i] : i \in 1..Len(Order)}

\* No agent is named like a route: "unclear" and "none" stand for no route at all.
ASSUME TeamAssumption ==
    /\ Order \in Seq(Team) /\ Len(Order) > 0
    /\ Team \cap {"FINISH", "supervisor", "unclear", "none"} = {}
    /\ PhaseOf \in [Team -> {"research", "adr", "plan", "exec", "audit", "none"}]
    /\ ReaskLimit \in Nat /\ FinishBlockLimit \in Nat /\ MaxAsks \in Nat
    /\ RecursionLimit \in Nat \ {0} /\ MaxLoops \in Nat \ {0}

VARIABLES
    topology,   \* star, pipeline or pipeline_loop: fixed for the run
    policy,     \* fixed for the run: autonomous, and whether a feature is active
    node,       \* the node of the next superstep
    graphEnded,      \* how the run ended, "no" while it runs or waits
    next,       \* state: the last route
    approval,   \* state: approval_status
    counters,   \* state: supervisor_reasks, supervisor_finish_blocks, loop_count
    errors,     \* state: whether validation_errors is non-empty
    vault,      \* state: the stages vault_index has documents of
    vaultDisk,       \* the stages that have documents in .vault/
    questions,       \* state: how many plan approvals were asked and answered
    steps,      \* supersteps of this invocation
    onlyFinish  \* history: every answer of the supervisor's model was FINISH

graphVars == <<topology, policy, node, graphEnded, next, approval, counters, errors, vault,
               vaultDisk, questions, steps, onlyFinish>>

Stages == {"research", "adr", "plan", "exec", "audit"}
Mount(w) == [kind |-> "mount", agent |-> w]
Agent(w) == [kind |-> "agent", agent |-> w]
Supervisor == [kind |-> "supervisor", agent |-> "none"]
PlanApproval == [kind |-> "plan_approval", agent |-> "none"]
Completion == [kind |-> "completion", agent |-> "none"]

GraphTypeOK ==
    /\ topology \in {"star", "pipeline", "pipeline_loop"}
    /\ policy \in [autonomous : BOOLEAN, feature : BOOLEAN]
    /\ node \in {Supervisor, PlanApproval, Completion}
                \cup {Mount(w) : w \in Team} \cup {Agent(w) : w \in Team}
    /\ graphEnded \in {"no", "completed", "routing", "worker", "recursion"}
    /\ next \in Team \cup {"FINISH", "supervisor", "none"}
    /\ approval \in {"none", "pending", "approved", "rejected"}
    /\ counters \in [reasks : 0..ReaskLimit, blocks : 0..FinishBlockLimit, loops : 0..MaxLoops]
    /\ errors \in BOOLEAN
    /\ vault \subseteq Stages /\ vaultDisk \subseteq Stages
    /\ questions \in 0..MaxAsks
    /\ steps \in 0..RecursionLimit
    /\ onlyFinish \in BOOLEAN

\* _validate_finish_block_budget: a team that can spend the budget declares a
\* recursion limit that lets it report
FinishBlockBudgetFits ==
    (\E w \in Team : PhaseOf[w] \in {"exec", "audit"})
        => RecursionLimit >= 3 * FinishBlockLimit + 1

\* _validate_pipeline_loop_config: a loop node alone would loop to itself
LoopFits == Len(Order) > 1

GraphInit ==
    /\ topology \in {"star", "pipeline", "pipeline_loop"}
    /\ topology = "star" => FinishBlockBudgetFits
    /\ topology = "pipeline_loop" => LoopFits
    /\ policy \in [autonomous : BOOLEAN, feature : BOOLEAN]
    /\ node = IF topology = "star" THEN Supervisor ELSE Mount(Order[1])
    /\ graphEnded = "no"
    /\ next = "none"
    /\ approval = "none"
    /\ counters = [reasks |-> 0, blocks |-> 0, loops |-> 0]
    /\ errors \in BOOLEAN
    /\ vaultDisk \in {{}, {"adr"}, {"adr", "plan"}, {"plan"}, {"adr", "plan", "exec"}}
    /\ vault = {}
    /\ questions = 0
    /\ steps = 0
    /\ onlyFinish = TRUE

-----------------------------------------------------------------------------

Running == graphEnded = "no" /\ steps < RecursionLimit

\* refresh_vault_index merged by merge_vault_index: documents are only added
Refreshed == IF policy.feature THEN vault \cup vaultDisk ELSE vault

PhaseFor(route) == IF route \in Team THEN PhaseOf[route] ELSE "none"

\* _worker_owning_phase
Owner(phase) ==
    IF \E i \in 1..Len(Order) : PhaseOf[Order[i]] = phase
      THEN Order[CHOOSE i \in 1..Len(Order) :
                    /\ PhaseOf[Order[i]] = phase
                    /\ \A j \in 1..(i - 1) : PhaseOf[Order[j]] # phase]
      ELSE "none"

\* _check_phase_prerequisites, the hard ones
HardPrerequisite == [plan |-> "adr", exec |-> "plan", audit |-> "exec"]
GateRefuses(route, index) ==
    /\ policy.feature
    /\ PhaseFor(route) \in DOMAIN HardPrerequisite
    /\ HardPrerequisite[PhaseFor(route)] \notin index

\* Mutant of FinishNeeds: judged on the index of the turn before.
FinishNeedsStale(index) ==
    CASE errors -> "exec"
      [] ~errors /\ policy.feature /\ "exec" \in vault /\ "audit" \notin vault -> "audit"
      [] OTHER -> "nothing"

\* _check_finish_blocked: the phase that has to act before FINISH, if any
FinishNeeds(index) ==
    CASE errors -> "exec"
      [] ~errors /\ policy.feature /\ "exec" \in index /\ "audit" \notin index -> "audit"
      [] OTHER -> "nothing"

\* _plan_approval_decision
MustAsk(route, index) ==
    /\ ~policy.autonomous
    /\ PhaseFor(route) = "exec"
    /\ policy.feature /\ "plan" \in index
    /\ approval # "approved"

\* _gated_decision of a named route: what the gates make of it
Gated(route, finishBlocked, index) ==
    [route |-> route, refused |-> GateRefuses(route, index),
     asks |-> ~GateRefuses(route, index) /\ MustAsk(route, index),
     blocked |-> finishBlocked /\ ~GateRefuses(route, index)]

Refusal == [route |-> "none", refused |-> TRUE, asks |-> FALSE, blocked |-> FALSE]

\* _evaluate_supervisor_response
Decision(answer, index) ==
    CASE answer = "unclear" -> Refusal
      [] answer = "FINISH" /\ FinishNeeds(index) # "nothing" ->
           IF Owner(FinishNeeds(index)) = "none" THEN Refusal
           ELSE Gated(Owner(FinishNeeds(index)), TRUE, index)
      [] OTHER -> Gated(answer, FALSE, index)

\* _carried_approval
CarriedApproval == IF approval = "approved" THEN "approved" ELSE "none"

FailRun(how) ==
    /\ graphEnded' = how
    /\ UNCHANGED <<node, next, approval, counters>>

\* _refused_update: back to the supervisor until the re-asks are spent
RefuseRun(d) ==
    IF counters.reasks + 1 > ReaskLimit
      THEN FailRun("routing")
      ELSE /\ counters' = [counters EXCEPT !.reasks = @ + 1]
           /\ next' = IF d.route = "none" THEN next ELSE d.route
           /\ approval' = CarriedApproval
           /\ node' = Supervisor
           /\ UNCHANGED graphEnded

\* The admitted decision, and _route_from_supervisor on the state it leaves
Route(d) ==
    IF d.blocked /\ counters.blocks + 1 > FinishBlockLimit
      THEN FailRun("routing")
      ELSE /\ counters' = [counters EXCEPT !.reasks = 0,
                                           !.blocks = IF d.blocked THEN @ + 1 ELSE 0]
           /\ next' = d.route
           /\ approval' = IF d.asks THEN "pending" ELSE CarriedApproval
           /\ node' = CASE d.asks -> PlanApproval
                        [] ~d.asks /\ d.route = "FINISH" -> Completion
                        [] OTHER -> Mount(d.route)
           /\ UNCHANGED graphEnded

\* supervisor_node
SupervisorTurn(answer) ==
    /\ Running
    /\ node = Supervisor
    /\ steps' = steps + 1
    /\ onlyFinish' = (onlyFinish /\ answer = "FINISH")
    /\ vault' = Refreshed
    /\ LET d == Decision(answer, Refreshed) IN
          IF d.refused THEN RefuseRun(d) ELSE Route(d)
    /\ UNCHANGED <<topology, policy, errors, vaultDisk, questions>>

\* plan_approval_node resumed with an answer to request r: the run is parked
\* here.  parse_approval_verdict refuses an answer to another request and the
\* run parks again; a resume is an invocation of its own.
AnswerPlan(r, verdict) ==
    LET reviser == Owner("plan")
        goto == CASE verdict = "approved" -> next
                  [] verdict = "rejected" /\ reviser # "none" -> reviser
                  [] OTHER -> "supervisor" IN
    /\ graphEnded = "no"
    /\ node = PlanApproval
    /\ r \in 0..questions
    /\ questions < MaxAsks
    /\ IF r # questions
         THEN /\ steps' = 0
              /\ UNCHANGED <<node, next, approval, questions>>
         ELSE /\ steps' = 1
              /\ questions' = questions + 1
              /\ approval' = verdict
              /\ next' = goto
              /\ node' = IF goto = "supervisor" THEN Supervisor ELSE Mount(goto)
    /\ UNCHANGED <<topology, policy, graphEnded, counters, errors, vault, vaultDisk, onlyFinish>>

\* mount_node
MountTurn ==
    /\ Running
    /\ node.kind = "mount"
    /\ steps' = steps + 1
    /\ vault' = Refreshed
    /\ node' = Agent(node.agent)
    /\ UNCHANGED <<topology, policy, graphEnded, next, approval, counters, errors, vaultDisk, questions, onlyFinish>>

\* The order a pipeline runs in: a loop node comes last whatever the order says
LoopNode == Order[Len(Order)]
Successor(w) ==
    LET i == CHOOSE j \in 1..Len(Order) : Order[j] = w IN
    IF i = Len(Order) THEN Completion ELSE Mount(Order[i + 1])

\* revision_granted
LoopGranted(requested, passes, budget) == requested /\ passes <= budget

\* The edges out of a worker: to the supervisor, to the next stage, or where
\* _loop_router sends the pass that was just counted by _wrap_loop_node
WorkerEdge(w, revise) ==
    CASE topology = "star" -> Supervisor
      [] topology = "pipeline" -> Successor(w)
      [] topology = "pipeline_loop" /\ w # LoopNode -> Successor(w)
      [] OTHER -> IF LoopGranted(revise, counters.loops + 1, MaxLoops - 1)
                    THEN Mount(Order[Len(Order) - 1]) ELSE Completion

\* _finalize_worker_response: an exec worker retires the validation errors
ErrorsAfter(w) == errors /\ PhaseOf[w] # "exec"

\* worker_node and _finalize_worker_response: a granted approval survives the
\* return
WorkerTurn(revise, writes) ==
    LET w == node.agent IN
    /\ Running
    /\ node.kind = "agent"
    /\ steps' = steps + 1
    /\ vaultDisk' = IF writes /\ PhaseOf[w] # "none" THEN vaultDisk \cup {PhaseOf[w]} ELSE vaultDisk
    /\ errors' = ErrorsAfter(w)
    /\ approval' = CarriedApproval
    /\ counters' = IF topology = "pipeline_loop" /\ w = LoopNode
                     THEN [counters EXCEPT !.loops = @ + 1] ELSE counters
    /\ node' = WorkerEdge(w, revise)
    /\ UNCHANGED <<topology, policy, graphEnded, next, vault, questions, onlyFinish>>

\* A worker's failure is not retried, or no more
WorkerFails ==
    /\ Running
    /\ node.kind = "agent"
    /\ FailRun("worker")
    /\ UNCHANGED <<topology, policy, errors, vault, vaultDisk, questions, steps, onlyFinish>>

\* record_graph_completion, then END
CompleteGraph ==
    /\ Running
    /\ node = Completion
    /\ graphEnded' = "completed"
    /\ steps' = steps + 1
    /\ UNCHANGED <<topology, policy, node, next, approval, counters, errors, vault, vaultDisk, questions,
                   onlyFinish>>

\* GraphRecursionError
OutOfSteps ==
    /\ graphEnded = "no"
    /\ node # PlanApproval
    /\ steps = RecursionLimit
    /\ FailRun("recursion")
    /\ UNCHANGED <<topology, policy, errors, vault, vaultDisk, questions, steps, onlyFinish>>

GraphNext ==
    \/ \E answer \in Team \cup {"FINISH", "unclear"} : SupervisorTurn(answer)
    \/ \E r \in 0..MaxAsks, verdict \in {"approved", "rejected"} : AnswerPlan(r, verdict)
    \/ MountTurn
    \/ \E revise, writes \in BOOLEAN : WorkerTurn(revise, writes)
    \/ WorkerFails
    \/ CompleteGraph
    \/ OutOfSteps

GraphSpec == GraphInit /\ [][GraphNext]_graphVars

-----------------------------------------------------------------------------

(* In a supervised star run about a feature, no execution worker runs before a
   plan exists and a human has approved one: neither a blocked FINISH that is
   rerouted, a rejection, a re-ask nor a later plan gets around the gates of
   the supervisor. *)
ExecutionIsApproved ==
    (/\ topology = "star" /\ policy.feature /\ ~policy.autonomous
     /\ node.kind \in {"mount", "agent"} /\ PhaseOf[node.agent] = "exec")
        => approval = "approved" /\ "plan" \in vault

(* A star run completes with no validation error left and, when it executed
   for a feature, with a review on record: every way to the completion node
   goes through _check_finish_blocked with a fresh index. *)
CompletionIsReviewed ==
    (topology = "star" /\ graphEnded = "completed")
        => ~errors /\ (policy.feature /\ "exec" \in vault => "audit" \in vault)

(* "A run cut one superstep shorter than this ends in GraphRecursionError with
   the gate's reason never reported": under the recursion limit the compiler
   accepts, a supervisor that insists on FINISH is stopped by the typed
   routing error, whatever approvals and rejections come in between.  The one
   way around it is a team without a reviewer: once its executor has run, FINISH
   needs a phase nobody owns and is refused outright, and re-asks, which the
   compiler's sum leaves out, use up the supersteps. *)
BlockedFinishIsReported ==
    (topology = "star" /\ graphEnded = "recursion" /\ counters.blocks > 0 /\ onlyFinish)
        => node = Supervisor /\ counters.reasks > 0 /\ Owner("audit") = "none"

\* A team executes only what was approved, completes only what was reviewed, and a
\* document passes a phase only by the decision of its own gate, within its revisions.
TeamIsGoverned ==
    /\ ExecutionIsApproved /\ CompletionIsReviewed /\ BlockedFinishIsReported
    /\ PassedIsApproved /\ RoutedAsDecided /\ GateIsAnswered /\ RevisionsAreBounded

=============================================================================
