------------------------- MODULE ClarificationAnswers -------------------------
(***************************************************************************)
(* A run that asks the user a questionnaire and the clients that answer    *)
(* it: the request and gate nodes of graph/nodes/clarification.py, the     *)
(* question and answer rules of thread/clarification.py and the response   *)
(* verb of control/clarification_service.py. A response reads the          *)
(* checkpoint first and takes its transaction afterwards, so each of the   *)
(* two is an action; so are the delivery, the worker's resume and the      *)
(* relay of the worker's receipt.                                          *)
(***************************************************************************)
EXTENDS Naturals, Sequences, FiniteSets

CONSTANTS
    Clients,
    Questionnaires, \* a sequence: each a function from question ids to [required, choice]
    Resolutions,    \* what a client may send: [kind, answers]
    MaxResponses,   \* bound on the responses of all clients
    MaxLost         \* bound on the deliveries that fail

ASSUME ClarificationAssumption == MaxResponses \in Nat /\ MaxLost \in Nat

VARIABLES
    surveyAt,   \* the questionnaire the run is parked on, 0 while it is not parked
    surveyed,   \* how many questionnaires the run has committed
    runOver,    \* the run's row is settled
    answerReceipts,   \* channel clarification_resolution_receipts: what each request was resolved with
    said,       \* the human turns the gate appended: [request, lines]
    accepted,   \* the journal: per request, [res, applied, leased], or NoAction
    resumes,    \* resume dispatches on their way to the worker: [request, res]
    proofs,     \* requests whose resume the worker has reported taken
    surveyClient,     \* per client, the response it is making
    heard,      \* what clients were told: [request, res, applied]
    responses, lost

clarVars == <<surveyAt, surveyed, runOver, answerReceipts, said, accepted, resumes, proofs, surveyClient, heard, responses, lost>>

SurveyIds == 1..Len(Questionnaires)
Unresolved == [kind |-> "none", answers |-> << >>]
NoAction == [res |-> Unresolved, applied |-> FALSE, leased |-> FALSE]
Calm == [at |-> "idle", request |-> 0, res |-> Unresolved, parked |-> FALSE, receipt |-> Unresolved]

ClarTypeOK ==
    /\ surveyAt \in {0, surveyed} /\ surveyed \in 0..Len(Questionnaires) /\ runOver \in BOOLEAN
    /\ \A r \in SurveyIds : /\ answerReceipts[r] \in Resolutions \cup {Unresolved}
                            /\ accepted[r].res \in Resolutions \cup {Unresolved}
    /\ Len(said) <= Len(Questionnaires)
    /\ \A k \in Clients : surveyClient[k].at \in {"idle", "read", "claimed", "sent"}
    /\ proofs \subseteq SurveyIds /\ responses <= MaxResponses /\ lost <= MaxLost

ClarInit ==
    /\ surveyAt = 0 /\ surveyed = 0 /\ runOver = FALSE
    /\ answerReceipts = [r \in SurveyIds |-> Unresolved] /\ said = << >>
    /\ accepted = [r \in SurveyIds |-> NoAction] /\ resumes = {} /\ proofs = {}
    /\ surveyClient = [k \in Clients |-> Calm] /\ heard = {} /\ responses = 0 /\ lost = 0

(***************************************************************************)
(* Questions and answers.                                                  *)
(***************************************************************************)
Given(answers, q) == q \in DOMAIN answers /\ answers[q] # "blank"

\* _question_answer_note: a required question unanswered, or a choice that was not offered
Unmet(question, answers, q) ==
    IF Given(answers, q) THEN question.choice /\ answers[q] # "option" ELSE question.required

\* validate_clarification_answers
Violations(r, answers) ==
    (DOMAIN answers \ DOMAIN Questionnaires[r])
        \cup {q \in DOMAIN Questionnaires[r] : Unmet(Questionnaires[r][q], answers, q)}

\* render_clarification_answers over _declared_answers; the other two
\* resolutions say one line of their own
Rendered(r, res) ==
    IF res.kind # "answers" THEN {res.kind}
    ELSE {q \in DOMAIN Questionnaires[r] : Given(res.answers, q)}

(***************************************************************************)
(* The run.                                                                *)
(***************************************************************************)
\* clarification_request_node commits the questions, the gate parks on them
AskUser ==
    /\ ~runOver /\ surveyAt = 0 /\ surveyed < Len(Questionnaires)
    /\ surveyed' = surveyed + 1 /\ surveyAt' = surveyed + 1
    /\ UNCHANGED <<runOver, answerReceipts, said, accepted, resumes, proofs, surveyClient, heard, responses, lost>>

\* a cancellation or a failure settles the row; the checkpoint keeps its question
RunSettles ==
    /\ ~runOver /\ runOver' = TRUE
    /\ UNCHANGED <<surveyAt, surveyed, answerReceipts, said, accepted, resumes, proofs, surveyClient, heard, responses, lost>>

\* parse_clarification_resolution: the value names the request the gate committed
Resolves(d) == surveyAt # 0 /\ d.request = surveyAt

\* clarification_gate_node resumed: the turn, the receipt and the cleared
\* question are one checkpoint
TakeResume(d) ==
    /\ ~runOver /\ d \in resumes /\ Resolves(d)
    /\ answerReceipts' = [answerReceipts EXCEPT ![surveyAt] = d.res]
    /\ said' = IF Rendered(surveyAt, d.res) = {} THEN said
               ELSE Append(said, [request |-> surveyAt, lines |-> Rendered(surveyAt, d.res)])
    /\ surveyAt' = 0 /\ resumes' = resumes \ {d} /\ proofs' = proofs \cup {d.request}
    /\ UNCHANGED <<surveyed, runOver, accepted, surveyClient, heard, responses, lost>>

\* await_request_scoped_resume parks again on a value for another request; a
\* run that is not parked has nothing to resume
DropResume(d) ==
    /\ d \in resumes /\ (runOver \/ ~Resolves(d))
    /\ resumes' = resumes \ {d}
    /\ UNCHANGED <<surveyAt, surveyed, runOver, answerReceipts, said, accepted, proofs, surveyClient, heard, responses, lost>>

(***************************************************************************)
(* The journal.                                                            *)
(***************************************************************************)
\* _settle_accepted_action
Applied(r) == [accepted EXCEPT ![r].applied = TRUE, ![r].leased = FALSE]

\* settle_clarification_dispatch_receipt
RelayProof(r) ==
    /\ r \in proofs /\ proofs' = proofs \ {r}
    /\ accepted' = IF accepted[r].applied THEN accepted ELSE Applied(r)
    /\ UNCHANGED <<surveyAt, surveyed, runOver, answerReceipts, said, resumes, surveyClient, heard, responses, lost>>

\* the lease of a delivery whose answer never came runs out
LeaseRunsOut(r) ==
    /\ accepted[r] # NoAction /\ accepted[r].leased /\ \A k \in Clients : surveyClient[k].at = "claimed" => surveyClient[k].request # r
    /\ accepted' = [accepted EXCEPT ![r].leased = FALSE]
    /\ UNCHANGED <<surveyAt, surveyed, runOver, answerReceipts, said, resumes, proofs, surveyClient, heard, responses, lost>>

\* the recovery pass delivers again what was accepted and is not applied
Redeliver(r) ==
    /\ ~runOver /\ accepted[r] # NoAction /\ ~accepted[r].leased /\ ~accepted[r].applied
    /\ resumes' = resumes \cup {[request |-> r, res |-> accepted[r].res]}
    /\ accepted' = [accepted EXCEPT ![r].leased = TRUE]
    /\ UNCHANGED <<surveyAt, surveyed, runOver, answerReceipts, said, proofs, surveyClient, heard, responses, lost>>

(***************************************************************************)
(* One response.                                                           *)
(***************************************************************************)
Answer(k, applied) ==
    /\ heard' = heard \cup {[request |-> surveyClient[k].request, res |-> surveyClient[k].res, applied |-> applied]}
    /\ surveyClient' = [surveyClient EXCEPT ![k] = Calm]

\* respond_to_clarification: the checkpoint is read outside the transaction,
\* and a read that fails shows neither a question nor a receipt
ReadSurvey(k, r, res, legible) ==
    /\ surveyClient[k].at = "idle" /\ responses < MaxResponses /\ responses' = responses + 1
    /\ surveyClient' = [surveyClient EXCEPT ![k] = [at |-> "read", request |-> r, res |-> res,
                                        parked |-> legible /\ surveyAt = r,
                                        receipt |-> IF legible THEN answerReceipts[r] ELSE Unresolved]]
    /\ UNCHANGED <<surveyAt, surveyed, runOver, answerReceipts, said, accepted, resumes, proofs, heard, lost>>

Invalid(c) == c.parked /\ c.res.kind = "answers" /\ Violations(c.request, c.res.answers) # {}

\* _replay_existing_action: another resolution is already accepted
Conflicts(c) == accepted[c.request].res # c.res

\* 404, 422 and the conflicts and refusals of 409: nothing is changed
RefuseResolution(k) ==
    LET c == surveyClient[k] IN
    /\ c.at = "read"
    /\ \/ accepted[c.request] = NoAction /\ ~c.parked
       \/ Invalid(c)
       \/ accepted[c.request] # NoAction /\ Conflicts(c)
       \/ accepted[c.request] = NoAction /\ runOver
       \/ accepted[c.request] # NoAction /\ ~accepted[c.request].applied /\ c.parked /\ c.receipt # c.res /\ runOver
    /\ surveyClient' = [surveyClient EXCEPT ![k] = Calm]
    /\ UNCHANGED <<surveyAt, surveyed, runOver, answerReceipts, said, accepted, resumes, proofs, heard, responses, lost>>

\* _settle_from_receipt: checkpoint truth carries this request and this resolution
Shown(c) == c.receipt = c.res

\* _replay_existing_action and a claim another response holds: the accepted
\* action is reported as it stands
ReplayResolution(k) ==
    LET c == surveyClient[k] IN
    /\ c.at = "read" /\ ~Invalid(c)
    /\ accepted[c.request] # NoAction /\ ~Conflicts(c)
    /\ \/ Shown(c) /\ accepted' = Applied(c.request) /\ Answer(k, TRUE)
       \/ /\ ~Shown(c) /\ accepted' = accepted
          /\ accepted[c.request].applied \/ ~c.parked \/ (accepted[c.request].leased /\ ~runOver)
          /\ Answer(k, accepted[c.request].applied)
    /\ UNCHANGED <<surveyAt, surveyed, runOver, answerReceipts, said, resumes, proofs, responses, lost>>

\* _claim_and_dispatch: the action is reserved under the request's key and leased
ClaimResolution(k) ==
    LET c == surveyClient[k] IN
    /\ c.at = "read" /\ c.parked /\ ~Invalid(c) /\ ~runOver
    /\ \/ accepted[c.request] = NoAction
       \/ /\ accepted[c.request] # NoAction /\ ~Conflicts(c) /\ ~Shown(c)
          /\ ~accepted[c.request].applied /\ ~accepted[c.request].leased
    /\ accepted' = [accepted EXCEPT ![c.request] = [res |-> c.res, applied |-> FALSE, leased |-> TRUE]]
    /\ surveyClient' = [surveyClient EXCEPT ![k].at = "claimed"]
    /\ UNCHANGED <<surveyAt, surveyed, runOver, answerReceipts, said, resumes, proofs, heard, responses, lost>>

Dispatch(k) == resumes' = resumes \cup {[request |-> surveyClient[k].request, res |-> surveyClient[k].res]}

\* dispatch_leased
DeliverResolution(k) ==
    /\ surveyClient[k].at = "claimed" /\ Dispatch(k)
    /\ surveyClient' = [surveyClient EXCEPT ![k].at = "sent"]
    /\ UNCHANGED <<surveyAt, surveyed, runOver, answerReceipts, said, accepted, proofs, heard, responses, lost>>

\* _dispatch_claimed after a delivery: the latest checkpoint is read again
ConfirmResolution(k) ==
    LET c == surveyClient[k] IN
    /\ c.at = "sent"
    /\ \/ answerReceipts[c.request] = c.res /\ accepted' = Applied(c.request) /\ Answer(k, TRUE)
       \/ accepted' = accepted /\ Answer(k, FALSE)
    /\ UNCHANGED <<surveyAt, surveyed, runOver, answerReceipts, said, resumes, proofs, responses, lost>>

\* a proven non-delivery gives the lease back; any other failure keeps it,
\* and the dispatch may have arrived
LoseResolution(k, disposition) ==
    /\ surveyClient[k].at = "claimed" /\ lost < MaxLost /\ lost' = lost + 1
    /\ IF disposition = "arrived" THEN Dispatch(k) ELSE resumes' = resumes
    /\ accepted' = IF disposition = "definite" /\ ~runOver
                   THEN [accepted EXCEPT ![surveyClient[k].request].leased = FALSE] ELSE accepted
    /\ Answer(k, FALSE)
    /\ UNCHANGED <<surveyAt, surveyed, runOver, answerReceipts, said, proofs, responses>>

ClarNext ==
    \/ AskUser \/ RunSettles
    \/ \E d \in resumes : TakeResume(d) \/ DropResume(d)
    \/ \E r \in SurveyIds : RelayProof(r) \/ LeaseRunsOut(r) \/ Redeliver(r)
    \/ \E k \in Clients, r \in SurveyIds, res \in Resolutions, legible \in BOOLEAN : ReadSurvey(k, r, res, legible)
    \/ \E k \in Clients : RefuseResolution(k) \/ ReplayResolution(k) \/ ClaimResolution(k)
                            \/ DeliverResolution(k) \/ ConfirmResolution(k)
    \/ \E k \in Clients, disposition \in {"definite", "arrived", "absent"} : LoseResolution(k, disposition)

\* the worker takes what is delivered, the relay what it reports, a lease
\* that no one settles runs out, a response goes on to its end, and the
\* recovery pass comes round again
ClarFairness ==
    /\ WF_clarVars(\E d \in resumes : TakeResume(d) \/ DropResume(d))
    /\ \A r \in SurveyIds : WF_clarVars(RelayProof(r)) /\ WF_clarVars(LeaseRunsOut(r)) /\ WF_clarVars(Redeliver(r))
    /\ \A k \in Clients : WF_clarVars(DeliverResolution(k))

ClarSpec == ClarInit /\ [][ClarNext]_clarVars /\ ClarFairness

(***************************************************************************)
(* Properties.                                                             *)
(***************************************************************************)
\* What a questionnaire was resolved with is the resolution its journal row
\* accepted: no second client's answer and no answer to another questionnaire
\* takes its place (clarification_response_action_key,
\* parse_clarification_resolution).
ResolvedAsAccepted ==
    \A r \in SurveyIds : answerReceipts[r] # Unresolved => accepted[r] # NoAction /\ accepted[r].res = answerReceipts[r]

\* A questionnaire adds at most one turn to the transcript, and one answered
\* question by question carries a line for every question it requires
\* (validate_clarification_answers, render_clarification_answers).
SaidIsWhole ==
    /\ \A i, j \in DOMAIN said : said[i].request = said[j].request => i = j
    /\ \A i \in DOMAIN said : answerReceipts[said[i].request].kind = "answers" =>
            LET r == said[i].request IN
            \A q \in DOMAIN Questionnaires[r] :
                /\ Questionnaires[r][q].required => q \in said[i].lines
                /\ Questionnaires[r][q].choice /\ q \in said[i].lines => answerReceipts[r].answers[q] = "option"

\* A client told that its resolution was accepted is told of the one on
\* record, and one told it was applied is told so of what the run did
\* (_replay_existing_action, _settle_from_receipt).
HeardIsTrue ==
    \A h \in heard : /\ accepted[h.request] # NoAction /\ accepted[h.request].res = h.res
                     /\ h.applied => answerReceipts[h.request] = h.res

\* An accepted resolution is applied,
\* whatever was lost on the way, unless the run is settled first
\* (the lease, the recovery pass and the worker's receipt).
AcceptedIsApplied ==
    \A r \in SurveyIds : (accepted[r] # NoAction) ~> (runOver \/ (accepted[r] # NoAction /\ accepted[r].applied))
===============================================================================
