------------------------------ MODULE RunListing ------------------------------
(***************************************************************************)
(* The two ways runs are listed (GET /v1/runs): discovery of active runs,  *)
(* which first reconciles a page of candidates and then reads it afresh    *)
(* (control/run_discovery_service.py), and the full listing, a page of     *)
(* summaries judged from checkpoint probes under one deadline              *)
(* (control/thread_listing.py), which a client walks by offset.  Runs are  *)
(* numbered in the order of their creation; both readers go newest first.  *)
(* What a reconciliation decides is RunControl's and what a summary        *)
(* discloses StatusSnapshot's: here a run has ended or not, and a summary  *)
(* is ready or degraded.                                                   *)
(***************************************************************************)
EXTENDS Naturals, FiniteSets

CONSTANTS MaxListed,    \* bound: runs ever created
          Limit,        \* rows of one answer
          ProbeGate     \* thread_list_checkpoint_concurrency

ASSUME ListingConstants == MaxListed \in Nat /\ Limit \in Nat \ {0} /\ ProbeGate \in Nat \ {0}

VARIABLES status,       \* run -> status of its row
          ended,        \* runs whose checkpoint proves them over
          finder,       \* one discovery
          walker        \* one walk over the listing's pages

listingVars == <<status, ended, finder, walker>>

ListedRuns == 1..MaxListed
Statuses == {"absent", "active", "settled", "deleting"}
ActiveRuns == {r \in ListedRuns : status[r] = "active"}
ListableRuns == {r \in ListedRuns : status[r] \in {"active", "settled"}}

(* ORDER BY created_at DESC ... OFFSET skip LIMIT n over the rows S. *)
Newer(S, r) == Cardinality({q \in S : q > r})
PageOf(S, skip, n) == {r \in S : Newer(S, r) \in skip..(skip + n - 1)}
NewestOf(S) == CHOOSE r \in S : \A q \in S : q <= r

NoFinder == [at |-> "idle", page |-> {}, left |-> {}, owed |-> {}, answer |-> {},
             live |-> {}, truncated |-> FALSE]
NoWalker == [at |-> "idle", offset |-> 0, total |-> 0, page |-> {}, probing |-> {},
             good |-> {}, bad |-> {}, ready |-> {}, seen |-> {}, due |-> {}]

-----------------------------------------------------------------------------
(* The runs' own lives.  A row that ended without being told stays active  *)
(* until a reconciliation.                                                 *)
CreateListedRun ==
    /\ \E r \in ListedRuns :
          /\ status[r] = "absent" /\ \A q \in ListedRuns : q < r => status[q] # "absent"
          /\ status' = [status EXCEPT ![r] = "active"]
    /\ UNCHANGED <<ended, finder, walker>>

RunIsOver(r) ==
    /\ status[r] = "active" /\ r \notin ended
    /\ ended' = ended \union {r}
    /\ UNCHANGED <<status, finder, walker>>

SettleRow(r) ==
    /\ r \in ended /\ status[r] = "active"
    /\ status' = [status EXCEPT ![r] = "settled"]
    /\ UNCHANGED <<ended, finder, walker>>

(* A deletion hides the row at once; a walk under way no longer owes it,   *)
(* nor any run that the closing gap lets slip past its offset.             *)
HideRow(r) ==
    /\ status[r] = "settled"
    /\ status' = [status EXCEPT ![r] = "deleting"]
    /\ walker' = [walker EXCEPT !.due = {}]
    /\ UNCHANGED <<ended, finder>>

-----------------------------------------------------------------------------
(* discover_active_runs: one row more than the answer may hold. *)
CandidatePage == PageOf(ActiveRuns, 0, Limit + 1)

BeginDiscovery ==
    /\ finder.at = "idle"
    /\ finder' = [finder EXCEPT !.at = "reconcile", !.page = CandidatePage,
                                !.left = PageOf(CandidatePage, 0, Limit),
                                !.owed = PageOf(CandidatePage, 0, Limit) \intersect ended]
    /\ UNCHANGED <<status, ended, walker>>

(* reconcile_run_checkpoint, newest candidate first; a checkpoint it       *)
(* cannot read leaves the run as it was.                                   *)
ReconcileCandidate ==
    /\ finder.at = "reconcile" /\ finder.left # {}
    /\ LET r == NewestOf(finder.left) IN
       \/ /\ status' = [status EXCEPT ![r] = IF r \in ended /\ @ = "active"
                                             THEN "settled" ELSE @]
          /\ finder' = [finder EXCEPT !.left = @ \ {r}]
       \/ /\ finder' = [finder EXCEPT !.left = @ \ {r}, !.owed = @ \ {r}]
          /\ UNCHANGED status
    /\ UNCHANGED <<ended, walker>>

(* The shared deadline expires before the page is through. *)
ReconcileDeadline ==
    /\ finder.at = "reconcile" /\ finder.left # {}
    /\ finder' = [finder EXCEPT !.owed = @ \ finder.left, !.left = {}]
    /\ UNCHANGED <<status, ended, walker>>

AnswerWith(page) ==
    finder' = [NoFinder EXCEPT !.at = "answered", !.owed = finder.owed,
                  !.answer = PageOf(page, 0, Limit),
                  !.live = ActiveRuns, !.truncated = Cardinality(page) > Limit]

(* Commit, then a fresh page: what the reconciliation settled is gone, and *)
(* what it made room for is in.                                            *)
ProjectActiveRuns ==
    /\ finder.at = "reconcile" /\ finder.left = {}
    /\ AnswerWith(CandidatePage)
    /\ UNCHANGED <<status, ended, walker>>

-----------------------------------------------------------------------------
(* list_threads: the count and the page come from one snapshot. *)
ListPage ==
    /\ walker.at \in {"idle", "more"}
    /\ walker' = [walker EXCEPT !.at = "probe", !.total = Cardinality(ListableRuns),
                     !.page = PageOf(ListableRuns, walker.offset, Limit),
                     !.probing = {}, !.good = {}, !.bad = {},
                     !.due = IF walker.at = "idle" THEN ListableRuns ELSE @]
    /\ UNCHANGED <<status, ended, finder>>

Unprobed == walker.page \ (walker.probing \union walker.good \union walker.bad)

(* _bulk_read_checkpoints: the semaphore admits ProbeGate reads at a time. *)
StartProbe(r) ==
    /\ walker.at = "probe" /\ r \in Unprobed /\ Cardinality(walker.probing) < ProbeGate
    /\ walker' = [walker EXCEPT !.probing = @ \union {r}]
    /\ UNCHANGED <<status, ended, finder>>

EndProbe(r) ==
    /\ walker.at = "probe" /\ r \in walker.probing
    /\ \/ walker' = [walker EXCEPT !.probing = @ \ {r}, !.good = @ \union {r}]
       \/ walker' = [walker EXCEPT !.probing = @ \ {r}, !.bad = @ \union {r}]
    /\ UNCHANGED <<status, ended, finder>>

(* Finished probes keep their reading; every other is read as a timeout. *)
ProbesTimeOut ==
    /\ walker.at = "probe" /\ walker.page # walker.good \union walker.bad
    /\ walker' = [walker EXCEPT !.at = "judge", !.probing = {},
                                !.bad = walker.page \ walker.good]
    /\ UNCHANGED <<status, ended, finder>>

ProbesFinish ==
    /\ walker.at = "probe" /\ walker.page = walker.good \union walker.bad
    /\ walker' = [walker EXCEPT !.at = "judge"]
    /\ UNCHANGED <<status, ended, finder>>

(* truncated: offset + len(runs) < total. *)
MorePages == walker.offset + Cardinality(walker.page) < walker.total

(* _judge_run_posture: an unreadable probe degrades the summary.  The      *)
(* client goes on behind what it was given while the answer is truncated.  *)
JudgePage ==
    /\ walker.at = "judge"
    /\ walker' = [walker EXCEPT !.at = IF MorePages THEN "more" ELSE "walked",
                     !.ready = walker.page \ walker.bad,
                     !.seen = @ \union walker.page,
                     !.offset = @ + Cardinality(walker.page)]
    /\ UNCHANGED <<status, ended, finder>>

-----------------------------------------------------------------------------
ListingInit ==
    /\ status = [r \in ListedRuns |-> IF r < MaxListed THEN "active" ELSE "absent"]
    /\ ended = {}
    /\ \/ finder = NoFinder /\ walker = [NoWalker EXCEPT !.at = "off"]
       \/ finder = [NoFinder EXCEPT !.at = "off"] /\ walker = NoWalker

ListingSteps ==
    \/ ReconcileCandidate \/ ReconcileDeadline \/ ProjectActiveRuns
    \/ ListPage \/ ProbesTimeOut \/ ProbesFinish \/ JudgePage
    \/ \E r \in ListedRuns : StartProbe(r) \/ EndProbe(r)

ListingNext ==
    \/ CreateListedRun \/ BeginDiscovery \/ ListingSteps
    \/ \E r \in ListedRuns : RunIsOver(r) \/ SettleRow(r) \/ HideRow(r)

(* The deadlines are timers and the handlers run on; a checkpoint read may *)
(* hang for good.                                                          *)
ListingFairness ==
    /\ WF_listingVars(ReconcileDeadline) /\ WF_listingVars(ProjectActiveRuns)
    /\ WF_listingVars(ListPage) /\ WF_listingVars(ProbesTimeOut)
    /\ WF_listingVars(ProbesFinish) /\ WF_listingVars(JudgePage)

ListingSpec == ListingInit /\ [][ListingNext]_listingVars /\ ListingFairness

-----------------------------------------------------------------------------
(* Rows keep their statuses, an answer its limit and the probes their gate. *)
ListingTypeOK ==
    /\ \A r \in ListedRuns : status[r] \in Statuses
    /\ ended \subseteq ListedRuns
    /\ finder.at \in {"off", "idle", "reconcile", "answered"}
    /\ walker.at \in {"off", "idle", "probe", "judge", "more", "walked"}
    /\ Cardinality(finder.answer) <= Limit /\ Cardinality(walker.page) <= Limit
    /\ Cardinality(walker.probing) <= ProbeGate

(* An answer that does not say it is truncated holds every active run, and *)
(* one that says so left some out.                                         *)
TruncatedIsTrue ==
    finder.at = "answered" => (finder.truncated <=> finder.live # finder.answer)

(* A run that was over before the discovery began, that its page held and  *)
(* whose reconciliation was not cut short is not offered as active.        *)
EndedIsNotOffered ==
    finder.at = "answered" => finder.owed \intersect finder.answer = {}

(* A summary is ready only when its run's checkpoint was read in time and  *)
(* could be read.                                                          *)
ReadyWasRead == walker.at \in {"more", "walked"} =>
    walker.page \intersect walker.ready \subseteq walker.good

(* A walk to the end of the listing has shown every run that was there     *)
(* when it began, unless a deletion moved the rows under it.               *)
WalkSeesAll == walker.at = "walked" => walker.due \subseteq walker.seen

(* Discovery and listing answer even when no checkpoint can be read. *)
ListingsAnswer ==
    /\ (finder.at = "reconcile") ~> (finder.at = "answered")
    /\ (walker.at = "probe") ~> (walker.at = "walked")
=============================================================================
