--------------------------- MODULE ToolCallJournal ---------------------------
(***************************************************************************)
(* The replay journal of bridged authoring tool calls and its retirement:  *)
(* authoring/_tool_calls.py, authoring/_journal_index.py, and the dispatch *)
(* of authoring/catalog.py that uses them.                                 *)
(*                                                                         *)
(* A bridge process prepares a call in the journal of its scope, delivers  *)
(* it to the engine under the key it prepared, and completes it.  It may   *)
(* die anywhere and be replaced, an answer may be lost, and the gateway    *)
(* may retire the journals of the run meanwhile.  No lock spans the two    *)
(* processes: what holds them apart is the marker file of a closed run,    *)
(* read again at each point the code reads it, the write lock of the index *)
(* and the atomic replacement of a journal by a closed header.             *)
(*                                                                         *)
(* The client that carries a relayed call to the engine is AuthoringEdge;  *)
(* the two share no state, and what they promise together is               *)
(* EffectsHappenOnce.                                                      *)
(***************************************************************************)
EXTENDS Integers, FiniteSets, AuthoringEdge

CONSTANTS
    Bridges,     \* the processes that dispatch tool calls
    Scopes,      \* the call scopes of the run: one journal each
    LogicalCalls,       \* the logical tool call identities of a scope
    MaxRevision, \* bound: revisions of a scope's changeset
    MaxJournalTrouble   \* bound: deaths, lost answers and failed replacements

ASSUME JournalAssumption == MaxRevision \in Nat /\ MaxJournalTrouble \in Nat

VARIABLES
    closed,     \* whether the marker of the run exists
    index,      \* the scopes JournalIndex lists for the run
    indexer,    \* the bridge that holds the index's write lock
    inode,      \* what a journal's path names: 0 nothing, 1 a journal, 2 a closed header
    calls,      \* the calls table of a journal
    refs,       \* the lifecycle table of a journal: the changeset revision
    bridge,     \* what each bridge is doing
    retiring,   \* what retire_run_tool_calls is doing
    appliedCalls,    \* the engine: the keys it executed, with the revision they made
    journalTrouble     \* deaths, lost answers and failed replacements so far

journalVars == <<closed, index, indexer, inode, calls, refs, bridge, retiring, appliedCalls, journalTrouble>>

Revisions == 0..MaxRevision
NoToolCall == [state |-> "none", revision |-> 0]
Rested == [pc |-> "idle", op |-> "prepare", scope |-> "none", call |-> "none",
           inode |-> 0, revision |-> 0, answer |-> "none"]

BridgeStates ==
    [pc : {"idle", "register", "indexing", "open", "begin", "write", "commit", "deliver"},
     op : {"prepare", "complete"}, scope : Scopes \cup {"none"},
     call : LogicalCalls \cup {"none"}, inode : 0..2, revision : Revisions,
     answer : {"none", "ok", "denied", "rejected"}]

JournalTypeOK ==
    /\ closed \in BOOLEAN
    /\ index \subseteq Scopes
    /\ indexer \in Bridges \cup {"nobody"}
    /\ inode \in [Scopes -> 0..2]
    /\ calls \in [Scopes -> [LogicalCalls -> [state : {"none", "pending", "completed", "rejected"},
                                       revision : Revisions]]]
    /\ refs \in [Scopes -> Revisions]
    /\ bridge \in [Bridges -> BridgeStates]
    /\ \A b \in Bridges :
          bridge[b] = Rested \/ (bridge[b].scope \in Scopes /\ bridge[b].call \in LogicalCalls)
    /\ retiring \in [pc : {"idle", "marked", "replacing", "done"}, left : SUBSET Scopes,
                     failed : BOOLEAN]
    /\ appliedCalls \subseteq [scope : Scopes, call : LogicalCalls, revision : Revisions]
    /\ journalTrouble \in 0..MaxJournalTrouble

JournalInit ==
    /\ closed = FALSE
    /\ index = {}
    /\ indexer = "nobody"
    /\ inode = [s \in Scopes |-> 0]
    /\ calls = [s \in Scopes |-> [c \in LogicalCalls |-> NoToolCall]]
    /\ refs = [s \in Scopes |-> 0]
    /\ bridge = [b \in Bridges |-> Rested]
    /\ retiring = [pc |-> "idle", left |-> {}, failed |-> FALSE]
    /\ appliedCalls = {}
    /\ journalTrouble = 0

-----------------------------------------------------------------------------

\* The changeset revision the engine is at: every executed key made one.
EngineRevision(s) == Cardinality({k \in appliedCalls : k.scope = s})

GiveUp(b) == bridge' = [bridge EXCEPT ![b] = Rested]

\* make_tool_dispatch.dispatch of a retained call, up to the first marker
\* check of ToolCallJournal._transaction
DispatchCall(b, s, c) ==
    /\ bridge[b] = Rested
    /\ ~closed
    /\ bridge' = [bridge EXCEPT ![b] = [Rested EXCEPT !.pc = "register", !.scope = s, !.call = c]]
    /\ UNCHANGED <<closed, index, indexer, inode, calls, refs, retiring, appliedCalls, journalTrouble>>

\* _locked_transaction's check, then JournalIndex.register up to its last
\* check: the index is locked by BEGIN IMMEDIATE
RegisterScope(b) ==
    /\ bridge[b].pc = "register"
    /\ indexer = "nobody"
    /\ IF closed
         THEN /\ GiveUp(b)
              /\ UNCHANGED indexer
         ELSE /\ bridge' = [bridge EXCEPT ![b].pc = "indexing"]
              /\ indexer' = b
    /\ UNCHANGED <<closed, index, inode, calls, refs, retiring, appliedCalls, journalTrouble>>

\* The commit of register's transaction
CommitIndex(b) ==
    /\ bridge[b].pc = "indexing"
    /\ index' = index \cup {bridge[b].scope}
    /\ indexer' = "nobody"
    /\ bridge' = [bridge EXCEPT ![b].pc = "open"]
    /\ UNCHANGED <<closed, inode, calls, refs, retiring, appliedCalls, journalTrouble>>

\* The check after register, then aiosqlite.connect: a missing file is made
OpenJournal(b) ==
    LET s == bridge[b].scope
        there == IF inode[s] = 0 THEN 1 ELSE inode[s] IN
    /\ bridge[b].pc = "open"
    /\ IF closed
         THEN /\ GiveUp(b)
              /\ UNCHANGED inode
         ELSE /\ inode' = [inode EXCEPT ![s] = there]
              /\ bridge' = [bridge EXCEPT ![b].pc = "begin", ![b].inode = there]
    /\ UNCHANGED <<closed, index, indexer, calls, refs, retiring, appliedCalls, journalTrouble>>

\* BEGIN IMMEDIATE, the check under it and the check of the owner row: a closed
\* header has version 2
BeginJournal(b) ==
    /\ bridge[b].pc = "begin"
    /\ \A o \in Bridges : bridge[o].scope = bridge[b].scope => bridge[o].pc \notin {"write", "commit"}
    /\ IF closed \/ bridge[b].inode = 2
         THEN GiveUp(b)
         ELSE bridge' = [bridge EXCEPT ![b].pc = "write"]
    /\ UNCHANGED <<closed, index, indexer, inode, calls, refs, retiring, appliedCalls, journalTrouble>>

\* prepare's decision: the original key of a call that was prepared, or a new
\* key built from the current references; a rejected call and a second pending
\* one are refused
PrepareAllowed(s, c) ==
    IF calls[s][c].state # "none"
      THEN calls[s][c].state # "rejected"
      ELSE \A o \in LogicalCalls : calls[s][o].state # "pending"

PreparedRevision(s, c) ==
    IF calls[s][c].state # "none" THEN calls[s][c].revision ELSE refs[s]

\* The body of prepare or complete and the last check before the commit
WriteJournal(b) ==
    LET s == bridge[b].scope
        c == bridge[b].call IN
    /\ bridge[b].pc = "write"
    /\ IF closed \/ (bridge[b].op = "prepare" /\ ~PrepareAllowed(s, c))
         THEN GiveUp(b)
         ELSE bridge' = [bridge EXCEPT ![b].pc = "commit",
                           ![b].revision = IF bridge[b].op = "prepare"
                                             THEN PreparedRevision(s, c) ELSE @]
    /\ UNCHANGED <<closed, index, indexer, inode, calls, refs, retiring, appliedCalls, journalTrouble>>

\* What the transaction leaves in the tables: complete changes a pending call only
CallAfter(prior, b) ==
    CASE b.op = "prepare" ->
           IF prior.state = "none" THEN [state |-> "pending", revision |-> b.revision] ELSE prior
      [] b.op = "complete" /\ prior.state = "pending" ->
           [prior EXCEPT !.state = IF b.answer = "rejected" THEN "rejected" ELSE "completed"]
      [] OTHER -> prior

RefsAfter(prior, b, r) ==
    IF b.op = "complete" /\ prior.state = "pending" /\ b.answer = "ok"
      THEN b.revision + 1 ELSE r

\* The commit goes to the inode that was opened: nobody sees it at the path if
\* the journal was replaced in the meantime
CommitJournal(b) ==
    LET s == bridge[b].scope
        c == bridge[b].call
        kept == inode[s] = bridge[b].inode IN
    /\ bridge[b].pc = "commit"
    /\ calls' = IF kept THEN [calls EXCEPT ![s][c] = CallAfter(@, bridge[b])] ELSE calls
    /\ refs' = IF kept THEN [refs EXCEPT ![s] = RefsAfter(calls[s][c], bridge[b], @)] ELSE refs
    /\ bridge' = [bridge EXCEPT ![b] = IF @.op = "prepare" THEN [@ EXCEPT !.pc = "deliver"]
                                       ELSE Rested]
    /\ UNCHANGED <<closed, index, indexer, inode, retiring, appliedCalls, journalTrouble>>

KeyOf(b) == [scope |-> b.scope, call |-> b.call, revision |-> b.revision]

\* execute_agent_tool, the engine's part of it and the answer: a key it has
\* executed is answered again, a new one is executed at the revision it expects
\* and denied at another; a refused request executes nothing.
DeliverCall(b) ==
    LET k == KeyOf(bridge[b])
        current == EngineRevision(k.scope) = k.revision IN
    /\ bridge[b].pc = "deliver"
    /\ \E answer \in {"ok", "denied", "rejected", "lost"} :
          /\ answer = "ok" => k \in appliedCalls \/ (current /\ k.revision < MaxRevision)
          /\ answer = "denied" => k \notin appliedCalls /\ ~current
          /\ answer = "lost" => journalTrouble < MaxJournalTrouble
          /\ \E executed \in (CASE answer = "ok" -> {TRUE}
                                [] answer = "lost" -> {FALSE, current /\ k.revision < MaxRevision}
                                [] OTHER -> {FALSE}) :
                appliedCalls' = IF executed THEN appliedCalls \cup {k} ELSE appliedCalls
          /\ journalTrouble' = IF answer = "lost" THEN journalTrouble + 1 ELSE journalTrouble
          /\ bridge' = [bridge EXCEPT ![b] =
                          IF answer = "lost" \/ closed THEN Rested
                          ELSE [@ EXCEPT !.pc = "register", !.op = "complete", !.answer = answer,
                                         !.inode = 0]]
    /\ UNCHANGED <<closed, index, indexer, inode, calls, refs, retiring>>

\* A bridge dies: SQLite rolls its transactions back.
BridgeDies(b) ==
    /\ bridge[b] # Rested
    /\ journalTrouble < MaxJournalTrouble
    /\ journalTrouble' = journalTrouble + 1
    /\ GiveUp(b)
    /\ indexer' = IF indexer = b THEN "nobody" ELSE indexer
    /\ UNCHANGED <<closed, index, inode, calls, refs, retiring, appliedCalls>>

\* retire_run_tool_calls: the marker first
CloseRun ==
    /\ retiring.pc = "idle"
    /\ closed' = TRUE
    /\ retiring' = [retiring EXCEPT !.pc = "marked"]
    /\ UNCHANGED <<index, indexer, inode, calls, refs, bridge, appliedCalls, journalTrouble>>

\* JournalIndex.scopes
ReadScopes ==
    /\ retiring.pc = "marked"
    /\ indexer = "nobody"
    /\ retiring' = [pc |-> "replacing", left |-> index, failed |-> FALSE]
    /\ UNCHANGED <<closed, index, indexer, inode, calls, refs, bridge, appliedCalls, journalTrouble>>

\* ToolCallJournal._retire_closed of one scope: the path is replaced by a
\* closed header, or that fails and the next scope is tried
RetireJournal(s) ==
    /\ retiring.pc = "replacing"
    /\ s \in retiring.left
    /\ \/ /\ inode' = [inode EXCEPT ![s] = 2]
          /\ retiring' = [retiring EXCEPT !.left = @ \ {s}]
          /\ UNCHANGED journalTrouble
       \/ /\ journalTrouble < MaxJournalTrouble
          /\ journalTrouble' = journalTrouble + 1
          /\ retiring' = [retiring EXCEPT !.left = @ \ {s}, !.failed = TRUE]
          /\ UNCHANGED inode
    /\ UNCHANGED <<closed, index, indexer, calls, refs, bridge, appliedCalls>>

\* The end of retire_run_tool_calls: the first failure is raised and the next
\* cleanup pass starts again, or JournalIndex.forget ends the retirement
EndRetirement ==
    /\ retiring.pc = "replacing"
    /\ retiring.left = {}
    /\ indexer = "nobody"
    /\ index' = IF retiring.failed THEN index ELSE {}
    /\ retiring' = [pc |-> IF retiring.failed THEN "idle" ELSE "done", left |-> {}, failed |-> FALSE]
    /\ UNCHANGED <<closed, indexer, inode, calls, refs, bridge, appliedCalls, journalTrouble>>

\* The gateway dies in the middle of a retirement.
RetirementDies ==
    /\ retiring.pc \in {"marked", "replacing"}
    /\ journalTrouble < MaxJournalTrouble
    /\ journalTrouble' = journalTrouble + 1
    /\ retiring' = [pc |-> "idle", left |-> {}, failed |-> FALSE]
    /\ UNCHANGED <<closed, index, indexer, inode, calls, refs, bridge, appliedCalls>>

JournalNext ==
    \/ \E b \in Bridges, s \in Scopes, c \in LogicalCalls : DispatchCall(b, s, c)
    \/ \E b \in Bridges : RegisterScope(b)
    \/ \E b \in Bridges : CommitIndex(b)
    \/ \E b \in Bridges : OpenJournal(b)
    \/ \E b \in Bridges : BeginJournal(b)
    \/ \E b \in Bridges : WriteJournal(b)
    \/ \E b \in Bridges : CommitJournal(b)
    \/ \E b \in Bridges : DeliverCall(b)
    \/ \E b \in Bridges : BridgeDies(b)
    \/ CloseRun
    \/ ReadScopes
    \/ \E s \in Scopes : RetireJournal(s)
    \/ EndRetirement
    \/ RetirementDies

JournalSpec == JournalInit /\ [][JournalNext]_journalVars

-----------------------------------------------------------------------------

(* "Keep the prepared identity before delivery, including ambiguous failures":
   whatever is lost, retried by the same bridge or by the one that replaces
   it, the engine executes a logical tool call at most once, because every
   delivery of it carries the key that was committed first. *)
ExecutedOnce ==
    \A k, l \in appliedCalls : k.scope = l.scope /\ k.call = l.call => k = l

(* A retirement that reported success leaves no journal of the run in place,
   and no bridge that was under way when the marker appeared makes one later:
   JournalIndex listed every scope that could have had one. *)
RetiredLeavesNothing ==
    retiring.pc = "done" => \A s \in Scopes : inode[s] # 1

(* "Advance lifecycle once; a late replay must not roll it backward": the
   changeset revision a journal hands to the next call never goes back. *)
LifecycleGoesForward ==
    \A s \in Scopes : refs'[s] >= refs[s]

(* A command to the authoring engine and a journaled tool call take effect
   once, however often they are delivered: nothing is applied or executed
   twice, sent to a listener that proved nothing, applied out of order or
   beside another call of the role, and a retired run leaves no journal. *)
EffectsHappenOnce ==
    /\ AppliedOnce /\ SpokenToTheEngine /\ SubmissionInOrder /\ OneCallPerRole
    /\ ExecutedOnce /\ RetiredLeavesNothing

=============================================================================
