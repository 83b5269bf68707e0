----------------------------- MODULE AcpSession -----------------------------
(***************************************************************************)
(* One turn of an ACP provider session: the subprocess, the handshake, the *)
(* settings the session must confirm, the prompt, the bounded chunk queue  *)
(* between the stdout reader and the consumer, the terminals the agent     *)
(* opens from background tasks, and the teardown step by step              *)
(* (providers/acp_chat_model.py, _acp_session.py, _acp_protocol.py,        *)
(* _acp_rpc_terminal_handlers.py, _acp_teardown.py, _subprocess.py).       *)
(*                                                                         *)
(* A chunk is its number, the None sentinel is 0.  What the agent writes,  *)
(* and when, is nondeterministic; so is every failure of a kill.           *)
(***************************************************************************)
EXTENDS Integers, Sequences, FiniteSets

CONSTANTS
    Selections,       \* the settings to confirm, in order: model, controls, permission mode
    Terminals,        \* the terminals the agent may ask for
    MaxChunks,        \* bound on the chunks of the turn
    ChunkQueueSize,   \* acp_chunk_queue_maxsize
    MaxKillFailures   \* bound on the process trees that cannot be reaped

ASSUME SessionAssumption ==
    /\ ChunkQueueSize \in Nat \ {0} /\ MaxChunks \in Nat /\ MaxKillFailures \in Nat
    /\ Selections \in Seq({"model", "control", "mode"})

VARIABLES
    step,          \* where the turn is: its handshake, its stream, its teardown
    child,         \* the agent's process
    reading,       \* the stdout reader is running
    authTried,     \* attempted_auth
    selecting,     \* the index of the setting being selected
    setting,       \* what the agent's session really has, per setting
    promptReply,   \* the settled prompt future: "none", "error", "closed", "result"
    promptDone,    \* ctx.prompt_done
    interrupt,     \* ctx.interrupt_exc[0]: "none", "suspension", "invalid"
    interruptLost, \* its sentinel met a full queue
    chunks,        \* ctx.chunk_queue
    emitted,       \* the chunks the agent has written, and how many of them before its result
    overflowed,    \* a chunk was dropped on a full queue
    got,           \* what the consumer yielded
    terminal,      \* per terminal: its task and its process
    sessionClosing,       \* ctx.closing
    cancelled,     \* the background tasks have been cancelled
    killFailures,
    result         \* "none", "ok", "failed", "suspended", "cancelled"

sessionVars == <<step, child, reading, authTried, selecting, setting, promptReply, promptDone, interrupt,
                 interruptLost, chunks, emitted, overflowed, got, terminal, sessionClosing, cancelled,
                 killFailures, result>>
handshakeVars == <<authTried, selecting, setting>>
turnStreamVars == <<promptReply, promptDone, interrupt, interruptLost, chunks, emitted, overflowed, got>>
teardownVars == <<terminal, sessionClosing, cancelled, killFailures>>

Handshake == {"initialize", "setup", "auth", "select", "identity", "prompt"}
Teardown == {"cancel", "readers", "tasks", "terminals", "kill"}
Settings == {Selections[i] : i \in DOMAIN Selections}

SessionTypeOK ==
    /\ step \in {"idle", "spawn", "stream", "closed"} \cup Handshake \cup Teardown
    /\ child \in {"none", "alive", "exited", "killed", "unreaped"}
    /\ reading \in BOOLEAN /\ authTried \in BOOLEAN
    /\ selecting \in 1..(Len(Selections) + 1)
    /\ setting \in [Settings -> {"wanted", "other"}]
    /\ promptReply \in {"none", "error", "closed", "result"} /\ promptDone \in BOOLEAN
    /\ interrupt \in {"none", "suspension", "invalid"} /\ interruptLost \in BOOLEAN
    /\ chunks \in Seq(0..MaxChunks) /\ Len(chunks) <= ChunkQueueSize
    /\ emitted \in [all : 0..MaxChunks, inTurn : 0..MaxChunks]
    /\ overflowed \in BOOLEAN /\ got \in Seq(1..MaxChunks)
    /\ terminal \in [Terminals -> {"none", "spawning", "spawned", "open", "killed", "unreaped"}]
    /\ sessionClosing \in BOOLEAN /\ cancelled \in BOOLEAN /\ killFailures \in 0..MaxKillFailures
    /\ result \in {"none", "ok", "failed", "suspended", "cancelled"}

SessionInit ==
    /\ step = "idle" /\ child = "none" /\ reading = FALSE
    /\ authTried = FALSE /\ selecting = 1
    /\ setting \in [Settings -> {"wanted", "other"}]
    /\ promptReply = "none" /\ promptDone = FALSE
    /\ interrupt = "none" /\ interruptLost = FALSE
    /\ chunks = <<>> /\ emitted = [all |-> 0, inTurn |-> 0] /\ overflowed = FALSE /\ got = <<>>
    /\ terminal = [t \in Terminals |-> "none"]
    /\ sessionClosing = FALSE /\ cancelled = FALSE /\ killFailures = 0 /\ result = "none"

\* put_nowait: a full queue drops what it is given
QueueFull == Len(chunks) = ChunkQueueSize
Enqueued(item) == IF QueueFull THEN chunks ELSE Append(chunks, item)

\* The turn is over: its finally clause tears the session down
EndTurn(outcome) ==
    /\ step' = IF child = "none" THEN "closed" ELSE "cancel"
    /\ result' = outcome

-----------------------------------------------------------------------------
\* _stream_request and _spawn_acp_process: the session is free, the child is contained
StartSession ==
    /\ step = "idle"
    /\ step' = "spawn"
    /\ UNCHANGED <<child, reading, result, handshakeVars, turnStreamVars, teardownVars>>

SpawnChild ==
    /\ step = "spawn"
    /\ \/ /\ step' = "initialize" /\ child' = "alive" /\ reading' = TRUE
          /\ UNCHANGED result
       \/ /\ EndTurn("failed")
          /\ UNCHANGED <<child, reading>>
    /\ UNCHANGED <<handshakeVars, turnStreamVars, teardownVars>>

\* A handshake request is answered with an error, or times out, or its pipe is closed
HandshakeFails ==
    /\ step \in Handshake \ {"prompt"}
    /\ EndTurn("failed")
    /\ UNCHANGED <<child, reading, handshakeVars, turnStreamVars, teardownVars>>

Initialized ==
    /\ step = "initialize" /\ reading
    /\ step' = "setup"
    /\ UNCHANGED <<child, reading, result, handshakeVars, turnStreamVars, teardownVars>>

\* session/new asks for authentication: once
AuthRequired ==
    /\ step = "setup" /\ reading /\ ~authTried
    /\ step' = "auth" /\ authTried' = TRUE
    /\ UNCHANGED <<child, reading, selecting, setting, result, turnStreamVars, teardownVars>>

Authenticated ==
    /\ step = "auth" /\ reading
    /\ step' = "setup"
    /\ UNCHANGED <<child, reading, result, handshakeVars, turnStreamVars, teardownVars>>

SessionCreated ==
    /\ step = "setup" /\ reading
    /\ step' = "select"
    /\ UNCHANGED <<child, reading, result, handshakeVars, turnStreamVars, teardownVars>>

\* _select_config_option: the value the response reports is the value asked for
Confirmed(s, after) == after = "wanted"

\* set_config_option: the agent applies the value or leaves its own, and reports it
SelectSetting ==
    /\ step = "select" /\ reading /\ selecting <= Len(Selections)
    /\ \E after \in {"wanted", "other"} :
         LET s == Selections[selecting] IN
         /\ setting[s] = "wanted" => after = "wanted"
         /\ setting' = [setting EXCEPT ![s] = after]
         /\ IF Confirmed(s, after)
            THEN selecting' = selecting + 1 /\ UNCHANGED <<step, result>>
            ELSE EndTurn("failed") /\ UNCHANGED selecting
    /\ UNCHANGED <<child, reading, authTried, turnStreamVars, teardownVars>>

SettingsSelected ==
    /\ step = "select" /\ selecting > Len(Selections)
    /\ step' = "identity"
    /\ UNCHANGED <<child, reading, result, handshakeVars, turnStreamVars, teardownVars>>

\* _persist_runtime_identity
PersistIdentity ==
    /\ step = "identity"
    /\ step' = "prompt"
    /\ UNCHANGED <<child, reading, result, handshakeVars, turnStreamVars, teardownVars>>

\* setup_prompt: the request is written, or the pipe is closed
SendPrompt ==
    /\ step = "prompt"
    /\ \/ step' = "stream" /\ UNCHANGED result
       \/ ~reading /\ EndTurn("failed")
    /\ promptReply' = IF reading THEN promptReply ELSE "closed"
    /\ UNCHANGED <<child, reading, promptDone, interrupt, interruptLost, chunks, emitted, overflowed, got,
                   handshakeVars, teardownVars>>

-----------------------------------------------------------------------------
\* The reader: session/update with a message, thought or tool chunk
ReadChunk ==
    /\ reading /\ step \in {"stream", "cancel"} /\ emitted.all < MaxChunks
    /\ emitted' = [all |-> emitted.all + 1,
                   inTurn |-> IF promptDone THEN emitted.inTurn ELSE emitted.all + 1]
    /\ chunks' = Enqueued(emitted.all + 1)
    /\ overflowed' = (overflowed \/ QueueFull)
    /\ UNCHANGED <<step, child, reading, promptReply, promptDone, interrupt, interruptLost, got, result,
                   handshakeVars, teardownVars>>

\* handle_client_response with a result for the prompt: a duplicate is ignored
ReadResult(valid) ==
    /\ reading /\ step = "stream" /\ ~promptDone
    /\ promptDone' = TRUE
    /\ promptReply' = IF promptReply = "none" THEN "result" ELSE promptReply
    /\ interrupt' = IF ~valid /\ interrupt = "none" THEN "invalid" ELSE interrupt
    /\ UNCHANGED <<step, child, reading, interruptLost, chunks, emitted, overflowed, got, result,
                   handshakeVars, teardownVars>>

\* ... with an error: the future is settled and a sentinel wakes the consumer
ReadError ==
    /\ reading /\ step = "stream" /\ ~promptDone /\ promptReply = "none"
    /\ promptReply' = "error"
    /\ chunks' = Enqueued(0)
    /\ UNCHANGED <<step, child, reading, promptDone, interrupt, interruptLost, emitted, overflowed, got,
                   result, handshakeVars, teardownVars>>

\* The reader's finally clause: pending futures fail, a sentinel ends an open turn
ReaderStops ==
    /\ reading' = FALSE
    /\ promptReply' = IF promptReply = "none" THEN "closed" ELSE promptReply
    /\ chunks' = IF promptDone THEN chunks ELSE Enqueued(0)

\* The agent's process leaves
ChildExits ==
    /\ child = "alive" /\ step \notin {"idle", "spawn", "closed"}
    /\ child' = "exited"
    /\ IF reading THEN ReaderStops ELSE UNCHANGED <<reading, promptReply, chunks>>
    /\ UNCHANGED <<step, promptDone, interrupt, interruptLost, emitted, overflowed, got, result,
                   handshakeVars, teardownVars>>

\* on_request_permission: the human rung suspends the graph
RaiseSuspension ==
    /\ step = "stream" /\ interrupt = "none"
    /\ interrupt' = "suspension" /\ interruptLost' = QueueFull
    /\ chunks' = Enqueued(0)
    /\ UNCHANGED <<step, child, reading, promptReply, promptDone, emitted, overflowed, got, result,
                   handshakeVars, teardownVars>>

-----------------------------------------------------------------------------
Take == chunks' = Tail(chunks) /\ got' = Append(got, Head(chunks))

Interrupted == IF interrupt = "suspension" THEN EndTurn("suspended") ELSE EndTurn("failed")

\* _raise_for_early_exit: the suspension, the prompt's error, or an abnormal exit
EarlyExit == Interrupted

\* _yield_chunks, while the prompt is open
YieldChunk ==
    /\ step = "stream" /\ chunks # <<>> /\ (~promptDone \/ Head(chunks) # 0)
    /\ IF Head(chunks) # 0
       THEN Take /\ UNCHANGED <<step, result>>
       ELSE EarlyExit /\ chunks' = Tail(chunks) /\ UNCHANGED got
    /\ UNCHANGED <<child, reading, promptReply, promptDone, interrupt, interruptLost, emitted, overflowed,
                   handshakeVars, teardownVars>>

\* ... its drain, when the prompt is done: sentinels are skipped
SkipSentinel ==
    /\ step = "stream" /\ promptDone /\ chunks # <<>> /\ Head(chunks) = 0
    /\ chunks' = Tail(chunks)
    /\ UNCHANGED <<step, child, reading, promptReply, promptDone, interrupt, interruptLost, emitted,
                   overflowed, got, result, handshakeVars, teardownVars>>

\* An empty poll: the settled error is raised, or the idle deadline has passed
PollExpires ==
    /\ step = "stream" /\ ~promptDone /\ chunks = <<>>
    /\ EndTurn("failed")
    /\ UNCHANGED <<child, reading, handshakeVars, turnStreamVars, teardownVars>>

\* The suspension or the invalid result is raised, then the stop reason is judged
FinishTurn ==
    /\ step = "stream" /\ promptDone /\ chunks = <<>>
    /\ IF interrupt # "none" THEN Interrupted
       ELSE \E outcome \in {"ok", "failed"} : EndTurn(outcome)
    /\ UNCHANGED <<child, reading, handshakeVars, turnStreamVars, teardownVars>>

\* The consumer is cancelled or closed: the run was cancelled, or its node timed out
CancelPrompt ==
    /\ step \in {"spawn", "stream"} \cup Handshake
    /\ EndTurn("cancelled")
    /\ UNCHANGED <<child, reading, handshakeVars, turnStreamVars, teardownVars>>

-----------------------------------------------------------------------------
\* terminal/create arrives: the session is active and not closing, the spawn begins
CreateTerminal(t) ==
    /\ reading /\ step \in {"stream", "cancel"} /\ ~sessionClosing /\ terminal[t] = "none"
    /\ terminal' = [terminal EXCEPT ![t] = "spawning"]
    /\ UNCHANGED <<step, child, reading, sessionClosing, cancelled, killFailures, result, handshakeVars, turnStreamVars>>

\* The spawn is shielded: it finishes whatever happens to the task that asked for it
TerminalSpawned(t) ==
    /\ terminal[t] = "spawning"
    /\ terminal' = [terminal EXCEPT ![t] = "spawned"]
    /\ UNCHANGED <<step, child, reading, sessionClosing, cancelled, killFailures, result, handshakeVars, turnStreamVars>>

Reap(t) ==
    \/ terminal' = [terminal EXCEPT ![t] = "killed"] /\ UNCHANGED killFailures
    \/ /\ killFailures < MaxKillFailures
       /\ killFailures' = killFailures + 1
       /\ terminal' = [terminal EXCEPT ![t] = "unreaped"]

\* on_terminal_create after its spawn: registered, or reaped by a cancelled or closing session
RegisterTerminal(t) ==
    /\ terminal[t] = "spawned"
    /\ IF sessionClosing \/ cancelled THEN Reap(t)
       ELSE terminal' = [terminal EXCEPT ![t] = "open"] /\ UNCHANGED killFailures
    /\ UNCHANGED <<step, child, reading, sessionClosing, cancelled, result, handshakeVars, turnStreamVars>>

\* terminal/release
ReleaseTerminal(t) ==
    /\ terminal[t] = "open" /\ reading /\ ~sessionClosing
    /\ terminal' = [terminal EXCEPT ![t] = "killed"]
    /\ UNCHANGED <<step, child, reading, sessionClosing, cancelled, killFailures, result, handshakeVars, turnStreamVars>>

-----------------------------------------------------------------------------
\* session/cancel: answered, refused or timed out, it is the first step only
CancelSession ==
    /\ step = "cancel"
    /\ step' = "readers"
    /\ UNCHANGED <<child, reading, result, handshakeVars, turnStreamVars, teardownVars>>

StopReaders ==
    /\ step = "readers"
    /\ step' = "tasks" /\ sessionClosing' = TRUE
    /\ IF reading THEN ReaderStops ELSE UNCHANGED <<reading, promptReply, chunks>>
    /\ UNCHANGED <<child, promptDone, interrupt, interruptLost, emitted, overflowed, got, terminal,
                   cancelled, killFailures, result, handshakeVars>>

\* cancel_owned_tasks: a bounded join, after which a task may still be finishing
CancelTasks ==
    /\ step = "tasks"
    /\ step' = "terminals" /\ cancelled' = TRUE
    /\ UNCHANGED <<child, reading, terminal, sessionClosing, killFailures, result, handshakeVars, turnStreamVars>>

ReapTerminals ==
    /\ step = "terminals"
    /\ IF \E t \in Terminals : terminal[t] = "open"
       THEN /\ \E t \in Terminals : terminal[t] = "open" /\ Reap(t)
            /\ UNCHANGED step
       ELSE step' = "kill" /\ UNCHANGED <<terminal, killFailures>>
    /\ UNCHANGED <<child, reading, sessionClosing, cancelled, result, handshakeVars, turnStreamVars>>

KillChild ==
    /\ step = "kill"
    /\ step' = "closed"
    /\ \/ child' = "killed" /\ UNCHANGED killFailures
       \/ /\ killFailures < MaxKillFailures
          /\ killFailures' = killFailures + 1 /\ child' = "unreaped"
    /\ UNCHANGED <<reading, terminal, sessionClosing, cancelled, result, handshakeVars, turnStreamVars>>

TurnSteps ==
    \/ SpawnChild \/ HandshakeFails \/ SettingsSelected \/ PersistIdentity \/ SendPrompt
    \/ YieldChunk \/ SkipSentinel \/ FinishTurn \/ PollExpires
    \/ CancelSession \/ StopReaders \/ CancelTasks \/ ReapTerminals \/ KillChild

AgentSteps ==
    \/ Initialized \/ AuthRequired \/ Authenticated \/ SessionCreated \/ SelectSetting
    \/ ReadChunk \/ ReadError \/ ChildExits \/ RaiseSuspension
    \/ \E valid \in BOOLEAN : ReadResult(valid)

SessionNext ==
    \/ StartSession \/ TurnSteps \/ AgentSteps \/ CancelPrompt
    \/ \E t \in Terminals :
         CreateTerminal(t) \/ TerminalSpawned(t) \/ RegisterTerminal(t) \/ ReleaseTerminal(t)

SessionFairness ==
    /\ WF_sessionVars(TurnSteps)
    /\ \A t \in Terminals : WF_sessionVars(TerminalSpawned(t) \/ RegisterTerminal(t))

SessionSpec == SessionInit /\ [][SessionNext]_sessionVars /\ SessionFairness
-----------------------------------------------------------------------------
\* The model is prompted only in the session that was asked for: when the prompt is sent,
\* the agent really has the model, the controls and the permission mode of the run
\* (_select_config_option verifies each value the agent reports back).
PromptIsConfigured ==
    step = "stream" => \A s \in Settings : setting[s] = "wanted"

\* The consumer sees the agent's chunks in the agent's order; and if no chunk was dropped
\* on a full queue a turn that ends well has yielded all of them (_yield_chunks' drain).
AnswerIsWhole ==
    /\ \A i \in 1..(Len(got) - 1) : got[i] < got[i + 1]
    /\ (result = "ok" /\ ~overflowed) => Len(got) >= emitted.inTurn

\* A question for a person ends the turn as a suspension, whatever the agent says or does
\* beside it, unless the full queue had no room for the word of it.
SuspensionIsRaised ==
    (interrupt = "suspension" /\ ~interruptLost) => result \notin {"ok", "failed"}

\* A turn that is over has left no process and no terminal behind, but for a tree that
\* could not be reaped; a terminal whose spawn outlived the teardown is reaped by its task.
TurnLeavesNothing ==
    (step = "closed") ~> /\ child # "alive"
                         /\ \A t \in Terminals : terminal[t] \in {"none", "killed", "unreaped"}

\* Every turn ends, whatever the agent does or does not answer.
TurnEnds ==
    (step = "spawn") ~> (step = "closed")
=============================================================================
