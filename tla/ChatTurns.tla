----------------------------- MODULE ChatTurns -----------------------------
(***************************************************************************)
(* The chat transports of one session: backend/src/api/routes/chat.py with *)
(* the per-session turn lock of api/deps.py, the task record of            *)
(* core/session.py and the turn bracket of core/agent/orchestrator.py.     *)
(*                                                                         *)
(* A client is a WebSocket, one SSE request or one REST request.  A step   *)
(* is what the event loop runs between two suspension points.  A turn      *)
(* runs in a task of its own (WebSocket, SSE) or in the request (REST);    *)
(* the receive loop or generator that started it goes on concurrently and  *)
(* may cancel it.  Changes of the session's datasets arrive as requests.   *)
(***************************************************************************)
EXTENDS Naturals, FiniteSets

CONSTANTS
    Sockets,      \* WebSocket connections to this session
    Streams,      \* requests to POST /api/chat/stream
    Posts,        \* requests to POST /api/chat
    Uploads,      \* requests to POST /datasets whose cleaning pass changes nothing
    Cleanings,    \* requests to POST /datasets whose cleaning pass runs a script
    Edits,        \* requests to activate or delete a dataset
    Imports,      \* requests to POST /connections/{id}/import
    Disconnects   \* requests to DELETE /connections/{id}

Clients == Sockets \cup Streams \cup Posts
Changes == Uploads \cup Cleanings \cup Edits \cup Imports \cup Disconnects

ASSUME ClientsAreDistinct ==
    /\ Sockets \cap Streams = {} /\ Sockets \cap Posts = {} /\ Streams \cap Posts = {}

VARIABLES
    locked,     \* session_locks[id].locked()
    holds,      \* per client: _Lease._held, or inside the try that releases
    callback,   \* per socket: the done-callback of an ended task has yet to run
    loop,       \* per client: where its receive loop, generator or handler is
    closing,    \* per client: the cancellation in progress ends the connection
    current,    \* per socket: current_run is not None
    task,       \* per client: where its turn's task is
    cancelled,  \* per client: task.cancel() was called, not yet delivered
    frames,     \* per client: terminal frames its turn let through
    answer,     \* per socket: the consent future its turn waits on
    status,     \* Session.task.status
    plan,       \* Session.task.pending_plan: none, or the data version it is for
    basis,      \* per client: the data version its turn began with
    version,    \* how often the session's datasets have changed
    change      \* per dataset request: where its handler is

client   == <<loop, closing, current>>
turn     == <<task, cancelled, frames, answer, basis>>
taskRec  == <<status, plan>>
data     == <<version, change>>
lockVars == <<locked, holds>>
vars     == <<lockVars, callback, client, turn, taskRec, data>>

NoPlan == {}

\* The turn is bracketed by begin_turn and end_turn in these phases.
InTurn == {"running", "asking", "concluding", "gated"}
Alive  == InTurn \cup {"created", "unwinding"}

TypeOK ==
    /\ locked \in BOOLEAN
    /\ holds \in [Clients -> BOOLEAN]
    /\ callback \in [Sockets -> {"none", "spent", "held"}]
    /\ loop \in [Clients -> {"idle", "accepted", "serving", "interrupting", "waiting", "closed"}]
    /\ closing \in [Clients -> BOOLEAN]
    /\ current \in [Sockets -> BOOLEAN]
    /\ task \in [Clients -> Alive \cup {"none", "done"}]
    /\ cancelled \in [Clients -> BOOLEAN]
    /\ frames \in [Clients -> Nat]
    /\ answer \in [Sockets -> {"none", "open", "yes", "no"}]
    /\ status \in {"idle", "running", "awaiting_plan"}
    /\ plan \in SUBSET Nat
    /\ basis \in [Clients -> Nat]
    /\ version \in Nat
    /\ change \in [Changes -> {"new", "checked", "cleaned", "ended"}]

Init ==
    /\ locked = FALSE
    /\ holds = [c \in Clients |-> FALSE]
    /\ callback = [s \in Sockets |-> "none"]
    /\ loop = [c \in Clients |-> "idle"]
    /\ closing = [c \in Clients |-> FALSE]
    /\ current = [s \in Sockets |-> FALSE]
    /\ task = [c \in Clients |-> "none"]
    /\ cancelled = [c \in Clients |-> FALSE]
    /\ frames = [c \in Clients |-> 0]
    /\ answer = [s \in Sockets |-> "none"]
    /\ status = "idle"
    /\ plan = NoPlan
    /\ basis = [c \in Clients |-> 0]
    /\ version = 0
    /\ change = [d \in Changes |-> "new"]

-----------------------------------------------------------------------------
(* The lock, the task record and the consent broker, as the steps below use *)
(* them.                                                                    *)

\* Faulty variant: no check before the acquire.
TakeLockUnchecked(c) ==
    /\ locked' = TRUE
    /\ holds' = [holds EXCEPT ![c] = TRUE]

\* `if lock.locked()` and the acquire after it: no await in between.
TakeLock(c) ==
    /\ ~locked
    /\ locked' = TRUE
    /\ holds' = [holds EXCEPT ![c] = TRUE]

\* asyncio.Lock.release, whoever holds the lock.
FreeLock(c) ==
    /\ locked' = FALSE
    /\ holds' = [holds EXCEPT ![c] = FALSE]

\* ConsentBroker.abandon(session.id): every open question of the session,
\* whichever window asked it, is answered with a denial.
Abandoned == [s \in Sockets |-> IF answer[s] = "open" THEN "no" ELSE answer[s]]

\* run_turn's `finally` releases the lease; its done-callback, which runs in a
\* later iteration of the event loop, will find it spent.
TaskOver(s) ==
    /\ FreeLock(s)
    /\ callback' = [callback EXCEPT ![s] = "spent"]
    /\ answer' = Abandoned

\* Session.end_turn(awaiting_plan=p)
EndTurn(p) ==
    /\ plan' = p
    /\ status' = IF p = NoPlan THEN "idle" ELSE "awaiting_plan"

\* Session.reset_task
ResetTask ==
    /\ plan' = NoPlan
    /\ status' = IF status = "awaiting_plan" THEN "idle" ELSE status

\* Faulty variant: the cancelled question stays registered.
DiscardedNever(c) == answer

\* ConsentBroker._discard of the question a task was waiting on.
Discarded(c) == [s \in Sockets |-> IF s = c THEN "none" ELSE answer[s]]

-----------------------------------------------------------------------------
(* Starting a turn.                                                         *)

\* A message or plan-gate frame the receive loop admits.  A frame refused as
\* busy changes nothing.
Message(s) ==
    /\ loop[s] = "idle"
    /\ current[s] => task[s] = "done"
    /\ TakeLock(s)
    /\ task' = [task EXCEPT ![s] = "created"]
    /\ cancelled' = [cancelled EXCEPT ![s] = FALSE]
    /\ frames' = [frames EXCEPT ![s] = 0]
    /\ current' = [current EXCEPT ![s] = TRUE]
    /\ UNCHANGED <<callback, loop, closing, answer, basis, taskRec, data>>

\* The endpoint of a stream: it looks at the lock and returns a generator.
StreamAccepted(r) ==
    /\ loop[r] = "idle"
    /\ loop' = [loop EXCEPT ![r] = IF locked THEN "closed" ELSE "accepted"]
    /\ UNCHANGED <<callback, closing, current, lockVars, turn, taskRec, data>>

\* The generator's first step: busy frame, or the task and then the lock.
StreamBegins(r) ==
    /\ loop[r] = "accepted"
    /\ \/ /\ locked
          /\ loop' = [loop EXCEPT ![r] = "closed"]
          /\ UNCHANGED <<task, lockVars>>
       \/ /\ TakeLock(r)
          /\ task' = [task EXCEPT ![r] = "created"]
          /\ loop' = [loop EXCEPT ![r] = "serving"]
    /\ UNCHANGED <<callback, closing, current, cancelled, frames, answer, basis, taskRec, data>>

\* A REST turn runs in its request: the lock, then straight into the turn.
PostBegins(p) ==
    /\ loop[p] = "idle"
    /\ \/ /\ locked
          /\ loop' = [loop EXCEPT ![p] = "closed"]
          /\ UNCHANGED <<task, basis, status, lockVars>>
       \/ /\ TakeLock(p)
          /\ loop' = [loop EXCEPT ![p] = "serving"]
          /\ task' = [task EXCEPT ![p] = "running"]
          /\ basis' = [basis EXCEPT ![p] = version]
          /\ status' = "running"
    /\ UNCHANGED <<callback, closing, current, cancelled, frames, answer, plan, data>>

\* AnalysisOrchestrator.run up to its first await: routing, then begin_turn.
\* The event loop runs an earlier task's done-callback before this first step.
TurnBegins(c) ==
    /\ task[c] = "created"
    /\ ~cancelled[c]
    /\ c \in Sockets => callback[c] = "none"
    /\ task' = [task EXCEPT ![c] = "running"]
    /\ basis' = [basis EXCEPT ![c] = version]
    /\ status' = "running"
    /\ UNCHANGED <<callback, client, cancelled, frames, answer, plan, lockVars, data>>

-----------------------------------------------------------------------------
(* Inside a turn.                                                           *)

\* A gated action asks; only a WebSocket turn has can_prompt.
Ask(s) ==
    /\ task[s] = "running"
    /\ ~cancelled[s]
    /\ task' = [task EXCEPT ![s] = "asking"]
    /\ answer' = [answer EXCEPT ![s] = "open"]
    /\ UNCHANGED <<callback, client, cancelled, frames, basis, lockVars, taskRec, data>>

\* An approval frame that carries an id, read by the socket that asked.
Answer(s) ==
    /\ loop[s] = "idle"
    /\ answer[s] = "open"
    /\ \E a \in {"yes", "no"} : answer' = [answer EXCEPT ![s] = a]
    /\ UNCHANGED <<callback, client, task, cancelled, frames, basis, lockVars, taskRec, data>>

\* ConsentBroker.ask returns: answered, abandoned or timed out.
Resume(s) ==
    /\ task[s] = "asking"
    /\ ~cancelled[s]
    /\ task' = [task EXCEPT ![s] = "running"]
    /\ answer' = [answer EXCEPT ![s] = "none"]
    /\ UNCHANGED <<callback, client, cancelled, frames, basis, lockVars, taskRec, data>>

\* The turn's terminal frame: final or error ("concluding"), or the plan gate
\* ("gated").  TerminalEmitter lets the first one through.
Conclude(c) ==
    /\ task[c] = "running"
    /\ ~cancelled[c]
    /\ \E phase \in {"concluding", "gated"} : task' = [task EXCEPT ![c] = phase]
    /\ frames' = [frames EXCEPT ![c] = IF @ = 0 THEN 1 ELSE @]
    /\ UNCHANGED <<callback, client, cancelled, answer, basis, lockVars, taskRec, data>>

\* The turn returns: end_turn, then what its transport does when it is over.
TurnReturns(c) ==
    /\ task[c] \in {"concluding", "gated"}
    /\ ~cancelled[c]
    /\ EndTurn(IF task[c] = "gated" THEN {basis[c]} ELSE NoPlan)
    /\ task' = [task EXCEPT ![c] = "done"]
    /\ basis' = [basis EXCEPT ![c] = 0]
    /\ \/ c \in Sockets /\ TaskOver(c)
       \/ c \in Streams /\ UNCHANGED <<lockVars, callback, answer>>
       \/ c \in Posts /\ FreeLock(c) /\ UNCHANGED <<callback, answer>>
    /\ loop' = [loop EXCEPT ![c] = IF c \in Posts THEN "closed" ELSE @]
    /\ UNCHANGED <<closing, current, cancelled, frames, data>>

\* CancelledError reaches a task that never started: its body, `finally`
\* included, never runs, and the lease waits for the done-callback.
CancelledUnstarted(c) ==
    /\ task[c] = "created"
    /\ cancelled[c]
    /\ task' = [task EXCEPT ![c] = "done"]
    /\ cancelled' = [cancelled EXCEPT ![c] = FALSE]
    /\ \/ c \in Sockets /\ callback[c] = "none" /\ callback' = [callback EXCEPT ![c] = "held"]
       \/ c \in Streams /\ UNCHANGED callback
    /\ UNCHANGED <<client, frames, answer, basis, lockVars, taskRec, data>>

\* Faulty variant: no done-callback.
DoneCallbackMissing(s) ==
    /\ callback[s] # "none"
    /\ callback' = [callback EXCEPT ![s] = "none"]
    /\ UNCHANGED <<lockVars, client, turn, taskRec, data>>

\* The done-callback: `_Lease.release`, which does nothing the second time.
DoneCallback(s) ==
    /\ callback[s] # "none"
    /\ IF callback[s] = "held" THEN FreeLock(s) ELSE UNCHANGED lockVars
    /\ callback' = [callback EXCEPT ![s] = "none"]
    /\ UNCHANGED <<client, turn, taskRec, data>>

\* Faulty variant: the wrapper gives the lock back before it sends CANCELLED.
CancelledInTurnReleasing(c) ==
    /\ task[c] \in InTurn
    /\ cancelled[c]
    /\ EndTurn(NoPlan)
    /\ cancelled' = [cancelled EXCEPT ![c] = FALSE]
    /\ answer' = Discarded(c)
    /\ basis' = [basis EXCEPT ![c] = 0]
    /\ \/ /\ c \in Sockets
          /\ task' = [task EXCEPT ![c] = "unwinding"]
          /\ frames' = [frames EXCEPT ![c] = IF @ = 0 THEN 1 ELSE @]
          /\ FreeLock(c)
       \/ /\ c \in Streams
          /\ task' = [task EXCEPT ![c] = "done"]
          /\ UNCHANGED <<frames, lockVars>>
    /\ UNCHANGED <<callback, client, data>>

\* CancelledError reaches a turn: the orchestrator ends it, the question it
\* waits on is discarded, and the WebSocket wrapper sends CANCELLED, which may
\* wait for room in the socket's queue ("unwinding").
CancelledInTurn(c) ==
    /\ task[c] \in InTurn
    /\ cancelled[c]
    /\ EndTurn(NoPlan)
    /\ cancelled' = [cancelled EXCEPT ![c] = FALSE]
    /\ answer' = Discarded(c)
    /\ basis' = [basis EXCEPT ![c] = 0]
    /\ \/ /\ c \in Sockets
          /\ task' = [task EXCEPT ![c] = "unwinding"]
          /\ frames' = [frames EXCEPT ![c] = IF @ = 0 THEN 1 ELSE @]
       \/ /\ c \in Streams
          /\ task' = [task EXCEPT ![c] = "done"]
          /\ UNCHANGED frames
    /\ UNCHANGED <<callback, client, lockVars, data>>

\* run_turn's finally, once CANCELLED is in the queue or given up on.
Unwound(s) ==
    /\ task[s] = "unwinding"
    /\ ~cancelled[s]
    /\ task' = [task EXCEPT ![s] = "done"]
    /\ TaskOver(s)
    /\ UNCHANGED <<client, cancelled, frames, basis, taskRec, data>>

-----------------------------------------------------------------------------
(* Cancelling a turn: _cancel_task, called by the receive loop or by the    *)
(* stream's generator.                                                      *)

\* Its first step: consent abandoned, task.cancel(), interrupt sent to a thread.
StartCancel(c, ends) ==
    /\ task[c] \in Alive
    /\ cancelled' = [cancelled EXCEPT ![c] = TRUE]
    /\ answer' = (IF c \in Sockets THEN Abandoned ELSE answer)
    /\ loop' = [loop EXCEPT ![c] = "interrupting"]
    /\ closing' = [closing EXCEPT ![c] = ends]
    /\ UNCHANGED <<callback, current, task, frames, basis, lockVars, taskRec, data>>

\* A cancel frame, or a message that reads as an interruption.
UserCancel(s) ==
    /\ loop[s] = "idle"
    /\ current[s]
    /\ StartCancel(s, FALSE)

\* The socket goes away, or its handler crashes.
SocketCloses(s) ==
    /\ loop[s] = "idle"
    /\ \/ current[s] /\ StartCancel(s, TRUE)
       \/ /\ ~(current[s] /\ task[s] \in Alive)
          /\ answer' = Abandoned
          /\ loop' = [loop EXCEPT ![s] = "closed"]
          /\ UNCHANGED <<callback, closing, current, task, cancelled, frames, basis, lockVars, taskRec, data>>

\* The client of a stream leaves while the generator sleeps: CancelledError.
StreamLeaves(r) ==
    /\ loop[r] = "serving"
    /\ \/ StartCancel(r, TRUE)
       \/ /\ task[r] = "done"
          /\ FreeLock(r)
          /\ loop' = [loop EXCEPT ![r] = "closed"]
          /\ UNCHANGED <<callback, closing, current, turn, taskRec, data>>

\* executor.interrupt() has returned from its thread.
Interrupted(c) ==
    /\ loop[c] = "interrupting"
    /\ loop' = [loop EXCEPT ![c] = "waiting"]
    /\ UNCHANGED <<callback, closing, current, lockVars, turn, taskRec, data>>

\* Faulty variant: CANCELLED is sent without asking the TerminalEmitter.
FinishCancelTwice(c) ==
    /\ loop[c] = "waiting"
    /\ EndTurn(NoPlan)
    /\ frames' = [frames EXCEPT ![c] = @ + 1]
    /\ current' = IF c \in Sockets THEN [current EXCEPT ![c] = FALSE] ELSE current
    /\ loop' = [loop EXCEPT ![c] = IF c \in Sockets /\ ~closing[c] THEN "idle" ELSE "closed"]
    /\ IF c \in Streams THEN FreeLock(c) ELSE UNCHANGED lockVars
    /\ UNCHANGED <<callback, closing, answer, task, cancelled, basis, data>>

\* wait_for(shield(task), 5) returns, because the task is done or because the
\* five seconds are over: end_turn, CANCELLED unless a terminal was sent, and
\* back to the caller.
FinishCancel(c) ==
    /\ loop[c] = "waiting"
    /\ EndTurn(NoPlan)
    /\ frames' = [frames EXCEPT ![c] = IF @ = 0 THEN 1 ELSE @]
    /\ IF c \in Sockets
       THEN /\ current' = [current EXCEPT ![c] = FALSE]
            /\ loop' = [loop EXCEPT ![c] = IF closing[c] THEN "closed" ELSE "idle"]
            /\ answer' = (IF closing[c] THEN Abandoned ELSE answer)
            /\ UNCHANGED lockVars
       ELSE /\ loop' = [loop EXCEPT ![c] = "closed"]
            /\ FreeLock(c)
            /\ UNCHANGED <<current, answer>>
    /\ UNCHANGED <<callback, closing, task, cancelled, basis, data>>

\* The task of a stream is done: the generator sends what is left and releases.
StreamEnds(r) ==
    /\ loop[r] = "serving"
    /\ task[r] = "done"
    /\ FreeLock(r)
    /\ loop' = [loop EXCEPT ![r] = "closed"]
    /\ UNCHANGED <<callback, closing, current, turn, taskRec, data>>

\* The generator is abandoned at a yield, or cancelled again while it waits
\* for the interrupt: only its `finally` runs.
StreamDropped(r) ==
    /\ loop[r] \in {"serving", "interrupting"}
    /\ FreeLock(r)
    /\ loop' = [loop EXCEPT ![r] = "closed"]
    /\ UNCHANGED <<callback, closing, current, turn, taskRec, data>>

-----------------------------------------------------------------------------
(* Requests that change the session's datasets.                             *)

DataChanges ==
    /\ version' = version + 1
    /\ ResetTask

\* require_idle_session: 409 when the lock is held.  It is a dependency, so
\* the handler's body runs in a later step.
ChangeChecked(d) ==
    /\ change[d] = "new"
    /\ change' = [change EXCEPT ![d] = IF locked THEN "ended" ELSE "checked"]
    /\ UNCHANGED <<callback, version, client, turn, lockVars, taskRec>>

\* clean_dataset, in a worker thread of its upload: the raw frame becomes the
\* active dataset before the script runs, whether or not a turn has begun.
CleaningCommits(d) ==
    /\ change[d] = "checked"
    /\ DataChanges
    /\ change' = [change EXCEPT ![d] = "cleaned"]
    /\ UNCHANGED <<callback, client, turn, lockVars>>

\* Faulty variant: the second look is missing.
UploadCommitsUnchecked(d) ==
    /\ change[d] \in {"checked", "cleaned"}
    /\ DataChanges
    /\ change' = [change EXCEPT ![d] = "ended"]
    /\ UNCHANGED <<callback, client, turn, lockVars>>

\* An upload looks again once the file is parsed.
UploadCommits(d) ==
    /\ change[d] \in {"checked", "cleaned"}
    /\ IF locked THEN UNCHANGED <<version, taskRec>> ELSE DataChanges
    /\ change' = [change EXCEPT ![d] = "ended"]
    /\ UNCHANGED <<callback, client, turn, lockVars>>

\* Activating or removing a dataset, and an import's worker thread, do not.
CheckedOnceCommits(d) ==
    /\ change[d] = "checked"
    /\ DataChanges
    /\ change' = [change EXCEPT ![d] = "ended"]
    /\ UNCHANGED <<callback, client, turn, lockVars>>

\* Deleting a connection removes its tables and never looks at the lock.
DisconnectCommits(d) ==
    /\ change[d] = "new"
    /\ DataChanges
    /\ change' = [change EXCEPT ![d] = "ended"]
    /\ UNCHANGED <<callback, client, turn, lockVars>>

-----------------------------------------------------------------------------
SocketStep(s) ==
    \/ Message(s) \/ Ask(s) \/ Answer(s) \/ Resume(s) \/ Unwound(s)
    \/ DoneCallback(s) \/ UserCancel(s) \/ SocketCloses(s)

StreamStep(r) ==
    \/ StreamAccepted(r) \/ StreamBegins(r) \/ StreamLeaves(r)
    \/ StreamEnds(r) \/ StreamDropped(r)

TurnStep(c) ==
    \/ TurnBegins(c) \/ Conclude(c) \/ TurnReturns(c)
    \/ CancelledUnstarted(c) \/ CancelledInTurn(c)

CancelStep(c) == Interrupted(c) \/ FinishCancel(c)

ChangeStep ==
    \/ \E d \in Changes \ Disconnects : ChangeChecked(d)
    \/ \E d \in Cleanings : CleaningCommits(d)
    \/ \E d \in Uploads \cup Cleanings : UploadCommits(d)
    \/ \E d \in Edits \cup Imports : CheckedOnceCommits(d)
    \/ \E d \in Disconnects : DisconnectCommits(d)

Next ==
    \/ \E s \in Sockets : SocketStep(s)
    \/ \E r \in Streams : StreamStep(r)
    \/ \E p \in Posts : PostBegins(p)
    \/ \E c \in Clients : TurnStep(c) \/ CancelStep(c)
    \/ ChangeStep

Spec == Init /\ [][Next]_vars

\* The event loop runs every ready step; a turn's question times out and its
\* loop is bounded, so a turn that keeps asking still concludes (strong
\* fairness).  Users and clients owe nothing.
Fairness ==
    /\ \A c \in Clients :
          /\ WF_vars(TurnBegins(c)) /\ SF_vars(Conclude(c)) /\ WF_vars(TurnReturns(c))
          /\ WF_vars(CancelledUnstarted(c)) /\ WF_vars(CancelledInTurn(c))
          /\ WF_vars(CancelStep(c))
    /\ \A s \in Sockets : WF_vars(Resume(s)) /\ WF_vars(Unwound(s)) /\ WF_vars(DoneCallback(s))
    /\ \A r \in Streams : WF_vars(StreamEnds(r))

FairSpec == Spec /\ Fairness
-----------------------------------------------------------------------------
(* Properties.                                                              *)

\* The lock is held exactly when one client holds it: no lease outlives its
\* turn, none is released twice over another client's head.
LockHasOneHolder ==
    /\ locked <=> \E c \in Clients : holds[c]
    /\ \A c, d \in Clients : holds[c] /\ holds[d] => c = d

\* "Every chat transport takes this lock for the length of a turn": from the
\* first step of its task to the last, a WebSocket or REST turn holds it, and a
\* client whose turn is over does not, unless the task never started and its
\* done-callback is due.
TurnUnderItsLock ==
    /\ \A s \in Sockets : holds[s] <=> task[s] \in Alive \/ callback[s] = "held"
    /\ \A p \in Posts : holds[p] <=> task[p] \in Alive

\* A turn sends one terminal frame: never two, whoever cancels it and when,
\* and one by the time its socket is ready for the next message.
OneTerminalFrame ==
    /\ \A c \in Clients : frames[c] <= 1
    /\ \A s \in Sockets : task[s] = "done" /\ loop[s] = "idle" => frames[s] = 1

\* A plan that waits for "go ahead" was made on the datasets the session has
\* now, so what the user confirms is never run against other data.
PlanIsForCurrentData == plan \subseteq {version}

\* No dataset of the session changes under a turn: from the lock to the end of
\* its task a turn reads the data it began with.
DataStableUnderTurn ==
    [][version' # version => \A c \in Sockets \cup Posts : task[c] \notin Alive]_vars

\* An open question belongs to a turn that is waiting on it: none is left
\* registered by a turn that was cancelled, timed out or ended.
NoQuestionOutlivesItsTurn ==
    \A s \in Sockets : answer[s] # "none" => task[s] = "asking" /\ holds[s]

\* The task record agrees with itself whatever ends a turn or drops a plan: the
\* session never shows a plan to confirm that is gone, or hides one it keeps.
WaitingMeansAPlan ==
    /\ status = "awaiting_plan" => plan # NoPlan
    /\ status = "idle" => plan = NoPlan

\* A client that holds the lock gives it up, whatever the users do.
LockIsReleased == \A c \in Clients : holds[c] ~> ~holds[c]

\* deps.py: "Every chat transport takes this lock for the length of a turn": a
\* streamed turn nobody has cancelled holds it too.
StreamTurnUnderItsLock ==
    \A r \in Streams : task[r] \in Alive /\ ~cancelled[r] => holds[r]
=============================================================================
