# Verification of Wizard w2

TLA+ models of Wizard w2, model-checked with TLC, with theorems checked by TLAPS.
Wizard w2 is a data-analysis agent: a FastAPI backend (`backend/src`) that keeps
sessions, runs language-model turns over uploaded tables and executes generated
code in a sandboxed child process; a Go command line (`cli/`) that installs and
supervises it; a Next.js interface (`frontend/`). `PROJECT.json` lists the
components, runs, mutants, mapped source lines, findings, hazards and theorems.

## 1. Inventory

The backend is one process with one asyncio event loop. What is hard in it comes
from four places: handlers of one session interleave at their `await`s; blocking
work (code execution, parsing, imports, interrupts) runs in worker threads that
outlive a cancellation; the code under analysis runs in a child process or a
container that answers late or not at all; and settings, modes, policies, datasets
and files change while something that looked at them is still under way.

| Component | State | Operations | What makes it correct | Modules |
|---|---|---|---|---|
| Chat transports and turn lock (`api/routes/chat.py`, `api/deps.py`) | one `asyncio.Lock` per session, the lease, the turn's task, terminal flag | REST, SSE and WebSocket turns, cancel, disconnect, busy refusals | one holder, a turn under its lock, one terminal frame, the lock comes back | `ChatTurns`, `TurnLock` |
| Turn record and plan gate (`core/session.py` `TaskState`) | status, pending plan, last code | begin, end, reset | a plan is for the data the session has; no code before its plan was seen | `ChatTurns`, `AgentTurn` |
| Consent and permissions (`core/agent/consent.py`, `core/permissions.py`) | pending futures per session, grants | ask, answer, abandon, time out, authorize | nothing is granted without a yes, nothing stays registered, a turn never waits for ever | `ConsentBroker` |
| Idempotent REST turns (`core/infra/idempotency.py`) | results and locks per key | look up, lock, store, release, prune | one execution per key while its result lives | `IdempotentChat` |
| Outbound queue of a socket (`WebSocketEmitter`) | bounded queue, sender task, closed flag | emit, drain, stop | order, terminal frames survive backpressure | `FrameQueue` |
| Agent loop (`core/agent/orchestrator.py`, `actions.py`, `flow.py`, `routing.py`) | `RunState`: budget, retries, phase, verification | route, orient, decide, act, verify, finalize | ends in budget, never reports, keeps or restores what did not run | `AgentTurn`, `Routing` |
| Analytical control plane (`core/analysis/*`, `core/agent/grounding.py`) | confidence, stopping, evidence graph | assess, stop, record, check figures | the loop it steers ends, a figure called grounded was printed by a run | `Routing`, `AgentTurn`, `Grounding` |
| Session manager (`core/session.py`) | sessions, last seen | create, get, drop, reap, evict, shut down | capacity, one disposal, nothing of a dead session stays | `Sessions` |
| Datasets, connections (`core/session.py`, `core/connectors/*`, `datasets.py`, `connections.py`) | handles, active dataset, files, names of connections | upload, activate, remove, import, rename, delete | the child reads what the session has, nothing of a deleted source stays | `DataSources` |
| Runtime pool (`core/tools/host_runtime.py`) | child per session, pool map, locks | get, start, release, stop | one child per session, none leaked | `RuntimePool` |
| Docker runtime (`runtime.py`, `sandbox.py`, `execution.py`) | container per session, the chosen backend | look up, start, prune, fall back | no container lost sight of, code runs where it is allowed to | `Isolation` |
| Execution daemon (`core/tools/daemon.py`) | accept loop, namespace | run, reload, interrupt | answers belong to their request, a cell sees its data | `DaemonProtocol` |
| Model access (`core/llm/*`, `embeddings.py`) | router, clients, ledger, downloads, listings, residency | resolve, complete, stream, pull, cancel, list, plan memory | calls go where mode and policy allow, a turn is billed what it spent | `ModelAccess`, `Streams`, `Encoder`, `Models`, `Listings`, `Residency` |
| Prompts and data policy (`prompts.py`, `security/untrusted_context.py`) | what was observed, for whom | describe, inspect, render, withhold | no prompt shows values to a model the policy does not trust | `Disclosure` |
| Settings and their file (`config.py`, `meta.py`, `credentials.py`, `connectors/store.py`) | process, `.env`, credentials, connections | patch, write, read | the halves of one thing agree, over failures and restarts | `Secrets`, `Residency`, `Isolation` |
| Persistence and memory (`core/database.py`, `semantic_cache.py`, `analysis/understanding.py`) | SQLite rows, solutions, kept results | record, look up, replay | rows belong together, what is reused is of this question and data | `History`, `Reuse` |
| Skills (`core/skills/*`) | staged copies, files, index, candidates | preview, approve, update, remove, count, offer | what was reviewed is what runs, a candidate is offered once | `Skills` |
| Background jobs (`core/infra/queue.py`) | job records, tasks, semaphore, dead letters; the list in Redis, handlers, workers | submit, push, pop, run, retry, cancel, prune, shut down | a job is begun once and ends once, slots come back | `JobQueue` |
| Gates and rate limits (`api/deps.py`) | slots and hits per key | acquire, release, allow, evict | a gate is never above its limit, a slot is that of a socket | `Gates` |
| Command line (`cli/`) | pid files, sentinel, release directories | start, stop, supervise, update | what runs is supervised, an update leaves something that starts | `CommandLine` |
| Web interface (`frontend/`) | cards of turns, stored session | reduce frames, interrupt, reconnect, adopt | a card ends as its own turn did, the socket is in the adopted session | `WebInterface` |
| Ingest (`core/ingest/*`, `datasets.py`) | the upload, its temporary file, the frame, documents and their passages | spool, parse, clean names, sample, attach, search | the table is the file's, a sample says so, a hit is a passage of a document | `Ingest` |
| Code guard and sandbox policy | none | walk, check | pure functions | - |

How they interact: a transport takes the session's turn lock and calls
`AnalysisOrchestrator.run`; the orchestrator brackets the turn in the session's task
record, asks the consent broker (which answers through the transport's receive loop),
resolves models for its calls, executes code through `CodeExecutor` and the runtime
pool or a container, and emits events into the transport's emitter, which the tab
reduces to cards. Dataset routes look at the turn lock, change the session, and tell
the runtime to reload. The session manager disposes sessions from a maintenance thread
and from any request that creates one.

## 2. How the project is built

One module per component, with its state, its actions, its specification and its
properties. A module that composes interacting components does so where they interact:
`ChatTurns` is transports, lock, task record and dataset requests in one state space,
`AgentTurn` is built on `Routing`, and `ChatTurns` refines the abstract `TurnLock`. A module
may hold two components that are about one thing and share no variable (the two queues in
`JobQueue`, cards and sessions of a tab in `WebInterface`, the ledger and the router in
`ModelAccess`, sizes and residency in `Residency`, files and documents in `Ingest`).
`MC...` modules give TLC small instances; `MCIntake` only holds an instance's values, which
`MCStores` runs. Where components share no state, one run checks
several of them: `MCServer`, `MCStores`, `MCEdges` and `MCQueues` choose one component in
the initial state, let it run and leave the others where they are, so their state spaces
add up instead of multiplying. `...Proofs` modules hold the theorems. Where a run checks a
conjunction of properties under one name (`CallsHold`, `IntakeHolds`), its parts are defined
beside what they are about.

| Run | Module | What it asks |
|---|---|---|
| `server` | `MCServer` | turns under their lock; what calls cost, where they go and what they show; what is recorded; where code runs |
| `chat_live` | `MCChatTurns` | the lock comes back, and the transports refine `TurnLock` |
| `agent` | `MCAgentTurn` | what a turn may run, keep, answer from and roll back to; that it ends |
| `consent` | `MCConsentBroker` | who said yes; no turn hangs |
| `queues` | `MCQueues` | frames of a socket, background jobs of one server and of several, a reply while it streams in |
| `runtime_pool` | `MCRuntimePool` | children of sessions |
| `daemon` | `DaemonProtocol` | answers, order and data of one child |
| `stores` | `MCStores` | results of requests, sessions, datasets and connections, skills, downloads; tables from files, documents, figures of answers, lists of models |
| `edges` | `MCEdges` | the tab, the command line, the encoder, gates and limits, solutions and results that are reused |
| `stream_loses_lock`, `stop_kills_runtime`, `agent_deadline` | | findings: each is a counterexample to what a document or a comment says |

For every property of a passing run, one plausible fault of the code (an operator marked
"Faulty variant" in the module) makes that property fail in that run; `mutants` lists them.
The bounds are in the comments of the `.cfg` files and below. Deadlock is checked only in
`consent`: elsewhere a behaviour rightly stops, when every client has left, every bounded
request is over, or the program is down.

Every invariant that a run checks is stated by a theorem, but two (`StreamsAgree`,
`IntakeHolds`; the end of section 3 says why). Still to do: the Windows updater, the cache
and the locks over Redis, the memory and its retriever.

## 3. Modules, runs and proofs

For each component: how its state and actions correspond to the code, the bounds of its
instance and why they are enough, the fairness it assumes, and what is proved of it for
every value of the constants. A theorem `X` of a specification is proved from an inductive
invariant, `Init => Inv`, `Inv /\ [Next]_vars => Inv'`, `Inv => X`, with one step per action.
The theorems rest on the `ASSUME`s of the modules, which TLC evaluates in the runs.

### ChatTurns: the turn lock of a session (`server`, `chat_live`, `stream_loses_lock`)

`ChatTurns` models one session (sessions do not share a lock). A step is what the
event loop runs between two suspension points, so a check and the acquire that
follows it without `await` are one action (`TakeLock`), and everything after an
`await` is another. Correspondence:

- `locked` is `asyncio.Lock.locked()`; `holds[c]` is the lease (`_Lease._held`) of a
  WebSocket turn or being inside the `try` whose `finally` releases. `DoneCallback` is
  the second release of a lease: it frees the lock when the task never started and
  does nothing otherwise. The event loop runs it before the first step of a task
  created later, which is the guard in `TurnBegins`.
- `task[c]` follows `AnalysisOrchestrator.run`: "created" until its first step,
  "running" after `begin_turn`, "asking" inside `ConsentBroker.ask`, "concluding" or
  "gated" once its terminal frame (the plan gate for "gated") is sent, "unwinding" while
  the WebSocket wrapper waits to queue CANCELLED, "done".
- `loop[c]` is the receive loop, generator or handler; "interrupting" and "waiting" are
  the two awaits of `_cancel_task`. The wait of five seconds may end before the task
  does: `FinishCancel` has no condition on the task.
- `plan` holds the data version a waiting plan was made for; `version` counts dataset
  changes. Uploads look at the lock twice, activations, removals and imports once, the
  deletion of a connection never, and neither does the cleaning pass of an upload, which
  adds the raw frame as the active dataset (`CleaningCommits`; what this writes is in `DataSources`). The look is a FastAPI
  dependency declared with `def`, which runs in a worker thread before the handler: a
  step of its own.

Refused frames and requests change nothing and are stutters. Closing a generator at a
`yield` (`StreamDropped`) is what Python does to a stream whose response is cancelled
while a chunk is being sent: the HTTP middlewares make every chunk a suspension point. The
action may also close a generator that has not sent its first event, which is more than Python
does: it adds behaviours in which the task has not begun, and no counterexample uses them.

`server` has two windows, a REST call and two uploads: one holder, turns under their lock,
one terminal frame, no question left behind, no data change under a turn, a waiting plan
that is current. `chat_live` has a window, a stream, an activation and an upload that is
cleaned, with fairness: the lock comes back, and the transports refine `TurnLock`. Two
windows are enough for every race between a turn, its cancellation and the next turn,
which involve at most two turns at a time because of the lock itself; streams and REST
calls are one request each. No counter is capped: data versions are bounded by the
requests.

Fairness: the event loop runs every ready callback (weak fairness on each step that needs
no user); a question times out (`AGENT_CONSENT_TIMEOUT`) and the gated actions of a turn
are bounded by its iteration budget, so strong fairness on `Conclude`. Users and clients
owe nothing.

Proved in `ServerProofs` for any sets of clients and requests: `TypeCorrect`,
`MutualExclusion`, `TurnsHoldTheirLock`, `FrameCorrect`, `QuestionsCorrect`,
`UploadsLeaveTurnsAlone`, `PlansAreCurrent` and `ImplementsTheLock`, the safety half of the
refinement of `TurnLock`. Mutual exclusion alone is not inductive: `asyncio.Lock.release`
frees the lock whoever calls it, so the invariant `IInv` adds, for each kind of client, the
points of its life at which it holds the lock (`TurnUnderItsLock`, `StreamHolds`), that a
REST turn is never cancelled from inside and that a done-callback that still has its lease
belongs to a task that is over. The refinement then needs, per action, who holds the lock
before and after: at most one client gains or loses it in a step, and none gains it in the
step in which another loses it. `UploadsLeaveTurnsAlone` and `PlansAreCurrent` assume away
what the findings are about (streams, cleanings, activations).

### ConsentBroker: who said yes (`consent`)

One session's profile, grants and pending questions. `gate[b]` is where a branch (the turn
or a parallel helper) is in `_permit` and `ask`; `pending` and `future` are the two halves
of `ConsentBroker._pending`, which can differ because `wait_for` cancels the future before
the `finally` of `ask` drops the entry. `Answer` resolves a future and says nothing of
whether the branch will still see it: the timer may fire in the same pass of the loop
(`TimerFires`, then `TimedOut`). `Authorize` and `SetPermissions` are the HTTP requests that
change the rules meanwhile. `consented` and `last` are history.

Two branches that can ask and one that cannot, one ordinary topic and one that always asks,
one matrix that denies and one the settings refuse. Three branches cover a question that
ends while another is open and one more that is denied unasked; topics do not interact
except through the profile. Fairness: the loop runs what is ready and the timer of
`wait_for` fires; users owe nothing, so `NoTurnHangs` rests on the timeout.

Proved in `ConsentBrokerProofs` for any branches and topics: types, `GrantsAreConsents`,
`ActsByConsent`, `RegisteredWhileAsking`. The invariant ties each gate position to the
state of its future (`Questions`) and the last action to its answer (`LastOK`).

### AgentTurn and Routing: what a turn runs, keeps and answers from (`agent`, `agent_deadline`)

`Routing` is the router, the budget of a route and the two policies over it (confidence,
stopping), as operators over the evidence that `extract_signals` reads from a message.
`AgentTurn` is the coroutine `AnalysisOrchestrator.run`: `pc` is where it stands, an action
is what it does between two model calls, executions or questions, and takes in what came of
the last one. `run` is `RunState`; `session` is what stays between turns (the pending plan,
the last code, the semantic cache). A piece of code is the iteration whose execution it
survived, "draft" when it was written and has not run. The clock and a
cancellation run beside the turn.

Two turns over one message per rule of the router, models of the smallest and of the
largest tier, three iterations in depth and one correction: enough for a failure, its
correction, a verified result, a rollback to it and a failure after that; the second turn
resumes the plan, the cache or the clarification that the first one left. Fairness: model
calls and executions end (`WF` on the turn's own steps).

Proved in `AgentTurnProofs` for any messages, budgets and models: types,
`PlanSeenBeforeRun`, `RollsBackToVerified` and `OnlyWhatRan` with its two halves, what the
cache holds and what an answer is from. The invariant `Inv` counts iterations, code and checkpoints against
each other (`Counted`), says which iterations ran (`CodeInv`), what an error belongs to
(`ErrorInv`), that the best result is one of a checkpoint (`BestInv`), and that a turn that
executes was begun by an approval wherever one is required (`PlanInv`). That a turn ends
(`EndsUnlessLate`) is liveness and stays with TLC.

### IdempotentChat: a retry has no second effect (`stores`)

From the look-up of a key to the acquisition of the session's lock the handler does not
await, so `Starts`, the refusals and `ServedFromStore` are one step each. A look-up reads the
clock twice (in `_prune` and for the entry), and `Expires` may fall between the two: the
second read is the choice in `Found`. `recent` is history: the requests whose effects happened
and whose time to live has not passed.

Five requests: two identical ones, in which the run is symmetric, one with their key from
another session, one with another key and message, one without a key. Two sessions are
enough because a key meets at most one other session in any step; a third request of one key
and session would wait as the second does. The theorems are about any requests.

Proved in `StoreProofs` for any requests, keys and sessions: types, `RetriesAreSafe`
(`RetriesHold`: effects happen once, a reply is of a request that is the same) and
`KeysCorrect`. `EffectsHappenOnce` is not inductive: `RecentIsStored` says that while
an effect is recent its key has a live result, and `RunsUnderItsSession` that the session's
lock, not the key's, excludes a second run after a pruned lock.

### Sessions: capacity and disposal (`stores`)

A caller is a thread that creates, drops, reaps or evicts. `live` and `seen` are the
manager's sessions and their last requests, `kept` what there is of a session. A disposal is
a walk through `After`, one thing given back at a time, of which only the first step is under
the manager's lock; `caller` says how far each thread got. A turn of the session may run on and make things that a disposal has already passed.
`stores` has three sessions with room for one, which makes each creation an eviction.

Proved: types and `SessionsHold`. The invariant `SInv` says what a session at each step of
its disposal may still have (`Accounted`), that two threads never have one session in hand
(`Apart`), that the order by last use is one (`Ranked`), and that the table exceeds its
capacity by no more than the creations on their way to `_enforce_capacity`
(`CapacityHolds`). Which of several sessions was used least recently is found in the proof
through a well-founded order.

### DataSources: datasets, files and connections (`stores`)

A handler without an `await` is one action. Two things run on threads beside it. An import is
two actions, the load and the registration, and a third that writes its files. The cleaning
pass of an upload puts the raw frame into the session as `dataset.csv` (`CleanLands`,
`flow.py:164`) and writes its files (`CleanWrites`); what its script returns is the upload.
One import and one cleaning pass are on threads at a time (a bound). `data` has, per name,
which load the frame came from, its place in the dict and its connection; `tables` and
`frame` are the feather files; the code knows a connection by its name only, and so does `data`.

`_materialize` swallows a write that fails (`session.py:441`): `Materialized` may leave a file
as it was or unreadable, with nothing told, and `unwritten` and `frameUnwritten` say which.
`ChildSeesWhatIsLoaded` leaves out exactly these files until they are written again, and what
was selected or removed between the two steps of a thread (`raced`).

The run has three loads under two uploads with one table key, the raw frame and one imported
table, one connection that may be renamed or made again, and one write that fails. Two more bounds keep
it small: only the imported table gets a policy (`Ruled`), and the write that fails is one of the
raw frame, by an upload, an activation or the cleaning pass (`Fallible`); the write of an import
is the same operator, and the proofs are for any names. The two uploads are interchangeable.

Proved: types and `DataHolds`. The invariant `DInv` says that no two names have one load
(`LoadedOnce`), what an import and a cleaning pass have in hand (`ToBeWritten`,
`ToBeCleaned`), which table file is of which load (`TablesAreWritten`), and when the frame
file is of the active dataset (`FrameIsActive`).

### Skills: installation and candidates (`stores`)

An action is one file write: `SKILL.md`, `SOURCE.json`, the staged copy; `skillFile`
has the text in each of the three layers that may have a skill of one name. The author pushes, files are edited by hand
and the process dies at any point. The second half of the module is the candidates: two
transactions per turn, match and count, on threads. Two commits, a crash anywhere; three
turns and six runs of an analysis.

Proved: types of both halves and `SkillsHold`, that is `InstallHolds` and `OfferedOnce`.
`SkInv` says that a staged copy is of one commit (`StagedAsOne`) and what is on disk while a
write is between its two files (`WrittenInOrder`), without which `PinStands` is not
inductive; `PromInv` that a row is the one its number says and an offer is at the threshold.

### Models: downloads and the list of what is installed (`stores`)

A download is a row and a thread; a cancel is a flag the thread looks at between two chunks.
The listing asks, outside its lock, and stores what it got. Three downloads of two models.

Proved: types and `DownloadsAreSeen`, that a completed download is listed, but for the race
in section 4, and that a row outlives the end of its download. The invariant: a row is
queued or downloading exactly while its thread is before its end (`RowsFollowThreads`), and a
whole list has every installed model whose completion was told, or is about to be, whether it
is in the cache or still carried there (`ListsHaveTheCompleted`).

### FrameQueue: what a slow client gets (`queues`)

`WebSocketEmitter` with the `asyncio.Queue` it stands on. A putter that was woken has to find
room again and rejoins the end of the line otherwise (`PutAgain`), which is what makes order
and arrival questions at all. `PatienceEnds` is the limit on a wait, one second for a critical
frame and thirty for a terminal one; it fires whether the client reads or not, so a terminal
frame may be given up on (`lost`). `stop` puts its sentinel through the same line.
`RoomIsHandedOn` is what the line owes those in it: as many are woken as there are places,
although one that was woken may find its place taken, rejoin, or run out of patience in
between, when it has to hand its place to the next. What is not given up on arrives, in order
(`FramesArrive`).

`OnlyGivenUpWhenStuck` fails (section 4): the comment in `__call__` says a terminal frame "is only given
up on when the socket has stopped draining altogether", but thirty seconds are counted from
the frame's own `put`, however the queue moves meanwhile. Room that the sender makes goes to
whoever is ahead in the line, or to a newcomer who finds it first (`passed`), so a client that
reads slowly can lose the frame that ends its turn.

Two producers and the stopping handler on a queue of one, so every frame beyond the first
waits; three frames per producer let one be delivered, one queued and one waiting.
Fairness: ready tasks run (`PutAgain`, `SenderGets`, `StopAgain`, `StopReturned`: weak), timers
fire (`PatienceEnds`: weak, a wait is one however the line moves), a send to a client that keeps
reading succeeds (`SendDone`: strong) and to one that is gone fails.

Proved in `QueueProofs` for any producers, capacity and frames: types,
`RoomIsHandedOn` and the order of frames. The invariant: every waiter is in the line once
(`Lined`), finitely many are woken and suffice for the room (`Handed`), what a producer has queued, in line and sent is in the order it offered
(`Ordered`), and a closed queue ends in its sentinel (`Ending`). Arrival is liveness.

### JobQueue: background jobs (`queues`)

A job is a record and a task; `task[j]` is where the coroutine is, and so who has a slot of
the semaphore (`Holding`); `stopping` has the tasks that were cancelled from outside. Three jobs, one slot
and one retry: a job that waits for a slot, one that pauses with it and one that runs.
Fairness: a task that may go on does (`WF` on `Advance`).

Proved in `QueueProofs`: types, `SlotsSuffice` and `JobsEndOnce`, the safety of `JobsHold`,
from an invariant that gives each state of a task the records it may go with (`RecordsFollowTasks`). `JobsSettle` is
liveness.

With Redis (`RedisJobQueue`, second half) the ids of waiting jobs are a list that every server
pops from, while handlers and records stay with the server a job was submitted to.
A pop of an id whose handler is elsewhere drops it (`missed`), as do failed pushes, restarts
of Redis and servers that die, of which there is one in the run. The copy of a record that
other servers read is in the same Redis: its writes are best-effort (`Mirrored`), it expires
whatever the job does (`CopyExpires`), and it goes with the list when Redis restarts. So it may
be behind or gone, which the finding at queue.py:97 is about; what it may not do is tell an
end that the job does not have (`CopiesTellThePast`). Two servers with one worker
each and two jobs: enough for a job to be popped by the wrong server, for one to wait behind
the other, and for a shutdown to meet a push, a pop and a handler. Fairness: pushes and
pops of a server that is up are answered, and handlers return.

Proved for any servers, workers and jobs, however many losses: `RedisJobsAreKept`, the types
and `RedisJobsHold`. A job is begun at most once, is running where exactly one worker has it,
can be found while it waits, and the other servers are told nothing of it that is not or was
not true; none of it is inductive alone. `RedisInv` adds that an id is in the list once and only after its push
(`ListedOnce`), that a server has handlers only of jobs that were never begun (`HandlersWait`,
which is why a job cannot begin twice), that what a worker has is a running job which no
other has (`WorkersRun`), and the converses, that a running job is held (`RunningIsHeld`) and
a waiting one listed (`PendingIsListed`). The order in which a shutdown's pushes land is a
sequence of a set (`SetToSeq`), for which the lemmas `LineOfSet` and `JoinLines` carry
injectivity.

### Streams: a reply while it arrives (`queues`)

`ReasoningStream`, `split_reasoning` and `EscalationGate` as operators over sequences of
symbols, and the calls that use them as actions: `Delta` is one piece of any length. A tag or
the marker is two symbols, so that a piece may end inside it. Every reply of five symbols in
every cut: a tag before, around and after a word, nested and unclosed ones. `StreamsAgree`
is model-checked only: the operators are recursive.

### RuntimePool: one child per session (`runtime_pool`)

`Get`, `Look`, `Discard` and `Reuse`/`Spawn` are the four looks of `HostRuntimePool.get`: the
first two without the lock. `starter` is the lock, which is held over the whole start.
A child is a `HostSession` with the one process it ever has; `detached` is
`self.process = None`, after which `is_running` is false although the process may be up.
`script` is the file the child is started from: a stop of the session's previous child may
remove it before the new interpreter opens it (`Boot` then exits). A start that fails
(`StartTimesOut`) first reads what its child has printed, with the lock held and the child
not yet stopped (`DrainEnds`): of a child that is up and silent the read does not end.

Two threads on a session whose child lives, one on a session whose child may die and which
is released meanwhile, three children. That the child of a session with two runners does
not die is a restriction: with it, `OneChildPerSession` fails in the code (section 4).
Fairness: threads run (`WF`), waiting for a start and stopping have time limits, and a waiter for the lock
gets it when every holder returns it (`SF` on `Discard`, `Reuse` and `Spawn`). The read of a
failed start ends when its child has (`WF` of `DrainEnds` once the child is down) and need not
end before: `PoolCallsReturn` promises nothing while such a read holds the lock
(`DrainBlocks`), and `DrainReturns` fails: it may hold it for ever (section 4).

Proved in `RuntimeProofs`: types for any threads; `ChildrenAreKept` (`ChildrenHold`, that is
`NoChildLeaks` and `OneChildPerSession`) for sessions that execute on one thread at a time (`OneRunnerEach`, which the turn lock
gives for turns). The invariant `PoolInv` says what the pool holds, what the lock's holder
starts, and what removers have taken out.

### Isolation: where code runs (`server`)

A cell reads the active backend for its guard and its report, and again for its runtime;
the setting may change in between. The pool of containers is filled under a lock that is
held over a start; a start or a removal may fail; a crash leaves containers, which the next
start of the server prunes. Two executions of one session over two starts of the server,
with one change of the backend and one failure.

Proved in `ServerProofs`: types and the six parts of `IsolationHolds`
(`CodeStaysWhereItBelongs`). `IsoInv` is a part
about containers (`DockInv`: which are down, that one thread starts, that each container is
in the pool, in hand or failed, that leftovers are pruned) and one about cells (`CellInv`:
what a cell was guarded against, where it ran, whose output is redirected).

### DaemonProtocol: answers, order, data (`daemon`, `stop_kills_runtime`)

One child with its backlog, and the threads that call `run_code` and `reload_dataset`. `of[r]`
is the child whose `HostSession` the pool gave the thread, since a thread may hold an old one
when the next is up; the lock is one per child, and `Inside` says who has it. A thread
that stops waiting closes its socket and the daemon is not told: its request stays in
`queue`, is executed, and its reply goes nowhere (`Reply` of a request that no longer waits).
`InterruptsCell` is the KeyboardInterrupt the daemon catches, `InterruptKills` the one it does
not. The session begins without a child. `StartChild`, `LoadFrames` and `Register` are the
start of one: it reads the workspace before it listens, and the pool has it only when the starting
thread has reached it. Until then a reload finds None or the dead child before it, and signals
find nobody. `missed` keeps the reloads that fell between reading and entering the pool:
`CellsSeeTheirData` excepts these and no others, and `CellsSeeEveryChange`, without the exception,
fails: a cell runs on old data after one (section 4). A write that fails leaves `disk` as it was (`Materialize`): the files themselves
are the subject of `DataSources`. Data versions: `disk` is what the workspace has, `loaded` what the namespace has; `need`
is what a cell was entitled to when its connection was made, `ranOn` what it ran on.

Two cells, one of which may print for ever, one dataset change, a backlog of one, one
signal, two children, one after the other. Three requests are one served, one in the backlog and one refused. A
backlog of one makes the order inside it trivial: that is what the theorem `InOrder`
covers, for a backlog of any length. Fairness: threads run and time limits pass; the daemon
goes on, except inside a cell, which may run for ever.

Proved in `RuntimeProofs`, for any requests, backlog, signals and restarts:
`DaemonTyped`, `InOrder` (each step at most once and in the order sent), `OwnAnswers` (no late
reply is taken for another's) and `FreshData`. The invariants: `OrderInv` puts what was taken up
and what is in the backlog in one sequence, the order of connection; `OwnInv` says that the
request under way has told nobody anything; `DataInv` that a reload which is over for its
caller is loaded, in the backlog, under way, missed, or will be made up for by a restart, and in
each case ahead of the cells entitled to it, which are in the backlog of the child they were given.

### The calls of models (`server`)

`CallsHold` is about every call that a turn makes of a model.

- `ModelAccess`, first half (`usage.py`): a bucket per id, the snapshot a turn takes at its
  beginning, the subagents' ids, the cleaning that books under the same id, a forget at any
  time. Two turns with two fan-outs and four calls: a turn's bill overlaps the next one's
  beginning.
- `ModelAccess`, second half (`provider.py`, `data_mode.py`, `meta.py`): a call resolves its
  model, decides what to withhold, waits and sends; modes, policies, selections and keys change
  in between, and a cleaning thread does the same at any moment. Two changes.
- `Disclosure` (`prompts.py`): a text is the set of what it may contain; a reply may repeat all
  of its prompt. One table that is marked and one that is not, and one change of policy,
  provider or table. Two steps of a turn, which are as many hand-overs as prompts make.
- `Residency`, first half (`provider.py`, `resources.py`): the plan of who stays in memory, kept
  per list of names; each call states a keep-alive; releases arrive late. Three models over two
  sizes.
- `Residency`, second half (`config.py`, `generation.py`): machines around every threshold and
  budgets on both sides of every ceiling; a pure computation in the order of the code.

Proved in `CallProofs` for any calls, fan-outs, models, machines, tables and changes:

- `TurnsAreBilled` (`SpendingHolds`). A bill is a difference of sums over buckets, and sums
  over a function's domain are folds, which the prover cannot unfold by induction: the lemmas
  at the head of the module get them from the least subset for which they would fail (`Adds`).
  `SpendInv` then bounds the buckets by the calls that were made, twice: all of them, and those
  a running turn does not use together with what it has spent (`SpendSums`), which is why a
  bill cannot have a later turn's calls.
- `CallsGoWhereTheyMay` (`AccessHolds`). The code reads mode, policy, selection and key at
  different awaits, so `AccessInv` says of each reading that it is still so unless one of just
  those things changed since the caller began (`TurnSeen`, `CleaningSeen`), what a session may
  have chosen (`ChoiceStands`) and of which key a client is (`KeysStand`).
- `PromptsAreWithheld` (`DisclosureHolds`). A prompt is rendered from a draft, the history, the
  memory, examples and solutions, each of which came of an earlier prompt: `DisclosureInv` says
  that all of them have in them only tables that some model was rightly given.
- `ResidencyIsKept` (`ResidencyHolds`) and `SizesAreRight` (`SizesHold`), from what a plan was
  made of and that a long hold is of one that fits (`ResidencyInv`), and from the arithmetic of
  the ceilings (`SizingInv`).

`ServerProofs` puts them together as `CallsAreInOrder` (`CallsHold`) over the composition that
TLC checks.

### What is recorded (`server`)

`RecordsHold` is about rows and files.

- `History` (`database.py`): a turn is put down in several transactions, each of which may fail;
  imports and the reaper run on threads. Three turns, uploads or imports of two sessions.
- `Secrets` (`credentials.py`, `store.py`, `meta.py`): a change reads a file and writes it as a
  whole and in place; what a failed or torn write leaves reads as empty. Two connections and a
  key with three changes and one failure.

Proved in `ServerProofs`, for any number of turns, failures, connections and changes:
`RowsAreKept` (`HistoryHolds`), `SecretsAreKept` (`SecretsHold`), and both as
`RecordsAreInOrder` (`RecordsHold`). `HistoryInv` counts the ids that are still owed against the
turns there were, so that an id is of one message (`IdsHold`), says that a session which went
in order has neither rows nor anything under way (`GoneAreGone`), and where between a table and
its row an import, an upload or a removal stands (`TablesHold`). `SecretsInv` says that the
author which has the lock has read the file as it is (`LockIsHad`, `ReadIsFile`), which is what
makes a whole rewrite safe, that a secret is only written for a connection there is
(`SecretOfLink`), and that a setting in force is in `.env` or on its way there (`EnvFollows`);
each but for what an earlier failure spoiled. With these, `ServerTyped` states the types of
every component of the run.

### What comes in (`stores`)

`IntakeHolds` is about what later answers stand on: tables, documents, evidence and the models
that are offered. `MCIntake` has the instance.

- `Ingest`, first half (`datasets.py`, `loader.py`, `session.py`): an upload with `clean=false`,
  from its spooled chunks over the reading, the naming of columns, the amounts and the sampling
  to the copy the child reads. A file is one of nineteen, around every limit: chunks, rows,
  equal names, amounts that do not read, blank lines, columns of numbers and texts that are
  categories and that are not. A column of few different values is a category
  (`IsCategory`, `loader.py:193-207`), which the coercion for feather skips: with numbers and
  texts in it there is no copy and nobody is told (`Unwritable`). A write may also be refused by
  the disk. `CopyIsTold` leaves out exactly these two cases; otherwise the copy is the frame, or
  text columns that are no categories differ and the writer was told.
- `Ingest`, second half (`documents.py`, `hybrid_search.py`, `reranker.py`): documents are cut,
  attached and removed while a turn's search gathers, ranks and reranks on a thread. Characters are all
  different, so a passage is somewhere or nowhere; either ranking may be any order.
- `Grounding` (`grounding.py`, `provenance.py`, `orchestrator.py`): the steps of a turn, the graph
  they are recorded in, and the answer whose figures are checked against what was printed. Two
  steps, six answers with a figure of every form.
- `Listings` (`registry.py`): requests for the list of a provider on threads, beside a change of
  the key. A cache entry is its models and whether they are still taken, which stands for the
  time they were stored; the two writes that store it, and the error LM Studio's second route
  puts back, are one step. Four providers, one per dialect and one without an endpoint; two
  requests at a time.

Proved in `StoreProofs` for any providers, requests and keys: `ListsAreKept`, the part of
`IntakeHolds` that is about where lists go and which key they are of. `ListingsInv` says of
each request under way that all it holds is of its provider (`PageIsOwn`), and of each list
that the one of another key is marked `late` when it is stored, which only a request can do
that the change overtook. The rest of `IntakeHolds` is model-checked only.

### The command line (`edges`)

`CommandLine`, first half: supervisors and their children are processes that run on their own
and can be killed; `daemon.pid`, the children's pid files and the stop sentinel are what they
know of each other; commands are given one after the other and wait as the code waits. Two
starts, one restart and one kill: a supervisor that dies while a stop waits for it, and a
start after that. Second half: an update of a release or of a checkout, step by step, each of
which may fail or be the last before a kill. Three releases: one that runs, one that fails,
one after it.

Proved in `EdgeProofs` for any starts, restarts, kills, versions and updates: types of both
halves, `ProcessesAreSupervised`, `UpdatesAreWhole` and `CommandLineIsSafe`. `SupInv` says
which child a supervisor at each point of its life has (`ChildrenAreKnown`), that no
supervisor is alive but the last one started (`NoneAhead`, `LastLives`) and that pid files
go after the processes they name (`RemovedAfterDeath`). `RelInv` says that the link names a
package that is in place and built (`LinkIsWhole`) and what is down while an update is under
way (`DownForUpdate`).

### The browser tab (`edges`)

`WebInterface`, first half: frames carry no turn number, so what ties one to a card is the card that is active
when it arrives; `up` and `down` are the two directions of the socket. Three messages, one
lost connection, a turn of another window. `CardsHold` is restricted:
see section 4. Second half: the id that REST calls send and store, the socket that follows it,
a server that forgets sessions. Four sessions, one call at a time, one of them forgotten.

Proved in `EdgeProofs` for any number of messages, drops and turns of another window:
`CardsTyped` and `CardsTell` (`CardsHold`). A frame without a number lands on the right card
because of an order that no step of the code states, and that `ViewInv` spells out (`Tied`):
frames of the card that is active come before those of the text that waits behind it, a
terminal frame is the last of its turn, texts still on their way are later than both, and a
waiting text that was answered as busy or cancelled has nothing else to come. That no card is
left running is `CardsEnd`: while one is active, an end of it, its turn, or a text that makes
either is on the way. Proved for any calls in flight, sessions and forgets: `TabTyped` and
`TheSocketFollows`. `TabInv` says what the socket has been told when its frames are through
(`SocketIsTold`) and that a move waits only for a turn that is running (`MovesWhenOver`).

### Gates: slots and rate limits (`edges`)

A socket takes two slots before it is accepted and gives both back when it ends; the ways
out of the handshake are `TurnAway`, `LostOpening` and `Departs`. Four sockets of three ids at
one address with a ceiling of two. The second half is the two sliding windows: three
addresses, three ids, three requests in three seconds, two remembered keys, so that keys are
forgotten inside a window.

Proved in `EdgeProofs` for any sockets, ids and ceilings: `SlotsCounted` and
`AddressesAreBounded`. `GatesInv` counts slots as the cardinality of the sockets that hold
them (`SlotsAreSockets`), for which the sockets that hold one must be finitely many
(`HeldIsFinite`). For any addresses, ids, windows and clocks: `LimitsTyped` and
`CeilingsAreKept` (`LimitsHold`). `LimitsInv` says for every time inside the window that is
open that no more requests were let through since than hits were counted since
(`AreCounted`): the window which a request closes begins no earlier than the open one, so
what it holds was counted (`LetThroughStaysUnder`). That hits taken from the front of a key
are those that are too old needs the least of a set of numbers (`LeastNatural`), which comes
of the well-founded order of finite sets.

Over the composition that TLC checks: `TheWayIn` (`WayInHolds`) and `EdgesTyped`
(`EdgeTypesHold`), by the specification that each part keeps (`EachKeepsItsSpec`).

### What is looked up instead of asked for (`edges`)

`LookupsHold` joins three components of two modules.

- `Encoder` (`embeddings.py`): threads that encode, a warm-up, one lock, providers that fail and
  settings that change. `doing[t]` is where a thread is, `using[t]` the encoder it took before
  it went on without the lock. Two threads beside the warm-up and two changes: one while a
  thread asks, one after. `wanted.embedding` may be "follows": an empty EMBEDDING_PROVIDER, the
  default, means the provider of the models. `Reconfigure` changes the settings for embeddings and
  drops the encoder, `SwitchProvider` changes the provider of the models and leaves it
  (`meta.py:619`). `EncoderIsCurrent` excepts exactly an encoder whose provider was followed and
  changed under it (`stale`) and one that was asked for during a change (`overtaken`);
  `EncoderFollows` fails because of the first (section 4).
- `Reuse`, first half (`semantic_cache.py`, `cache.py`): two tiers and the turns between a look-up and
  an addition. Questions are near by a relation that is reflexive and nothing else. Three
  questions of which two are near to the third but not to each other, two sessions, three
  turns.
- `Reuse`, second half (`session.py`, `understanding.py`, `validation/registry.py`): three bounded caches; a
  value is what it was computed from, a key is what the code makes it of. Two tables, two
  programs of which one reads the other table, three turns, two changes of the tables.

Proved in `EdgeProofs` for any threads, changes, questions, scopes, relations of nearness,
rooms, tables and programs: types of each, `EncoderIsTheOneWanted`, `WhatIsReplayedFits`,
`WhatIsReusedFits`, and `WhatIsLookedUpFits` (`LookupsHold`) over the composition that TLC
checks. `EncInv` adds to `EncoderHolds` that the warm-up finds what it began with
(`WarmUpFinds`) and that a thread asks the provider that is wanted, unless it was overtaken
(`AsksWhatIsWanted`). `CacheInv` follows each solution to the turn that ended with it
(`RowsAreFinished`, `HotIsNear`): the rows are of exactly their question, the hot tier of a
near one, which is why a copy of a copy is still near to what it is replayed for; only a
solution that is finished again under the new wording moves (section 4). `ReuseInv` says
that a key tells what its value was made of (`KeysTell`), which is the hard part: the keys
are of code and contents, the values of tables.

### What only TLC shows, and why

- Liveness under fairness, which the prover does not do: `LockIsReleased` and the fairness
  half of `ImplementsTurnLock`, `NoTurnHangs`, `EndsUnlessLate`, `PoolCallsReturn`,
  `DaemonCallsReturn`, `FramesArrive`, `JobsSettle` and `RedisJobsSettle`; `JobsHold` has
  `JobsSettle` in it, and its safety is `JobsEndOnce`.
- Recursive operators: `StreamsAgree`.
- Induction over data: `IntakeHolds`, but for `ListsAreKept`. Names, passages, rankings,
  suggestions and graphs are folds, filters and sorts of sequences, so what they compute for
  every input cannot be proved here.
- In the theorems about `ChildrenHold`, `UploadsLeaveTurnsAlone` and `PlansAreCurrent` the
  restriction that makes them true (section 4 has what happens without) is a hypothesis; the
  runs satisfy it.

## 4. What the code does that its documentation does not say

Three findings are runs whose counterexample TLC gives; thirteen more are in `findings` without
one; the rest was met while modelling. Where a property is named that no run checks, it is
defined in the module, and fails: adding it to the `.cfg` of the run shows how.

With a run:

- `stream_loses_lock`: a stream dropped at a yield goes on without the lock (`chat.py:293`).
- `stop_kills_runtime`: an interrupt between two cells ends the child (`daemon.py:415`).
- `agent_deadline`: a turn whose deadline passes with an open question does not end
  (`orchestrator.py:836`).

Without one:

- A start that runs out of time reads the pipe of a child that may be up, with the lock of the pool
  held (`host_runtime.py:220`): `DrainReturns`.
- The pool learns of a child after that has read its datasets (`host_runtime.py:353`), and a reload
  in between finds none and is lost: `CellsSeeEveryChange`.
- The time limit of a terminal frame runs while the client reads (`chat.py:358`), though the frame is
  "only given up on when the socket has stopped draining altogether": `OnlyGivenUpWhenStuck`.
- With EMBEDDING_PROVIDER empty, which "follows API_PROVIDER" (`config.py:271`), a change of that
  keeps the encoder of the provider before (`meta.py:619`): `EncoderFollows`.
- The cleaning of an upload commits its frame under a turn (`flow.py:164`): `ChatTurns` with
  one socket and `Cleanings` not empty violates `DataStableUnderTurn`.
- With its sender dead and its queue full, `stop` waits for ever (`chat.py:322`): `StopReturns`.
- A write of the child's files that fails is logged and answered with success
  (`session.py:441`): the child goes on with the frame it had. A column of few different values,
  texts and numbers among them, is a category, which the retry of the write leaves as it is
  (`loader.py:472`): such an upload is answered and the child gets no copy.
- The copy of a job in the shared cache is written after its record, and a write of it that
  fails is passed over (`queue.py:97`): other servers read the job as it was until the copy expires.
- "The full file stays in the workspace" (`README.md:350`) is the sample (`session.py:431`).
- A claim is traced to the last result, whichever run printed its figure (`orchestrator.py:2924`).
- A figure that was asked for, is a usual threshold or is trivial need not trace back to anything
  (`grounding.py:255`).
- A request under way while a key changes keeps the list of the old key (`registry.py:246`).

Turns, consent, requests and runtimes:

- A cancel ends the session's task record after an await (`chat.py:125`), which may by then
  belong to another window's turn.
- Activation, deletion and import look at the lock once, before a worker thread or the event
  loop gets to them (`datasets.py:208`); the deletion of a connection never looks (`connections.py:270`).
- A closing window makes another window's open question "declined" (`consent.py:114`).
- A grant outlives its rule: a topic set to deny after it was granted is still acted on
  (`permissions.py:254`), and tightening a custom profile keeps the grants (`meta.py:762`).
- `_prune` may drop the key lock of a running request when its old result expires between two
  clock reads (`idempotency.py:29`); the session's lock then keeps the retry out.
- Two threads that find the same dead child: the slower pops what the faster started
  (`host_runtime.py:334`), and that child is left running.
- A step reported as timed out goes on in the child (`daemon.py:523`), and the steps behind it
  spend their own time limit waiting for it. A reload that is refused or times out is not
  reported to whoever changed the data (`session.py:392`).
- A job cancelled while it waits for a slot or pauses stays pending or running and is never
  pruned; cancelled tasks stay in `_tasks`. Nothing in the backend submits a job.
- With Redis, `run_now` waits for the push and not for the job (`queue.py:169`); a cancel after
  the push finds nothing to cancel; a worker whose job a shutdown cancels pops the next one and
  goes on (`queue.py:342`); an id popped by a server that has no handler for it is dropped.

The agent loop:

- The semantic cache stores code whatever its verification said, and a replay is not verified.
- After a fan-out, verification marks the checkpoint before it; an earlier `state.error` is not
  cleared by a successful fan-out.
- Approving a web search runs the re-made plan without an approval of the plan. "Execute the
  plan" as a message is not verified, the button is.
- A rollback is undone when a later iteration fails, and its mismatch warning stays; a cached
  mismatch adds none, and a cached "verified" marks no checkpoint.
- A cancelled parallel branch's thread may create its runtime after it was released.
- A declined installation on the first step leaves code that never ran as verified and answered.
- The critic is said to edit nothing, and an error it finds rolls the turn back to the last
  verified code (`orchestrator.py:2689`).
- What a rolled-back run printed still counts as computed when figures are checked.
- The understanding is cached under a key that does not say which table is active
  (`understanding.py:217`), though it is computed over that one and the comment calls it "a
  pure function of these inputs": `ProfileIsOfTheActive`. The verdict of a recomputation and the
  findings of validators are kept under the code and the active table's hash only, also for
  code that reads other tables: `VerdictIsOfTheseTables`. A cleaning between key and
  computation stores a verdict under the old hash.

Data, skills and models:

- Removing the active dataset leaves `dataset.feather` of the removed frame:
  `ChildSeesTheSession`. `flow.py:146` omits the origin of a cleaned frame; names that share a
  table key remove each other's file; an import may race an activation; deleting a connection
  drops its tables in the caller's session only.
- Blank lines count as rows, so a file that fits with some is called a sample though it is
  whole (`loader.py:12`); whether a file is UTF-16 is told by a NUL byte in
  its first block alone (`loader.py:430`).
- A sentence longer than a passage is put before the shorter ones that wait to be packed; a
  passage exceeds CONTEXT_CHUNK_CHARS by the overlap (`documents.py:254`); one that begins
  with the tail of the last is not found again from where that ended, and is placed, and may be
  cited, too late (`documents.py:356`).
- A skill of the project with the same name is overwritten or deleted by an update or a
  removal; a crash between `SKILL.md` and `SOURCE.json` leaves the pin behind; a preview in
  another tab restages the same id; an update may write a newer commit than was shown
  (`install.py:526`): `AppliesWhatWasShown`.
- Suggestions fall back to the first name of a list, which may be a model for embeddings
  (`registry.py:530`); a listing is dated before it is asked for, so one that
  failed by its time limit is asked for again at once (`registry.py:227`).
- A listing under way when the list is dropped stores the old one (`downloader.py:344`); a
  cancel after the success of a download reports "cancelled".

The command line:

- A stop request survives the daemon that it was for (`start.go:153`): `NoStaleRequest`. `wizard
  stop` beside a dead supervisor removes the pid files of children that run; a forced kill
  races a restart; two concurrent starts race; killing an unrecorded supervisor leaves its
  children; "Stopped." is said after the supervisor ended by itself.
- An activation that fails after the package is renamed makes each retry fail with "release
  package already exists"; the shared Python environment is changed while the message says
  "The active release was not changed." (`update.go:269`); a mismatch after a pull exits without
  a restart against `cli/README.md:86`; a failed checkout update restarts the pulled code as the
  "previous version"; a release restart on Unix loses custom ports.

The web interface:

- A message refused as busy because of another window leaves its card running, and its text
  does not come back: `RefusedTextComesBack`. Two quick interrupts lose the first text; Stop
  followed by a message marks that one cancelled; a message sent after the turn ended with an
  interrupt unresolved swaps the answers; the approval box stays live during an adopted
  interrupt; a socket closed with an interrupt pending leaves the composer busy; a late answer
  to a consent question shows "generating" with nothing running.
- A slow response with an old session id overwrites a newer stored one.

Calls of models:

- A stray `</think>` after text that was already shown is text in the stream and thinking in
  `split_reasoning` (`reasoning.py:145`); tags of different names close each other in the stream
  only; a tag with long attributes is shown; a conversation that fails midway shows its part
  and keeps only the fallback.
- A cloud encoder in the cache is used after a switch to local-only: `NothingIsSent`. A probe
  under way adopts the old provider after a change; the retry window is not looked at again
  under the lock; the settings' warm-up does nothing after the first one and blocks the event
  loop during it; hashed and model vectors have one width, so `rank` never re-encodes.
- The ids of subagents repeat from turn to turn, so a later turn is billed an earlier one's
  spending again (`usage.py:290`); `/api/usage` leaves subagents out; a cleaning during a turn is
  booked to it; a record after a forget leaves a bucket for ever.
- A changed key does not clear the client cache (`provider.py:595`); a thread may cache a client
  with the old key after the clearing; selections that overlap leave a model of another
  provider or one that is forbidden; a manager captured before a switch is sent to the new
  provider; redaction is decided before the wait for the model; a cleaning may send after the
  switch to local-only; removing a stored credential leaves the one in the environment.
- An inspection made for a local manager goes into a cloud worker's prompt
  (`orchestrator.py:2301`); a policy tightened in a turn leaves earlier values in its plan and
  transcript; examples and failures are shared by all policies; outputs and tracebacks are
  never withheld; skill text enters the transcript unrendered by the one adapter
  (`untrusted_context.py:3`); a consulted passage's first line is noted without redaction.
- A residency plan is kept for ever, also one made from a failed listing; the release of the
  vision model spares the session's manager and not the turn's; a release may arrive after its
  model was loaded again; MAX_TOKENS under 64 is raised to 64 though nothing "may raise it"; one
  explicit sandbox limit above half of the memory still gives one session.

What is kept:

- The schema of a table is a row per file name, whatever the session; an import beside a
  removal leaves a row without a table; a failed append makes message id 0, which passes
  `is not None`; twelve replies of conversation hide the last task; a restart leaves all rows
  for ever, and nothing calls the pruning; a late finalize after a disposal leaves orphans.
- Credentials and connections are written in place: a torn file reads as empty and the next
  write keeps only its own entry; a failure between the two files leaves a secret without a
  connection against "both halves together" (`store.py:147`); the result of writing a secret is
  ignored; a patched setting is undone at a restart where the environment sets it.
- A solution that was replayed is stored again under the new wording, so chains of near
  questions replay code for one that is not near (`semantic_cache.py:47`); what is stored at a
  turn's end is filed under what the session is in by then (`orchestrator.py:2995`); scoped rows
  of a session are never cleared; a failed write makes the tiers differ.

Sandboxes and gates:

- Docker is looked for once per process (`sandbox.py:252`) and counted absent if the setting was
  another at boot: a later switch to docker runs code in the server's process, though the choice
  "is made per call rather than cached" (`runtime.py:17`). A failed container start runs code
  checked against the container's root in the server's process; `original_stdout` is read before
  the lock (`execution.py:245`); a cell that outlives its session starts a container; one whose
  daemon died is never replaced; pruning removes the containers of another running backend.
- Whatever raises between the acquisition of a socket's slots and its `try` keeps both for ever
  (`chat.py:411`); a request that its address is refused is counted for its id; a key that is
  forgotten inside its window starts again.

## 5. Not modelled

The code guard and the sandbox policy (a walk over a syntax tree, calls of the operating
system) keep no state and are listed as `not_modelled`. Of the components that are modelled in
part:

- `ping`, `capabilities`, `inspect_variables` and `reset` of the daemon, which go the way of a
  reload without its effect; the effects inside one cell, including the installation of a
  missing module, after which a cell is run again from its start;
- the statistical tools and the cleaning passes, which are arithmetic on frames; the text that
  documents are extracted from, their embeddings, and how near a passage is to a question;
- validators and critic (a choice of what they found), plan revisions and hypotheses, which
  nothing waits on;
- the Redis variants of cache and locks, the heartbeats of the queue over Redis, which nothing
  reads; the session bus, which nothing subscribes to; the schedule of backups;
- the options, secrets and drivers of connections, and the columns a statement may name;
- the other commands of the command line, its terminal and the updater of Windows; the panels
  of the web interface; the memory and its retriever;
- everywhere, the text of messages, plans and frames, and the contents of data.
