----------------------------- MODULE Isolation -----------------------------
(***************************************************************************)
(* Where generated code runs (core/execution.py, core/tools/runtime.py)    *)
(* and the containers it may run in (core/tools/sandbox.py).               *)
(*                                                                         *)
(* A cell is one execution, on a worker thread.  It reads which backend is *)
(* active for its guard and its report and once more for its runtime, and  *)
(* the settings may be changed from the event loop in between.             *)
(* The pool of containers is filled under a lock that is held over a       *)
(* start, and outlives no process: what a crash leaves, the next start     *)
(* prunes.  The host's children are RuntimePool's; here one is had or not. *)
(***************************************************************************)
EXTENDS Naturals, FiniteSets

CONSTANTS
    Users,      \* sessions
    Cells,      \* the executions
    MaxStarts,  \* bound: containers made
    MaxBoots,   \* bound: processes of the server, one after the other
    MaxPatches, \* bound: changes of EXECUTION_BACKEND
    MaxUpsets   \* bound: starts and removals that fail, engines that come or go, crashes

Backends == {"docker", "host", "inprocess"}
NoContainer == 0
Nobody == "nobody"

ASSUME IsolationAssumption ==
    /\ {MaxStarts, MaxBoots, MaxPatches, MaxUpsets} \subseteq Nat
    /\ Nobody \notin Cells

VARIABLES
    setting,    \* settings.EXECUTION_BACKEND, which survives in .env
    engine,     \* Docker answers
    life,       \* of the server's process
    boots,
    docker,     \* SandboxPool._client with _client_checked
    containers, \* the containers there are: id, session, and the process that made it
    made,       \* the last id
    pooled,     \* SandboxPool._sessions
    starting,   \* the cell inside `with self._lock` over a start, and its container
    stopping,   \* containers taken out of the pool and not yet removed
    stuck,      \* history: containers whose removal failed
    reports,    \* _capability_cache: per session the container that reported
    asking,     \* per session: the container a prompt is asking
    leaving,    \* how far the disposal of a session is
    cell,       \* per cell: where it is and what it has read
    console,    \* sys.stdout: the process's own, or the buffer of a cell
    interpreter, \* who holds _local_exec_lock
    heard,      \* per cell: whose output its buffer has
    patches, upsets

isoVars == <<setting, engine, life, boots, docker, containers, made, pooled, starting, stopping, stuck,
             reports, asking, leaving, cell, console, interpreter, heard, patches, upsets>>
dockVars == <<containers, made, pooled, starting, stopping, stuck>>
localVars == <<console, interpreter, heard>>
capVars == <<reports, asking, leaving>>
bootVars == <<setting, engine, life, boots, docker, patches>>

Waiting == [at |-> "idle", session |-> Nobody, root |-> "none", backend |-> "none", ran |-> "none",
            kept |-> Nobody, moved |-> FALSE, crowded |-> FALSE]
NoStart == [cell |-> Nobody, id |-> NoContainer]

IsolationTypeOK ==
    /\ setting \in Backends /\ engine \in BOOLEAN
    /\ life \in {"off", "checking", "pruning", "serving", "closing"} /\ boots \in 0..MaxBoots
    /\ docker \in {"unasked", "there", "none"}
    /\ \A x \in containers : x.id \in 1..MaxStarts /\ x.session \in Users /\ x.boot \in 1..MaxBoots
    /\ pooled \in [Users -> 0..MaxStarts] /\ {stopping, stuck} \subseteq SUBSET (1..MaxStarts)
    /\ reports \in [Users -> 0..MaxStarts]
    /\ leaving \in [Users -> {"no", "released", "gone"}]
    /\ \A c \in Cells : cell[c].at \in {"idle", "get", "lock", "start", "run", "enter", "exec", "done"}
    /\ {console, interpreter} \subseteq Cells \cup {Nobody}

IsolationInit ==
    /\ setting \in Backends /\ engine \in BOOLEAN
    /\ life = "off" /\ boots = 0 /\ docker = "unasked"
    /\ containers = {} /\ made = 0
    /\ pooled = [s \in Users |-> NoContainer]
    /\ starting = NoStart /\ stopping = {} /\ stuck = {}
    /\ reports = [s \in Users |-> NoContainer]
    /\ asking = [s \in Users |-> NoContainer]
    /\ leaving = [s \in Users |-> "no"]
    /\ cell = [c \in Cells |-> Waiting]
    /\ console = Nobody /\ interpreter = Nobody
    /\ heard = [c \in Cells |-> {}]
    /\ patches = 0 /\ upsets = 0

Upset == upsets < MaxUpsets /\ upsets' = upsets + 1
Smooth == UNCHANGED upsets
InCourse(c) == cell[c].at \notin {"idle", "done"}

-----------------------------------------------------------------------------
(* The process. *)

StartServer ==
    /\ life = "off" /\ boots < MaxBoots
    /\ life' = "checking" /\ boots' = boots + 1 /\ docker' = "unasked"
    /\ UNCHANGED <<setting, engine, dockVars, capVars, cell, localVars, patches, upsets>>

\* SandboxPool.client: asked once, at the start of the server, whose first question is the backend
\* or what to prune.  A Docker that was not selected counts as one that is not there.
CheckClient ==
    /\ life = "checking"
    /\ docker' = IF setting = "docker" /\ engine THEN "there" ELSE "none"
    /\ life' = "pruning"
    /\ UNCHANGED <<setting, engine, boots, dockVars, capVars, cell, localVars, patches, upsets>>

\* What prune_orphans removes: every managed container of a session that is not in the pool.
Orphans == {x \in containers : pooled[x.session] = NoContainer}

PruneOrphans ==
    /\ life = "pruning"
    /\ life' = "serving"
    /\ IF docker # "there" THEN Smooth /\ UNCHANGED <<containers, stuck>>
       ELSE \E left \in SUBSET Orphans :
                /\ IF left = {} THEN Smooth ELSE Upset
                /\ containers' = containers \ (Orphans \ left)
                /\ stuck' = stuck \cup {x.id : x \in left}
    /\ UNCHANGED <<setting, engine, boots, docker, made, pooled, starting, stopping, capVars, cell, localVars, patches>>

\* PATCH /api/config.
PatchBackend ==
    /\ life = "serving" /\ patches < MaxPatches
    /\ setting' \in Backends \ {setting}
    /\ patches' = patches + 1
    /\ cell' = [c \in Cells |-> IF InCourse(c) THEN [cell[c] EXCEPT !.moved = TRUE] ELSE cell[c]]
    /\ UNCHANGED <<engine, life, boots, docker, dockVars, capVars, localVars, upsets>>

\* Docker comes or goes.  Nothing asks again.
EngineTurns ==
    /\ Upset /\ engine' = ~engine
    /\ UNCHANGED <<setting, life, boots, docker, dockVars, capVars, cell, localVars, patches>>

BeginClosing ==
    /\ life = "serving"
    /\ life' = "closing"
    /\ UNCHANGED <<setting, engine, boots, docker, dockVars, capVars, cell, localVars, patches, upsets>>

\* SandboxPool.shutdown, by the server as it closes and again at the exit of the process.
Shutdown ==
    /\ life = "closing" /\ starting = NoStart
    /\ \E s \in Users : pooled[s] # NoContainer
    /\ stopping' = stopping \cup {pooled[s] : s \in {u \in Users : pooled[u] # NoContainer}}
    /\ pooled' = [s \in Users |-> NoContainer]
    /\ UNCHANGED <<bootVars, containers, made, starting, stuck, capVars, cell, localVars, upsets>>

\* The process waits for its worker threads before it lets the pool go a last time.
ExitProcess ==
    /\ life = "closing" /\ stopping = {}
    /\ \A c \in Cells : ~InCourse(c)
    /\ \A s \in Users : pooled[s] = NoContainer
    /\ life' = "off"
    /\ reports' = [s \in Users |-> NoContainer] /\ asking' = [s \in Users |-> NoContainer]
    /\ UNCHANGED <<setting, engine, boots, docker, dockVars, leaving, cell, localVars, patches, upsets>>

\* The containers outlive it, and everything else of it is gone.
Crash ==
    /\ life \in {"serving", "closing"} /\ Upset
    /\ life' = "off"
    /\ pooled' = [s \in Users |-> NoContainer] /\ starting' = NoStart /\ stopping' = {}
    /\ reports' = [s \in Users |-> NoContainer] /\ asking' = [s \in Users |-> NoContainer]
    /\ cell' = [c \in Cells |-> IF InCourse(c) THEN Waiting ELSE cell[c]]
    /\ console' = Nobody /\ interpreter' = Nobody /\ heard' = [c \in Cells |-> {}]
    /\ UNCHANGED <<setting, engine, boots, docker, containers, made, stuck, leaving, patches>>

-----------------------------------------------------------------------------
(* A cell: CodeExecutor.execute. *)

\* active_backend.
Active ==
    IF setting = "docker" /\ docker # "there" THEN "inprocess" ELSE setting

\* execute begins with guard, which resolves a relative path against the root of the session, and
\* with what the result will say of the backend; code the guard refuses goes no further.
BeginCell(c, s) ==
    /\ life = "serving" /\ cell[c].at = "idle"
    /\ \E verdict \in {"ok", "refused"} :
           cell' = [cell EXCEPT ![c] =
                       [Waiting EXCEPT !.session = s, !.backend = Active,
                                       !.root = IF Active = "docker" THEN "container" ELSE "session",
                                       !.at = IF verdict = "ok" THEN "get" ELSE "done",
                                       !.ran = IF verdict = "ok" THEN "none" ELSE "nowhere"]]
    /\ UNCHANGED <<bootVars, dockVars, capVars, localVars, upsets>>

\* _execute_locally reads sys.stdout before it takes the lock.
RunsLocally(c) ==
    LET others == {o \in Cells \ {c} : cell[o].at \in {"enter", "exec"}}
    IN  cell' = [o \in Cells |->
                    IF o = c THEN [cell[c] EXCEPT !.at = "enter", !.ran = "local", !.kept = console, !.crowded = others # {}]
                    ELSE [cell[o] EXCEPT !.crowded = @ \/ o \in others]]

RunsIn(c, where) == cell' = [cell EXCEPT ![c].at = "run", ![c].ran = where]

\* get_runtime.  A host without a child for it degrades to this process, as does no backend at all.
GetRuntime(c) ==
    /\ cell[c].at = "get"
    /\ \/ Active = "docker" /\ pooled[cell[c].session] # NoContainer /\ RunsIn(c, "container") /\ Smooth
       \/ Active = "docker" /\ pooled[cell[c].session] = NoContainer /\ cell' = [cell EXCEPT ![c].at = "lock"] /\ Smooth
       \/ Active = "host" /\ RunsIn(c, "host") /\ Smooth
       \/ Active = "host" /\ RunsLocally(c) /\ Upset
       \/ Active = "inprocess" /\ RunsLocally(c) /\ Smooth
    /\ UNCHANGED <<bootVars, dockVars, capVars, localVars>>

\* Faulty: what another thread has started meanwhile is not looked for.
PresentUnchecked(s) == NoContainer

\* The second look, under the lock.
Present(s) == pooled[s]

\* SandboxPool.get under its lock: the container of another thread, or one of its own.
LockPool(c) ==
    /\ cell[c].at = "lock" /\ starting = NoStart
    /\ LET s == cell[c].session IN
       IF Present(s) # NoContainer
       THEN RunsIn(c, "container") /\ Smooth /\ UNCHANGED <<containers, made, starting>>
       ELSE \/ /\ engine /\ made < MaxStarts /\ Smooth
               /\ made' = made + 1
               /\ containers' = containers \cup {[id |-> made + 1, session |-> s, boot |-> boots]}
               /\ starting' = [cell |-> c, id |-> made + 1]
               /\ cell' = [cell EXCEPT ![c].at = "start"]
            \/ /\ IF engine THEN Upset ELSE Smooth  \* containers.run raises
               /\ RunsLocally(c)
               /\ UNCHANGED <<containers, made, starting>>
    /\ UNCHANGED <<bootVars, pooled, stopping, stuck, capVars, localVars>>

Gone(id) == {x \in containers : x.id # id}

\* The daemon is put into it and started, answering or not; or that raises and the container is
\* removed, as far as the engine does so.
FinishStart(c) ==
    /\ cell[c].at = "start"
    /\ starting' = NoStart
    /\ \/ /\ pooled' = [pooled EXCEPT ![cell[c].session] = starting.id]
          /\ RunsIn(c, "container") /\ Smooth
          /\ UNCHANGED <<containers, stuck>>
       \/ /\ Upset /\ RunsLocally(c)
          /\ \/ engine /\ containers' = Gone(starting.id) /\ UNCHANGED stuck
             \/ stuck' = stuck \cup {starting.id} /\ UNCHANGED containers
          /\ UNCHANGED pooled
    /\ UNCHANGED <<bootVars, made, stopping, capVars, localVars>>

FinishRun(c) ==
    /\ cell[c].at = "run"
    /\ cell' = [cell EXCEPT ![c].at = "done"]
    /\ UNCHANGED <<bootVars, dockVars, capVars, localVars, upsets>>

EnterInterpreter(c) ==
    /\ cell[c].at = "enter" /\ interpreter = Nobody
    /\ interpreter' = c /\ console' = c
    /\ cell' = [cell EXCEPT ![c].at = "exec"]
    /\ UNCHANGED <<bootVars, dockVars, capVars, heard, upsets>>

\* The code prints to whatever sys.stdout is.
PrintLine(c) ==
    /\ cell[c].at = "exec" /\ console \in Cells
    /\ heard' = [heard EXCEPT ![console] = @ \cup {c}]
    /\ UNCHANGED <<bootVars, dockVars, capVars, cell, console, interpreter, upsets>>

\* It ends or raises: the buffer is its output, and sys.stdout is what it was as it was read.
LeaveInterpreter(c) ==
    /\ cell[c].at = "exec"
    /\ console' = cell[c].kept /\ interpreter' = Nobody
    /\ cell' = [cell EXCEPT ![c].at = "done", ![c].backend = "inprocess"]
    /\ UNCHANGED <<bootVars, dockVars, capVars, heard, upsets>>

-----------------------------------------------------------------------------
(* A session goes, and what a prompt asks its container. *)

\* release_runtime takes it out under the lock; its cells may still run.
Release(s) ==
    /\ life = "serving" /\ leaving[s] = "no" /\ starting = NoStart
    /\ leaving' = [leaving EXCEPT ![s] = "released"]
    /\ pooled' = [pooled EXCEPT ![s] = NoContainer]
    /\ stopping' = stopping \cup ({pooled[s]} \ {NoContainer})
    /\ UNCHANGED <<bootVars, containers, made, starting, stuck, reports, asking, cell, localVars, upsets>>

\* SandboxSession.stop, whose error is logged.
RemoveContainer(id) ==
    /\ id \in stopping
    /\ stopping' = stopping \ {id}
    /\ \/ engine /\ Smooth /\ containers' = Gone(id) /\ UNCHANGED stuck
       \/ (IF engine THEN Upset ELSE Smooth) /\ stuck' = stuck \cup {id} /\ UNCHANGED containers
    /\ UNCHANGED <<bootVars, made, pooled, starting, capVars, cell, localVars>>

\* forget_capabilities, once its container is removed.
ForgetCapabilities(s) ==
    /\ leaving[s] = "released" /\ \A x \in containers : x.session = s => x.id \notin stopping
    /\ leaving' = [leaving EXCEPT ![s] = "gone"]
    /\ reports' = [reports EXCEPT ![s] = NoContainer]
    /\ UNCHANGED <<bootVars, dockVars, asking, cell, localVars, upsets>>

\* capabilities: a prompt of a turn asks a container that is there, once.
AskCapabilities(s) ==
    /\ life = "serving" /\ Active = "docker"
    /\ reports[s] = NoContainer /\ asking[s] = NoContainer /\ pooled[s] # NoContainer
    /\ asking' = [asking EXCEPT ![s] = pooled[s]]
    /\ UNCHANGED <<bootVars, dockVars, reports, leaving, cell, localVars, upsets>>

StoreCapabilities(s) ==
    /\ asking[s] # NoContainer
    /\ reports' = [reports EXCEPT ![s] = asking[s]]
    /\ asking' = [asking EXCEPT ![s] = NoContainer]
    /\ UNCHANGED <<bootVars, dockVars, leaving, cell, localVars, upsets>>

CellNext(c) ==
    \/ \E s \in Users : BeginCell(c, s)
    \/ GetRuntime(c) \/ LockPool(c) \/ FinishStart(c) \/ FinishRun(c)
    \/ EnterInterpreter(c) \/ PrintLine(c) \/ LeaveInterpreter(c)

IsolationNext ==
    \/ StartServer \/ CheckClient \/ PruneOrphans \/ PatchBackend \/ EngineTurns
    \/ BeginClosing \/ Shutdown \/ ExitProcess \/ Crash
    \/ \E c \in Cells : CellNext(c)
    \/ \E s \in Users : Release(s) \/ ForgetCapabilities(s) \/ AskCapabilities(s) \/ StoreCapabilities(s)
    \/ \E id \in stopping : RemoveContainer(id)

IsolationSpec == IsolationInit /\ [][IsolationNext]_isoVars

-----------------------------------------------------------------------------
(* Properties. *)

\* Every container of the process is one its pool will let go of: it is in the pool, being
\* started or being removed, or its removal has failed; after an end that was no crash there is none
\* but the last kind (sandbox.py:302-353).
ContainersAreAccounted ==
    \A x \in containers :
        x.boot = boots /\ ~(life = "off" /\ upsets > 0) =>
            x.id \in {pooled[x.session], starting.id} \cup stopping \cup stuck

\* A server that has Docker has removed what an earlier process left (sandbox.py:331, api.py:88).
LeftoversArePruned ==
    life = "serving" /\ docker = "there" => \A x \in containers : x.boot < boots => x.id \in stuck

\* The backend in a result is where the code ran, unless the setting changed under it: a result
\* that says docker or host is of no code in the server's own process (execution.py:123-188).
ResultSaysWhere ==
    \A c \in Cells :
        cell[c].at = "done" /\ ~cell[c].moved /\ cell[c].ran # "nowhere" =>
            cell[c].ran = [docker |-> "container", host |-> "host", inprocess |-> "local"][cell[c].backend]

\* Code that was checked against a container's root runs in a container, or in this process
\* when one did not start, and never on the host; and a container runs no code that was checked
\* against another (execution.py:93-113).
GuardKnowsTheRoot ==
    \A c \in Cells :
        ~cell[c].moved =>
            /\ cell[c].root = "container" => cell[c].ran # "host"
            /\ cell[c].ran = "container" => cell[c].root = "container"

\* What two cells in this process print is never mixed, and with one at a time the output of the
\* process comes back (execution.py:250-303).
OutputIsItsOwn ==
    /\ \A c \in Cells : heard[c] \subseteq {c}
    /\ (\A c \in Cells : cell[c].at \notin {"enter", "exec"} /\ ~cell[c].crowded) => console = Nobody

\* What a prompt says a session's container can import was reported by that container, as long
\* as the session is not let go (runtime.py:239-272).
CapabilitiesAreCurrent ==
    \A s \in Users : leaving[s] = "no" /\ reports[s] # NoContainer => reports[s] = pooled[s] \/ life = "closing"

IsolationHolds ==
    /\ ContainersAreAccounted /\ LeftoversArePruned
    /\ ResultSaysWhere /\ GuardKnowsTheRoot
    /\ OutputIsItsOwn /\ CapabilitiesAreCurrent
=============================================================================
