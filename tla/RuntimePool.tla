---------------------------- MODULE RuntimePool ----------------------------
(***************************************************************************)
(* The pool of child processes that run generated code:                    *)
(* HostRuntimePool and HostSession of core/tools/host_runtime.py, with     *)
(* what core/tools/runtime.py makes of a failed start.                     *)
(*                                                                         *)
(* Worker threads of the API process call it: turns and cleaning passes    *)
(* get a runtime and create it when there is none; disposals, rebinds and  *)
(* the shutdown take runtimes out and stop them.  A step is what a thread  *)
(* does under the pool's lock or between two looks at shared state.  A     *)
(* child is one HostSession with the one process it ever starts.           *)
(***************************************************************************)
EXTENDS FiniteSets

CONSTANTS
    Sessions,   \* session and subagent ids
    Children,   \* the HostSession objects that can be made
    NoChild,    \* None
    Runners,    \* threads that execute code
    SessionOf,  \* per runner: the session it executes for
    Removers,   \* threads that release runtimes
    Scope,      \* per remover: the sessions it releases, all of them at shutdown
    Fragile     \* sessions whose child may exit by itself

ASSUME PoolAssumption ==
    /\ NoChild \notin Children
    /\ Runners \cap Removers = {}
    /\ SessionOf \in [Runners -> Sessions]
    /\ Scope \in [Removers -> SUBSET Sessions]
    /\ Fragile \subseteq Sessions

Threads == Runners \cup Removers

VARIABLES
    pool,      \* HostRuntimePool._sessions
    starter,   \* the threads inside `with self._lock` over a start: at most one
    process,   \* per child: its process, as the operating system sees it
    owner,     \* per child: its session_id
    detached,  \* the children whose stop has set `self.process = None`
    script,    \* the sessions whose workspace has .runtime_daemon.py
    pc,        \* per thread: where it is
    held,      \* per thread: its local variable `session`
    doomed     \* per remover: the children it has taken out and not yet stopped

poolVars == <<pool, starter, process, owner, detached, script, pc, held, doomed>>

PoolTypeOK ==
    /\ pool \in [Sessions -> Children \cup {NoChild}]
    /\ starter \subseteq Runners
    /\ process \in [Children -> {"none", "spawned", "live", "exited"}]
    /\ owner \in [Children -> Sessions \cup {NoChild}]
    /\ detached \subseteq Children
    /\ script \subseteq Sessions
    /\ pc \in [Threads -> {"idle", "seen", "discard", "want", "starting", "draining", "stopping", "waiting"}]
    /\ held \in [Threads -> Children \cup {NoChild}]
    /\ doomed \in [Removers -> SUBSET Children]

PoolInit ==
    /\ pool = [i \in Sessions |-> NoChild]
    /\ starter = {}
    /\ process = [k \in Children |-> "none"]
    /\ owner = [k \in Children |-> NoChild]
    /\ detached = {}
    /\ script = {}
    /\ pc = [t \in Threads |-> "idle"]
    /\ held = [t \in Threads |-> NoChild]
    /\ doomed = [t \in Removers |-> {}]

Up(k) == process[k] \in {"spawned", "live"}

\* HostSession.is_running: a handle, and a process that poll() has not reaped.
IsRunning(k) == Up(k) /\ k \notin detached

\* `HostSession(...)`: an object that was not there before.
Fresh == CHOOSE k \in Children : process[k] = "none"

Goto(t, where) == pc' = [pc EXCEPT ![t] = where]

-----------------------------------------------------------------------------
(* HostRuntimePool.get(create=True).                                        *)

\* `session = self._sessions.get(session_id)`, without the lock.
Get(t) ==
    /\ pc[t] = "idle"
    /\ held' = [held EXCEPT ![t] = pool[SessionOf[t]]]
    /\ Goto(t, IF pool[SessionOf[t]] = NoChild THEN "want" ELSE "seen")
    /\ UNCHANGED <<pool, starter, process, owner, detached, script, doomed>>

\* `session.is_running`: hand it out, or go and take the dead child out.
Look(t) ==
    /\ pc[t] = "seen"
    /\ Goto(t, IF IsRunning(held[t]) THEN "idle" ELSE "discard")
    /\ UNCHANGED <<pool, starter, process, owner, detached, script, held, doomed>>

\* The pop under the lock: of whatever is there by now.
Discard(t) ==
    /\ pc[t] = "discard"
    /\ starter = {}
    /\ pool' = [pool EXCEPT ![SessionOf[t]] = NoChild]
    /\ Goto(t, "want")
    /\ UNCHANGED <<starter, process, owner, detached, script, held, doomed>>

\* Under the lock: another thread was faster.
Reuse(t) ==
    /\ pc[t] = "want"
    /\ starter = {}
    /\ pool[SessionOf[t]] # NoChild
    /\ IsRunning(pool[SessionOf[t]])
    /\ held' = [held EXCEPT ![t] = pool[SessionOf[t]]]
    /\ Goto(t, "idle")
    /\ UNCHANGED <<pool, starter, process, owner, detached, script, doomed>>

\* Faulty variant: no second look under the lock.
SpawnUnchecked(t) ==
    /\ pc[t] = "want"
    /\ starter = {}
    /\ \E k \in Children : process[k] = "none"
    /\ process' = [process EXCEPT ![Fresh] = "spawned"]
    /\ owner' = [owner EXCEPT ![Fresh] = SessionOf[t]]
    /\ held' = [held EXCEPT ![t] = Fresh]
    /\ script' = script \cup {SessionOf[t]}
    /\ starter' = {t}
    /\ Goto(t, "starting")
    /\ UNCHANGED <<pool, detached, doomed>>

\* HostSession.start up to Popen.  The lock is held until the start is over.
Spawn(t) ==
    /\ pc[t] = "want"
    /\ starter = {}
    /\ pool[SessionOf[t]] # NoChild => ~IsRunning(pool[SessionOf[t]])
    /\ \E k \in Children : process[k] = "none"
    /\ process' = [process EXCEPT ![Fresh] = "spawned"]
    /\ owner' = [owner EXCEPT ![Fresh] = SessionOf[t]]
    /\ held' = [held EXCEPT ![t] = Fresh]
    /\ script' = script \cup {SessionOf[t]}
    /\ starter' = {t}
    /\ Goto(t, "starting")
    /\ UNCHANGED <<pool, detached, doomed>>

\* Popen raises: stop() removes what was written, get returns None, and the
\* caller runs its code in the API process.
CannotSpawn(t) ==
    /\ pc[t] = "want"
    /\ starter = {}
    /\ pool[SessionOf[t]] # NoChild => ~IsRunning(pool[SessionOf[t]])
    /\ script' = script \ {SessionOf[t]}
    /\ held' = [held EXCEPT ![t] = NoChild]
    /\ Goto(t, "idle")
    /\ UNCHANGED <<pool, starter, process, owner, detached, doomed>>

\* Faulty variant: the lock is kept.
StartedLocked(t) ==
    /\ pc[t] = "starting"
    /\ process[held[t]] = "live"
    /\ pool' = [pool EXCEPT ![SessionOf[t]] = held[t]]
    /\ Goto(t, "idle")
    /\ UNCHANGED <<starter, process, owner, detached, script, held, doomed>>

\* _wait_ready has reached the listener: the child is registered.
Started(t) ==
    /\ pc[t] = "starting"
    /\ process[held[t]] = "live"
    /\ pool' = [pool EXCEPT ![SessionOf[t]] = held[t]]
    /\ starter' = {}
    /\ Goto(t, "idle")
    /\ UNCHANGED <<process, owner, detached, script, held, doomed>>

\* The child has exited, or has not listened for HOST_RUNTIME_START_TIMEOUT.
StartTimesOut(t) ==
    /\ pc[t] = "starting"
    /\ Goto(t, "draining")
    /\ UNCHANGED <<pool, starter, process, owner, detached, script, held, doomed>>

\* Faulty variant: a child that is slow to start is given up, not stopped.
DrainEndsRunning(t) ==
    /\ pc[t] = "draining"
    /\ detached' = detached \cup {held[t]}
    /\ script' = script \ {SessionOf[t]}
    /\ held' = [held EXCEPT ![t] = NoChild]
    /\ starter' = {}
    /\ Goto(t, "idle")
    /\ UNCHANGED <<pool, process, owner, doomed>>

\* _drain_startup_output reads from the pipe of the child until that has exited or has written
\* 2000 characters, which a child that is up need not do.  Then the child is stopped and get
\* returns None.  The lock is held all the while.
DrainEnds(t) ==
    /\ pc[t] = "draining"
    /\ process' = [process EXCEPT ![held[t]] = "exited"]
    /\ detached' = detached \cup {held[t]}
    /\ script' = script \ {SessionOf[t]}
    /\ held' = [held EXCEPT ![t] = NoChild]
    /\ starter' = {}
    /\ Goto(t, "idle")
    /\ UNCHANGED <<pool, owner, doomed>>

-----------------------------------------------------------------------------
(* release(session_id), and shutdown, which releases every session.         *)

\* The pops, under the lock.
Remove(t) ==
    /\ pc[t] = "idle"
    /\ starter = {}
    /\ doomed' = [doomed EXCEPT ![t] = {pool[i] : i \in Scope[t]} \ {NoChild}]
    /\ pool' = [i \in Sessions |-> IF i \in Scope[t] THEN NoChild ELSE pool[i]]
    /\ Goto(t, "stopping")
    /\ UNCHANGED <<starter, process, owner, detached, script, held>>

\* HostSession.stop, after the lock: the handle is dropped and the child told.
StopBegins(t) ==
    /\ pc[t] = "stopping"
    /\ \E k \in doomed[t] :
          /\ held' = [held EXCEPT ![t] = k]
          /\ detached' = detached \cup {k}
    /\ Goto(t, "waiting")
    /\ UNCHANGED <<pool, starter, process, owner, script, doomed>>

\* It exited, or was killed after five seconds; its files are removed.
StopEnds(t) ==
    /\ pc[t] = "waiting"
    /\ process' = [process EXCEPT ![held[t]] = "exited"]
    /\ script' = script \ {owner[held[t]]}
    /\ doomed' = [doomed EXCEPT ![t] = @ \ {held[t]}]
    /\ Goto(t, "stopping")
    /\ UNCHANGED <<pool, starter, owner, detached, held>>

RemoveEnds(t) ==
    /\ pc[t] = "stopping"
    /\ doomed[t] = {}
    /\ Goto(t, "idle")
    /\ UNCHANGED <<pool, starter, process, owner, detached, script, held, doomed>>

-----------------------------------------------------------------------------
(* The child.                                                               *)

\* The interpreter opens its script and the daemon listens, or the script has
\* been removed and it exits.
Boot(k) ==
    /\ process[k] = "spawned"
    /\ process' = [process EXCEPT ![k] = IF owner[k] \in script THEN "live" ELSE "exited"]
    /\ UNCHANGED <<pool, starter, owner, detached, script, pc, held, doomed>>

\* Killed for its memory, crashed in an extension, or told to terminate.
Exit(k) ==
    /\ Up(k)
    /\ owner[k] \in Fragile \/ k \in detached
    /\ process' = [process EXCEPT ![k] = "exited"]
    /\ UNCHANGED <<pool, starter, owner, detached, script, pc, held, doomed>>

-----------------------------------------------------------------------------
RunnerStep(t) ==
    \/ Get(t) \/ Look(t) \/ Discard(t) \/ Reuse(t) \/ Spawn(t)
    \/ CannotSpawn(t) \/ Started(t) \/ StartTimesOut(t) \/ DrainEnds(t)

RemoverStep(t) == Remove(t) \/ StopBegins(t) \/ StopEnds(t) \/ RemoveEnds(t)

PoolNext ==
    \/ \E t \in Runners : RunnerStep(t)
    \/ \E t \in Removers : RemoverStep(t)
    \/ \E k \in Children : Boot(k) \/ Exit(k)

PoolSpec == PoolInit /\ [][PoolNext]_poolVars

\* Threads run; a start and a stop have time limits, and a pipe ends with its child.  A thread that
\* waits for a lock that is given back again and again gets it in the end: the operating system
\* wakes a waiter.
PoolFairness ==
    /\ \A t \in Runners :
          /\ WF_poolVars(Look(t)) /\ SF_poolVars(Discard(t))
          /\ SF_poolVars(Reuse(t) \/ Spawn(t) \/ CannotSpawn(t))
          /\ WF_poolVars(Started(t) \/ StartTimesOut(t))
          /\ WF_poolVars(DrainEnds(t) /\ ~Up(held[t]))
    /\ \A t \in Removers : WF_poolVars(StopBegins(t) \/ StopEnds(t) \/ RemoveEnds(t))

PoolFairSpec == PoolSpec /\ PoolFairness
-----------------------------------------------------------------------------
(* Properties.                                                              *)

\* Somebody answers for a child that is up: the pool has it, the thread that
\* starts it has the lock, or a remover has yet to stop it.  No process is
\* left running that nothing can find.
NoChildLeaks ==
    \A k \in Children : Up(k) =>
        \/ pool[owner[k]] = k
        \/ \E t \in starter : held[t] = k
        \/ \E t \in Removers : k \in doomed[t]

\* host_runtime.py: "Creates and reaps one HostSession per user session": of
\* the children of a session that are up, all but one are being stopped.
OneChildPerSession ==
    \A j, k \in Children :
        Up(j) /\ Up(k) /\ owner[j] = owner[k] /\ j # k =>
            \E t \in Removers : j \in doomed[t] \/ k \in doomed[t]

\* Every child that is up has somebody who answers for it, and each session one.
ChildrenHold == NoChildLeaks /\ OneChildPerSession

\* What the comment in _drain_startup_output says: "The child is dead or about to be killed, so this
\* cannot block for long".
DrainReturns == \A t \in Runners : pc[t] = "draining" ~> pc[t] # "draining"

\* A failed start reads from a child that is up and need not say anything.
DrainBlocks == \E t \in Runners : pc[t] = "draining" /\ Up(held[t])

\* A call of get returns, with a runtime or without one, and a removal stops what it took out,
\* whatever the children and the other threads do, unless a failed start sits on the lock and
\* reads from a child that says nothing.
PoolCallsReturn == \A t \in Threads : pc[t] # "idle" ~> pc[t] = "idle" \/ DrainBlocks
=============================================================================
