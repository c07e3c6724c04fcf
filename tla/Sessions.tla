------------------------------ MODULE Sessions ------------------------------
(***************************************************************************)
(* The sessions of the process: SessionManager and Session.dispose of      *)
(* core/session.py.                                                        *)
(*                                                                         *)
(* A caller is a thread: dependencies of requests, the reaper and the      *)
(* route that drops a session run side by side.  A disposal is long and    *)
(* takes the lock of the manager for its first step only.  It does not ask *)
(* whether a turn of the session is running.                               *)
(***************************************************************************)
EXTENDS Integers, FiniteSets, Sequences, SequencesExt, FiniteSetsExt

CONSTANTS
    SessionIds,  \* bound: the sessions of a behaviour
    Threads,
    MaxActive,   \* SESSION_MAX_ACTIVE
    Makes        \* bound: what the turns of a behaviour make

ASSUME SessionsAssumption ==
    /\ IsFiniteSet(SessionIds) /\ IsFiniteSet(Threads)
    /\ MaxActive \in Nat
    /\ Makes \subseteq {"question", "children", "runtime", "usage", "rows", "tables"}

\* What the process keeps for a session outside of it, in the order in which
\* dispose gives it back.
Teardown == <<"question", "children", "runtime", "usage", "rows", "tables">>
Things == ToSet(Teardown)

VARIABLES
    live,     \* _sessions
    seen,     \* last_seen: the time of each session's last request
    caller,   \* what each thread is doing
    kept,     \* what there is of each session
    working,  \* the sessions a turn is running for
    made      \* the sessions something was kept for after dispose had passed it

sessVars == <<live, seen, caller, kept, working, made>>

\* What a thread is doing: where it is, the session in its hands, those it has
\* still to dispose of and the next step of the disposal.
Hands(where, id, victims, step) == [at |-> where, id |-> id, victims |-> victims, step |-> step]
Idle == Hands("idle", {}, {}, 0)

SessTypeOK ==
    /\ live \subseteq SessionIds
    /\ seen \in [SessionIds -> Nat]
    /\ \A c \in Threads :
          /\ caller[c].at \in {"idle", "insert", "enforce", "dispose", "shutdown"}
          /\ caller[c].id \subseteq SessionIds /\ caller[c].victims \subseteq SessionIds
          /\ caller[c].step \in 0..Len(Teardown)
    /\ kept \in [SessionIds -> SUBSET Things]
    /\ working \subseteq SessionIds /\ made \subseteq SessionIds

SessInit ==
    /\ live = {} /\ working = {} /\ made = {}
    /\ seen = [s \in SessionIds |-> 0]
    /\ caller = [c \in Threads |-> Idle]
    /\ kept = [s \in SessionIds |-> {}]

\* The clock is the number of sessions: a request makes its session the last
\* seen of those there are.
Touched(s) ==
    [t \in SessionIds |-> IF t = s THEN Cardinality(SessionIds)
                          ELSE IF seen[t] > seen[s] THEN seen[t] - 1 ELSE seen[t]]

At(c, where) == caller[c].at = where

Disposing(c) == caller[c].at = "dispose"

-----------------------------------------------------------------------------
(* create.                                                                  *)

\* Session(): an id nobody has had.
Mint(c, s) ==
    /\ At(c, "idle")
    /\ seen[s] = 0
    /\ seen' = Touched(s)
    /\ caller' = [caller EXCEPT ![c] = Hands("insert", {s}, {}, 0)]
    /\ UNCHANGED <<live, kept, working, made>>

Insert(c) ==
    /\ At(c, "insert")
    /\ live' = live \cup caller[c].id
    /\ caller' = [caller EXCEPT ![c] = Hands("enforce", {}, {}, 0)]
    /\ UNCHANGED <<seen, kept, working, made>>

\* The least recently seen beyond the capacity.
Overflow(victims, limit) ==
    /\ victims \subseteq live
    /\ Cardinality(victims) = IF Cardinality(live) > limit THEN Cardinality(live) - limit ELSE 0
    /\ \A v \in victims, s \in live \ victims : seen[v] <= seen[s]

\* _enforce_capacity: taken out under the lock, disposed after it.
Enforce(c) ==
    /\ At(c, "enforce")
    /\ \E victims \in SUBSET live :
          /\ Overflow(victims, MaxActive)
          /\ live' = live \ victims
          /\ caller' = [caller EXCEPT ![c] = Hands("dispose", {}, victims, 0)]
    /\ UNCHANGED <<seen, kept, working, made>>

-----------------------------------------------------------------------------
(* get, drop, reap_expired, shutdown.                                       *)

Get(s) ==
    /\ s \in live
    /\ seen[s] # Cardinality(SessionIds)
    /\ seen' = Touched(s)
    /\ UNCHANGED <<live, caller, kept, working, made>>

Drop(c, s) ==
    /\ At(c, "idle") /\ s \in live
    /\ live' = live \ {s}
    /\ caller' = [caller EXCEPT ![c] = Hands("dispose", {}, {s}, 0)]
    /\ UNCHANGED <<seen, kept, working, made>>

\* Those not seen since some moment.
Reap(c) ==
    /\ At(c, "idle")
    /\ \E cutoff \in 1..Cardinality(SessionIds) :
          LET overdue == {s \in live : seen[s] <= cutoff}
          IN  /\ overdue # {}
              /\ live' = live \ overdue
              /\ caller' = [caller EXCEPT ![c] = Hands("dispose", {}, overdue, 0)]
    /\ UNCHANGED <<seen, kept, working, made>>

\* The process ends: only the runtimes outlive it and are released.
Shutdown(c) ==
    /\ At(c, "idle") /\ live # {}
    /\ caller' = [caller EXCEPT ![c] = Hands("shutdown", {}, live, 0)]
    /\ live' = {}
    /\ UNCHANGED <<seen, kept, working, made>>

Release(c) ==
    /\ At(c, "shutdown")
    /\ kept' = [s \in SessionIds |-> IF s \in caller[c].victims THEN kept[s] \ {"runtime"} ELSE kept[s]]
    /\ made' = made \cup {s \in caller[c].victims : kept'[s] # {}}
    /\ caller' = [caller EXCEPT ![c] = Idle]
    /\ UNCHANGED <<live, seen, working>>

-----------------------------------------------------------------------------
(* dispose.                                                                 *)

\* The disposal of one session ends with its last thing.
After(c) ==
    IF caller[c].step = Len(Teardown) THEN Hands("dispose", {}, caller[c].victims, 0)
    ELSE Hands("dispose", caller[c].id, caller[c].victims, caller[c].step + 1)

\* Faulty variant: a child whose release fails ends the disposal.
GiveBackUntilFailure(c) ==
    /\ Disposing(c) /\ caller[c].id # {}
    /\ \E s \in caller[c].id :
          \/ /\ kept' = [kept EXCEPT ![s] = @ \ {Teardown[caller[c].step]}]
             /\ caller' = [caller EXCEPT ![c] = After(c)]
          \/ /\ Teardown[caller[c].step] = "children"
             /\ caller' = [caller EXCEPT ![c] = Hands("dispose", {}, caller[c].victims, 0)]
             /\ UNCHANGED kept
    /\ UNCHANGED <<live, seen, working, made>>

\* The next of the victims; none left, the thread is done.
Take(c) ==
    /\ Disposing(c) /\ caller[c].id = {}
    /\ IF caller[c].victims = {}
       THEN caller' = [caller EXCEPT ![c] = Idle]
       ELSE \E s \in caller[c].victims :
               caller' = [caller EXCEPT ![c] = Hands("dispose", {s}, caller[c].victims \ {s}, 1)]
    /\ UNCHANGED <<live, seen, kept, working, made>>

\* One thing after the other.
GiveBack(c) ==
    /\ Disposing(c) /\ caller[c].id # {}
    /\ \E s \in caller[c].id : kept' = [kept EXCEPT ![s] = @ \ {Teardown[caller[c].step]}]
    /\ caller' = [caller EXCEPT ![c] = After(c)]
    /\ UNCHANGED <<live, seen, working, made>>

-----------------------------------------------------------------------------
(* The turns of a session, which hold it whether or not it is in the table. *)

Begin(s) ==
    /\ s \in live
    /\ working' = working \cup {s}
    /\ UNCHANGED <<live, seen, caller, kept, made>>

\* What a disposal has still to give back for a session.
Ahead(s) ==
    IF s \in live THEN Things
    ELSE UNION ({Things : c \in {d \in Threads : s \in caller[d].victims}}
                \cup {{Teardown[i] : i \in caller[c].step..Len(Teardown)} :
                         c \in {d \in Threads : Disposing(d) /\ s \in caller[d].id}})

\* A question, a branch, a cell, a model call, a message or an upload.
Work(s) ==
    /\ s \in working
    /\ \E thing \in Makes :
          /\ kept' = [kept EXCEPT ![s] = @ \cup {thing}]
          /\ made' = IF thing \in Ahead(s) THEN made ELSE made \cup {s}
    /\ UNCHANGED <<live, seen, caller, working>>

Finish(s) ==
    /\ s \in working
    /\ working' = working \ {s}
    /\ UNCHANGED <<live, seen, caller, kept, made>>

-----------------------------------------------------------------------------
Call(c) == Insert(c) \/ Enforce(c) \/ Take(c) \/ GiveBack(c) \/ Release(c)

SessNext ==
    \/ \E c \in Threads :
          \/ Call(c) \/ Reap(c) \/ Shutdown(c)
          \/ \E s \in SessionIds : Mint(c, s) \/ Drop(c, s)
    \/ \E s \in SessionIds : Get(s) \/ Begin(s) \/ Work(s) \/ Finish(s)

SessSpec == SessInit /\ [][SessNext]_sessVars
-----------------------------------------------------------------------------
(* Properties.                                                              *)

\* The table is over its capacity by the creations that have not got to
\* _enforce_capacity, however they overlap.
CapacityHolds ==
    Cardinality(live) <= MaxActive + Cardinality({c \in Threads : At(c, "enforce")})

\* dispose is "the one chokepoint every eviction path already funnels
\* through": of a session that is in no table and no disposal nothing is left,
\* unless a turn that outlived it made something after its disposal had passed.
NothingLeft ==
    \A s \in SessionIds \ made : s \notin live /\ Ahead(s) = {} => kept[s] = {}

\* Creation, drop, reaping and eviction may race for a session: one disposes it.
DisposedOnce ==
    \A c, d \in Threads, s \in SessionIds :
        s \in caller[c].victims \cup (IF Disposing(c) THEN caller[c].id ELSE {}) =>
            /\ s \notin live
            /\ c # d => s \notin caller[d].victims \cup caller[d].id

\* Eviction keeps the table small and disposes each of its victims once, and
\* nothing of what is disposed of stays.
SessionsHold == NothingLeft /\ CapacityHolds /\ DisposedOnce
=============================================================================
