--------------------------- MODULE DaemonProtocol ---------------------------
(***************************************************************************)
(* The execution daemon of one session and the client that talks to it:    *)
(* DAEMON_SCRIPT and DaemonClient of core/tools/daemon.py, with interrupt  *)
(* and restart of core/tools/host_runtime.py.                              *)
(*                                                                         *)
(* The daemon takes one connection at a time; the others wait in the       *)
(* backlog of its listener.  A client holds HostSession._lock over a       *)
(* request.  When it stops waiting it closes its socket, and nothing tells *)
(* the daemon: the request stays in the backlog, or runs on.  A signal is  *)
(* delivered whenever the interpreter next looks, which may be later than  *)
(* the cell it was meant for.  A child that has died is replaced for the   *)
(* next cell: it reads the workspace, listens, and is then put into the    *)
(* pool, where reloads and signals find it.                                *)
(***************************************************************************)
EXTENDS Naturals, Sequences, FiniteSets

CONSTANTS
    Cells,       \* run_code calls
    Reloads,     \* dataset changes, each followed by reload_dataset
    Chatty,      \* the cells that may print for ever, often enough for recv
    NoRequest,
    Backlog,     \* connections the listener keeps: listen(4)
    MaxSignals,  \* bound: interrupts of the session
    MaxLives     \* bound: children started for the session

Requests == Cells \cup Reloads

ASSUME DaemonAssumption ==
    /\ NoRequest \notin Requests
    /\ Cells \cap Reloads = {}
    /\ Chatty \subseteq Cells
    /\ Backlog \in Nat \ {0}
    /\ MaxSignals \in Nat /\ MaxLives \in Nat

VARIABLES
    call,     \* per request: where its thread is
    of,       \* per request: the child whose HostSession the pool gave it, or 0
    outcome,  \* per request: what its thread was told
    answer,   \* per request: the reply in its socket, or "none"
    queue,    \* the backlog
    daemon,   \* where the daemon's loop is
    serving,  \* the request it has accepted
    verdict,  \* the status it will reply
    signal,   \* SIGINT is pending
    signals,  \* how many were sent
    life,     \* how many children the session has had
    disk,     \* version of the datasets in the workspace
    loaded,   \* version of the datasets in the namespace
    missed,   \* history: the children and versions of reloads that came between a child's reading
              \* of the workspace and its entry into the pool
    wants,    \* per reload: the version its change wrote
    sent,     \* history: requests in the order their connections were made
    started,  \* history: requests in the order the daemon took them up
    whole,    \* history: the requests that ran to their end
    need,     \* history, per cell: data a cell sent then is entitled to
    ranOn     \* history, per cell: the data it ran on

client  == <<call, of, outcome, missed>>
child   == <<queue, daemon, serving, verdict>>
signl   == <<signal, signals>>
data    == <<disk, wants>>
history == <<sent, started, whole, need, ranOn>>
daemonVars    == <<client, answer, child, signl, life, data, loaded, history>>

Status == {"ok", "error", "interrupted"}

DaemonTypeOK ==
    /\ call \in [Requests -> {"new", "due", "fetched", "connecting", "waiting", "lost", "returned"}]
    /\ of \in [Requests -> Nat]
    /\ outcome \in [Requests -> Status \cup {"none", "timeout", "refused", "gone"}]
    /\ answer \in [Requests -> Status \cup {"none"}]
    /\ queue \in Seq(Requests)
    /\ daemon \in {"dead", "booting", "loaded", "accept", "busy", "reply"}
    /\ serving \in Requests \cup {NoRequest}
    /\ verdict \in Status \cup {"none"}
    /\ signal \in BOOLEAN /\ signals \in 0..MaxSignals
    /\ life \in Nat
    /\ disk \in Nat /\ loaded \in Nat
    /\ wants \in [Reloads -> Nat]
    /\ missed \subseteq Nat \X Nat
    /\ sent \in Seq(Requests) /\ started \in Seq(Requests)
    /\ whole \subseteq Requests
    /\ need \in [Cells -> SUBSET Nat] /\ ranOn \in [Cells -> Nat]
    /\ \A r \in Requests : outcome[r] # "none" <=> call[r] = "returned"
    /\ serving # NoRequest <=> daemon \in {"busy", "reply"}
    /\ daemon # "dead" => life > 0

DaemonInit ==
    /\ call = [r \in Requests |-> "new"]
    /\ of = [r \in Requests |-> 0]
    /\ outcome = [r \in Requests |-> "none"]
    /\ answer = [r \in Requests |-> "none"]
    /\ queue = <<>>
    /\ daemon = "dead"
    /\ serving = NoRequest
    /\ verdict = "none"
    /\ signal = FALSE /\ signals = 0
    /\ life = 0
    /\ disk = 0 /\ loaded = 0
    /\ wants = [r \in Reloads |-> 0]
    /\ missed = {}
    /\ sent = <<>> /\ started = <<>>
    /\ whole = {}
    /\ need = [c \in Cells |-> {}]
    /\ ranOn = [c \in Cells |-> 0]

-----------------------------------------------------------------------------
(* The client: a worker thread in run_code or reload_dataset.               *)

\* The thread holds the lock of its HostSession: it is inside `with lock`.
Inside(r) == call[r] \in {"connecting", "waiting", "lost"}

\* The thread leaves `_request` and its lock; the socket is closed.
Tell(r, what) ==
    /\ outcome' = [outcome EXCEPT ![r] = what]
    /\ call' = [call EXCEPT ![r] = "returned"]
    /\ UNCHANGED <<of, missed>>

\* The pool has the present child, and that is not known to have exited.
InPool == daemon \in {"accept", "busy", "reply"}

\* A dataset was added or activated: its files are written first.  A write that fails is swallowed
\* and leaves what was there.
Materialize(r) ==
    /\ call[r] = "new"
    /\ disk' \in {disk, disk + 1}
    /\ wants' = [wants EXCEPT ![r] = disk']
    /\ call' = [call EXCEPT ![r] = "due"]
    /\ UNCHANGED <<of, outcome, missed, answer, child, signl, life, loaded, history>>

\* get: a cell is given the present child; when there is none it starts one and waits for it.
\* get(create=False): a reload is given the present child, a dead one, or None, and while a child is
\* being started the dead one before it, or None.
Fetch(r) ==
    /\ call[r] = (IF r \in Cells THEN "new" ELSE "due")
    /\ r \in Cells => InPool
    /\ \E k \in (CASE InPool          -> {life}
                   [] daemon = "dead" -> {life, 0}
                   [] OTHER           -> {life - 1, 0}) : of' = [of EXCEPT ![r] = k]
    /\ missed' = IF daemon = "loaded" /\ wants[r] > loaded THEN missed \cup {<<life, wants[r]>>} ELSE missed
    /\ call' = [call EXCEPT ![r] = "fetched"]
    /\ UNCHANGED <<outcome, answer, child, signl, life, data, loaded, history>>

\* `with lock`, and `is_running`.  There is neither for None.
Lock(r) ==
    /\ call[r] = "fetched"
    /\ \A q \in Requests : of[q] = of[r] => ~Inside(q)
    /\ \/ /\ of[r] = life /\ daemon # "dead"
          /\ call' = [call EXCEPT ![r] = "connecting"]
          /\ UNCHANGED <<of, outcome, missed>>
       \/ (of[r] # life \/ daemon = "dead") /\ Tell(r, "gone")
    /\ UNCHANGED <<answer, child, signl, life, data, loaded, history>>

\* The data that a reload which has returned delivered or may yet deliver.
\* One that never got a connection (refused) is not among them: its caller
\* does not look at what reload_dataset returns.
Promised ==
    {wants[r] : r \in {q \in Reloads :
        call[q] = "returned" /\ outcome[q] \in {"ok", "timeout", "gone"}}}

\* create_connection and sendall: there is room in the backlog.
Connect(r) ==
    /\ call[r] = "connecting"
    /\ Len(queue) < Backlog
    /\ queue' = Append(queue, r)
    /\ sent' = Append(sent, r)
    /\ call' = [call EXCEPT ![r] = "waiting"]
    /\ need' = IF r \in Cells THEN [need EXCEPT ![r] = Promised] ELSE need
    /\ UNCHANGED <<of, outcome, missed, answer, daemon, serving, verdict, signl, life, data, loaded,
                   started, whole, ranOn>>

\* There is none for SANDBOX_EXEC_TIMEOUT seconds.
Refuse(r) ==
    /\ call[r] = "connecting"
    /\ Len(queue) >= Backlog
    /\ Tell(r, "refused")
    /\ UNCHANGED <<answer, child, signl, life, data, loaded, history>>

\* Faulty variant: the time limit counts from when the daemon takes the step up.
TimeOutOnceServed(r) ==
    /\ call[r] = "waiting"
    /\ answer[r] = "none"
    /\ serving = r /\ ~(daemon = "busy" /\ r \in Chatty)
    /\ Tell(r, "timeout")
    /\ UNCHANGED <<answer, child, signl, life, data, loaded, history>>

\* recv has waited SANDBOX_EXEC_TIMEOUT seconds.  The deadline is per recv, so
\* a cell that keeps printing never meets it.
TimeOut(r) ==
    /\ call[r] = "waiting"
    /\ answer[r] = "none"
    /\ ~(serving = r /\ daemon = "busy" /\ r \in Chatty)
    /\ Tell(r, "timeout")
    /\ UNCHANGED <<answer, child, signl, life, data, loaded, history>>

\* The reply has been read.
Return(r) ==
    /\ call[r] = "waiting"
    /\ answer[r] # "none"
    /\ Tell(r, answer[r])
    /\ UNCHANGED <<answer, child, signl, life, data, loaded, history>>

\* The connection was reset: DaemonUnavailableError or an OSError.
Lost(r) ==
    /\ call[r] = "lost"
    /\ Tell(r, "gone")
    /\ UNCHANGED <<answer, child, signl, life, data, loaded, history>>

-----------------------------------------------------------------------------
(* The daemon.                                                              *)

\* accept, read_message: the oldest connection, whether or not its client
\* still waits, since what it sent is in the socket.
Accept ==
    /\ daemon = "accept"
    /\ queue # <<>>
    /\ LET r == Head(queue)
       IN  /\ serving' = r
           /\ started' = Append(started, r)
           /\ ranOn' = IF r \in Cells THEN [ranOn EXCEPT ![r] = loaded] ELSE ranOn
    /\ queue' = Tail(queue)
    /\ daemon' = "busy"
    /\ UNCHANGED <<client, answer, verdict, signl, life, data, loaded, sent, whole, need>>

\* exec returns or raises.
CellEnds ==
    /\ daemon = "busy"
    /\ serving \in Cells
    /\ \E s \in {"ok", "error"} : verdict' = s
    /\ whole' = whole \cup {serving}
    /\ daemon' = "reply"
    /\ UNCHANGED <<client, answer, queue, serving, signl, life, data, loaded, sent, started, need, ranOn>>

\* load_dataset reads what the workspace has now.
ReloadEnds ==
    /\ daemon = "busy"
    /\ serving \in Reloads
    /\ loaded' = disk
    /\ verdict' = "ok"
    /\ whole' = whole \cup {serving}
    /\ daemon' = "reply"
    /\ UNCHANGED <<client, answer, queue, serving, signl, life, data, sent, started, need, ranOn>>

\* Faulty variant: the reply goes to the client that waits now.
ReplyToWaiter ==
    /\ daemon = "reply"
    /\ answer' = [r \in Requests |-> IF call[r] = "waiting" THEN verdict ELSE answer[r]]
    /\ serving' = NoRequest
    /\ verdict' = "none"
    /\ daemon' = "accept"
    /\ UNCHANGED <<client, queue, signl, life, data, loaded, history>>

\* send_message: into the connection of the request.  When its client is gone
\* the error is swallowed.
Reply ==
    /\ daemon = "reply"
    /\ answer' = (IF call[serving] = "waiting" THEN [answer EXCEPT ![serving] = verdict] ELSE answer)
    /\ serving' = NoRequest
    /\ verdict' = "none"
    /\ daemon' = "accept"
    /\ UNCHANGED <<client, queue, signl, life, data, loaded, history>>

-----------------------------------------------------------------------------
(* Signals, death and restart.                                              *)

\* HostSession.interrupt: cancel, disconnect, the sandbox route.  Nothing
\* looks whether a cell is running.
Interrupt ==
    /\ InPool
    /\ signals < MaxSignals
    /\ signal' = TRUE
    /\ signals' = signals + 1
    /\ UNCHANGED <<client, answer, child, life, data, loaded, history>>

\* The process ends.  Its connections are reset, except that a reply already
\* in a socket can be read.
Dies ==
    /\ daemon' = "dead"
    /\ queue' = <<>>
    /\ serving' = NoRequest
    /\ verdict' = "none"
    /\ signal' = FALSE
    /\ call' = [r \in Requests |->
                   IF call[r] = "connecting" \/ (call[r] = "waiting" /\ answer[r] = "none")
                   THEN "lost" ELSE call[r]]
    /\ UNCHANGED <<of, missed>>

\* KeyboardInterrupt around exec: the cell ends, the daemon goes on.
InterruptsCell ==
    /\ signal
    /\ daemon = "busy"
    /\ serving \in Cells
    /\ verdict' = "interrupted"
    /\ daemon' = "reply"
    /\ signal' = FALSE
    /\ UNCHANGED <<client, answer, queue, serving, signals, life, data, loaded, history>>

\* KeyboardInterrupt anywhere else is no Exception: it leaves run_server.
InterruptKills ==
    /\ signal
    /\ daemon # "dead"
    /\ ~(daemon = "busy" /\ serving \in Cells)
    /\ Dies
    /\ UNCHANGED <<outcome, answer, signals, life, data, loaded, history>>

\* Out of memory, a crash in an extension, release, shutdown, a start that fails.
Crash ==
    /\ daemon # "dead"
    /\ Dies
    /\ UNCHANGED <<outcome, answer, signals, life, data, loaded, history>>

\* The pool starts another child for a cell.
StartChild ==
    /\ daemon = "dead"
    /\ life < MaxLives
    /\ life' = life + 1
    /\ daemon' = "booting"
    /\ UNCHANGED <<client, answer, queue, serving, verdict, signl, data, loaded, history>>

\* Faulty variant: the new child does not read the workspace.
LoadNothing ==
    /\ daemon = "booting"
    /\ daemon' = "loaded"
    /\ UNCHANGED <<loaded, client, answer, queue, serving, verdict, signl, life, data, history>>

\* It reads the workspace before it listens.
LoadFrames ==
    /\ daemon = "booting"
    /\ daemon' = "loaded"
    /\ loaded' = disk
    /\ UNCHANGED <<client, answer, queue, serving, verdict, signl, life, data, history>>

\* It listens, the starting thread has reached it, and the pool has it.
Register ==
    /\ daemon = "loaded"
    /\ daemon' = "accept"
    /\ UNCHANGED <<client, answer, queue, serving, verdict, signl, life, data, loaded, history>>

-----------------------------------------------------------------------------
ClientStep(r) ==
    Fetch(r) \/ Lock(r) \/ Connect(r) \/ Refuse(r) \/ TimeOut(r) \/ Return(r) \/ Lost(r)

DaemonStep == Accept \/ CellEnds \/ ReloadEnds \/ Reply

DaemonNext ==
    \/ \E r \in Reloads : Materialize(r)
    \/ \E r \in Requests : ClientStep(r)
    \/ DaemonStep
    \/ Interrupt \/ InterruptsCell \/ InterruptKills \/ Crash
    \/ StartChild \/ LoadFrames \/ Register

DaemonSpec == DaemonInit /\ [][DaemonNext]_daemonVars

\* Threads run and time limits pass; the daemon goes on unless generated code
\* holds it up: nothing says that a cell ends.
DaemonFairness ==
    /\ \A r \in Requests :
          /\ WF_daemonVars(Connect(r) \/ Refuse(r)) /\ WF_daemonVars(TimeOut(r) \/ Return(r)) /\ WF_daemonVars(Lost(r))
    /\ WF_daemonVars(Accept) /\ WF_daemonVars(ReloadEnds) /\ WF_daemonVars(Reply)

DaemonFairSpec == DaemonSpec /\ DaemonFairness
-----------------------------------------------------------------------------
(* Properties.                                                              *)

Before(s, r, q) == \E i, j \in DOMAIN s : i < j /\ s[i] = r /\ s[j] = q

\* A caller is told about its own request: "ok" and "error" only of one that
\* ran to its end, "interrupted" only of one that did not, and no late reply
\* of an abandoned request is taken for the answer to the next.
AnswersAreOwn ==
    \A r \in Requests :
        /\ outcome[r] \in {"ok", "error"} => r \in whole
        /\ outcome[r] = "interrupted" => r \notin whole
        /\ outcome[r] = "refused" => ~\E i \in DOMAIN sent : sent[i] = r

\* The namespace is written in the order the steps were sent, each at most
\* once, even when callers gave up on some of them: a later step never runs
\* before, or between, what an earlier one left behind.
RunInOrder ==
    \A i \in DOMAIN started :
        /\ \E j \in DOMAIN sent : started[i] = sent[j]
        /\ \A j \in DOMAIN started : i < j =>
              started[i] # started[j] /\ Before(sent, started[i], started[j])

\* daemon.py: "Re-reads the datasets from the workspace without restarting": a step that is sent
\* after a dataset change returned runs on that data, also when the change's reload timed out behind
\* a cell, or found a dead child.
CellsSeeEveryChange ==
    \A i \in DOMAIN started : started[i] \in Cells =>
        \A v \in need[started[i]] : ranOn[started[i]] >= v

\* It does, except for a change whose reload looked for the child that runs the step after that had
\* read the workspace and before the pool had it.
CellsSeeTheirData ==
    \A i \in DOMAIN started : started[i] \in Cells =>
        \A v \in need[started[i]] : ranOn[started[i]] >= v \/ <<of[started[i]], v>> \in missed

\* A call returns, unless a cell that keeps printing runs for ever.
DaemonCallsReturn ==
    \A r \in Requests :
        call[r] \in {"connecting", "waiting", "lost"} ~>
            call[r] = "returned" \/ (daemon = "busy" /\ serving \in Chatty)

\* host_runtime.py: "Interrupts the running cell without killing the runtime".
StopKeepsTheRuntime == [][signal /\ daemon # "dead" /\ signal' = FALSE => daemon' # "dead"]_daemonVars
=============================================================================
