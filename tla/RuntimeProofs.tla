--------------------------- MODULE RuntimeProofs ----------------------------
(***************************************************************************)
(* What TLAPS proves about the processes that run generated code: the pool *)
(* of children on the host (RuntimePool), and what the server and one such *)
(* child say to each other (DaemonProtocol).                               *)
(*                                                                         *)
(* Of RuntimePool, type correctness and the discipline of the pool's lock  *)
(* hold for any threads.  That no child leaks, and that a session has one  *)
(* child, are proved for sessions that execute on one thread at a time:    *)
(* two threads that find the same dead child can both take an entry out of *)
(* the pool, the later one that of a live child.  Of DaemonProtocol        *)
(* everything is proved for any number of requests, signals and children   *)
(* and for a backlog of any length.                                        *)
(***************************************************************************)
EXTENDS RuntimePool, DaemonProtocol, TLAPS

\* A thread that starts a child has one.
TypeInv ==
    /\ PoolTypeOK
    /\ \A t \in Runners : pc[t] \in {"starting", "draining"} => held[t] \in Children

\* Every variable of the pool keeps its type.
THEOREM PoolTyped == PoolSpec => []PoolTypeOK
<1> USE PoolAssumption DEF PoolTypeOK, TypeInv, Threads, Goto
<1>1. PoolInit => TypeInv
  BY DEF PoolInit
<1>2. TypeInv /\ [PoolNext]_poolVars => TypeInv'
  <2> SUFFICES ASSUME TypeInv, [PoolNext]_poolVars PROVE TypeInv'
    OBVIOUS
  <2>1. ASSUME NEW t \in Runners, Get(t) PROVE TypeInv'
    BY <2>1 DEF Get
  <2>2. ASSUME NEW t \in Runners, Look(t) PROVE TypeInv'
    BY <2>2 DEF Look
  <2>3. ASSUME NEW t \in Runners, Discard(t) PROVE TypeInv'
    BY <2>3 DEF Discard
  <2>4. ASSUME NEW t \in Runners, Reuse(t) PROVE TypeInv'
    BY <2>4 DEF Reuse
  <2>5. ASSUME NEW t \in Runners, Spawn(t) PROVE TypeInv'
    <3>1. Fresh \in Children
      BY <2>5 DEF Spawn, Fresh
    <3> QED
      BY <2>5, <3>1 DEF Spawn
  <2>6. ASSUME NEW t \in Runners, CannotSpawn(t) PROVE TypeInv'
    BY <2>6 DEF CannotSpawn
  <2>7. ASSUME NEW t \in Runners, Started(t) PROVE TypeInv'
    BY <2>7 DEF Started
  <2>8. ASSUME NEW t \in Runners, StartTimesOut(t) \/ DrainEnds(t) PROVE TypeInv'
    BY <2>8 DEF StartTimesOut, DrainEnds
  <2>9. ASSUME NEW t \in Removers, Remove(t) PROVE TypeInv'
    BY <2>9 DEF Remove
  <2>10. ASSUME NEW t \in Removers, StopBegins(t) PROVE TypeInv'
    BY <2>10 DEF StopBegins
  <2>11. ASSUME NEW t \in Removers, StopEnds(t) PROVE TypeInv'
    BY <2>11 DEF StopEnds
  <2>12. ASSUME NEW t \in Removers, RemoveEnds(t) PROVE TypeInv'
    BY <2>12 DEF RemoveEnds
  <2>13. ASSUME NEW k \in Children, Boot(k) PROVE TypeInv'
    BY <2>13 DEF Boot
  <2>14. ASSUME NEW k \in Children, Exit(k) PROVE TypeInv'
    BY <2>14 DEF Exit
  <2>15. CASE UNCHANGED poolVars
    BY <2>15 DEF poolVars
  <2> QED
    BY <2>1, <2>2, <2>3, <2>4, <2>5, <2>6, <2>7, <2>8, <2>9, <2>10, <2>11, <2>12,
       <2>13, <2>14, <2>15 DEF PoolNext, RunnerStep, RemoverStep
<1>3. TypeInv => PoolTypeOK
  OBVIOUS
<1> QED
  BY <1>1, <1>2, <1>3, PTL DEF PoolSpec

-----------------------------------------------------------------------------
(* The inductive invariant.                                                 *)

\* A registered child is its session's, has been started, and nobody has
\* begun to stop it.
Registered ==
    \A i \in Sessions : pool[i] # NoChild =>
        /\ owner[pool[i]] = i
        /\ process[pool[i]] # "none"
        /\ pool[i] \notin detached
        /\ \A t \in Removers : pool[i] \notin doomed[t]

\* The pool's lock is held over one start at most, of a child only the
\* starting thread knows, for a session that has no other child up.
Starting ==
    /\ \A t \in Runners : pc[t] \in {"starting", "draining"} <=> t \in starter
    /\ \A t, u \in starter : t = u
    /\ \A t \in starter :
          /\ held[t] \in Children
          /\ owner[held[t]] = SessionOf[t]
          /\ process[held[t]] # "none"
          /\ held[t] \notin detached
          /\ \A u \in Removers : held[t] \notin doomed[u]
          /\ \A i \in Sessions : pool[i] # held[t]
          /\ pool[SessionOf[t]] # NoChild => ~Up(pool[SessionOf[t]])

\* What a thread has seen in the pool is still there, or nothing is.
Seen ==
    \A t \in Runners : pc[t] \in {"seen", "discard"} =>
        /\ held[t] \in Children
        /\ process[held[t]] # "none"
        /\ pool[SessionOf[t]] \in {NoChild, held[t]}
        /\ pc[t] = "discard" => ~IsRunning(held[t])

\* What a remover took out has been started, and it is not idle before it has
\* stopped it all.
Doomed ==
    \A t \in Removers :
        /\ \A k \in doomed[t] : process[k] # "none"
        /\ pc[t] = "waiting" => held[t] \in doomed[t]
        /\ pc[t] = "idle" => doomed[t] = {}

\* A child is made for a session, and only one that was started is stopped.
Made ==
    /\ \A k \in Children : process[k] # "none" => owner[k] \in Sessions
    /\ \A k \in detached : process[k] # "none"

PoolInv == PoolTypeOK /\ Registered /\ Starting /\ Seen /\ Doomed /\ Made /\ NoChildLeaks

OneRunnerEach == \A t, u \in Runners : SessionOf[t] = SessionOf[u] => t = u

\* PoolInv holds initially and every step preserves it.
LEMMA Preserved ==
    ASSUME OneRunnerEach, PoolInv, PoolTypeOK', [PoolNext]_poolVars
    PROVE  PoolInv'
<1> USE PoolAssumption
    DEF PoolInv, PoolTypeOK, Threads, Goto, Registered, Starting, Seen, Doomed, Made, NoChildLeaks, Up, IsRunning
<1>1. ASSUME NEW t \in Runners, Get(t) PROVE PoolInv'
  BY <1>1 DEF Get
<1>2. ASSUME NEW t \in Runners, Look(t) PROVE PoolInv'
  BY <1>2 DEF Look
<1>3. ASSUME NEW t \in Runners, Discard(t) PROVE PoolInv'
  BY <1>3 DEF Discard, OneRunnerEach
<1>4. ASSUME NEW t \in Runners, Reuse(t) PROVE PoolInv'
  BY <1>4 DEF Reuse
<1>5. ASSUME NEW t \in Runners, Spawn(t) PROVE PoolInv'
  <2>1. Fresh \in Children /\ process[Fresh] = "none"
    BY <1>5 DEF Spawn, Fresh
  <2>2. Registered'
    BY <1>5, <2>1 DEF Spawn
  <2>3. Starting'
    <3>1. held'[t] = Fresh /\ starter' = {t} /\ pool' = pool
      BY <1>5, <2>1 DEF Spawn
    <3>2. \A u \in Runners : pc'[u] \in {"starting", "draining"} <=> u \in starter'
      BY <1>5 DEF Spawn
    <3>3. owner'[Fresh] = SessionOf[t] /\ process'[Fresh] # "none" /\ Fresh \notin detached'
      BY <1>5, <2>1 DEF Spawn
    <3>4. \A u \in Removers : Fresh \notin doomed'[u]
      BY <1>5, <2>1 DEF Spawn
    <3>5. \A i \in Sessions : pool[i] # Fresh
      BY <2>1
    <3>6. pool[SessionOf[t]] # NoChild => ~Up(pool[SessionOf[t]])'
      BY <1>5, <2>1, <3>5 DEF Spawn
    <3> QED
      BY <2>1, <3>1, <3>2, <3>3, <3>4, <3>5, <3>6
  <2>4. Seen'
    BY <1>5, <2>1 DEF Spawn
  <2>5. Doomed'
    BY <1>5, <2>1 DEF Spawn
  <2>6. NoChildLeaks'
    BY <1>5, <2>1 DEF Spawn
  <2>7. Made'
    BY <1>5, <2>1 DEF Spawn
  <2> QED
    BY <2>2, <2>3, <2>4, <2>5, <2>6, <2>7
<1>6. ASSUME NEW t \in Runners, CannotSpawn(t) PROVE PoolInv'
  BY <1>6 DEF CannotSpawn
<1>7. ASSUME NEW t \in Runners, Started(t) PROVE PoolInv'
  <2>1. Registered'
    BY <1>7 DEF Started
  <2>2. Starting'
    BY <1>7 DEF Started
  <2>3. Seen'
    BY <1>7 DEF Started, OneRunnerEach
  <2>4. Doomed'
    BY <1>7 DEF Started
  <2>5. NoChildLeaks'
    BY <1>7 DEF Started
  <2>6. Made'
    BY <1>7 DEF Started
  <2> QED
    BY <2>1, <2>2, <2>3, <2>4, <2>5, <2>6
<1>8. ASSUME NEW t \in Runners, DrainEnds(t) PROVE PoolInv'
  <2>1. Registered'
    BY <1>8 DEF DrainEnds
  <2>2. Starting'
    BY <1>8 DEF DrainEnds
  <2>3. Seen'
    BY <1>8 DEF DrainEnds
  <2>4. Doomed'
    BY <1>8 DEF DrainEnds
  <2>5. NoChildLeaks'
    BY <1>8 DEF DrainEnds
  <2>6. Made'
    BY <1>8 DEF DrainEnds
  <2> QED
    BY <2>1, <2>2, <2>3, <2>4, <2>5, <2>6
<1>9. ASSUME NEW t \in Removers, Remove(t) PROVE PoolInv'
  <2>1. Registered'
    BY <1>9 DEF Remove
  <2>2. Starting'
    BY <1>9 DEF Remove
  <2>3. Seen'
    BY <1>9 DEF Remove
  <2>4. Doomed'
    BY <1>9 DEF Remove
  <2>5. NoChildLeaks'
    <3> SUFFICES ASSUME NEW k \in Children, Up(k)
                 PROVE  \/ pool'[owner[k]] = k
                        \/ \E u \in Removers : k \in doomed'[u]
      BY <1>9 DEF Remove
    <3>1. doomed'[t] = {pool[i] : i \in Scope[t]} \ {NoChild}
      BY <1>9 DEF Remove
    <3>2. CASE \E u \in Removers : k \in doomed[u]
      <4>1. PICK u \in Removers : k \in doomed[u]
        BY <3>2
      <4>2. CASE u = t
        BY <1>9, <4>1, <4>2 DEF Remove
      <4>3. CASE u # t
        BY <1>9, <4>1, <4>3 DEF Remove
      <4> QED
        BY <4>2, <4>3
    <3>3. CASE pool[owner[k]] = k
      <4>1. CASE owner[k] \in Scope[t]
        BY <3>1, <3>3, <4>1
      <4>2. CASE owner[k] \notin Scope[t]
        BY <1>9, <3>3, <4>2 DEF Remove
      <4> QED
        BY <4>1, <4>2
    <3> QED
      BY <1>9, <3>2, <3>3 DEF Remove
  <2>6. Made'
    BY <1>9 DEF Remove
  <2> QED
    BY <2>1, <2>2, <2>3, <2>4, <2>5, <2>6
<1>10. ASSUME NEW t \in Removers, StopBegins(t) PROVE PoolInv'
  BY <1>10 DEF StopBegins
<1>11. ASSUME NEW t \in Removers, StopEnds(t) PROVE PoolInv'
  BY <1>11 DEF StopEnds
<1>12. ASSUME NEW t \in Removers, RemoveEnds(t) PROVE PoolInv'
  BY <1>12 DEF RemoveEnds
<1>13. ASSUME NEW k \in Children, Boot(k) PROVE PoolInv'
  BY <1>13 DEF Boot
<1>14. ASSUME NEW k \in Children, Exit(k) PROVE PoolInv'
  BY <1>14 DEF Exit
<1>15. CASE UNCHANGED poolVars
  BY <1>15 DEF poolVars
<1>16. ASSUME NEW t \in Runners, StartTimesOut(t) PROVE PoolInv'
  BY <1>16 DEF StartTimesOut
<1> QED
  BY <1>1, <1>2, <1>3, <1>4, <1>5, <1>6, <1>7, <1>8, <1>9, <1>10, <1>11, <1>12,
     <1>13, <1>14, <1>15, <1>16 DEF PoolNext, RunnerStep, RemoverStep

\* PoolInv is an invariant of the pool when sessions execute on one thread.
LEMMA PoolInvariance ==
    ASSUME OneRunnerEach
    PROVE  PoolSpec => []PoolInv
<1>1. PoolInit /\ PoolTypeOK => PoolInv
  BY PoolAssumption
     DEF PoolInit, PoolInv, Registered, Starting, Seen, Doomed, Made, NoChildLeaks, Up, Threads
<1>2. PoolInv /\ PoolTypeOK' /\ [PoolNext]_poolVars => PoolInv'
  BY Preserved
<1> QED
  BY <1>1, <1>2, PoolTyped, PTL DEF PoolSpec

\* No process is left running that nothing can find: a child that is up is in
\* the pool, being started, or about to be stopped.
THEOREM NothingLeaks ==
    ASSUME OneRunnerEach
    PROVE  PoolSpec => []NoChildLeaks
<1>1. PoolInv => NoChildLeaks
  BY DEF PoolInv
<1> QED
  BY <1>1, PoolInvariance, PTL

\* A session has one child, besides those that are being stopped.
THEOREM OneChildEach ==
    ASSUME OneRunnerEach
    PROVE  PoolSpec => []OneChildPerSession
<1>1. PoolInv => OneChildPerSession
  <2> SUFFICES ASSUME PoolInv,
                      NEW j \in Children, NEW k \in Children,
                      Up(j), Up(k), owner[j] = owner[k], j # k,
                      \A t \in Removers : j \notin doomed[t] /\ k \notin doomed[t]
               PROVE  FALSE
    BY DEF OneChildPerSession
  <2> USE DEF PoolInv, PoolTypeOK
  <2>1. owner[j] \in Sessions
    BY DEF Made, Up
  <2>2. pool[owner[j]] = j \/ \E t \in starter : held[t] = j
    BY DEF NoChildLeaks
  <2>3. pool[owner[j]] = k \/ \E t \in starter : held[t] = k
    BY DEF NoChildLeaks
  <2>4. \A t \in starter : owner[held[t]] = owner[j] => ~Up(pool[owner[j]]) \/ pool[owner[j]] = NoChild
    BY DEF Starting
  <2> QED
    BY <2>1, <2>2, <2>3, <2>4, PoolAssumption DEF Starting
<1> QED
  BY <1>1, PoolInvariance, PTL

\* Every child that is up has somebody who answers for it, and each session
\* one, when a session executes on one thread at a time.
THEOREM ChildrenAreKept ==
    ASSUME OneRunnerEach
    PROVE  PoolSpec => []ChildrenHold
<1>1. NoChildLeaks /\ OneChildPerSession => ChildrenHold
  BY DEF ChildrenHold
<1> QED
  BY <1>1, NothingLeaks, OneChildEach, PTL

-----------------------------------------------------------------------------
(* The protocol with a child.                                               *)

\* A death leaves the child's variables and the calls well typed.
LEMMA DiesType ==
    ASSUME DaemonTypeOK, Dies, UNCHANGED <<outcome, answer, signals, life, data, loaded, history>>
    PROVE  DaemonTypeOK'
<1> USE DEF Dies, DaemonTypeOK, data, history
<1>1. call' \in [Requests -> {"new", "due", "fetched", "connecting", "waiting", "lost", "returned"}]
  OBVIOUS
<1>2. \A r \in Requests : outcome'[r] # "none" <=> call'[r] = "returned"
  OBVIOUS
<1>3. /\ queue' \in Seq(Requests)
      /\ serving' # NoRequest <=> daemon' \in {"busy", "reply"}
  OBVIOUS
<1> QED
  BY <1>1, <1>2, <1>3

\* A step keeps every type.
LEMMA TypeStep ==
    ASSUME DaemonTypeOK, [DaemonNext]_daemonVars
    PROVE  DaemonTypeOK'
<1> USE DaemonAssumption DEF DaemonTypeOK, Requests, Status
<1> USE DEF daemonVars, client, child, signl, data, history
<1>1. ASSUME NEW r \in Reloads, Materialize(r) PROVE DaemonTypeOK'
  BY <1>1 DEF Materialize
<1>2. ASSUME NEW r \in Requests, Fetch(r) PROVE DaemonTypeOK'
  <2>1. /\ UNCHANGED <<outcome, answer, child, signl, life, data, loaded, history>>
        /\ call' = [call EXCEPT ![r] = "fetched"] /\ call[r] \in {"new", "due"}
    BY <1>2 DEF Fetch
  <2>2. of' \in [Requests -> Nat]
    <3>1. PICK k \in (CASE InPool          -> {life}
                      [] daemon = "dead" -> {life, 0}
                      [] OTHER           -> {life - 1, 0}) : of' = [of EXCEPT ![r] = k]
      BY <1>2 DEF Fetch
    <3>2. k \in Nat
      BY <3>1 DEF InPool
    <3> QED
      BY <3>1, <3>2
  <2>3. missed' \subseteq Nat \X Nat
    <3>1. CASE daemon = "loaded"
      <4>1. r \in Reloads
        BY <1>2, <3>1 DEF Fetch, InPool
      <4>2. wants[r] \in Nat /\ life \in Nat /\ missed' \in {missed, missed \cup {<<life, wants[r]>>}}
        BY <1>2, <4>1 DEF Fetch
      <4> QED
        BY <4>2
    <3>2. CASE daemon # "loaded"
      BY <1>2, <3>2 DEF Fetch
    <3> QED
      BY <3>1, <3>2
  <2> QED
    BY <2>1, <2>2, <2>3
<1>3. ASSUME NEW r \in Requests, Lock(r) PROVE DaemonTypeOK'
  BY ZenonT(60), <1>3 DEF Lock, Tell
<1>4. ASSUME NEW r \in Requests, Connect(r) PROVE DaemonTypeOK'
  <2>1. Promised \in SUBSET Nat
    BY DEF Promised
  <2> QED
    BY SMTT(30), <1>4, <2>1 DEF Connect
<1>5. ASSUME NEW r \in Requests, Refuse(r) PROVE DaemonTypeOK'
  BY <1>5 DEF Refuse, Tell
<1>6. ASSUME NEW r \in Requests, TimeOut(r) PROVE DaemonTypeOK'
  BY <1>6 DEF TimeOut, Tell
<1>7. ASSUME NEW r \in Requests, Return(r) PROVE DaemonTypeOK'
  BY <1>7 DEF Return, Tell
<1>8. ASSUME NEW r \in Requests, Lost(r) PROVE DaemonTypeOK'
  BY <1>8 DEF Lost, Tell
<1>9. CASE Accept
  <2>1. Head(queue) \in Requests /\ Tail(queue) \in Seq(Requests)
    BY <1>9 DEF Accept
  <2> QED
    BY <1>9, <2>1 DEF Accept
<1>10. CASE CellEnds
  BY <1>10 DEF CellEnds
<1>11. CASE ReloadEnds
  BY <1>11 DEF ReloadEnds
<1>12. CASE Reply
  BY <1>12 DEF Reply
<1>13. CASE Interrupt
  BY <1>13 DEF Interrupt
<1>14. CASE InterruptsCell
  BY <1>14 DEF InterruptsCell
<1>15. CASE InterruptKills
  BY <1>15, DiesType DEF InterruptKills
<1>16. CASE Crash
  BY <1>16, DiesType DEF Crash
<1>17. CASE StartChild
  BY <1>17 DEF StartChild
<1>18. CASE UNCHANGED daemonVars
  BY <1>18
<1>19. CASE LoadFrames
  BY <1>19 DEF LoadFrames
<1>20. CASE Register
  BY <1>20 DEF Register
<1> QED
  BY <1>1, <1>2, <1>3, <1>4, <1>5, <1>6, <1>7, <1>8, <1>9, <1>10, <1>11, <1>12,
     <1>13, <1>14, <1>15, <1>16, <1>17, <1>18, <1>19, <1>20 DEF DaemonNext, ClientStep, DaemonStep

\* Every variable of the protocol keeps its type; a request has an outcome
\* when it has returned, and the daemon one to serve when it is busy.
THEOREM DaemonTyped == DaemonSpec => []DaemonTypeOK
<1>1. DaemonInit => DaemonTypeOK
  <2> USE DaemonAssumption DEF DaemonTypeOK, Requests, Status
  <2> SUFFICES ASSUME DaemonInit PROVE DaemonTypeOK
    OBVIOUS
  <2> USE DEF DaemonInit
  <2>1. /\ queue \in Seq(Requests) /\ sent \in Seq(Requests) /\ started \in Seq(Requests)
        /\ whole \subseteq Requests
    OBVIOUS
  <2>2. \A r \in Requests : outcome[r] # "none" <=> call[r] = "returned"
    OBVIOUS
  <2>3. serving # NoRequest <=> daemon \in {"busy", "reply"}
    OBVIOUS
  <2>4. signal \in BOOLEAN /\ signals \in 0..MaxSignals
    <3>1. signal \in BOOLEAN
      BY Zenon
    <3>2. signals \in 0..MaxSignals
      OBVIOUS
    <3> QED
      BY <3>1, <3>2
  <2>5. /\ call \in [Requests -> {"new", "due", "fetched", "connecting", "waiting", "lost", "returned"}]
        /\ of \in [Requests -> Nat]
        /\ outcome \in [Requests -> Status \cup {"none", "timeout", "refused", "gone"}]
        /\ answer \in [Requests -> Status \cup {"none"}]
    OBVIOUS
  <2>6. /\ wants \in [Reloads -> Nat]
        /\ need \in [Cells -> SUBSET Nat] /\ ranOn \in [Cells -> Nat]
        /\ missed \subseteq Nat \X Nat
    OBVIOUS
  <2>7. /\ daemon \in {"dead", "booting", "loaded", "accept", "busy", "reply"}
        /\ serving \in Requests \cup {NoRequest}
        /\ verdict \in Status \cup {"none"}
        /\ life \in Nat /\ disk \in Nat /\ loaded \in Nat
    OBVIOUS
  <2> QED
    BY <2>1, <2>2, <2>3, <2>4, <2>5, <2>6, <2>7
<1>2. DaemonTypeOK /\ [DaemonNext]_daemonVars => DaemonTypeOK'
  BY TypeStep
<1> QED
  BY <1>1, <1>2, PTL DEF DaemonSpec

-----------------------------------------------------------------------------
(* Steps run in the order they were sent.                                   *)

Early == {"new", "due", "fetched", "connecting"}

\* What is in the backlog, and what the daemon took up, was sent, once each
\* and in this order: first what was taken up, then the backlog.
OrderInv ==
    /\ \A r \in Requests : call[r] \in Early => \A i \in DOMAIN sent : sent[i] # r
    /\ \A i, j \in DOMAIN sent : sent[i] = sent[j] => i = j
    /\ \A i \in DOMAIN queue : \E j \in DOMAIN sent : queue[i] = sent[j]
    /\ \A i \in DOMAIN started : \E j \in DOMAIN sent : started[i] = sent[j]
    /\ \A i, j \in DOMAIN queue : i < j => Before(sent, queue[i], queue[j])
    /\ \A i \in DOMAIN started, j \in DOMAIN queue : Before(sent, started[i], queue[j])
    /\ \A i, j \in DOMAIN started : i < j => Before(sent, started[i], started[j])

\* Nothing is late when nothing is sent or taken up.
LEMMA OrderKept ==
    ASSUME DaemonTypeOK, OrderInv, UNCHANGED <<started, sent>>, queue' \in {queue, <<>>},
           \A r \in Requests : call'[r] \in Early => call[r] \in Early
    PROVE  OrderInv'
BY DEF OrderInv, Before

\* A longer sequence keeps the order of the shorter one.
LEMMA BeforeAppend ==
    ASSUME NEW R, NEW s \in Seq(R), NEW x \in R, NEW a, NEW b, Before(s, a, b)
    PROVE  Before(Append(s, x), a, b)
<1>1. PICK i, j \in DOMAIN s : i < j /\ s[i] = a /\ s[j] = b
  BY DEF Before
<1>2. /\ i \in DOMAIN Append(s, x) /\ j \in DOMAIN Append(s, x)
      /\ Append(s, x)[i] = a /\ Append(s, x)[j] = b
  BY <1>1
<1> QED
  BY <1>1, <1>2 DEF Before

\* Its new last element comes after all others.
LEMMA BeforeLast ==
    ASSUME NEW R, NEW s \in Seq(R), NEW x \in R, NEW i \in DOMAIN s
    PROVE  Before(Append(s, x), s[i], x)
<1>1. /\ i \in DOMAIN Append(s, x) /\ Append(s, x)[i] = s[i]
      /\ Len(s) + 1 \in DOMAIN Append(s, x) /\ Append(s, x)[Len(s) + 1] = x
      /\ i < Len(s) + 1
  OBVIOUS
<1> QED
  BY <1>1 DEF Before

\* A new connection goes to the end of both sequences.
LEMMA OrderConnect ==
    ASSUME DaemonTypeOK, OrderInv, NEW r \in Requests, Connect(r)
    PROVE  OrderInv'
<1> USE DEF Connect, DaemonTypeOK
<1>1. /\ sent \in Seq(Requests) /\ sent' = Append(sent, r)
      /\ queue \in Seq(Requests) /\ queue' = Append(queue, r)
      /\ started' = started /\ \A i \in DOMAIN sent : sent[i] # r
  BY DEF OrderInv, Early
<1>2. \A q \in Requests : call'[q] \in Early => \A i \in DOMAIN sent' : sent'[i] # q
  BY <1>1 DEF OrderInv, Early
<1>3. \A i, j \in DOMAIN sent' : sent'[i] = sent'[j] => i = j
  BY <1>1 DEF OrderInv
<1>4. \A i \in DOMAIN sent : i \in DOMAIN sent' /\ sent'[i] = sent[i]
  BY <1>1
<1>5. Len(sent) + 1 \in DOMAIN sent' /\ sent'[Len(sent) + 1] = r
  BY <1>1
<1>5a. \A i \in DOMAIN queue' : i \in DOMAIN queue \/ queue'[i] = r
  <2>1. /\ DOMAIN queue = 1..Len(queue) /\ Len(queue) \in Nat
        /\ DOMAIN Append(queue, r) = 1..(Len(queue) + 1)
        /\ Append(queue, r)[Len(queue) + 1] = r
    BY <1>1
  <2> QED
    BY <1>1, <2>1
<1>6. \A i \in DOMAIN queue' : \E j \in DOMAIN sent' : queue'[i] = sent'[j]
  <2> TAKE i \in DOMAIN queue'
  <2>1. CASE i \in DOMAIN queue
    <3>1. PICK j \in DOMAIN sent : queue[i] = sent[j]
      BY <2>1 DEF OrderInv
    <3> QED
      BY <1>1, <1>4, <2>1, <3>1
  <2>2. CASE i \notin DOMAIN queue
    BY <1>5, <1>5a, <2>2
  <2> QED
    BY <2>1, <2>2
<1>7. \A i \in DOMAIN started' : \E j \in DOMAIN sent' : started'[i] = sent'[j]
  BY <1>1, <1>4 DEF OrderInv
<1>8. \A i, j \in DOMAIN queue' : i < j => Before(sent', queue'[i], queue'[j])
  <2> SUFFICES ASSUME NEW i \in DOMAIN queue', NEW j \in DOMAIN queue', i < j
               PROVE  Before(sent', queue'[i], queue'[j])
    OBVIOUS
  <2>1. i \in DOMAIN queue /\ queue'[i] = queue[i]
    BY <1>1
  <2>2. CASE j \in DOMAIN queue
    <3>1. Before(sent, queue[i], queue[j])
      BY <2>1, <2>2 DEF OrderInv
    <3>2. queue'[j] = queue[j]
      BY <1>1, <2>2
    <3> QED
      BY <1>1, <2>1, <3>1, <3>2, BeforeAppend
  <2>3. CASE j \notin DOMAIN queue
    <3>1. queue'[j] = r
      BY <1>5a, <2>3
    <3>2. PICK k \in DOMAIN sent : queue[i] = sent[k]
      BY <2>1 DEF OrderInv
    <3> QED
      BY <1>1, <2>1, <3>1, <3>2, BeforeLast
  <2> QED
    BY <2>2, <2>3
<1>9. \A i \in DOMAIN started', j \in DOMAIN queue' : Before(sent', started'[i], queue'[j])
  <2> SUFFICES ASSUME NEW i \in DOMAIN started, NEW j \in DOMAIN queue'
               PROVE  Before(sent', started[i], queue'[j])
    BY <1>1
  <2>1. CASE j \in DOMAIN queue
    <3>1. Before(sent, started[i], queue[j])
      BY <2>1 DEF OrderInv
    <3>2. queue'[j] = queue[j]
      BY <1>1, <2>1
    <3> QED
      BY <1>1, <3>1, <3>2, BeforeAppend
  <2>2. CASE j \notin DOMAIN queue
    <3>1. queue'[j] = r
      BY <1>5a, <2>2
    <3>2. PICK k \in DOMAIN sent : started[i] = sent[k]
      BY DEF OrderInv
    <3> QED
      BY <1>1, <3>1, <3>2, BeforeLast
  <2> QED
    BY <2>1, <2>2
<1>10. \A i, j \in DOMAIN started' : i < j => Before(sent', started'[i], started'[j])
  <2> SUFFICES ASSUME NEW i \in DOMAIN started, NEW j \in DOMAIN started, i < j
               PROVE  Before(sent', started[i], started[j])
    BY <1>1
  <2>1. Before(sent, started[i], started[j])
    BY DEF OrderInv
  <2> QED
    BY <1>1, <2>1, BeforeAppend
<1> QED
  BY <1>2, <1>3, <1>6, <1>7, <1>8, <1>9, <1>10 DEF OrderInv

\* The oldest connection is the next in order.
LEMMA OrderAccept ==
    ASSUME DaemonTypeOK, OrderInv, Accept
    PROVE  OrderInv'
<1> USE DEF DaemonTypeOK
<1>1. /\ queue \in Seq(Requests) /\ queue # <<>> /\ queue' = Tail(queue)
      /\ started \in Seq(Requests) /\ started' = Append(started, queue[1])
      /\ sent' = sent /\ call' = call
  BY DEF Accept, client
<1>2. \A i \in DOMAIN queue' : i + 1 \in DOMAIN queue /\ queue'[i] = queue[i + 1]
  BY <1>1
<1>3. 1 \in DOMAIN queue
  BY <1>1
<1>4. \A i \in DOMAIN started' :
          \/ i \in DOMAIN started /\ started'[i] = started[i]
          \/ i = Len(started) + 1 /\ started'[i] = queue[1]
  BY <1>1
<1>5. \A i \in DOMAIN started' : \E j \in DOMAIN sent' : started'[i] = sent'[j]
  <2> SUFFICES ASSUME NEW i \in DOMAIN started'
               PROVE  \E j \in DOMAIN sent : started'[i] = sent[j]
    BY <1>1
  <2>1. CASE i \in DOMAIN started /\ started'[i] = started[i]
    BY <2>1 DEF OrderInv
  <2>2. CASE started'[i] = queue[1]
    BY <1>3, <2>2 DEF OrderInv
  <2> QED
    BY <1>4, <2>1, <2>2
<1>6. \A i \in DOMAIN queue' : \E j \in DOMAIN sent' : queue'[i] = sent'[j]
  BY <1>1, <1>2 DEF OrderInv
<1>7. \A i, j \in DOMAIN queue' : i < j => Before(sent', queue'[i], queue'[j])
  <2> SUFFICES ASSUME NEW i \in DOMAIN queue', NEW j \in DOMAIN queue', i < j
               PROVE  Before(sent, queue[i + 1], queue[j + 1])
    BY <1>1, <1>2
  <2>1. i + 1 \in DOMAIN queue /\ j + 1 \in DOMAIN queue /\ i + 1 < j + 1
    BY <1>1, <1>2
  <2> QED
    BY <2>1 DEF OrderInv
<1>8. \A i \in DOMAIN started', j \in DOMAIN queue' : Before(sent', started'[i], queue'[j])
  <2> SUFFICES ASSUME NEW i \in DOMAIN started', NEW j \in DOMAIN queue'
               PROVE  Before(sent, started'[i], queue[j + 1])
    BY <1>1, <1>2
  <2>1. j + 1 \in DOMAIN queue /\ 1 < j + 1
    BY <1>1, <1>2
  <2>2. CASE i \in DOMAIN started /\ started'[i] = started[i]
    BY <2>1, <2>2 DEF OrderInv
  <2>3. CASE i = Len(started) + 1 /\ started'[i] = queue[1]
    BY <1>3, <2>1, <2>3 DEF OrderInv
  <2> QED
    BY <1>4, <2>2, <2>3
<1>9. \A i, j \in DOMAIN started' : i < j => Before(sent', started'[i], started'[j])
  <2> SUFFICES ASSUME NEW i \in DOMAIN started', NEW j \in DOMAIN started', i < j
               PROVE  Before(sent, started'[i], started'[j])
    BY <1>1
  <2>1. i \in DOMAIN started /\ started'[i] = started[i]
    BY <1>1
  <2>2. CASE j \in DOMAIN started /\ started'[j] = started[j]
    BY <2>1, <2>2 DEF OrderInv
  <2>3. CASE j = Len(started) + 1 /\ started'[j] = queue[1]
    BY <1>3, <2>1, <2>3 DEF OrderInv
  <2> QED
    BY <1>4, <2>2, <2>3
<1> QED
  BY ZenonT(60), <1>1, <1>5, <1>6, <1>7, <1>8, <1>9 DEF OrderInv

\* No step breaks the order.
LEMMA OrderStep ==
    ASSUME DaemonTypeOK, OrderInv, [DaemonNext]_daemonVars
    PROVE  OrderInv'
<1> USE DEF Early, client, child, signl, data, history
<1>1. ASSUME NEW r \in Reloads, Materialize(r) PROVE OrderInv'
  BY <1>1, OrderKept DEF Materialize, DaemonTypeOK
<1>2. ASSUME NEW r \in Requests, Fetch(r) PROVE OrderInv'
  BY <1>2, OrderKept DEF Fetch, DaemonTypeOK
<1>3. ASSUME NEW r \in Requests, Lock(r) PROVE OrderInv'
  BY <1>3, OrderKept DEF Lock, Tell, DaemonTypeOK
<1>4. ASSUME NEW r \in Requests, Connect(r) PROVE OrderInv'
  BY <1>4, OrderConnect
<1>5. ASSUME NEW r \in Requests, Refuse(r) \/ TimeOut(r) \/ Return(r) \/ Lost(r) PROVE OrderInv'
  BY <1>5, OrderKept DEF Refuse, TimeOut, Return, Lost, Tell, DaemonTypeOK
<1>6. CASE Accept
  BY <1>6, OrderAccept
<1>7. CASE CellEnds \/ ReloadEnds \/ Reply
  BY <1>7, OrderKept DEF CellEnds, ReloadEnds, Reply
<1>8. CASE Interrupt \/ InterruptsCell \/ StartChild \/ LoadFrames \/ Register
  BY <1>8, OrderKept DEF Interrupt, InterruptsCell, StartChild, LoadFrames, Register
<1>9. CASE InterruptKills \/ Crash
  <2>1. /\ UNCHANGED <<started, sent>> /\ queue' = <<>>
        /\ \A r \in Requests : call'[r] \in Early => call[r] \in Early
    BY <1>9 DEF InterruptKills, Crash, Dies
  <2> QED
    BY <2>1, OrderKept
<1>10. CASE UNCHANGED daemonVars
  BY <1>10, OrderKept DEF daemonVars
<1> QED
  BY <1>1, <1>2, <1>3, <1>4, <1>5, <1>6, <1>7, <1>8, <1>9, <1>10
     DEF DaemonNext, ClientStep, DaemonStep

\* The daemon takes the steps up in the order they were sent, each once,
\* however many callers gave up and however often the child was replaced.
THEOREM InOrder == DaemonSpec => []RunInOrder
<1>1. DaemonInit => OrderInv
  BY DEF DaemonInit, OrderInv
<1>2. DaemonTypeOK /\ OrderInv => RunInOrder
  <2> SUFFICES ASSUME DaemonTypeOK, OrderInv, NEW i \in DOMAIN started, NEW j \in DOMAIN started, i < j
               PROVE  started[i] # started[j]
    BY DEF OrderInv, RunInOrder
  <2>1. PICK k, l \in DOMAIN sent : k < l /\ sent[k] = started[i] /\ sent[l] = started[j]
    BY DEF OrderInv, Before
  <2>2. k # l
    <3>1. sent \in Seq(Requests) /\ k \in Nat /\ l \in Nat
      BY SMTT(30), <2>1 DEF DaemonTypeOK
    <3> QED
      BY <2>1, <3>1
  <2> QED
    BY <2>1, <2>2 DEF OrderInv
<1>3. DaemonTypeOK /\ OrderInv /\ [DaemonNext]_daemonVars => OrderInv'
  BY OrderStep
<1> QED
  BY <1>1, <1>2, <1>3, DaemonTyped, PTL DEF DaemonSpec

-----------------------------------------------------------------------------
(* A caller is told about its own request.                                  *)

Taken(r) == \E i \in DOMAIN started : started[i] = r

\* What a status says of a request.
Tells(status, r) ==
    /\ status \in {"ok", "error"} => r \in whole
    /\ status = "interrupted" => r \notin whole

\* What was told, what waits in a socket and what will be replied is true of
\* the request it is for; the step under way has told nobody anything yet.
OwnInv ==
    /\ \A r \in Requests : r \in whole \/ answer[r] # "none" \/ outcome[r] \in Status => Taken(r)
    /\ \A r \in Requests : Tells(outcome[r], r) /\ Tells(answer[r], r)
    /\ \A r \in Requests : outcome[r] = "refused" => \A i \in DOMAIN sent : sent[i] # r
    /\ serving # NoRequest => Taken(serving)
    /\ daemon = "reply" => Tells(verdict, serving)
    /\ daemon = "busy" => /\ serving \notin whole
                          /\ answer[serving] = "none"
                          /\ outcome[serving] \notin Status

\* What the client does before it connects, and a death, tell nothing.
LEMMA OwnKept ==
    ASSUME DaemonTypeOK, OwnInv, UNCHANGED <<outcome, answer, started, sent, whole>>,
           \/ UNCHANGED <<daemon, serving, verdict>>
           \/ daemon' \in {"dead", "booting", "loaded", "accept"} /\ serving' \in {serving, NoRequest}
    PROVE  OwnInv'
BY DEF OwnInv, Tells, Taken

\* A caller that is told something it was not told by the daemon.
LEMMA OwnTold ==
    ASSUME DaemonTypeOK, OwnInv, NEW r \in Requests, NEW what \in {"timeout", "gone", "refused"},
           Tell(r, what), what = "refused" => \A i \in DOMAIN sent : sent[i] # r,
           UNCHANGED <<answer, child, started, sent, whole>>
    PROVE  OwnInv'
<1> USE DEF Tell, OwnInv, child, DaemonTypeOK
<1>1. outcome'[r] = what /\ \A q \in Requests : q # r => outcome'[q] = outcome[q]
  OBVIOUS
<1>2. what \notin Status /\ Status = {"ok", "error", "interrupted"}
  BY DEF Status
<1>3. \A q \in Requests : q \in whole' \/ answer'[q] # "none" \/ outcome'[q] \in Status => Taken(q)'
  BY <1>1, <1>2 DEF Taken
<1>4. \A q \in Requests : Tells(outcome[q], q)' /\ Tells(answer[q], q)'
  BY <1>1, <1>2 DEF Tells
<1>5. \A q \in Requests : outcome'[q] = "refused" => \A i \in DOMAIN sent' : sent'[i] # q
  BY <1>1
<1>6. /\ serving' # NoRequest => Taken(serving)'
      /\ daemon' = "reply" => Tells(verdict, serving)'
  BY DEF Taken, Tells
<1>7. daemon' = "busy" => /\ serving' \notin whole'
                          /\ answer'[serving'] = "none"
                          /\ outcome'[serving'] \notin Status
  BY <1>1, <1>2
<1> QED
  BY <1>3, <1>4, <1>5, <1>6, <1>7

\* A caller that reads the daemon's reply.
LEMMA OwnReturn ==
    ASSUME DaemonTypeOK, OwnInv, NEW r \in Requests, Return(r)
    PROVE  OwnInv'
<1> USE DEF Return, Tell, OwnInv, child, history, DaemonTypeOK
<1>1. outcome'[r] = answer[r] /\ \A q \in Requests : q # r => outcome'[q] = outcome[q]
  OBVIOUS
<1>2. answer[r] \in Status /\ Status = {"ok", "error", "interrupted"}
  BY DEF Status
<1>3. \A q \in Requests : q \in whole' \/ answer'[q] # "none" \/ outcome'[q] \in Status => Taken(q)'
  BY <1>1, <1>2 DEF Taken
<1>4. \A q \in Requests : Tells(outcome[q], q)' /\ Tells(answer[q], q)'
  BY <1>1, <1>2 DEF Tells
<1>5. \A q \in Requests : outcome'[q] = "refused" => \A i \in DOMAIN sent' : sent'[i] # q
  BY <1>1, <1>2
<1>6. /\ serving' # NoRequest => Taken(serving)'
      /\ daemon' = "reply" => Tells(verdict, serving)'
  BY DEF Taken, Tells
<1>7. daemon' = "busy" => /\ serving' \notin whole'
                          /\ answer'[serving'] = "none"
                          /\ outcome'[serving'] \notin Status
  BY <1>1, <1>2
<1> QED
  BY <1>3, <1>4, <1>5, <1>6, <1>7

\* A connection that is made is of a request nobody has been told of.
LEMMA OwnConnect ==
    ASSUME DaemonTypeOK, OwnInv, NEW r \in Requests, Connect(r)
    PROVE  OwnInv'
<1> USE DEF Connect, OwnInv, DaemonTypeOK
<1>1. /\ outcome' = outcome /\ answer' = answer /\ started' = started /\ whole' = whole
      /\ daemon' = daemon /\ serving' = serving /\ verdict' = verdict
  OBVIOUS
<1>2. outcome[r] = "none"
  OBVIOUS
<1>3. \A q \in Requests : outcome'[q] = "refused" => \A i \in DOMAIN sent' : sent'[i] # q
  <2> SUFFICES ASSUME NEW q \in Requests, outcome[q] = "refused", NEW i \in DOMAIN sent'
               PROVE  sent'[i] # q
    BY <1>1
  <2>1. q # r /\ \A j \in DOMAIN sent : sent[j] # q
    BY <1>2
  <2>2. sent \in Seq(Requests) /\ sent' = Append(sent, r)
    OBVIOUS
  <2>3. (i \in DOMAIN sent /\ sent'[i] = sent[i]) \/ sent'[i] = r
    BY SMTT(60), <2>2
  <2> QED
    BY <2>1, <2>3
<1> QED
  BY <1>1, <1>3 DEF Taken, Tells

\* The request taken up has not been taken up before.
LEMMA OwnAccept ==
    ASSUME DaemonTypeOK, OrderInv, OwnInv, Accept
    PROVE  OwnInv'
<1> DEFINE r == queue[1]
<1>1. /\ queue \in Seq(Requests) /\ queue # <<>> /\ r \in Requests /\ 1 \in DOMAIN queue
      /\ serving' = r /\ daemon' = "busy"
      /\ started \in Seq(Requests) /\ started' = Append(started, r)
      /\ UNCHANGED <<outcome, answer, sent, whole>>
  BY DEF Accept, DaemonTypeOK, client
<1>2. ~Taken(r)
  <2> SUFFICES ASSUME NEW i \in DOMAIN started, started[i] = r PROVE FALSE
    BY DEF Taken
  <2>1. PICK k, l \in DOMAIN sent : k < l /\ sent[k] = r /\ sent[l] = r
    BY <1>1 DEF OrderInv, Before
  <2>2. k # l
    <3>1. k \in Nat /\ l \in Nat
      BY SMTT(30), <2>1 DEF DaemonTypeOK
    <3> QED
      BY <2>1, <3>1
  <2> QED
    BY <2>1, <2>2 DEF OrderInv
<1>3. r \notin whole /\ answer[r] = "none" /\ outcome[r] \notin Status
  BY <1>1, <1>2 DEF OwnInv
<1>4. \A q \in Requests : Taken(q) => Taken(q)'
  BY <1>1 DEF Taken
<1>5. Taken(serving)'
  <2>1. Len(started) + 1 \in DOMAIN started' /\ started'[Len(started) + 1] = serving'
    BY <1>1
  <2> QED
    BY <2>1 DEF Taken
<1>6. \A q \in Requests : q \in whole' \/ answer'[q] # "none" \/ outcome'[q] \in Status => Taken(q)'
  BY <1>1, <1>4 DEF OwnInv
<1>7. \A q \in Requests : Tells(outcome[q], q)' /\ Tells(answer[q], q)'
  BY <1>1 DEF OwnInv, Tells
<1>8. \A q \in Requests : outcome'[q] = "refused" => \A i \in DOMAIN sent' : sent'[i] # q
  BY <1>1 DEF OwnInv
<1>9. daemon' = "busy" /\ serving' \notin whole' /\ answer'[serving'] = "none"
         /\ outcome'[serving'] \notin Status
  BY <1>1, <1>3
<1> HIDE DEF r
<1> QED
  BY <1>5, <1>6, <1>7, <1>8, <1>9 DEF OwnInv

\* A cell ends, is interrupted, or the datasets have been read.
LEMMA OwnVerdict ==
    ASSUME DaemonTypeOK, OwnInv, CellEnds \/ ReloadEnds \/ InterruptsCell
    PROVE  OwnInv'
<1> USE DEF CellEnds, ReloadEnds, InterruptsCell, client, history
<1>1. /\ daemon = "busy" /\ daemon' = "reply" /\ serving \in Requests /\ serving' = serving
      /\ UNCHANGED <<outcome, answer, started, sent>>
  BY DEF Requests
<1>2. \/ whole' = whole \cup {serving} /\ verdict' # "interrupted"
      \/ whole' = whole /\ verdict' = "interrupted"
  OBVIOUS
<1>3. Taken(serving) /\ serving \notin whole /\ answer[serving] = "none" /\ outcome[serving] \notin Status
  BY <1>1, DaemonAssumption DEF OwnInv, DaemonTypeOK
<1>4. Tells(verdict, serving)'
  BY <1>1, <1>2, <1>3 DEF Tells
<1>5. \A q \in Requests : Tells(outcome[q], q)' /\ Tells(answer[q], q)'
  <2> TAKE q \in Requests
  <2>1. CASE q = serving
    <3>1. answer'[q] = "none" /\ outcome'[q] \notin {"ok", "error", "interrupted"}
      BY <1>1, <1>3, <2>1 DEF Status
    <3> QED
      BY <3>1 DEF Tells
  <2>2. CASE q # serving
    BY <1>1, <1>2, <2>2 DEF OwnInv, Tells
  <2> QED
    BY <2>1, <2>2
<1>6. \A q \in Requests : Taken(q) => Taken(q)'
  BY <1>1 DEF Taken
<1>7. Taken(serving)'
  BY <1>1, <1>3 DEF Taken
<1>8. \A q \in Requests : q \in whole' \/ answer'[q] # "none" \/ outcome'[q] \in Status => Taken(q)'
  BY <1>1, <1>2, <1>3, <1>6 DEF OwnInv
<1> QED
  BY <1>1, <1>4, <1>5, <1>7, <1>8 DEF OwnInv

\* The reply goes into the socket of the request it is about.
LEMMA OwnReply ==
    ASSUME DaemonTypeOK, OwnInv, Reply
    PROVE  OwnInv'
<1> USE DEF Reply, client, history
<1>1. /\ daemon = "reply" /\ daemon' = "accept" /\ serving' = NoRequest
      /\ UNCHANGED <<outcome, started, sent, whole>>
      /\ \A q \in Requests : answer'[q] = answer[q] \/ (q = serving /\ answer'[q] = verdict)
  BY DEF DaemonTypeOK
<1>2. serving # NoRequest /\ Taken(serving) /\ Tells(verdict, serving)
  BY <1>1 DEF OwnInv, DaemonTypeOK
<1>3. \A q \in Requests : Tells(outcome[q], q)' /\ Tells(answer[q], q)'
  BY <1>1, <1>2 DEF OwnInv, Tells
<1>4. \A q \in Requests : q \in whole' \/ answer'[q] # "none" \/ outcome'[q] \in Status => Taken(q)'
  BY <1>1, <1>2 DEF OwnInv, Taken
<1> QED
  BY <1>1, <1>3, <1>4 DEF OwnInv

\* No step tells a caller what is not so.
LEMMA OwnStep ==
    ASSUME DaemonTypeOK, OrderInv, OwnInv, [DaemonNext]_daemonVars
    PROVE  OwnInv'
<1> USE DEF client, child, signl, data, history
<1>1. ASSUME NEW r \in Reloads, Materialize(r) PROVE OwnInv'
  BY <1>1, OwnKept DEF Materialize
<1>2. ASSUME NEW r \in Requests, Fetch(r) PROVE OwnInv'
  BY <1>2, OwnKept DEF Fetch
<1>3. ASSUME NEW r \in Requests, Lock(r) PROVE OwnInv'
  <2>1. CASE Tell(r, "gone")
    BY <1>3, <2>1, OwnTold DEF Lock
  <2>2. CASE UNCHANGED <<of, outcome>>
    BY <1>3, <2>2, OwnKept DEF Lock
  <2> QED
    BY <1>3, <2>1, <2>2 DEF Lock
<1>4. ASSUME NEW r \in Requests, Connect(r) PROVE OwnInv'
  BY <1>4, OwnConnect
<1>5. ASSUME NEW r \in Requests, Refuse(r) PROVE OwnInv'
  <2>1. \A i \in DOMAIN sent : sent[i] # r
    BY <1>5 DEF Refuse, OrderInv, Early
  <2>2. Tell(r, "refused") /\ UNCHANGED <<answer, child, started, sent, whole>>
    BY <1>5 DEF Refuse
  <2> QED
    BY <2>1, <2>2, OwnTold
<1>6. ASSUME NEW r \in Requests, TimeOut(r) PROVE OwnInv'
  <2>1. Tell(r, "timeout") /\ UNCHANGED <<answer, child, started, sent, whole>>
    BY <1>6 DEF TimeOut
  <2> QED
    BY <2>1, OwnTold
<1>7. ASSUME NEW r \in Requests, Return(r) PROVE OwnInv'
  BY <1>7, OwnReturn
<1>8. ASSUME NEW r \in Requests, Lost(r) PROVE OwnInv'
  <2>1. Tell(r, "gone") /\ UNCHANGED <<answer, child, started, sent, whole>>
    BY <1>8 DEF Lost
  <2> QED
    BY <2>1, OwnTold
<1>9. CASE Accept
  BY <1>9, OwnAccept
<1>10. CASE CellEnds \/ ReloadEnds \/ InterruptsCell
  BY <1>10, OwnVerdict
<1>11. CASE Reply
  BY <1>11, OwnReply
<1>12. CASE Interrupt
  BY <1>12, OwnKept DEF Interrupt
<1>13. CASE InterruptKills \/ Crash
  <2>1. /\ UNCHANGED <<outcome, answer, started, sent, whole>>
        /\ daemon' = "dead" /\ serving' = NoRequest
    BY <1>13 DEF InterruptKills, Crash, Dies
  <2> QED
    BY <2>1, OwnKept
<1>14. CASE StartChild \/ LoadFrames \/ Register
  BY <1>14, OwnKept DEF StartChild, LoadFrames, Register
<1>15. CASE UNCHANGED daemonVars
  BY <1>15, OwnKept DEF daemonVars
<1> QED
  BY <1>1, <1>2, <1>3, <1>4, <1>5, <1>6, <1>7, <1>8, <1>9, <1>10, <1>11, <1>12, <1>13,
     <1>14, <1>15 DEF DaemonNext, ClientStep, DaemonStep

\* No late reply of a step that was given up is taken for the answer to the
\* next one, and "refused" is said only of a step that never ran.
THEOREM OwnAnswers == DaemonSpec => []AnswersAreOwn
<1>1. DaemonInit => OrderInv /\ OwnInv
  BY DEF DaemonInit, OrderInv, OwnInv, Tells, Taken, Status
<1>2. OwnInv => AnswersAreOwn
  BY DEF OwnInv, AnswersAreOwn, Tells
<1>3. DaemonTypeOK /\ OrderInv /\ OwnInv /\ [DaemonNext]_daemonVars => OrderInv' /\ OwnInv'
  BY OrderStep, OwnStep
<1> QED
  BY <1>1, <1>2, <1>3, DaemonTyped, PTL DEF DaemonSpec

-----------------------------------------------------------------------------
(* A step runs on the data it is entitled to.                               *)

\* The reload is over, as far as its caller can tell, or is beyond recall.
Counts(s) ==
    \/ call[s] \in {"waiting", "lost"}
    \/ call[s] = "returned" /\ outcome[s] \in {"ok", "timeout", "gone"}
    \/ call[s] = "fetched" /\ of[s] # life

\* What it changed is loaded, or will be before the daemon takes anything else, unless the present
\* child missed it.
Delivered(s) ==
    \/ daemon \in {"dead", "booting"}
    \/ wants[s] <= loaded
    \/ <<life, wants[s]>> \in missed
    \/ \E i \in DOMAIN queue : queue[i] = s
    \/ daemon = "busy" /\ serving = s

\* Version v is loaded before the connection at place i is taken up, or missed.
InTime(v, i) ==
    \/ v <= loaded
    \/ <<life, v>> \in missed
    \/ daemon = "busy" /\ serving \in Reloads
    \/ \E j \in DOMAIN queue : j < i /\ queue[j] \in Reloads

\* The workspace has the newest data; who connects has the child that the pool has; every reload that
\* counts is delivered, in time for the cells behind it.
DataInv ==
    /\ loaded <= disk /\ \A s \in Reloads : wants[s] <= disk
    /\ \A c \in Cells : \A v \in need[c] : v <= disk
    /\ \A r \in Requests : call[r] = "connecting" => InPool /\ of[r] = life
    /\ \A r \in Requests : call[r] = "fetched" /\ of[r] = life => daemon = "dead" \/ InPool
    /\ \A r \in Requests : of[r] <= life
    /\ queue # <<>> => InPool
    /\ \A i \in DOMAIN queue : of[queue[i]] = life
    /\ \A s \in Reloads : Counts(s) => Delivered(s)
    /\ \A i \in DOMAIN queue : queue[i] \in Cells => \A v \in need[queue[i]] : InTime(v, i)
    /\ CellsSeeTheirData

\* Nothing is connected, taken up or loaded, and no child is begun.
LEMMA DataKept ==
    ASSUME DaemonTypeOK, OrderInv, DataInv,
           UNCHANGED <<disk, wants, loaded, queue, started, need, ranOn, life>>, missed \subseteq missed',
           \A r \in Requests : of'[r] = of[r] \/ (call[r] \in Early /\ of'[r] <= life),
           \A r \in Requests : call'[r] = "connecting" => InPool' /\ of'[r] = life,
           \A r \in Requests : call'[r] = "fetched" /\ of'[r] = life => daemon' = "dead" \/ InPool',
           \A s \in Reloads : Counts(s)' => Counts(s) \/ Delivered(s)',
           \/ UNCHANGED <<daemon, serving>>
           \/ daemon = "busy" /\ serving \in Cells /\ daemon' = "reply"
           \/ daemon \in {"reply", "loaded"} /\ daemon' = "accept"
    PROVE  DataInv'
<1> USE DaemonAssumption DEF DaemonTypeOK
<1>1. \A s \in Reloads : Delivered(s) => Delivered(s)'
  BY DEF Delivered
<1>2. \A s \in Reloads : Counts(s)' => Delivered(s)'
  BY <1>1 DEF DataInv
<1>3. \A i \in DOMAIN queue' : queue'[i] \in Cells => \A v \in need'[queue'[i]] : InTime(v, i)'
  BY DEF InTime, DataInv
<1>4. /\ \A i \in DOMAIN queue : queue[i] \in Requests /\ of'[queue[i]] = of[queue[i]]
      /\ \A i \in DOMAIN started : started[i] \in Requests /\ of'[started[i]] = of[started[i]]
  <2>1. /\ \A i \in DOMAIN queue : queue[i] \in Requests /\ call[queue[i]] \notin Early
        /\ \A i \in DOMAIN started : started[i] \in Requests /\ call[started[i]] \notin Early
    BY DEF OrderInv
  <2> QED
    BY <2>1
<1>5. CellsSeeTheirData'
  BY <1>4 DEF CellsSeeTheirData, DataInv
<1>6. InPool => InPool'
  BY DEF InPool
<1>7. \A r \in Requests : of'[r] <= life'
  BY DEF DataInv
<1> QED
  BY <1>2, <1>3, <1>4, <1>5, <1>6, <1>7 DEF DataInv

\* The datasets in the workspace change.
LEMMA DataMaterialize ==
    ASSUME DaemonTypeOK, DataInv, NEW s \in Reloads, Materialize(s)
    PROVE  DataInv'
<1> USE DEF DaemonTypeOK
<1>1. /\ disk' \in {disk, disk + 1} /\ disk \in Nat /\ loaded \in Nat
      /\ UNCHANGED <<loaded, queue, started, need, ranOn, daemon, serving, of, outcome, life, missed>>
      /\ call'[s] = "due" /\ s \in Requests
      /\ \A r \in Requests : r # s => call'[r] = call[r]
      /\ \A q \in Reloads : q # s => wants'[q] = wants[q]
      /\ wants'[s] = disk'
  BY DEF Materialize, child, history, Requests
<1>2. loaded' <= disk' /\ \A q \in Reloads : wants'[q] <= disk'
  <2>1. disk <= disk' /\ loaded <= disk /\ disk' \in Nat
    BY <1>1 DEF DataInv
  <2>2. ASSUME NEW q \in Reloads, q # s PROVE wants'[q] <= disk'
    <3>1. wants'[q] = wants[q] /\ wants[q] <= disk /\ wants[q] \in Nat
      BY <1>1, <2>2 DEF DataInv
    <3> QED
      BY <2>1, <1>1, <3>1
  <2> QED
    BY <1>1, <2>1, <2>2
<1>3. \A c \in Cells : \A v \in need'[c] : v <= disk'
  BY <1>1 DEF DataInv
<1>4. \A q \in Reloads : Counts(q)' => Delivered(q)'
  BY <1>1 DEF Counts, Delivered, Requests, DataInv
<1>5. \A i \in DOMAIN queue' : queue'[i] \in Cells => \A v \in need'[queue'[i]] : InTime(v, i)'
  BY <1>1 DEF InTime, DataInv
<1>6. \A r \in Requests : /\ call'[r] = "connecting" => InPool' /\ of'[r] = life'
                          /\ call'[r] = "fetched" /\ of'[r] = life' => daemon' = "dead" \/ InPool'
                          /\ of'[r] <= life'
  BY <1>1 DEF InPool, DataInv
<1>7. queue' # <<>> => InPool'
  BY <1>1 DEF InPool, DataInv
<1>8. CellsSeeTheirData' /\ \A i \in DOMAIN queue' : of'[queue'[i]] = life'
  BY <1>1 DEF CellsSeeTheirData, DataInv
<1> QED
  BY <1>2, <1>3, <1>4, <1>5, <1>6, <1>7, <1>8 DEF DataInv

\* A connection is made: what its cell is entitled to is loaded or ahead of it.
LEMMA DataConnect ==
    ASSUME DaemonTypeOK, OrderInv, DataInv, NEW r \in Requests, Connect(r)
    PROVE  DataInv'
<1> USE DEF DaemonTypeOK
<1>1. /\ queue \in Seq(Requests) /\ queue' = Append(queue, r)
      /\ call[r] = "connecting" /\ InPool /\ of[r] = life /\ call'[r] = "waiting"
      /\ \A q \in Requests : q # r => call'[q] = call[q]
      /\ UNCHANGED <<disk, wants, loaded, started, ranOn, daemon, serving, of, outcome, life, missed>>
  BY DEF Connect, DataInv, data
<1>n. PICK n \in Nat : n = Len(queue) + 1
  BY <1>1
<1>2. \A i \in DOMAIN queue : i \in DOMAIN queue' /\ queue'[i] = queue[i] /\ queue[i] # r
  <2>1. \A i \in DOMAIN queue : queue[i] # r
    BY <1>1 DEF OrderInv, Early
  <2> QED
    BY <1>1, <2>1
<1>3. Len(queue) + 1 \in DOMAIN queue' /\ queue'[Len(queue) + 1] = r
  BY <1>1
<1>4. \A i \in DOMAIN queue' : i \in DOMAIN queue \/ (i = Len(queue) + 1 /\ queue'[i] = r)
  <2>1. /\ DOMAIN queue = 1..Len(queue) /\ Len(queue) \in Nat
        /\ DOMAIN Append(queue, r) = 1..(Len(queue) + 1)
    BY <1>1
  <2> QED
    BY <1>1, <1>3, <2>1
<1>5. /\ \A c \in Cells : c # r => need'[c] = need[c]
      /\ r \in Cells => need'[r] = Promised
  BY DEF Connect
<1>6. \A v \in Promised : v <= disk /\ InTime(v, n)'
  <2>1. ASSUME NEW s \in Reloads, Counts(s), NEW v, v = wants[s]
        PROVE  v <= disk /\ InTime(v, n)'
    <3>1. Delivered(s) /\ wants[s] <= disk
      BY <2>1 DEF DataInv
    <3>2. CASE wants[s] <= loaded
      BY <1>1, <2>1, <3>1, <3>2 DEF InTime
    <3>3. CASE daemon = "busy" /\ serving = s
      BY <1>1, <2>1, <3>1, <3>3 DEF InTime
    <3>5. CASE <<life, wants[s]>> \in missed
      BY <1>1, <2>1, <3>1, <3>5 DEF InTime
    <3>4. CASE \E i \in DOMAIN queue : queue[i] = s
      <4>1. PICK i \in DOMAIN queue : queue[i] = s
        BY <3>4
      <4>2. i < n
        BY <1>1, <1>n
      <4> QED
        BY <1>1, <1>2, <2>1, <3>1, <4>1, <4>2 DEF InTime
    <3> QED
      BY <1>1, <3>1, <3>2, <3>3, <3>4, <3>5 DEF Delivered, InPool
  <2>2. \A v \in Promised : \E s \in Reloads : v = wants[s] /\ Counts(s)
    BY DEF Promised, Counts
  <2> QED
    BY <2>1, <2>2
<1>7. \A c \in Cells : \A v \in need'[c] : v <= disk'
  BY <1>1, <1>5, <1>6 DEF DataInv
<1>8. \A q \in Reloads : Counts(q)' => Delivered(q)'
  <2> TAKE q \in Reloads
  <2>1. CASE q = r
    BY <1>1, <1>3, <2>1 DEF Delivered
  <2>2. CASE q # r
    <3>1. Counts(q)' => Counts(q)
      BY <1>1, <2>2 DEF Counts, Requests
    <3>2. Delivered(q) => Delivered(q)'
      BY <1>1, <1>2 DEF Delivered
    <3> QED
      BY <3>1, <3>2 DEF DataInv
  <2> QED
    BY <2>1, <2>2
<1>9. \A i \in DOMAIN queue' : queue'[i] \in Cells => \A v \in need'[queue'[i]] : InTime(v, i)'
  <2> SUFFICES ASSUME NEW i \in DOMAIN queue', queue'[i] \in Cells, NEW v \in need'[queue'[i]]
               PROVE  InTime(v, i)'
    OBVIOUS
  <2>1. CASE i \in DOMAIN queue
    <3>1. InTime(v, i)
      BY <1>2, <1>5, <2>1 DEF DataInv
    <3> QED
      BY <1>1, <1>2, <3>1 DEF InTime
  <2>2. CASE i = Len(queue) + 1 /\ queue'[i] = r
    BY <1>1, <1>n, <1>5, <1>6, <2>2
  <2> QED
    BY <1>4, <2>1, <2>2
<1>10. \A i \in DOMAIN started : started[i] # r
  BY <1>1 DEF OrderInv, Early
<1>11. CellsSeeTheirData'
  BY <1>1, <1>5, <1>10 DEF CellsSeeTheirData, DataInv
<1>12. \A q \in Requests : /\ call'[q] = "connecting" => InPool' /\ of'[q] = life'
                           /\ call'[q] = "fetched" /\ of'[q] = life' => daemon' = "dead" \/ InPool'
                           /\ of'[q] <= life'
  BY <1>1 DEF InPool, DataInv
<1>13. InPool' /\ \A i \in DOMAIN queue' : of'[queue'[i]] = life'
  BY <1>1, <1>2, <1>4 DEF InPool, DataInv
<1>14. loaded' <= disk' /\ \A s \in Reloads : wants'[s] <= disk'
  BY <1>1 DEF DataInv
<1> QED
  BY <1>7, <1>8, <1>9, <1>11, <1>12, <1>13, <1>14 DEF DataInv

\* The oldest connection is taken up: the cell finds what it is entitled to.
LEMMA DataAccept ==
    ASSUME DaemonTypeOK, DataInv, Accept
    PROVE  DataInv'
<1> USE DaemonAssumption DEF DaemonTypeOK
<1>1. /\ queue \in Seq(Requests) /\ queue # <<>> /\ queue' = Tail(queue)
      /\ queue[1] \in Requests /\ 1 \in DOMAIN queue
      /\ daemon = "accept" /\ daemon' = "busy" /\ serving' = queue[1]
      /\ started' = Append(started, queue[1])
      /\ UNCHANGED <<disk, wants, loaded, need, call, of, outcome, life, missed>>
  BY SMTT(30) DEF Accept, data, client
<1>2. \A i \in DOMAIN queue' : i + 1 \in DOMAIN queue /\ queue'[i] = queue[i + 1] /\ i \in Nat
  BY <1>1
<1>3. \A j \in DOMAIN queue : j # 1 => j - 1 \in DOMAIN queue' /\ queue'[j - 1] = queue[j]
  BY <1>1
<1>4. \A s \in Reloads : Counts(s)' => Delivered(s)'
  <2> SUFFICES ASSUME NEW s \in Reloads, Delivered(s) PROVE Delivered(s)'
    BY <1>1 DEF Counts, DataInv
  <2>1. CASE wants[s] <= loaded
    BY <1>1, <2>1 DEF Delivered
  <2>2. CASE \E i \in DOMAIN queue : queue[i] = s
    BY ZenonT(60), <1>1, <1>3, <2>2 DEF Delivered
  <2>3. CASE <<life, wants[s]>> \in missed
    BY <1>1, <2>3 DEF Delivered
  <2> QED
    BY <1>1, <2>1, <2>2, <2>3 DEF Delivered
<1>5. \A i \in DOMAIN queue' : queue'[i] \in Cells => \A v \in need'[queue'[i]] : InTime(v, i)'
  <2> SUFFICES ASSUME NEW i \in DOMAIN queue', queue[i + 1] \in Cells, NEW v \in need[queue[i + 1]]
               PROVE  InTime(v, i)'
    BY <1>1, <1>2
  <2>1. InTime(v, i + 1)
    BY <1>2 DEF DataInv
  <2>2. CASE v <= loaded
    BY <1>1, <2>2 DEF InTime
  <2>3. CASE \E j \in DOMAIN queue : j < i + 1 /\ queue[j] \in Reloads
    <3>1. PICK j \in DOMAIN queue : j < i + 1 /\ queue[j] \in Reloads
      BY <2>3
    <3>2. CASE j = 1
      BY <1>1, <3>1, <3>2 DEF InTime
    <3>3. CASE j # 1
      <4>1. j - 1 \in DOMAIN queue' /\ queue'[j - 1] \in Reloads
        BY <1>3, <3>1, <3>3
      <4>2. j - 1 < i
        BY SMTT(30), <1>1, <1>2, <3>1
      <4> QED
        BY <1>1, <4>1, <4>2 DEF InTime
    <3> QED
      BY <3>2, <3>3
  <2>4. CASE <<life, v>> \in missed
    BY <1>1, <2>4 DEF InTime
  <2> QED
    BY <1>1, <2>1, <2>2, <2>3, <2>4 DEF InTime
<1>6. queue[1] \in Cells => \A v \in need[queue[1]] : v <= loaded \/ <<life, v>> \in missed
  <2> SUFFICES ASSUME queue[1] \in Cells, NEW v \in need[queue[1]] PROVE v <= loaded \/ <<life, v>> \in missed
    OBVIOUS
  <2>1. InTime(v, 1)
    BY <1>1 DEF DataInv
  <2>2. ~\E j \in DOMAIN queue : j < 1
    BY <1>1
  <2> QED
    BY <1>1, <2>1, <2>2 DEF InTime
<1>7. CellsSeeTheirData'
  <2> SUFFICES ASSUME NEW i \in DOMAIN started', started'[i] \in Cells, NEW v \in need[started'[i]]
               PROVE  ranOn'[started'[i]] >= v \/ <<of[started'[i]], v>> \in missed
    BY <1>1 DEF CellsSeeTheirData
  <2>1. /\ queue[1] \in Cells => ranOn' = [ranOn EXCEPT ![queue[1]] = loaded]
        /\ queue[1] \notin Cells => ranOn' = ranOn
    BY <1>1 DEF Accept
  <2>2. (i \in DOMAIN started /\ started'[i] = started[i]) \/ started'[i] = queue[1]
    BY <1>1
  <2>3. CASE started'[i] = queue[1]
    <3>1. ranOn'[started'[i]] = loaded /\ (v <= loaded \/ <<life, v>> \in missed)
      BY <1>6, <2>1, <2>3
    <3>3. of[started'[i]] = life
      BY <1>1, <2>3 DEF DataInv
    <3>2. v \in Nat
      BY <2>3
    <3> QED
      BY <3>1, <3>2, <3>3
  <2>4. CASE started'[i] # queue[1]
    <3>1. i \in DOMAIN started /\ started'[i] = started[i] /\ ranOn'[started[i]] = ranOn[started[i]]
      BY <2>1, <2>2, <2>4
    <3> QED
      BY <3>1 DEF CellsSeeTheirData, DataInv
  <2> QED
    BY <2>3, <2>4
<1>8. InPool' /\ \A r \in Requests : /\ call'[r] = "connecting" => of'[r] = life'
                                     /\ of'[r] <= life'
  BY <1>1 DEF InPool, DataInv
<1>9. \A i \in DOMAIN queue' : of'[queue'[i]] = life'
  BY <1>1, <1>2 DEF DataInv
<1>10. /\ loaded' <= disk' /\ \A s \in Reloads : wants'[s] <= disk'
       /\ \A c \in Cells : \A v \in need'[c] : v <= disk'
  BY <1>1 DEF DataInv
<1> QED
  BY <1>4, <1>5, <1>7, <1>8, <1>9, <1>10 DEF DataInv

\* The datasets have been read: whatever is written is loaded.
LEMMA DataReload ==
    ASSUME DaemonTypeOK, DataInv, ReloadEnds \/ LoadFrames
    PROVE  DataInv'
<1> USE DEF DaemonTypeOK
<1>1. /\ loaded' = disk
      /\ UNCHANGED <<disk, wants, need, ranOn, queue, started, call, of, outcome, life, missed>>
      /\ \/ daemon = "busy" /\ daemon' = "reply"
         \/ daemon = "booting" /\ daemon' = "loaded"
  BY DEF ReloadEnds, LoadFrames, client, data, history
<1>2. loaded' <= disk' /\ \A s \in Reloads : wants'[s] <= disk' /\ wants'[s] <= loaded'
  BY <1>1 DEF DataInv
<1>3. \A c \in Cells : \A v \in need'[c] : v <= disk' /\ v <= loaded'
  BY <1>1 DEF DataInv
<1>4. \A s \in Reloads : Delivered(s)'
  BY <1>2 DEF Delivered
<1>5. \A i \in DOMAIN queue' : queue'[i] \in Cells => \A v \in need'[queue'[i]] : InTime(v, i)'
  BY <1>1, <1>3 DEF InTime
<1>6. \A r \in Requests : /\ call'[r] = "connecting" => InPool' /\ of'[r] = life'
                          /\ call'[r] = "fetched" /\ of'[r] = life' => daemon' = "dead" \/ InPool'
                          /\ of'[r] <= life'
  BY <1>1 DEF InPool, DataInv
<1>7. (queue' # <<>> => InPool') /\ \A i \in DOMAIN queue' : of'[queue'[i]] = life'
  BY <1>1 DEF InPool, DataInv
<1>8. CellsSeeTheirData'
  BY <1>1 DEF CellsSeeTheirData, DataInv
<1> QED
  BY <1>2, <1>3, <1>4, <1>5, <1>6, <1>7, <1>8 DEF DataInv

\* The child dies: its backlog is gone, and the next will read the workspace.
LEMMA DataDies ==
    ASSUME DaemonTypeOK, DataInv, InterruptKills \/ Crash
    PROVE  DataInv'
<1> USE DEF DaemonTypeOK
<1>1. /\ daemon' = "dead" /\ queue' = <<>>
      /\ UNCHANGED <<disk, wants, loaded, need, ranOn, started, of, life, missed>>
      /\ \A r \in Requests : call'[r] # "connecting"
  BY DEF InterruptKills, Crash, Dies, data, history
<1>2. \A s \in Reloads : Delivered(s)'
  BY <1>1 DEF Delivered
<1>3. DOMAIN queue' = {}
  BY <1>1
<1> QED
  BY <1>1, <1>2, <1>3 DEF DataInv, CellsSeeTheirData

\* The next child will read the workspace, and nobody has it yet.
LEMMA DataStart ==
    ASSUME DaemonTypeOK, DataInv, StartChild
    PROVE  DataInv'
<1> USE DEF DaemonTypeOK
<1>1. /\ daemon = "dead" /\ daemon' = "booting" /\ life' = life + 1
      /\ UNCHANGED <<disk, wants, loaded, need, ranOn, queue, started, call, of, missed>>
  BY DEF StartChild, client, data, history
<1>2. \A s \in Reloads : Delivered(s)'
  BY <1>1 DEF Delivered
<1>3. queue' = <<>> /\ DOMAIN queue' = {}
  BY <1>1 DEF InPool, DataInv
<1>4. \A r \in Requests : call'[r] # "connecting" /\ of'[r] <= life' /\ of'[r] # life'
  BY <1>1 DEF InPool, DataInv
<1>5. CellsSeeTheirData'
  BY <1>1 DEF CellsSeeTheirData, DataInv
<1> QED
  BY <1>1, <1>2, <1>3, <1>4, <1>5 DEF DataInv

\* No step takes data away from a cell.
LEMMA DataStep ==
    ASSUME DaemonTypeOK, OrderInv, DataInv, [DaemonNext]_daemonVars
    PROVE  DataInv'
<1> USE DaemonAssumption DEF client, child, signl, data, history, Requests
<1>1. ASSUME NEW r \in Reloads, Materialize(r) PROVE DataInv'
  BY <1>1, DataMaterialize
<1>2. ASSUME NEW r \in Requests, Fetch(r) PROVE DataInv'
  <2>1. /\ UNCHANGED <<disk, wants, loaded, queue, started, need, ranOn, life, daemon, serving, outcome>>
        /\ call' = [call EXCEPT ![r] = "fetched"] /\ call[r] \in {"new", "due"}
        /\ missed \subseteq missed'
        /\ r \in Reloads /\ daemon = "loaded" /\ wants[r] > loaded => <<life, wants[r]>> \in missed'
    BY <1>2 DEF Fetch
  <2>2. PICK k \in (CASE InPool          -> {life}
                    [] daemon = "dead" -> {life, 0}
                    [] OTHER           -> {life - 1, 0}) : of' = [of EXCEPT ![r] = k]
    BY <1>2 DEF Fetch
  <2>3. k \in Nat /\ k <= life /\ (k = life => daemon = "dead" \/ InPool) /\ (InPool => k = life)
    BY <2>2 DEF InPool, DaemonTypeOK
  <2>4. \A q \in Requests : of'[q] = of[q] \/ (call[q] \in Early /\ of'[q] <= life)
    BY <2>1, <2>2, <2>3 DEF DaemonTypeOK, Early
  <2>5. \A q \in Requests : call'[q] = "connecting" => InPool' /\ of'[q] = life
    BY <2>1, <2>2 DEF DaemonTypeOK, DataInv, InPool
  <2>6. \A q \in Requests : call'[q] = "fetched" /\ of'[q] = life => daemon' = "dead" \/ InPool'
    BY <2>1, <2>2, <2>3 DEF DaemonTypeOK, DataInv, InPool
  <2>7. ASSUME NEW s \in Reloads, Counts(s)' PROVE Counts(s) \/ Delivered(s)'
    <3>1. CASE s = r
      <4>1. ~InPool
        BY <2>1, <2>2, <2>3, <2>7, <3>1 DEF Counts, DaemonTypeOK
      <4> QED
        BY <2>1, <3>1, <4>1 DEF Delivered, InPool, DaemonTypeOK
    <3>2. CASE s # r
      BY <2>1, <2>2, <2>7, <3>2 DEF Counts, DaemonTypeOK
    <3> QED
      BY <3>1, <3>2
  <2> HIDE DEF Requests
  <2> QED
    BY <2>1, <2>4, <2>5, <2>6, <2>7, DataKept
<1>3. ASSUME NEW r \in Requests, Lock(r) PROVE DataInv'
  <2>1. UNCHANGED <<disk, wants, loaded, queue, started, need, ranOn, life, daemon, serving, missed, of>>
    BY <1>3 DEF Lock, Tell
  <2>2. \A q \in Requests : call'[q] = "connecting" => InPool' /\ of'[q] = life
    BY <1>3, <2>1 DEF Lock, Tell, DaemonTypeOK, DataInv, InPool
  <2>3. \A q \in Requests : call'[q] = "fetched" /\ of'[q] = life => daemon' = "dead" \/ InPool'
    BY <1>3, <2>1 DEF Lock, Tell, DaemonTypeOK, DataInv, InPool
  <2>4. \A s \in Reloads : Counts(s)' => Counts(s) \/ Delivered(s)'
    BY <1>3, <2>1 DEF Lock, Tell, DaemonTypeOK, Counts, Delivered
  <2> QED
    BY <2>1, <2>2, <2>3, <2>4, DataKept
<1>4. ASSUME NEW r \in Requests, Connect(r) PROVE DataInv'
  BY <1>4, DataConnect
<1>5. ASSUME NEW r \in Requests, Refuse(r) \/ TimeOut(r) \/ Return(r) \/ Lost(r) PROVE DataInv'
  <2>1. UNCHANGED <<disk, wants, loaded, queue, started, need, ranOn, life, daemon, serving, missed, of>>
    BY <1>5 DEF Refuse, TimeOut, Return, Lost, Tell
  <2>2. /\ \A q \in Requests : call'[q] = "connecting" => call[q] = "connecting"
        /\ \A q \in Requests : call'[q] = "fetched" => call[q] = "fetched"
    BY <1>5 DEF Refuse, TimeOut, Return, Lost, Tell, DaemonTypeOK
  <2>3. \A s \in Reloads : Counts(s)' => Counts(s)
    BY <1>5, <2>1 DEF Refuse, TimeOut, Return, Lost, Tell, DaemonTypeOK, Counts
  <2> QED
    BY <2>1, <2>2, <2>3, DataKept DEF DataInv, InPool
<1>6. CASE Accept
  BY <1>6, DataAccept
<1>7. CASE CellEnds \/ InterruptsCell \/ Reply \/ Register
  <2>1. /\ UNCHANGED <<disk, wants, loaded, queue, started, need, ranOn, life, call, of, outcome, missed>>
        /\ \/ daemon = "busy" /\ serving \in Cells /\ daemon' = "reply"
           \/ daemon \in {"reply", "loaded"} /\ daemon' = "accept"
    BY <1>7 DEF CellEnds, InterruptsCell, Reply, Register
  <2>2. \A s \in Reloads : Counts(s)' => Counts(s)
    BY <2>1 DEF Counts
  <2> QED
    BY <2>1, <2>2, DataKept DEF DataInv, InPool
<1>8. CASE ReloadEnds \/ LoadFrames
  BY <1>8, DataReload
<1>9. CASE Interrupt \/ UNCHANGED daemonVars
  <2>1. UNCHANGED <<disk, wants, loaded, queue, started, need, ranOn, life, call, of, outcome, missed,
                    daemon, serving>>
    BY <1>9 DEF Interrupt, daemonVars
  <2>2. \A s \in Reloads : Counts(s)' => Counts(s)
    BY <2>1 DEF Counts
  <2> QED
    BY <2>1, <2>2, DataKept DEF DataInv, InPool
<1>10. CASE InterruptKills \/ Crash
  BY <1>10, DataDies
<1>11. CASE StartChild
  BY <1>11, DataStart
<1> QED
  BY <1>1, <1>2, <1>3, <1>4, <1>5, <1>6, <1>7, <1>8, <1>9, <1>10, <1>11
     DEF DaemonNext, ClientStep, DaemonStep

\* A cell runs on the data of every reload that was over when it was sent, also of one that timed
\* out behind another cell or found its child dead, unless its child was just being started.
THEOREM FreshData == DaemonSpec => []CellsSeeTheirData
<1>1. DaemonInit => OrderInv /\ DataInv
  <2> SUFFICES ASSUME DaemonInit PROVE OrderInv /\ DataInv
    OBVIOUS
  <2> USE DEF DaemonInit
  <2>1. OrderInv
    BY DEF OrderInv
  <2>2. \A s \in Reloads : ~Counts(s)
    BY DEF Counts, Requests
  <2>3. /\ \A i \in DOMAIN queue : FALSE
        /\ \A i \in DOMAIN started : FALSE
    OBVIOUS
  <2>4. loaded <= disk /\ \A s \in Reloads : wants[s] <= disk
    OBVIOUS
  <2> QED
    BY <2>1, <2>2, <2>3, <2>4 DEF DataInv, CellsSeeTheirData
<1>2. DataInv => CellsSeeTheirData
  BY DEF DataInv
<1>3. DaemonTypeOK /\ OrderInv /\ DataInv /\ [DaemonNext]_daemonVars => OrderInv' /\ DataInv'
  BY OrderStep, DataStep
<1> QED
  BY <1>1, <1>2, <1>3, DaemonTyped, PTL DEF DaemonSpec
=============================================================================
