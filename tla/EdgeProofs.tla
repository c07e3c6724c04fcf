----------------------------- MODULE EdgeProofs -----------------------------
(***************************************************************************)
(* What TLAPS proves about what stands around the turns, for any numbers   *)
(* of processes, releases, threads, sockets, calls, questions and tables:  *)
(* the command line, the encoder, the slots and the requests of an         *)
(* address, the session of a tab and its cards, the solutions that are     *)
(* replayed and what a session keeps of its tables.                        *)
(***************************************************************************)
EXTENDS MCEdges, FiniteSetTheorems, TLAPS
-----------------------------------------------------------------------------
(* What runs.                                                               *)

Places == {"none", "boot", "second", "loop", "pause", "cleaning", "exiting", "ended", "killed"}

Supervisor == [pc : Places, lost : Labels, restarts : [Labels -> 0..MaxRestarts]]

SupTyped ==
    /\ sup \in [StartIds -> Supervisor]
    /\ alive \subseteq Processes
    /\ pidfile \in [Labels -> Processes \cup {NoFile}]
    /\ daemonpid \in 0..MaxStarts /\ sentinel \in 0..MaxStarts
    /\ crashed \in BOOLEAN
    /\ command \in {"idle", "record", "waiting", "ask", "asked", "stop", "stopping",
                    "kill backend", "kill frontend", "kill daemon", "remove"}
    /\ started \in 0..MaxStarts /\ kills \in 0..MaxKills

\* The children that a supervisor may have where it is.
Running(s) ==
    CASE sup[s].pc = "second" -> {"backend"}
      [] sup[s].pc = "loop"   -> Labels
      [] sup[s].pc = "pause"  -> {OtherLabel(sup[s].lost)}
      [] OTHER                -> {}

\* Every child is one of those, unless its supervisor was killed.
ChildrenAreKnown ==
    \A p \in alive : sup[p[1]].pc # "killed" => \E l \in Running(p[1]) : p = Child(p[1], l)

\* What was not started has not been anything.
NoneAhead == \A s \in StartIds : s > started => sup[s].pc = "none"

\* The last one started is the only one that may live, and daemon.pid names it.
LastLives == \A s \in StartIds : Lives(s) => s = started /\ (command = "record" \/ daemonpid = s)

\* The files are removed once it was killed.
RemovedAfterDeath == command = "remove" => \A s \in StartIds : ~Lives(s)

SupInv == SupTyped /\ ChildrenAreKnown /\ NoneAhead /\ LastLives /\ RemovedAfterDeath

LEMMA SupInitHolds == SupInit => SupInv
<1> SUFFICES ASSUME SupInit PROVE SupInv
  OBVIOUS
<1>1. SupTyped
  <2>1. 0 \in 0..MaxRestarts /\ 0 \in 0..MaxStarts /\ 0 \in 0..MaxKills
    BY SupervisionAssumption
  <2>2. [l \in Labels |-> 0] \in [Labels -> 0..MaxRestarts]
    BY <2>1
  <2>3. [pc |-> "none", lost |-> "backend", restarts |-> [l \in Labels |-> 0]] \in Supervisor
    BY <2>2 DEF Supervisor, Places, Labels
  <2>4. sup \in [StartIds -> Supervisor]
    BY <2>3 DEF SupInit
  <2> QED BY <2>1, <2>4 DEF SupInit, SupTyped
<1>2. \A s \in StartIds : sup[s].pc = "none"
  BY DEF SupInit
<1> QED BY <1>1, <1>2 DEF SupInit, SupInv, ChildrenAreKnown, NoneAhead, LastLives, RemovedAfterDeath, Lives

\* A supervisor that moves, and nothing else of it.
LEMMA MovedOne ==
    ASSUME SupTyped, NEW s \in StartIds, NEW where \in Places, Moves(s, where)
    PROVE  /\ sup' \in [StartIds -> Supervisor]
           /\ sup'[s].pc = where /\ sup'[s].lost = sup[s].lost /\ sup'[s].restarts = sup[s].restarts
           /\ \A t \in StartIds : t # s => sup'[t] = sup[t]
<1>1. sup[s] \in Supervisor
  BY DEF SupTyped
<1>2. [sup[s] EXCEPT !.pc = where] \in Supervisor
  BY <1>1 DEF Supervisor
<1> QED BY <1>1, <1>2 DEF SupTyped, Moves, Supervisor

\* Where the children are that a supervisor of this place may have.
LEMMA Places1 ==
    ASSUME SupTyped, NEW s \in StartIds
    PROVE  /\ sup[s].pc \in Places /\ sup[s].lost \in Labels
           /\ \A l \in Labels : sup[s].restarts[l] \in 0..MaxRestarts /\ Child(s, l) \in Processes
           /\ sup[s].pc = "second" => Running(s) = {"backend"}
           /\ sup[s].pc = "loop" => Running(s) = Labels
           /\ sup[s].pc = "pause" => Running(s) = {OtherLabel(sup[s].lost)}
           /\ sup[s].pc \notin {"second", "loop", "pause"} => Running(s) = {}
<1>1. sup[s] \in Supervisor
  BY DEF SupTyped
<1>2. \A l \in Labels : sup[s].restarts[l] \in 0..MaxRestarts
  BY <1>1 DEF Supervisor
<1> QED BY <1>1, <1>2 DEF Supervisor, Running, Child, Processes
-----------------------------------------------------------------------------
\* The one that lives takes a step.
LEMMA SupervisorSteps ==
    ASSUME SupInv, SupTyped', NEW s \in StartIds, Lives(s),
           \A t \in StartIds : t # s => sup'[t] = sup[t],
           \A p \in alive' : p[1] # s => p \in alive,
           \A p \in alive' : p[1] = s => sup'[s].pc = "killed" \/ \E l \in Running(s)' : p = Child(s, l)',
           sup'[s].pc # "none",
           command' = command, started' = started, daemonpid' = daemonpid \/ ~Lives(s)'
    PROVE  SupInv'
<1>1. s = started /\ (command = "record" \/ daemonpid = s) /\ command # "remove"
  BY DEF SupInv, LastLives, RemovedAfterDeath
<1>2. \A t \in StartIds : Lives(t)' => t = s
  <2> SUFFICES ASSUME NEW t \in StartIds, Lives(t)', t # s PROVE FALSE
    OBVIOUS
  <2>1. sup'[t] = sup[t]
    OBVIOUS
  <2>2. Lives(t)
    BY <2>1 DEF Lives
  <2> QED BY <2>2, <1>1 DEF SupInv, LastLives
<1>3. LastLives'
  <2> SUFFICES ASSUME NEW t \in StartIds, Lives(t)' PROVE t = started' /\ (command' = "record" \/ daemonpid' = t)
    BY DEF LastLives
  <2> QED BY <1>1, <1>2
<1>4. NoneAhead'
  <2> SUFFICES ASSUME NEW t \in StartIds, t > started PROVE sup'[t].pc = "none"
    BY DEF NoneAhead
  <2>1. t # s
    BY <1>1 DEF StartIds
  <2>2. sup[t].pc = "none"
    BY DEF SupInv, NoneAhead
  <2> QED BY <2>1, <2>2
<1>5. ChildrenAreKnown'
  <2> SUFFICES ASSUME NEW p \in alive', sup'[p[1]].pc # "killed"
               PROVE  \E l \in Running(p[1])' : p = Child(p[1], l)'
    BY DEF ChildrenAreKnown
  <2>1. CASE p[1] = s
    BY <2>1
  <2>2. CASE p[1] # s
    <3>1. p \in alive /\ p[1] \in StartIds
      BY <2>2 DEF SupTyped, Processes, SupInv
    <3>2. sup'[p[1]] = sup[p[1]]
      BY <2>2, <3>1
    <3>3. PICK l \in Running(p[1]) : p = Child(p[1], l)
      BY <3>1, <3>2 DEF SupInv, ChildrenAreKnown
    <3>4. l \in Running(p[1])' /\ p = Child(p[1], l)'
      BY <3>2, <3>3 DEF Running, Child
    <3> QED BY <3>4
  <2> QED BY <2>1, <2>2
<1> QED BY <1>1, <1>3, <1>4, <1>5 DEF SupInv, RemovedAfterDeath

\* Children may end, and files and the command change beside it.
LEMMA CommandSteps ==
    ASSUME SupInv, SupTyped', sup' = sup, alive' \subseteq alive, started' = started,
           \A s \in StartIds : Lives(s) => (command' = "record" \/ daemonpid' = s) /\ command' # "remove"
    PROVE  SupInv'
<1>1. \A s \in StartIds : Lives(s)' <=> Lives(s)
  BY DEF Lives
<1>2. ChildrenAreKnown'
  BY DEF SupInv, ChildrenAreKnown, Running, Child
<1>3. LastLives'
  BY <1>1 DEF SupInv, LastLives
<1>4. NoneAhead' /\ RemovedAfterDeath'
  BY <1>1 DEF SupInv, NoneAhead, RemovedAfterDeath
<1> QED BY <1>2, <1>3, <1>4 DEF SupInv

\* The one that lives is killed by a command.
LEMMA KillSteps ==
    ASSUME SupInv, SupTyped', alive' = alive, started' = started,
           \A s \in StartIds : sup'[s] = sup[s] \/ (Lives(s) /\ sup'[s].pc = "killed"),
           \A s \in StartIds : ~Lives(s)'
    PROVE  SupInv'
<1>1. ChildrenAreKnown'
  <2> SUFFICES ASSUME NEW p \in alive, sup'[p[1]].pc # "killed"
               PROVE  \E l \in Running(p[1])' : p = Child(p[1], l)'
    BY DEF ChildrenAreKnown
  <2>1. p[1] \in StartIds
    BY DEF SupTyped, Processes, SupInv
  <2>2. sup'[p[1]] = sup[p[1]]
    BY <2>1
  <2>3. PICK l \in Running(p[1]) : p = Child(p[1], l)
    BY <2>2 DEF SupInv, ChildrenAreKnown
  <2>4. l \in Running(p[1])' /\ p = Child(p[1], l)'
    BY <2>2, <2>3 DEF Running, Child
  <2> QED BY <2>4
<1>2. NoneAhead'
  BY DEF SupInv, NoneAhead, Lives
<1> QED BY <1>1, <1>2 DEF SupInv, LastLives, RemovedAfterDeath

-----------------------------------------------------------------------------
(* The steps of a supervisor.                                               *)

LEMMA SStart == SupInv /\ Start => SupInv'
<1> SUFFICES ASSUME SupInv, Start PROVE SupInv'
  OBVIOUS
<1> DEFINE s == started + 1
<1>1. /\ command = "idle" /\ started < MaxStarts /\ ~DaemonLives /\ started' = s /\ command' = "record"
      /\ Moves(s, "boot") /\ UNCHANGED <<alive, pidfile, daemonpid, sentinel, crashed, kills>>
  BY DEF Start, Terminal, Moves
<1>2. s \in StartIds /\ s \in 0..MaxStarts /\ started \in Nat
  BY <1>1, SupervisionAssumption DEF SupInv, SupTyped, StartIds
<1> HIDE DEF s
<1>3. /\ sup' \in [StartIds -> Supervisor] /\ sup'[s].pc = "boot"
      /\ \A t \in StartIds : t # s => sup'[t] = sup[t]
  BY <1>1, <1>2, MovedOne DEF SupInv, Places
<1>4. SupTyped'
  BY <1>1, <1>2, <1>3 DEF SupInv, SupTyped
<1>5. \A t \in StartIds : ~Lives(t)
  BY <1>1 DEF SupInv, LastLives, DaemonLives, StartIds
<1>6. LastLives'
  BY <1>1, <1>3, <1>5 DEF LastLives, Lives
<1>7. NoneAhead' /\ sup[s].pc = "none"
  BY <1>1, <1>2, <1>3 DEF SupInv, NoneAhead, StartIds, s
<1>8. ChildrenAreKnown'
  <2> SUFFICES ASSUME NEW p \in alive, sup'[p[1]].pc # "killed"
               PROVE  \E l \in Running(p[1])' : p = Child(p[1], l)'
    BY <1>1 DEF ChildrenAreKnown
  <2>1. p[1] \in StartIds
    BY DEF SupTyped, Processes, SupInv
  <2>2. p[1] # s
    <3> SUFFICES ASSUME p[1] = s PROVE FALSE
      OBVIOUS
    <3>1. Running(s) = {}
      BY <1>2, <1>7, Places1 DEF SupInv
    <3> QED BY <1>7, <3>1 DEF SupInv, ChildrenAreKnown
  <2>3. sup'[p[1]] = sup[p[1]]
    BY <1>3, <2>1, <2>2
  <2>4. PICK l \in Running(p[1]) : p = Child(p[1], l)
    BY <2>3 DEF SupInv, ChildrenAreKnown
  <2>5. l \in Running(p[1])' /\ p = Child(p[1], l)'
    BY <2>3, <2>4 DEF Running, Child
  <2> QED BY <2>5
<1> QED BY <1>1, <1>4, <1>6, <1>7, <1>8 DEF SupInv, RemovedAfterDeath
\* The children of a supervisor that was not killed.
LEMMA OwnChildren ==
    ASSUME SupInv, NEW s \in StartIds, sup[s].pc # "killed", NEW p \in alive, p[1] = s
    PROVE  \E l \in Running(s) : p = Child(s, l)
BY DEF SupInv, ChildrenAreKnown

\* A supervisor that moves keeps the names of its children.
LEMMA SameChildren ==
    ASSUME SupTyped, NEW s \in StartIds, NEW where \in Places, Moves(s, where)
    PROVE  /\ \A l \in Labels : Child(s, l)' = Child(s, l) /\ Child(s, l) \in Processes
           /\ where = "second" => Running(s)' = {"backend"}
           /\ where = "loop" => Running(s)' = Labels
           /\ where \notin {"second", "loop", "pause"} => Running(s)' = {}
BY MovedOne, Places1 DEF Child, Running

LEMMA SBoot ==
    ASSUME SupInv, NEW s \in StartIds, Boot(s) PROVE SupInv'
<1>1. /\ sup[s].pc = "boot" /\ crashed' = FALSE /\ UNCHANGED <<daemonpid, sentinel, command, started, kills>>
      /\ \/ StartedChild(s, "backend") /\ Moves(s, "second")
         \/ FailedChild("backend") /\ Moves(s, "ended")
  BY DEF Boot
<1>2. SupTyped /\ Lives(s) /\ "backend" \in Labels
  BY <1>1 DEF SupInv, Lives, Labels
<1>3. \A p \in alive : p[1] # s
  BY <1>1, <1>2, OwnChildren, Places1
<1>4. CASE StartedChild(s, "backend") /\ Moves(s, "second")
  <2>1. /\ sup' \in [StartIds -> Supervisor] /\ sup'[s].pc = "second" /\ \A t \in StartIds : t # s => sup'[t] = sup[t]
    BY <1>2, <1>4, MovedOne DEF Places
  <2>2. Child(s, "backend")' = Child(s, "backend") /\ Child(s, "backend") \in Processes /\ Running(s)' = {"backend"}
    BY <1>2, <1>4, SameChildren DEF Places
  <2>3. alive' = alive \cup {Child(s, "backend")} /\ pidfile' = [pidfile EXCEPT !["backend"] = Child(s, "backend")]
    BY <1>4 DEF StartedChild
  <2>4. SupTyped'
    BY <1>1, <1>2, <2>1, <2>2, <2>3 DEF SupTyped
  <2>5. \A p \in alive' : (p[1] # s => p \in alive) /\ (p[1] = s => p = Child(s, "backend"))
    BY <1>3, <2>3 DEF Child
  <2>6. \A p \in alive' : p[1] = s => \E l \in Running(s)' : p = Child(s, l)'
    BY <2>2, <2>5
  <2> QED BY <1>1, <1>2, <2>1, <2>4, <2>5, <2>6, SupervisorSteps
<1>5. CASE FailedChild("backend") /\ Moves(s, "ended")
  <2>1. /\ sup' \in [StartIds -> Supervisor] /\ sup'[s].pc = "ended" /\ \A t \in StartIds : t # s => sup'[t] = sup[t]
    BY <1>2, <1>5, MovedOne DEF Places
  <2>2. alive' = alive /\ pidfile' \in [Labels -> Processes \cup {NoFile}]
    BY <1>2, <1>5 DEF FailedChild, SupTyped
  <2>3. SupTyped'
    BY <1>1, <1>2, <2>1, <2>2 DEF SupTyped
  <2> QED BY <1>1, <1>2, <1>3, <2>1, <2>2, <2>3, SupervisorSteps
<1> QED BY <1>1, <1>4, <1>5

LEMMA SBootFrontend ==
    ASSUME SupInv, NEW s \in StartIds, BootFrontend(s) PROVE SupInv'
<1>1. /\ sup[s].pc = "second" /\ UNCHANGED <<daemonpid, sentinel, crashed, command, started, kills>>
      /\ \/ StartedChild(s, "frontend") /\ Moves(s, "loop")
         \/ /\ alive' = alive \ {Child(s, "backend")}
            /\ \E file \in {NoFile, pidfile["frontend"]} : pidfile' = [pidfile EXCEPT !["frontend"] = file]
            /\ Moves(s, "ended")
  BY DEF BootFrontend
<1>2. SupTyped /\ Lives(s) /\ "backend" \in Labels /\ "frontend" \in Labels
  BY <1>1 DEF SupInv, Lives, Labels
<1>3. \A p \in alive : p[1] = s => p = Child(s, "backend")
  BY <1>1, <1>2, OwnChildren, Places1
<1>4. CASE StartedChild(s, "frontend") /\ Moves(s, "loop")
  <2>1. /\ sup' \in [StartIds -> Supervisor] /\ sup'[s].pc = "loop" /\ \A t \in StartIds : t # s => sup'[t] = sup[t]
    BY <1>2, <1>4, MovedOne DEF Places
  <2>2. (\A l \in Labels : Child(s, l)' = Child(s, l) /\ Child(s, l) \in Processes) /\ Running(s)' = Labels
    BY <1>2, <1>4, SameChildren DEF Places
  <2>3. alive' = alive \cup {Child(s, "frontend")} /\ pidfile' = [pidfile EXCEPT !["frontend"] = Child(s, "frontend")]
    BY <1>4 DEF StartedChild
  <2>4. SupTyped'
    BY <1>1, <1>2, <2>1, <2>2, <2>3 DEF SupTyped
  <2>5. \A p \in alive' : (p[1] # s => p \in alive) /\ (p[1] = s => p = Child(s, "backend") \/ p = Child(s, "frontend"))
    BY <1>3, <2>3 DEF Child
  <2>6. \A p \in alive' : p[1] = s => \E l \in Running(s)' : p = Child(s, l)'
    BY <1>2, <2>2, <2>5
  <2> QED BY <1>1, <1>2, <2>1, <2>4, <2>5, <2>6, SupervisorSteps
<1>5. CASE /\ alive' = alive \ {Child(s, "backend")} /\ Moves(s, "ended")
           /\ \E file \in {NoFile, pidfile["frontend"]} : pidfile' = [pidfile EXCEPT !["frontend"] = file]
  <2>1. /\ sup' \in [StartIds -> Supervisor] /\ sup'[s].pc = "ended" /\ \A t \in StartIds : t # s => sup'[t] = sup[t]
    BY <1>2, <1>5, MovedOne DEF Places
  <2>2. alive' \subseteq alive /\ pidfile' \in [Labels -> Processes \cup {NoFile}] /\ \A p \in alive' : p[1] # s
    BY <1>2, <1>3, <1>5 DEF SupTyped
  <2>3. SupTyped'
    BY <1>1, <1>2, <2>1, <2>2 DEF SupTyped
  <2> QED BY <1>1, <1>2, <2>1, <2>2, <2>3, SupervisorSteps
<1> QED BY <1>1, <1>4, <1>5

\* A supervisor that ends its children, or has none.
LEMMA Quits ==
    ASSUME SupInv, NEW s \in StartIds, Lives(s), NEW where \in {"cleaning", "exiting", "ended", "killed"}, Moves(s, where),
           alive' \subseteq alive, where = "killed" \/ \A p \in alive' : p[1] # s,
           pidfile' \in [Labels -> Processes \cup {NoFile}], crashed' \in BOOLEAN, sentinel' \in 0..MaxStarts,
           kills' \in 0..MaxKills, UNCHANGED <<command, started>>,
           daemonpid' = daemonpid \/ (daemonpid' = 0 /\ where = "ended")
    PROVE  SupInv'
<1>1. SupTyped /\ where \in Places
  BY DEF SupInv, Places
<1>2. /\ sup' \in [StartIds -> Supervisor] /\ sup'[s].pc = where /\ \A t \in StartIds : t # s => sup'[t] = sup[t]
  BY <1>1, MovedOne
<1>3. SupTyped'
  <2>1. daemonpid' \in 0..MaxStarts
    <3>1. daemonpid \in 0..MaxStarts /\ 0 \in 0..MaxStarts
      <4>1. daemonpid \in 0..MaxStarts
        BY <1>1 DEF SupTyped
      <4>2. 0 \in 0..MaxStarts
        BY SupervisionAssumption
      <4> QED BY <4>1, <4>2
    <3>2. CASE daemonpid' = daemonpid
      BY <3>1, <3>2
    <3>3. CASE daemonpid' = 0
      BY <3>1, <3>3
    <3> QED BY <3>2, <3>3
  <2>2. alive' \subseteq Processes /\ command' = command /\ started' = started
    BY <1>1 DEF SupTyped
  <2> QED BY <1>1, <1>2, <2>1, <2>2 DEF SupTyped
<1>4. daemonpid' = daemonpid \/ ~Lives(s)'
  BY <1>2 DEF Lives
<1>5. \A p \in alive' : p[1] # s => p \in alive
  OBVIOUS
<1>6. \A p \in alive' : p[1] = s => sup'[s].pc = "killed" \/ \E l \in Running(s)' : p = Child(s, l)'
  BY <1>2
<1> QED BY <1>2, <1>3, <1>4, <1>5, <1>6, SupervisorSteps

LEMMA SGiveUp ==
    ASSUME SupInv, NEW s \in StartIds, NEW l \in Labels, sup[s].pc \in {"loop", "pause"}, GiveUp(s, l),
           UNCHANGED <<daemonpid, sentinel, command, started, kills>>
    PROVE  SupInv'
<1>1. SupTyped /\ Lives(s) /\ OtherLabel(l) \in Labels
  BY DEF SupInv, Lives, OtherLabel, Labels
<1>2. /\ crashed' = TRUE /\ Moves(s, "cleaning") /\ pidfile' = pidfile
      /\ alive' = alive \ {Child(s, l), Child(s, OtherLabel(l))}
  BY DEF GiveUp
<1>3. \A p \in alive' : p[1] # s
  <2> SUFFICES ASSUME NEW p \in alive', p[1] = s PROVE FALSE
    OBVIOUS
  <2>1. PICK k \in Running(s) : p = Child(s, k)
    BY <1>2, OwnChildren
  <2>2. k \in Labels
    BY <1>1, <2>1, Places1 DEF OtherLabel, Labels
  <2> QED BY <1>2, <2>1, <2>2 DEF OtherLabel, Labels
<1> QED BY <1>1, <1>2, <1>3, Quits DEF SupTyped

LEMMA SLose ==
    ASSUME SupInv, NEW s \in StartIds, NEW l \in Labels, Lose(s, l) PROVE SupInv'
<1>1. sup[s].pc = "loop" /\ UNCHANGED <<daemonpid, sentinel, command, started, kills>>
  BY DEF Lose
<1>2. CASE ~RestartsLeft(s, l)
  BY <1>1, <1>2, SGiveUp DEF Lose
<1>3. CASE RestartsLeft(s, l)
  <2> DEFINE next == [pc |-> "pause", lost |-> l, restarts |-> [sup[s].restarts EXCEPT ![l] = sup[s].restarts[l] + 1]]
  <2>1. /\ alive' = alive \ {Child(s, l)} /\ sup' = [sup EXCEPT ![s] = next] /\ UNCHANGED <<crashed, pidfile>>
    BY <1>3 DEF Lose
  <2>2. SupTyped /\ Lives(s) /\ sup[s] \in Supervisor /\ sup[s].restarts[l] + 1 \in 0..MaxRestarts
    <3>1. sup[s].restarts[l] \in 0..MaxRestarts /\ SupTyped
      BY Places1 DEF SupInv
    <3>2. sup[s].restarts[l] < MaxRestarts
      BY <1>3 DEF RestartsLeft
    <3>3. sup[s].restarts[l] + 1 \in 0..MaxRestarts
      BY <3>1, <3>2, SupervisionAssumption
    <3> QED BY <1>1, <3>1, <3>3 DEF Lives, SupTyped
  <2>3. /\ next \in Supervisor /\ next.pc = "pause" /\ next.lost = l
        /\ \A k \in Labels : k # l => next.restarts[k] = sup[s].restarts[k]
    BY <2>2 DEF Supervisor, Places
  <2> HIDE DEF next
  <2>4. /\ sup' \in [StartIds -> Supervisor] /\ sup'[s] = next /\ \A t \in StartIds : t # s => sup'[t] = sup[t]
    BY <2>1, <2>2, <2>3 DEF SupTyped
  <2>5. SupTyped'
    BY <1>1, <2>1, <2>2, <2>4 DEF SupTyped
  <2>6. Running(s)' = {OtherLabel(l)} /\ Child(s, OtherLabel(l))' = Child(s, OtherLabel(l))
    BY <2>3, <2>4 DEF Running, Child, OtherLabel, Labels
  <2>7. ASSUME NEW p \in alive', p[1] = s PROVE \E k \in Running(s)' : p = Child(s, k)'
    <3>1. PICK k \in Labels : p = Child(s, k)
      BY <1>1, <2>1, <2>2, <2>7, OwnChildren, Places1
    <3>2. k = OtherLabel(l)
      BY <2>1, <3>1 DEF OtherLabel, Labels
    <3> QED BY <2>6, <3>1, <3>2
  <2> QED BY <1>1, <2>1, <2>2, <2>3, <2>4, <2>5, <2>7, SupervisorSteps
<1> QED BY <1>2, <1>3

LEMMA SStartAgain ==
    ASSUME SupInv, NEW s \in StartIds, StartAgain(s) PROVE SupInv'
<1> DEFINE l == sup[s].lost
<1>1. /\ sup[s].pc = "pause" /\ UNCHANGED <<daemonpid, sentinel, command, started, kills>>
      /\ (StartedChild(s, l) /\ Moves(s, "loop") /\ UNCHANGED crashed) \/ GiveUp(s, l)
  BY DEF StartAgain
<1>2. SupTyped /\ Lives(s) /\ l \in Labels /\ OtherLabel(l) \in Labels
  BY <1>1, Places1 DEF SupInv, Lives, OtherLabel, Labels
<1>3. CASE GiveUp(s, l)
  BY <1>1, <1>2, <1>3, SGiveUp
<1>4. CASE StartedChild(s, l) /\ Moves(s, "loop") /\ UNCHANGED crashed
  <2>1. /\ sup' \in [StartIds -> Supervisor] /\ sup'[s].pc = "loop" /\ \A t \in StartIds : t # s => sup'[t] = sup[t]
    BY <1>2, <1>4, MovedOne DEF Places
  <2>2. (\A k \in Labels : Child(s, k)' = Child(s, k) /\ Child(s, k) \in Processes) /\ Running(s)' = Labels
    BY <1>2, <1>4, SameChildren DEF Places
  <2>3. alive' = alive \cup {Child(s, l)} /\ pidfile' = [pidfile EXCEPT ![l] = Child(s, l)]
    BY <1>4 DEF StartedChild
  <2>4. SupTyped'
    BY <1>1, <1>2, <1>4, <2>1, <2>2, <2>3 DEF SupTyped
  <2>5. \A p \in alive : p[1] = s => p = Child(s, OtherLabel(l))
    BY <1>1, <1>2, OwnChildren, Places1
  <2>6. \A p \in alive' : (p[1] # s => p \in alive) /\ (p[1] = s => p = Child(s, l) \/ p = Child(s, OtherLabel(l)))
    BY <2>3, <2>5 DEF Child
  <2>7. \A p \in alive' : p[1] = s => \E k \in Running(s)' : p = Child(s, k)'
    BY <1>2, <2>2, <2>6
  <2> QED BY <1>1, <1>2, <2>1, <2>4, <2>6, <2>7, SupervisorSteps
<1> QED BY <1>1, <1>3, <1>4

LEMMA SQuits ==
    ASSUME SupInv, NEW s \in StartIds, HeedStop(s) \/ CleanUp(s) \/ ExitSupervisor(s) \/ KillSupervisor(s) PROVE SupInv'
<1>1. SupTyped /\ 0 \in 0..MaxStarts /\ [l \in Labels |-> NoFile] \in [Labels -> Processes \cup {NoFile}]
  BY SupervisionAssumption DEF SupInv
<1>2. CASE HeedStop(s)
  <2>1. \A p \in alive' : p[1] # s
    BY <1>1, <1>2, OwnChildren, Places1 DEF HeedStop
  <2> QED BY <1>1, <1>2, <2>1, Quits DEF HeedStop, Lives, SupTyped
<1>3. CASE CleanUp(s)
  <2>1. \A p \in alive : p[1] # s
    BY <1>1, <1>3, OwnChildren, Places1 DEF CleanUp
  <2> QED BY <1>1, <1>3, <2>1, Quits DEF CleanUp, Lives, SupTyped
<1>4. CASE ExitSupervisor(s)
  <2>1. \A p \in alive : p[1] # s
    BY <1>1, <1>4, OwnChildren, Places1 DEF ExitSupervisor
  <2> QED BY <1>1, <1>4, <2>1, Quits DEF ExitSupervisor, Lives, SupTyped
<1>5. CASE KillSupervisor(s)
  <2>1. kills' \in 0..MaxKills
    <3>1. kills \in 0..MaxKills /\ kills < MaxKills /\ kills' = kills + 1
      BY <1>1, <1>5 DEF KillSupervisor, SupTyped
    <3> QED BY <3>1, SupervisionAssumption
  <2> QED BY <1>1, <1>5, <2>1, Quits DEF KillSupervisor, SupTyped
<1> QED BY <1>2, <1>3, <1>4, <1>5
LEMMA SChildDies ==
    ASSUME SupInv, NEW p \in alive, ChildDies(p) PROVE SupInv'
<1>1. SupTyped'
  BY DEF ChildDies, SupInv, SupTyped
<1> QED BY <1>1, CommandSteps DEF ChildDies, SupInv, LastLives, RemovedAfterDeath

-----------------------------------------------------------------------------
(* The steps of the commands.                                               *)

LEMMA SRecord == SupInv /\ Record => SupInv'
<1> SUFFICES ASSUME SupInv, Record PROVE SupInv'
  OBVIOUS
<1>1. command = "record" /\ UNCHANGED <<alive, pidfile, sentinel, crashed, started, kills>> /\ SupTyped
  BY DEF Record, SupInv
<1>2. CASE daemonpid' = started /\ Terminal("waiting") /\ UNCHANGED sup
  <2>1. SupTyped'
    BY <1>1, <1>2 DEF SupTyped, Terminal
  <2> QED BY <1>1, <1>2, <2>1, CommandSteps DEF SupInv, LastLives, Terminal
<1>3. CASE /\ sup' = [sup EXCEPT ![started].pc = IF Lives(started) THEN "killed" ELSE @]
           /\ Terminal("idle") /\ UNCHANGED daemonpid
  <2>1. CASE started \in StartIds /\ Lives(started)
    <3>1. Moves(started, "killed")
      BY <1>3, <2>1 DEF Moves
    <3>2. /\ sup' \in [StartIds -> Supervisor] /\ sup'[started].pc = "killed"
          /\ \A t \in StartIds : t # started => sup'[t] = sup[t]
      BY <1>1, <2>1, <3>1, MovedOne DEF Places
    <3>3. SupTyped'
      BY <1>1, <1>3, <3>2 DEF SupTyped, Terminal
    <3>4. \A t \in StartIds : ~Lives(t)'
      BY <3>2 DEF SupInv, LastLives, Lives
    <3> QED BY <1>1, <2>1, <3>2, <3>3, <3>4, KillSteps
  <2>2. CASE ~(started \in StartIds /\ Lives(started))
    <3>1. sup' = sup
      <4>1. CASE started \notin StartIds
        BY <1>1, <1>3, <4>1 DEF SupTyped
      <4>2. CASE started \in StartIds /\ ~Lives(started)
        <5>1. sup[started] \in Supervisor
          BY <1>1, <4>2 DEF SupTyped
        <5>2. [sup[started] EXCEPT !.pc = sup[started].pc] = sup[started]
          BY <5>1 DEF Supervisor
        <5> QED BY <1>1, <1>3, <4>2, <5>2 DEF SupTyped
      <4> QED BY <2>2, <4>1, <4>2
    <3>2. SupTyped'
      BY <1>1, <1>3, <3>1 DEF SupTyped, Terminal
    <3>3. \A t \in StartIds : ~Lives(t)
      BY <2>2 DEF SupInv, LastLives
    <3> QED BY <1>1, <1>3, <3>1, <3>2, <3>3, CommandSteps DEF Terminal
  <2> QED BY <2>1, <2>2
<1> QED BY <1>2, <1>3 DEF Record

LEMMA SKillDaemon == SupInv /\ KillDaemon => SupInv'
<1> SUFFICES ASSUME SupInv, KillDaemon PROVE SupInv'
  OBVIOUS
<1>1. /\ command = "kill daemon" /\ command' = "remove" /\ SupTyped
      /\ sup' = [s \in StartIds |-> IF s = daemonpid /\ Lives(s) THEN [sup[s] EXCEPT !.pc = "killed"] ELSE sup[s]]
      /\ UNCHANGED <<alive, pidfile, daemonpid, sentinel, crashed, started, kills>>
  BY DEF KillDaemon, Terminal, SupInv
<1>2. ASSUME NEW s \in StartIds
      PROVE  sup'[s] \in Supervisor /\ ~Lives(s)' /\ (sup'[s] = sup[s] \/ (Lives(s) /\ sup'[s].pc = "killed"))
  <2>1. sup[s] \in Supervisor
    BY <1>1 DEF SupTyped
  <2>2. [sup[s] EXCEPT !.pc = "killed"] \in Supervisor /\ [sup[s] EXCEPT !.pc = "killed"].pc = "killed"
    BY <2>1 DEF Supervisor, Places
  <2>3. Lives(s) => s = daemonpid
    BY <1>1 DEF SupInv, LastLives
  <2>4. CASE Lives(s)
    <3>1. sup'[s] = [sup[s] EXCEPT !.pc = "killed"]
      BY <1>1, <2>3, <2>4
    <3> QED BY <2>2, <2>4, <3>1 DEF Lives
  <2>5. CASE ~Lives(s)
    <3>1. sup'[s] = sup[s]
      BY <1>1, <2>5
    <3> QED BY <2>1, <2>5, <3>1 DEF Lives
  <2> QED BY <2>4, <2>5
<1>3. SupTyped'
  <2>1. sup' \in [StartIds -> Supervisor]
    BY <1>1, <1>2
  <2> QED BY <1>1, <2>1 DEF SupTyped
<1> QED BY <1>1, <1>2, <1>3, KillSteps

\* The commands that look, wait and change files.
LEMMA SCommand ==
    SupInv /\ (\/ Healthy \/ GiveUpStart \/ RequestStop \/ RequestHeeded \/ RequestTimesOut
               \/ StopAsks \/ Stopped \/ StopTimesOut \/ RunStop \/ StopIdle \/ RemoveFiles
               \/ KillRecorded("backend", "kill backend", "kill frontend")
               \/ KillRecorded("frontend", "kill frontend", "kill daemon")) => SupInv'
<1>1. SupInv => SupTyped /\ 0 \in 0..MaxStarts /\ [l \in Labels |-> NoFile] \in [Labels -> Processes \cup {NoFile}]
  BY SupervisionAssumption DEF SupInv
<1>2. ASSUME SupInv, Healthy \/ GiveUpStart \/ RequestHeeded \/ Stopped \/ StopTimesOut \/ RunStop PROVE SupInv'
  <2>1. /\ UNCHANGED <<sup, alive, pidfile, daemonpid, sentinel, crashed, started, kills>> /\ command # "record"
        /\ command' \in {"idle", "ask", "kill backend", "stop"}
    BY <1>2 DEF Healthy, GiveUpStart, RequestHeeded, Stopped, StopTimesOut, RunStop, Terminal
  <2>2. SupTyped'
    BY <1>1, <1>2, <2>1 DEF SupTyped
  <2> QED BY <1>2, <2>1, <2>2, CommandSteps DEF SupInv, LastLives
<1>3. ASSUME SupInv, RequestStop \/ RequestTimesOut \/ StopAsks PROVE SupInv'
  <2>1. /\ UNCHANGED <<sup, alive, pidfile, daemonpid, crashed, started, kills>> /\ command # "record"
        /\ command' \in {"idle", "asked", "stopping"} /\ sentinel' \in {0, started}
    BY <1>3 DEF RequestStop, RequestTimesOut, StopAsks, Terminal
  <2>2. SupTyped'
    BY <1>1, <1>3, <2>1 DEF SupTyped
  <2> QED BY <1>3, <2>1, <2>2, CommandSteps DEF SupInv, LastLives
<1>4. ASSUME SupInv, StopIdle \/ RemoveFiles PROVE SupInv'
  <2>1. /\ UNCHANGED <<sup, alive, crashed, started, kills>> /\ command' = "idle"
        /\ pidfile' = [l \in Labels |-> NoFile] /\ daemonpid' = 0 /\ sentinel' = 0
    BY <1>4 DEF StopIdle, RemoveFiles, Terminal
  <2>2. SupTyped'
    BY <1>1, <1>4, <2>1 DEF SupTyped
  <2>3. \A s \in StartIds : ~Lives(s)
    BY <1>4 DEF StopIdle, RemoveFiles, SupInv, LastLives, RemovedAfterDeath, DaemonLives, StartIds
  <2> QED BY <1>4, <2>1, <2>2, <2>3, CommandSteps
<1>5. ASSUME SupInv, NEW l \in Labels, NEW here \in {"kill backend", "kill frontend"},
             NEW next \in {"kill frontend", "kill daemon"}, KillRecorded(l, here, next)
      PROVE  SupInv'
  <2>1. /\ UNCHANGED <<sup, pidfile, daemonpid, sentinel, crashed, started, kills>>
        /\ alive' \subseteq alive /\ command' = next /\ command # "record"
    BY <1>5 DEF KillRecorded, Terminal
  <2>2. SupTyped'
    BY <1>1, <1>5, <2>1 DEF SupTyped
  <2> QED BY <1>5, <2>1, <2>2, CommandSteps DEF SupInv, LastLives
<1>6. "backend" \in Labels /\ "frontend" \in Labels
  BY DEF Labels
<1> QED BY <1>2, <1>3, <1>4, <1>5, <1>6

LEMMA SupNextHolds == SupInv /\ [SupNext]_supervisionVars => SupInv'
<1> SUFFICES ASSUME SupInv, [SupNext]_supervisionVars PROVE SupInv'
  OBVIOUS
<1>1. CASE UNCHANGED supervisionVars
  BY ZenonT(60), <1>1 DEF supervisionVars, SupInv, SupTyped, ChildrenAreKnown, NoneAhead, LastLives, RemovedAfterDeath, Lives, Running, Child
<1>2. ASSUME NEW s \in StartIds, Supervise(s) \/ KillSupervisor(s) PROVE SupInv'
  BY <1>2, SBoot, SBootFrontend, SLose, SStartAgain, SQuits DEF Supervise
<1>3. CASE Command
  BY <1>3, SRecord, SKillDaemon, SCommand DEF Command
<1> QED BY <1>1, <1>2, <1>3, SStart, SCommand, SChildDies DEF SupNext

\* The invariant of supervisors and their children stands.
THEOREM SupInvariance == SupSpec => []SupInv
BY SupInitHolds, SupNextHolds, PTL DEF SupSpec

\* Types: of the supervisors, their children and files, and the command under way.
THEOREM SupervisionTyped == SupSpec => []SupTypeOK
<1>1. SupInv => SupTypeOK
  BY DEF SupInv, SupTyped, SupTypeOK, Supervisor, Places
<1> QED BY <1>1, SupInvariance, PTL

\* However supervisors are killed, not recorded, given up on or stopped: there is one at a time,
\* which daemon.pid names, and one that ended by itself has left no child running.
THEOREM ProcessesAreSupervised == SupSpec => []Supervised
<1>1. SupInv => Supervised
  <2> SUFFICES ASSUME SupInv PROVE LeavesNothingBehind /\ OneSupervisor
    BY DEF Supervised
  <2>1. LeavesNothingBehind
    BY OwnChildren, Places1 DEF LeavesNothingBehind, SupInv
  <2>2. OneSupervisor
    BY DEF OneSupervisor, SupInv, LastLives
  <2> QED BY <2>1, <2>2
<1> QED BY <1>1, SupInvariance, PTL
-----------------------------------------------------------------------------
(* What is installed.                                                       *)

\* An archive is on its way from its staging to the link.
Staged == pc \in {"fetched", "stop", "install", "place", "launcher", "point", "restart"}

\* What the link names is whole, and so is what the link is about to name.
LinkIsWhole ==
    /\ installKind = "release" =>
           /\ current \in packages \cap built
           /\ service # NoVersion => service \in packages \cap built
           /\ pc \in {"launcher", "point"} => stagedPackage \in packages \cap built
           /\ pc \notin {"pull", "check", "confirm"}
           /\ Staged => stagedPackage \in Versions
    /\ installKind = "checkout" => pc \notin {"fetched", "place", "launcher", "point"}

\* A service that was stopped for an update stays down until the update ends.
DownForUpdate == guard => service = NoVersion /\ pc \notin {"idle", "fetched", "stop"}

RelInv == ReleaseTypeOK /\ LinkIsWhole /\ DownForUpdate

\* One more, below a bound, stays within it.
LEMMA OneMore == ASSUME NEW n \in Nat, NEW i \in 0..n, i < n PROVE i + 1 \in 0..n
OBVIOUS

LEMMA ReleaseInitHolds == ReleaseInit => RelInv
<1> SUFFICES ASSUME ReleaseInit PROVE RelInv
  OBVIOUS
<1>c. 1 \in Versions /\ 0 \in 0..MaxUpdates
  BY ReleaseAssumption DEF Versions
<1>t. ReleaseTypeOK
  BY <1>c DEF ReleaseInit, ReleaseTypeOK, NoVersion
<1>l. LinkIsWhole
  BY DEF ReleaseInit, LinkIsWhole, Staged, NoVersion
<1>d. DownForUpdate
  BY DEF ReleaseInit, DownForUpdate
<1> QED BY <1>t, <1>l, <1>d DEF RelInv

LEMMA RFailGuarded ==
    ASSUME RelInv, FailGuarded, UNCHANGED <<installKind, published, updates, current>>, packages' = packages, built' = built,
           venv' \subseteq Versions
    PROVE  RelInv'
<1>t. ReleaseTypeOK'
  BY ReleaseAssumption DEF FailGuarded, Leave, RelInv, ReleaseTypeOK, NoVersion
<1>l. LinkIsWhole'
  BY ReleaseAssumption DEF FailGuarded, Leave, RelInv, ReleaseTypeOK, LinkIsWhole, Staged, NoVersion
<1>d. DownForUpdate'
  BY ReleaseAssumption DEF FailGuarded, Leave, RelInv, ReleaseTypeOK, DownForUpdate, NoVersion
<1> QED BY <1>t, <1>l, <1>d DEF RelInv

LEMMA RBetween == RelInv /\ (Publish \/ UserStarts \/ UserStops \/ BeginCheckout) => RelInv'
<1>1. ASSUME RelInv, Publish PROVE RelInv'
  <2>c. published' \in Versions
    <3>1. published \in 1..MaxVersion /\ published < MaxVersion /\ published' = published + 1
      BY <1>1 DEF Publish, RelInv, ReleaseTypeOK, Versions
    <3> QED BY <3>1, ReleaseAssumption DEF Versions
  <2>t. ReleaseTypeOK'
    BY <1>1, <2>c, ReleaseAssumption DEF Publish, RelInv, ReleaseTypeOK, NoVersion
  <2>l. LinkIsWhole'
    BY <1>1, <2>c, ReleaseAssumption DEF Publish, RelInv, ReleaseTypeOK, LinkIsWhole, Staged, NoVersion
  <2>d. DownForUpdate'
    BY <1>1, <2>c, ReleaseAssumption DEF Publish, RelInv, ReleaseTypeOK, DownForUpdate, NoVersion
  <2> QED BY <2>t, <2>l, <2>d DEF RelInv
<1>2. ASSUME RelInv, UserStarts PROVE RelInv'
  <2>t. ReleaseTypeOK'
    BY <1>2, ReleaseAssumption DEF UserStarts, RelInv, ReleaseTypeOK, NoVersion
  <2>l. LinkIsWhole'
    BY <1>2, ReleaseAssumption DEF UserStarts, RelInv, ReleaseTypeOK, LinkIsWhole, Staged, NoVersion
  <2>d. DownForUpdate'
    BY <1>2, ReleaseAssumption DEF UserStarts, RelInv, ReleaseTypeOK, DownForUpdate, NoVersion
  <2> QED BY <2>t, <2>l, <2>d DEF RelInv
<1>3. ASSUME RelInv, UserStops PROVE RelInv'
  <2>t. ReleaseTypeOK'
    BY <1>3, ReleaseAssumption DEF UserStops, RelInv, ReleaseTypeOK, NoVersion
  <2>l. LinkIsWhole'
    BY <1>3, ReleaseAssumption DEF UserStops, RelInv, ReleaseTypeOK, LinkIsWhole, Staged, NoVersion
  <2>d. DownForUpdate'
    BY <1>3, ReleaseAssumption DEF UserStops, RelInv, ReleaseTypeOK, DownForUpdate, NoVersion
  <2> QED BY <2>t, <2>l, <2>d DEF RelInv
<1>4. ASSUME RelInv, BeginCheckout PROVE RelInv'
  <2>c. updates' \in 0..MaxUpdates
    <3>1. updates \in 0..MaxUpdates /\ updates < MaxUpdates /\ updates' = updates + 1
      BY <1>4 DEF BeginCheckout, RelInv, ReleaseTypeOK
    <3> QED BY <3>1, OneMore, ReleaseAssumption
  <2>t. ReleaseTypeOK'
    BY <1>4, <2>c, ReleaseAssumption DEF BeginCheckout, RelInv, ReleaseTypeOK, NoVersion
  <2>l. LinkIsWhole'
    BY <1>4, <2>c, ReleaseAssumption DEF BeginCheckout, RelInv, ReleaseTypeOK, LinkIsWhole, Staged, NoVersion
  <2>d. DownForUpdate'
    BY <1>4, <2>c, ReleaseAssumption DEF BeginCheckout, RelInv, ReleaseTypeOK, DownForUpdate, NoVersion
  <2> QED BY <2>t, <2>l, <2>d DEF RelInv
<1> QED BY <1>1, <1>2, <1>3, <1>4

LEMMA RStage == RelInv /\ (StageArchive \/ PrepareStaged \/ StopForUpdate) => RelInv'
<1>1. ASSUME RelInv, StageArchive PROVE RelInv'
  <2>c. updates' \in 0..MaxUpdates
    <3>1. updates \in 0..MaxUpdates /\ updates < MaxUpdates /\ updates' = updates + 1
      BY <1>1 DEF StageArchive, RelInv, ReleaseTypeOK
    <3> QED BY <3>1, OneMore, ReleaseAssumption
  <2>t. ReleaseTypeOK'
    BY <1>1, <2>c, ReleaseAssumption DEF StageArchive, Leave, RelInv, ReleaseTypeOK, NoVersion
  <2>l. LinkIsWhole'
    BY <1>1, <2>c, ReleaseAssumption DEF StageArchive, Leave, RelInv, ReleaseTypeOK, LinkIsWhole, Staged, NoVersion
  <2>d. DownForUpdate'
    BY <1>1, <2>c, ReleaseAssumption DEF StageArchive, Leave, RelInv, ReleaseTypeOK, DownForUpdate, NoVersion
  <2> QED BY <2>t, <2>l, <2>d DEF RelInv
<1>2. ASSUME RelInv, PrepareStaged PROVE RelInv'
  <2>t. ReleaseTypeOK'
    BY <1>2, ReleaseAssumption DEF PrepareStaged, Leave, RelInv, ReleaseTypeOK, NoVersion
  <2>l. LinkIsWhole'
    BY <1>2, ReleaseAssumption DEF PrepareStaged, Leave, RelInv, ReleaseTypeOK, LinkIsWhole, Staged, NoVersion
  <2>d. DownForUpdate'
    BY <1>2, ReleaseAssumption DEF PrepareStaged, Leave, RelInv, ReleaseTypeOK, DownForUpdate, NoVersion
  <2> QED BY <2>t, <2>l, <2>d DEF RelInv
<1>3. ASSUME RelInv, StopForUpdate PROVE RelInv'
  <2>t. ReleaseTypeOK'
    BY <1>3, ReleaseAssumption DEF StopForUpdate, Leave, RelInv, ReleaseTypeOK, NoVersion
  <2>l. LinkIsWhole'
    BY <1>3, ReleaseAssumption DEF StopForUpdate, Leave, RelInv, ReleaseTypeOK, LinkIsWhole, Staged, NoVersion
  <2>d. DownForUpdate'
    BY <1>3, ReleaseAssumption DEF StopForUpdate, Leave, RelInv, ReleaseTypeOK, DownForUpdate, NoVersion
  <2> QED BY <2>t, <2>l, <2>d DEF RelInv
<1> QED BY <1>1, <1>2, <1>3

LEMMA RCheckout == RelInv /\ (Pull \/ CheckPrerequisites \/ Confirm) => RelInv'
<1>1. ASSUME RelInv, Pull PROVE RelInv'
  <2>1. CASE FailGuarded /\ UNCHANGED <<packages, built, current>>
    BY <1>1, <2>1, RFailGuarded DEF Pull, RelInv, ReleaseTypeOK
  <2>2. CASE ~(FailGuarded /\ UNCHANGED <<packages, built, current>>)
    <3>t. ReleaseTypeOK'
      BY <1>1, <2>2, ReleaseAssumption DEF Pull, RelInv, ReleaseTypeOK, NoVersion
    <3>l. LinkIsWhole'
      BY <1>1, <2>2, ReleaseAssumption DEF Pull, RelInv, ReleaseTypeOK, LinkIsWhole, Staged, NoVersion
    <3>d. DownForUpdate'
      BY <1>1, <2>2, ReleaseAssumption DEF Pull, RelInv, ReleaseTypeOK, DownForUpdate, NoVersion
    <3> QED BY <3>t, <3>l, <3>d DEF RelInv
  <2> QED BY <2>1, <2>2
<1>2. ASSUME RelInv, CheckPrerequisites PROVE RelInv'
  <2>1. CASE FailGuarded
    BY <1>2, <2>1, RFailGuarded DEF CheckPrerequisites, RelInv, ReleaseTypeOK
  <2>2. CASE ~(FailGuarded)
    <3>t. ReleaseTypeOK'
      BY <1>2, <2>2, ReleaseAssumption DEF CheckPrerequisites, RelInv, ReleaseTypeOK, NoVersion
    <3>l. LinkIsWhole'
      BY <1>2, <2>2, ReleaseAssumption DEF CheckPrerequisites, RelInv, ReleaseTypeOK, LinkIsWhole, Staged, NoVersion
    <3>d. DownForUpdate'
      BY <1>2, <2>2, ReleaseAssumption DEF CheckPrerequisites, RelInv, ReleaseTypeOK, DownForUpdate, NoVersion
    <3> QED BY <3>t, <3>l, <3>d DEF RelInv
  <2> QED BY <2>1, <2>2
<1>3. ASSUME RelInv, Confirm PROVE RelInv'
  <2>t. ReleaseTypeOK'
    BY <1>3, ReleaseAssumption DEF Confirm, Leave, RelInv, ReleaseTypeOK, NoVersion
  <2>l. LinkIsWhole'
    BY <1>3, ReleaseAssumption DEF Confirm, Leave, RelInv, ReleaseTypeOK, LinkIsWhole, Staged, NoVersion
  <2>d. DownForUpdate'
    BY <1>3, ReleaseAssumption DEF Confirm, Leave, RelInv, ReleaseTypeOK, DownForUpdate, NoVersion
  <2> QED BY <2>t, <2>l, <2>d DEF RelInv
<1> QED BY <1>1, <1>2, <1>3

LEMMA RInstall == RelInv /\ Install => RelInv'
<1>1. ASSUME RelInv, Install PROVE RelInv'
  <2>1. Target \in Versions
    BY <1>1 DEF Install, Target, RelInv, ReleaseTypeOK, LinkIsWhole, Staged
  <2>2. CASE FailGuarded /\ venv' \in {venv, venv \cup {Target}, {Target}} /\ UNCHANGED built
    BY <1>1, <2>1, <2>2, RFailGuarded DEF Install, RelInv, ReleaseTypeOK
  <2>3. CASE ~(FailGuarded /\ venv' \in {venv, venv \cup {Target}, {Target}} /\ UNCHANGED built)
    <3>t. ReleaseTypeOK'
      BY <1>1, <2>1, <2>3, ReleaseAssumption DEF Install, RelInv, ReleaseTypeOK, NoVersion
    <3>l. LinkIsWhole'
      BY <1>1, <2>1, <2>3, ReleaseAssumption DEF Install, RelInv, ReleaseTypeOK, LinkIsWhole, Staged, NoVersion
    <3>d. DownForUpdate'
      BY <1>1, <2>1, <2>3, ReleaseAssumption DEF Install, RelInv, ReleaseTypeOK, DownForUpdate, NoVersion
    <3> QED BY <3>t, <3>l, <3>d DEF RelInv
  <2> QED BY <2>2, <2>3
<1> QED BY <1>1

LEMMA RPlace == RelInv /\ (Place \/ Launcher \/ Point \/ Restart) => RelInv'
<1>1. ASSUME RelInv, Place PROVE RelInv'
  <2>1. CASE FailGuarded /\ UNCHANGED <<packages, built>>
    BY <1>1, <2>1, RFailGuarded DEF Place, RelInv, ReleaseTypeOK
  <2>2. CASE ~(FailGuarded /\ UNCHANGED <<packages, built>>)
    <3>t. ReleaseTypeOK'
      BY <1>1, <2>2, ReleaseAssumption DEF Place, RelInv, ReleaseTypeOK, LinkIsWhole, Staged, NoVersion
    <3>l. LinkIsWhole'
      BY <1>1, <2>2, ReleaseAssumption DEF Place, RelInv, ReleaseTypeOK, LinkIsWhole, Staged, NoVersion
    <3>d. DownForUpdate'
      BY <1>1, <2>2, ReleaseAssumption DEF Place, RelInv, ReleaseTypeOK, DownForUpdate, NoVersion
    <3> QED BY <3>t, <3>l, <3>d DEF RelInv
  <2> QED BY <2>1, <2>2
<1>2. ASSUME RelInv, Launcher PROVE RelInv'
  <2>1. CASE FailGuarded
    BY <1>2, <2>1, RFailGuarded DEF Launcher, RelInv, ReleaseTypeOK
  <2>2. CASE ~(FailGuarded)
    <3>t. ReleaseTypeOK'
      BY <1>2, <2>2, ReleaseAssumption DEF Launcher, RelInv, ReleaseTypeOK, NoVersion
    <3>l. LinkIsWhole'
      BY <1>2, <2>2, ReleaseAssumption DEF Launcher, RelInv, ReleaseTypeOK, LinkIsWhole, Staged, NoVersion
    <3>d. DownForUpdate'
      BY <1>2, <2>2, ReleaseAssumption DEF Launcher, RelInv, ReleaseTypeOK, DownForUpdate, NoVersion
    <3> QED BY <3>t, <3>l, <3>d DEF RelInv
  <2> QED BY <2>1, <2>2
<1>3. ASSUME RelInv, Point PROVE RelInv'
  <2>1. CASE FailGuarded /\ UNCHANGED current
    BY <1>3, <2>1, RFailGuarded DEF Point, RelInv, ReleaseTypeOK
  <2>2. CASE ~(FailGuarded /\ UNCHANGED current)
    <3>t. ReleaseTypeOK'
      BY <1>3, <2>2, ReleaseAssumption DEF Point, RelInv, ReleaseTypeOK, LinkIsWhole, Staged, NoVersion
    <3>l. LinkIsWhole'
      BY <1>3, <2>2, ReleaseAssumption DEF Point, RelInv, ReleaseTypeOK, LinkIsWhole, Staged, NoVersion
    <3>d. DownForUpdate'
      BY <1>3, <2>2, ReleaseAssumption DEF Point, RelInv, ReleaseTypeOK, DownForUpdate, NoVersion
    <3> QED BY <3>t, <3>l, <3>d DEF RelInv
  <2> QED BY <2>1, <2>2
<1>4. ASSUME RelInv, Restart PROVE RelInv'
  <2>t. ReleaseTypeOK'
    BY <1>4, ReleaseAssumption DEF Restart, Leave, RelInv, ReleaseTypeOK, NoVersion
  <2>l. LinkIsWhole'
    BY <1>4, ReleaseAssumption DEF Restart, Leave, RelInv, ReleaseTypeOK, LinkIsWhole, Staged, NoVersion
  <2>d. DownForUpdate'
    BY <1>4, ReleaseAssumption DEF Restart, Leave, RelInv, ReleaseTypeOK, DownForUpdate, NoVersion
  <2> QED BY <2>t, <2>l, <2>d DEF RelInv
<1> QED BY <1>1, <1>2, <1>3, <1>4

LEMMA RKilled == RelInv /\ Killed => RelInv'
<1>1. ASSUME RelInv, Killed PROVE RelInv'
  <2>1. pc = "install" => Target \in Versions
    BY <1>1 DEF Target, RelInv, ReleaseTypeOK, LinkIsWhole, Staged
  <2>t. ReleaseTypeOK'
    BY <1>1, <2>1, ReleaseAssumption DEF Killed, Leave, RelInv, ReleaseTypeOK, NoVersion
  <2>l. LinkIsWhole'
    BY <1>1, <2>1, ReleaseAssumption DEF Killed, Leave, RelInv, ReleaseTypeOK, LinkIsWhole, Staged, NoVersion
  <2>d. DownForUpdate'
    BY <1>1, <2>1, ReleaseAssumption DEF Killed, Leave, RelInv, ReleaseTypeOK, DownForUpdate, NoVersion
  <2> QED BY <2>t, <2>l, <2>d DEF RelInv
<1> QED BY <1>1

LEMMA ReleaseNextHolds == RelInv /\ [ReleaseNext]_releaseVars => RelInv'
<1>1. RelInv /\ UNCHANGED releaseVars => RelInv'
  <2> SUFFICES ASSUME RelInv, UNCHANGED releaseVars PROVE RelInv'
    OBVIOUS
  <2>t. ReleaseTypeOK'
    BY DEF RelInv, releaseVars, ReleaseTypeOK
  <2>l. LinkIsWhole'
    BY DEF RelInv, releaseVars, LinkIsWhole, Staged
  <2>d. DownForUpdate'
    BY DEF RelInv, releaseVars, DownForUpdate
  <2> QED BY <2>t, <2>l, <2>d DEF RelInv
<1> QED BY <1>1, RBetween, RStage, RCheckout, RInstall, RPlace, RKilled DEF ReleaseNext

\* The invariant of updates stands.
THEOREM ReleaseInvariance == ReleaseSpec => []RelInv
BY ReleaseInitHolds, ReleaseNextHolds, PTL DEF ReleaseSpec

\* Types: of the packages, the link, the service and the update under way.
THEOREM ReleaseTyped == ReleaseSpec => []ReleaseTypeOK
<1>1. RelInv => ReleaseTypeOK
  BY DEF RelInv
<1> QED BY <1>1, ReleaseInvariance, PTL

\* A step that ends an update which had stopped the service starts the service again.
LEMMA EndsWithService ==
    ASSUME RelInv, ReleaseNext, guard, pc' = "idle", outcome' \in {"failed", "updated"}
    PROVE  service' = current'
<1>1. pc \notin {"idle", "fetched", "stop"}
  BY DEF RelInv, DownForUpdate
<1>2. ASSUME FailGuarded, UNCHANGED current PROVE service' = current'
  BY <1>2 DEF FailGuarded, Leave
<1>3. CASE Publish \/ UserStarts \/ UserStops \/ StageArchive \/ PrepareStaged \/ BeginCheckout \/ StopForUpdate
  BY <1>1, <1>3 DEF Publish, UserStarts, UserStops, StageArchive, PrepareStaged, BeginCheckout, StopForUpdate
<1>4. CASE Pull \/ CheckPrerequisites \/ Install \/ Place \/ Launcher \/ Point
  BY <1>1, <1>2, <1>4 DEF Pull, CheckPrerequisites, Install, Place, Launcher, Point
<1>5. CASE Confirm \/ Restart \/ Killed
  BY <1>1, <1>5 DEF Confirm, Restart, Killed, Leave
<1> QED BY <1>3, <1>4, <1>5 DEF ReleaseNext

\* Wherever an update fails or is killed, what is installed can be started, and a service that it
\* stopped is given back.
THEOREM UpdatesAreWhole == ReleaseSpec => UpdateHolds
<1>1. RelInv => CurrentIsComplete
  BY DEF RelInv, LinkIsWhole, CurrentIsComplete
<1>2. RelInv /\ [ReleaseNext]_releaseVars =>
        [(guard /\ pc' = "idle" /\ outcome' \in {"failed", "updated"}) => service' = current']_releaseVars
  BY EndsWithService
<1> QED BY <1>1, <1>2, ReleaseInvariance, PTL DEF UpdateHolds, ServiceComesBack, ReleaseSpec

\* Both halves of the command line.
THEOREM CommandLineIsSafe == SupSpec /\ ReleaseSpec => CommandLineHolds
BY ProcessesAreSupervised, UpdatesAreWhole, PTL DEF CommandLineHolds

-----------------------------------------------------------------------------
\* Where a thread stands while it has the lock, and what the lock does when a
\* thread goes on: it stays as it is, is taken, or is given back.
Inside == {"probe", "load"}

LockMoves(t, to) ==
    \/ encLock' = encLock /\ doing[t] \notin Inside /\ to \notin Inside
    \/ encLock = Unlocked /\ encLock' = t /\ to \in Inside
    \/ encLock' = Unlocked /\ doing[t] \in Inside /\ to \notin Inside

\* Only a warm-up begins; it never uses an encoder that it found, and is asked for while none runs
\* and none is over.
WarmUpFinds ==
    /\ WarmUpIsUnderWay
    /\ doing[Warmer] \notin {"call", "encode"}
    /\ doing[Warmer] = "begin" => ~warming /\ ~warmed
    /\ \A t \in Queries : doing[t] # "begin"

\* A thread goes on: another than the warm-up, or this, to its end or not.
WarmUpMoves(t, to) ==
    \/ t # Warmer /\ to # "begin" /\ UNCHANGED warmVars
    \/ t = Warmer /\ doing[t] \notin {"idle", "begin"} /\ to \notin {"idle", "begin", "call", "encode"} /\ UNCHANGED warmVars
    \/ t = Warmer /\ to = "idle" /\ warming' = FALSE /\ warmed' = TRUE

Steps(t, to) == Goes(t, to) /\ LockMoves(t, to) /\ WarmUpMoves(t, to)

LEMMA LockGoesWithItsHolder ==
    ASSUME EncTypeOK, LockIsInUse, NEW t \in Asking, NEW to, Steps(t, to)
    PROVE  LockIsInUse'
<1>1. Unlocked \notin Asking
  BY EncoderAssumption DEF Asking, Unlocked, Warmer
<1>2. doing' = [doing EXCEPT ![t] = to] /\ doing \in [Asking -> {"idle", "begin", "remote", "remote-lock", "probe", "call", "model", "model-lock", "load", "encode"}]
  BY DEF Steps, Goes, EncTypeOK
<1>3. ASSUME NEW u \in Asking PROVE (encLock' = u) <=> (doing'[u] \in Inside)
  <2>1. /\ (encLock = u) <=> (doing[u] \in Inside)
        /\ (encLock = t) <=> (doing[t] \in Inside)
    BY DEF LockIsInUse, Inside
  <2>2. CASE u = t
    BY <1>1, <1>2, <2>1, <2>2 DEF Steps, LockMoves
  <2>3. CASE u # t
    BY <1>1, <1>2, <2>1, <2>3 DEF Steps, LockMoves
  <2> QED BY <2>2, <2>3
<1> QED BY <1>3 DEF LockIsInUse, Inside

LEMMA WarmUpGoesOn ==
    ASSUME EncTypeOK, WarmUpFinds, NEW t \in Asking, NEW to, Steps(t, to)
    PROVE  WarmUpFinds'
<1>1. Warmer \in Asking /\ Warmer \notin Queries /\ Queries \subseteq Asking
  BY EncoderAssumption DEF Asking
<1>2. doing' = [doing EXCEPT ![t] = to] /\ DOMAIN doing = Asking
  BY DEF Steps, Goes, EncTypeOK
<1>3. CASE t # Warmer
  <2>1. to # "begin" /\ warming' = warming /\ warmed' = warmed
    BY <1>3 DEF Steps, WarmUpMoves, warmVars
  <2>2. doing'[Warmer] = doing[Warmer] /\ \A q \in Queries : doing'[q] # "begin"
    BY <1>1, <1>2, <1>3, <2>1 DEF WarmUpFinds
  <2> QED BY <2>1, <2>2 DEF WarmUpFinds, WarmUpIsUnderWay
<1>4. CASE t = Warmer
  <2>1. doing'[Warmer] = to /\ \A q \in Queries : doing'[q] # "begin"
    BY <1>1, <1>2, <1>4 DEF WarmUpFinds
  <2>2. CASE doing[t] \notin {"idle", "begin"} /\ to \notin {"idle", "begin", "call", "encode"} /\ UNCHANGED warmVars
    BY <1>4, <2>1, <2>2 DEF WarmUpFinds, WarmUpIsUnderWay, warmVars
  <2>3. CASE to = "idle" /\ warming' = FALSE /\ warmed' = TRUE
    BY <1>4, <2>1, <2>3 DEF WarmUpFinds, WarmUpIsUnderWay
  <2> QED BY <1>4, <2>2, <2>3 DEF Steps, WarmUpMoves
<1> QED BY <1>3, <1>4

\* Every action of a thread is such a step.
LEMMA ThreadsStep ==
    ASSUME EncTypeOK, LockIsInUse, WarmUpFinds, NEW t \in Asking, Step(t)
    PROVE  \E to : Steps(t, to)
<1>1. CASE CheckRemote(t)
  <2>1. doing[t] = "remote" /\ encLock' = encLock
    BY <1>1 DEF CheckRemote
  <2>2. ASSUME NEW p, WithRemote(t, p) PROVE \E to : Steps(t, to)
    BY <2>1, <2>2 DEF WithRemote, Steps, LockMoves, WarmUpMoves, Inside
  <2>3. ASSUME WithoutRemote(t) PROVE Steps(t, "model")
    BY <2>1, <2>3 DEF WithoutRemote, Steps, LockMoves, WarmUpMoves, Inside, warmVars
  <2>4. ASSUME Goes(t, "remote-lock"), UNCHANGED <<using, warming, warmed>> PROVE Steps(t, "remote-lock")
    BY <2>1, <2>4 DEF Steps, LockMoves, WarmUpMoves, Inside, warmVars
  <2> QED BY <1>1, <2>2, <2>3, <2>4 DEF CheckRemote
<1>2. CASE LockRemote(t)
  <2>1. doing[t] = "remote-lock" /\ encLock = Unlocked
    BY <1>2 DEF LockRemote
  <2>2. CASE WithRemote(t, remote) /\ UNCHANGED encLock
    BY <2>1, <2>2 DEF WithRemote, Steps, LockMoves, WarmUpMoves, Inside
  <2>3. CASE Goes(t, "probe") /\ encLock' = t /\ UNCHANGED warmVars
    BY <2>1, <2>3 DEF Steps, LockMoves, WarmUpMoves, Inside
  <2>4. CASE Goes(t, "model") /\ UNCHANGED encLock /\ UNCHANGED warmVars
    BY <2>1, <2>4 DEF Steps, LockMoves, WarmUpMoves, Inside
  <2> QED BY <1>2, <2>2, <2>3, <2>4 DEF LockRemote
<1>3. CASE Probe(t)
  <2>1. doing[t] = "probe" /\ encLock' = Unlocked
    BY <1>3 DEF Probe
  <2>2. CASE WithRemote(t, using[t])
    BY <2>1, <2>2 DEF WithRemote, Steps, LockMoves, WarmUpMoves, Inside
  <2>3. CASE Goes(t, "model") /\ UNCHANGED warmVars
    BY <2>1, <2>3 DEF Steps, LockMoves, WarmUpMoves, Inside
  <2> QED BY <1>3, <2>2, <2>3 DEF Probe
<1>4. CASE CallRemote(t)
  <2>1. doing[t] = "call" /\ UNCHANGED <<encLock, warmVars>> /\ t # Warmer
    BY <1>4 DEF CallRemote, WarmUpFinds
  <2>2. CASE Goes(t, "idle")
    BY <2>1, <2>2 DEF Steps, LockMoves, WarmUpMoves, Inside
  <2>3. CASE Goes(t, "model")
    BY <2>1, <2>3 DEF Steps, LockMoves, WarmUpMoves, Inside
  <2> QED BY <1>4, <2>2, <2>3 DEF CallRemote
<1>5. CASE CheckLocal(t)
  <2>1. doing[t] = "model" /\ encLock' = encLock
    BY <1>5 DEF CheckLocal
  <2>2. CASE WithLocal(t, local)
    BY <2>1, <2>2 DEF WithLocal, Steps, LockMoves, WarmUpMoves, Inside
  <2>3. CASE Goes(t, "model-lock") /\ UNCHANGED warmVars
    BY <2>1, <2>3 DEF Steps, LockMoves, WarmUpMoves, Inside
  <2> QED BY <1>5, <2>2, <2>3 DEF CheckLocal
<1>6. CASE LockLocal(t)
  <2>1. doing[t] = "model-lock" /\ encLock = Unlocked
    BY <1>6 DEF LockLocal
  <2>2. CASE WithLocal(t, local) /\ UNCHANGED encLock
    BY <2>1, <2>2 DEF WithLocal, Steps, LockMoves, WarmUpMoves, Inside
  <2>3. CASE Goes(t, "load") /\ encLock' = t /\ UNCHANGED warmVars
    BY <2>1, <2>3 DEF Steps, LockMoves, WarmUpMoves, Inside
  <2> QED BY <1>6, <2>2, <2>3 DEF LockLocal
<1>7. CASE Load(t)
  <2>1. doing[t] = "load" /\ encLock' = Unlocked /\ WithLocal(t, usable)
    BY <1>7 DEF Load
  <2> QED BY <2>1 DEF WithLocal, Steps, LockMoves, WarmUpMoves, Inside
<1>8. CASE EncodeLocal(t)
  <2>1. doing[t] = "encode" /\ Goes(t, "idle") /\ UNCHANGED <<encLock, warmVars>> /\ t # Warmer
    BY <1>8 DEF EncodeLocal, WarmUpFinds
  <2> QED BY <2>1 DEF Steps, LockMoves, WarmUpMoves, Inside
<1> QED BY <1>1, <1>2, <1>3, <1>4, <1>5, <1>6, <1>7, <1>8 DEF Step

\* What is asked is what the settings name, unless they changed meanwhile.
AsksWhatIsWanted ==
    /\ EncoderIsCurrent
    /\ \A t \in Asking : doing[t] = "probe" => using[t] \in Providers /\ (overtaken \/ using[t] = Wanted)
    /\ \A t \in Asking : doing[t] = "call" => using[t] \in Providers

EncInv == EncTypeOK /\ LockIsInUse /\ WarmUpFinds /\ AsksWhatIsWanted

LEMMA EncInitHolds == EncInit => EncInv
<1> SUFFICES ASSUME EncInit PROVE EncInv
  OBVIOUS
<1>1. EncTypeOK
  <2>1. 0 \in 0..MaxChanges
    BY EncoderAssumption
  <2>2. wanted \in [embedding : Providers \cup {Follows}, api : Providers, mode : Modes, enabled : BOOLEAN]
    BY DEF EncInit
  <2>3. serving \subseteq Providers
    BY <2>2 DEF EncInit, Wanted, Named
  <2> QED BY <2>1, <2>2, <2>3 DEF EncInit, EncTypeOK, Asking
<1>2. LockIsInUse
  BY EncoderAssumption DEF EncInit, LockIsInUse, Asking, Warmer, Unlocked
<1>3. WarmUpFinds
  BY EncoderAssumption DEF EncInit, WarmUpFinds, WarmUpIsUnderWay, Asking, Warmer
<1>4. AsksWhatIsWanted
  BY DEF EncInit, Wanted, Named, AsksWhatIsWanted, EncoderIsCurrent, NoRemote
<1> QED BY <1>1, <1>2, <1>3, <1>4 DEF EncInv

\* The types and what is asked, for every action of a thread.
LEMMA ThreadsKeep ==
    ASSUME EncTypeOK, AsksWhatIsWanted, WarmUpFinds, NEW t \in Asking, Step(t)
    PROVE  EncTypeOK' /\ AsksWhatIsWanted'
<1>1. CASE CheckRemote(t)
  <2>1. EncTypeOK'
    BY <1>1 DEF CheckRemote, WithRemote, WithoutRemote, Goes, settingsVars, warmVars, remoteVars, localVars, EncTypeOK, NoRemote, Providers
  <2>2. AsksWhatIsWanted'
    BY <1>1 DEF CheckRemote, WithRemote, WithoutRemote, Goes, settingsVars, warmVars, remoteVars, localVars, EncTypeOK, AsksWhatIsWanted, EncoderIsCurrent, Wanted, Named
  <2> QED BY <2>1, <2>2
<1>2. CASE LockRemote(t)
  <2>1. EncTypeOK'
    BY ZenonT(60), <1>2 DEF LockRemote, WithRemote, Goes, settingsVars, warmVars, remoteVars, localVars, EncTypeOK, NoRemote, Providers, Wanted, Named
  <2>2. AsksWhatIsWanted'
    BY <1>2 DEF LockRemote, WithRemote, Goes, settingsVars, warmVars, remoteVars, localVars, EncTypeOK, AsksWhatIsWanted, EncoderIsCurrent, Wanted, Named
  <2> QED BY <2>1, <2>2
<1>3. CASE Probe(t)
  <2>1. EncTypeOK'
    BY <1>3 DEF Probe, WithRemote, Goes, settingsVars, warmVars, remoteVars, localVars, EncTypeOK, NoRemote, Providers
  <2>2. AsksWhatIsWanted'
    BY <1>3 DEF Probe, WithRemote, Goes, settingsVars, warmVars, remoteVars, localVars, EncTypeOK, AsksWhatIsWanted, EncoderIsCurrent, Wanted, Named
  <2> QED BY <2>1, <2>2
<1>4. CASE CallRemote(t)
  <2>1. EncTypeOK'
    BY <1>4 DEF CallRemote, Goes, settingsVars, warmVars, remoteVars, localVars, EncTypeOK, NoRemote, Providers
  <2>2. AsksWhatIsWanted'
    BY <1>4 DEF CallRemote, Goes, settingsVars, warmVars, remoteVars, localVars, EncTypeOK, AsksWhatIsWanted, EncoderIsCurrent, Wanted, Named
  <2> QED BY <2>1, <2>2
<1>5. CASE CheckLocal(t)
  <2>1. EncTypeOK'
    BY <1>5 DEF CheckLocal, WithLocal, Goes, settingsVars, warmVars, remoteVars, localVars, EncTypeOK, NoRemote, Providers
  <2>2. AsksWhatIsWanted'
    BY <1>5 DEF CheckLocal, WithLocal, Goes, settingsVars, warmVars, remoteVars, localVars, EncTypeOK, AsksWhatIsWanted, EncoderIsCurrent, Wanted, Named
  <2> QED BY <2>1, <2>2
<1>6. CASE LockLocal(t)
  <2>1. EncTypeOK'
    BY <1>6 DEF LockLocal, WithLocal, Goes, settingsVars, warmVars, remoteVars, localVars, EncTypeOK, NoRemote, Providers
  <2>2. AsksWhatIsWanted'
    BY <1>6 DEF LockLocal, WithLocal, Goes, settingsVars, warmVars, remoteVars, localVars, EncTypeOK, AsksWhatIsWanted, EncoderIsCurrent, Wanted, Named
  <2> QED BY <2>1, <2>2
<1>7. CASE Load(t)
  <2>1. EncTypeOK'
    BY <1>7 DEF Load, WithLocal, Goes, settingsVars, warmVars, remoteVars, localVars, EncTypeOK, NoRemote, Providers
  <2>2. AsksWhatIsWanted'
    BY <1>7 DEF Load, WithLocal, Goes, settingsVars, warmVars, remoteVars, localVars, EncTypeOK, AsksWhatIsWanted, EncoderIsCurrent, Wanted, Named
  <2> QED BY <2>1, <2>2
<1>8. CASE EncodeLocal(t)
  <2>1. EncTypeOK'
    BY <1>8 DEF EncodeLocal, Goes, settingsVars, warmVars, remoteVars, localVars, EncTypeOK, NoRemote, Providers
  <2>2. AsksWhatIsWanted'
    BY <1>8 DEF EncodeLocal, Goes, settingsVars, warmVars, remoteVars, localVars, EncTypeOK, AsksWhatIsWanted, EncoderIsCurrent, Wanted, Named
  <2> QED BY <2>1, <2>2
<1> QED BY <1>1, <1>2, <1>3, <1>4, <1>5, <1>6, <1>7, <1>8 DEF Step

LEMMA EncNextHolds == EncInv /\ [EncNext]_encVars => EncInv'
<1> SUFFICES ASSUME EncInv, [EncNext]_encVars PROVE EncInv'
  OBVIOUS
<1> USE EncoderAssumption DEF EncInv
<1>0. ASSUME NEW t \in Asking, Step(t) PROVE EncInv'
  BY <1>0, ThreadsKeep, ThreadsStep, LockGoesWithItsHolder, WarmUpGoesOn
<1>1. ASSUME NEW t \in Queries, AskVectors(t), UNCHANGED changes PROVE EncInv'
  <2>1. EncTypeOK'
    BY <1>1 DEF AskVectors, Goes, settingsVars, warmVars, remoteVars, localVars, EncTypeOK, Asking
  <2>2. LockIsInUse'
    BY <1>1 DEF AskVectors, Goes, settingsVars, warmVars, remoteVars, localVars, EncTypeOK, LockIsInUse, Asking, Warmer
  <2>3. WarmUpFinds'
    BY <1>1 DEF AskVectors, Goes, settingsVars, warmVars, remoteVars, localVars, EncTypeOK, WarmUpFinds, WarmUpIsUnderWay, Asking, Warmer
  <2>4. AsksWhatIsWanted'
    BY <1>1 DEF AskVectors, Goes, settingsVars, warmVars, remoteVars, localVars, EncTypeOK, AsksWhatIsWanted, EncoderIsCurrent, Wanted, Named, Asking, Warmer
  <2> QED BY <2>1, <2>2, <2>3, <2>4
<1>2. ASSUME BeginWarm PROVE EncInv'
  <2>1. EncTypeOK'
    BY <1>2 DEF BeginWarm, Goes, settingsVars, warmVars, remoteVars, localVars, EncTypeOK, Asking
  <2>2. LockIsInUse'
    BY <1>2 DEF BeginWarm, Goes, settingsVars, warmVars, remoteVars, localVars, EncTypeOK, LockIsInUse, Asking, Warmer
  <2>3. WarmUpFinds'
    BY <1>2 DEF BeginWarm, Goes, settingsVars, warmVars, remoteVars, localVars, EncTypeOK, WarmUpFinds, WarmUpIsUnderWay, Asking, Warmer
  <2>4. AsksWhatIsWanted'
    BY <1>2 DEF BeginWarm, Goes, settingsVars, warmVars, remoteVars, localVars, EncTypeOK, AsksWhatIsWanted, EncoderIsCurrent, Wanted, Named, Asking, Warmer
  <2> QED BY <2>1, <2>2, <2>3, <2>4
<1>3. ASSUME WindowEnds PROVE EncInv'
  <2>1. EncTypeOK'
    BY <1>3 DEF WindowEnds, settingsVars, warmVars, remoteVars, localVars, EncTypeOK, Asking
  <2>2. LockIsInUse'
    BY <1>3 DEF WindowEnds, settingsVars, warmVars, remoteVars, localVars, EncTypeOK, LockIsInUse, Asking, Warmer
  <2>3. WarmUpFinds'
    BY <1>3 DEF WindowEnds, settingsVars, warmVars, remoteVars, localVars, EncTypeOK, WarmUpFinds, WarmUpIsUnderWay, Asking, Warmer
  <2>4. AsksWhatIsWanted'
    BY <1>3 DEF WindowEnds, settingsVars, warmVars, remoteVars, localVars, EncTypeOK, AsksWhatIsWanted, EncoderIsCurrent, Wanted, Named, Asking, Warmer
  <2> QED BY <2>1, <2>2, <2>3, <2>4
<1>4. ASSUME Outage PROVE EncInv'
  <2>0. changes' \in 0..MaxChanges
    <3>1. changes \in 0..MaxChanges /\ changes < MaxChanges /\ changes' = changes + 1
      BY <1>4 DEF Outage, Changes, EncTypeOK
    <3> QED BY <3>1
  <2>1. EncTypeOK'
    BY <1>4, <2>0 DEF Outage, settingsVars, warmVars, remoteVars, localVars, EncTypeOK, Asking
  <2>2. LockIsInUse'
    BY <1>4 DEF Outage, settingsVars, warmVars, remoteVars, localVars, EncTypeOK, LockIsInUse, Asking, Warmer
  <2>3. WarmUpFinds'
    BY <1>4 DEF Outage, settingsVars, warmVars, remoteVars, localVars, EncTypeOK, WarmUpFinds, WarmUpIsUnderWay, Asking, Warmer
  <2>4. AsksWhatIsWanted'
    BY <1>4 DEF Outage, settingsVars, warmVars, remoteVars, localVars, EncTypeOK, AsksWhatIsWanted, EncoderIsCurrent, Wanted, Named, Asking, Warmer
  <2> QED BY <2>1, <2>2, <2>3, <2>4
<1>5. ASSUME Reconfigure PROVE EncInv'
  <2>0. changes' \in 0..MaxChanges
    <3>1. changes \in 0..MaxChanges /\ changes < MaxChanges /\ changes' = changes + 1
      BY <1>5 DEF Reconfigure, Changes, EncTypeOK
    <3> QED BY <3>1
  <2>1. EncTypeOK'
    BY ZenonT(60), <1>5, <2>0 DEF Reconfigure, Goes, settingsVars, warmVars, remoteVars, localVars, EncTypeOK, Asking, Warmer, NoRemote, Providers
  <2>2. LockIsInUse'
    BY <1>5 DEF Reconfigure, Goes, settingsVars, warmVars, remoteVars, localVars, EncTypeOK, LockIsInUse, Asking, Warmer, WarmUpFinds, WarmUpIsUnderWay
  <2>3. WarmUpFinds'
    BY <1>5 DEF Reconfigure, Goes, settingsVars, warmVars, remoteVars, localVars, EncTypeOK, WarmUpFinds, WarmUpIsUnderWay, Asking, Warmer
  <2>4. AsksWhatIsWanted'
    BY <1>5 DEF Reconfigure, Goes, settingsVars, warmVars, remoteVars, localVars, EncTypeOK, AsksWhatIsWanted, EncoderIsCurrent, Wanted, Named, Asking, Warmer, NoRemote, Providers
  <2> QED BY <2>1, <2>2, <2>3, <2>4
<1>6. ASSUME SwitchMode PROVE EncInv'
  <2>0. changes' \in 0..MaxChanges
    <3>1. changes \in 0..MaxChanges /\ changes < MaxChanges /\ changes' = changes + 1
      BY <1>6 DEF SwitchMode, Changes, EncTypeOK
    <3> QED BY <3>1
  <2>1. EncTypeOK'
    BY <1>6, <2>0 DEF SwitchMode, settingsVars, warmVars, remoteVars, localVars, EncTypeOK, Asking
  <2>2. LockIsInUse'
    BY <1>6 DEF SwitchMode, settingsVars, warmVars, remoteVars, localVars, EncTypeOK, LockIsInUse, Asking, Warmer
  <2>3. WarmUpFinds'
    BY <1>6 DEF SwitchMode, settingsVars, warmVars, remoteVars, localVars, EncTypeOK, WarmUpFinds, WarmUpIsUnderWay, Asking, Warmer
  <2>4. AsksWhatIsWanted'
    BY <1>6 DEF SwitchMode, settingsVars, warmVars, remoteVars, localVars, EncTypeOK, AsksWhatIsWanted, EncoderIsCurrent, Wanted, Named, Asking, Warmer
  <2> QED BY <2>1, <2>2, <2>3, <2>4
<1>7. ASSUME SwitchProvider PROVE EncInv'
  <2>0. changes' \in 0..MaxChanges
    <3>1. changes \in 0..MaxChanges /\ changes < MaxChanges /\ changes' = changes + 1
      BY <1>7 DEF SwitchProvider, Changes, EncTypeOK
    <3> QED BY <3>1
  <2>1. EncTypeOK'
    BY <1>7, <2>0 DEF SwitchProvider, settingsVars, warmVars, remoteVars, localVars, EncTypeOK, Asking
  <2>2. LockIsInUse'
    BY <1>7 DEF SwitchProvider, settingsVars, warmVars, remoteVars, localVars, EncTypeOK, LockIsInUse, Asking, Warmer
  <2>3. WarmUpFinds'
    BY <1>7 DEF SwitchProvider, settingsVars, warmVars, remoteVars, localVars, EncTypeOK, WarmUpFinds, WarmUpIsUnderWay, Asking, Warmer
  <2>4. AsksWhatIsWanted'
    BY <1>7 DEF SwitchProvider, settingsVars, warmVars, remoteVars, localVars, EncTypeOK, AsksWhatIsWanted, EncoderIsCurrent, Wanted, Named, Asking, Warmer
  <2> QED BY <2>1, <2>2, <2>3, <2>4
<1>8. ASSUME UNCHANGED encVars PROVE EncInv'
  <2>1. EncTypeOK'
    BY <1>8 DEF encVars, EncTypeOK, Asking
  <2>2. LockIsInUse'
    BY <1>8 DEF encVars, EncTypeOK, LockIsInUse, Asking, Warmer
  <2>3. WarmUpFinds'
    BY <1>8 DEF encVars, EncTypeOK, WarmUpFinds, WarmUpIsUnderWay, Asking, Warmer
  <2>4. AsksWhatIsWanted'
    BY <1>8 DEF encVars, EncTypeOK, AsksWhatIsWanted, EncoderIsCurrent, Wanted, Named, Asking, Warmer
  <2> QED BY <2>1, <2>2, <2>3, <2>4
<1> QED BY <1>0, <1>1, <1>2, <1>3, <1>4, <1>5, <1>6, <1>7, <1>8 DEF EncNext

\* The invariant of the encoder and those who wait for it stands.
THEOREM EncInvariance == EncSpec => []EncInv
BY EncInitHolds, EncNextHolds, PTL DEF EncSpec

\* Types: of the settings, the encoders and the threads that encode.
THEOREM EncoderTyped == EncSpec => []EncTypeOK
<1>1. EncInv => EncTypeOK
  BY DEF EncInv
<1> QED BY <1>1, EncInvariance, PTL

\* However many threads encode while a warm-up runs and providers and settings change: the lock is
\* held by who asks or loads, the warm-up has a thread at work on it, and the encoder is one of the
\* provider the settings name, unless they changed while that was asked, or it follows the provider of
\* the models and that changed.
THEOREM EncoderIsTheOneWanted == EncSpec => []EncoderHolds
<1>1. EncInv => EncoderHolds
  BY DEF EncInv, EncoderHolds, WarmUpFinds, AsksWhatIsWanted
<1> QED BY <1>1, EncInvariance, PTL

-----------------------------------------------------------------------------
(* The slots of an address, for any sockets, ids and ceilings.              *)

Held == {c \in Conns : Holding(c)}
HeldAs(k) == {c \in Conns : sockets[c].as = k /\ Holding(c)}

SocketsTyped ==
    /\ sockets \in [Conns -> [at : {"away", "accepted", "refused", "greeted", "open", "closing", "gone"}, as : Callers]]
    /\ slots \in [Callers -> Nat] /\ ipSlots \in Nat
    /\ lost \subseteq Conns

\* Only a socket that is gone was lost, and what may be counted is finite.
LostAreGone == \A c \in lost : sockets[c].at = "gone"
HeldIsFinite == IsFiniteSet(Held)

\* No slot is taken beyond its ceiling.
UnderCeilings == (\A k \in Callers : slots[k] <= PerKey) /\ ipSlots <= PerKey * Burst

GatesInv == SocketsTyped /\ LostAreGone /\ HeldIsFinite /\ SlotsAreSockets /\ UnderCeilings

\* What one socket does leaves the ids of all and the slots of the others.
LEMMA OthersHold ==
    ASSUME SocketsTyped, NEW c \in Conns, NEW at, GoesTo(c, at), lost' \in {lost, lost \cup {c}}
    PROVE  /\ \A d \in Conns : sockets'[d].as = sockets[d].as
           /\ \A d \in Conns \ {c} : Holding(d)' <=> Holding(d)
           /\ sockets'[c].at = at
<1>1. /\ sockets' = [sockets EXCEPT ![c].at = at]
      /\ sockets \in [Conns -> [at : {"away", "accepted", "refused", "greeted", "open", "closing", "gone"}, as : Callers]]
  BY DEF GoesTo, SocketsTyped
<1>2. \A d \in Conns : sockets'[d].as = sockets[d].as
  BY <1>1
<1>3. \A d \in Conns \ {c} : sockets'[d] = sockets[d]
  BY <1>1
<1>4. sockets'[c].at = at
  BY <1>1
<1> QED BY <1>2, <1>3, <1>4 DEF Holding

\* A socket that keeps what it holds changes no number; one that comes adds one to two numbers,
\* one that goes takes one from the same two.
LEMMA HolderStays ==
    ASSUME GatesInv, NEW c \in Conns, NEW at, GoesTo(c, at), lost' \in {lost, lost \cup {c}},
           Holding(c)' <=> Holding(c), slots' = slots, ipSlots' = ipSlots
    PROVE  HeldIsFinite' /\ SlotsAreSockets' /\ UnderCeilings'
<1>1. Held' = Held /\ \A k \in Callers : HeldAs(k)' = HeldAs(k)
  BY OthersHold DEF Held, HeldAs, GatesInv
<1> QED BY <1>1 DEF GatesInv, HeldIsFinite, SlotsAreSockets, UnderCeilings, Held, HeldAs

LEMMA HolderComes ==
    ASSUME GatesInv, NEW c \in Conns, NEW at, GoesTo(c, at), lost' = lost,
           ~Holding(c), Holding(c)', KeyHasRoom(sockets[c].as), AddressHasRoom, Acquire(sockets[c].as)
    PROVE  HeldIsFinite' /\ SlotsAreSockets' /\ UnderCeilings'
<1>0. PICK key \in Callers : sockets[c].as = key
  BY DEF GatesInv, SocketsTyped
<1>1. /\ Held' = Held \cup {c} /\ c \notin Held
      /\ HeldAs(key)' = HeldAs(key) \cup {c} /\ c \notin HeldAs(key)
      /\ \A k \in Callers \ {key} : HeldAs(k)' = HeldAs(k)
  BY <1>0, OthersHold DEF Held, HeldAs, GatesInv
<1>2. /\ IsFiniteSet(Held) /\ \A k \in Callers : HeldAs(k) \subseteq Held
      /\ \A k \in Callers : slots[k] = Cardinality(HeldAs(k))
      /\ ipSlots = Cardinality(Held)
      /\ slots \in [Callers -> Nat] /\ ipSlots \in Nat
  BY DEF GatesInv, HeldIsFinite, SlotsAreSockets, Held, HeldAs, SocketsTyped
<1>3. IsFiniteSet(Held') /\ Cardinality(Held') = ipSlots + 1
  BY <1>1, <1>2, FS_AddElement
<1>4. Cardinality(HeldAs(key)') = slots[key] + 1
  BY <1>0, <1>1, <1>2, FS_AddElement, FS_Subset
<1>5. slots' = [slots EXCEPT ![key] = slots[key] + 1] /\ ipSlots' = ipSlots + 1
  BY <1>0 DEF Acquire
<1>6. slots'[key] = slots[key] + 1 /\ \A k \in Callers \ {key} : slots'[k] = slots[k]
  BY <1>0, <1>2, <1>5
<1>7. ASSUME NEW k \in Callers PROVE slots'[k] = Cardinality(HeldAs(k)')
  <2>1. CASE k = key
    BY <2>1, <1>4, <1>6
  <2>2. CASE k # key
    <3>1. HeldAs(k)' = HeldAs(k)
      BY <2>2, <1>1
    <3> QED BY <2>2, <3>1, <1>2, <1>6
  <2> QED BY <2>1, <2>2
<1>8. SlotsAreSockets'
  BY <1>3, <1>5, <1>7 DEF SlotsAreSockets, Held, HeldAs
<1>9. \A k \in Callers : slots'[k] <= PerKey
  <2>1. slots[key] < PerKey /\ PerKey \in Nat /\ slots[key] \in Nat
    BY <1>0, <1>2, GatesAssumption DEF KeyHasRoom
  <2>2. slots'[key] <= PerKey
    BY <1>6, <2>1
  <2> QED BY <1>6, <2>2 DEF GatesInv, UnderCeilings
<1>10. ipSlots' <= PerKey * Burst
  <2>1. ipSlots < PerKey * Burst /\ PerKey * Burst \in Nat
    BY GatesAssumption DEF AddressHasRoom
  <2> QED BY <1>2, <1>5, <2>1
<1> QED BY <1>3, <1>8, <1>9, <1>10 DEF HeldIsFinite, UnderCeilings

LEMMA HolderGoes ==
    ASSUME GatesInv, NEW c \in Conns, NEW at, GoesTo(c, at), lost' = lost,
           Holding(c), ~Holding(c)', Release(sockets[c].as)
    PROVE  HeldIsFinite' /\ SlotsAreSockets' /\ UnderCeilings' /\ slots' \in [Callers -> Nat] /\ ipSlots' \in Nat
<1>0. PICK key \in Callers : sockets[c].as = key
  BY DEF GatesInv, SocketsTyped
<1>1. /\ Held' = Held \ {c} /\ c \in Held
      /\ HeldAs(key)' = HeldAs(key) \ {c} /\ c \in HeldAs(key)
      /\ \A k \in Callers \ {key} : HeldAs(k)' = HeldAs(k)
  BY <1>0, OthersHold DEF Held, HeldAs, GatesInv
<1>2. /\ IsFiniteSet(Held) /\ \A k \in Callers : HeldAs(k) \subseteq Held
      /\ \A k \in Callers : slots[k] = Cardinality(HeldAs(k))
      /\ ipSlots = Cardinality(Held)
      /\ slots \in [Callers -> Nat] /\ ipSlots \in Nat
  BY DEF GatesInv, HeldIsFinite, SlotsAreSockets, Held, HeldAs, SocketsTyped
<1>3. IsFiniteSet(Held') /\ Cardinality(Held') = ipSlots - 1
  BY <1>1, <1>2, FS_RemoveElement
<1>4. Cardinality(HeldAs(key)') = slots[key] - 1
  BY <1>0, <1>1, <1>2, FS_RemoveElement, FS_Subset
<1>5. ipSlots # 0 /\ slots[key] # 0
  <2>1. IsFiniteSet(HeldAs(key)) /\ HeldAs(key) # {} /\ Held # {}
    BY <1>0, <1>1, <1>2, FS_Subset
  <2> QED BY <1>0, <1>2, <2>1, FS_EmptySet
<1>6. slots' = [slots EXCEPT ![key] = slots[key] - 1] /\ ipSlots' = ipSlots - 1
  BY <1>0, <1>5 DEF Release, Given
<1>7. slots'[key] = slots[key] - 1 /\ \A k \in Callers \ {key} : slots'[k] = slots[k]
  BY <1>0, <1>2, <1>6
<1>8. ASSUME NEW k \in Callers PROVE slots'[k] = Cardinality(HeldAs(k)')
  <2>1. CASE k = key
    BY <2>1, <1>4, <1>7
  <2>2. CASE k # key
    <3>1. HeldAs(k)' = HeldAs(k)
      BY <2>2, <1>1
    <3> QED BY <2>2, <3>1, <1>2, <1>7
  <2> QED BY <2>1, <2>2
<1>9. SlotsAreSockets'
  BY <1>3, <1>6, <1>8 DEF SlotsAreSockets, Held, HeldAs
<1>10. slots[key] - 1 \in Nat /\ ipSlots - 1 \in Nat /\ slots[key] - 1 <= slots[key] /\ ipSlots - 1 <= ipSlots
  BY <1>0, <1>2, <1>5
<1>11. slots' \in [Callers -> Nat] /\ ipSlots' \in Nat
  BY <1>0, <1>2, <1>6, <1>10
<1>12. \A k \in Callers : slots'[k] <= PerKey
  <2>1. slots[key] - 1 <= PerKey
    BY <1>0, <1>2, GatesAssumption DEF GatesInv, UnderCeilings
  <2> QED BY <1>7, <2>1 DEF GatesInv, UnderCeilings
<1>13. ipSlots' <= PerKey * Burst
  <2>1. PerKey * Burst \in Nat /\ ipSlots <= PerKey * Burst
    BY GatesAssumption DEF GatesInv, UnderCeilings
  <2> QED BY <1>2, <1>6, <2>1
<1> QED BY <1>3, <1>9, <1>11, <1>12, <1>13 DEF HeldIsFinite, UnderCeilings

LEMMA GatesInitHolds == GatesInit => GatesInv
<1> SUFFICES ASSUME GatesInit PROVE GatesInv
  OBVIOUS
<1>0. PICK as \in [Conns -> Callers] : sockets = [c \in Conns |-> [at |-> "away", as |-> as[c]]]
  BY DEF GatesInit
<1>1. SocketsTyped /\ LostAreGone
  BY <1>0 DEF GatesInit, SocketsTyped, LostAreGone
<1>2. Held = {} /\ \A k \in Callers : HeldAs(k) = {}
  BY <1>0 DEF GatesInit, Held, HeldAs, Holding
<1>3. IsFiniteSet({}) /\ Cardinality({}) = 0
  BY FS_EmptySet
<1>4. HeldIsFinite /\ SlotsAreSockets
  BY <1>2, <1>3 DEF GatesInit, HeldIsFinite, SlotsAreSockets, Held, HeldAs
<1>5. UnderCeilings
  <2>1. PerKey \in Nat /\ PerKey * Burst \in Nat
    BY GatesAssumption
  <2> QED BY <2>1 DEF GatesInit, UnderCeilings
<1> QED BY <1>1, <1>4, <1>5 DEF GatesInv

LEMMA GatesNextHolds == GatesInv /\ [GatesNext]_gateVars => GatesInv'
<1> SUFFICES ASSUME GatesInv, [GatesNext]_gateVars PROVE GatesInv'
  OBVIOUS
<1>1. ASSUME NEW c \in Conns, Knock(c) PROVE GatesInv'
  <2>0. sockets[c].as \in Callers /\ sockets[c].at = "away" /\ lost' = lost
    BY <1>1 DEF Knock, GatesInv, SocketsTyped
  <2>1. c \notin lost /\ ~Holding(c)
    BY <2>0 DEF GatesInv, LostAreGone, Holding
  <2>2. CASE KeyHasRoom(sockets[c].as) /\ AddressHasRoom /\ Acquire(sockets[c].as) /\ GoesTo(c, "accepted")
    <3>1. Holding(c)'
      BY <2>0, <2>2, OthersHold DEF Holding, GatesInv
    <3>2. HeldIsFinite' /\ SlotsAreSockets' /\ UnderCeilings'
      BY <2>0, <2>1, <2>2, <3>1, HolderComes
    <3>3. SocketsTyped' /\ LostAreGone'
      BY <2>0, <2>1, <2>2 DEF GatesInv, SocketsTyped, LostAreGone, GoesTo, Acquire
    <3> QED BY <3>2, <3>3 DEF GatesInv
  <2>3. CASE GoesTo(c, "gone") /\ UNCHANGED <<slots, ipSlots>>
    <3>1. ~Holding(c)'
      BY <2>0, <2>1, <2>3, OthersHold DEF Holding, GatesInv
    <3>2. HeldIsFinite' /\ SlotsAreSockets' /\ UnderCeilings'
      BY <2>0, <2>1, <2>3, <3>1, HolderStays
    <3>3. SocketsTyped' /\ LostAreGone'
      BY <2>0, <2>1, <2>3 DEF GatesInv, SocketsTyped, LostAreGone, GoesTo
    <3> QED BY <3>2, <3>3 DEF GatesInv
  <2> QED BY <1>1, <2>2, <2>3 DEF Knock
<1>2. ASSUME NEW c \in Conns, NEW at \in {"refused", "greeted", "open", "closing"}, GoesTo(c, at), UNCHANGED <<slots, ipSlots, lost>>,
             sockets[c].at \in {"accepted", "greeted", "open"}
      PROVE  GatesInv'
  <2>1. c \notin lost /\ Holding(c)
    BY <1>2 DEF GatesInv, LostAreGone, Holding
  <2>2. Holding(c)'
    BY <1>2, OthersHold DEF Holding, GatesInv
  <2>3. HeldIsFinite' /\ SlotsAreSockets' /\ UnderCeilings'
    BY <1>2, <2>1, <2>2, HolderStays
  <2>4. SocketsTyped' /\ LostAreGone'
    BY <1>2, <2>1 DEF GatesInv, SocketsTyped, LostAreGone, GoesTo
  <2> QED BY <2>3, <2>4 DEF GatesInv
<1>3. ASSUME NEW c \in Conns, sockets[c].at \in {"accepted", "refused", "greeted", "closing"},
             Loses(c), GoesTo(c, "gone"), UNCHANGED <<slots, ipSlots>>
      PROVE  GatesInv'
  <2>1. lost' = lost \cup {c} /\ Holding(c)
    BY <1>3 DEF Loses, Holding
  <2>2. Holding(c)'
    BY <2>1 DEF Holding
  <2>3. HeldIsFinite' /\ SlotsAreSockets' /\ UnderCeilings'
    BY <1>3, <2>1, <2>2, HolderStays
  <2>4. SocketsTyped' /\ LostAreGone'
    BY <1>3, <2>1 DEF GatesInv, SocketsTyped, LostAreGone, GoesTo
  <2> QED BY <2>3, <2>4 DEF GatesInv
<1>4. ASSUME NEW c \in Conns, sockets[c].at \in {"refused", "closing"}, GoesTo(c, "gone"), Release(sockets[c].as), UNCHANGED lost
      PROVE  GatesInv'
  <2>1. c \notin lost /\ Holding(c)
    BY <1>4 DEF GatesInv, LostAreGone, Holding
  <2>2. ~Holding(c)'
    BY <1>4, <2>1, OthersHold DEF Holding, GatesInv
  <2>3. HeldIsFinite' /\ SlotsAreSockets' /\ UnderCeilings' /\ slots' \in [Callers -> Nat] /\ ipSlots' \in Nat
    BY <1>4, <2>1, <2>2, HolderGoes
  <2>4. SocketsTyped' /\ LostAreGone'
    BY <1>4, <2>1, <2>3 DEF GatesInv, SocketsTyped, LostAreGone, GoesTo
  <2> QED BY <2>3, <2>4 DEF GatesInv
<1>5. ASSUME UNCHANGED gateVars PROVE GatesInv'
  <2>1. Held' = Held /\ \A k \in Callers : HeldAs(k)' = HeldAs(k)
    BY <1>5 DEF gateVars, Held, HeldAs, Holding
  <2> QED BY <1>5, <2>1 DEF gateVars, GatesInv, SocketsTyped, LostAreGone, HeldIsFinite, SlotsAreSockets, UnderCeilings, Held, HeldAs
<1>6. ASSUME NEW c \in Conns, Greet(c) \/ ServeFrames(c) \/ Departs(c) PROVE GatesInv'
  BY <1>2, <1>6 DEF Greet, ServeFrames, Departs
<1>7. ASSUME NEW c \in Conns, LostOpening(c) \/ HangsClosing(c) PROVE GatesInv'
  BY <1>3, <1>7 DEF LostOpening, HangsClosing
<1>8. ASSUME NEW c \in Conns, TurnAway(c) \/ GivesBack(c) PROVE GatesInv'
  BY <1>4, <1>8 DEF TurnAway, GivesBack
<1> QED BY <1>1, <1>5, <1>6, <1>7, <1>8 DEF GatesNext

\* Whatever sockets come and go as whatever ids: every slot taken is that of a socket still there or
\* of one that was lost, one per socket, for its id and for its address.
THEOREM SlotsCounted == GatesSpec => []SlotsAreSockets
<1>1. GatesInv => SlotsAreSockets
  BY DEF GatesInv
<1> QED BY <1>1, GatesInitHolds, GatesNextHolds, PTL DEF GatesSpec

\* However many ids its clients claim, no more sockets of an address are let in than its ceiling.
THEOREM AddressesAreBounded == GatesSpec => []SocketCeiling
<1>1. GatesInv => SocketCeiling
  BY DEF GatesInv, UnderCeilings, SlotsAreSockets, SocketCeiling
<1> QED BY <1>1, GatesInitHolds, GatesNextHolds, PTL DEF GatesSpec

-----------------------------------------------------------------------------
(* How often an address may ask.                                            *)

Sent == [host : Hosts, token : Tokens, time : Nat]
ByHost(h) == {r \in Sent : r.host = h}
ByToken(h, s) == {r \in Sent : r.host = h /\ r.token = s}

\* The hits of a key, those since a time, and the requests of some sort that were let through.
HitsOf(log, k) == IF k \in DOMAIN log THEN log[k] ELSE <<>>
HitsSince(times, t) == {j \in DOMAIN times : times[j] >= t}
SentSince(a, R, t) == {i \in DOMAIN a : a[i] \in R /\ a[i].time >= t}
SentWithin(a, R, t) == {i \in DOMAIN a : a[i] \in R /\ a[i].time \in t..(t + Window)}

\* Those of the window that is open were counted, and no window had more than its ceiling.
AreCounted(moment, a, R, times) ==
    \A t \in Nat : t + Window >= moment => Cardinality(SentSince(a, R, t)) <= Cardinality(HitsSince(times, t))
StaysUnder(a, R, most) == \A t \in Nat : Cardinality(SentWithin(a, R, t)) <= most

IsLimiter(log) ==
    /\ IsFiniteSet(DOMAIN log) /\ Cardinality(DOMAIN log) <= MaxKeys
    /\ \A k \in DOMAIN log : log[k] \in Seq(Nat)

LimiterTyped ==
    /\ clock \in 0..MaxClock
    /\ DOMAIN hits \subseteq Hosts \X Tokens /\ DOMAIN ipHits \subseteq Hosts
    /\ IsLimiter(hits) /\ IsLimiter(ipHits)
    /\ admitted \in Seq([host : Hosts, token : Tokens, time : 0..MaxClock])
    /\ forgotten \subseteq {<<h>> : h \in Hosts} \cup (Hosts \X Tokens)

HostsAreCounted ==
    \A h \in Hosts : <<h>> \notin forgotten =>
        AreCounted(clock, admitted, ByHost(h), HitsOf(ipHits, h)) /\ StaysUnder(admitted, ByHost(h), PerToken * IpBurst)
TokensAreCounted ==
    \A h \in Hosts, s \in Tokens : <<h, s>> \notin forgotten =>
        /\ AreCounted(clock, admitted, ByToken(h, s), HitsOf(hits, <<h, s>>))
        /\ StaysUnder(admitted, ByToken(h, s), PerToken)

LimitsInv == LimiterTyped /\ HostsAreCounted /\ TokensAreCounted /\ LastIsRemembered

-----------------------------------------------------------------------------
\* Any set of numbers has a least one.
LEMMA LeastNatural ==
    ASSUME NEW T \in SUBSET Nat, T # {}
    PROVE  \E m \in T : \A k \in T : m <= k
<1> DEFINE X == {1..n : n \in T}
<1>1. \A n \in Nat : IsFiniteSet(1..n)
  BY FS_Interval
<1>2. X \subseteq FiniteSubsetsOf(Nat)
  <2> SUFFICES ASSUME NEW n \in T PROVE (1..n) \in FiniteSubsetsOf(Nat)
    OBVIOUS
  <2> QED BY <1>1 DEF FiniteSubsetsOf
<1>3. X # {}
  OBVIOUS
<1> HIDE DEF X
<1>4. PICK x \in X : \A y \in X : ~(<<y, x>> \in StrictSubsetOrdering(Nat))
  BY <1>2, <1>3, WFMin, FS_StrictSubsetOrderingWellFounded
<1>5. PICK m \in T : x = 1..m
  BY DEF X
<1>6. ASSUME NEW k \in T, k < m PROVE FALSE
  <2>1. (1..k) \in X
    BY DEF X
  <2>2. (1..k) \subseteq (1..m) /\ m \in 1..m /\ m \notin 1..k
    BY <1>6
  <2>3. <<1..k, 1..m>> \in (SUBSET Nat) \X (SUBSET Nat)
    OBVIOUS
  <2>4. <<1..k, 1..m>> \in StrictSubsetOrdering(Nat)
    BY <2>2, <2>3 DEF StrictSubsetOrdering
  <2> QED BY <1>4, <1>5, <2>1, <2>4
<1> QED BY <1>6

\* Places of a sequence are finitely many.
LEMMA FinitePlaces ==
    ASSUME NEW S, NEW q \in Seq(S), NEW P \in SUBSET DOMAIN q
    PROVE  IsFiniteSet(P) /\ Cardinality(P) \in Nat
<1>1. Len(q) \in Nat /\ DOMAIN q = 1..Len(q)
  OBVIOUS
<1>2. IsFiniteSet(1..Len(q))
  BY <1>1, FS_Interval
<1> QED BY <1>1, <1>2, FS_Subset, FS_CardinalityType

\* What is in the window is what a key still has when it is looked at.
LEMMA WindowKeeps ==
    ASSUME NEW b \in Seq(Nat), clock \in Nat
    PROVE  LET w == InWindow(b) IN
           /\ w \in Seq(Nat)
           /\ \A t \in Nat : t + Window >= clock =>
                  /\ IsFiniteSet(HitsSince(w, t))
                  /\ Cardinality(HitsSince(b, t)) <= Cardinality(HitsSince(w, t))
                  /\ Cardinality(HitsSince(w, t)) <= Len(w)
<1> DEFINE w == InWindow(b)
           recent == {i \in DOMAIN b : b[i] + Window >= clock}
<1>0. Window \in Nat
  BY RateLimitsAssumption
<1>1. w \in Seq(Nat) /\ \A t \in Nat : t + Window >= clock => \E f : f \in Injection(HitsSince(b, t), HitsSince(w, t))
  <2>1. CASE recent = {}
    <3>1. w = <<>>
      BY <2>1 DEF InWindow
    <3>2. ASSUME NEW t \in Nat, t + Window >= clock PROVE HitsSince(b, t) = {}
      <4>1. ASSUME NEW i \in DOMAIN b, b[i] >= t PROVE FALSE
        <5>1. b[i] \in Nat
          OBVIOUS
        <5>2. b[i] + Window >= clock
          BY <5>1, <4>1, <3>2, <1>0
        <5> QED BY <5>2, <2>1
      <4> QED BY <4>1 DEF HitsSince
    <3>3. ASSUME NEW t \in Nat, t + Window >= clock
          PROVE  [i \in {} |-> i] \in Injection(HitsSince(b, t), HitsSince(w, t))
      BY <3>2, <3>3 DEF Injection, IsInjective
    <3>4. w \in Seq(Nat)
      BY <3>1
    <3> HIDE DEF w
    <3> QED BY <3>3, <3>4
  <2>2. CASE recent # {}
    <3>1. recent \in SUBSET Nat
      OBVIOUS
    <3>2. \E m \in recent : \A k \in recent : m <= k
      BY <3>1, <2>2, LeastNatural
    <3>3. Min(recent) \in recent /\ \A k \in recent : Min(recent) <= k
      <4> HIDE DEF recent
      <4> QED BY <3>2 DEF Min
    <3>4. PICK m \in recent : m = Min(recent) /\ \A k \in recent : m <= k
      BY <3>3
    <3>5. w = SubSeq(b, m, Len(b))
      BY <2>2, <3>4 DEF InWindow
    <3>6. m \in 1..Len(b) /\ Len(b) \in Nat /\ DOMAIN b = 1..Len(b)
      OBVIOUS
    <3>7. w \in Seq(Nat) /\ Len(w) = Len(b) - m + 1 /\ DOMAIN w = 1..(Len(b) - m + 1)
          /\ \A i \in 1..(Len(b) - m + 1) : w[i] = b[m + i - 1]
      <4>1. \A i \in m..Len(b) : b[i] \in Nat
        BY <3>6
      <4>2. /\ SubSeq(b, m, Len(b)) \in Seq(Nat)
            /\ Len(SubSeq(b, m, Len(b))) = IF m <= Len(b) THEN Len(b) - m + 1 ELSE 0
            /\ \A i \in 1..(Len(b) - m + 1) : SubSeq(b, m, Len(b))[i] = b[m + i - 1]
        BY SMTT(60), <3>6, <4>1
      <4> HIDE DEF w
      <4> QED BY <3>5, <3>6, <4>2
    <3>8. ASSUME NEW t \in Nat, t + Window >= clock
          PROVE  [i \in HitsSince(b, t) |-> i - m + 1] \in Injection(HitsSince(b, t), HitsSince(w, t))
      <4> DEFINE f == [i \in HitsSince(b, t) |-> i - m + 1]
      <4>1. ASSUME NEW i \in HitsSince(b, t) PROVE i \in m..Len(b) /\ i - m + 1 \in HitsSince(w, t)
        <5>1. i \in 1..Len(b) /\ b[i] >= t /\ b[i] \in Nat
          BY <3>6 DEF HitsSince
        <5>2. b[i] + Window >= clock
          BY <5>1, <3>8, <1>0
        <5>3. m <= i
          BY <5>1, <5>2, <3>4, <3>6
        <5>4. i - m + 1 \in 1..(Len(b) - m + 1) /\ m + (i - m + 1) - 1 = i
          BY <5>1, <5>3, <3>6
        <5>5. i - m + 1 \in DOMAIN w /\ w[i - m + 1] = b[i]
          <6> HIDE DEF w
          <6> QED BY <5>4, <3>7
        <5> HIDE DEF w
        <5> QED BY <5>1, <5>3, <5>5 DEF HitsSince
      <4>2. f \in [HitsSince(b, t) -> HitsSince(w, t)]
        <5> HIDE DEF w
        <5> QED BY <4>1
      <4>3. \A i, j \in HitsSince(b, t) : f[i] = f[j] => i = j
        <5> SUFFICES ASSUME NEW i \in HitsSince(b, t), NEW j \in HitsSince(b, t), f[i] = f[j] PROVE i = j
          OBVIOUS
        <5>1. i \in m..Len(b) /\ j \in m..Len(b)
          BY <4>1
        <5> HIDE DEF w
        <5> QED BY <5>1, <3>6
      <4> HIDE DEF w, f
      <4>4. f \in Injection(HitsSince(b, t), HitsSince(w, t))
        BY <4>2, <4>3 DEF Injection, IsInjective
      <4> QED BY <4>4 DEF f
    <3> HIDE DEF w
    <3> QED BY <3>7, <3>8
  <2> QED BY <2>1, <2>2
<1> HIDE DEF w
<1>2. ASSUME NEW t \in Nat, t + Window >= clock
      PROVE  /\ IsFiniteSet(HitsSince(w, t))
             /\ Cardinality(HitsSince(b, t)) <= Cardinality(HitsSince(w, t))
             /\ Cardinality(HitsSince(w, t)) <= Len(w)
  <2>1. Len(w) \in Nat /\ DOMAIN w = 1..Len(w)
    BY <1>1
  <2>2. IsFiniteSet(1..Len(w)) /\ Cardinality(1..Len(w)) = Len(w)
    <3>1. 1 \in Int /\ Len(w) \in Int /\ (1 > Len(w) => Len(w) = 0) /\ Len(w) - 1 + 1 = Len(w)
      BY <2>1
    <3>2. /\ IsFiniteSet(1..Len(w))
          /\ Cardinality(1..Len(w)) = IF 1 > Len(w) THEN 0 ELSE Len(w) - 1 + 1
      BY <3>1, FS_Interval
    <3> QED BY <3>1, <3>2
  <2>3. HitsSince(w, t) \in SUBSET (1..Len(w))
    BY <2>1 DEF HitsSince
  <2>4. IsFiniteSet(HitsSince(w, t)) /\ Cardinality(HitsSince(w, t)) <= Len(w)
    BY <2>2, <2>3, FS_Subset
  <2>5. PICK f : f \in Injection(HitsSince(b, t), HitsSince(w, t))
    BY <1>1, <1>2
  <2>6. Cardinality(HitsSince(b, t)) <= Cardinality(HitsSince(w, t))
    BY <2>4, <2>5, FS_Injection
  <2> QED BY <2>4, <2>6
<1> QED BY <1>1, <1>2 DEF w

-----------------------------------------------------------------------------
\* A request or a hit that is appended is one more, where it is of the sort and in the time.
LEMMA OneMoreHit ==
    ASSUME NEW b \in Seq(Nat), NEW c \in Nat, NEW t \in Nat, IsFiniteSet(HitsSince(b, t))
    PROVE  /\ Append(b, c) \in Seq(Nat)
           /\ IsFiniteSet(HitsSince(Append(b, c), t))
           /\ Cardinality(HitsSince(Append(b, c), t)) = Cardinality(HitsSince(b, t)) + (IF c >= t THEN 1 ELSE 0)
<1> DEFINE d == Append(b, c)
           n == Len(b) + 1
<1>1. d \in Seq(Nat) /\ DOMAIN d = (DOMAIN b) \cup {n} /\ d[n] = c /\ n \notin DOMAIN b /\ \A i \in DOMAIN b : d[i] = b[i]
  OBVIOUS
<1>2. Cardinality(HitsSince(b, t)) \in Nat
  BY FS_CardinalityType
<1> HIDE DEF d, n
<1>3. CASE c >= t
  <2>1. HitsSince(d, t) = HitsSince(b, t) \cup {n}
    BY <1>1, <1>3 DEF HitsSince
  <2>2. n \notin HitsSince(b, t)
    BY <1>1 DEF HitsSince
  <2>3. IsFiniteSet(HitsSince(d, t)) /\ Cardinality(HitsSince(d, t)) = Cardinality(HitsSince(b, t)) + 1
    BY <2>1, <2>2, FS_AddElement
  <2> QED BY <1>1, <1>2, <1>3, <2>3 DEF d
<1>4. CASE ~(c >= t)
  <2>1. HitsSince(d, t) = HitsSince(b, t)
    BY <1>1, <1>4 DEF HitsSince
  <2> QED BY <1>1, <1>2, <1>4, <2>1 DEF d
<1> QED BY <1>3, <1>4

LEMMA OneMoreRequest ==
    ASSUME NEW a \in Seq(Sent), NEW r \in Sent, NEW R, NEW t \in Nat
    PROVE  /\ Append(a, r) \in Seq(Sent)
           /\ IsFiniteSet(SentSince(a, R, t)) /\ IsFiniteSet(SentWithin(a, R, t))
           /\ Cardinality(SentWithin(a, R, t)) <= Cardinality(SentSince(a, R, t))
           /\ Cardinality(SentSince(Append(a, r), R, t)) =
                  Cardinality(SentSince(a, R, t)) + (IF r \in R /\ r.time >= t THEN 1 ELSE 0)
           /\ Cardinality(SentWithin(Append(a, r), R, t)) =
                  Cardinality(SentWithin(a, R, t)) + (IF r \in R /\ r.time \in t..(t + Window) THEN 1 ELSE 0)
<1> DEFINE d == Append(a, r)
           n == Len(a) + 1
<1>1. d \in Seq(Sent) /\ DOMAIN d = (DOMAIN a) \cup {n} /\ d[n] = r /\ n \notin DOMAIN a /\ \A i \in DOMAIN a : d[i] = a[i]
  OBVIOUS
<1>2. \A i \in DOMAIN a : a[i].time \in Nat
  <2>1. \A i \in DOMAIN a : a[i] \in Sent
    OBVIOUS
  <2> QED BY <2>1 DEF Sent
<1>3. Window \in Nat
  BY RateLimitsAssumption
<1>4. IsFiniteSet(DOMAIN a)
  <2>1. Len(a) \in Nat /\ DOMAIN a = 1..Len(a)
    OBVIOUS
  <2>2. IsFiniteSet(1..Len(a))
    BY <2>1, FS_Interval
  <2> QED BY <2>1, <2>2
<1>5. SentSince(a, R, t) \in SUBSET (DOMAIN a) /\ SentWithin(a, R, t) \in SUBSET SentSince(a, R, t)
  BY <1>2, <1>3 DEF SentSince, SentWithin
<1>6. IsFiniteSet(SentSince(a, R, t)) /\ IsFiniteSet(SentWithin(a, R, t))
      /\ Cardinality(SentWithin(a, R, t)) <= Cardinality(SentSince(a, R, t))
  BY <1>4, <1>5, FS_Subset
<1>7. Cardinality(SentSince(a, R, t)) \in Nat /\ Cardinality(SentWithin(a, R, t)) \in Nat
  BY <1>6, FS_CardinalityType
<1> HIDE DEF d, n
<1>8. Cardinality(SentSince(d, R, t)) = Cardinality(SentSince(a, R, t)) + (IF r \in R /\ r.time >= t THEN 1 ELSE 0)
  <2>1. CASE r \in R /\ r.time >= t
    <3>1. SentSince(d, R, t) = SentSince(a, R, t) \cup {n} /\ n \notin SentSince(a, R, t)
      BY <1>1, <2>1 DEF SentSince
    <3>2. Cardinality(SentSince(d, R, t)) = Cardinality(SentSince(a, R, t)) + 1
      BY <3>1, <1>6, FS_AddElement
    <3> QED BY <3>2, <2>1
  <2>2. CASE ~(r \in R /\ r.time >= t)
    <3>1. SentSince(d, R, t) = SentSince(a, R, t)
      BY <1>1, <2>2 DEF SentSince
    <3> QED BY <3>1, <2>2, <1>7
  <2> QED BY <2>1, <2>2
<1>9. Cardinality(SentWithin(d, R, t)) =
          Cardinality(SentWithin(a, R, t)) + (IF r \in R /\ r.time \in t..(t + Window) THEN 1 ELSE 0)
  <2>1. CASE r \in R /\ r.time \in t..(t + Window)
    <3>1. SentWithin(d, R, t) = SentWithin(a, R, t) \cup {n} /\ n \notin SentWithin(a, R, t)
      BY <1>1, <2>1 DEF SentWithin
    <3>2. Cardinality(SentWithin(d, R, t)) = Cardinality(SentWithin(a, R, t)) + 1
      BY <3>1, <1>6, FS_AddElement
    <3> QED BY <3>2, <2>1
  <2>2. CASE ~(r \in R /\ r.time \in t..(t + Window))
    <3>1. SentWithin(d, R, t) = SentWithin(a, R, t)
      BY <1>1, <2>2 DEF SentWithin
    <3> QED BY <3>1, <2>2, <1>7
  <2> QED BY <2>1, <2>2
<1> QED BY <1>1, <1>6, <1>8, <1>9 DEF d

\* What was counted is counted still when its key is looked at ...
LEMMA LookedIsCounted ==
    ASSUME NEW a \in Seq(Sent), NEW R, NEW b \in Seq(Nat), clock \in Nat, AreCounted(clock, a, R, b)
    PROVE  AreCounted(clock, a, R, InWindow(b))
<1> SUFFICES ASSUME NEW t \in Nat, t + Window >= clock
             PROVE  Cardinality(SentSince(a, R, t)) <= Cardinality(HitsSince(InWindow(b), t))
  BY DEF AreCounted
<1>1. IsFiniteSet(HitsSince(InWindow(b), t)) /\ Cardinality(HitsSince(b, t)) <= Cardinality(HitsSince(InWindow(b), t))
  BY WindowKeeps
<1>2. IsFiniteSet(SentSince(a, R, t))
  <2>1. SentSince(a, R, t) \in SUBSET DOMAIN a
    BY DEF SentSince
  <2> QED BY <2>1, FinitePlaces
<1>3. IsFiniteSet(HitsSince(b, t))
  <2>1. HitsSince(b, t) \in SUBSET DOMAIN b
    BY DEF HitsSince
  <2> QED BY <2>1, FinitePlaces
<1>4. /\ Cardinality(SentSince(a, R, t)) \in Nat /\ Cardinality(HitsSince(b, t)) \in Nat
      /\ Cardinality(HitsSince(InWindow(b), t)) \in Nat
  BY <1>1, <1>2, <1>3, FS_CardinalityType
<1>5. Cardinality(SentSince(a, R, t)) <= Cardinality(HitsSince(b, t))
  BY DEF AreCounted
<1> QED BY <1>1, <1>4, <1>5

\* ... and is when it is counted, whether the request comes to be let through or not.
LEMMA CountedIsCounted ==
    ASSUME NEW a \in Seq(Sent), NEW R, NEW b \in Seq(Nat), clock \in Nat, AreCounted(clock, a, R, b)
    PROVE  /\ AreCounted(clock, a, R, Append(b, clock))
           /\ \A r \in Sent : r.time = clock => AreCounted(clock, Append(a, r), R, Append(b, clock))
<1>1. ASSUME NEW t \in Nat, t + Window >= clock
      PROVE  /\ Cardinality(SentSince(a, R, t)) <= Cardinality(HitsSince(Append(b, clock), t))
             /\ \A r \in Sent : r.time = clock =>
                    Cardinality(SentSince(Append(a, r), R, t)) <= Cardinality(HitsSince(Append(b, clock), t))
  <2>1. IsFiniteSet(HitsSince(b, t))
    <3>1. HitsSince(b, t) \in SUBSET DOMAIN b
      BY DEF HitsSince
    <3> QED BY <3>1, FinitePlaces
  <2>2. Cardinality(HitsSince(b, t)) \in Nat
    BY <2>1, FS_CardinalityType
  <2>3. Cardinality(HitsSince(Append(b, clock), t)) = Cardinality(HitsSince(b, t)) + (IF clock >= t THEN 1 ELSE 0)
    BY <2>1, OneMoreHit
  <2>4. IsFiniteSet(SentSince(a, R, t))
    <3>1. SentSince(a, R, t) \in SUBSET DOMAIN a
      BY DEF SentSince
    <3> QED BY <3>1, FinitePlaces
  <2>5. Cardinality(SentSince(a, R, t)) \in Nat
    BY <2>4, FS_CardinalityType
  <2>6. Cardinality(SentSince(a, R, t)) <= Cardinality(HitsSince(b, t))
    BY <1>1 DEF AreCounted
  <2>7. ASSUME NEW r \in Sent, r.time = clock
        PROVE  Cardinality(SentSince(Append(a, r), R, t)) <= Cardinality(HitsSince(Append(b, clock), t))
    <3>1. Cardinality(SentSince(Append(a, r), R, t)) =
              Cardinality(SentSince(a, R, t)) + (IF r \in R /\ clock >= t THEN 1 ELSE 0)
      BY <2>7, OneMoreRequest
    <3> QED BY <3>1, <2>2, <2>3, <2>5, <2>6
  <2> QED BY <2>2, <2>3, <2>5, <2>6, <2>7
<1> QED BY <1>1 DEF AreCounted

\* A request of another sort changes nothing.
LEMMA OtherSort ==
    ASSUME NEW a \in Seq(Sent), NEW R, NEW r \in Sent, r \notin R, NEW b, NEW most,
           AreCounted(clock, a, R, b), StaysUnder(a, R, most)
    PROVE  AreCounted(clock, Append(a, r), R, b) /\ StaysUnder(Append(a, r), R, most)
<1>1. ASSUME NEW t \in Nat
      PROVE  /\ Cardinality(SentSince(Append(a, r), R, t)) = Cardinality(SentSince(a, R, t))
             /\ Cardinality(SentWithin(Append(a, r), R, t)) = Cardinality(SentWithin(a, R, t))
  <2>1. /\ IsFiniteSet(SentSince(a, R, t)) /\ IsFiniteSet(SentWithin(a, R, t))
        /\ Cardinality(SentSince(Append(a, r), R, t)) = Cardinality(SentSince(a, R, t)) + 0
        /\ Cardinality(SentWithin(Append(a, r), R, t)) = Cardinality(SentWithin(a, R, t)) + 0
    BY OneMoreRequest
  <2>2. Cardinality(SentSince(a, R, t)) \in Nat /\ Cardinality(SentWithin(a, R, t)) \in Nat
    BY <2>1, FS_CardinalityType
  <2> QED BY <2>1, <2>2
<1> QED BY <1>1 DEF AreCounted, StaysUnder

\* A request that is let through keeps each window under the ceiling: the window that it closes
\* begins no earlier than the one that is open, and what that holds was counted.
LEMMA LetThroughStaysUnder ==
    ASSUME NEW a \in Seq(Sent), NEW R, NEW r \in Sent, r.time = clock, clock \in Nat,
           NEW b \in Seq(Nat), AreCounted(clock, a, R, b), NEW most \in Nat, Len(InWindow(b)) < most,
           StaysUnder(a, R, most)
    PROVE  StaysUnder(Append(a, r), R, most)
<1> SUFFICES ASSUME NEW t \in Nat
             PROVE  Cardinality(SentWithin(Append(a, r), R, t)) <= most
  BY DEF StaysUnder
<1>0. Window \in Nat
  BY RateLimitsAssumption
<1>1. /\ IsFiniteSet(SentSince(a, R, t)) /\ IsFiniteSet(SentWithin(a, R, t))
      /\ Cardinality(SentWithin(a, R, t)) <= Cardinality(SentSince(a, R, t))
      /\ Cardinality(SentWithin(Append(a, r), R, t)) =
             Cardinality(SentWithin(a, R, t)) + (IF r \in R /\ clock \in t..(t + Window) THEN 1 ELSE 0)
  BY OneMoreRequest
<1>2. Cardinality(SentSince(a, R, t)) \in Nat /\ Cardinality(SentWithin(a, R, t)) \in Nat
  BY <1>1, FS_CardinalityType
<1>3. Cardinality(SentWithin(a, R, t)) <= most
  BY DEF StaysUnder
<1>4. CASE r \in R /\ clock \in t..(t + Window)
  <2>1. t + Window >= clock
    BY <1>4, <1>0
  <2>2. /\ InWindow(b) \in Seq(Nat) /\ IsFiniteSet(HitsSince(InWindow(b), t))
        /\ Cardinality(HitsSince(InWindow(b), t)) <= Len(InWindow(b))
    BY <2>1, WindowKeeps
  <2>3. Len(InWindow(b)) \in Nat /\ Cardinality(HitsSince(InWindow(b), t)) \in Nat
    BY <2>2, FS_CardinalityType
  <2>4. Cardinality(SentSince(a, R, t)) <= Cardinality(HitsSince(InWindow(b), t))
    BY <2>1, LookedIsCounted DEF AreCounted
  <2> HIDE DEF InWindow
  <2>5. Cardinality(SentWithin(a, R, t)) + 1 <= most
    BY <1>1, <1>2, <2>2, <2>3, <2>4
  <2> QED BY <1>1, <1>2, <1>4, <2>5
<1>5. CASE ~(r \in R /\ clock \in t..(t + Window))
  BY <1>1, <1>2, <1>3, <1>5
<1> QED BY <1>4, <1>5

-----------------------------------------------------------------------------
\* What a limiter has of each key once it was asked about one.
LEMMA LookedAt ==
    ASSUME NEW log, IsLimiter(log), NEW k, clock \in Nat
    PROVE  LET l == Looked(log, k) IN
           /\ DOMAIN l = DOMAIN log \cup {k}
           /\ l[k] = InWindow(HitsOf(log, k)) /\ l[k] \in Seq(Nat)
           /\ \A x \in DOMAIN log \ {k} : l[x] = log[x]
<1>1. InWindow(<<>>) = <<>>
  BY DEF InWindow
<1>2. HitsOf(log, k) \in Seq(Nat)
  BY DEF HitsOf, IsLimiter
<1>3. InWindow(HitsOf(log, k)) \in Seq(Nat)
  BY <1>2, WindowKeeps
<1>4. Looked(log, k) = [x \in DOMAIN log \cup {k} |-> IF x # k THEN log[x] ELSE InWindow(HitsOf(log, k))]
  BY <1>1 DEF Looked, HitsOf
<1> QED BY <1>3, <1>4

\* One that is full was remembered already, and looking at it leaves a limiter what it was.
LEMMA FullIsLimiter ==
    ASSUME NEW log, IsLimiter(log), NEW k, clock \in Nat, NEW most \in Nat \ {0}, IsFull(log, k, most)
    PROVE  IsLimiter(Looked(log, k)) /\ DOMAIN Looked(log, k) = DOMAIN log
<1>1. /\ DOMAIN Looked(log, k) = DOMAIN log \cup {k}
      /\ Looked(log, k)[k] = InWindow(HitsOf(log, k)) /\ Looked(log, k)[k] \in Seq(Nat)
      /\ \A x \in DOMAIN log \ {k} : Looked(log, k)[x] = log[x]
  BY LookedAt
<1>2. k \in DOMAIN log
  <2>1. k \notin DOMAIN log => Looked(log, k)[k] = <<>>
    BY DEF Looked
  <2>2. Len(Looked(log, k)[k]) >= most
    BY DEF IsFull
  <2> QED BY <2>1, <2>2
<1>3. DOMAIN Looked(log, k) = DOMAIN log
  BY <1>1, <1>2
<1>4. \A x \in DOMAIN log : Looked(log, k)[x] \in Seq(Nat)
  BY <1>1 DEF IsLimiter
<1> QED BY <1>3, <1>4 DEF IsLimiter

\* One that counts a hit remembers no more keys than it may, and among them the one at hand; a key
\* that it forgets had nothing in the window, or is one of those that are known to be dropped.
LEMMA CountingLimiter ==
    ASSUME NEW log, IsLimiter(log), NEW k, clock \in Nat, NEW after \in Evicted(Counted(log, k), k)
    PROVE  /\ IsLimiter(after)
           /\ k \in DOMAIN after /\ DOMAIN after \subseteq DOMAIN log \cup {k}
           /\ after[k] = Append(InWindow(HitsOf(log, k)), clock)
           /\ \A x \in DOMAIN after \ {k} : after[x] = log[x]
           /\ \A x \in DOMAIN log \ DOMAIN after : x \in Dropped(log, after) \/ InWindow(log[x]) = <<>>
<1> DEFINE c == Counted(log, k)
           w == InWindow(HitsOf(log, k))
           active == Keeps(c, DOMAIN c \ Idle(c))
           over == Cardinality(DOMAIN active)
<1>0. MaxKeys \in Nat \ {0} /\ Window \in Nat
  BY RateLimitsAssumption
<1>1. /\ DOMAIN Looked(log, k) = DOMAIN log \cup {k}
      /\ Looked(log, k)[k] = w /\ w \in Seq(Nat)
      /\ \A x \in DOMAIN log \ {k} : Looked(log, k)[x] = log[x]
  BY LookedAt
<1>2. /\ DOMAIN c = DOMAIN log \cup {k}
      /\ c[k] = Append(w, clock)
      /\ \A x \in DOMAIN log \ {k} : c[x] = log[x]
  <2> HIDE DEF w
  <2> QED BY <1>1 DEF Counted
<1>3. c[k] \in Seq(Nat) /\ \A x \in DOMAIN c : c[x] \in Seq(Nat)
  <2> HIDE DEF w, c
  <2>1. c[k] \in Seq(Nat)
    BY <1>1, <1>2
  <2> QED BY <2>1, <1>2 DEF IsLimiter
<1>4. IsFiniteSet(DOMAIN c)
  <2> HIDE DEF c
  <2> QED BY <1>2, FS_AddElement DEF IsLimiter
<1>5. InWindow(c[k]) # <<>>
  <2> HIDE DEF w, c
  <2>1. HitsSince(c[k], clock) # {}
    <3>1. Len(w) + 1 \in DOMAIN c[k] /\ c[k][Len(w) + 1] = clock
      BY <1>1, <1>2
    <3> QED BY <3>1 DEF HitsSince
  <2>2. /\ IsFiniteSet(HitsSince(InWindow(c[k]), clock))
        /\ Cardinality(HitsSince(c[k], clock)) <= Cardinality(HitsSince(InWindow(c[k]), clock))
    <3>1. clock + Window >= clock
      BY <1>0
    <3> QED BY <3>1, <1>3, WindowKeeps
  <2>3. IsFiniteSet(HitsSince(c[k], clock))
    <3>1. HitsSince(c[k], clock) \in SUBSET DOMAIN c[k]
      BY DEF HitsSince
    <3> QED BY <3>1, FinitePlaces, <1>3
  <2>4. Cardinality(HitsSince(c[k], clock)) \in Nat /\ Cardinality(HitsSince(c[k], clock)) # 0
    BY <2>1, <2>3, FS_CardinalityType, FS_EmptySet
  <2>5. Cardinality(HitsSince(InWindow(c[k]), clock)) # 0
    BY <2>2, <2>4
  <2>6. HitsSince(<<>>, clock) = {}
    BY DEF HitsSince
  <2> QED BY <2>5, <2>6, FS_EmptySet
<1>6. /\ DOMAIN active = DOMAIN c \ Idle(c) /\ k \in DOMAIN active
      /\ \A x \in DOMAIN active : active[x] = c[x]
  <2> HIDE DEF c
  <2> QED BY <1>2, <1>5 DEF Keeps, Idle
<1>7. IsFiniteSet(DOMAIN active) /\ over \in Nat
  <2>1. DOMAIN active \in SUBSET DOMAIN c
    BY <1>6
  <2> HIDE DEF active, c
  <2> QED BY <2>1, <1>4, FS_Subset, FS_CardinalityType
<1>8. /\ DOMAIN after \subseteq DOMAIN c /\ k \in DOMAIN after
      /\ \A x \in DOMAIN after : after[x] = c[x]
      /\ IsFiniteSet(DOMAIN after) /\ Cardinality(DOMAIN after) <= MaxKeys
  <2>1. CASE after = c /\ Cardinality(DOMAIN c) <= MaxKeys
    <3> HIDE DEF c
    <3> QED BY <2>1, <1>2, <1>4
  <2>2. CASE after = active /\ over <= MaxKeys
    <3>1. DOMAIN active \subseteq DOMAIN c
      BY <1>6
    <3> HIDE DEF active, c
    <3> QED BY <3>1, <2>2, <1>6, <1>7
  <2>3. CASE over > MaxKeys /\ \E gone \in LeastRecent(active, over - MaxKeys, k) : after = Keeps(active, DOMAIN active \ gone)
    <3>1. PICK gone \in LeastRecent(active, over - MaxKeys, k) : after = Keeps(active, DOMAIN active \ gone)
      BY <2>3
    <3> HIDE DEF active, c
    <3>2. gone \in SUBSET (DOMAIN active \ {k}) /\ Cardinality(gone) = over - MaxKeys
      BY DEF LeastRecent
    <3>3. DOMAIN after = DOMAIN active \ gone /\ \A x \in DOMAIN after : after[x] = active[x]
      BY <3>1 DEF Keeps
    <3>4. k \in DOMAIN after /\ DOMAIN after \subseteq DOMAIN c /\ \A x \in DOMAIN after : after[x] = c[x]
      BY <3>2, <3>3, <1>6
    <3>5. gone \in SUBSET DOMAIN active
      BY <3>2
    <3>6. IsFiniteSet(gone)
      BY <3>5, <1>7, FS_Subset
    <3>7. gone \cap DOMAIN after = {} /\ gone \cup DOMAIN after = DOMAIN active
      BY <3>3, <3>5
    <3>8. IsFiniteSet(DOMAIN after)
      <4>1. DOMAIN after \in SUBSET DOMAIN active
        BY <3>3
      <4> QED BY <4>1, <1>7, FS_Subset
    <3>9. over = Cardinality(gone) + Cardinality(DOMAIN after)
      <4>1. Cardinality(gone \cap DOMAIN after) = 0
        BY <3>7, FS_EmptySet
      <4>2. Cardinality(gone) \in Nat /\ Cardinality(DOMAIN after) \in Nat
        BY <3>6, <3>8, FS_CardinalityType
      <4>3. Cardinality(gone \cup DOMAIN after) =
                Cardinality(gone) + Cardinality(DOMAIN after) - Cardinality(gone \cap DOMAIN after)
        BY <3>6, <3>8, FS_Union
      <4> QED BY <4>1, <4>2, <4>3, <3>7
    <3>10. Cardinality(DOMAIN after) = MaxKeys
      <4>1. Cardinality(DOMAIN after) \in Nat
        BY <3>8, FS_CardinalityType
      <4> QED BY <4>1, <3>2, <3>9, <1>0, <1>7
    <3> QED BY <3>4, <3>8, <3>10, <1>0
  <2>4. \/ after = c /\ Cardinality(DOMAIN c) <= MaxKeys
        \/ after = active /\ over <= MaxKeys
        \/ over > MaxKeys /\ \E gone \in LeastRecent(active, over - MaxKeys, k) : after = Keeps(active, DOMAIN active \ gone)
    <3>1. after \in IF Cardinality(DOMAIN c) <= MaxKeys THEN {c}
                    ELSE IF over <= MaxKeys THEN {active}
                    ELSE {Keeps(active, DOMAIN active \ gone) : gone \in LeastRecent(active, over - MaxKeys, k)}
      BY DEF Evicted
    <3> HIDE DEF active, c
    <3>2. CASE Cardinality(DOMAIN c) <= MaxKeys
      BY <3>1, <3>2
    <3>3. CASE ~(Cardinality(DOMAIN c) <= MaxKeys) /\ over <= MaxKeys
      BY <3>1, <3>3
    <3>4. CASE ~(Cardinality(DOMAIN c) <= MaxKeys) /\ ~(over <= MaxKeys)
      <4>1. over > MaxKeys
        BY <3>4, <1>0, <1>7
      <4> QED BY <3>1, <3>4, <4>1
    <3> QED BY <3>2, <3>3, <3>4
  <2> QED BY <2>1, <2>2, <2>3, <2>4
<1>9. IsLimiter(after)
  <2> HIDE DEF c
  <2> QED BY <1>3, <1>8 DEF IsLimiter
<1>10. \A x \in DOMAIN log \ DOMAIN after : x \in Dropped(log, after) \/ InWindow(log[x]) = <<>>
  BY DEF Dropped, Idle
<1> HIDE DEF c, w
<1> QED BY <1>2, <1>8, <1>9, <1>10 DEF w

-----------------------------------------------------------------------------
LEMMA LimitsInitHolds == LimitsInit => LimitsInv
<1> SUFFICES ASSUME LimitsInit PROVE LimitsInv
  OBVIOUS
<1>0. {PerToken, IpBurst, MaxKeys, Window, MaxClock} \subseteq Nat /\ PerToken * IpBurst \in Nat
  BY RateLimitsAssumption
<1>1. clock = 0 /\ hits = <<>> /\ ipHits = <<>> /\ admitted = <<>> /\ forgotten = {}
  BY DEF LimitsInit
<1>2. DOMAIN hits = {} /\ DOMAIN ipHits = {} /\ DOMAIN admitted = {}
  BY <1>1
<1>3. IsLimiter(hits) /\ IsLimiter(ipHits)
  BY <1>0, <1>2, FS_EmptySet DEF IsLimiter
<1>4. LimiterTyped
  <2>1. admitted \in Seq([host : Hosts, token : Tokens, time : 0..MaxClock])
    BY <1>1
  <2> QED BY <1>0, <1>1, <1>2, <1>3, <2>1 DEF LimiterTyped
<1>5. ASSUME NEW R, NEW t
      PROVE  SentSince(admitted, R, t) = {} /\ SentWithin(admitted, R, t) = {} /\ HitsSince(<<>>, t) = {}
  BY <1>2 DEF SentSince, SentWithin, HitsSince
<1>6. ASSUME NEW R, NEW most \in Nat
      PROVE  AreCounted(clock, admitted, R, <<>>) /\ StaysUnder(admitted, R, most)
  <2>1. Cardinality({}) = 0 /\ most >= 0
    BY FS_EmptySet
  <2>2. ASSUME NEW t
        PROVE  /\ Cardinality(SentSince(admitted, R, t)) = 0 /\ Cardinality(HitsSince(<<>>, t)) = 0
               /\ Cardinality(SentWithin(admitted, R, t)) = 0
    BY <2>1, <1>5
  <2>3. AreCounted(clock, admitted, R, <<>>)
    BY <2>2 DEF AreCounted
  <2> QED BY <2>1, <2>2, <2>3 DEF StaysUnder
<1>7. \A k : HitsOf(hits, k) = <<>> /\ HitsOf(ipHits, k) = <<>>
  BY <1>2 DEF HitsOf
<1>8. HostsAreCounted
  BY <1>0, <1>6, <1>7 DEF HostsAreCounted
<1>9. TokensAreCounted
  BY <1>0, <1>6, <1>7 DEF TokensAreCounted
<1> QED BY <1>1, <1>4, <1>8, <1>9 DEF LimitsInv, LastIsRemembered

\* Later, less is in the window.
LEMMA TickKeeps == LimitsInv /\ Tick => LimitsInv'
<1> SUFFICES ASSUME LimitsInv, Tick PROVE LimitsInv'
  OBVIOUS
<1>0. Window \in Nat /\ MaxClock \in Nat
  BY RateLimitsAssumption
<1>1. clock \in Nat /\ clock' = clock + 1 /\ clock' \in 0..MaxClock
  BY <1>0 DEF LimitsInv, LimiterTyped, Tick
<1>2. hits' = hits /\ ipHits' = ipHits /\ admitted' = admitted /\ forgotten' = forgotten
  BY DEF Tick
<1>3. \A t \in Nat : t + Window >= clock' => t + Window >= clock
  BY <1>0, <1>1
<1>4. ASSUME NEW a, NEW R, NEW b, AreCounted(clock, a, R, b) PROVE AreCounted(clock', a, R, b)
  BY <1>3, <1>4 DEF AreCounted
<1>5. LimiterTyped'
  BY <1>1, <1>2 DEF LimitsInv, LimiterTyped, IsLimiter
<1>6. HostsAreCounted'
  BY <1>2, <1>4 DEF LimitsInv, HostsAreCounted
<1>7. TokensAreCounted'
  BY <1>2, <1>4 DEF LimitsInv, TokensAreCounted
<1>8. LastIsRemembered'
  BY <1>2 DEF LimitsInv, LastIsRemembered
<1> QED BY <1>5, <1>6, <1>7, <1>8 DEF LimitsInv

\* A key that is not at hand has what it had, or had nothing in the window.
LEMMA OtherKey ==
    ASSUME NEW log, IsLimiter(log), NEW k, clock \in Nat, NEW after,
           DOMAIN after \subseteq DOMAIN log \cup {k},
           \A x \in DOMAIN after \ {k} : after[x] = log[x],
           \A x \in DOMAIN log \ DOMAIN after : x \in Dropped(log, after) \/ InWindow(log[x]) = <<>>,
           NEW x, x # k, x \notin Dropped(log, after),
           NEW a \in Seq(Sent), NEW R, AreCounted(clock, a, R, HitsOf(log, x))
    PROVE  AreCounted(clock, a, R, HitsOf(after, x))
<1>1. CASE x \in DOMAIN after
  BY <1>1 DEF HitsOf
<1>2. CASE x \notin DOMAIN after /\ x \notin DOMAIN log
  BY <1>2 DEF HitsOf
<1>3. CASE x \notin DOMAIN after /\ x \in DOMAIN log
  <2>1. InWindow(log[x]) = <<>> /\ HitsOf(log, x) = log[x] /\ HitsOf(after, x) = <<>> /\ log[x] \in Seq(Nat)
    BY <1>3 DEF HitsOf, IsLimiter
  <2>2. AreCounted(clock, a, R, InWindow(log[x]))
    BY <2>1, LookedIsCounted
  <2> QED BY <2>1, <2>2
<1> QED BY <1>1, <1>2, <1>3

LEMMA IncomingKeeps ==
    ASSUME LimitsInv, NEW host \in Hosts, NEW token \in Tokens, Incoming(host, token)
    PROVE  LimitsInv'
<1> DEFINE key == <<host, token>>
           r == [host |-> host, token |-> token, time |-> clock]
<1>0. PerToken \in Nat \ {0} /\ IpBurst \in Nat \ {0} /\ MaxKeys \in Nat \ {0} /\ Window \in Nat /\ MaxClock \in Nat
  BY RateLimitsAssumption
<1>1. PerToken * IpBurst \in Nat \ {0}
  BY <1>0
<1>2. /\ clock \in 0..MaxClock /\ clock \in Nat /\ clock' = clock
      /\ DOMAIN hits \subseteq Hosts \X Tokens /\ DOMAIN ipHits \subseteq Hosts
      /\ IsLimiter(hits) /\ IsLimiter(ipHits)
      /\ admitted \in Seq([host : Hosts, token : Tokens, time : 0..MaxClock])
      /\ forgotten \subseteq {<<h>> : h \in Hosts} \cup (Hosts \X Tokens)
  BY <1>0 DEF LimitsInv, LimiterTyped, Incoming
<1>3. admitted \in Seq(Sent)
  <2>1. [host : Hosts, token : Tokens, time : 0..MaxClock] \subseteq Sent
    BY <1>0 DEF Sent
  <2> DEFINE Bounded == [host : Hosts, token : Tokens, time : 0..MaxClock]
  <2> HIDE DEF Bounded
  <2>2. admitted \in Seq(Bounded) /\ Bounded \subseteq Sent
    BY <1>2, <2>1 DEF Bounded
  <2>3. Len(admitted) \in Nat /\ DOMAIN admitted = 1..Len(admitted) /\ \A i \in 1..Len(admitted) : admitted[i] \in Sent
    BY <2>2
  <2> QED BY <2>2, <2>3
<1>4. r \in Sent /\ r.time = clock /\ r.host = host /\ r.token = token
      /\ r \in [host : Hosts, token : Tokens, time : 0..MaxClock]
  BY <1>2 DEF Sent
<1>5. /\ \A h \in Hosts : r \in ByHost(h) <=> h = host
      /\ \A h \in Hosts, s \in Tokens : r \in ByToken(h, s) <=> h = host /\ s = token
  <2> HIDE DEF r
  <2> QED BY <1>4 DEF ByHost, ByToken
<1>6. key \in Hosts \X Tokens /\ \A h, s : <<h, s>> = key <=> h = host /\ s = token
  OBVIOUS
<1>7. CASE /\ IsFull(hits, key, PerToken) /\ hits' = Looked(hits, key)
           /\ UNCHANGED <<ipHits, admitted, forgotten>>
  <2> HIDE DEF key, r
  <2>1. IsLimiter(hits') /\ DOMAIN hits' = DOMAIN hits
    BY <1>0, <1>2, <1>7, FullIsLimiter
  <2>2. hits'[key] = InWindow(HitsOf(hits, key)) /\ (\A x \in DOMAIN hits \ {key} : hits'[x] = hits[x]) /\ key \in DOMAIN hits'
    <3>1. /\ DOMAIN Looked(hits, key) = DOMAIN hits \cup {key}
          /\ Looked(hits, key)[key] = InWindow(HitsOf(hits, key))
          /\ \A x \in DOMAIN hits \ {key} : Looked(hits, key)[x] = hits[x]
      BY <1>2, LookedAt
    <3> QED BY <3>1, <1>7
  <2>3. LimiterTyped'
    BY <1>2, <1>7, <2>1 DEF LimiterTyped, IsLimiter
  <2>4. HostsAreCounted'
    BY <1>2, <1>7 DEF LimitsInv, HostsAreCounted
  <2>5. TokensAreCounted'
    <3> SUFFICES ASSUME NEW h \in Hosts, NEW s \in Tokens, <<h, s>> \notin forgotten
                 PROVE  /\ AreCounted(clock, admitted, ByToken(h, s), HitsOf(hits', <<h, s>>))
                        /\ StaysUnder(admitted, ByToken(h, s), PerToken)
      BY <1>2, <1>7 DEF TokensAreCounted
    <3>1. /\ AreCounted(clock, admitted, ByToken(h, s), HitsOf(hits, <<h, s>>))
          /\ StaysUnder(admitted, ByToken(h, s), PerToken)
      BY DEF LimitsInv, TokensAreCounted
    <3>2. CASE <<h, s>> = key
      <4>1. HitsOf(hits, key) \in Seq(Nat)
        BY <1>2 DEF HitsOf, IsLimiter
      <4>2. AreCounted(clock, admitted, ByToken(h, s), InWindow(HitsOf(hits, key)))
        BY <3>1, <3>2, <4>1, <1>2, <1>3, LookedIsCounted
      <4>3. HitsOf(hits', key) = InWindow(HitsOf(hits, key))
        BY <2>2 DEF HitsOf
      <4> QED BY <3>1, <3>2, <4>2, <4>3
    <3>3. CASE <<h, s>> # key
      <4>1. HitsOf(hits', <<h, s>>) = HitsOf(hits, <<h, s>>)
        BY <3>3, <2>1, <2>2 DEF HitsOf
      <4> QED BY <3>1, <4>1
    <3> QED BY <3>2, <3>3
  <2>6. LastIsRemembered'
    BY <1>7 DEF LimitsInv, LastIsRemembered
  <2> QED BY <2>3, <2>4, <2>5, <2>6 DEF LimitsInv
<1>8. ASSUME ~IsFull(hits, key, PerToken), hits' \in Evicted(Counted(hits, key), key),
             forgotten' = forgotten \cup Dropped(hits, hits') \cup {<<h>> : h \in Dropped(ipHits, ipHits')}
      PROVE  /\ IsLimiter(hits') /\ DOMAIN hits' \subseteq Hosts \X Tokens
             /\ Len(InWindow(HitsOf(hits, key))) < PerToken
             /\ Dropped(hits, hits') \subseteq Hosts \X Tokens
             /\ \A h \in Hosts, s \in Tokens : <<h, s>> \notin forgotten' =>
                    \A a \in Seq(Sent) : (a = admitted \/ a = Append(admitted, r)) =>
                        /\ AreCounted(clock, a, ByToken(h, s), HitsOf(hits', <<h, s>>))
                        /\ StaysUnder(a, ByToken(h, s), PerToken)
  <2> HIDE DEF key, r
  <2>1. /\ IsLimiter(hits')
        /\ key \in DOMAIN hits' /\ DOMAIN hits' \subseteq DOMAIN hits \cup {key}
        /\ hits'[key] = Append(InWindow(HitsOf(hits, key)), clock)
        /\ \A x \in DOMAIN hits' \ {key} : hits'[x] = hits[x]
        /\ \A x \in DOMAIN hits \ DOMAIN hits' : x \in Dropped(hits, hits') \/ InWindow(hits[x]) = <<>>
    BY <1>2, <1>8, CountingLimiter
  <2>2. DOMAIN hits' \subseteq Hosts \X Tokens /\ Dropped(hits, hits') \subseteq Hosts \X Tokens
    BY <1>2, <1>6, <2>1 DEF Dropped
  <2>3. HitsOf(hits, key) \in Seq(Nat) /\ InWindow(HitsOf(hits, key)) \in Seq(Nat)
    <3>1. HitsOf(hits, key) \in Seq(Nat)
      BY <1>2 DEF HitsOf, IsLimiter
    <3> QED BY <3>1, <1>2, WindowKeeps
  <2>4. Len(InWindow(HitsOf(hits, key))) < PerToken
    <3>1. Looked(hits, key)[key] = InWindow(HitsOf(hits, key))
      BY <1>2, LookedAt
    <3>2. Len(InWindow(HitsOf(hits, key))) \in Nat
      BY <2>3
    <3> QED BY <1>0, <1>8, <3>1, <3>2 DEF IsFull
  <2>5. ASSUME NEW h \in Hosts, NEW s \in Tokens, <<h, s>> \notin forgotten',
               NEW a \in Seq(Sent), a = admitted \/ a = Append(admitted, r)
        PROVE  /\ AreCounted(clock, a, ByToken(h, s), HitsOf(hits', <<h, s>>))
               /\ StaysUnder(a, ByToken(h, s), PerToken)
    <3>1. <<h, s>> \notin forgotten /\ <<h, s>> \notin Dropped(hits, hits')
      BY <1>8, <2>5
    <3>2. /\ AreCounted(clock, admitted, ByToken(h, s), HitsOf(hits, <<h, s>>))
          /\ StaysUnder(admitted, ByToken(h, s), PerToken)
      BY <3>1 DEF LimitsInv, TokensAreCounted
    <3>3. CASE <<h, s>> = key
      <4>1. HitsOf(hits', key) = Append(InWindow(HitsOf(hits, key)), clock)
        BY <2>1 DEF HitsOf
      <4>2. AreCounted(clock, admitted, ByToken(h, s), InWindow(HitsOf(hits, key)))
        BY <3>2, <3>3, <2>3, <1>2, <1>3, LookedIsCounted
      <4>3. /\ AreCounted(clock, admitted, ByToken(h, s), Append(InWindow(HitsOf(hits, key)), clock))
            /\ AreCounted(clock, Append(admitted, r), ByToken(h, s), Append(InWindow(HitsOf(hits, key)), clock))
        BY <4>2, <2>3, <1>2, <1>3, <1>4, CountedIsCounted
      <4>4. StaysUnder(Append(admitted, r), ByToken(h, s), PerToken)
        BY <3>2, <3>3, <2>3, <2>4, <1>0, <1>2, <1>3, <1>4, LetThroughStaysUnder
      <4> QED BY <2>5, <3>2, <3>3, <4>1, <4>3, <4>4
    <3>4. CASE <<h, s>> # key
      <4>1. AreCounted(clock, admitted, ByToken(h, s), HitsOf(hits', <<h, s>>))
        BY <3>1, <3>2, <3>4, <2>1, <1>2, <1>3, OtherKey
      <4>2. r \notin ByToken(h, s)
        BY <3>4, <1>5, <1>6
      <4>3. /\ AreCounted(clock, Append(admitted, r), ByToken(h, s), HitsOf(hits', <<h, s>>))
            /\ StaysUnder(Append(admitted, r), ByToken(h, s), PerToken)
        BY <4>1, <4>2, <3>2, <1>3, <1>4, OtherSort
      <4> QED BY <2>5, <3>2, <4>1, <4>3
    <3> QED BY <3>3, <3>4
  <2> QED BY <2>1, <2>2, <2>4, <2>5
<1>9. ASSUME ~IsFull(hits, key, PerToken), hits' \in Evicted(Counted(hits, key), key),
             forgotten' = forgotten \cup Dropped(hits, hits') \cup {<<h>> : h \in Dropped(ipHits, ipHits')},
             IsFull(ipHits, host, PerToken * IpBurst), ipHits' = Looked(ipHits, host), admitted' = admitted
      PROVE  LimitsInv'
  <2> HIDE DEF key, r
  <2>1. IsLimiter(ipHits') /\ DOMAIN ipHits' = DOMAIN ipHits
    BY <1>1, <1>2, <1>9, FullIsLimiter
  <2>2. ipHits'[host] = InWindow(HitsOf(ipHits, host)) /\ (\A x \in DOMAIN ipHits \ {host} : ipHits'[x] = ipHits[x]) /\ host \in DOMAIN ipHits'
    <3>1. /\ DOMAIN Looked(ipHits, host) = DOMAIN ipHits \cup {host}
          /\ Looked(ipHits, host)[host] = InWindow(HitsOf(ipHits, host))
          /\ \A x \in DOMAIN ipHits \ {host} : Looked(ipHits, host)[x] = ipHits[x]
      BY <1>2, LookedAt
    <3> QED BY <3>1, <1>9
  <2>3. Dropped(ipHits, ipHits') = {}
    BY <2>1 DEF Dropped
  <2>4. forgotten' = forgotten \cup Dropped(hits, hits') /\ forgotten \subseteq forgotten'
    BY <1>9, <2>3
  <2>5. LimiterTyped'
    <3>1. /\ IsLimiter(hits') /\ DOMAIN hits' \subseteq Hosts \X Tokens
          /\ Dropped(hits, hits') \subseteq Hosts \X Tokens
      BY <1>8, <1>9
    <3>2. forgotten' \subseteq {<<h>> : h \in Hosts} \cup (Hosts \X Tokens)
      BY <1>2, <2>4, <3>1
    <3> QED BY <1>2, <1>9, <2>1, <3>1, <3>2 DEF LimiterTyped, IsLimiter
  <2>6. HostsAreCounted'
    <3> SUFFICES ASSUME NEW h \in Hosts, <<h>> \notin forgotten'
                 PROVE  /\ AreCounted(clock, admitted, ByHost(h), HitsOf(ipHits', h))
                        /\ StaysUnder(admitted, ByHost(h), PerToken * IpBurst)
      BY <1>2, <1>9 DEF HostsAreCounted
    <3>1. /\ AreCounted(clock, admitted, ByHost(h), HitsOf(ipHits, h))
          /\ StaysUnder(admitted, ByHost(h), PerToken * IpBurst)
      BY <2>4 DEF LimitsInv, HostsAreCounted
    <3>2. CASE h = host
      <4>1. HitsOf(ipHits, host) \in Seq(Nat)
        BY <1>2 DEF HitsOf, IsLimiter
      <4>2. AreCounted(clock, admitted, ByHost(h), InWindow(HitsOf(ipHits, host)))
        BY <3>1, <3>2, <4>1, <1>2, <1>3, LookedIsCounted
      <4>3. HitsOf(ipHits', host) = InWindow(HitsOf(ipHits, host))
        BY <2>2 DEF HitsOf
      <4> QED BY <3>1, <3>2, <4>2, <4>3
    <3>3. CASE h # host
      <4>1. HitsOf(ipHits', h) = HitsOf(ipHits, h)
        BY <3>3, <2>1, <2>2 DEF HitsOf
      <4> QED BY <3>1, <4>1
    <3> QED BY <3>2, <3>3
  <2>7. TokensAreCounted'
    <3>1. \A h \in Hosts, s \in Tokens : <<h, s>> \notin forgotten' =>
              /\ AreCounted(clock, admitted, ByToken(h, s), HitsOf(hits', <<h, s>>))
              /\ StaysUnder(admitted, ByToken(h, s), PerToken)
      BY <1>3, <1>8, <1>9
    <3> QED BY <3>1, <1>2, <1>9 DEF TokensAreCounted
  <2>8. LastIsRemembered'
    BY <1>9, <2>1 DEF LimitsInv, LastIsRemembered
  <2> QED BY <2>5, <2>6, <2>7, <2>8 DEF LimitsInv
<1>10. ASSUME ~IsFull(hits, key, PerToken), hits' \in Evicted(Counted(hits, key), key),
              forgotten' = forgotten \cup Dropped(hits, hits') \cup {<<h>> : h \in Dropped(ipHits, ipHits')},
              ~IsFull(ipHits, host, PerToken * IpBurst), ipHits' \in Evicted(Counted(ipHits, host), host),
              admitted' = Append(admitted, r)
       PROVE  LimitsInv'
  <2>0. r \in [host : Hosts, token : Tokens, time : 0..MaxClock] /\ r.host = host
    BY <1>4
  <2> HIDE DEF key, r
  <2>1. /\ IsLimiter(ipHits')
        /\ host \in DOMAIN ipHits' /\ DOMAIN ipHits' \subseteq DOMAIN ipHits \cup {host}
        /\ ipHits'[host] = Append(InWindow(HitsOf(ipHits, host)), clock)
        /\ \A x \in DOMAIN ipHits' \ {host} : ipHits'[x] = ipHits[x]
        /\ \A x \in DOMAIN ipHits \ DOMAIN ipHits' : x \in Dropped(ipHits, ipHits') \/ InWindow(ipHits[x]) = <<>>
    BY <1>2, <1>10, CountingLimiter
  <2>2. DOMAIN ipHits' \subseteq Hosts /\ Dropped(ipHits, ipHits') \subseteq Hosts
    BY <1>2, <2>1 DEF Dropped
  <2>3. HitsOf(ipHits, host) \in Seq(Nat) /\ InWindow(HitsOf(ipHits, host)) \in Seq(Nat)
    <3>1. HitsOf(ipHits, host) \in Seq(Nat)
      BY <1>2 DEF HitsOf, IsLimiter
    <3> QED BY <3>1, <1>2, WindowKeeps
  <2>4. Len(InWindow(HitsOf(ipHits, host))) < PerToken * IpBurst
    <3>1. Looked(ipHits, host)[host] = InWindow(HitsOf(ipHits, host))
      BY <1>2, LookedAt
    <3>2. Len(InWindow(HitsOf(ipHits, host))) \in Nat
      BY <2>3
    <3> DEFINE most == PerToken * IpBurst
    <3>3. most \in Nat /\ ~(Len(InWindow(HitsOf(ipHits, host))) >= most)
      BY <1>1, <1>10, <3>1 DEF IsFull
    <3> HIDE DEF most
    <3>4. Len(InWindow(HitsOf(ipHits, host))) < most
      BY <3>2, <3>3
    <3> QED BY <3>4 DEF most
  <2>5. LimiterTyped'
    <3>1. /\ IsLimiter(hits') /\ DOMAIN hits' \subseteq Hosts \X Tokens
          /\ Dropped(hits, hits') \subseteq Hosts \X Tokens
      BY <1>8, <1>10
    <3>2. forgotten' \subseteq {<<h>> : h \in Hosts} \cup (Hosts \X Tokens)
      BY <1>2, <1>10, <2>2, <3>1
    <3>3. admitted' \in Seq([host : Hosts, token : Tokens, time : 0..MaxClock])
      BY <1>2, <1>10, <2>0
    <3> QED BY <1>2, <2>1, <2>2, <3>1, <3>2, <3>3 DEF LimiterTyped, IsLimiter
  <2>6. HostsAreCounted'
    <3> SUFFICES ASSUME NEW h \in Hosts, <<h>> \notin forgotten'
                 PROVE  /\ AreCounted(clock, Append(admitted, r), ByHost(h), HitsOf(ipHits', h))
                        /\ StaysUnder(Append(admitted, r), ByHost(h), PerToken * IpBurst)
      BY <1>2, <1>10 DEF HostsAreCounted
    <3>1. <<h>> \notin forgotten /\ h \notin Dropped(ipHits, ipHits')
      BY <1>10
    <3>2. /\ AreCounted(clock, admitted, ByHost(h), HitsOf(ipHits, h))
          /\ StaysUnder(admitted, ByHost(h), PerToken * IpBurst)
      BY <3>1 DEF LimitsInv, HostsAreCounted
    <3>3. CASE h = host
      <4>1. HitsOf(ipHits', host) = Append(InWindow(HitsOf(ipHits, host)), clock)
        BY <2>1 DEF HitsOf
      <4>2. AreCounted(clock, admitted, ByHost(h), InWindow(HitsOf(ipHits, host)))
        BY <3>2, <3>3, <2>3, <1>2, <1>3, LookedIsCounted
      <4>3. AreCounted(clock, Append(admitted, r), ByHost(h), Append(InWindow(HitsOf(ipHits, host)), clock))
        BY <4>2, <2>3, <1>2, <1>3, <1>4, CountedIsCounted
      <4>4. StaysUnder(Append(admitted, r), ByHost(h), PerToken * IpBurst)
        BY <3>2, <3>3, <2>3, <2>4, <1>1, <1>2, <1>3, <1>4, LetThroughStaysUnder
      <4> QED BY <3>3, <4>1, <4>3, <4>4
    <3>4. CASE h # host
      <4>1. AreCounted(clock, admitted, ByHost(h), HitsOf(ipHits', h))
        BY <3>1, <3>2, <3>4, <2>1, <1>2, <1>3, OtherKey
      <4>2. r \notin ByHost(h)
        BY <3>4, <1>5
      <4> QED BY <4>1, <4>2, <3>2, <1>3, <1>4, OtherSort
    <3> QED BY <3>3, <3>4
  <2>7. TokensAreCounted'
    <3>1. Append(admitted, r) \in Seq(Sent)
      BY <1>3, <1>4
    <3>2. \A h \in Hosts, s \in Tokens : <<h, s>> \notin forgotten' =>
              /\ AreCounted(clock, Append(admitted, r), ByToken(h, s), HitsOf(hits', <<h, s>>))
              /\ StaysUnder(Append(admitted, r), ByToken(h, s), PerToken)
      BY <3>1, <1>8, <1>10
    <3> QED BY <3>2, <1>2, <1>10 DEF TokensAreCounted
  <2>8. LastIsRemembered'
    <3>1. Last(admitted') = r
      <4>1. Len(Append(admitted, r)) = Len(admitted) + 1 /\ Append(admitted, r)[Len(admitted) + 1] = r
        BY <1>3
      <4> QED BY <4>1, <1>10 DEF Last
    <3> QED BY <3>1, <2>0, <2>1 DEF LastIsRemembered
  <2> QED BY <2>5, <2>6, <2>7, <2>8 DEF LimitsInv
<1>11. \/ IsFull(hits, key, PerToken) /\ hits' = Looked(hits, key) /\ UNCHANGED <<ipHits, admitted, forgotten>>
       \/ /\ ~IsFull(hits, key, PerToken) /\ hits' \in Evicted(Counted(hits, key), key)
          /\ forgotten' = forgotten \cup Dropped(hits, hits') \cup {<<h>> : h \in Dropped(ipHits, ipHits')}
          /\ \/ IsFull(ipHits, host, PerToken * IpBurst) /\ ipHits' = Looked(ipHits, host) /\ admitted' = admitted
             \/ /\ ~IsFull(ipHits, host, PerToken * IpBurst) /\ ipHits' \in Evicted(Counted(ipHits, host), host)
                /\ admitted' = Append(admitted, r)
  BY DEF Incoming
<1> HIDE DEF key, r
<1> QED BY <1>7, <1>9, <1>10, <1>11

LEMMA LimitsNextHolds == LimitsInv /\ [LimitsNext]_limitVars => LimitsInv'
<1> SUFFICES ASSUME LimitsInv, [LimitsNext]_limitVars PROVE LimitsInv'
  OBVIOUS
<1>1. CASE UNCHANGED limitVars
  <2>1. clock' = clock /\ hits' = hits /\ ipHits' = ipHits /\ admitted' = admitted /\ forgotten' = forgotten
    BY <1>1 DEF limitVars
  <2>2. LimiterTyped'
    BY <2>1 DEF LimitsInv, LimiterTyped, IsLimiter
  <2>3. HostsAreCounted'
    BY <2>1 DEF LimitsInv, HostsAreCounted
  <2>4. TokensAreCounted'
    BY <2>1 DEF LimitsInv, TokensAreCounted
  <2>5. LastIsRemembered'
    BY <2>1 DEF LimitsInv, LastIsRemembered
  <2> QED BY <2>2, <2>3, <2>4, <2>5 DEF LimitsInv
<1>2. CASE Tick
  BY <1>2, TickKeeps
<1>3. CASE \E host \in Hosts, token \in Tokens : Incoming(host, token)
  BY <1>3, IncomingKeeps
<1> QED BY <1>1, <1>2, <1>3 DEF LimitsNext

\* What was let through is what the ceilings count.
LEMMA LimitsFollow == LimitsInv => LimitsHold /\ LimitsTypeOK
<1> SUFFICES ASSUME LimitsInv PROVE LimitsHold /\ LimitsTypeOK
  OBVIOUS
<1>0. MaxClock \in Nat /\ clock \in 0..MaxClock /\ clock \in Nat
  BY RateLimitsAssumption DEF LimitsInv, LimiterTyped
<1>1. ASSUME NEW i \in DOMAIN admitted PROVE admitted[i] \in Sent
  <2>1. admitted[i] \in [host : Hosts, token : Tokens, time : 0..MaxClock]
    <3> DEFINE Bounded == [host : Hosts, token : Tokens, time : 0..MaxClock]
    <3>1. admitted \in Seq(Bounded)
      BY DEF LimitsInv, LimiterTyped
    <3> HIDE DEF Bounded
    <3>2. admitted[i] \in Bounded
      BY <3>1
    <3> QED BY <3>2 DEF Bounded
  <2> QED BY <2>1, <1>0 DEF Sent
<1>2. ASSUME NEW h \in Hosts, NEW time \in 0..clock
      PROVE  /\ From(h, time) = SentWithin(admitted, ByHost(h), time)
             /\ \A s \in Tokens : {i \in From(h, time) : admitted[i].token = s} = SentWithin(admitted, ByToken(h, s), time)
  BY <1>1 DEF From, SentWithin, ByHost, ByToken
<1>3. CeilingsHold
  <2> SUFFICES ASSUME NEW h \in Hosts, NEW time \in 0..clock
               PROVE  /\ <<h>> \notin forgotten => Cardinality(From(h, time)) <= PerToken * IpBurst
                      /\ \A s \in Tokens : <<h, s>> \notin forgotten =>
                             Cardinality({i \in From(h, time) : admitted[i].token = s}) <= PerToken
    BY DEF CeilingsHold
  <2>1. time \in Nat
    BY <1>0
  <2>2. <<h>> \notin forgotten => Cardinality(SentWithin(admitted, ByHost(h), time)) <= PerToken * IpBurst
    BY <2>1 DEF LimitsInv, HostsAreCounted, StaysUnder
  <2>3. \A s \in Tokens : <<h, s>> \notin forgotten => Cardinality(SentWithin(admitted, ByToken(h, s), time)) <= PerToken
    BY <2>1 DEF LimitsInv, TokensAreCounted, StaysUnder
  <2> QED BY <1>2, <2>2, <2>3
<1>4. MemoryIsBounded
  BY DEF LimitsInv, LimiterTyped, IsLimiter, MemoryIsBounded
<1>5. LimitsTypeOK
  BY DEF LimitsInv, LimiterTyped, LimitsTypeOK
<1> QED BY <1>3, <1>4, <1>5 DEF LimitsInv, LimitsHold

LimitsSpec == LimitsInit /\ [][LimitsNext]_limitVars

\* Types: of the clock, the limiters and the requests that were let through.
THEOREM LimitsTyped == LimitsSpec => []LimitsTypeOK
BY LimitsInitHolds, LimitsNextHolds, LimitsFollow, PTL DEF LimitsSpec

\* Whoever sends, and however many ids it claims: in no window is an address let through more often
\* than its ceiling or an id more often than its share, unless a limiter forgot them inside of one;
\* none remembers more keys than it may, and each remembers who was let through last.
THEOREM CeilingsAreKept == LimitsSpec => []LimitsHold
BY LimitsInitHolds, LimitsNextHolds, LimitsFollow, PTL DEF LimitsSpec

-----------------------------------------------------------------------------
(* The session of a tab, for any calls in flight and any number of         *)
(* sessions made and forgotten.                                            *)

\* What the socket is told is the session it is bound to, in the end: a socket that is not open is
\* bound to none and has nothing to hear.
SocketIsTold ==
    /\ socket.at = "open" => bound # NoId
    /\ socket.at # "open" => bound = NoId /\ frames = <<>> /\ socket.attached = NoId
    /\ socket.at = "open" /\ frames = <<>> => socket.attached = bound
    /\ frames # <<>> => frames[Len(frames)] = bound

\* What it was told last is what is stored, or it is to move when the turn that runs is over.
MovesWhenOver ==
    /\ socket.attached # NoId /\ stored # NoId /\ socket.attached # stored => socket.stale
    /\ socket.stale => busy \/ settling

TabInv == TabTypeOK /\ SocketIsTold /\ MovesWhenOver

SocketType == [at : {"closed", "connecting", "open"}, attached : 0..MaxIds, held : 0..MaxIds, stale : BOOLEAN]

LEMMA CheckTyped ==
    ASSUME NEW s \in SocketType, NEW id \in 0..MaxIds, NEW inTurn \in BOOLEAN
    PROVE  /\ Check(s, id, inTurn) \in SocketType
           /\ Check(s, id, inTurn).at # s.at => Check(s, id, inTurn) = Opening(id) /\ s.attached # NoId
           /\ Check(s, id, inTurn).at = s.at =>
                  \/ Check(s, id, inTurn).attached = s.attached
                  \/ s.at = "connecting" /\ s.attached # NoId
           /\ LET t == Check(s, id, inTurn) IN
                /\ t.attached # NoId /\ id # NoId /\ t.attached # id => t.stale
                /\ t.stale => inTurn
<1>1. NoId \in 0..MaxIds
  BY TabSessionAssumption DEF NoId
<1>2. Opening(id) \in SocketType
  BY <1>1 DEF Opening, SocketType
<1>3. CASE s.attached = NoId \/ id = NoId \/ s.attached = id
  <2>1. Check(s, id, inTurn) = [s EXCEPT !.stale = FALSE]
    BY <1>3 DEF Check
  <2> QED BY <1>3, <2>1 DEF SocketType
<1>4. CASE ~(s.attached = NoId \/ id = NoId \/ s.attached = id) /\ inTurn
  <2>1. Check(s, id, inTurn) = [s EXCEPT !.stale = TRUE]
    BY <1>4 DEF Check
  <2> QED BY <1>4, <2>1 DEF SocketType
<1>5. CASE ~(s.attached = NoId \/ id = NoId \/ s.attached = id) /\ ~inTurn
  <2>1. Check(s, id, inTurn) = Opening(id)
    BY <1>5 DEF Check
  <2> QED BY <1>2, <1>5, <2>1 DEF SocketType, Opening
<1> QED BY <1>3, <1>4, <1>5

\* Whoever stores an id, the socket follows it or will when the turn is over.
LEMMA StoringFollows ==
    ASSUME TabInv, NEW id \in 0..MaxIds, StoreAndFollow(id), UNCHANGED <<busy, settling>>
    PROVE  /\ stored' \in 0..MaxIds /\ bound' \in 0..MaxIds /\ socket' \in SocketType /\ frames' \in Seq(Ids)
           /\ SocketIsTold' /\ MovesWhenOver'
<1>1. /\ stored \in 0..MaxIds /\ bound \in 0..MaxIds /\ socket \in SocketType /\ frames \in Seq(Ids)
      /\ busy \in BOOLEAN /\ SocketIsTold /\ MovesWhenOver
  BY DEF TabInv, TabTypeOK, SocketType
<1>2. /\ stored' = id /\ socket' = IF id = stored THEN socket ELSE Check(socket, id, busy)
      /\ IF socket'.at = "connecting" /\ socket.at # "connecting"
         THEN bound' = NoId /\ frames' = <<>>
         ELSE UNCHANGED <<bound, frames>>
  BY DEF StoreAndFollow, Store, ServerSide
<1>3. CASE id = stored
  <2>1. socket' = socket /\ bound' = bound /\ frames' = frames /\ stored' = stored
    BY <1>2, <1>3
  <2> QED BY <1>1, <2>1 DEF SocketIsTold, MovesWhenOver
<1>4. CASE id # stored
  <2>1. socket' = Check(socket, id, busy)
    BY <1>2, <1>4
  <2>2. /\ socket' \in SocketType
        /\ socket'.at # socket.at => socket' = Opening(id) /\ socket.attached # NoId
        /\ socket'.at = socket.at => socket'.attached = socket.attached \/ (socket.at = "connecting" /\ socket.attached # NoId)
        /\ socket'.attached # NoId /\ id # NoId /\ socket'.attached # id => socket'.stale
        /\ socket'.stale => busy
    BY <1>1, <2>1, CheckTyped
  <2>3. MovesWhenOver'
    BY <1>2, <2>2 DEF MovesWhenOver
  <2>4. CASE socket'.at = socket.at
    <3>1. bound' = bound /\ frames' = frames /\ socket'.attached = socket.attached
      BY <1>1, <1>2, <2>2, <2>4 DEF SocketIsTold
    <3> QED BY <1>1, <1>2, <2>2, <2>3, <2>4, <3>1 DEF SocketIsTold
  <2>5. CASE socket'.at # socket.at
    <3>1. socket'.at = "connecting" /\ socket'.attached = NoId
      BY <2>2, <2>5 DEF Opening
    <3>2. bound' = NoId /\ frames' = <<>>
      BY <1>2, <2>5, <3>1
    <3>3. NoId \in 0..MaxIds /\ <<>> \in Seq(Ids)
      BY TabSessionAssumption DEF NoId
    <3> QED BY <1>1, <1>2, <2>2, <2>3, <3>1, <3>2, <3>3 DEF SocketIsTold
  <2> QED BY <2>4, <2>5
<1> QED BY <1>3, <1>4

LEMMA TabInitHolds == TabInit => TabInv
<1> SUFFICES ASSUME TabInit PROVE TabInv
  OBVIOUS
<1>1. NoId \in 0..MaxIds /\ 0 \in 0..MaxIds /\ 0 \in 0..MaxForgets
  BY TabSessionAssumption DEF NoId
<1>2. NoCall \in [at : {"idle", "sent", "answered", "gone", "waiting"}, verb : {"GET", "DELETE", "POST"},
                 sent : 0..MaxIds, reply : 0..MaxIds, replayed : BOOLEAN]
  BY <1>1 DEF NoCall
<1>3. Closed \in [at : {"closed", "connecting", "open"}, attached : 0..MaxIds, held : 0..MaxIds, stale : BOOLEAN]
  BY <1>1 DEF Closed
<1>4. TabTypeOK
  <2>1. {stored, bound} \subseteq 0..MaxIds /\ mint \in 0..MaxIds /\ made \in 0..MaxIds /\ forgets \in 0..MaxForgets
    BY <1>1 DEF TabInit, NoId
  <2>2. socket \in [at : {"closed", "connecting", "open"}, attached : 0..MaxIds, held : 0..MaxIds, stale : BOOLEAN]
    BY <1>3 DEF TabInit
  <2>0. <<>> \in Seq(Ids)
    OBVIOUS
  <2>3. frames \in Seq(Ids) /\ live \subseteq Ids /\ minting \in BOOLEAN /\ busy \in BOOLEAN /\ settling \in BOOLEAN
    BY <2>0 DEF TabInit
  <2>4. call \in [Calls -> [at : {"idle", "sent", "answered", "gone", "waiting"}, verb : {"GET", "DELETE", "POST"},
                            sent : 0..MaxIds, reply : 0..MaxIds, replayed : BOOLEAN]]
    BY <1>2 DEF TabInit
  <2> QED BY <2>1, <2>2, <2>3, <2>4 DEF TabTypeOK
<1>5. SocketIsTold /\ MovesWhenOver
  BY DEF TabInit, SocketIsTold, MovesWhenOver, Closed, NoId
<1> QED BY <1>4, <1>5 DEF TabInv

LEMMA Made ==
    ASSUME TabTypeOK, MakeSession
    PROVE  NextId \in Ids /\ NextId \in 0..MaxIds /\ NextId # NoId /\ live' \subseteq Ids /\ made' \in 0..MaxIds
<1>1. made \in 0..MaxIds /\ made < MaxIds /\ MaxIds \in Nat /\ live \subseteq Ids
  BY TabSessionAssumption DEF TabTypeOK, MakeSession
<1>2. NextId \in 1..MaxIds /\ NextId # 0
  BY <1>1 DEF NextId
<1> QED BY <1>1, <1>2 DEF MakeSession, Ids, NoId

\* A frame more, and the queue's last is it.
LEMMA Told ==
    ASSUME NEW q \in Seq(Ids), NEW id \in Ids
    PROVE  /\ Append(q, id) \in Seq(Ids) /\ Append(q, id) # <<>>
           /\ Append(q, id)[Len(Append(q, id))] = id
<1>1. Append(q, id) \in Seq(Ids) /\ Len(Append(q, id)) = Len(q) + 1 /\ Append(q, id)[Len(q) + 1] = id
  OBVIOUS
<1>2. Len(q) + 1 # 0 /\ Len(<<>>) = 0
  OBVIOUS
<1> QED BY <1>1, <1>2

\* A frame less: the last stays the last while there is one.
LEMMA Heard ==
    ASSUME NEW q \in Seq(Ids), q # <<>>
    PROVE  /\ Head(q) \in Ids /\ Tail(q) \in Seq(Ids)
           /\ Tail(q) # <<>> => Tail(q)[Len(Tail(q))] = q[Len(q)]
           /\ Tail(q) = <<>> => Head(q) = q[Len(q)]
<1>1. Len(q) \in Nat /\ Len(q) > 0
  OBVIOUS
<1>2. Tail(q) \in Seq(Ids) /\ Len(Tail(q)) = Len(q) - 1 /\ Head(q) = q[1] /\ Head(q) \in Ids
  BY <1>1
<1>3. \A i \in 1..Len(q) - 1 : Tail(q)[i] = q[i + 1]
  BY <1>1
<1>4. ASSUME Tail(q) # <<>> PROVE Tail(q)[Len(Tail(q))] = q[Len(q)]
  <2>1. Len(Tail(q)) > 0
    BY <1>2, <1>4
  <2>2. Len(q) - 1 \in 1..Len(q) - 1 /\ Len(q) - 1 + 1 = Len(q)
    BY <1>1, <1>2, <2>1
  <2> QED BY <1>2, <1>3, <2>2
<1>5. ASSUME Tail(q) = <<>> PROVE Head(q) = q[Len(q)]
  <2>1. Len(<<>>) = 0
    OBVIOUS
  <2>2. Len(q) - 1 = 0 /\ Len(q) \in Nat
    BY <1>1, <1>2, <1>5, <2>1
  <2>3. Len(q) = 1
    BY <2>2
  <2> QED BY <1>2, <2>3
<1> QED BY <1>2, <1>4, <1>5

CallType == [at : {"idle", "sent", "answered", "gone", "waiting"}, verb : {"GET", "DELETE", "POST"},
             sent : 0..MaxIds, reply : 0..MaxIds, replayed : BOOLEAN]

LEMMA TabNextHolds == TabInv /\ [TabNext]_tabVars => TabInv'
<1> SUFFICES ASSUME TabInv, [TabNext]_tabVars PROVE TabInv'
  OBVIOUS
<1>0. /\ stored \in 0..MaxIds /\ bound \in 0..MaxIds /\ socket \in SocketType /\ frames \in Seq(Ids)
      /\ busy \in BOOLEAN /\ settling \in BOOLEAN /\ call \in [Calls -> CallType]
      /\ minting \in BOOLEAN /\ mint \in 0..MaxIds
      /\ live \subseteq Ids /\ made \in 0..MaxIds /\ forgets \in 0..MaxForgets
      /\ SocketIsTold /\ MovesWhenOver /\ NoId \in 0..MaxIds /\ <<>> \in Seq(Ids)
      /\ live \subseteq 0..MaxIds
  BY TabSessionAssumption DEF TabInv, TabTypeOK, SocketType, CallType, NoId, Ids
<1> DEFINE CallsTyped == call' \in [Calls -> CallType]
           SocketKeeps == stored' \in 0..MaxIds /\ bound' \in 0..MaxIds /\ socket' \in SocketType /\ frames' \in Seq(Ids)
                          /\ busy' \in BOOLEAN /\ settling' \in BOOLEAN /\ SocketIsTold' /\ MovesWhenOver'
           ServerKeeps == minting' \in BOOLEAN /\ mint' \in 0..MaxIds /\ live' \subseteq Ids /\ made' \in 0..MaxIds /\ forgets' \in 0..MaxForgets
<1>q. ASSUME CallsTyped, SocketKeeps, ServerKeeps PROVE TabInv'
  BY <1>q DEF TabInv, TabTypeOK, SocketType, CallType
<1>u. UNCHANGED <<minting, mint, live, made, forgets>> => ServerKeeps
  BY <1>0
<1>c. UNCHANGED call => CallsTyped
  BY <1>0
<1>s. UNCHANGED <<stored, socket, bound, frames, busy, settling>> => SocketKeeps
  BY <1>0 DEF SocketIsTold, MovesWhenOver
<1>f. ASSUME NEW id \in 0..MaxIds, StoreAndFollow(id), UNCHANGED <<busy, settling>> PROVE SocketKeeps
  BY <1>0, <1>f, StoringFollows
<1> HIDE DEF CallsTyped, SocketKeeps, ServerKeeps
<1>1. ASSUME Connect PROVE TabInv'
  <2>1. socket' = Opening(stored) /\ UNCHANGED <<stored, bound, frames, busy, settling>> /\ socket.at = "closed"
    BY <1>1 DEF Connect
  <2>2. SocketKeeps
    BY <1>0, <2>1 DEF SocketKeeps, Opening, SocketType, SocketIsTold, MovesWhenOver
  <2> QED BY <1>1, <1>q, <1>u, <1>c, <2>2 DEF Connect
<1>2. ASSUME Accept PROVE TabInv'
  <2>1. /\ socket.at = "connecting" /\ bound = NoId /\ frames' = Append(frames, bound')
        /\ socket' = [socket EXCEPT !.at = "open"]
        /\ UNCHANGED <<stored, busy, settling, call, minting, mint, forgets>>
    BY <1>2 DEF Accept
  <2>2. bound' \in Ids /\ bound' # NoId /\ bound' \in 0..MaxIds /\ live' \subseteq Ids /\ made' \in 0..MaxIds
    <3>1. CASE socket.held \in live
      BY <1>0, <1>2, <3>1 DEF Accept, Ids, NoId
    <3>2. CASE socket.held \notin live
      BY <1>0, <1>2, <3>2, Made DEF Accept, TabInv
    <3> QED BY <3>1, <3>2
  <2>3. frames' \in Seq(Ids) /\ frames' # <<>> /\ frames'[Len(frames')] = bound'
    BY <1>0, <2>1, <2>2, Told
  <2>4. socket' \in SocketType /\ socket'.at = "open" /\ socket'.attached = NoId /\ socket'.stale = socket.stale
    BY <1>0, <2>1 DEF SocketType, SocketIsTold
  <2>5. SocketKeeps
    BY <1>0, <2>1, <2>2, <2>3, <2>4 DEF SocketKeeps, SocketIsTold, MovesWhenOver
  <2> QED BY <1>0, <1>q, <1>c, <2>1, <2>2, <2>5 DEF ServerKeeps
<1>3. ASSUME ResolveSession PROVE TabInv'
  <2>1. /\ socket.at = "open" /\ MakeSession /\ bound' = NextId /\ frames' = Append(frames, NextId)
        /\ UNCHANGED <<stored, socket, busy, settling, call, minting, mint, forgets>>
    BY <1>3 DEF ResolveSession
  <2>2. NextId \in Ids /\ NextId # NoId /\ NextId \in 0..MaxIds /\ live' \subseteq Ids /\ made' \in 0..MaxIds
    BY <2>1, Made DEF TabInv
  <2>3. frames' \in Seq(Ids) /\ frames' # <<>> /\ frames'[Len(frames')] = bound'
    BY <1>0, <2>1, <2>2, Told
  <2>4. SocketKeeps
    BY <1>0, <2>1, <2>2, <2>3 DEF SocketKeeps, SocketIsTold, MovesWhenOver
  <2> QED BY <1>0, <1>q, <1>c, <2>1, <2>2, <2>4 DEF ServerKeeps
<1>4. ASSUME Announced PROVE TabInv'
  <2> DEFINE id == Head(frames)
             told == [socket EXCEPT !.attached = id, !.held = id]
  <2>1. frames # <<>> /\ UNCHANGED <<busy, settling, call, minting, mint, live, made, forgets>>
    BY <1>4 DEF Announced
  <2>2. /\ id \in Ids /\ id \in 0..MaxIds /\ id # NoId /\ Tail(frames) \in Seq(Ids)
        /\ Tail(frames) # <<>> => Tail(frames)[Len(Tail(frames))] = bound
        /\ Tail(frames) = <<>> => id = bound
    BY <1>0, <2>1, Heard DEF SocketIsTold, Ids, NoId
  <2>3. told \in SocketType /\ told.at = "open" /\ told.attached = id /\ socket.at = "open" /\ bound # NoId
    BY <1>0, <2>1, <2>2 DEF SocketType, SocketIsTold
  <2> HIDE DEF id, told
  <2>4. CASE stored = id /\ socket' = told /\ frames' = Tail(frames) /\ UNCHANGED <<stored, bound>>
    <3>1. told.stale = socket.stale
      BY <1>0 DEF told, SocketType
    <3> QED BY <1>0, <1>q, <1>u, <1>c, <2>1, <2>2, <2>3, <2>4, <3>1 DEF SocketKeeps, SocketIsTold, MovesWhenOver
  <2>5. CASE stored' = id /\ socket' = Check(told, id, busy) /\ frames' = Tail(frames) /\ UNCHANGED bound
    <3>1. socket' = [told EXCEPT !.stale = FALSE]
      BY <2>3, <2>5 DEF Check
    <3>2. socket' \in SocketType /\ socket'.at = "open" /\ socket'.attached = id /\ socket'.stale = FALSE
      BY <2>3, <3>1 DEF SocketType
    <3> QED BY <1>0, <1>q, <1>u, <1>c, <2>1, <2>2, <2>3, <2>5, <3>2 DEF SocketKeeps, SocketIsTold, MovesWhenOver
  <2>6. CASE /\ stored # id /\ stored # NoId /\ UNCHANGED stored
             /\ socket' = Check(told, stored, busy)
             /\ IF socket'.at = "connecting" THEN bound' = NoId /\ frames' = <<>> ELSE frames' = Tail(frames) /\ UNCHANGED bound
    <3>1. CASE busy
      <4>1. socket' = [told EXCEPT !.stale = TRUE]
        BY <2>2, <2>3, <2>6, <3>1 DEF Check
      <4>2. socket' \in SocketType /\ socket'.at = "open" /\ socket'.attached = id /\ socket'.stale = TRUE
        BY <2>3, <4>1 DEF SocketType
      <4> QED BY <1>0, <1>q, <1>u, <1>c, <2>1, <2>2, <2>3, <2>6, <3>1, <4>2 DEF SocketKeeps, SocketIsTold, MovesWhenOver
    <3>2. CASE ~busy
      <4>1. socket' = Opening(stored)
        BY <2>2, <2>3, <2>6, <3>2 DEF Check
      <4>2. socket' \in SocketType /\ socket'.at = "connecting" /\ socket'.attached = NoId /\ socket'.stale = FALSE
        BY <1>0, <4>1 DEF SocketType, Opening
      <4> QED BY <1>0, <1>q, <1>u, <1>c, <2>1, <2>6, <4>2 DEF SocketKeeps, SocketIsTold, MovesWhenOver
    <3> QED BY <3>1, <3>2
  <2> QED BY <1>4, <2>4, <2>5, <2>6 DEF Announced, id, told
<1>5. ASSUME SocketCloses \/ RestartServer PROVE TabInv'
  <2>1. /\ socket' = [socket EXCEPT !.at = "closed", !.attached = NoId] /\ bound' = NoId /\ frames' = <<>>
        /\ Settled /\ UNCHANGED <<stored, call, minting, mint, made>>
    BY <1>5 DEF SocketCloses, RestartServer
  <2>2. socket' \in SocketType /\ socket'.at = "closed" /\ socket'.attached = NoId /\ socket'.stale = socket.stale
    BY <1>0, <2>1 DEF SocketType
  <2>3. busy' \in BOOLEAN /\ settling' \in BOOLEAN /\ (busy \/ settling => busy' \/ settling')
    BY <1>0, <2>1 DEF Settled
  <2>4. SocketKeeps
    BY <1>0, <2>1, <2>2, <2>3 DEF SocketKeeps, SocketIsTold, MovesWhenOver
  <2>5. live' \subseteq Ids /\ forgets' \in 0..MaxForgets
    BY <1>0, <1>5, TabSessionAssumption DEF SocketCloses, RestartServer
  <2> QED BY <1>0, <1>q, <1>c, <2>1, <2>4, <2>5 DEF ServerKeeps
<1>6. ASSUME TurnBegins \/ TurnOver PROVE TabInv'
  <2>1. /\ UNCHANGED <<stored, socket, bound, frames, call, minting, mint, live, made, forgets>>
        /\ busy' \in BOOLEAN /\ settling' \in BOOLEAN /\ (busy \/ settling => busy' \/ settling')
    BY <1>0, <1>6 DEF TurnBegins, TurnOver
  <2>2. SocketKeeps
    BY <1>0, <2>1 DEF SocketKeeps, SocketIsTold, MovesWhenOver
  <2> QED BY <1>q, <1>u, <1>c, <2>1, <2>2
<1>7. ASSUME Settle PROVE TabInv'
  <2>1. UNCHANGED <<stored, busy, call, minting, mint, live, made, forgets>> /\ settling' = FALSE
    BY <1>7 DEF Settle
  <2>2. CASE ~socket.stale
    <3>1. socket' = socket /\ UNCHANGED <<bound, frames>>
      BY <1>7, <2>2 DEF Settle, ServerSide
    <3>2. SocketKeeps
      BY <1>0, <2>1, <2>2, <3>1 DEF SocketKeeps, SocketIsTold, MovesWhenOver
    <3> QED BY <1>q, <1>u, <1>c, <2>1, <3>2
  <2>3. CASE socket.stale
    <3>1. socket' = Check(socket, stored, busy)
      BY <1>7, <2>3 DEF Settle
    <3>2. /\ socket' \in SocketType
          /\ socket'.at # socket.at => socket' = Opening(stored) /\ socket.attached # NoId
          /\ socket'.at = socket.at => socket'.attached = socket.attached \/ (socket.at = "connecting" /\ socket.attached # NoId)
          /\ socket'.attached # NoId /\ stored # NoId /\ socket'.attached # stored => socket'.stale
          /\ socket'.stale => busy
      <4>1. socket \in SocketType /\ stored \in 0..MaxIds /\ busy \in BOOLEAN
        BY <1>0
      <4> QED BY <3>1, <4>1, CheckTyped
    <3>3. IF socket'.at = "connecting" /\ socket.at # "connecting" THEN bound' = NoId /\ frames' = <<>> ELSE UNCHANGED <<bound, frames>>
      BY <1>7 DEF Settle, ServerSide
    <3>4. MovesWhenOver'
      BY <2>1, <3>2 DEF MovesWhenOver
    <3>5. CASE socket'.at = socket.at
      <4>1. bound' = bound /\ frames' = frames /\ socket'.attached = socket.attached
        BY <1>0, <3>2, <3>3, <3>5 DEF SocketIsTold
      <4>2. SocketKeeps
        BY <1>0, <2>1, <3>2, <3>4, <3>5, <4>1 DEF SocketKeeps, SocketIsTold
      <4> QED BY <1>q, <1>u, <1>c, <2>1, <4>2
    <3>6. CASE socket'.at # socket.at
      <4>1. socket'.at = "connecting" /\ socket'.attached = NoId
        BY <3>2, <3>6 DEF Opening
      <4>2. bound' = NoId /\ frames' = <<>>
        BY <3>3, <3>6, <4>1
      <4>3. SocketKeeps
        BY <1>0, <2>1, <3>2, <3>4, <4>1, <4>2 DEF SocketKeeps, SocketIsTold
      <4> QED BY <1>q, <1>u, <1>c, <2>1, <4>3
    <3> QED BY <3>5, <3>6
  <2> QED BY <1>0, <2>2, <2>3
<1>8. ASSUME NEW c \in Calls, NEW verb \in {"GET", "POST", "DELETE"}, NEW replayed \in BOOLEAN, Ask(c, verb, replayed) PROVE CallsTyped
  BY <1>0, <1>8 DEF Ask, CallsTyped, CallType
<1>9. ASSUME NEW c \in Calls, NEW verb \in {"GET", "POST", "DELETE"}, Request(c, verb) PROVE TabInv'
  BY <1>8, <1>9, <1>q, <1>u, <1>s DEF Request
<1>10. ASSUME NEW c \in Calls, Serve(c) PROVE TabInv'
  <2>1. UNCHANGED <<stored, socket, bound, frames, busy, settling, minting, mint, forgets>>
    BY <1>10 DEF Serve
  <2>2. call[c] \in CallType /\ call[c].sent \in 0..MaxIds
    BY <1>0 DEF CallType
  <2>3. CallsTyped /\ live' \subseteq Ids /\ made' \in 0..MaxIds
    <3>1. CASE MakeSession /\ call' = [call EXCEPT ![c].at = "answered", ![c].reply = NextId]
      <4>1. NextId \in 0..MaxIds /\ live' \subseteq Ids /\ made' \in 0..MaxIds
        BY <3>1, Made DEF TabInv
      <4>2. CallsTyped
        BY ZenonT(60), <1>0, <3>1, <4>1 DEF CallsTyped, CallType
      <4> QED BY <4>1, <4>2
    <3>2. CASE call' = [call EXCEPT ![c].at = "gone"] /\ UNCHANGED <<live, made>>
      BY ZenonT(60), <1>0, <3>2 DEF CallsTyped, CallType
    <3>3. CASE call' = [call EXCEPT ![c].at = "answered", ![c].reply = call[c].sent] /\ UNCHANGED <<live, made>>
      BY <1>0, <2>2, <3>3 DEF CallsTyped, CallType
    <3>4. CASE live' = live \ {call[c].sent} /\ call' = [call EXCEPT ![c].at = "answered"] /\ UNCHANGED made
      BY <1>0, <3>4 DEF CallsTyped, CallType
    <3> QED BY <1>10, <3>1, <3>2, <3>3, <3>4 DEF Serve
  <2> QED BY <1>0, <1>q, <1>s, <2>1, <2>3 DEF ServerKeeps
<1>11. NoCall \in CallType /\ [NoCall EXCEPT !.at = "sent"] \in CallType
  BY <1>0 DEF NoCall, CallType
<1>12. ASSUME NEW c \in Calls, NEW k \in CallType, call' = [call EXCEPT ![c] = k] PROVE CallsTyped
  BY <1>0, <1>12 DEF CallsTyped
<1>13. ASSUME NEW c \in Calls, Answered(c) PROVE TabInv'
  <2>1. call[c].reply \in 0..MaxIds
    BY <1>0 DEF CallType
  <2>2. CallsTyped
    BY <1>11, <1>12, <1>13 DEF Answered
  <2>3. SocketKeeps
    BY <1>0, <1>f, <1>13, <2>1 DEF Answered
  <2> QED BY <1>q, <1>u, <1>13, <2>2, <2>3 DEF Answered
<1>14. ASSUME NEW c \in Calls, GoneForGood(c) PROVE TabInv'
  <2>1. CallsTyped
    BY <1>11, <1>12, <1>14 DEF GoneForGood
  <2>2. SocketKeeps
    BY <1>0, <1>f, <1>s, <1>14 DEF GoneForGood
  <2> QED BY <1>q, <1>u, <1>14, <2>1, <2>2 DEF GoneForGood
<1>15. ASSUME NEW c \in Calls, Recover(c) PROVE TabInv'
  <2>1. CallsTyped
    <3>1. CASE Ask(c, "GET", TRUE)
      BY <1>8, <3>1
    <3>2. CASE call' = [call EXCEPT ![c].at = "waiting"]
      BY ZenonT(60), <1>0, <3>2 DEF CallsTyped, CallType
    <3> QED BY <1>15, <3>1, <3>2 DEF Recover
  <2>2. SocketKeeps
    BY <1>0, <1>f, <1>s, <1>15 DEF Recover
  <2>3. ServerKeeps
    BY <1>0, <1>15 DEF Recover, ServerKeeps
  <2> QED BY <1>q, <2>1, <2>2, <2>3
<1>16. ASSUME Mint PROVE TabInv'
  <2>1. MakeSession /\ mint' = NextId /\ UNCHANGED <<stored, socket, bound, frames, busy, settling, call, minting, forgets>>
    BY <1>16 DEF Mint
  <2>2. ServerKeeps
    BY <1>0, <2>1, Made DEF ServerKeeps, TabInv
  <2> QED BY <1>q, <1>c, <1>s, <2>1, <2>2
<1>17. ASSUME Minted PROVE TabInv'
  <2> DEFINE id == IF stored = NoId THEN mint ELSE stored
  <2>1. id \in 0..MaxIds
    BY <1>0
  <2>2. StoreAndFollow(id) /\ UNCHANGED <<busy, settling, live, made, forgets>> /\ minting' = FALSE /\ mint' = NoId
    BY <1>17 DEF Minted
  <2>3. SocketKeeps
    BY <1>f, <2>1, <2>2
  <2>4. [NoCall EXCEPT !.at = "sent", !.sent = id, !.replayed = TRUE] \in CallType
    BY <1>0, <2>1 DEF NoCall, CallType
  <2>5. CallsTyped
    BY <1>0, <1>17, <2>4 DEF Minted, CallsTyped
  <2>6. ServerKeeps
    BY <1>0, <2>2 DEF ServerKeeps
  <2> QED BY <1>q, <2>3, <2>5, <2>6
<1>18. ASSUME OtherTab PROVE TabInv'
  <2>1. PICK id \in live : StoreAndFollow(id)
    BY <1>18 DEF OtherTab
  <2>2. SocketKeeps
    BY <1>0, <1>f, <1>18, <2>1 DEF OtherTab
  <2> QED BY <1>q, <1>u, <1>c, <1>18, <2>2 DEF OtherTab
<1>19. ASSUME NEW id \in Ids, ForgetSession(id) PROVE TabInv'
  <2>1. live' \subseteq Ids /\ forgets' \in 0..MaxForgets
    BY <1>0, <1>19, TabSessionAssumption DEF ForgetSession
  <2> QED BY <1>0, <1>q, <1>c, <1>s, <1>19, <2>1 DEF ForgetSession, ServerKeeps
<1>20. ASSUME UNCHANGED tabVars PROVE TabInv'
  BY <1>20, <1>q, <1>u, <1>c, <1>s DEF tabVars
<1> QED BY <1>1, <1>2, <1>3, <1>4, <1>5, <1>6, <1>7, <1>9, <1>10, <1>13, <1>14, <1>15, <1>16, <1>17, <1>18, <1>19, <1>20 DEF TabNext

\* Types: of the tab, its socket, its calls and the sessions of the server.
THEOREM TabTyped == TabSpec => []TabTypeOK
<1>1. TabInv => TabTypeOK
  BY DEF TabInv
<1> QED BY <1>1, TabInitHolds, TabNextHolds, PTL DEF TabSpec

\* Whatever calls cross, however often the server forgets: an open socket with nothing left to hear,
\* beside no turn and no move that waits for one, is in the session that the tab's calls name.
THEOREM TheSocketFollows == TabSpec => []SocketFollowsStore
<1>1. TabInv => SocketFollowsStore
  BY DEF TabInv, TabTypeOK, SocketIsTold, MovesWhenOver, SocketFollowsStore
<1> QED BY <1>1, TabInitHolds, TabNextHolds, PTL DEF TabSpec

-----------------------------------------------------------------------------
(* Replayed code, for any questions, scopes, rooms and relation of nearness. *)

OneOfEach(tier) == \A i, j \in DOMAIN tier : tier[i].key = tier[j].key => i = j

\* Types: of the two tiers, the turns and what is in force.
TurnsOfTabs ==
    [at : {"idle", "writing", "running"}, n : 0..MaxTurns, asked : Wordings, code : Solution, replays : BOOLEAN, in : Worlds]

CacheTyped ==
    /\ rows \in Seq(Entry) /\ hot \in Seq(Entry)
    /\ turn \in [Tabs -> TurnsOfTabs]
    /\ world \in [Tabs -> Worlds]
    /\ turns \in 0..MaxTurns /\ swaps \in 0..MaxSwaps
    /\ unsaved \subseteq Keys

\* A row is what a turn ended with, where it did; what the process has is that or was copied from a
\* row for a question near to its own.
RowsAreFinished == \A r \in Range(rows) : [code |-> r.code, asked |-> r.key[1], in |-> r.key[2]] \in finished

HotIsNear ==
    \A e \in Range(hot) :
        \E f \in finished : f.code = e.code /\ f.in = e.key[2] /\ <<f.asked, e.key[1]>> \in Near

CacheInv == CacheTyped /\ RowsAreFinished /\ HotIsNear /\ ReplaysItsOwn /\ TiersAgree /\ TiersAreBounded

LEMMA RangeWithin ==
    ASSUME NEW S, NEW s \in Seq(S), NEW e \in Range(s)
    PROVE  e \in S
<1>1. PICK i \in DOMAIN s : e = s[i]
  BY DEF Range
<1>2. DOMAIN s = 1..Len(s)
  OBVIOUS
<1> QED BY <1>1, <1>2

LEMMA RemovedAt ==
    ASSUME NEW S, NEW s \in Seq(S), NEW k \in 1..Len(s)
    PROVE  /\ RemoveAt(s, k) \in Seq(S) /\ Len(RemoveAt(s, k)) = Len(s) - 1
           /\ \A i \in 1..Len(s) - 1 : RemoveAt(s, k)[i] = s[IF i < k THEN i ELSE i + 1]
<1>1. Len(s) \in Nat /\ k - 1 \in 0..Len(s) /\ k + 1 \in 1..Len(s) + 1 /\ k \in Nat
  OBVIOUS
<1> DEFINE a == SubSeq(s, 1, k - 1)
           b == SubSeq(s, k + 1, Len(s))
<1>2. a \in Seq(S) /\ Len(a) = k - 1 /\ \A i \in 1..k - 1 : a[i] = s[i]
  BY <1>1
<1>3. b \in Seq(S) /\ Len(b) = Len(s) - k /\ \A i \in 1..Len(s) - k : b[i] = s[k + i]
  BY <1>1
<1>4. RemoveAt(s, k) = a \o b
  BY DEF RemoveAt
<1> HIDE DEF a, b
<1>5. a \o b \in Seq(S) /\ Len(a \o b) = Len(s) - 1
  <2>0. a \in Seq(S) /\ b \in Seq(S)
    BY <1>2, <1>3
  <2>1. Len(a \o b) = Len(a) + Len(b)
    BY <2>0
  <2>3. a \o b \in Seq(S)
    BY <2>0
  <2>2. Len(a) + Len(b) = Len(s) - 1
    <3>1. Len(a) = k - 1 /\ Len(b) = Len(s) - k
      BY <1>2, <1>3
    <3> QED BY <1>1, <3>1
  <2> QED BY <2>1, <2>2, <2>3
<1>6. ASSUME NEW i \in 1..Len(s) - 1 PROVE (a \o b)[i] = s[IF i < k THEN i ELSE i + 1]
  <2>1. CASE i < k
    <3>1. i \in 1..k - 1 /\ i \in 1..Len(a)
      BY <1>1, <1>2, <2>1
    <3>2. (a \o b)[i] = a[i]
      BY <1>2, <1>3, <3>1
    <3> QED BY <1>2, <2>1, <3>1, <3>2
  <2>2. CASE ~(i < k)
    <3>1. i - (k - 1) \in 1..Len(s) - k /\ k + (i - (k - 1)) = i + 1 /\ i > Len(a) /\ i - Len(a) = i - (k - 1)
      BY <1>1, <1>2, <2>2
    <3>2. (a \o b)[i] = b[i - Len(a)]
      BY <1>1, <1>2, <1>3, <3>1
    <3>3. b[i - (k - 1)] = s[i + 1]
      BY <1>3, <3>1
    <3> QED BY <2>2, <3>1, <3>2, <3>3
  <2> QED BY <2>1, <2>2
<1> QED BY <1>4, <1>5, <1>6

\* What is left of a tier when one key is taken out.
LEMMA Taking ==
    ASSUME NEW tier \in Seq(Entry), OneOfEach(tier), NEW key
    PROVE  LET left == Without(tier, key) IN
           /\ left \in Seq(Entry) /\ OneOfEach(left) /\ Len(left) <= Len(tier)
           /\ \A i \in 1..Len(left) : left[i].key # key /\ \E j \in DOMAIN tier : left[i] = tier[j]
<1>1. Len(tier) \in Nat /\ DOMAIN tier = 1..Len(tier)
  OBVIOUS
<1>2. CASE Positions(tier, key) = {}
  <2>1. Without(tier, key) = tier
    BY <1>2 DEF Without
  <2> QED BY <1>1, <1>2, <2>1 DEF Positions
<1>3. CASE Positions(tier, key) # {}
  <2>1. PICK k : k \in Positions(tier, key) /\ Without(tier, key) = RemoveAt(tier, k)
    BY <1>3 DEF Without
  <2>2. k \in 1..Len(tier) /\ tier[k].key = key
    BY <1>1, <2>1 DEF Positions
  <2> DEFINE left == Without(tier, key)
  <2>3. /\ left \in Seq(Entry) /\ Len(left) = Len(tier) - 1
        /\ \A i \in 1..Len(tier) - 1 : left[i] = tier[IF i < k THEN i ELSE i + 1]
    BY <2>1, <2>2, RemovedAt
  <2> HIDE DEF left
  <2>4. \A i \in 1..Len(tier) - 1 : (IF i < k THEN i ELSE i + 1) \in 1..Len(tier) /\ (IF i < k THEN i ELSE i + 1) # k
    BY <1>1, <2>2
  <2>5. ASSUME NEW i \in 1..Len(left) PROVE left[i].key # key /\ \E j \in DOMAIN tier : left[i] = tier[j]
    <3>1. PICK j \in 1..Len(tier) : j = (IF i < k THEN i ELSE i + 1) /\ j # k /\ left[i] = tier[j]
      BY <2>3, <2>4
    <3>2. tier[j].key # tier[k].key
      BY <1>1, <2>2, <3>1 DEF OneOfEach
    <3> QED BY <1>1, <2>2, <3>1, <3>2
  <2>6. OneOfEach(left)
    <3>1. ASSUME NEW i \in 1..Len(left), NEW j \in 1..Len(left), left[i].key = left[j].key PROVE i = j
      <4>1. left[i] = tier[IF i < k THEN i ELSE i + 1] /\ left[j] = tier[IF j < k THEN j ELSE j + 1]
        BY <2>3
      <4>2. (IF i < k THEN i ELSE i + 1) = (IF j < k THEN j ELSE j + 1)
        BY <1>1, <2>3, <2>4, <3>1, <4>1 DEF OneOfEach
      <4> QED BY <2>2, <4>2
    <3> QED BY <2>3, <3>1 DEF OneOfEach
  <2>7. Len(left) <= Len(tier)
    BY <1>1, <2>3
  <2> QED BY <2>3, <2>5, <2>6, <2>7 DEF left
<1> QED BY <1>2, <1>3

\* What a tier is when a solution was put in: it is there, and the rest was there for other keys.
LEMMA Putting ==
    ASSUME NEW tier \in Seq(Entry), OneOfEach(tier), NEW room \in Nat \ {0}, Len(tier) <= room, NEW key \in Keys, NEW code \in Solution
    PROVE  LET after == Put(tier, key, code, room) IN
           /\ after \in Seq(Entry) /\ OneOfEach(after) /\ Len(after) <= room
           /\ \A e \in Range(after) : e = [key |-> key, code |-> code] \/ (e.key # key /\ e \in Range(tier))
<1> DEFINE left == Without(tier, key)
           fresh == [key |-> key, code |-> code]
           long == Append(left, fresh)
<1>1. /\ left \in Seq(Entry) /\ OneOfEach(left) /\ Len(left) <= Len(tier)
      /\ \A i \in 1..Len(left) : left[i].key # key /\ \E j \in DOMAIN tier : left[i] = tier[j]
  BY Taking
<1>2. fresh \in Entry /\ fresh.key = key
  BY DEF Entry
<1>3. Put(tier, key, code, room) = Newest(long, room)
  BY DEF Put
<1> HIDE DEF left, fresh
<1>4. /\ Len(left) \in Nat /\ Len(left) <= room /\ Len(tier) \in Nat /\ DOMAIN left = 1..Len(left)
  BY <1>1
<1>5. /\ long \in Seq(Entry) /\ Len(long) = Len(left) + 1 /\ DOMAIN long = 1..Len(left) + 1
      /\ long[Len(left) + 1] = fresh /\ \A i \in 1..Len(left) : long[i] = left[i]
  BY <1>1, <1>2
<1> HIDE DEF long
<1>6. \A i \in 1..Len(left) + 1 : i \in 1..Len(left) \/ i = Len(left) + 1
  BY <1>4
<1>7. OneOfEach(long)
  <2>1. ASSUME NEW i \in 1..Len(left) + 1, NEW j \in 1..Len(left) + 1, long[i].key = long[j].key PROVE i = j
    <3>1. CASE i \in 1..Len(left) /\ j \in 1..Len(left)
      BY <1>1, <1>4, <1>5, <2>1, <3>1 DEF OneOfEach
    <3>2. CASE i \in 1..Len(left) /\ j = Len(left) + 1
      BY <1>1, <1>2, <1>5, <2>1, <3>2
    <3>3. CASE i = Len(left) + 1 /\ j \in 1..Len(left)
      BY <1>1, <1>2, <1>5, <2>1, <3>3
    <3> QED BY <1>6, <3>1, <3>2, <3>3
  <2> QED BY <1>5, <2>1 DEF OneOfEach
<1>8. \A i \in 1..Len(left) + 1 : long[i] = fresh \/ (long[i].key # key /\ long[i] \in Range(tier))
  BY <1>1, <1>5, <1>6 DEF Range
<1>9. CASE Len(long) <= room
  <2>1. Newest(long, room) = long
    BY <1>9 DEF Newest
  <2>2. \A e \in Range(long) : e = fresh \/ (e.key # key /\ e \in Range(tier))
    BY <1>5, <1>8 DEF Range
  <2> QED BY <1>3, <1>5, <1>7, <1>9, <2>1, <2>2 DEF fresh
<1>10. CASE ~(Len(long) <= room)
  <2> DEFINE cut == SubSeq(long, Len(long) - room + 1, Len(long))
  <2>1. Newest(long, room) = cut
    BY <1>10 DEF Newest
  <2>2. Len(left) = room /\ Len(long) = room + 1 /\ Len(long) - room + 1 = 2
    <3>1. \A n \in Nat : n <= room /\ ~(n + 1 <= room) => n = room /\ n + 1 - room + 1 = 2
      OBVIOUS
    <3>2. Len(long) = Len(left) + 1 /\ Len(left) \in Nat /\ Len(left) <= room
      BY <1>4, <1>5
    <3> QED BY <1>10, <3>1, <3>2
  <2>3. cut \in Seq(Entry) /\ Len(cut) = room /\ DOMAIN cut = 1..room /\ \A i \in 1..room : cut[i] = long[i + 1] /\ i + 1 \in 1..Len(left) + 1
    <3>1. cut = SubSeq(long, 2, room + 1)
      BY <2>2
    <3> HIDE DEF cut
    <3> QED BY <1>5, <2>2, <3>1
  <2> HIDE DEF cut
  <2>4. ASSUME NEW i \in 1..room, NEW j \in 1..room, cut[i].key = cut[j].key PROVE i = j
    <3>1. cut[i] = long[i + 1] /\ cut[j] = long[j + 1] /\ i + 1 \in DOMAIN long /\ j + 1 \in DOMAIN long
      BY <1>5, <2>3
    <3>2. i + 1 = j + 1
      BY <1>7, <2>4, <3>1 DEF OneOfEach
    <3> QED BY <3>2
  <2>5. OneOfEach(cut)
    BY <2>3, <2>4 DEF OneOfEach
  <2>6. \A e \in Range(cut) : e = fresh \/ (e.key # key /\ e \in Range(tier))
    BY <1>8, <2>3 DEF Range
  <2> QED BY <1>3, <2>1, <2>3, <2>5, <2>6 DEF fresh
<1> QED BY <1>9, <1>10


LEMMA NoTurnTyped == NoTurn \in TurnsOfTabs /\ NoTurn.replays = FALSE
<1>1. 0 \in 0..MaxTurns
  BY CodeCacheAssumption
<1>2. NoCode \in Solution
  BY <1>1, CodeCacheAssumption DEF NoCode, Solution
<1>3. (CHOOSE q \in Wordings : TRUE) \in Wordings /\ (CHOOSE w \in Worlds : TRUE) \in Worlds
  BY CodeCacheAssumption
<1> QED BY <1>1, <1>2, <1>3 DEF NoTurn, TurnsOfTabs

LEMMA CacheInitHolds == CacheInit => CacheInv
<1> SUFFICES ASSUME CacheInit PROVE CacheInv
  OBVIOUS
<1>1. rows = <<>> /\ hot = <<>> /\ Len(<<>>) = 0 /\ Range(<<>>) = {} /\ DOMAIN <<>> = {}
  BY DEF CacheInit, Range
<1>2. HotRoom \in Nat /\ RowRoom \in Nat /\ MaxTurns \in Nat /\ MaxSwaps \in Nat
  BY CodeCacheAssumption
<1>3. CacheTyped
  <2>1. 0 \in 0..MaxTurns /\ 0 \in 0..MaxSwaps
    BY <1>2
  <2>2. <<>> \in Seq(Entry)
    OBVIOUS
  <2> QED BY <1>1, <2>1, <2>2, NoTurnTyped DEF CacheInit, CacheTyped
<1>4. RowsAreFinished /\ HotIsNear /\ TiersAgree
  BY <1>1 DEF RowsAreFinished, HotIsNear, TiersAgree
<1>5. ReplaysItsOwn
  BY NoTurnTyped DEF CacheInit, ReplaysItsOwn
<1>6. TiersAreBounded
  BY <1>1, <1>2 DEF TiersAreBounded
<1> QED BY <1>3, <1>4, <1>5, <1>6 DEF CacheInv

\* A turn that goes on keeps the invariant where what it replays is what another ended with.
LEMMA TurnGoesOn ==
    ASSUME CacheInv, NEW s \in Tabs, NEW t \in TurnsOfTabs, turn' = [turn EXCEPT ![s] = t], finished \subseteq finished',
           t.replays => \E f \in finished' : f.code = t.code /\ f.in = t.in /\ <<f.asked, t.asked>> \in Near
    PROVE  turn' \in [Tabs -> TurnsOfTabs] /\ ReplaysItsOwn'
<1>1. turn \in [Tabs -> TurnsOfTabs] /\ turn'[s] = t /\ \A u \in Tabs \ {s} : turn'[u] = turn[u]
  BY DEF CacheInv, CacheTyped
<1>2. turn' \in [Tabs -> TurnsOfTabs]
  BY <1>1
<1>3. ASSUME NEW u \in Tabs, turn'[u].replays
      PROVE  \E f \in finished' : f.code = turn'[u].code /\ f.in = turn'[u].in /\ <<f.asked, turn'[u].asked>> \in Near
  <2>1. CASE u = s
    BY <1>1, <1>3, <2>1
  <2>2. CASE u # s
    BY <1>1, <1>3, <2>2 DEF CacheInv, ReplaysItsOwn
  <2> QED BY <2>1, <2>2
<1> QED BY <1>2, <1>3 DEF ReplaysItsOwn

\* What the process is given under a key, beside rows that agree with it there.
LEMMA HotIsGiven ==
    ASSUME CacheInv, NEW key \in Keys, NEW code \in Solution, hot' = Put(hot, key, code, HotRoom), finished \subseteq finished',
           \E f \in finished' : f.code = code /\ f.in = key[2] /\ <<f.asked, key[1]>> \in Near,
           \A r \in Range(rows') : r.key = key /\ key \notin unsaved' => r.code = code,
           \A r \in Range(rows') : r.key # key => r \in Range(rows),
           \A k \in Keys : k # key /\ k \notin unsaved' => k \notin unsaved
    PROVE  hot' \in Seq(Entry) /\ OneOfEach(hot') /\ Len(hot') <= HotRoom /\ HotIsNear' /\ TiersAgree'
<1>1. hot \in Seq(Entry) /\ OneOfEach(hot) /\ HotRoom \in Nat \ {0} /\ Len(hot) <= HotRoom
  BY CodeCacheAssumption DEF CacheInv, CacheTyped, TiersAreBounded, OneOfEach
<1>2. /\ hot' \in Seq(Entry) /\ OneOfEach(hot') /\ Len(hot') <= HotRoom
      /\ \A e \in Range(hot') : e = [key |-> key, code |-> code] \/ (e.key # key /\ e \in Range(hot))
  BY <1>1, Putting
<1>3. ASSUME NEW e \in Range(hot') PROVE \E f \in finished' : f.code = e.code /\ f.in = e.key[2] /\ <<f.asked, e.key[1]>> \in Near
  <2>1. CASE e = [key |-> key, code |-> code]
    BY <2>1
  <2>2. CASE e \in Range(hot)
    BY <2>2 DEF CacheInv, HotIsNear
  <2> QED BY <1>2, <2>1, <2>2
<1>4. ASSUME NEW e \in Range(hot'), NEW r \in Range(rows'), e.key = r.key, e.key \notin unsaved' PROVE e.code = r.code
  <2>1. CASE e = [key |-> key, code |-> code]
    BY <1>4, <2>1
  <2>2. CASE e.key # key /\ e \in Range(hot)
    <3>0. e \in Entry
      BY <1>1, <2>2, RangeWithin
    <3>1. e.key \in Keys
      BY <3>0 DEF Entry
    <3>2. r \in Range(rows) /\ e.key \notin unsaved
      BY <1>4, <2>2, <3>1
    <3> QED BY <1>4, <2>2, <3>2 DEF CacheInv, TiersAgree
  <2> QED BY <1>2, <2>1, <2>2
<1> QED BY <1>2, <1>3, <1>4 DEF HotIsNear, TiersAgree

LEMMA CacheNextHolds == CacheInv /\ [CacheNext]_cacheVars => CacheInv'
<1> SUFFICES ASSUME CacheInv, [CacheNext]_cacheVars PROVE CacheInv'
  OBVIOUS
<1>0. /\ rows \in Seq(Entry) /\ hot \in Seq(Entry) /\ turn \in [Tabs -> TurnsOfTabs] /\ world \in [Tabs -> Worlds]
      /\ OneOfEach(rows) /\ OneOfEach(hot) /\ Len(hot) <= HotRoom /\ Len(rows) <= RowRoom
      /\ turns \in 0..MaxTurns /\ swaps \in 0..MaxSwaps /\ unsaved \subseteq Keys
      /\ MaxTurns \in Nat /\ MaxSwaps \in Nat /\ HotRoom \in Nat \ {0} /\ RowRoom \in Nat \ {0}
      /\ \A q \in Wordings : <<q, q>> \in Near
  BY CodeCacheAssumption DEF CacheInv, CacheTyped, TiersAreBounded, OneOfEach
<1>a. UNCHANGED rows /\ finished \subseteq finished' => RowsAreFinished'
  BY DEF CacheInv, RowsAreFinished
<1>b. UNCHANGED <<rows, hot, finished, unsaved>> => HotIsNear' /\ TiersAgree' /\ TiersAreBounded'
  BY DEF CacheInv, HotIsNear, TiersAgree, TiersAreBounded
<1>c. OneOfEach(hot') /\ OneOfEach(rows') /\ Len(hot') <= HotRoom /\ Len(rows') <= RowRoom => TiersAreBounded'
  BY DEF OneOfEach, TiersAreBounded
<1>1. ASSUME NEW s \in Tabs, NEW q \in Wordings, BeginTurn(s, q) PROVE CacheInv'
  <2> DEFINE key == Key(q, world[s])
  <2>0. /\ key \in Keys /\ key[1] = q /\ key[2] = world[s] /\ world[s] \in Worlds
        /\ UNCHANGED <<rows, world, swaps, finished, unsaved>>
        /\ turns' = turns + 1 /\ turns < MaxTurns
    BY <1>0, <1>1 DEF BeginTurn, Key, Keys
  <2>1. turns' \in 0..MaxTurns /\ turns + 1 \in 0..MaxTurns
    BY <1>0, <2>0
  <2> HIDE DEF key
  <2>2. ASSUME NEW code \in Solution, Begins(s, q, code),
               code # NoCode => \E f \in finished : f.code = code /\ f.in = world[s] /\ <<f.asked, q>> \in Near
        PROVE  turn' \in [Tabs -> TurnsOfTabs] /\ ReplaysItsOwn'
    <3> DEFINE t == [at |-> IF code = NoCode THEN "writing" ELSE "running", n |-> turns + 1,
                     asked |-> q, code |-> code, replays |-> code # NoCode, in |-> world[s]]
    <3>1. t \in TurnsOfTabs /\ t.code = code /\ t.in = world[s] /\ t.asked = q /\ (t.replays => code # NoCode)
      BY <2>0, <2>1 DEF TurnsOfTabs
    <3>2. turn' = [turn EXCEPT ![s] = t]
      BY <2>2 DEF Begins
    <3> HIDE DEF t
    <3>3. t.replays => \E f \in finished' : f.code = t.code /\ f.in = t.in /\ <<f.asked, t.asked>> \in Near
      BY <2>0, <2>2, <3>1
    <3> QED BY <2>0, <3>1, <3>2, <3>3, TurnGoesOn
  <2>3. CASE Begins(s, q, NoCode) /\ UNCHANGED hot
    <3>1. turn' \in [Tabs -> TurnsOfTabs] /\ ReplaysItsOwn'
      <4>1. NoCode \in Solution
        BY NoTurnTyped DEF NoTurn, TurnsOfTabs
      <4> QED BY <2>2, <2>3, <4>1
    <3> QED BY <1>0, <1>a, <1>b, <2>0, <2>1, <2>3, <3>1 DEF CacheInv, CacheTyped
  <2>4. ASSUME NEW e \in Entry, Begins(s, q, e.code), hot' = Put(hot, key, e.code, HotRoom),
               \E f \in finished : f.code = e.code /\ f.in = world[s] /\ <<f.asked, q>> \in Near,
               \A r \in Range(rows) : r.key = key /\ key \notin unsaved => r.code = e.code
        PROVE  CacheInv'
    <3>1. e.code \in Solution
      BY <2>4 DEF Entry
    <3>2. turn' \in [Tabs -> TurnsOfTabs] /\ ReplaysItsOwn'
      BY <2>2, <2>4, <3>1
    <3>3. hot' \in Seq(Entry) /\ OneOfEach(hot') /\ Len(hot') <= HotRoom /\ HotIsNear' /\ TiersAgree'
      BY <2>0, <2>4, <3>1, HotIsGiven
    <3> QED BY <1>0, <1>a, <1>c, <2>0, <2>1, <3>2, <3>3 DEF CacheInv, CacheTyped
  <2>5. ASSUME NEW e \in With(hot, key), Begins(s, q, e.code), hot' = Put(hot, key, e.code, HotRoom) PROVE CacheInv'
    <3>1. e \in Range(hot) /\ e.key = key
      BY <2>5 DEF With
    <3>2. e \in Entry
      BY <1>0, <3>1 DEF Range
    <3>3. \E f \in finished : f.code = e.code /\ f.in = world[s] /\ <<f.asked, q>> \in Near
      BY <2>0, <3>1 DEF CacheInv, HotIsNear
    <3>4. \A r \in Range(rows) : r.key = key /\ key \notin unsaved => r.code = e.code
      BY <3>1 DEF CacheInv, TiersAgree
    <3> QED BY <2>4, <2>5, <3>2, <3>3, <3>4
  <2>6. ASSUME NEW e \in Best(q, world[s]), Begins(s, q, e.code), hot' = Put(hot, key, e.code, HotRoom) PROVE CacheInv'
    <3>1. /\ e \in Range(rows) /\ e.key[2] = world[s] /\ <<e.key[1], q>> \in Near
          /\ \A r \in Range(rows) : r.key = key => r.code = e.code
      <4>1. CASE With(rows, key) # {}
        <5>1. e \in With(rows, key)
          BY <2>6, <4>1 DEF Best, key
        <5>2. e \in Range(rows) /\ e.key = key
          BY <5>1 DEF With
        <5>3. \A r \in Range(rows) : r.key = key => r = e
          BY <1>0, <5>2 DEF Range, OneOfEach
        <5> QED BY <1>0, <2>0, <5>2, <5>3
      <4>2. CASE With(rows, key) = {}
        <5>1. e \in Range(rows) /\ e.key[2] = world[s] /\ <<e.key[1], q>> \in Near
          BY <2>6, <4>2 DEF Best, key
        <5>2. \A r \in Range(rows) : r.key # key
          BY <4>2 DEF With
        <5> QED BY <5>1, <5>2
      <4> QED BY <4>1, <4>2
    <3>2. e \in Entry
      BY <1>0, <3>1 DEF Range
    <3>3. [code |-> e.code, asked |-> e.key[1], in |-> e.key[2]] \in finished
      BY <3>1 DEF CacheInv, RowsAreFinished
    <3>4. \E f \in finished : f.code = e.code /\ f.in = world[s] /\ <<f.asked, q>> \in Near
      BY <3>1, <3>3
    <3> QED BY <2>4, <2>6, <3>1, <3>2, <3>4
  <2> QED BY <1>1, <2>3, <2>5, <2>6 DEF BeginTurn, key
<1>2. ASSUME NEW s \in Tabs, NEW t \in TurnsOfTabs, turn' = [turn EXCEPT ![s] = t], ~t.replays,
             UNCHANGED <<rows, hot, world, turns, swaps, finished, unsaved>>
      PROVE  CacheInv'
  <2>1. turn' \in [Tabs -> TurnsOfTabs] /\ ReplaysItsOwn'
    BY <1>2, TurnGoesOn
  <2> QED BY <1>0, <1>2, <1>a, <1>b, <2>1 DEF CacheInv, CacheTyped
<1>3. ASSUME NEW s \in Tabs, Write(s) PROVE CacheInv'
  <2> DEFINE t == [turn[s] EXCEPT !.at = "running", !.code = [by |-> turn[s].n, written |-> world[s]], !.replays = FALSE]
  <2>1. turn' = [turn EXCEPT ![s] = t]
    BY <1>0, <1>3 DEF Write
  <2>2. t \in TurnsOfTabs /\ ~t.replays
    BY <1>0 DEF TurnsOfTabs, Solution
  <2> HIDE DEF t
  <2> QED BY <1>2, <1>3, <2>1, <2>2 DEF Write
<1>4. ASSUME NEW s \in Tabs, CodeFails(s) PROVE CacheInv'
  <2> DEFINE t == [turn[s] EXCEPT !.at = "writing", !.replays = FALSE]
  <2>1. turn' = [turn EXCEPT ![s] = t]
    BY <1>0, <1>4 DEF CodeFails
  <2>2. t \in TurnsOfTabs /\ ~t.replays
    BY <1>0 DEF TurnsOfTabs
  <2> HIDE DEF t
  <2> QED BY <1>2, <1>4, <2>1, <2>2 DEF CodeFails
<1>5. ASSUME NEW s \in Tabs, EndWell(s) PROVE CacheInv'
  <2> DEFINE key == Key(turn[s].asked, world[s])
             code == turn[s].code
  <2>0. /\ key \in Keys /\ key[1] = turn[s].asked /\ key[2] = world[s] /\ code \in Solution /\ turn[s].asked \in Wordings
        /\ turn' = [turn EXCEPT ![s] = NoTurn] /\ hot' = Put(hot, key, code, HotRoom)
        /\ finished' = finished \cup {[code |-> code, asked |-> turn[s].asked, in |-> world[s]]}
        /\ UNCHANGED <<world, turns, swaps>>
    BY <1>0, <1>5 DEF EndWell, Key, Keys, TurnsOfTabs
  <2>1. turn' \in [Tabs -> TurnsOfTabs] /\ ReplaysItsOwn'
    BY <2>0, NoTurnTyped, TurnGoesOn
  <2>2. /\ finished \subseteq finished' /\ [code |-> code, asked |-> key[1], in |-> key[2]] \in finished'
        /\ \E f \in finished' : f.code = code /\ f.in = key[2] /\ <<f.asked, key[1]>> \in Near
    <3>1. <<key[1], key[1]>> \in Near
      BY <1>0, <2>0
    <3>2. finished \subseteq finished'
      BY <2>0
    <3>3. [code |-> code, asked |-> key[1], in |-> key[2]] \in finished'
      BY <2>0
    <3> HIDE DEF key, code
    <3>4. \E f \in finished' : f.code = code /\ f.in = key[2] /\ <<f.asked, key[1]>> \in Near
      <4> WITNESS [code |-> code, asked |-> key[1], in |-> key[2]] \in finished'
      <4> QED BY <3>1
    <3> QED BY <3>2, <3>3, <3>4
  <2>3. \/ rows' = Put(rows, key, code, RowRoom) /\ unsaved' = unsaved \ {key}
        \/ unsaved' = unsaved \cup {key} /\ UNCHANGED rows
    BY <1>5 DEF EndWell
  <2> HIDE DEF key, code
  <2>4. CASE rows' = Put(rows, key, code, RowRoom) /\ unsaved' = unsaved \ {key}
    <3>1. /\ rows' \in Seq(Entry) /\ OneOfEach(rows') /\ Len(rows') <= RowRoom
          /\ \A e \in Range(rows') : e = [key |-> key, code |-> code] \/ (e.key # key /\ e \in Range(rows))
      BY <1>0, <2>0, <2>4, Putting
    <3>2. RowsAreFinished'
      <4>1. ASSUME NEW r \in Range(rows') PROVE [code |-> r.code, asked |-> r.key[1], in |-> r.key[2]] \in finished'
        <5>1. CASE r = [key |-> key, code |-> code]
          BY <2>2, <5>1
        <5>2. CASE r \in Range(rows)
          BY <2>2, <5>2 DEF CacheInv, RowsAreFinished
        <5> QED BY <3>1, <5>1, <5>2
      <4> QED BY <4>1 DEF RowsAreFinished
    <3>3. /\ \A r \in Range(rows') : r.key = key => r.code = code
          /\ \A r \in Range(rows') : r.key # key => r \in Range(rows)
      BY <3>1
    <3>4. hot' \in Seq(Entry) /\ OneOfEach(hot') /\ Len(hot') <= HotRoom /\ HotIsNear' /\ TiersAgree'
      BY <2>0, <2>2, <2>4, <3>3, HotIsGiven
    <3> QED BY <1>0, <1>c, <2>0, <2>1, <2>4, <3>1, <3>2, <3>4 DEF CacheInv, CacheTyped
  <2>5. CASE unsaved' = unsaved \cup {key} /\ UNCHANGED rows
    <3>1. hot' \in Seq(Entry) /\ OneOfEach(hot') /\ Len(hot') <= HotRoom /\ HotIsNear' /\ TiersAgree'
      BY <2>0, <2>2, <2>5, HotIsGiven
    <3>2. RowsAreFinished'
      BY <1>a, <2>2, <2>5
    <3> QED BY <1>0, <1>c, <2>0, <2>1, <2>5, <3>1, <3>2 DEF CacheInv, CacheTyped
  <2> QED BY <2>3, <2>4, <2>5
<1>6. ASSUME NEW s \in Tabs, EndWithout(s) PROVE CacheInv'
  BY <1>2, <1>6, NoTurnTyped DEF EndWithout
<1>7. ASSUME NEW s \in Tabs, Change(s) PROVE CacheInv'
  <2>1. UNCHANGED <<rows, hot, turn, turns, finished, unsaved>> /\ swaps' \in 0..MaxSwaps
    BY <1>0, <1>7 DEF Change
  <2>2. world' \in [Tabs -> Worlds]
    BY <1>0, <1>7 DEF Change
  <2>3. ReplaysItsOwn'
    BY <2>1 DEF CacheInv, ReplaysItsOwn
  <2> QED BY <1>0, <1>a, <1>b, <2>1, <2>2, <2>3 DEF CacheInv, CacheTyped
<1>8. ASSUME NEW left, hot' = left, left \in Seq(Entry), OneOfEach(left), Len(left) <= HotRoom, Range(left) \subseteq Range(hot),
             UNCHANGED <<rows, world, turns, swaps, finished, unsaved>>, turn' \in [Tabs -> TurnsOfTabs], ReplaysItsOwn'
      PROVE  CacheInv'
  <2>1. HotIsNear' /\ TiersAgree'
    BY <1>8 DEF CacheInv, HotIsNear, TiersAgree
  <2> QED BY <1>0, <1>8, <1>a, <1>c, <2>1 DEF CacheInv, CacheTyped
<1>9. ASSUME Expire PROVE CacheInv'
  <2>1. PICK key : hot' = Without(hot, key)
    BY <1>9 DEF Expire
  <2>2. UNCHANGED <<rows, turn, world, turns, swaps, finished, unsaved>>
    BY <1>9 DEF Expire
  <2> DEFINE left == Without(hot, key)
  <2>3. /\ left \in Seq(Entry) /\ OneOfEach(left) /\ Len(left) <= Len(hot)
        /\ \A i \in 1..Len(left) : left[i].key # key /\ \E j \in DOMAIN hot : left[i] = hot[j]
    BY <1>0, Taking
  <2> HIDE DEF left
  <2>4. Range(left) \subseteq Range(hot) /\ Len(left) <= HotRoom
    BY SMTT(30), <1>0, <2>3 DEF Range
  <2>5. ReplaysItsOwn' /\ turn' \in [Tabs -> TurnsOfTabs]
    BY <1>0, <2>2 DEF CacheInv, ReplaysItsOwn
  <2> QED BY <1>8, <2>1, <2>2, <2>3, <2>4, <2>5 DEF left
<1>10. ASSUME ProcessRestarts PROVE CacheInv'
  <2>1. hot' = <<>> /\ turn' = [s \in Tabs |-> NoTurn] /\ UNCHANGED <<rows, world, turns, swaps, finished, unsaved>>
    BY <1>10 DEF ProcessRestarts
  <2>2. <<>> \in Seq(Entry) /\ Len(<<>>) = 0 /\ DOMAIN <<>> = {} /\ Range(<<>>) = {}
    BY DEF Range
  <2>3. OneOfEach(<<>>) /\ 0 <= HotRoom
    BY <1>0, <2>2 DEF OneOfEach
  <2>4. turn' \in [Tabs -> TurnsOfTabs] /\ ReplaysItsOwn'
    BY <2>1, NoTurnTyped DEF ReplaysItsOwn
  <2> QED BY <1>8, <2>1, <2>2, <2>3, <2>4
<1>11. ASSUME UNCHANGED cacheVars PROVE CacheInv'
  BY <1>11, <1>a, <1>b DEF cacheVars, CacheInv, CacheTyped, ReplaysItsOwn
<1> QED BY <1>1, <1>3, <1>4, <1>5, <1>6, <1>7, <1>9, <1>10, <1>11 DEF CacheNext

\* Types: of the two tiers and of the turns.
THEOREM CacheIsTyped == CacheSpec => []CacheTypeOK
<1>1. CacheInv => CacheTypeOK
  BY DEF CacheInv, CacheTyped, CacheTypeOK, TurnsOfTabs
<1> QED BY <1>1, CacheInitHolds, CacheNextHolds, PTL DEF CacheSpec

\* For any questions and whatever is near to what: replayed code is that with which a turn ended
\* well for a near question in the same data, mode and policy; the tiers agree and are bounded.
THEOREM WhatIsReplayedFits == CacheSpec => []SolutionsHold
<1>1. CacheInv => SolutionsHold
  BY DEF CacheInv, SolutionsHold
<1> QED BY <1>1, CacheInitHolds, CacheNextHolds, PTL DEF CacheSpec

-----------------------------------------------------------------------------
(* What a session keeps of its tables, for any tables, programs and turns.  *)

Tables == [Sheets -> Contents \cup {Missing}]
TimeColumns == {TimeOf[t] : t \in Sheets}
Understandings == [of : Sheets, sheets : Tables, target : Targets]
SeenThings == [code : DOMAIN Programs, front : Contents \cup {Missing}, others : UNION {[Programs[p] -> Contents \cup {Missing}] : p \in DOMAIN Programs}]
Judgements == [status : {"verified", "mismatch"}, on : SeenThings, moved : BOOLEAN]
Statuses == {Nothing, "verified", "mismatch", "inconclusive"}
Findings == [on : SeenThings, status : Statuses]

ProfileKeys == Tables \X Targets \X TimeColumns
ReviewKeys == (DOMAIN Programs) \X (Contents \cup {Missing}) \X Statuses
VerdictKeys == (DOMAIN Programs) \X (Contents \cup {Missing})

Turns ==
    [at : {"idle", "coding", "ran", "recomputing", "judged"}, ask : Targets, profile : Seq(Understandings),
     code : DOMAIN Programs \cup {Nothing}, best : DOMAIN Programs \cup {Nothing}, key : VerdictKeys \cup {<<>>},
     status : Statuses, moved : BOOLEAN, verdict : Seq(Judgements), review : Seq(Findings)]

Entries(K, V) == [key : K, value : V]

\* Types: of the tables, the caches and the turn.
ReuseTyped ==
    /\ sheet \in Tables /\ front \in Loaded
    /\ profiles \in Seq(Entries(ProfileKeys, Understandings))
    /\ verdicts \in Seq(Entries(VerdictKeys, Judgements))
    /\ reviews \in Seq(Entries(ReviewKeys, Findings))
    /\ now \in Turns
    /\ looks \in 0..MaxLookTurns /\ worked \in 0..MaxWorked /\ replaced \in 0..MaxReplaced

\* A key names what its value was computed from, but for a cleaning in between.
KeysTell ==
    /\ \A i \in DOMAIN profiles :
           LET p == profiles[i].value IN
           profiles[i].key = <<p.sheets, p.target, TimeOf[p.of]>> /\ p.sheets[p.of] # Missing
    /\ \A i \in DOMAIN verdicts :
           LET v == verdicts[i].value IN ~v.moved => verdicts[i].key = <<v.on.code, v.on.front>>
    /\ \A i \in DOMAIN reviews :
           LET r == reviews[i].value IN reviews[i].key = <<r.on.code, r.on.front, r.status>>

\* What a turn holds, by where it is.
TurnTells ==
    /\ now.at = "idle" => now = AtRest
    /\ now.at \in {"ran", "recomputing", "judged"} => now.code \in DOMAIN Programs
    /\ now.at # "judged" => now.verdict = <<>>
    /\ now.at = "recomputing" =>
           now.key \in VerdictKeys /\ (~now.moved => now.key = <<now.code, sheet[front]>>)

\* The understanding names the active table where it is the only one.
ProfileOfLoaded ==
    now.profile # <<>> /\ ~now.moved =>
        /\ now.profile[1].sheets = sheet /\ now.profile[1].target = TargetOf(now.ask)
        /\ now.profile[1].of \in Loaded

ReuseInv ==
    ReuseTyped /\ KeysTell /\ TurnTells /\ ProfileOfLoaded /\ VerdictIsCurrent /\ ReviewIsCurrent /\ CachesAreBounded

\* Whatever is kept, what is in the cache is that or was in it; and it stays well kept.
LEMMA Keeping ==
    ASSUME NEW K, NEW V, NEW cache \in Seq(Entries(K, V)), WellKept(cache), NEW key \in K, NEW value \in V
    PROVE  /\ Keep(cache, key, value) \in Seq(Entries(K, V))
           /\ WellKept(Keep(cache, key, value))
           /\ \A i \in DOMAIN Keep(cache, key, value) :
                  \/ Keep(cache, key, value)[i] = [key |-> key, value |-> value]
                  \/ \E j \in DOMAIN cache : Keep(cache, key, value)[i] = cache[j]
<1> DEFINE fresh == [key |-> key, value |-> value]
<1>1. fresh \in Entries(K, V) /\ fresh.key = key
  BY DEF Entries
<1>2. Len(cache) \in Nat /\ Len(cache) <= CacheRoom /\ CacheRoom \in Nat \ {0} /\ DOMAIN cache = 1..Len(cache)
      /\ \A i, j \in DOMAIN cache : cache[i].key = cache[j].key => i = j
  BY ReuseAssumption DEF WellKept
<1> HIDE DEF fresh
<1>3. CASE Found(cache, key) # {}
  <2> DEFINE kept == [i \in DOMAIN cache |-> IF cache[i].key = key THEN fresh ELSE cache[i]]
  <2>1. Keep(cache, key, value) = kept
    BY <1>3 DEF Keep, fresh
  <2>2. kept \in [1..Len(cache) -> Entries(K, V)] /\ DOMAIN kept = 1..Len(cache)
    BY <1>1, <1>2
  <2>3. kept \in Seq(Entries(K, V)) /\ Len(kept) = Len(cache)
    BY <1>2, <2>2
  <2>4. \A i \in DOMAIN kept : kept[i] = fresh \/ kept[i] = cache[i]
    BY <1>2
  <2>5. \A i \in DOMAIN kept : kept[i].key = cache[i].key
    BY <1>1, <1>2
  <2>6. WellKept(kept)
    BY <1>2, <2>2, <2>3, <2>5 DEF WellKept
  <2> HIDE DEF kept
  <2> QED BY <1>2, <2>1, <2>2, <2>3, <2>4, <2>6 DEF fresh
<1>4. CASE Found(cache, key) = {}
  <2>1. \A i \in DOMAIN cache : cache[i].key # key
    BY <1>4 DEF Found
  <2>2. PICK old : old = IF Len(cache) >= CacheRoom THEN Tail(cache) ELSE cache
    OBVIOUS
  <2>3. /\ old \in Seq(Entries(K, V)) /\ Len(old) \in Nat /\ Len(old) + 1 <= CacheRoom
        /\ \A i \in 1..Len(old) : \E j \in DOMAIN cache : old[i] = cache[j]
        /\ \A i, j \in 1..Len(old) : old[i].key = old[j].key => i = j
    <3>1. CASE Len(cache) >= CacheRoom
      <4>a. PICK l \in Nat : l = Len(cache)
        BY ONLY Zenon, <1>2
      <4>b. PICK r \in Nat \ {0} : r = CacheRoom
        BY ONLY Zenon, <1>2
      <4>0. l > 0 /\ l = r
        <5>1. l <= r /\ l >= r
          BY ONLY <1>2, <3>1, <4>a, <4>b
        <5> QED BY ONLY <5>1, l \in Nat, r \in Nat \ {0}
      <4>1. cache # <<>> /\ Len(cache) > 0 /\ Len(cache) = CacheRoom
        BY ONLY <4>0, <4>a, <4>b, Len(<<>>) = 0
      <4>2. old = Tail(cache) /\ Tail(cache) \in Seq(Entries(K, V)) /\ Len(Tail(cache)) = Len(cache) - 1
        BY <2>2, <3>1, <4>1
      <4>3. \A i \in 1..Len(cache) - 1 : Tail(cache)[i] = cache[i + 1] /\ i + 1 \in DOMAIN cache
        BY <1>2, <4>1
      <4>4. Len(old) = Len(cache) - 1 /\ \A i \in 1..Len(old) : old[i] = cache[i + 1] /\ i + 1 \in DOMAIN cache
        BY <4>2, <4>3
      <4>5. Len(old) \in Nat /\ Len(old) + 1 <= CacheRoom
        BY <1>2, <4>1, <4>4
      <4>6. ASSUME NEW i \in 1..Len(old), NEW j \in 1..Len(old), old[i].key = old[j].key PROVE i = j
        <5>1. \A m, n \in DOMAIN cache : cache[m].key = cache[n].key => m = n
          BY ONLY <1>2
        <5>2. i + 1 \in DOMAIN cache /\ old[i] = cache[i + 1]
          BY <4>4
        <5>3. j + 1 \in DOMAIN cache /\ old[j] = cache[j + 1]
          BY <4>4
        <5>4. PICK m \in DOMAIN cache : m = i + 1 /\ old[i] = cache[m]
          BY ONLY <5>2
        <5>5. PICK n \in DOMAIN cache : n = j + 1 /\ old[j] = cache[n]
          BY ONLY <5>3
        <5>6. cache[m].key = cache[n].key
          BY ONLY <4>6, <5>4, <5>5
        <5>7. m = n
          BY ONLY <5>1, <5>4, <5>5, <5>6, m \in DOMAIN cache, n \in DOMAIN cache
        <5>8. i \in Int /\ j \in Int /\ i + 1 = j + 1
          BY ONLY <5>4, <5>5, <5>7, <4>5, i \in 1..Len(old), j \in 1..Len(old)
        <5> QED BY ONLY <5>8
      <4> QED BY <4>2, <4>4, <4>5, <4>6
    <3>2. CASE ~(Len(cache) >= CacheRoom)
      <4>1. old = cache /\ Len(cache) + 1 <= CacheRoom
        BY <1>2, <2>2, <3>2
      <4> QED BY <1>2, <4>1
    <3> QED BY <3>1, <3>2
  <2>4. Keep(cache, key, value) = Append(old, fresh)
    BY <1>4, <2>2 DEF Keep, fresh
  <2>5. /\ Append(old, fresh) \in Seq(Entries(K, V)) /\ Len(Append(old, fresh)) = Len(old) + 1
        /\ DOMAIN Append(old, fresh) = 1..Len(old) + 1
        /\ Append(old, fresh)[Len(old) + 1] = fresh
        /\ \A i \in 1..Len(old) : Append(old, fresh)[i] = old[i]
    BY <1>1, <2>3
  <2> DEFINE kept == Append(old, fresh)
  <2> HIDE DEF kept
  <2>6. \A i \in 1..Len(old) + 1 : i = Len(old) + 1 \/ i \in 1..Len(old)
    BY <2>3
  <2>7. kept[Len(old) + 1] = fresh /\ \A i \in 1..Len(old) : kept[i] = old[i] /\ kept[i].key # key
    BY <2>1, <2>3, <2>5 DEF kept
  <2>8. ASSUME NEW i \in 1..Len(old) + 1, NEW j \in 1..Len(old) + 1, kept[i].key = kept[j].key PROVE i = j
    BY <1>1, <2>3, <2>6, <2>7, <2>8
  <2>9. WellKept(kept)
    BY <2>3, <2>5, <2>8 DEF WellKept, kept
  <2>10. \A i \in 1..Len(old) + 1 : kept[i] = fresh \/ \E j \in DOMAIN cache : kept[i] = cache[j]
    BY <2>3, <2>6, <2>7
  <2> QED BY <2>4, <2>5, <2>9, <2>10 DEF kept, fresh
<1> QED BY <1>3, <1>4


LEMMA FindingIsKept ==
    ASSUME NEW cache, NEW key, NEW v \in Found(cache, key)
    PROVE  \E i \in DOMAIN cache : cache[i].key = key /\ v = <<cache[i].value>> /\ v[1] = cache[i].value /\ v # <<>>
BY DEF Found

LEMMA RestIsTyped == AtRest \in Turns
<1>1. <<>> \in Seq(Understandings) /\ <<>> \in Seq(Judgements) /\ <<>> \in Seq(Findings)
  OBVIOUS
<1>2. Nothing \in Targets
  BY DEF Targets
<1> QED BY <1>1, <1>2 DEF AtRest, Turns, Statuses

LEMMA ReuseInitHolds == ReuseInit => ReuseInv
<1> SUFFICES ASSUME ReuseInit PROVE ReuseInv
  OBVIOUS
<1>0. now = AtRest /\ profiles = <<>> /\ verdicts = <<>> /\ reviews = <<>>
  BY DEF ReuseInit
<1>1. AtRest \in Turns
  BY RestIsTyped
<1>2. ReuseTyped
  <2>1. 0 \in 0..MaxLookTurns /\ 0 \in 0..MaxWorked /\ 0 \in 0..MaxReplaced
    BY ReuseAssumption
  <2>2. \A S : <<>> \in Seq(S)
    OBVIOUS
  <2> QED BY <1>0, <1>1, <2>1, <2>2 DEF ReuseInit, ReuseTyped, Tables
<1>3. KeysTell
  BY <1>0 DEF KeysTell
<1>4. TurnTells /\ ProfileOfLoaded /\ VerdictIsCurrent /\ ReviewIsCurrent
  BY <1>0 DEF AtRest, TurnTells, ProfileOfLoaded, VerdictIsCurrent, ReviewIsCurrent
<1>5. CachesAreBounded
  <2>1. Len(<<>>) = 0 /\ DOMAIN <<>> = {} /\ 0 <= CacheRoom
    BY ReuseAssumption
  <2> QED BY <1>0, <2>1 DEF CachesAreBounded, WellKept
<1> QED BY <1>2, <1>3, <1>4, <1>5 DEF ReuseInv

LEMMA ReuseNextHolds == ReuseInv /\ [ReuseNext]_reuseVars => ReuseInv'
<1> SUFFICES ASSUME ReuseInv, [ReuseNext]_reuseVars PROVE ReuseInv'
  OBVIOUS
<1> USE DEF ReuseInv
<1>0. /\ sheet \in Tables /\ front \in Sheets /\ sheet[front] \in Contents \cup {Missing} /\ sheet[front] # Missing
      /\ now \in Turns /\ front \in Loaded
  BY DEF ReuseTyped, Loaded, Tables
<1>e. <<>> \in Seq(Understandings) /\ <<>> \in Seq(Judgements) /\ <<>> \in Seq(Findings)
  OBVIOUS
<1>1. ASSUME NEW ask \in Targets, BeginLook(ask) PROVE ReuseInv'
  <2> DEFINE hit == Found(profiles, ProfileKey(ask))
             fresh == Profile(ask)
  <2>1. PICK p \in IF hit # {} THEN hit ELSE {<<fresh>>} :
            now' = [AtRest EXCEPT !.at = "coding", !.ask = ask, !.profile = p]
    BY <1>1 DEF BeginLook
  <2>2. /\ profiles' = IF hit # {} THEN profiles ELSE Keep(profiles, ProfileKey(ask), fresh)
        /\ UNCHANGED <<sheet, front, verdicts, reviews, worked, replaced>>
        /\ looks' = looks + 1 /\ looks < MaxLookTurns
    BY <1>1 DEF BeginLook
  <2>3. /\ fresh \in Understandings /\ ProfileKey(ask) \in ProfileKeys
        /\ ProfileKey(ask) = <<fresh.sheets, fresh.target, TimeOf[fresh.of]>> /\ fresh.sheets[fresh.of] # Missing
        /\ fresh.sheets = sheet /\ fresh.target = TargetOf(ask)
    <3>1. TargetOf(ask) \in Targets
      <4>1. Nothing \in Targets
        BY DEF Targets
      <4> QED BY <4>1 DEF TargetOf
    <3>2. TimeOf[front] \in TimeColumns
      BY <1>0 DEF TimeColumns
    <3> QED BY <1>0, <3>1, <3>2 DEF Profile, ProfileKey, ProfileKeys, Understandings
  <2>4. \A i \in DOMAIN profiles : profiles[i] \in Entries(ProfileKeys, Understandings)
    BY DEF ReuseTyped
  <2>5. /\ p # <<>> /\ p[1] \in Understandings /\ p = <<p[1]>>
        /\ p[1].sheets = sheet /\ p[1].target = TargetOf(ask) /\ sheet[p[1].of] # Missing
    <3>1. CASE hit = {}
      BY SMTT(60), <2>1, <2>3, <3>1
    <3>2. CASE hit # {}
      <4>1. PICK i \in DOMAIN profiles : profiles[i].key = ProfileKey(ask) /\ p = <<profiles[i].value>>
        BY <2>1, <3>2, FindingIsKept
      <4>2. profiles[i].value \in Understandings
        BY <2>4 DEF Entries
      <4>3. ProfileKey(ask) = <<p[1].sheets, p[1].target, TimeOf[p[1].of]>> /\ p[1].sheets[p[1].of] # Missing
        BY <4>1 DEF KeysTell
      <4>4. p[1].sheets = sheet /\ p[1].target = TargetOf(ask)
        BY <4>3 DEF ProfileKey
      <4> QED BY <4>1, <4>2, <4>3, <4>4
    <3> QED BY <3>1, <3>2
  <2>6. /\ now'.at = "coding" /\ now'.ask = ask /\ now'.profile = p /\ now'.verdict = <<>> /\ now'.review = <<>> /\ now'.moved = FALSE
        /\ now' \in Turns
    <3>1. \A u \in Understandings : <<u>> \in Seq(Understandings)
      OBVIOUS
    <3>2. p \in Seq(Understandings)
      BY <2>5, <3>1
    <3>3. now'.at = "coding" /\ now'.ask = ask /\ now'.profile = p /\ now'.verdict = <<>> /\ now'.review = <<>> /\ now'.moved = FALSE
      BY <2>1 DEF AtRest
    <3>4. now' \in Turns
      BY <2>1, <3>2, RestIsTyped DEF Turns
    <3> QED BY <3>3, <3>4
  <2>7. profiles' \in Seq(Entries(ProfileKeys, Understandings)) /\ WellKept(profiles')
        /\ \A i \in DOMAIN profiles' : profiles'[i] = [key |-> ProfileKey(ask), value |-> fresh] \/ \E j \in DOMAIN profiles : profiles'[i] = profiles[j]
    <3>1. profiles \in Seq(Entries(ProfileKeys, Understandings)) /\ WellKept(profiles)
      BY DEF ReuseTyped, CachesAreBounded
    <3> HIDE DEF hit, fresh
    <3>2. CASE hit # {}
      BY <2>2, <3>1, <3>2
    <3>3. CASE hit = {}
      <4>1. profiles' = Keep(profiles, ProfileKey(ask), fresh)
        BY <2>2, <3>3
      <4>2. ProfileKey(ask) \in ProfileKeys /\ fresh \in Understandings
        BY <2>3
      <4> QED BY <3>1, <4>1, <4>2, Keeping
    <3> QED BY <3>2, <3>3
  <2> HIDE DEF hit, fresh
  <2>8. ReuseTyped'
    <3>1. looks' \in 0..MaxLookTurns
      <4>1. looks \in 0..MaxLookTurns /\ MaxLookTurns \in Nat
        BY ReuseAssumption DEF ReuseTyped
      <4> QED BY <2>2, <4>1
    <3> QED BY <2>2, <2>6, <2>7, <3>1 DEF ReuseTyped, Loaded
  <2>9. KeysTell'
    <3>1. ASSUME NEW i \in DOMAIN profiles'
          PROVE  /\ profiles'[i].key = <<profiles'[i].value.sheets, profiles'[i].value.target, TimeOf[profiles'[i].value.of]>>
                 /\ profiles'[i].value.sheets[profiles'[i].value.of] # Missing
      <4>1. CASE profiles'[i] = [key |-> ProfileKey(ask), value |-> fresh]
        BY <2>3, <4>1
      <4>2. CASE \E j \in DOMAIN profiles : profiles'[i] = profiles[j]
        BY <4>2 DEF KeysTell
      <4> QED BY <2>7, <4>1, <4>2
    <3> QED BY <2>2, <3>1 DEF KeysTell
  <2>10. TurnTells' /\ VerdictIsCurrent' /\ ReviewIsCurrent'
    BY <2>6 DEF TurnTells, VerdictIsCurrent, ReviewIsCurrent
  <2>11. ProfileOfLoaded'
    BY <2>2, <2>5, <2>6 DEF ProfileOfLoaded, Loaded, TargetOf, Understandings
  <2>12. CachesAreBounded'
    BY <2>2, <2>7 DEF CachesAreBounded
  <2> QED BY <2>8, <2>9, <2>10, <2>11, <2>12
<1>2. ASSUME UNCHANGED <<sheet, front, keptVars, looks, replaced>>, now' \in Turns, worked' \in 0..MaxWorked, TurnTells',
             now'.profile = now.profile \/ now'.profile = <<>>, now'.moved = now.moved \/ now' = AtRest, now'.ask = now.ask \/ now' = AtRest,
             VerdictIsCurrent', ReviewIsCurrent'
      PROVE  ReuseInv'
  <2>1. ReuseTyped' /\ KeysTell' /\ CachesAreBounded'
    BY <1>2 DEF keptVars, ReuseTyped, KeysTell, CachesAreBounded, Loaded
  <2>2. ProfileOfLoaded'
    BY <1>2 DEF ProfileOfLoaded, Loaded, TargetOf, AtRest
  <2> QED BY <1>2, <2>1, <2>2
<1>3. ASSUME NEW code \in DOMAIN Programs, RunProgram(code) PROVE ReuseInv'
  <2>1. now' = [now EXCEPT !.at = "ran", !.code = code, !.review = <<>>] /\ now.at = "coding" /\ now.verdict = <<>>
    BY <1>3 DEF RunProgram, TurnTells
  <2>2. /\ now' \in Turns /\ now'.at = "ran" /\ now'.code = code /\ now'.review = <<>> /\ now'.verdict = <<>>
        /\ now'.profile = now.profile /\ now'.moved = now.moved /\ now'.ask = now.ask
    BY <1>0, <1>e, <2>1 DEF Turns
  <2>3. worked' \in 0..MaxWorked
    <3>1. worked \in 0..MaxWorked /\ MaxWorked \in Nat /\ worked < MaxWorked /\ worked' = worked + 1
      BY <1>3, ReuseAssumption DEF ReuseTyped, RunProgram
    <3> QED BY <3>1
  <2>4. TurnTells' /\ VerdictIsCurrent' /\ ReviewIsCurrent'
    BY <2>2 DEF TurnTells, VerdictIsCurrent, ReviewIsCurrent
  <2> QED BY <1>2, <1>3, <2>2, <2>3, <2>4 DEF RunProgram
<1>4. ASSUME AskVerdict PROVE ReuseInv'
  <2>0. /\ now.at = "ran" /\ now.code \in DOMAIN Programs /\ UNCHANGED <<sheet, front, keptVars, looks, worked, replaced>>
        /\ VerdictKey(now.code) = <<now.code, sheet[front]>> /\ VerdictKey(now.code) \in VerdictKeys
    BY <1>0, <1>4 DEF AskVerdict, TurnTells, VerdictKey, VerdictKeys
  <2>1. worked' \in 0..MaxWorked
    BY <2>0 DEF ReuseTyped
  <2>2. CASE now' = [now EXCEPT !.at = "recomputing", !.key = VerdictKey(now.code)]
    <3>1. now.verdict = <<>>
      BY <2>0 DEF TurnTells
    <3>2. /\ now' \in Turns /\ now'.at = "recomputing" /\ now'.code = now.code /\ now'.verdict = <<>>
          /\ now'.profile = now.profile /\ now'.moved = now.moved /\ now'.ask = now.ask /\ now'.key = VerdictKey(now.code)
      BY <1>0, <2>0, <2>2, <3>1 DEF Turns
    <3>3. TurnTells' /\ VerdictIsCurrent' /\ ReviewIsCurrent'
      BY <2>0, <3>2 DEF TurnTells, VerdictIsCurrent, ReviewIsCurrent
    <3> QED BY <1>2, <2>0, <2>1, <3>2, <3>3
  <2>3. ASSUME NEW v \in Found(verdicts, VerdictKey(now.code)),
               now' = [now EXCEPT !.at = "judged", !.status = v[1].status, !.verdict = v]
        PROVE  ReuseInv'
    <3>1. PICK i \in DOMAIN verdicts : verdicts[i].key = VerdictKey(now.code) /\ v = <<verdicts[i].value>>
      BY FindingIsKept
    <3>2. verdicts[i] \in Entries(VerdictKeys, Judgements)
      BY DEF ReuseTyped
    <3>3. v[1] \in Judgements /\ v \in Seq(Judgements) /\ v[1].status \in Statuses /\ v[1] = verdicts[i].value
      BY <3>1, <3>2 DEF Entries, Judgements, Statuses
    <3>4. ~v[1].moved => v[1].on.code = now.code /\ v[1].on.front = sheet[front]
      <4>1. ~verdicts[i].value.moved => VerdictKey(now.code) = <<verdicts[i].value.on.code, verdicts[i].value.on.front>>
        BY <3>1 DEF KeysTell
      <4> QED BY <2>0, <3>3, <4>1
    <3>5. /\ now' \in Turns /\ now'.at = "judged" /\ now'.code = now.code /\ now'.verdict = v
          /\ now'.profile = now.profile /\ now'.moved = now.moved /\ now'.ask = now.ask
      BY <1>0, <2>3, <3>3 DEF Turns
    <3>6. TurnTells' /\ VerdictIsCurrent' /\ ReviewIsCurrent'
      BY <2>0, <3>4, <3>5 DEF TurnTells, VerdictIsCurrent, ReviewIsCurrent
    <3> QED BY <1>2, <2>0, <2>1, <3>5, <3>6
  <2> QED BY <1>4, <2>2, <2>3 DEF AskVerdict
<1>5. ASSUME Recompute PROVE ReuseInv'
  <2>0. /\ now.at = "recomputing" /\ now.code \in DOMAIN Programs /\ now.verdict = <<>> /\ now.key \in VerdictKeys
        /\ UNCHANGED <<sheet, front, profiles, reviews, looks, worked, replaced>>
    BY <1>5 DEF Recompute, TurnTells
  <2>1. PICK status \in {"inconclusive"} \cup IF Programs[now.code] \subseteq Loaded THEN {"verified", "mismatch"} ELSE {} :
            /\ now' = [now EXCEPT !.at = "judged", !.status = status,
                                    !.best = IF status = "verified" THEN now.code ELSE @,
                                    !.code = IF status = "mismatch" /\ now.best # Nothing THEN now.best ELSE @]
            /\ verdicts' = IF status = "inconclusive" THEN verdicts
                           ELSE Keep(verdicts, now.key, [status |-> status, on |-> Seen(now.code), moved |-> now.moved])
    BY <1>5 DEF Recompute
  <2>2. /\ now' \in Turns /\ now'.at = "judged" /\ now'.code \in DOMAIN Programs /\ now'.verdict = <<>>
        /\ now'.profile = now.profile /\ now'.moved = now.moved /\ now'.ask = now.ask
    <3>1. now.best \in DOMAIN Programs \cup {Nothing} /\ status \in Statuses
      BY <1>0, <2>1 DEF Turns, Statuses
    <3> QED BY <1>0, <2>0, <2>1, <3>1 DEF Turns
  <2>3. Seen(now.code) \in SeenThings /\ Seen(now.code).code = now.code /\ Seen(now.code).front = sheet[front]
    <3>1. [t \in Programs[now.code] |-> sheet[t]] \in [Programs[now.code] -> Contents \cup {Missing}]
      BY <1>0, <2>0, ReuseAssumption DEF Tables
    <3> QED BY <1>0, <2>0, <3>1 DEF Seen, SeenThings
  <2>4. CASE status = "inconclusive"
    <3>1. verdicts' = verdicts
      BY <2>1, <2>4
    <3>2. ReuseTyped' /\ KeysTell' /\ CachesAreBounded'
      BY <2>0, <2>2, <3>1 DEF ReuseTyped, KeysTell, CachesAreBounded, Loaded
    <3>3. ProfileOfLoaded' /\ TurnTells' /\ VerdictIsCurrent' /\ ReviewIsCurrent'
      BY <2>0, <2>2 DEF ProfileOfLoaded, Loaded, TargetOf, TurnTells, VerdictIsCurrent, ReviewIsCurrent
    <3> QED BY <3>2, <3>3
  <2>5. CASE status # "inconclusive"
    <3> DEFINE fresh == [status |-> status, on |-> Seen(now.code), moved |-> now.moved]
    <3>1. fresh \in Judgements /\ fresh.on.code = now.code /\ fresh.on.front = sheet[front] /\ fresh.moved = now.moved
      <4>1. status \in {"verified", "mismatch"} /\ now.moved \in BOOLEAN
        BY <1>0, <2>1, <2>5 DEF Turns
      <4> QED BY <2>3, <4>1 DEF Judgements
    <3>2. verdicts' = Keep(verdicts, now.key, fresh)
      BY <2>1, <2>5
    <3>3. ~fresh.moved => now.key = <<fresh.on.code, fresh.on.front>>
      BY <2>0, <3>1 DEF TurnTells
    <3> HIDE DEF fresh
    <3>4. /\ verdicts' \in Seq(Entries(VerdictKeys, Judgements)) /\ WellKept(verdicts')
          /\ \A i \in DOMAIN verdicts' : verdicts'[i] = [key |-> now.key, value |-> fresh] \/ \E j \in DOMAIN verdicts : verdicts'[i] = verdicts[j]
      <4>1. verdicts \in Seq(Entries(VerdictKeys, Judgements)) /\ WellKept(verdicts)
        BY DEF ReuseTyped, CachesAreBounded
      <4> QED BY <2>0, <3>1, <3>2, <4>1, Keeping
    <3>5. ReuseTyped' /\ CachesAreBounded'
      BY <2>0, <2>2, <3>4 DEF ReuseTyped, CachesAreBounded, Loaded
    <3>6. KeysTell'
      <4>1. ASSUME NEW i \in DOMAIN verdicts', ~verdicts'[i].value.moved
            PROVE  verdicts'[i].key = <<verdicts'[i].value.on.code, verdicts'[i].value.on.front>>
        <5>1. CASE verdicts'[i] = [key |-> now.key, value |-> fresh]
          BY <3>3, <4>1, <5>1
        <5>2. CASE \E j \in DOMAIN verdicts : verdicts'[i] = verdicts[j]
          BY <4>1, <5>2 DEF KeysTell
        <5> QED BY <3>4, <5>1, <5>2
      <4> QED BY <2>0, <4>1 DEF KeysTell
    <3>7. ProfileOfLoaded' /\ TurnTells' /\ VerdictIsCurrent' /\ ReviewIsCurrent'
      BY <2>0, <2>2 DEF ProfileOfLoaded, Loaded, TargetOf, TurnTells, VerdictIsCurrent, ReviewIsCurrent
    <3> QED BY <3>5, <3>6, <3>7
  <2> QED BY <2>4, <2>5
<1>6. ASSUME Validate PROVE ReuseInv'
  <2> DEFINE key == ReviewKey(now.code, now.status)
             hit == Found(reviews, key)
             fresh == [on |-> Seen(now.code), status |-> now.status]
  <2>0. /\ now.at = "judged" /\ now.code \in DOMAIN Programs
        /\ UNCHANGED <<sheet, front, profiles, verdicts, looks, worked, replaced>>
        /\ reviews' = IF hit # {} THEN reviews ELSE Keep(reviews, key, fresh)
    BY <1>6 DEF Validate, TurnTells
  <2>1. fresh \in Findings /\ key \in ReviewKeys
        /\ key = <<fresh.on.code, fresh.on.front, fresh.status>> /\ key = <<now.code, sheet[front], now.status>>
    <3>1. [t \in Programs[now.code] |-> sheet[t]] \in [Programs[now.code] -> Contents \cup {Missing}]
      BY <1>0, <2>0, ReuseAssumption DEF Tables
    <3>2. Seen(now.code) \in SeenThings /\ Seen(now.code).code = now.code /\ Seen(now.code).front = sheet[front]
      BY <1>0, <2>0, <3>1 DEF Seen, SeenThings
    <3>3. now.status \in Statuses
      BY <1>0 DEF Turns
    <3> QED BY <1>0, <2>0, <3>2, <3>3 DEF Findings, ReviewKey, ReviewKeys
  <2>2. ASSUME NEW v \in hit PROVE v \in Seq(Findings) /\ v[1].on.code = now.code /\ v[1].on.front = sheet[front]
    <3>1. PICK i \in DOMAIN reviews : reviews[i].key = key /\ v = <<reviews[i].value>>
      BY FindingIsKept
    <3>2. reviews[i] \in Entries(ReviewKeys, Findings)
      BY DEF ReuseTyped
    <3>3. reviews[i].value \in Findings /\ v[1] = reviews[i].value /\ v \in Seq(Findings)
      BY <3>1, <3>2 DEF Entries
    <3>4. key = <<v[1].on.code, v[1].on.front, v[1].status>>
      BY <3>1, <3>3 DEF KeysTell
    <3> QED BY <2>1, <3>3, <3>4
  <2>3. /\ reviews' \in Seq(Entries(ReviewKeys, Findings)) /\ WellKept(reviews')
        /\ \A i \in DOMAIN reviews' : reviews'[i] = [key |-> key, value |-> fresh] \/ \E j \in DOMAIN reviews : reviews'[i] = reviews[j]
    <3>1. reviews \in Seq(Entries(ReviewKeys, Findings)) /\ WellKept(reviews)
      BY DEF ReuseTyped, CachesAreBounded
    <3> HIDE DEF key, hit, fresh
    <3>2. CASE hit # {}
      BY <2>0, <3>1, <3>2
    <3>3. CASE hit = {}
      <4>1. reviews' = Keep(reviews, key, fresh)
        BY <2>0, <3>3
      <4>2. key \in ReviewKeys /\ fresh \in Findings
        BY <2>1
      <4> QED BY <3>1, <4>1, <4>2, Keeping
    <3> QED BY <3>2, <3>3
  <2>4. /\ now' \in Turns /\ now'.at \in {"coding", "idle"} /\ now'.verdict = <<>>
        /\ now'.profile = now.profile \/ now'.profile = <<>>
        /\ now'.moved = now.moved \/ now' = AtRest
        /\ now'.ask = now.ask \/ now' = AtRest
        /\ now'.at = "idle" => now' = AtRest
        /\ ReviewIsCurrent'
    <3>1. CASE now' = AtRest
      BY <3>1, RestIsTyped DEF AtRest, ReviewIsCurrent
    <3>2. ASSUME NEW v \in IF hit # {} THEN hit ELSE {<<>>},
                 now' = [now EXCEPT !.at = "coding", !.key = <<>>, !.verdict = <<>>, !.status = Nothing, !.review = v]
          PROVE  /\ now' \in Turns /\ now'.at = "coding" /\ now'.verdict = <<>> /\ now'.profile = now.profile
                 /\ now'.moved = now.moved /\ now'.ask = now.ask /\ ReviewIsCurrent'
      <4>1. v \in Seq(Findings) /\ (v # <<>> => v[1].on.code = now.code /\ v[1].on.front = sheet[front])
        <5>1. CASE v \in hit
          BY <2>2, <5>1
        <5>2. CASE v = <<>>
          BY <5>2
        <5> QED BY <3>2, <5>1, <5>2
      <4>2. /\ now'.at = "coding" /\ now'.verdict = <<>> /\ now'.profile = now.profile /\ now'.review = v
            /\ now'.moved = now.moved /\ now'.ask = now.ask /\ now'.code = now.code
        BY <1>0, <3>2 DEF Turns
      <4>3. now' \in Turns
        BY <1>0, <1>e, <3>2, <4>1 DEF Turns, Statuses
      <4> QED BY <2>0, <4>1, <4>2, <4>3 DEF ReviewIsCurrent
    <3> QED BY <1>6, <3>1, <3>2 DEF Validate
  <2>5. ReuseTyped' /\ CachesAreBounded'
    BY <2>0, <2>3, <2>4 DEF ReuseTyped, CachesAreBounded, Loaded
  <2>6. KeysTell'
    <3>1. ASSUME NEW i \in DOMAIN reviews'
          PROVE  reviews'[i].key = <<reviews'[i].value.on.code, reviews'[i].value.on.front, reviews'[i].value.status>>
      <4>1. CASE reviews'[i] = [key |-> key, value |-> fresh]
        <5> HIDE DEF key, fresh
        <5> QED BY <2>1, <4>1
      <4>2. CASE \E j \in DOMAIN reviews : reviews'[i] = reviews[j]
        BY <4>2 DEF KeysTell
      <4> QED BY <2>3, <4>1, <4>2
    <3> QED BY <2>0, <3>1 DEF KeysTell
  <2>7. TurnTells' /\ VerdictIsCurrent'
    BY <2>4 DEF TurnTells, VerdictIsCurrent
  <2>8. ProfileOfLoaded'
    BY <2>0, <2>4 DEF ProfileOfLoaded, Loaded, TargetOf, AtRest
  <2> QED BY <2>4, <2>5, <2>6, <2>7, <2>8
<1>7. ASSUME LeaveTurn PROVE ReuseInv'
  <2>1. now' = AtRest /\ AtRest \in Turns /\ worked' \in 0..MaxWorked
    BY <1>7, RestIsTyped DEF LeaveTurn, ReuseTyped
  <2>2. TurnTells' /\ VerdictIsCurrent' /\ ReviewIsCurrent' /\ now'.profile = <<>>
    BY <2>1 DEF AtRest, TurnTells, VerdictIsCurrent, ReviewIsCurrent
  <2> QED BY <1>2, <1>7, <2>1, <2>2 DEF LeaveTurn
<1>8. ASSUME Altered PROVE replaced' \in 0..MaxReplaced /\ UNCHANGED <<keptVars, looks, worked>>
  <2>1. replaced \in 0..MaxReplaced /\ MaxReplaced \in Nat /\ replaced < MaxReplaced /\ replaced' = replaced + 1
    BY <1>8, ReuseAssumption DEF Altered, ReuseTyped
  <2> QED BY <1>8, <2>1 DEF Altered
<1>9. ASSUME NEW t \in Sheets, LoadSheet(t) PROVE ReuseInv'
  <2>0. replaced' \in 0..MaxReplaced /\ UNCHANGED <<keptVars, looks, worked>>
    BY <1>8, <1>9 DEF LoadSheet
  <2>1. PICK c \in Contents : sheet' = [sheet EXCEPT ![t] = c]
    BY <1>9 DEF LoadSheet
  <2>2. front' = t /\ now' = [now EXCEPT !.moved = @ \/ now.at # "idle"]
    BY <1>9 DEF LoadSheet
  <2>3. /\ now' \in Turns /\ now'.at = now.at /\ now'.code = now.code /\ now'.profile = now.profile /\ now'.key = now.key
        /\ now'.verdict = now.verdict /\ now'.review = now.review /\ now'.moved <=> (now.moved \/ now.at # "idle")
    BY <1>0, <2>2 DEF Turns
  <2>4. now.at = "idle" => now' = now
    <3>1. ASSUME now.at = "idle" PROVE now' = now
      <4>1. now = AtRest /\ now.moved = FALSE
        BY <3>1 DEF TurnTells, AtRest
      <4>2. now' = [now EXCEPT !.moved = FALSE]
        BY <2>2, <3>1, <4>1
      <4> QED BY <1>0, <4>1, <4>2 DEF Turns
    <3> QED BY <3>1
  <2>5. sheet' \in Tables /\ front' \in Sheets /\ sheet'[front'] # Missing
    BY <1>0, <2>1, <2>2, ReuseAssumption DEF Tables, Missing
  <2>6. ReuseTyped'
    BY <2>0, <2>3, <2>5 DEF keptVars, ReuseTyped, Loaded
  <2>7. KeysTell' /\ CachesAreBounded'
    BY <2>0 DEF keptVars, KeysTell, CachesAreBounded
  <2>8. TurnTells' /\ ProfileOfLoaded' /\ VerdictIsCurrent' /\ ReviewIsCurrent'
    <3>1. CASE now.at = "idle"
      <4>1. now' = AtRest
        BY <2>4, <3>1 DEF TurnTells
      <4> QED BY <4>1 DEF AtRest, TurnTells, ProfileOfLoaded, VerdictIsCurrent, ReviewIsCurrent
    <3>2. CASE now.at # "idle"
      <4>1. now'.moved
        BY <2>3, <3>2
      <4> QED BY <2>3, <3>2, <4>1 DEF TurnTells, ProfileOfLoaded, VerdictIsCurrent, ReviewIsCurrent
    <3> QED BY <3>1, <3>2
  <2> QED BY <2>6, <2>7, <2>8
<1>10. ASSUME NEW t \in Sheets, ActivateSheet(t) \/ RemoveSheet(t) PROVE ReuseInv'
  <2>0. replaced' \in 0..MaxReplaced /\ UNCHANGED <<keptVars, looks, worked>> /\ UNCHANGED now /\ now.at = "idle"
    BY <1>8, <1>10 DEF ActivateSheet, RemoveSheet
  <2>1. sheet' \in Tables /\ front' \in Loaded'
    BY <1>0, <1>10 DEF ActivateSheet, RemoveSheet, Loaded, Tables
  <2>2. ReuseTyped' /\ KeysTell' /\ CachesAreBounded'
    BY <2>0, <2>1 DEF keptVars, ReuseTyped, KeysTell, CachesAreBounded
  <2>3. now' = AtRest
    BY <2>0 DEF TurnTells
  <2>4. TurnTells' /\ ProfileOfLoaded' /\ VerdictIsCurrent' /\ ReviewIsCurrent'
    BY <2>3 DEF AtRest, TurnTells, ProfileOfLoaded, VerdictIsCurrent, ReviewIsCurrent
  <2> QED BY <2>2, <2>4
<1>11. ASSUME UNCHANGED reuseVars PROVE ReuseInv'
  BY <1>11 DEF reuseVars, ReuseTyped, KeysTell, TurnTells, ProfileOfLoaded, VerdictIsCurrent, ReviewIsCurrent, CachesAreBounded, Loaded, TargetOf
<1> QED BY <1>1, <1>3, <1>4, <1>5, <1>6, <1>7, <1>9, <1>10, <1>11 DEF ReuseNext

\* Types: of the tables, the turn and what is kept.
THEOREM ReuseIsTyped == ReuseSpec => []ReuseTypeOK
<1>1. ReuseInv => ReuseTypeOK
  BY DEF ReuseInv, ReuseTyped, ReuseTypeOK, Turns, Tables, Statuses
<1> QED BY <1>1, ReuseInitHolds, ReuseNextHolds, PTL DEF ReuseSpec

\* For any tables, programs and rooms: the understanding, the verdict and the findings that a turn
\* takes over are those of its tables, its code and its target, and no cache outgrows its room or
\* holds two values of one key.
THEOREM WhatIsReusedFits == ReuseSpec => []ReuseHolds
<1>1. ReuseInv => ReuseHolds
  BY DEF ReuseInv, ReuseHolds, ProfileOfLoaded, ProfileIsCurrent
<1> QED BY <1>1, ReuseInitHolds, ReuseNextHolds, PTL DEF ReuseSpec

-----------------------------------------------------------------------------
(* The cards of a tab, for any number of messages, drops and other turns.   *)

\* A frame of a turn.
OfATurn == {"status", "consent"} \cup Terminals
Says(i) == down[i].kind \in OfATurn
Carries(i) == up[i].kind \in {"message", "stopword", "approval"}

Message == [kind : {"message", "stopword", "approval"}, text : Texts] \cup [kind : {"cancel", "answer"}, text : {NoText}]
ViewFrame == [kind : {"status", "consent", "busy", "idle"} \cup Terminals, text : 0..MaxTexts]

ViewTyped == ViewTypeOK /\ up \in Seq(Message) /\ down \in Seq(ViewFrame)

\* The scalars of the tab, the server and the history.
ScalarsTyped ==
    /\ typed \in 0..MaxTexts
    /\ card \in [Texts -> {"none", "running", "done", "failed", "cancelled", "plan"}]
    /\ gates \subseteq Texts /\ drafts \subseteq Texts /\ refused \subseteq Texts
    /\ activeCard \in 0..MaxTexts /\ pending \in 0..MaxTexts /\ serverTurn \in 0..MaxTexts
    /\ phase \in {"idle", "busy", "awaiting_approval"}
    /\ stage \in {"begun", "talking", "asking", "asked"}
    /\ running \in BOOLEAN /\ other \in BOOLEAN /\ crossed \in BOOLEAN /\ stopped \in BOOLEAN
    /\ landed \subseteq Texts \X Texts
    /\ drops \in 0..MaxDrops
WiresTyped == up \in Seq(Message) /\ down \in Seq(ViewFrame)

\* The tab runs while a card is active.
RunsWithACard ==
    /\ running <=> activeCard # NoText
    /\ ~crossed => \A t \in Texts : card[t] = "running" => t = activeCard

\* An end, a turn, or a text that makes one of the two, is on the way.
EndIsAhead(n) ==
    \/ \E i \in DOMAIN down : i > n /\ down[i].kind \in Terminals
    \/ serverTurn # NoText
    \/ \E i \in DOMAIN up : Carries(i)

CardsEnd ==
    ~crossed =>
        /\ activeCard # NoText => EndIsAhead(0)
        /\ \A i \in DOMAIN down :
              (down[i].kind = "status" \/ (down[i].kind = "idle" /\ pending # NoText)) => EndIsAhead(i)
        /\ \A i \in DOMAIN up : (up[i].kind = "cancel" /\ pending # NoText) => \E j \in DOMAIN up : i < j /\ Carries(j)

\* What a turn has sent that the tab has not seen.
Ended(t) == \E i \in DOMAIN down : down[i].kind \in Terminals /\ down[i].text = t
Spoke(t) == \E i \in DOMAIN down : down[i].kind = "status" /\ down[i].text = t
Silent(t) == \A i \in DOMAIN down : Says(i) => down[i].text # t
Unsent(t) == \A i \in DOMAIN up : Carries(i) => up[i].text # t

NumbersGrow ==
    /\ activeCard <= typed /\ pending <= typed
    /\ activeCard # NoText => pending # activeCard

\* Frames on their way down.
FramesInOrder ==
    /\ \A i \in DOMAIN down : down[i].kind # "idle"
    /\ \A i \in DOMAIN down : Says(i) => down[i].text # NoText /\ down[i].text \in {activeCard, pending}
    /\ \A i, j \in DOMAIN down : Says(i) /\ Says(j) /\ down[i].text = activeCard /\ down[j].text = pending => i < j
    /\ \A i, j \in DOMAIN down : Says(i) /\ Says(j) /\ i # j /\ down[i].text = down[j].text =>
          /\ down[i].kind = "status" => i < j
          /\ down[i].kind \in Terminals => j < i

\* ... of the text the tab has not seen a turn of.
PendingInOrder ==
    pending # NoText =>
        /\ ~Silent(pending) \/ serverTurn = pending => activeCard = NoText \/ Ended(activeCard)
        /\ ~Silent(pending) => Spoke(pending)
        /\ serverTurn = pending => stage = "begun" \/ Spoke(pending)

TurnInOrder ==
    /\ serverTurn # NoText => serverTurn \in {activeCard, pending} /\ ~Ended(serverTurn)
    /\ serverTurn # NoText /\ stage = "begun" => Silent(serverTurn)
    /\ \A t \in Texts : Spoke(t) => serverTurn = t \/ Ended(t)
    /\ activeCard # NoText => serverTurn = activeCard \/ Ended(activeCard) \/ ~Unsent(activeCard)

\* Texts on their way up.
TextsInOrder ==
    /\ \A i \in DOMAIN up : up[i].kind # "cancel"
    /\ \A i \in DOMAIN up : Carries(i) =>
          /\ up[i].text # NoText /\ up[i].text \in {activeCard, pending} /\ Silent(up[i].text) /\ serverTurn # up[i].text
          /\ up[i].kind = "stopword" => up[i].text = pending
    /\ \A i, j \in DOMAIN up : Carries(i) /\ Carries(j) /\ up[i].text = up[j].text => i = j
    /\ \A i, j \in DOMAIN up : Carries(i) /\ Carries(j) /\ up[i].text = activeCard /\ up[j].text = pending => i < j

\* The pending text has been answered, and nothing else comes of it.
Resolved == pending # NoText /\ Silent(pending) /\ Unsent(pending) /\ serverTurn # pending

AnswersInOrder ==
    /\ \A i \in DOMAIN down : down[i].kind = "busy" => Resolved
    /\ \A i, j \in DOMAIN down : down[i].kind = "busy" /\ down[j].kind \in {"busy", "cancelled"} => i = j
    /\ \A i \in DOMAIN down : down[i].kind = "cancelled" => Resolved /\ down[i].text = activeCard

Tied == FramesInOrder /\ PendingInOrder /\ TurnInOrder /\ TextsInOrder /\ AnswersInOrder /\ NumbersGrow

ViewInv ==
    /\ ViewTyped /\ RunsWithACard /\ CardsEnd /\ ShowsItsOwn
    /\ ~crossed /\ ~stopped => Tied

LEMMA PutLast ==
    ASSUME NEW S, NEW q \in Seq(S), NEW m \in S
    PROVE  LET r == Append(q, m) IN
           /\ r \in Seq(S) /\ r # <<>>
           /\ \A i \in DOMAIN q : i \in DOMAIN r /\ r[i] = q[i] /\ i < Len(q) + 1
           /\ Len(q) + 1 \in DOMAIN r /\ r[Len(q) + 1] = m
           /\ \A i \in DOMAIN r : i \in DOMAIN q \/ i = Len(q) + 1
<1> DEFINE r == Append(q, m)
<1>1. r \in Seq(S) /\ Len(r) = Len(q) + 1 /\ DOMAIN r = 1..Len(r) /\ DOMAIN q = 1..Len(q) /\ Len(q) \in Nat
  OBVIOUS
<1>2. \A i \in 1..Len(q) : r[i] = q[i]
  OBVIOUS
<1>3. r[Len(q) + 1] = m
  OBVIOUS
<1> HIDE DEF r
<1>4. r # <<>>
  BY <1>1
<1> QED BY <1>1, <1>2, <1>3, <1>4 DEF r

LEMMA Took ==
    ASSUME NEW S, NEW q \in Seq(S), q # <<>>
    PROVE  LET r == Tail(q) IN
           /\ r \in Seq(S) /\ Head(q) = q[1] /\ 1 \in DOMAIN q /\ q[1] \in S
           /\ \A i \in DOMAIN r : i \in Nat /\ i + 1 \in DOMAIN q /\ r[i] = q[i + 1] /\ i + 1 # 1
           /\ \A i \in DOMAIN q : i # 1 => i \in Nat /\ i - 1 \in DOMAIN r /\ r[i - 1] = q[i]
<1> DEFINE r == Tail(q)
<1>1. r \in Seq(S) /\ Len(r) = Len(q) - 1 /\ DOMAIN r = 1..Len(r) /\ DOMAIN q = 1..Len(q) /\ Len(q) \in Nat
  OBVIOUS
<1>2. \A i \in 1..Len(r) : r[i] = q[i + 1]
  BY <1>1
<1>3. Head(q) = q[1] /\ Len(q) # 0
  OBVIOUS
<1> HIDE DEF r
<1>4. 1 \in DOMAIN q /\ q[1] \in S
  BY <1>1, <1>3
<1>5. \A i \in DOMAIN r : i \in Nat /\ i + 1 \in DOMAIN q /\ r[i] = q[i + 1] /\ i + 1 # 1
  BY <1>1, <1>2
<1>6. \A i \in DOMAIN q : i # 1 => i \in Nat /\ i - 1 \in DOMAIN r /\ r[i - 1] = q[i]
  <2> SUFFICES ASSUME NEW i \in DOMAIN q, i # 1 PROVE i \in Nat /\ i - 1 \in DOMAIN r /\ r[i - 1] = q[i]
    OBVIOUS
  <2>1. i \in Nat /\ i - 1 \in 1..Len(r) /\ (i - 1) + 1 = i
    BY <1>1
  <2> QED BY <1>1, <1>2, <2>1
<1> QED BY <1>1, <1>3, <1>4, <1>5, <1>6 DEF r

\* One more at the end of a wire, and one less at its head.
Longer(q, r, n, m) ==
    /\ n \in Nat \ {0} /\ n \in DOMAIN r /\ r[n] = m
    /\ \A i \in DOMAIN q : i \in Nat /\ i \in DOMAIN r /\ r[i] = q[i] /\ i < n
    /\ \A i \in DOMAIN r : i \in DOMAIN q \/ i = n
Shorter(q, r) ==
    /\ 1 \in DOMAIN q /\ Head(q) = q[1]
    /\ \A i \in DOMAIN r : i \in Nat /\ i + 1 \in DOMAIN q /\ r[i] = q[i + 1] /\ i + 1 # 1
    /\ \A i \in DOMAIN q : i # 1 => i \in Nat /\ i - 1 \in DOMAIN r /\ r[i - 1] = q[i]

LEMMA WiresMove ==
    ASSUME WiresTyped
    PROVE  /\ \A k, t : Send(k, t) /\ [kind |-> k, text |-> t] \in Message =>
                 \E n : Longer(up, up', n, [kind |-> k, text |-> t])
           /\ \A k, t : Reply(k, t) /\ [kind |-> k, text |-> t] \in ViewFrame =>
                 \E n : Longer(down, down', n, [kind |-> k, text |-> t])
           /\ \A k : Frame(k) => Shorter(down, down') /\ down[1].kind = k /\ down[1] \in ViewFrame
           /\ \A k : Reads(k) => Shorter(up, up') /\ up[1].kind = k /\ up[1] \in Message
<1>1. ASSUME NEW S, NEW q \in Seq(S), NEW m \in S PROVE Longer(q, Append(q, m), Len(q) + 1, m)
  <2>1. Len(q) \in Nat /\ DOMAIN q = 1..Len(q)
    OBVIOUS
  <2> QED BY <2>1, PutLast DEF Longer
<1>2. ASSUME NEW S, NEW q \in Seq(S), q # <<>> PROVE Shorter(q, Tail(q))
  BY <1>2, Took DEF Shorter
<1>3. up \in Seq(Message) /\ down \in Seq(ViewFrame)
  BY DEF WiresTyped
<1>4. ASSUME NEW k, NEW t, Send(k, t), [kind |-> k, text |-> t] \in Message
      PROVE  \E n : Longer(up, up', n, [kind |-> k, text |-> t])
  BY <1>1, <1>3, <1>4 DEF Send
<1>5. ASSUME NEW k, NEW t, Reply(k, t), [kind |-> k, text |-> t] \in ViewFrame
      PROVE  \E n : Longer(down, down', n, [kind |-> k, text |-> t])
  BY <1>1, <1>3, <1>5 DEF Reply
<1>6. ASSUME NEW k, Frame(k) PROVE Shorter(down, down') /\ down[1].kind = k /\ down[1] \in ViewFrame
  BY <1>2, <1>3, <1>6, Took DEF Frame
<1>7. ASSUME NEW k, Reads(k) PROVE Shorter(up, up') /\ up[1].kind = k /\ up[1] \in Message
  BY <1>2, <1>3, <1>7, Took DEF Reads
<1> QED BY <1>4, <1>5, <1>6, <1>7

LEMMA ViewInitTyped == ViewInit => ViewTyped
<1> SUFFICES ASSUME ViewInit PROVE ViewTyped
  OBVIOUS
<1>1. Len(up) = 0 /\ Len(down) = 0 /\ up \in Seq(Message) /\ down \in Seq(ViewFrame)
  BY DEF ViewInit
<1>2. {running, other, crossed, stopped} \subseteq BOOLEAN
  BY DEF ViewInit
<1>3. 0 \in 0..MaxTexts /\ 0 \in 0..MaxDrops
  BY TurnViewAssumption
<1>4. {activeCard, pending, serverTurn} \subseteq 0..MaxTexts /\ typed \in 0..MaxTexts /\ drops \in 0..MaxDrops
  BY <1>3 DEF ViewInit, NoText
<1>5. card \in [Texts -> {"none", "running", "done", "failed", "cancelled", "plan"}]
  BY DEF ViewInit
<1>6. /\ \A i \in 1..Len(up) : up[i].kind \in {"message", "stopword", "cancel", "answer", "approval"}
      /\ \A i \in 1..Len(down) : down[i].kind \in {"status", "consent", "busy", "idle"} \cup Terminals
  BY <1>1
<1> QED BY <1>1, <1>2, <1>4, <1>5, <1>6 DEF ViewInit, ViewTyped, ViewTypeOK

\* What is put on the wire and taken from it keeps its type.
LEMMA WireTyped ==
    /\ up \in Seq(Message) => \A i \in 1..Len(up) : up[i].kind \in {"message", "stopword", "cancel", "answer", "approval"}
    /\ down \in Seq(ViewFrame) => \A i \in 1..Len(down) : down[i].kind \in {"status", "consent", "busy", "idle"} \cup Terminals
<1>1. ASSUME up \in Seq(Message), NEW i \in 1..Len(up) PROVE up[i] \in Message
  BY <1>1
<1>2. ASSUME down \in Seq(ViewFrame), NEW i \in 1..Len(down) PROVE down[i] \in ViewFrame
  BY <1>2
<1> QED BY <1>1, <1>2 DEF Message, ViewFrame

LEMMA InParts == ViewTyped <=> ScalarsTyped /\ WiresTyped
BY WireTyped DEF ViewTyped, ViewTypeOK, ScalarsTyped, WiresTyped

LEMMA WiresStayTyped == ViewTyped /\ [ViewNext]_viewVars => WiresTyped'
<1> SUFFICES ASSUME ViewTyped, ViewNext \/ UNCHANGED viewVars PROVE WiresTyped'
  OBVIOUS
<1>0. ScalarsTyped /\ up \in Seq(Message) /\ down \in Seq(ViewFrame)
  BY InParts DEF WiresTyped
<1>1. ASSUME NEW kind, NEW text, Send(kind, text), [kind |-> kind, text |-> text] \in Message
      PROVE  up' \in Seq(Message)
  BY <1>0, <1>1, PutLast DEF Send
<1>2. ASSUME NEW kind \in {"status", "consent", "busy", "idle"} \cup Terminals, NEW text \in 0..MaxTexts, Reply(kind, text)
      PROVE  down' \in Seq(ViewFrame)
  <2>1. [kind |-> kind, text |-> text] \in ViewFrame
    BY DEF ViewFrame
  <2> QED BY <1>0, <1>2, <2>1, PutLast DEF Reply
<1>3. ASSUME NEW kind, Frame(kind) PROVE down' \in Seq(ViewFrame)
  BY <1>0, <1>3, Took DEF Frame
<1>4. ASSUME NEW kind, Reads(kind) PROVE up' \in Seq(Message)
  BY <1>0, <1>4, Took DEF Reads
<1>5. 0 \in 0..MaxTexts /\ NoText = 0 /\ (typed < MaxTexts => typed + 1 \in Texts)
  BY <1>0, TurnViewAssumption DEF NoText, ScalarsTyped, Texts
<1>m. /\ \A kind \in {"message", "stopword", "approval"}, text \in Texts : [kind |-> kind, text |-> text] \in Message
      /\ \A kind \in {"cancel", "answer"} : [kind |-> kind, text |-> NoText] \in Message
  BY DEF Message
<1>6. CASE SendMessage \/ Interrupt \/ Stop \/ AnswerConsent \/ \E t \in Texts : ApprovePlan(t)
  <2>1. CASE SendMessage
    BY <1>0, <1>1, <1>5, <1>m, <2>1 DEF SendMessage, WiresTyped
  <2>2. CASE Interrupt
    BY <1>0, <1>1, <1>5, <1>m, <2>2 DEF Interrupt, WiresTyped
  <2>3. CASE Stop
    BY <1>0, <1>1, <1>5, <1>m, <2>3 DEF Stop, WiresTyped
  <2>4. CASE AnswerConsent
    BY <1>0, <1>1, <1>5, <1>m, <2>4 DEF AnswerConsent, WiresTyped
  <2>5. ASSUME NEW t \in Texts, ApprovePlan(t) PROVE WiresTyped'
    BY <1>0, <1>1, <1>5, <1>m, <2>5 DEF ApprovePlan, WiresTyped
  <2> QED BY <1>6, <2>1, <2>2, <2>3, <2>4, <2>5
<1>7. CASE SeeBusy \/ SeeStatus \/ SeeConsent \/ \E k \in Terminals : SeeTerminal(k)
  BY <1>0, <1>3, <1>7 DEF SeeBusy, SeeStatus, SeeConsent, SeeTerminal, serverVars, WiresTyped
<1>8. ASSUME NEW k, ReadMessage(k) PROVE WiresTyped'
  <2>1. down' = down \/ Reply("busy", NoText) \/ Reply("cancelled", serverTurn)
    BY <1>8 DEF ReadMessage, Refuse, EndByCancel
  <2>2. down' \in Seq(ViewFrame)
    BY <1>0, <1>2, <1>5, <2>1 DEF ScalarsTyped, Terminals
  <2> QED BY <1>4, <1>8, <2>2 DEF ReadMessage, WiresTyped
<1>9. CASE ReadCancel \/ ReadAnswer
  <2>1. down' = down \/ Reply("idle", NoText) \/ Reply("cancelled", serverTurn)
    BY <1>9 DEF ReadCancel, ReadAnswer, EndByCancel
  <2>2. down' \in Seq(ViewFrame)
    BY <1>0, <1>2, <1>5, <2>1 DEF ScalarsTyped, Terminals
  <2> QED BY <1>4, <1>9, <2>2 DEF ReadCancel, ReadAnswer, WiresTyped
<1>10. CASE TurnSpeaks \/ TurnAsks \/ \E k \in Terminals \ {"cancelled"} : TurnEnds(k)
  <2>1. up' = up /\ \E k \in {"status", "consent"} \cup Terminals : Reply(k, serverTurn)
    BY <1>10 DEF TurnSpeaks, TurnAsks, TurnEnds
  <2> QED BY <1>0, <1>2, <2>1 DEF ScalarsTyped, WiresTyped
<1>11. CASE Drop
  BY <1>11 DEF Drop, WiresTyped
<1>12. CASE UNCHANGED <<up, down>>
  BY <1>0, <1>12 DEF WiresTyped
<1>13. ASSUME NEW t \in Texts, RejectPlan(t) PROVE UNCHANGED <<up, down>>
  BY <1>13 DEF RejectPlan
<1>14. AskTimesOut \/ OtherTurn \/ UNCHANGED viewVars => UNCHANGED <<up, down>>
  BY DEF AskTimesOut, OtherTurn, viewVars
<1> QED BY <1>6, <1>7, <1>8, <1>9, <1>10, <1>11, <1>12, <1>13, <1>14 DEF ViewNext

LEMMA ScalarsStayTyped == ViewTyped /\ [ViewNext]_viewVars => ScalarsTyped'
<1> SUFFICES ASSUME ViewTyped, ViewNext \/ UNCHANGED viewVars PROVE ScalarsTyped'
  OBVIOUS
<1>0. ScalarsTyped /\ up \in Seq(Message) /\ down \in Seq(ViewFrame)
  BY InParts DEF WiresTyped
<1>h. ASSUME NEW k \in {"message", "stopword", "approval"}, Reads(k) PROVE Head(up).text \in Texts
  BY <1>0, <1>h, Took DEF Message, Reads
<1>l. ASSUME NEW c, Lands(c) PROVE landed' \subseteq Texts \X Texts
  BY <1>0, <1>l DEF Lands, ScalarsTyped
<1>n. /\ NoText = 0 /\ 0 \in 0..MaxTexts /\ Texts \subseteq 0..MaxTexts
      /\ typed < MaxTexts => typed + 1 \in 0..MaxTexts /\ typed + 1 \in Texts
      /\ \A n \in 0..MaxTexts : n # NoText => n \in Texts
  BY <1>0, TurnViewAssumption DEF NoText, ScalarsTyped, Texts
<1>1. CASE SendMessage
  BY <1>0, <1>1, <1>n DEF SendMessage, ScalarsTyped, serverVars
<1>2. CASE Interrupt
  BY <1>0, <1>2, <1>n DEF Interrupt, ScalarsTyped, serverVars
<1>3. CASE Stop
  BY <1>0, <1>3, <1>n DEF Stop, ScalarsTyped, serverVars
<1>4. CASE AnswerConsent
  BY <1>0, <1>4, <1>n DEF AnswerConsent, ScalarsTyped, serverVars, historyVars
<1>5. ASSUME NEW t \in Texts, ApprovePlan(t) PROVE ScalarsTyped'
  BY <1>0, <1>5, <1>n DEF ApprovePlan, ScalarsTyped, serverVars
<1>6. ASSUME NEW t \in Texts, RejectPlan(t) PROVE ScalarsTyped'
  BY <1>0, <1>6, <1>n DEF RejectPlan, ScalarsTyped, serverVars, historyVars
<1>7. CASE SeeBusy
  BY <1>0, <1>7, <1>n DEF SeeBusy, ScalarsTyped, serverVars, historyVars
<1>8. CASE SeeStatus
  <2>1. landed' \subseteq Texts \X Texts
    BY <1>0, <1>8, <1>l DEF SeeStatus, ScalarsTyped
  <2>2. card' \in [Texts -> {"none", "running", "done", "failed", "cancelled", "plan"}]
    BY <1>0, <1>8, <1>n DEF SeeStatus, ScalarsTyped
  <2> QED BY <1>0, <1>8, <1>n, <2>1, <2>2 DEF SeeStatus, ScalarsTyped, serverVars
<1>9. CASE SeeConsent
  <2>1. landed' \subseteq Texts \X Texts
    BY <1>0, <1>9, <1>l DEF SeeConsent, ScalarsTyped
  <2> QED BY <1>0, <1>9, <1>n, <2>1 DEF SeeConsent, ScalarsTyped, serverVars
<1>10. ASSUME NEW k \in Terminals, SeeTerminal(k) PROVE ScalarsTyped'
  <2>1. landed' \subseteq Texts \X Texts
    BY <1>0, <1>10, <1>l DEF SeeTerminal, ScalarsTyped
  <2>2. Shown[k] \in {"done", "failed", "cancelled", "plan"}
    BY DEF Shown, Terminals
  <2>3. card' \in [Texts -> {"none", "running", "done", "failed", "cancelled", "plan"}]
    BY <1>0, <1>10, <2>2 DEF SeeTerminal, ScalarsTyped
  <2>4. gates' \subseteq Texts
    BY <1>0, <1>10, <1>n DEF SeeTerminal, ScalarsTyped
  <2>5. running' \in BOOLEAN
    BY <1>0, <1>10 DEF SeeTerminal, ScalarsTyped
  <2> QED BY <1>0, <1>10, <1>n, <2>1, <2>3, <2>4, <2>5 DEF SeeTerminal, ScalarsTyped, serverVars
<1>11. ASSUME NEW k \in {"message", "stopword", "approval"}, ReadMessage(k) PROVE ScalarsTyped'
  <2>0. Head(up).text \in Texts
    BY <1>11, <1>h DEF ReadMessage
  <2> QED BY <1>0, <1>11, <1>n, <2>0 DEF ReadMessage, Refuse, EndByCancel, ScalarsTyped, clientVars
<1>12. CASE ReadCancel \/ ReadAnswer
  BY <1>0, <1>12, <1>n DEF ReadCancel, ReadAnswer, EndByCancel, ScalarsTyped, clientVars, historyVars
<1>13. CASE TurnSpeaks \/ TurnAsks \/ AskTimesOut \/ OtherTurn \/ \E k \in Terminals \ {"cancelled"} : TurnEnds(k)
  BY <1>0, <1>13, <1>n DEF TurnSpeaks, TurnAsks, AskTimesOut, OtherTurn, TurnEnds, ScalarsTyped, clientVars, historyVars
<1>14. CASE Drop
  <2>1. drops' \in 0..MaxDrops
    BY <1>0, <1>14, TurnViewAssumption DEF Drop, ScalarsTyped
  <2> QED BY <1>0, <1>14, <1>n, <2>1 DEF Drop, ScalarsTyped
<1>15. CASE UNCHANGED viewVars
  BY <1>0, <1>15 DEF ScalarsTyped, viewVars, clientVars, serverVars, historyVars
<1> QED BY <1>1, <1>2, <1>3, <1>4, <1>5, <1>6, <1>7, <1>8, <1>9, <1>10, <1>11, <1>12, <1>13, <1>14, <1>15 DEF ViewNext

\* While no turn crosses another, the tab runs for its active card only.
LEMMA RunsStays == ViewTyped /\ RunsWithACard /\ [ViewNext]_viewVars => RunsWithACard'
<1> SUFFICES ASSUME ViewTyped, RunsWithACard, ViewNext \/ UNCHANGED viewVars PROVE RunsWithACard'
  OBVIOUS
<1>0. /\ typed \in 0..MaxTexts /\ card \in [Texts -> {"none", "running", "done", "failed", "cancelled", "plan"}]
      /\ activeCard \in 0..MaxTexts /\ running \in BOOLEAN
      /\ (running <=> activeCard # NoText) /\ (~crossed => \A t \in Texts : card[t] = "running" => t = activeCard)
  BY InParts DEF ScalarsTyped, RunsWithACard
<1>n. typed < MaxTexts => typed + 1 \in Texts /\ typed + 1 # NoText
  BY <1>0, TurnViewAssumption DEF Texts, NoText
<1>s. ASSUME NEW n \in Texts, activeCard' = n, running' = TRUE, card' = [card EXCEPT ![n] = "running"], ~crossed' => ~crossed /\ activeCard = NoText
      PROVE  RunsWithACard'
  <2>1. n # NoText
    BY DEF Texts, NoText
  <2>2. running' <=> activeCard' # NoText
    BY <1>s, <2>1
  <2>3. ~crossed' => \A t \in Texts : card'[t] = "running" => t = activeCard'
    BY <1>0, <1>s, <2>1 DEF Texts, NoText
  <2> QED BY <2>2, <2>3 DEF RunsWithACard
<1>r. ~running => activeCard = NoText
  BY <1>0
<1>1. CASE SendMessage
  <2>1. typed + 1 \in Texts /\ activeCard' = typed + 1 /\ running' = TRUE /\ card' = [card EXCEPT ![typed + 1] = "running"]
    BY <1>1, <1>n DEF SendMessage
  <2>2. ~crossed' => ~crossed /\ activeCard = NoText
    BY <1>1, <1>r DEF SendMessage
  <2> QED BY <1>s, <2>1, <2>2
<1>2. CASE Interrupt
  BY <1>0, <1>2 DEF Interrupt, RunsWithACard
<1>3. CASE Stop
  BY <1>0, <1>3 DEF Stop, RunsWithACard
<1>4. CASE AnswerConsent \/ SeeBusy
  BY <1>0, <1>4 DEF AnswerConsent, SeeBusy, RunsWithACard, historyVars
<1>5. ASSUME NEW t \in Texts, ApprovePlan(t) PROVE RunsWithACard'
  <2>1. typed + 1 \in Texts /\ activeCard' = typed + 1 /\ running' = TRUE /\ card' = [card EXCEPT ![typed + 1] = "running"]
    BY <1>5, <1>n DEF ApprovePlan
  <2>2. ~crossed' => ~crossed /\ activeCard = NoText
    BY <1>5, <1>r DEF ApprovePlan
  <2> QED BY <1>s, <2>1, <2>2
<1>6. ASSUME NEW t \in Texts, RejectPlan(t) PROVE RunsWithACard'
  BY <1>0, <1>6 DEF RejectPlan, RunsWithACard, historyVars
<1>7. CASE SeeStatus
  <2>1. CASE UNCHANGED <<card, activeCard, running, crossed>>
    BY <1>0, <2>1 DEF RunsWithACard
  <2>2. CASE activeCard = NoText /\ pending # NoText /\ activeCard' = pending /\ running' = TRUE
             /\ card' = [card EXCEPT ![pending] = "running"] /\ crossed' = crossed
    <3>1. pending \in Texts
      BY <2>2, InParts DEF ScalarsTyped, Texts, NoText
    <3> QED BY <1>s, <2>2, <3>1
  <2> QED BY <1>7, <2>1, <2>2 DEF SeeStatus
<1>8. CASE SeeConsent
  BY <1>0, <1>8 DEF SeeConsent, RunsWithACard
<1>9. ASSUME NEW k \in Terminals, SeeTerminal(k) PROVE RunsWithACard'
  <2>1. Shown[k] # "running"
    BY DEF Shown, Terminals
  <2>2. CASE activeCard # NoText
    BY <1>0, <1>9, <2>1, <2>2 DEF SeeTerminal, RunsWithACard
  <2>3. CASE activeCard = NoText
    BY <1>0, <1>9, <2>3 DEF SeeTerminal, RunsWithACard
  <2> QED BY <2>2, <2>3
<1>10. ASSUME NEW k, ReadMessage(k) PROVE RunsWithACard'
  <2>1. UNCHANGED <<running, activeCard, card>> /\ (crossed => crossed')
    BY <1>10 DEF ReadMessage, clientVars
  <2> QED BY <1>0, <2>1 DEF RunsWithACard
<1>11. CASE Drop
  BY <1>0, <1>11 DEF Drop, RunsWithACard
<1>12. CASE UNCHANGED <<clientVars, historyVars>>
  BY <1>0, <1>12 DEF clientVars, historyVars, RunsWithACard
<1>13. ASSUME NEW k, TurnEnds(k) PROVE UNCHANGED <<clientVars, historyVars>>
  BY <1>13 DEF TurnEnds
<1>14. ReadCancel \/ ReadAnswer \/ TurnSpeaks \/ TurnAsks \/ AskTimesOut \/ OtherTurn \/ UNCHANGED viewVars
         => UNCHANGED <<clientVars, historyVars>>
  BY DEF ReadCancel, ReadAnswer, TurnSpeaks, TurnAsks, AskTimesOut, OtherTurn, viewVars
<1> QED BY <1>1, <1>2, <1>3, <1>4, <1>5, <1>6, <1>7, <1>8, <1>9, <1>10, <1>11, <1>12, <1>13, <1>14 DEF ViewNext

\* The history only grows.
LEMMA HistoryGrows == ViewTyped /\ ViewNext => (~crossed' => ~crossed) /\ (~stopped' => ~stopped)
<1> SUFFICES ASSUME crossed \in BOOLEAN, stopped \in BOOLEAN, ViewNext PROVE (~crossed' => ~crossed) /\ (~stopped' => ~stopped)
  BY InParts DEF ScalarsTyped
<1>1. ASSUME NEW t \in Texts, ApprovePlan(t) \/ RejectPlan(t) PROVE (~crossed' => ~crossed) /\ (~stopped' => ~stopped)
  BY <1>1 DEF ApprovePlan, RejectPlan, historyVars
<1>2. ASSUME NEW k, SeeTerminal(k) \/ ReadMessage(k) \/ TurnEnds(k) PROVE (~crossed' => ~crossed) /\ (~stopped' => ~stopped)
  BY <1>2 DEF SeeTerminal, ReadMessage, TurnEnds, historyVars
<1>3. SendMessage \/ Interrupt \/ Stop \/ AnswerConsent => (~crossed' => ~crossed) /\ (~stopped' => ~stopped)
  BY DEF SendMessage, Interrupt, Stop, AnswerConsent, historyVars
<1>4. SeeBusy \/ SeeStatus \/ SeeConsent \/ ReadCancel \/ ReadAnswer => (~crossed' => ~crossed) /\ (~stopped' => ~stopped)
  BY DEF SeeBusy, SeeStatus, SeeConsent, ReadCancel, ReadAnswer, historyVars
<1>5. TurnSpeaks \/ TurnAsks \/ AskTimesOut \/ OtherTurn \/ Drop => (~crossed' => ~crossed) /\ (~stopped' => ~stopped)
  BY DEF TurnSpeaks, TurnAsks, AskTimesOut, OtherTurn, Drop, historyVars
<1> QED BY <1>1, <1>2, <1>3, <1>4, <1>5 DEF ViewNext

\* What a step makes of an end that is ahead: only the frame that is seen is no longer ahead.
LEMMA AheadStays ==
    ASSUME ViewTyped, NEW n, n = 0 \/ n \in DOMAIN down, EndIsAhead(n)
    PROVE  /\ \A k, t : Send(k, t) /\ [kind |-> k, text |-> t] \in Message /\ UNCHANGED <<down, serverTurn>> => EndIsAhead(n)'
           /\ \A k : Frame(k) /\ UNCHANGED <<up, serverTurn>> /\ n # 0 => EndIsAhead(n - 1)'
           /\ \A k : Frame(k) /\ UNCHANGED <<up, serverTurn>> /\ n = 0 /\ k \notin Terminals => EndIsAhead(0)'
           /\ \A k \in {"message", "stopword", "approval"} : ReadMessage(k) /\ ~crossed' => EndIsAhead(n)'
           /\ ReadCancel \/ ReadAnswer => EndIsAhead(n)'
           /\ TurnSpeaks \/ TurnAsks \/ (\E k \in Terminals : TurnEnds(k)) => EndIsAhead(n)'
           /\ UNCHANGED <<up, down, serverTurn>> => EndIsAhead(n)'
<1>0. WiresTyped /\ n \in Nat
  BY InParts DEF WiresTyped
<1>1. ASSUME NEW k, NEW t, Send(k, t), [kind |-> k, text |-> t] \in Message, UNCHANGED <<down, serverTurn>> PROVE EndIsAhead(n)'
  <2>1. PICK m : Longer(up, up', m, [kind |-> k, text |-> t])
    BY <1>0, <1>1, WiresMove
  <2> QED BY <1>1, <2>1 DEF EndIsAhead, Longer, Carries
<1>2. ASSUME NEW k, Frame(k), UNCHANGED <<up, serverTurn>>, n # 0 PROVE EndIsAhead(n - 1)'
  <2>1. Shorter(down, down')
    BY <1>0, <1>2, WiresMove
  <2>2. ASSUME NEW i \in DOMAIN down, i > n, down[i].kind \in Terminals
        PROVE  \E j \in DOMAIN down' : j > n - 1 /\ down'[j].kind \in Terminals
    <3>1. i \in Nat /\ i # 1
      BY <1>0, <1>2, <2>2 DEF WiresTyped
    <3>2. i - 1 \in DOMAIN down' /\ down'[i - 1] = down[i] /\ i - 1 > n - 1
      BY <1>0, <2>1, <2>2, <3>1 DEF Shorter
    <3> QED BY <2>2, <3>2
  <2> QED BY <1>2, <2>2 DEF EndIsAhead, Carries
<1>3. ASSUME NEW k, Frame(k), UNCHANGED <<up, serverTurn>>, n = 0, k \notin Terminals PROVE EndIsAhead(0)'
  <2>1. Shorter(down, down') /\ down[1].kind = k
    BY <1>0, <1>3, WiresMove
  <2>2. ASSUME NEW i \in DOMAIN down, down[i].kind \in Terminals
        PROVE  \E j \in DOMAIN down' : j > 0 /\ down'[j].kind \in Terminals
    <3>1. i \in Nat /\ i > 1
      BY <1>0, <1>3, <2>1, <2>2 DEF WiresTyped
    <3>2. i - 1 \in DOMAIN down' /\ down'[i - 1] = down[i] /\ i - 1 > 0
      BY <2>1, <2>2, <3>1 DEF Shorter
    <3> QED BY <2>2, <3>2
  <2> QED BY <1>3, <2>2 DEF EndIsAhead, Carries
<1>4. ASSUME EndByCancel \/ \E k \in Terminals : Reply(k, serverTurn) PROVE EndIsAhead(n)'
  <2>1. PICK k \in Terminals : Reply(k, serverTurn)
    BY <1>4 DEF EndByCancel, Terminals
  <2>2. [kind |-> k, text |-> serverTurn] \in ViewFrame
    BY InParts DEF ViewFrame, ScalarsTyped
  <2>3. PICK m : Longer(down, down', m, [kind |-> k, text |-> serverTurn])
    BY <1>0, <2>1, <2>2, WiresMove
  <2>4. m \in DOMAIN down' /\ down'[m].kind \in Terminals /\ m > n
    BY <1>0, <2>1, <2>3 DEF Longer
  <2> QED BY <2>4 DEF EndIsAhead
<1>5. ASSUME serverTurn' # NoText PROVE EndIsAhead(n)'
  BY <1>5 DEF EndIsAhead
<1>6. ASSUME NEW k \in {"message", "stopword", "approval"}, ReadMessage(k), ~crossed' PROVE EndIsAhead(n)'
  <2>1. Head(up).text \in Texts
    <3>1. Reads(k)
      BY <1>6 DEF ReadMessage
    <3>2. Shorter(up, up') /\ up[1].kind = k /\ up[1] \in Message
      BY <1>0, <3>1, WiresMove
    <3> QED BY <3>2 DEF Shorter, Message
  <2>2. Head(up).text # NoText
    BY <2>1 DEF Texts, NoText
  <2>3. EndByCancel \/ serverTurn' # NoText
    BY <1>6, <2>2 DEF ReadMessage
  <2> QED BY <1>4, <1>5, <2>3
<1>7. ASSUME ReadCancel \/ ReadAnswer, UNCHANGED serverTurn PROVE EndIsAhead(n)'
  <2>1. PICK k \in {"cancel", "answer"} : Reads(k)
    BY <1>7 DEF ReadCancel, ReadAnswer
  <2>2. Shorter(up, up') /\ up[1].kind = k
    BY <1>0, <2>1, WiresMove
  <2>3. ASSUME NEW i \in DOMAIN up, Carries(i) PROVE \E j \in DOMAIN up' : Carries(j)'
    <3>1. i # 1
      BY <2>2, <2>3 DEF Carries
    <3>2. i - 1 \in DOMAIN up' /\ up'[i - 1] = up[i]
      BY <2>2, <3>1 DEF Shorter
    <3> QED BY <2>3, <3>2 DEF Carries
  <2>4. ASSUME NEW i \in DOMAIN down, i > n, down[i].kind \in Terminals, serverTurn = NoText PROVE i \in DOMAIN down' /\ down'[i] = down[i]
    <3>1. down' = down \/ Reply("idle", NoText)
      BY <1>7, <2>4 DEF ReadCancel, ReadAnswer
    <3>2. [kind |-> "idle", text |-> NoText] \in ViewFrame
      BY TurnViewAssumption DEF ViewFrame, NoText
    <3> QED BY <1>0, <3>1, <3>2, WiresMove DEF Longer
  <2> QED BY <1>7, <2>3, <2>4 DEF EndIsAhead
<1>8. ASSUME ReadCancel \/ ReadAnswer PROVE EndIsAhead(n)'
  <2>1. EndByCancel \/ UNCHANGED serverTurn
    BY <1>8 DEF ReadCancel, ReadAnswer
  <2> QED BY <1>4, <1>7, <1>8, <2>1
<1>9. ASSUME TurnSpeaks \/ TurnAsks \/ \E k \in Terminals : TurnEnds(k) PROVE EndIsAhead(n)'
  <2>1. serverTurn' # NoText \/ \E k \in Terminals : Reply(k, serverTurn)
    BY <1>9 DEF TurnSpeaks, TurnAsks, TurnEnds
  <2> QED BY <1>4, <1>5, <2>1
<1>10. ASSUME UNCHANGED <<up, down, serverTurn>> PROVE EndIsAhead(n)'
  BY <1>10 DEF EndIsAhead, Carries
<1> QED BY <1>1, <1>2, <1>3, <1>6, <1>8, <1>9, <1>10
\* Something that ends what runs stays ahead.
LEMMA EndsStay == ViewTyped /\ CardsEnd /\ [ViewNext]_viewVars => CardsEnd'
<1> SUFFICES ASSUME ViewTyped, CardsEnd, ViewNext \/ UNCHANGED viewVars, ~crossed' PROVE CardsEnd'
  BY DEF CardsEnd
<1>0. /\ WiresTyped /\ ~crossed
      /\ activeCard # NoText => EndIsAhead(0)
      /\ \A i \in DOMAIN down :
            (down[i].kind = "status" \/ (down[i].kind = "idle" /\ pending # NoText)) => EndIsAhead(i)
      /\ \A i \in DOMAIN up : (up[i].kind = "cancel" /\ pending # NoText) => \E j \in DOMAIN up : i < j /\ Carries(j)
  BY InParts, HistoryGrows DEF CardsEnd, viewVars, historyVars
<1>n. typed < MaxTexts => typed + 1 \in Texts
  BY InParts, TurnViewAssumption DEF ScalarsTyped, Texts
<1>1. ASSUME NEW k \in {"message", "stopword", "approval"}, NEW t \in Texts, Send(k, t) PROVE CardsEnd'
  <2>1. [kind |-> k, text |-> t] \in Message
    BY DEF Message
  <2>2. PICK n : Longer(up, up', n, [kind |-> k, text |-> t])
    BY <1>0, <1>1, <2>1, WiresMove
  <2>3. n \in DOMAIN up' /\ Carries(n)'
    BY <2>2 DEF Longer, Carries
  <2>4. \A m : EndIsAhead(m)'
    BY <2>3 DEF EndIsAhead
  <2>5. \A i \in DOMAIN up' : up'[i].kind = "cancel" => i < n
    BY <2>2 DEF Longer
  <2> QED BY <2>3, <2>4, <2>5 DEF CardsEnd
<1>2. CASE SendMessage
  BY <1>1, <1>n, <1>2 DEF SendMessage
<1>3. CASE Interrupt
  BY <1>1, <1>n, <1>3 DEF Interrupt
<1>4. ASSUME NEW t \in Texts, ApprovePlan(t) PROVE CardsEnd'
  BY <1>1, <1>n, <1>4 DEF ApprovePlan
<1>5. CASE Stop \/ AnswerConsent
  <2>1. PICK k \in {"cancel", "answer"} : Send(k, NoText) /\ UNCHANGED <<down, serverTurn>>
    BY <1>5 DEF Stop, AnswerConsent, serverVars
  <2>2. [kind |-> k, text |-> NoText] \in Message
    BY DEF Message
  <2>3. \A n \in DOMAIN down \cup {0} : EndIsAhead(n) => EndIsAhead(n)'
    BY <2>1, <2>2, AheadStays
  <2>4. (activeCard' = NoText /\ pending' = NoText) \/ (UNCHANGED <<activeCard, pending>> /\ k = "answer")
    <3>1. CASE Stop
      BY <3>1 DEF Stop
    <3>2. CASE AnswerConsent
      <4>1. UNCHANGED <<activeCard, pending>> /\ Send("answer", NoText)
        BY <3>2 DEF AnswerConsent
      <4>2. [kind |-> "answer", text |-> NoText] \in Message
        BY DEF Message
      <4>3. k = "answer"
        <5>1. PICK n : Longer(up, up', n, [kind |-> "answer", text |-> NoText])
          BY <1>0, <4>1, <4>2, WiresMove
        <5>2. PICK m : Longer(up, up', m, [kind |-> k, text |-> NoText])
          BY <1>0, <2>1, <2>2, WiresMove
        <5>3. n \notin DOMAIN up
          BY <5>1 DEF Longer
        <5>4. n = m
          BY <5>1, <5>2, <5>3 DEF Longer
        <5> QED BY <5>1, <5>2, <5>4 DEF Longer
      <4> QED BY <4>1, <4>3
    <3> QED BY <1>5, <3>1, <3>2
  <2>5. PICK n : Longer(up, up', n, [kind |-> k, text |-> NoText])
    BY <1>0, <2>1, <2>2, WiresMove
  <2>6. \A i \in DOMAIN up' : (up'[i].kind = "cancel" /\ pending' # NoText) => \E j \in DOMAIN up' : i < j /\ Carries(j)'
    <3> SUFFICES ASSUME NEW i \in DOMAIN up', up'[i].kind = "cancel", pending' # NoText PROVE \E j \in DOMAIN up' : i < j /\ Carries(j)'
      OBVIOUS
    <3>1. i \in DOMAIN up /\ up[i].kind = "cancel" /\ pending # NoText
      BY <2>4, <2>5 DEF Longer
    <3>2. PICK j \in DOMAIN up : i < j /\ Carries(j)
      BY <1>0, <3>1
    <3>3. j \in DOMAIN up' /\ up'[j] = up[j]
      BY <2>5 DEF Longer
    <3> QED BY <3>2, <3>3 DEF Carries
  <2>7. \A i \in DOMAIN down' :
            (down'[i].kind = "status" \/ (down'[i].kind = "idle" /\ pending' # NoText)) => EndIsAhead(i)'
    BY <1>0, <2>1, <2>3, <2>4
  <2>8. activeCard' # NoText => EndIsAhead(0)'
    BY <1>0, <2>3, <2>4
  <2> QED BY <2>6, <2>7, <2>8 DEF CardsEnd
<1>6. ASSUME NEW k, Frame(k), UNCHANGED <<up, serverTurn>>, pending' \in {pending, NoText},
             activeCard' # NoText => EndIsAhead(0)'
      PROVE  CardsEnd'
  <2>1. Shorter(down, down')
    BY <1>0, <1>6, WiresMove
  <2>2. ASSUME NEW i \in DOMAIN down', down'[i].kind = "status" \/ (down'[i].kind = "idle" /\ pending' # NoText)
        PROVE  EndIsAhead(i)'
    <3>1. i \in Nat /\ i + 1 \in DOMAIN down /\ down'[i] = down[i + 1] /\ i + 1 # 0 /\ (i + 1) - 1 = i
      BY <2>1 DEF Shorter
    <3>2. EndIsAhead(i + 1)
      BY <1>0, <1>6, <2>2, <3>1
    <3>3. EndIsAhead((i + 1) - 1)'
      BY <1>6, <3>1, <3>2, AheadStays
    <3> QED BY <3>1, <3>3
  <2>3. \A i \in DOMAIN up' : (up'[i].kind = "cancel" /\ pending' # NoText) => \E j \in DOMAIN up' : i < j /\ Carries(j)'
    BY <1>0, <1>6 DEF Carries
  <2> QED BY <1>6, <2>2, <2>3 DEF CardsEnd
<1>7. CASE SeeBusy \/ SeeConsent
  <2>1. PICK k \in {"busy", "consent"} : Frame(k)
    BY <1>7 DEF SeeBusy, SeeConsent
  <2>2. k \notin Terminals /\ UNCHANGED <<up, serverTurn, activeCard>> /\ pending' \in {pending, NoText}
    BY <1>7 DEF SeeBusy, SeeConsent, serverVars, Terminals
  <2>3. activeCard' # NoText => EndIsAhead(0)'
    BY <1>0, <2>1, <2>2, AheadStays
  <2> QED BY <1>6, <2>1, <2>2, <2>3
<1>8. CASE SeeStatus
  <2>1. PICK k \in {"status", "idle"} : Frame(k)
    BY <1>8 DEF SeeStatus
  <2>2. k \notin Terminals /\ UNCHANGED <<up, serverTurn>>
    BY <1>8 DEF SeeStatus, serverVars, Terminals
  <2>3. CASE UNCHANGED <<activeCard, pending>>
    <3>1. activeCard' # NoText => EndIsAhead(0)'
      BY <1>0, <2>1, <2>2, <2>3, AheadStays
    <3> QED BY <1>6, <2>1, <2>2, <2>3, <3>1
  <2>4. CASE pending # NoText /\ pending' = NoText
    <3>1. 1 \in DOMAIN down /\ down[1].kind = k
      BY <1>0, <2>1, WiresMove DEF Shorter
    <3>2. EndIsAhead(1)
      BY <1>0, <2>4, <3>1
    <3>3. EndIsAhead(1 - 1)'
      BY <2>1, <2>2, <3>1, <3>2, AheadStays
    <3>4. EndIsAhead(0)'
      BY <3>3
    <3> QED BY <1>6, <2>1, <2>2, <2>4, <3>4
  <2> QED BY <1>8, <2>3, <2>4 DEF SeeStatus
<1>9. ASSUME NEW k \in Terminals, SeeTerminal(k) PROVE CardsEnd'
  <2>1. Frame(k) /\ UNCHANGED <<up, serverTurn>> /\ pending' \in {pending, NoText} /\ activeCard' = NoText
    BY <1>9 DEF SeeTerminal, serverVars
  <2> QED BY <1>6, <2>1
<1>10. ASSUME NEW k, Reads(k), UNCHANGED clientVars,
              \A n \in DOMAIN down \cup {0} : EndIsAhead(n) => EndIsAhead(n)',
              \A i \in DOMAIN down' : (i \in DOMAIN down /\ down'[i] = down[i])
                 \/ down'[i].kind \in {"busy", "cancelled"} \/ (k = "cancel" /\ (pending' # NoText => EndIsAhead(i)') /\ down'[i].kind = "idle")
       PROVE  CardsEnd'
  <2>1. Shorter(up, up')
    BY <1>0, <1>10, WiresMove
  <2>2. ASSUME NEW i \in DOMAIN up', up'[i].kind = "cancel", pending' # NoText PROVE \E j \in DOMAIN up' : i < j /\ Carries(j)'
    <3>1. i \in Nat /\ i + 1 \in DOMAIN up /\ up[i + 1].kind = "cancel" /\ pending # NoText
      BY <1>10, <2>1, <2>2 DEF Shorter, clientVars
    <3>2. PICK j \in DOMAIN up : i + 1 < j /\ Carries(j)
      BY <1>0, <3>1
    <3>3. j \in Nat /\ j # 1
      BY <1>0, <3>1, <3>2 DEF WiresTyped
    <3>4. j - 1 \in DOMAIN up' /\ up'[j - 1] = up[j] /\ i < j - 1
      BY <2>1, <3>1, <3>2, <3>3 DEF Shorter
    <3> QED BY <3>2, <3>4 DEF Carries
  <2>3. UNCHANGED <<activeCard, pending>>
    BY <1>10 DEF clientVars
  <2>4. activeCard' # NoText => EndIsAhead(0)'
    BY <1>0, <1>10, <2>3
  <2>5. \A i \in DOMAIN down' :
            (down'[i].kind = "status" \/ (down'[i].kind = "idle" /\ pending' # NoText)) => EndIsAhead(i)'
    BY <1>0, <1>10, <2>3
  <2> QED BY <2>2, <2>4, <2>5 DEF CardsEnd
<1>11. ASSUME NEW k, NEW t \in 0..MaxTexts, Reply(k, t), k \in {"status", "consent", "busy", "idle"} \cup Terminals
       PROVE  \A i \in DOMAIN down' : (i \in DOMAIN down /\ down'[i] = down[i]) \/ down'[i].kind = k
  <2>1. [kind |-> k, text |-> t] \in ViewFrame
    BY <1>11 DEF ViewFrame
  <2> QED BY <1>0, <1>11, <2>1, WiresMove DEF Longer
<1>12. NoText \in 0..MaxTexts /\ serverTurn \in 0..MaxTexts
  BY InParts, TurnViewAssumption DEF ScalarsTyped, NoText
<1>13. ASSUME NEW k \in {"message", "stopword", "approval"}, ReadMessage(k) PROVE CardsEnd'
  <2>1. \A n \in DOMAIN down \cup {0} : EndIsAhead(n) => EndIsAhead(n)'
    BY <1>13, AheadStays
  <2>2. down' = down \/ Reply("busy", NoText) \/ Reply("cancelled", serverTurn)
    BY <1>13 DEF ReadMessage, Refuse, EndByCancel
  <2>3. \A i \in DOMAIN down' : (i \in DOMAIN down /\ down'[i] = down[i]) \/ down'[i].kind \in {"busy", "cancelled"}
    BY <1>11, <1>12, <2>2 DEF Terminals
  <2>4. Reads(k) /\ UNCHANGED clientVars
    BY <1>13 DEF ReadMessage
  <2> QED BY <1>10, <2>1, <2>3, <2>4
<1>14. CASE ReadCancel
  <2>1. \A n \in DOMAIN down \cup {0} : EndIsAhead(n) => EndIsAhead(n)'
    BY <1>14, AheadStays
  <2>2. Reads("cancel") /\ UNCHANGED clientVars
    BY <1>14 DEF ReadCancel
  <2>3. Reply("cancelled", serverTurn) \/ Reply("idle", NoText)
    BY <1>14 DEF ReadCancel, EndByCancel
  <2>4. ASSUME pending' # NoText PROVE \A n : EndIsAhead(n)'
    <3>1. Shorter(up, up') /\ up[1].kind = "cancel"
      BY <1>0, <2>2, WiresMove
    <3>2. pending # NoText /\ 1 \in DOMAIN up
      BY <2>2, <2>4, <3>1 DEF clientVars, Shorter
    <3>3. PICK j \in DOMAIN up : 1 < j /\ Carries(j)
      BY <1>0, <3>1, <3>2
    <3>4. j - 1 \in DOMAIN up' /\ up'[j - 1] = up[j]
      BY <3>1, <3>3 DEF Shorter
    <3> QED BY <3>3, <3>4 DEF Carries, EndIsAhead
  <2>5. \A i \in DOMAIN down' : (i \in DOMAIN down /\ down'[i] = down[i]) \/ down'[i].kind \in {"cancelled", "idle"}
    BY <1>11, <1>12, <2>3 DEF Terminals
  <2> QED BY <1>10, <2>1, <2>2, <2>4, <2>5
<1>15. CASE ReadAnswer
  <2>1. \A n \in DOMAIN down \cup {0} : EndIsAhead(n) => EndIsAhead(n)'
    BY <1>15, AheadStays
  <2> QED BY <1>10, <1>15, <2>1 DEF ReadAnswer
<1>16. CASE TurnSpeaks \/ TurnAsks \/ \E k \in Terminals \ {"cancelled"} : TurnEnds(k)
  <2>1. \A n \in DOMAIN down \cup {0} : EndIsAhead(n) => EndIsAhead(n)'
    BY <1>16, AheadStays
  <2>2. PICK k \in {"status", "consent"} \cup Terminals : Reply(k, serverTurn) /\ (k = "status" => serverTurn' # NoText)
    BY <1>16 DEF TurnSpeaks, TurnAsks, TurnEnds, Terminals
  <2>3. UNCHANGED <<up, activeCard, pending>>
    BY <1>16 DEF TurnSpeaks, TurnAsks, TurnEnds, clientVars
  <2>4. \A i \in DOMAIN down' : (i \in DOMAIN down /\ down'[i] = down[i]) \/ down'[i].kind = k
    BY <1>11, <1>12, <2>2
  <2>5. k # "idle" /\ (k = "status" => \A n : EndIsAhead(n)')
    BY <2>2 DEF EndIsAhead, Terminals
  <2>6. \A i \in DOMAIN down' :
            (down'[i].kind = "status" \/ (down'[i].kind = "idle" /\ pending' # NoText)) => EndIsAhead(i)'
    BY <1>0, <2>1, <2>3, <2>4, <2>5
  <2>7. activeCard' # NoText => EndIsAhead(0)'
    BY <1>0, <2>1, <2>3
  <2>8. \A i \in DOMAIN up' : (up'[i].kind = "cancel" /\ pending' # NoText) => \E j \in DOMAIN up' : i < j /\ Carries(j)'
    BY <1>0, <2>3 DEF Carries
  <2> QED BY <2>6, <2>7, <2>8 DEF CardsEnd
<1>17. CASE Drop
  <2>1. activeCard' = NoText /\ DOMAIN up' = {} /\ DOMAIN down' = {}
    BY <1>17 DEF Drop
  <2> QED BY <2>1 DEF CardsEnd
<1>18. CASE UNCHANGED <<activeCard, pending, up, down, serverTurn>>
  <2>1. \A n \in DOMAIN down \cup {0} : EndIsAhead(n) => EndIsAhead(n)'
    BY <1>18, AheadStays
  <2>2. \A i \in DOMAIN up' : (up'[i].kind = "cancel" /\ pending' # NoText) => \E j \in DOMAIN up' : i < j /\ Carries(j)'
    BY <1>0, <1>18 DEF Carries
  <2> QED BY <1>0, <1>18, <2>1, <2>2 DEF CardsEnd
<1>19. ASSUME NEW t \in Texts, RejectPlan(t) PROVE UNCHANGED <<activeCard, pending, up, down, serverTurn>>
  BY <1>19 DEF RejectPlan, serverVars
<1>20. AskTimesOut \/ OtherTurn \/ UNCHANGED viewVars => UNCHANGED <<activeCard, pending, up, down, serverTurn>>
  BY DEF AskTimesOut, OtherTurn, viewVars, clientVars, serverVars
<1> QED BY <1>2, <1>3, <1>4, <1>5, <1>7, <1>8, <1>9, <1>13, <1>14, <1>15, <1>16, <1>17, <1>18, <1>19, <1>20 DEF ViewNext
\* The frame at the head is of the active card, or begins the pending text's turn.
LEMMA HeadIsOwn ==
    ASSUME ViewTyped, Tied, NEW k \in OfATurn, Frame(k)
    PROVE  /\ Shorter(down, down') /\ down[1].kind = k /\ 1 \in DOMAIN down /\ Head(down) = down[1]
           /\ activeCard # NoText => down[1].text = activeCard
           /\ activeCard = NoText => k = "status" /\ down[1].text = pending /\ pending # NoText
<1>1. Shorter(down, down') /\ down[1].kind = k
  BY WiresMove, InParts
<1>2. 1 \in DOMAIN down /\ Head(down) = down[1]
  BY <1>1 DEF Shorter
<1>3. Says(1) /\ down[1].text # NoText /\ down[1].text \in {activeCard, pending}
  BY <1>1, <1>2 DEF Says, Tied, FramesInOrder
<1>n. \A i \in DOMAIN down : ~(i < 1)
  BY InParts DEF WiresTyped
<1>4. ASSUME activeCard # NoText, down[1].text # activeCard PROVE FALSE
  <2>1. down[1].text = pending /\ pending # NoText /\ ~Silent(pending)
    BY <1>2, <1>3, <1>4 DEF Silent
  <2>2. Ended(activeCard)
    BY <1>4, <2>1 DEF Tied, PendingInOrder
  <2>3. PICK i \in DOMAIN down : down[i].kind \in Terminals /\ down[i].text = activeCard
    BY <2>2 DEF Ended
  <2>4. Says(i)
    BY <2>3 DEF Says, OfATurn
  <2>5. i < 1
    BY <1>2, <1>3, <2>1, <2>3, <2>4 DEF Tied, FramesInOrder
  <2> QED BY <1>n, <2>5
<1>5. ASSUME activeCard = NoText, k # "status" PROVE FALSE
  <2>1. down[1].text = pending /\ pending # NoText /\ ~Silent(pending)
    BY <1>2, <1>3, <1>5 DEF Silent
  <2>2. Spoke(pending)
    BY <2>1 DEF Tied, PendingInOrder
  <2>3. PICK i \in DOMAIN down : down[i].kind = "status" /\ down[i].text = pending
    BY <2>2 DEF Spoke
  <2>4. Says(i) /\ i # 1
    BY <1>1, <1>5, <2>3 DEF Says, OfATurn
  <2>5. i < 1
    BY <1>2, <1>3, <2>1, <2>3, <2>4 DEF Tied, FramesInOrder
  <2> QED BY <1>n, <2>5
<1> QED BY <1>1, <1>2, <1>3, <1>4, <1>5

\* What is still to be seen once the head was seen.
LEMMA AfterHead ==
    ASSUME Shorter(down, down')
    PROVE  /\ \A t : Silent(t) => Silent(t)'
           /\ \A t : Ended(t)' => Ended(t)
           /\ \A t : Ended(t) => Ended(t)' \/ (down[1].kind \in Terminals /\ down[1].text = t)
           /\ \A t : Spoke(t)' => Spoke(t)
           /\ \A t : Spoke(t) => Spoke(t)' \/ (down[1].kind = "status" /\ down[1].text = t)
           /\ \A i \in DOMAIN down' : i \in Nat /\ i + 1 \in DOMAIN down /\ down'[i] = down[i + 1] /\ i + 1 # 1 /\ (Says(i)' <=> Says(i + 1))
<1>1. \A i \in DOMAIN down' : i \in Nat /\ i + 1 \in DOMAIN down /\ down'[i] = down[i + 1] /\ i + 1 # 1
  BY DEF Shorter
<1>2. \A i \in DOMAIN down' : Says(i)' <=> Says(i + 1)
  BY <1>1 DEF Says
<1>3. \A i \in DOMAIN down : i # 1 => i - 1 \in DOMAIN down' /\ down'[i - 1] = down[i]
  BY DEF Shorter
<1>4. ASSUME NEW t, Silent(t) PROVE Silent(t)'
  BY <1>1, <1>2, <1>4 DEF Silent
<1>5. ASSUME NEW t, Ended(t)' PROVE Ended(t)
  BY <1>1, <1>5 DEF Ended
<1>6. ASSUME NEW t, Ended(t) PROVE Ended(t)' \/ (down[1].kind \in Terminals /\ down[1].text = t)
  BY <1>3, <1>6 DEF Ended
<1>7. ASSUME NEW t, Spoke(t)' PROVE Spoke(t)
  BY <1>1, <1>7 DEF Spoke
<1>8. ASSUME NEW t, Spoke(t) PROVE Spoke(t)' \/ (down[1].kind = "status" /\ down[1].text = t)
  BY <1>3, <1>8 DEF Spoke
<1> QED BY <1>1, <1>2, <1>4, <1>5, <1>6, <1>7, <1>8

\* What is seen of a turn once a frame of it was sent.
LEMMA AfterFrame ==
    ASSUME NEW n, NEW k, NEW t, Longer(down, down', n, [kind |-> k, text |-> t])
    PROVE  /\ \A u : Silent(u)' <=> Silent(u) /\ ~(k \in OfATurn /\ u = t)
           /\ \A u : Ended(u)' <=> Ended(u) \/ (k \in Terminals /\ u = t)
           /\ \A u : Spoke(u)' <=> Spoke(u) \/ (k = "status" /\ u = t)
           /\ \A i \in DOMAIN down' :
                 \/ i \in DOMAIN down /\ down'[i] = down[i] /\ i < n /\ (Says(i)' <=> Says(i))
                 \/ i = n /\ down'[i].kind = k /\ down'[i].text = t /\ (Says(i)' <=> k \in OfATurn)
<1>1. n \in DOMAIN down' /\ down'[n].kind = k /\ down'[n].text = t
  BY DEF Longer
<1>2. \A i \in DOMAIN down : i \in DOMAIN down' /\ down'[i] = down[i] /\ i < n
  BY DEF Longer
<1>3. \A i \in DOMAIN down' : i \in DOMAIN down \/ i = n
  BY DEF Longer
<1>4. \A u : Silent(u)' <=> Silent(u) /\ ~(k \in OfATurn /\ u = t)
  BY <1>1, <1>2, <1>3 DEF Silent, Says
<1>5. \A u : Ended(u)' <=> Ended(u) \/ (k \in Terminals /\ u = t)
  BY <1>1, <1>2, <1>3 DEF Ended
<1>6. \A u : Spoke(u)' <=> Spoke(u) \/ (k = "status" /\ u = t)
  BY <1>1, <1>2, <1>3 DEF Spoke
<1>7. ASSUME NEW i \in DOMAIN down'
      PROVE  \/ i \in DOMAIN down /\ down'[i] = down[i] /\ i < n /\ (Says(i)' <=> Says(i))
             \/ i = n /\ down'[i].kind = k /\ down'[i].text = t /\ (Says(i)' <=> k \in OfATurn)
  <2>1. CASE i \in DOMAIN down
    BY <1>2, <2>1 DEF Says
  <2>2. CASE i = n
    BY <1>1, <2>2 DEF Says
  <2> QED BY <1>3, <2>1, <2>2
<1> QED BY <1>4, <1>5, <1>6, <1>7

\* With nothing on its way, a new text is the only one.
LEMMA NothingElse ==
    ASSUME ViewTyped, Tied, pending = NoText
    PROVE  /\ \A i \in DOMAIN down : down[i].kind \notin {"idle", "busy", "cancelled"}
           /\ \A i \in DOMAIN down : Says(i) => down[i].text = activeCard /\ activeCard # NoText
           /\ \A i \in DOMAIN up : Carries(i) => up[i].text = activeCard /\ activeCard # NoText /\ up[i].kind # "stopword"
           /\ serverTurn \in {activeCard, NoText}
<1> QED BY DEF Tied, FramesInOrder, TextsInOrder, TurnInOrder, AnswersInOrder, Resolved
\* A new text is the last one, of a new card or beside the active one.
LEMMA TextIsSent ==
    ASSUME ViewTyped, Tied, pending = NoText, NEW k \in {"message", "stopword", "approval"},
           typed + 1 \in Texts, Send(k, typed + 1), UNCHANGED <<down, serverTurn, stage>>, typed' = typed + 1,
           \/ activeCard = NoText /\ activeCard' = typed + 1 /\ pending' = NoText /\ k # "stopword"
           \/ activeCard # NoText /\ activeCard' = activeCard /\ pending' = typed + 1
    PROVE  Tied'
<1>0. PICK new : new = typed + 1
  OBVIOUS
<1>1. PICK n : Longer(up, up', n, [kind |-> k, text |-> new])
  <2>1. [kind |-> k, text |-> new] \in Message
    BY <1>0 DEF Message
  <2> QED BY <1>0, <2>1, WiresMove, InParts
<1>2. new # NoText /\ new \in Nat /\ activeCard \in Nat /\ activeCard <= typed /\ typed \in Nat /\ new # activeCard /\ typed <= new
  BY <1>0, InParts, TurnViewAssumption DEF Texts, NoText, ScalarsTyped, Tied, NumbersGrow
<1>3. /\ \A i \in DOMAIN down' : down'[i].kind \notin {"idle", "busy", "cancelled"}
      /\ \A i \in DOMAIN down' : Says(i)' => down'[i].text = activeCard /\ activeCard # NoText
      /\ serverTurn' \in {activeCard, NoText}
  BY NothingElse DEF Says
<1>4. \A i \in DOMAIN up' : \/ i \in DOMAIN up /\ up'[i] = up[i] /\ i < n /\ (Carries(i)' <=> Carries(i))
                            \/ i = n /\ up'[i].kind = k /\ up'[i].text = new
  BY <1>1 DEF Longer, Carries
<1>5. n \in DOMAIN up' /\ Carries(n)' /\ up'[n].text = new
  BY <1>1 DEF Longer, Carries
<1>6. /\ \A t : Silent(t)' <=> Silent(t)
      /\ \A t : Ended(t)' <=> Ended(t)
      /\ \A t : Spoke(t)' <=> Spoke(t)
      /\ \A i : Says(i)' <=> Says(i)
  BY DEF Silent, Ended, Spoke, Says
<1>7. \A i \in DOMAIN up : Carries(i) => up[i].text = activeCard /\ activeCard # NoText /\ up[i].kind # "stopword"
  BY NothingElse
<1>8. Silent(new) /\ serverTurn # new
  BY <1>2, NothingElse DEF Silent
<1>9. FramesInOrder'
  <2>1. \A i \in DOMAIN down' : Says(i)' => down'[i].text # NoText /\ down'[i].text \in {activeCard', pending'}
    BY <1>0, <1>3
  <2>2. \A i, j \in DOMAIN down' : Says(i)' /\ Says(j)' => ~(down'[i].text = activeCard' /\ down'[j].text = pending')
    BY <1>0, <1>2, <1>3
  <2> QED BY <1>3, <1>6, <2>1, <2>2 DEF Tied, FramesInOrder
<1>10. PendingInOrder'
  BY <1>0, <1>2, <1>6, <1>8 DEF PendingInOrder
<1>11. TurnInOrder'
  <2>1. ~Unsent(new)'
    BY <1>5 DEF Unsent
  <2>2. \A t : ~Unsent(t) => ~(Unsent(t)')
    BY <1>1 DEF Unsent, Longer, Carries
  <2>3. activeCard' # NoText => serverTurn' = activeCard' \/ Ended(activeCard)' \/ ~(Unsent(activeCard)')
    BY <1>0, <1>6, <2>1, <2>2 DEF Tied, TurnInOrder
  <2> QED BY <1>3, <1>6, <2>3 DEF Tied, TurnInOrder
<1>12. TextsInOrder'
  <2>1. \A i \in DOMAIN up' : up'[i].kind # "cancel"
    BY <1>4 DEF Tied, TextsInOrder
  <2>2. ASSUME NEW i \in DOMAIN up', Carries(i)'
        PROVE  /\ up'[i].text # NoText /\ up'[i].text \in {activeCard', pending'}
               /\ Silent(up'[i].text) /\ serverTurn # up'[i].text /\ (up'[i].kind = "stopword" => up'[i].text = pending')
    BY <1>0, <1>2, <1>4, <1>7, <1>8, <2>2 DEF Tied, TextsInOrder
  <2>3. \A i, j \in DOMAIN up' : Carries(i)' /\ Carries(j)' /\ up'[i].text = up'[j].text => i = j
    BY <1>2, <1>4, <1>7 DEF Tied, TextsInOrder
  <2>4. \A i, j \in DOMAIN up' : Carries(i)' /\ Carries(j)' /\ up'[i].text = activeCard' /\ up'[j].text = pending' => i < j
    BY <1>0, <1>2, <1>4, <1>7
  <2>5. ASSUME NEW i \in DOMAIN up', Carries(i)' PROVE Silent(up[i].text)' /\ serverTurn' # up'[i].text
    BY <1>6, <2>2, <2>5 DEF Silent, Says
  <2> QED BY <2>1, <2>2, <2>3, <2>4, <2>5 DEF TextsInOrder
<1>13. AnswersInOrder'
  BY <1>3 DEF AnswersInOrder
<1>14. NumbersGrow'
  BY <1>2 DEF NumbersGrow, NoText
<1> QED BY <1>9, <1>10, <1>11, <1>12, <1>13, <1>14 DEF Tied

\* A frame is seen on the active card, which stays active.
LEMMA FrameIsSeen ==
    ASSUME ViewTyped, Tied, NEW k \in {"status", "consent"}, Frame(k), activeCard # NoText,
           UNCHANGED <<up, serverTurn, stage, typed, activeCard, pending>>
    PROVE  Tied'
<1>1. /\ Shorter(down, down') /\ down[1].kind = k /\ down[1].text = activeCard /\ k \notin Terminals
      /\ 1 \in DOMAIN down
  BY HeadIsOwn DEF OfATurn, Terminals
<1>2. /\ \A t : Silent(t) => Silent(t)'
      /\ \A t : Ended(t)' <=> Ended(t)
      /\ \A t : Spoke(t)' => Spoke(t)
      /\ \A t : t # activeCard /\ Spoke(t) => Spoke(t)'
      /\ \A i \in DOMAIN down' : i \in Nat /\ i + 1 \in DOMAIN down /\ down'[i] = down[i + 1] /\ i + 1 # 1 /\ (Says(i)' <=> Says(i + 1))
  BY <1>1, AfterHead
<1>3. pending # NoText => pending # activeCard
  BY DEF Tied, NumbersGrow
<1>4. \A i : Carries(i)' <=> Carries(i)
  BY DEF Carries
<1>5. \A t : Unsent(t)' <=> Unsent(t)
  BY <1>4 DEF Unsent
<1>6. FramesInOrder'
  BY <1>2 DEF Tied, FramesInOrder
<1>7. PendingInOrder'
  BY <1>2, <1>3 DEF Tied, PendingInOrder
<1>8. TurnInOrder'
  BY <1>2, <1>5 DEF Tied, TurnInOrder
<1>9. TextsInOrder'
  BY <1>2, <1>4 DEF Tied, TextsInOrder
<1>10. Resolved => Resolved'
  BY <1>2, <1>5 DEF Resolved
<1>11. AnswersInOrder'
  BY <1>2, <1>10 DEF Tied, AnswersInOrder
<1>12. NumbersGrow'
  BY DEF Tied, NumbersGrow
<1> QED BY <1>6, <1>7, <1>8, <1>9, <1>11, <1>12 DEF Tied
\* The pending text is refused: nothing else comes of it.
LEMMA RefusalIsSeen ==
    ASSUME ViewTyped, Tied, Frame("busy"), pending' = NoText,
           UNCHANGED <<up, serverTurn, stage, typed, activeCard>>
    PROVE  Tied'
<1>1. Shorter(down, down') /\ down[1].kind = "busy" /\ 1 \in DOMAIN down
  BY WiresMove, InParts DEF Shorter
<1>2. Resolved
  BY <1>1 DEF Tied, AnswersInOrder
<1>3. /\ \A t : Silent(t) => Silent(t)'
      /\ \A t : Ended(t)' <=> Ended(t)
      /\ \A t : Spoke(t)' <=> Spoke(t)
      /\ \A i \in DOMAIN down' : i \in Nat /\ i + 1 \in DOMAIN down /\ down'[i] = down[i + 1] /\ i + 1 # 1 /\ (Says(i)' <=> Says(i + 1))
  BY <1>1, AfterHead DEF Terminals
<1>4. \A i : Carries(i)' <=> Carries(i)
  BY DEF Carries
<1>5. \A t : Unsent(t)' <=> Unsent(t)
  BY <1>4 DEF Unsent
<1>6. /\ \A i \in DOMAIN down : Says(i) => down[i].text = activeCard /\ activeCard # NoText
      /\ \A i \in DOMAIN up : Carries(i) => up[i].text = activeCard /\ activeCard # NoText /\ up[i].kind # "stopword"
      /\ serverTurn \in {activeCard, NoText}
  BY <1>2 DEF Tied, FramesInOrder, TextsInOrder, TurnInOrder, Resolved, Silent, Unsent
<1>7. \A i \in DOMAIN down' : down'[i].kind \notin {"idle", "busy", "cancelled"}
  BY <1>1, <1>3 DEF Tied, FramesInOrder, AnswersInOrder
<1>8. FramesInOrder'
  <2>1. \A i \in DOMAIN down' : Says(i)' => down'[i].text = activeCard' /\ activeCard' # NoText
    BY <1>3, <1>6
  <2>2. \A i, j \in DOMAIN down' : Says(i)' /\ Says(j)' /\ i # j /\ down'[i].text = down'[j].text =>
          /\ down'[i].kind = "status" => i < j
          /\ down'[i].kind \in Terminals => j < i
    BY <1>3 DEF Tied, FramesInOrder
  <2> QED BY <1>7, <2>1, <2>2 DEF FramesInOrder
<1>9. PendingInOrder'
  BY DEF PendingInOrder
<1>10. TurnInOrder'
  BY <1>3, <1>5, <1>6 DEF Tied, TurnInOrder
<1>11. TextsInOrder'
  BY <1>3, <1>4, <1>6 DEF Tied, TextsInOrder
<1>12. AnswersInOrder'
  BY <1>7 DEF AnswersInOrder
<1>13. NumbersGrow'
  BY InParts, TurnViewAssumption DEF Tied, NumbersGrow, ScalarsTyped, NoText
<1> QED BY <1>8, <1>9, <1>10, <1>11, <1>12, <1>13 DEF Tied

\* The pending text runs after all, and gets a card.
LEMMA PendingRuns ==
    ASSUME ViewTyped, Tied, Frame("status"), activeCard = NoText, activeCard' = pending, pending' = NoText,
           UNCHANGED <<up, serverTurn, stage, typed>>
    PROVE  Tied'
<1>1. /\ Shorter(down, down') /\ down[1].kind = "status" /\ down[1].text = pending /\ pending # NoText
      /\ 1 \in DOMAIN down /\ "status" \notin Terminals
  BY HeadIsOwn DEF OfATurn, Terminals
<1>2. ~Silent(pending) /\ Spoke(pending)
  BY <1>1 DEF Silent, Spoke, Says, OfATurn
<1>3. /\ \A t : Silent(t) => Silent(t)'
      /\ \A t : Ended(t)' <=> Ended(t)
      /\ \A t : Spoke(t)' => Spoke(t)
      /\ \A i \in DOMAIN down' : i \in Nat /\ i + 1 \in DOMAIN down /\ down'[i] = down[i + 1] /\ i + 1 # 1 /\ (Says(i)' <=> Says(i + 1))
  BY <1>1, AfterHead
<1>4. \A i : Carries(i)' <=> Carries(i)
  BY DEF Carries
<1>5. \A i \in DOMAIN up : ~Carries(i)
  BY <1>2 DEF Tied, TextsInOrder
<1>6. \A i \in DOMAIN down' : down'[i].kind \notin {"idle", "busy", "cancelled"}
  BY <1>2, <1>3 DEF Tied, FramesInOrder, AnswersInOrder, Resolved
<1>7. \A i \in DOMAIN down' : Says(i)' => down'[i].text = activeCard' /\ activeCard' # NoText
  BY <1>1, <1>3 DEF Tied, FramesInOrder
<1>8. FramesInOrder'
  <2>1. \A i, j \in DOMAIN down' : Says(i)' /\ Says(j)' /\ i # j /\ down'[i].text = down'[j].text =>
          /\ down'[i].kind = "status" => i < j
          /\ down'[i].kind \in Terminals => j < i
    BY <1>3 DEF Tied, FramesInOrder
  <2> QED BY <1>6, <1>7, <2>1 DEF FramesInOrder
<1>9. PendingInOrder'
  BY DEF PendingInOrder
<1>10. TurnInOrder'
  <2>1. \A t \in Texts : Spoke(t)' => serverTurn' = t \/ Ended(t)'
    BY <1>3 DEF Tied, TurnInOrder
  <2>2. serverTurn = pending \/ Ended(pending)
    <3>1. pending \in Texts
      BY <1>1, InParts DEF ScalarsTyped, Texts, NoText
    <3> QED BY <1>2, <3>1 DEF Tied, TurnInOrder
  <2>3. activeCard' # NoText => serverTurn' = activeCard' \/ Ended(activeCard)'
    BY <1>3, <2>2
  <2>4. serverTurn' # NoText => serverTurn' \in {activeCard', pending'} /\ ~(Ended(serverTurn)')
    BY <1>3 DEF Tied, TurnInOrder
  <2>5. serverTurn' # NoText /\ stage' = "begun" => Silent(serverTurn)'
    BY <1>3 DEF Tied, TurnInOrder
  <2> QED BY <2>1, <2>3, <2>4, <2>5 DEF TurnInOrder
<1>11. TextsInOrder'
  BY <1>4, <1>5 DEF Tied, TextsInOrder
<1>12. AnswersInOrder'
  BY <1>6 DEF AnswersInOrder
<1>13. NumbersGrow'
  BY <1>1, InParts, TurnViewAssumption DEF Tied, NumbersGrow, ScalarsTyped, NoText
<1> QED BY <1>8, <1>9, <1>10, <1>11, <1>12, <1>13 DEF Tied

\* The active card ends with its turn.
LEMMA EndIsSeen ==
    ASSUME ViewTyped, Tied, NEW k \in Terminals, Frame(k), activeCard # NoText, activeCard' = NoText,
           pending' = IF k = "cancelled" THEN NoText ELSE pending,
           UNCHANGED <<up, serverTurn, stage, typed>>
    PROVE  Tied'
<1>1. /\ Shorter(down, down') /\ down[1].kind = k /\ down[1].text = activeCard
      /\ 1 \in DOMAIN down /\ k # "status"
  BY HeadIsOwn DEF OfATurn, Terminals
<1>2. ~Silent(activeCard) /\ Ended(activeCard) /\ Says(1)
  BY <1>1 DEF Silent, Ended, Says, OfATurn
<1>3. /\ \A t : Silent(t) => Silent(t)'
      /\ \A t : Ended(t)' => Ended(t)
      /\ \A t : t # activeCard /\ Ended(t) => Ended(t)'
      /\ \A t : Spoke(t)' <=> Spoke(t)
      /\ \A i \in DOMAIN down' : i \in Nat /\ i + 1 \in DOMAIN down /\ down'[i] = down[i + 1] /\ i + 1 # 1 /\ (Says(i)' <=> Says(i + 1))
  BY <1>1, AfterHead
<1>4. \A i : Carries(i)' <=> Carries(i)
  BY DEF Carries
<1>5. \A t : Unsent(t)' <=> Unsent(t)
  BY <1>4 DEF Unsent
<1>6. ASSUME NEW i \in DOMAIN down', Says(i)' PROVE down'[i].text = pending /\ pending # NoText
  <2>1. i \in Nat /\ i + 1 \in DOMAIN down /\ down'[i] = down[i + 1] /\ i + 1 # 1 /\ Says(i + 1)
    BY <1>3, <1>6
  <2>2. down[i + 1].text # activeCard
    <3> SUFFICES ASSUME down[i + 1].text = activeCard PROVE FALSE
      OBVIOUS
    <3>1. i + 1 < 1
      BY <1>1, <1>2, <2>1 DEF Tied, FramesInOrder
    <3> QED BY <2>1, <3>1
  <2> QED BY <2>1, <2>2 DEF Tied, FramesInOrder
<1>7. ~(Spoke(activeCard)) /\ \A t : t = activeCard => ~(Spoke(t)')
  <2> SUFFICES ASSUME Spoke(activeCard) PROVE FALSE
    BY <1>3
  <2>1. PICK i \in DOMAIN down : down[i].kind = "status" /\ down[i].text = activeCard
    BY DEF Spoke
  <2>2. Says(i) /\ i # 1 /\ i \in Nat \ {0}
    BY <1>1, <2>1, InParts DEF Says, OfATurn, WiresTyped
  <2>3. i < 1
    BY <1>1, <1>2, <2>1, <2>2 DEF Tied, FramesInOrder
  <2> QED BY <2>2, <2>3
<1>8. \A i \in DOMAIN down' : down'[i].kind # "cancelled"
  <2> SUFFICES ASSUME NEW i \in DOMAIN down', down'[i].kind = "cancelled" PROVE FALSE
    OBVIOUS
  <2>1. Says(i)'
    BY DEF Says, OfATurn, Terminals
  <2>2. down'[i].text = pending /\ pending # NoText
    BY <1>6, <2>1
  <2>3. down'[i].text = activeCard
    BY <1>3 DEF Tied, AnswersInOrder
  <2> QED BY <2>2, <2>3 DEF Tied, NumbersGrow
<1>9. serverTurn # NoText => serverTurn = pending
  BY <1>2 DEF Tied, TurnInOrder
<1>10. \A i \in DOMAIN up : Carries(i) => up[i].text = pending
  BY <1>2 DEF Tied, TextsInOrder
<1>11. CASE k = "cancelled"
  <2>1. Resolved
    BY <1>1, <1>11 DEF Tied, AnswersInOrder
  <2>2. \A i \in DOMAIN down' : ~(Says(i)') /\ down'[i].kind \notin {"idle", "busy", "cancelled"}
    <3>1. \A i \in DOMAIN down' : ~(Says(i)')
      <4> SUFFICES ASSUME NEW i \in DOMAIN down', Says(i)' PROVE FALSE
        OBVIOUS
      <4>1. down[i + 1].text = pending /\ i + 1 \in DOMAIN down /\ Says(i + 1)
        BY <1>3, <1>6
      <4> QED BY <2>1, <4>1 DEF Resolved, Silent
    <3>2. \A i \in DOMAIN down' : down'[i].kind \notin {"idle", "busy"}
      BY <1>1, <1>3, <1>11 DEF Tied, FramesInOrder, AnswersInOrder
    <3> QED BY <1>8, <3>1, <3>2
  <2>3. serverTurn = NoText /\ \A i \in DOMAIN up : ~Carries(i)
    BY <1>9, <1>10, <2>1 DEF Resolved, Unsent
  <2>4. \A t \in Texts : ~(Spoke(t)')
    BY <2>2 DEF Spoke, Says, OfATurn
  <2>5. FramesInOrder'
    BY <2>2 DEF FramesInOrder
  <2>6. PendingInOrder' /\ NumbersGrow'
    BY <1>11, InParts, TurnViewAssumption DEF PendingInOrder, NumbersGrow, ScalarsTyped, NoText
  <2>7. TurnInOrder'
    BY <2>3, <2>4 DEF TurnInOrder
  <2>8. TextsInOrder'
    BY <1>4, <2>3 DEF Tied, TextsInOrder
  <2>9. AnswersInOrder'
    BY <2>2 DEF AnswersInOrder
  <2> QED BY <2>5, <2>6, <2>7, <2>8, <2>9 DEF Tied
<1>12. CASE k # "cancelled"
  <2>0. pending' = pending
    BY <1>12
  <2>1. FramesInOrder'
    <3>1. \A i, j \in DOMAIN down' : Says(i)' /\ Says(j)' /\ i # j /\ down'[i].text = down'[j].text =>
            /\ down'[i].kind = "status" => i < j
            /\ down'[i].kind \in Terminals => j < i
      BY <1>3 DEF Tied, FramesInOrder
    <3>2. \A i \in DOMAIN down' : down'[i].kind # "idle"
      BY <1>3 DEF Tied, FramesInOrder
    <3> QED BY <1>6, <2>0, <3>1, <3>2 DEF FramesInOrder
  <2>2. PendingInOrder'
    BY <1>3, <2>0 DEF Tied, PendingInOrder
  <2>3. TurnInOrder'
    <3>1. serverTurn' # NoText => serverTurn' \in {activeCard', pending'} /\ ~(Ended(serverTurn)')
      BY <1>3, <1>9, <2>0 DEF Tied, TurnInOrder
    <3>2. serverTurn' # NoText /\ stage' = "begun" => Silent(serverTurn)'
      BY <1>3 DEF Tied, TurnInOrder
    <3>3. \A t \in Texts : Spoke(t)' => serverTurn' = t \/ Ended(t)'
      BY <1>3, <1>7 DEF Tied, TurnInOrder
    <3> QED BY <3>1, <3>2, <3>3 DEF TurnInOrder
  <2>4. TextsInOrder'
    BY <1>3, <1>4, <1>10, <2>0 DEF Tied, TextsInOrder
  <2>5. Resolved => Resolved'
    BY <1>3, <1>5, <2>0 DEF Resolved
  <2>6. AnswersInOrder'
    BY <1>3, <1>8, <2>5 DEF Tied, AnswersInOrder
  <2>7. NumbersGrow'
    BY <2>0, InParts, TurnViewAssumption DEF Tied, NumbersGrow, ScalarsTyped, NoText
  <2> QED BY <2>1, <2>2, <2>3, <2>4, <2>6, <2>7 DEF Tied
<1> QED BY <1>11, <1>12
\* What reading the head leaves of the texts.
LEMMA AfterReading ==
    ASSUME Shorter(up, up')
    PROVE  /\ \A t : Unsent(t) => Unsent(t)'
           /\ \A t : ~Unsent(t) => ~(Unsent(t)') \/ (Carries(1) /\ up[1].text = t)
           /\ \A i \in DOMAIN up' : i \in Nat /\ i + 1 \in DOMAIN up /\ up'[i] = up[i + 1] /\ i + 1 # 1 /\ (Carries(i)' <=> Carries(i + 1))
<1>1. \A i \in DOMAIN up' : i \in Nat /\ i + 1 \in DOMAIN up /\ up'[i] = up[i + 1] /\ i + 1 # 1 /\ (Carries(i)' <=> Carries(i + 1))
  BY DEF Shorter, Carries
<1>2. \A i \in DOMAIN up : i # 1 => i - 1 \in DOMAIN up' /\ up'[i - 1] = up[i]
  BY DEF Shorter
<1>3. ASSUME NEW t, Unsent(t) PROVE Unsent(t)'
  BY <1>1, <1>3 DEF Unsent
<1>4. ASSUME NEW t, ~Unsent(t), ~(Carries(1) /\ up[1].text = t) PROVE ~(Unsent(t)')
  <2>1. PICK i \in DOMAIN up : Carries(i) /\ up[i].text = t
    BY <1>4 DEF Unsent
  <2>2. i - 1 \in DOMAIN up' /\ up'[i - 1] = up[i]
    BY <1>2, <1>4, <2>1
  <2> QED BY <2>1, <2>2 DEF Unsent, Carries
<1> QED BY <1>1, <1>3, <1>4

\* A text is read with a turn under way: it is the pending one, and the turn is the active card's.
\* The answer to it is busy, or the end of the turn.
LEMMA TextIsAnswered ==
    ASSUME ViewTyped, Tied, NEW k \in {"message", "stopword", "approval"}, Reads(k), serverTurn # NoText,
           UNCHANGED <<typed, activeCard, pending>>,
           (Reply("busy", NoText) /\ UNCHANGED <<serverTurn, stage>>) \/ EndByCancel
    PROVE  Tied'
<1>1. /\ Shorter(up, up') /\ up[1].kind = k /\ 1 \in DOMAIN up /\ Carries(1)
      /\ Head(up) = up[1]
  BY WiresMove, InParts DEF Shorter, Carries
<1>2. up[1].text # NoText /\ up[1].text \in {activeCard, pending} /\ Silent(up[1].text) /\ serverTurn # up[1].text
  BY <1>1 DEF Tied, TextsInOrder
<1>3. up[1].text = pending /\ pending # NoText /\ serverTurn = activeCard /\ activeCard # NoText /\ Silent(pending)
      /\ pending # activeCard /\ ~Ended(activeCard)
  <2>1. serverTurn \in {activeCard, pending} /\ ~Ended(serverTurn)
    BY DEF Tied, TurnInOrder
  <2>2. ASSUME up[1].text # pending PROVE FALSE
    <3>1. up[1].text = activeCard /\ activeCard # NoText /\ serverTurn = pending /\ pending # NoText
      BY <1>2, <2>1, <2>2
    <3>2. Ended(activeCard)
      BY <3>1 DEF Tied, PendingInOrder
    <3>3. ~Silent(activeCard)
      BY <3>2 DEF Ended, Silent, Says, OfATurn
    <3> QED BY <1>2, <3>1, <3>3
  <2> QED BY <1>2, <2>1, <2>2
<1>4. PICK f \in {"busy", "cancelled"}, u \in {NoText, activeCard} :
          /\ Reply(f, u)
          /\ \/ f = "busy" /\ serverTurn' = serverTurn /\ stage' = stage
             \/ f = "cancelled" /\ u = activeCard /\ serverTurn' = NoText /\ stage' = "begun"
  BY <1>3 DEF EndByCancel
<1>5. PICK n : Longer(down, down', n, [kind |-> f, text |-> u])
  <2>1. [kind |-> f, text |-> u] \in ViewFrame
    BY InParts, TurnViewAssumption DEF ViewFrame, ScalarsTyped, Terminals, NoText
  <2> QED BY <1>4, <2>1, WiresMove, InParts
<1>6. /\ \A v : Silent(v)' <=> Silent(v) /\ ~(f = "cancelled" /\ v = u)
      /\ \A v : Ended(v)' <=> Ended(v) \/ (f = "cancelled" /\ v = u)
      /\ \A v : Spoke(v)' <=> Spoke(v)
      /\ \A i \in DOMAIN down' :
            \/ i \in DOMAIN down /\ down'[i] = down[i] /\ i < n /\ (Says(i)' <=> Says(i))
            \/ i = n /\ down'[i].kind = f /\ down'[i].text = u /\ (Says(i)' <=> f = "cancelled")
  <2>1. (f \in OfATurn <=> f = "cancelled") /\ (f \in Terminals <=> f = "cancelled") /\ f # "status"
    BY <1>4 DEF OfATurn, Terminals
  <2> QED BY <1>5, <2>1, AfterFrame
<1>7. \A i \in DOMAIN up' : i \in Nat /\ i + 1 \in DOMAIN up /\ up'[i] = up[i + 1] /\ i + 1 # 1 /\ (Carries(i)' <=> Carries(i + 1))
  BY <1>1, AfterReading
<1>8. \A i \in DOMAIN up' : ~(Carries(i)')
  <2> SUFFICES ASSUME NEW i \in DOMAIN up', Carries(i)' PROVE FALSE
    OBVIOUS
  <2>1. i + 1 \in DOMAIN up /\ i + 1 # 1 /\ Carries(i + 1)
    BY <1>7
  <2>2. up[i + 1].text # pending
    BY <1>1, <1>3, <2>1 DEF Tied, TextsInOrder
  <2>3. up[i + 1].text # activeCard
    BY <1>3, <2>1 DEF Tied, TextsInOrder
  <2> QED BY <2>1, <2>2, <2>3 DEF Tied, TextsInOrder
<1>9. \A i \in DOMAIN down : down[i].kind \notin {"idle", "busy", "cancelled"}
  <2>1. ~Resolved
    BY <1>1, <1>3 DEF Resolved, Unsent
  <2> QED BY <2>1 DEF Tied, FramesInOrder, AnswersInOrder
<1>10. \A i \in DOMAIN down : Says(i) => down[i].text = activeCard /\ down[i].kind \notin Terminals
  <2> SUFFICES ASSUME NEW i \in DOMAIN down, Says(i) PROVE down[i].text = activeCard /\ down[i].kind \notin Terminals
    OBVIOUS
  <2>1. down[i].text = activeCard
    BY <1>3 DEF Tied, FramesInOrder, Silent
  <2> QED BY <1>3, <2>1 DEF Ended
<1>11. FramesInOrder'
  <2>1. \A i \in DOMAIN down' : down'[i].kind # "idle" /\ (Says(i)' => down'[i].text = activeCard')
    BY <1>4, <1>6, <1>9, <1>10
  <2>2. \A i, j \in DOMAIN down' : Says(i)' /\ Says(j)' /\ i # j /\ down'[i].text = down'[j].text =>
          /\ down'[i].kind = "status" => i < j
          /\ down'[i].kind \in Terminals => j < i
    BY <1>6, <1>10 DEF Tied, FramesInOrder
  <2> QED BY <1>3, <2>1, <2>2 DEF FramesInOrder
<1>12. PendingInOrder'
  <2>1. Silent(pending)' /\ serverTurn' # pending'
    BY <1>3, <1>4, <1>6 DEF Tied, TurnInOrder
  <2> QED BY <2>1 DEF PendingInOrder
<1>13. TurnInOrder'
  <2>1. f = "cancelled" => serverTurn' = NoText /\ Ended(activeCard)'
    BY <1>4, <1>6
  <2>2. f = "busy" => serverTurn' = serverTurn /\ stage' = stage
    BY <1>4
  <2>3. \A t \in Texts : Spoke(t)' => serverTurn' = t \/ Ended(t)'
    BY <1>3, <1>4, <1>6 DEF Tied, TurnInOrder
  <2> QED BY <1>3, <1>4, <1>6, <2>1, <2>2, <2>3 DEF Tied, TurnInOrder
<1>14. TextsInOrder'
  BY <1>7, <1>8 DEF Tied, TextsInOrder
<1>15. Resolved'
  BY <1>3, <1>4, <1>6, <1>8 DEF Resolved, Unsent
<1>16. AnswersInOrder'
  BY <1>4, <1>6, <1>9, <1>15 DEF AnswersInOrder
<1>17. NumbersGrow'
  BY DEF Tied, NumbersGrow
<1> QED BY <1>11, <1>12, <1>13, <1>14, <1>16, <1>17 DEF Tied

\* A text is read with no turn under way, and becomes one.
LEMMA CarriedBegins ==
    ASSUME ViewTyped, Tied, NEW k \in {"message", "stopword", "approval"}, Reads(k), serverTurn = NoText,
           UNCHANGED <<typed, activeCard, pending, down>>, serverTurn' = Head(up).text, stage' = "begun"
    PROVE  Tied'
<1>1. /\ Shorter(up, up') /\ up[1].kind = k /\ 1 \in DOMAIN up /\ Carries(1)
      /\ Head(up) = up[1] /\ serverTurn' = up[1].text
  BY WiresMove, InParts DEF Shorter, Carries
<1>2. up[1].text # NoText /\ up[1].text \in {activeCard, pending} /\ Silent(up[1].text)
  BY <1>1 DEF Tied, TextsInOrder
<1>3. /\ \A t : Silent(t)' <=> Silent(t)
      /\ \A t : Ended(t)' <=> Ended(t)
      /\ \A t : Spoke(t)' <=> Spoke(t)
      /\ \A i : Says(i)' <=> Says(i)
  BY DEF Silent, Ended, Spoke, Says
<1>4. /\ \A t : Unsent(t) => Unsent(t)'
      /\ \A t : ~Unsent(t) => ~(Unsent(t)') \/ up[1].text = t
      /\ \A i \in DOMAIN up' : i \in Nat /\ i + 1 \in DOMAIN up /\ up'[i] = up[i + 1] /\ i + 1 # 1 /\ (Carries(i)' <=> Carries(i + 1))
  BY <1>1, AfterReading
<1>5. up[1].text = pending => activeCard = NoText \/ Ended(activeCard)
  <2> SUFFICES ASSUME up[1].text = pending, activeCard # NoText, ~Ended(activeCard) PROVE FALSE
    OBVIOUS
  <2>1. ~Unsent(activeCard)
    BY DEF Tied, TurnInOrder
  <2>2. PICK i \in DOMAIN up : Carries(i) /\ up[i].text = activeCard
    BY <2>1 DEF Unsent
  <2>3. i < 1
    BY <1>1, <2>2 DEF Tied, TextsInOrder
  <2> QED BY <2>2, <2>3, InParts DEF WiresTyped
<1>6. FramesInOrder'
  BY <1>3 DEF Tied, FramesInOrder
<1>7. PendingInOrder'
  BY <1>1, <1>3, <1>5 DEF Tied, PendingInOrder
<1>8. ~Ended(up[1].text)
  BY <1>2 DEF Ended, Silent, Says, OfATurn
<1>9. TurnInOrder'
  <2>1. serverTurn' \in {activeCard', pending'} /\ ~(Ended(serverTurn)') /\ Silent(serverTurn)'
    <3>1. PICK t : t = up[1].text
      OBVIOUS
    <3>2. Silent(t)' /\ ~(Ended(t)')
      BY <1>2, <1>3, <1>8, <3>1
    <3> QED BY <1>1, <1>2, <3>1, <3>2
  <2>2. \A t \in Texts : Spoke(t)' => Ended(t)'
    BY <1>3 DEF Tied, TurnInOrder, Texts, NoText
  <2>3. activeCard' # NoText => serverTurn' = activeCard' \/ Ended(activeCard)' \/ ~(Unsent(activeCard)')
    BY <1>1, <1>3, <1>4 DEF Tied, TurnInOrder
  <2> QED BY <2>1, <2>2, <2>3 DEF TurnInOrder
<1>10. TextsInOrder'
  BY <1>1, <1>3, <1>4 DEF Tied, TextsInOrder
<1>11. Resolved => Resolved'
  BY <1>1, <1>3, <1>4 DEF Resolved, Unsent
<1>12. AnswersInOrder'
  BY <1>11 DEF Tied, AnswersInOrder
<1>13. NumbersGrow'
  BY DEF Tied, NumbersGrow
<1> QED BY <1>6, <1>7, <1>9, <1>10, <1>12, <1>13 DEF Tied
\* The turn sends a frame: its first, a question, or its last.
LEMMA TurnSends ==
    ASSUME ViewTyped, Tied, NEW k \in OfATurn \ {"cancelled"}, Reply(k, serverTurn), serverTurn # NoText,
           UNCHANGED <<up, typed, activeCard, pending>>,
           \/ k = "status" /\ stage = "begun" /\ serverTurn' = serverTurn /\ stage' # "begun"
           \/ k = "consent" /\ stage # "begun" /\ serverTurn' = serverTurn /\ stage' # "begun"
           \/ k \in Terminals /\ stage # "begun" /\ serverTurn' = NoText /\ stage' = "begun"
    PROVE  Tied'
<1>1. PICK n : Longer(down, down', n, [kind |-> k, text |-> serverTurn])
  <2>1. [kind |-> k, text |-> serverTurn] \in ViewFrame
    BY InParts DEF ViewFrame, ScalarsTyped, OfATurn
  <2> QED BY <2>1, WiresMove, InParts
<1>2. /\ \A v : Silent(v)' <=> Silent(v) /\ v # serverTurn
      /\ \A v : Ended(v)' <=> Ended(v) \/ (k \in Terminals /\ v = serverTurn)
      /\ \A v : Spoke(v)' <=> Spoke(v) \/ (k = "status" /\ v = serverTurn)
      /\ \A i \in DOMAIN down' :
            \/ i \in DOMAIN down /\ down'[i] = down[i] /\ i < n /\ (Says(i)' <=> Says(i))
            \/ i = n /\ down'[i].kind = k /\ down'[i].text = serverTurn /\ Says(i)'
  BY <1>1, AfterFrame
<1>3. /\ serverTurn \in {activeCard, pending} /\ ~Ended(serverTurn)
      /\ stage = "begun" => Silent(serverTurn)
  BY DEF Tied, TurnInOrder
<1>4. serverTurn = activeCard => Silent(pending) \/ pending = NoText
  BY <1>3 DEF Tied, PendingInOrder
<1>5. \A i : Carries(i)' <=> Carries(i)
  BY DEF Carries
<1>6. \A t : Unsent(t)' <=> Unsent(t)
  BY <1>5 DEF Unsent
<1>7. ("status" \notin Terminals) /\ ("consent" \notin Terminals) /\ k \notin {"idle", "busy", "cancelled"}
  BY DEF Terminals, OfATurn
<1>8. pending # NoText => pending # activeCard
  BY DEF Tied, NumbersGrow
<1>9. FramesInOrder'
  <2>1. \A i \in DOMAIN down' : down'[i].kind # "idle"
    BY <1>2, <1>7 DEF Tied, FramesInOrder
  <2>2. \A i \in DOMAIN down' : Says(i)' => down'[i].text # NoText /\ down'[i].text \in {activeCard', pending'}
    BY <1>2, <1>3 DEF Tied, FramesInOrder
  <2>3. ASSUME NEW i \in DOMAIN down', NEW j \in DOMAIN down', Says(i)', Says(j)', down'[i].text = activeCard', down'[j].text = pending'
        PROVE  i < j
    <3>1. pending # NoText /\ activeCard # NoText /\ pending # activeCard
      BY <1>8, <2>2, <2>3
    <3>2. CASE j \in DOMAIN down /\ down'[j] = down[j] /\ j < n /\ Says(j)
      <4>1. ~Silent(pending)
        BY <2>3, <3>2 DEF Silent
      <4>2. serverTurn # activeCard
        BY <1>4, <3>1, <4>1
      <4>3. i \in DOMAIN down /\ down'[i] = down[i] /\ Says(i)
        BY <1>2, <2>3, <4>2
      <4> QED BY <2>3, <3>2, <4>3 DEF Tied, FramesInOrder
    <3>3. CASE j = n /\ serverTurn = pending
      BY <1>2, <2>3, <3>1, <3>3
    <3> QED BY <1>2, <2>3, <3>2, <3>3
  <2>4. ASSUME NEW i \in DOMAIN down', NEW j \in DOMAIN down', Says(i)', Says(j)', i # j, down'[i].text = down'[j].text
        PROVE  (down'[i].kind = "status" => i < j) /\ (down'[i].kind \in Terminals => j < i)
    <3>1. CASE i \in DOMAIN down /\ down'[i] = down[i] /\ i < n /\ Says(i)
      <4>1. CASE j \in DOMAIN down /\ down'[j] = down[j] /\ Says(j)
        BY <2>4, <3>1, <4>1 DEF Tied, FramesInOrder
      <4>2. CASE j = n /\ down'[j].text = serverTurn
        <5>1. down[i].kind \notin Terminals
          BY <1>3, <2>4, <3>1, <4>2 DEF Ended
        <5> QED BY <3>1, <4>2, <5>1
      <4> QED BY <1>2, <2>4, <4>1, <4>2
    <3>2. CASE i = n /\ down'[i].kind = k /\ down'[i].text = serverTurn
      <4>1. j \in DOMAIN down /\ j < n /\ down'[j] = down[j] /\ Says(j)
        BY <1>2, <2>4, <3>2
      <4>2. k # "status"
        BY <1>3, <2>4, <3>2, <4>1, <1>7 DEF Silent
      <4> QED BY <3>2, <4>1, <4>2
    <3> QED BY <1>2, <2>4, <3>1, <3>2
  <2> QED BY <2>1, <2>2, <2>3, <2>4 DEF FramesInOrder
<1>10. PendingInOrder'
  <2> SUFFICES ASSUME pending' # NoText
               PROVE  /\ ~(Silent(pending)') \/ serverTurn' = pending' => activeCard' = NoText \/ Ended(activeCard)'
                      /\ ~(Silent(pending)') => Spoke(pending)'
                      /\ serverTurn' = pending' => stage' = "begun" \/ Spoke(pending)'
    BY DEF PendingInOrder
  <2>1. ~Silent(pending) \/ serverTurn = pending => activeCard = NoText \/ Ended(activeCard)
    BY DEF Tied, PendingInOrder
  <2>2. ~(Silent(pending)') => ~Silent(pending) \/ serverTurn = pending
    BY <1>2
  <2>3. serverTurn = pending => Spoke(pending)'
    BY <1>2 DEF Tied, PendingInOrder
  <2>4. ~Silent(pending) => Spoke(pending)
    BY DEF Tied, PendingInOrder
  <2>5. Spoke(pending) => Spoke(pending)'
    BY <1>2
  <2>6. Ended(activeCard) => Ended(activeCard)'
    BY <1>2
  <2>7. serverTurn' = pending' => serverTurn = pending
    OBVIOUS
  <2> QED BY <2>1, <2>2, <2>3, <2>4, <2>5, <2>6, <2>7
<1>11. TurnInOrder'
  <2>1. serverTurn' # NoText => serverTurn' \in {activeCard', pending'} /\ ~(Ended(serverTurn)') /\ stage' # "begun"
    BY <1>2, <1>3, <1>7
  <2>2. \A t \in Texts : Spoke(t)' => serverTurn' = t \/ Ended(t)'
    BY <1>2 DEF Tied, TurnInOrder
  <2>3. activeCard' # NoText => serverTurn' = activeCard' \/ Ended(activeCard)' \/ ~(Unsent(activeCard)')
    BY <1>2, <1>6 DEF Tied, TurnInOrder
  <2> QED BY <2>1, <2>2, <2>3 DEF TurnInOrder
<1>12. TextsInOrder'
  <2>1. \A i \in DOMAIN up : Carries(i) => serverTurn' # up[i].text
    BY DEF Tied, TextsInOrder
  <2>2. \A i \in DOMAIN up : Carries(i) => Silent(up[i].text) /\ up[i].text # serverTurn
    BY DEF Tied, TextsInOrder
  <2>3. \A i \in DOMAIN up' : Carries(i)' => Silent(up[i].text)'
    BY <1>2, <1>5, <2>2
  <2> QED BY <1>5, <2>1, <2>3 DEF Tied, TextsInOrder
<1>13. Resolved => Resolved'
  BY <1>2, <1>6 DEF Resolved
<1>14. AnswersInOrder'
  BY <1>2, <1>7, <1>13 DEF Tied, AnswersInOrder
<1>15. NumbersGrow'
  BY DEF Tied, NumbersGrow
<1> QED BY <1>9, <1>10, <1>11, <1>12, <1>14, <1>15 DEF Tied

\* The connection is lost: nothing is on its way and nothing runs.
LEMMA NothingIsLeft ==
    ASSUME ViewTyped, Tied, Drop
    PROVE  Tied'
<1>1. DOMAIN up' = {} /\ DOMAIN down' = {} /\ serverTurn' = NoText /\ activeCard' = NoText /\ pending' = pending /\ typed' = typed
  BY DEF Drop
<1>2. \A t : Silent(t)' /\ Unsent(t)' /\ ~(Spoke(t)') /\ ~(Ended(t)')
  BY <1>1 DEF Silent, Unsent, Spoke, Ended
<1>3. FramesInOrder' /\ TextsInOrder' /\ AnswersInOrder'
  BY <1>1 DEF FramesInOrder, TextsInOrder, AnswersInOrder
<1>4. PendingInOrder'
  BY <1>1, <1>2 DEF PendingInOrder
<1>5. TurnInOrder'
  BY <1>1, <1>2 DEF TurnInOrder
<1>6. NumbersGrow'
  BY <1>1, InParts, TurnViewAssumption DEF Tied, NumbersGrow, ScalarsTyped, NoText
<1> QED BY <1>3, <1>4, <1>5, <1>6 DEF Tied

\* Nothing but answers to questions, and how far the turn is.
LEMMA OnlyAnswers ==
    ASSUME ViewTyped, Tied, UNCHANGED <<down, serverTurn, typed, activeCard, pending>>, stage = "begun" <=> stage' = "begun",
           \/ up' = up
           \/ Send("answer", NoText)
           \/ Reads("answer")
    PROVE  Tied'
<1>1. /\ \A t : Silent(t)' <=> Silent(t)
      /\ \A t : Ended(t)' <=> Ended(t)
      /\ \A t : Spoke(t)' <=> Spoke(t)
      /\ \A i : Says(i)' <=> Says(i)
  BY DEF Silent, Ended, Spoke, Says
<1>2. FramesInOrder'
  BY <1>1 DEF Tied, FramesInOrder
<1>3. PendingInOrder'
  BY <1>1 DEF Tied, PendingInOrder
<1>4. ASSUME \A t : Unsent(t)' <=> Unsent(t), TextsInOrder' PROVE Tied'
  <2>1. TurnInOrder'
    BY <1>1, <1>4 DEF Tied, TurnInOrder
  <2>2. Resolved => Resolved'
    BY <1>1, <1>4 DEF Resolved
  <2>3. AnswersInOrder'
    BY <2>2 DEF Tied, AnswersInOrder
  <2>4. NumbersGrow'
    BY DEF Tied, NumbersGrow
  <2> QED BY <1>2, <1>3, <1>4, <2>1, <2>3, <2>4 DEF Tied
<1>5. CASE up' = up
  <2>1. \A i : Carries(i)' <=> Carries(i)
    BY <1>5 DEF Carries
  <2>2. \A t : Unsent(t)' <=> Unsent(t)
    BY <1>5, <2>1 DEF Unsent
  <2>3. TextsInOrder'
    BY <1>1, <1>5, <2>1 DEF Tied, TextsInOrder
  <2> QED BY <1>4, <2>2, <2>3
<1>6. CASE Send("answer", NoText)
  <2>1. [kind |-> "answer", text |-> NoText] \in Message
    BY DEF Message
  <2>2. PICK n : Longer(up, up', n, [kind |-> "answer", text |-> NoText])
    BY <1>6, <2>1, WiresMove, InParts
  <2>3. \A i \in DOMAIN up' : \/ i \in DOMAIN up /\ up'[i] = up[i] /\ (Carries(i)' <=> Carries(i))
                              \/ up'[i].kind = "answer" /\ ~(Carries(i)')
    BY <2>2 DEF Longer, Carries
  <2>4. \A i \in DOMAIN up : i \in DOMAIN up' /\ up'[i] = up[i] /\ (Carries(i)' <=> Carries(i))
    BY <2>2 DEF Longer, Carries
  <2>5. \A t : Unsent(t)' <=> Unsent(t)
    BY <2>3, <2>4 DEF Unsent
  <2>6. TextsInOrder'
    BY <1>1, <2>3 DEF Tied, TextsInOrder
  <2> QED BY <1>4, <2>5, <2>6
<1>7. CASE Reads("answer")
  <2>1. Shorter(up, up') /\ up[1].kind = "answer" /\ ~Carries(1)
    BY <1>7, WiresMove, InParts DEF Carries
  <2>2. /\ \A t : Unsent(t) <=> Unsent(t)'
        /\ \A i \in DOMAIN up' : i \in Nat /\ i + 1 \in DOMAIN up /\ up'[i] = up[i + 1] /\ i + 1 # 1 /\ (Carries(i)' <=> Carries(i + 1))
    BY <2>1, AfterReading
  <2>3. TextsInOrder'
    BY <1>1, <2>2 DEF Tied, TextsInOrder
  <2> QED BY <1>4, <2>2, <2>3
<1> QED BY <1>5, <1>6, <1>7
\* Frames, texts and turns stay tied, and what is shown is the active card's own.
LEMMA TiedStays ==
    ASSUME ViewTyped, RunsWithACard, Tied, ShowsItsOwn, ViewNext, ~crossed', ~stopped'
    PROVE  Tied' /\ ShowsItsOwn'
<1>0. ~crossed /\ ~stopped /\ \A pair \in landed : pair[1] = pair[2]
  BY HistoryGrows DEF ShowsItsOwn
<1>r. (activeCard # NoText => running) /\ (running => activeCard # NoText) /\ (typed < MaxTexts => typed + 1 \in Texts)
      /\ crossed \in BOOLEAN /\ running \in BOOLEAN
  BY InParts, TurnViewAssumption DEF RunsWithACard, ScalarsTyped, Texts
<1>l. ASSUME NEW c, Lands(c), Head(down).text = c PROVE ShowsItsOwn'
  BY <1>0, <1>l DEF Lands, ShowsItsOwn
<1>u. landed' = landed => ShowsItsOwn'
  BY <1>0 DEF ShowsItsOwn
<1>1. CASE SendMessage
  <2>1. pending = NoText /\ activeCard = NoText
    BY <1>1, <1>r DEF SendMessage
  <2>2. Tied'
    BY <1>1, <1>r, <2>1, TextIsSent DEF SendMessage, serverVars
  <2> QED BY <1>1, <1>u, <2>2 DEF SendMessage
<1>2. CASE Interrupt
  <2>1. pending = NoText /\ activeCard # NoText
    BY <1>2, <1>r DEF Interrupt
  <2>2. PICK k \in {"message", "stopword"} : Send(k, typed + 1)
    BY <1>2 DEF Interrupt
  <2>3. Tied'
    BY <1>2, <1>r, <2>1, <2>2, TextIsSent DEF Interrupt, serverVars
  <2> QED BY <1>2, <1>u, <2>3 DEF Interrupt
<1>3. CASE Stop
  BY <1>3 DEF Stop
<1>4. CASE AnswerConsent
  <2>1. Tied'
    BY <1>4, OnlyAnswers DEF AnswerConsent, serverVars
  <2> QED BY <1>4, <1>u, <2>1 DEF AnswerConsent, historyVars
<1>5. ASSUME NEW t \in Texts, ApprovePlan(t) PROVE Tied' /\ ShowsItsOwn'
  <2>1. pending = NoText /\ activeCard = NoText
    BY <1>5, <1>r DEF ApprovePlan
  <2>2. Tied'
    BY <1>5, <1>r, <2>1, TextIsSent DEF ApprovePlan, serverVars
  <2> QED BY <1>5, <1>u, <2>2 DEF ApprovePlan
<1>6. ASSUME NEW t \in Texts, RejectPlan(t) PROVE Tied' /\ ShowsItsOwn'
  <2>1. Tied'
    BY <1>6, OnlyAnswers DEF RejectPlan, serverVars
  <2> QED BY <1>6, <1>u, <2>1 DEF RejectPlan, historyVars
<1>7. CASE SeeBusy
  <2>1. Tied'
    BY <1>7, RefusalIsSeen DEF SeeBusy, serverVars
  <2> QED BY <1>7, <1>u, <2>1 DEF SeeBusy, historyVars
<1>8. CASE SeeStatus
  <2>1. Frame("status")
    <3>1. CASE Frame("idle")
      <4>1. 1 \in DOMAIN down /\ down[1].kind = "idle"
        BY <3>1, WiresMove, InParts DEF Shorter
      <4> QED BY <4>1 DEF Tied, FramesInOrder
    <3> QED BY <1>8, <3>1 DEF SeeStatus
  <2>2. /\ activeCard # NoText => Head(down).text = activeCard
        /\ activeCard = NoText => Head(down).text = pending /\ pending # NoText
    BY <2>1, HeadIsOwn DEF OfATurn
  <2>3. CASE activeCard # NoText
    <3>1. Tied'
      BY <1>8, <2>1, <2>3, FrameIsSeen DEF SeeStatus, serverVars
    <3>2. Lands(activeCard)
      BY <1>8, <2>3 DEF SeeStatus
    <3> QED BY <1>l, <2>2, <2>3, <3>1, <3>2
  <2>4. CASE activeCard = NoText
    <3>1. Tied'
      BY <1>8, <2>1, <2>2, <2>4, PendingRuns DEF SeeStatus, serverVars
    <3>2. Lands(pending)
      BY <1>8, <2>2, <2>4 DEF SeeStatus
    <3> QED BY <1>l, <2>2, <2>4, <3>1, <3>2
  <2> QED BY <2>3, <2>4
<1>9. CASE SeeConsent
  <2>1. Frame("consent") /\ "consent" \in OfATurn /\ "consent" # "status"
    BY <1>9 DEF SeeConsent, OfATurn
  <2>2. activeCard # NoText /\ Head(down).text = activeCard
    BY <2>1, HeadIsOwn
  <2>3. Tied'
    BY <1>9, <2>1, <2>2, FrameIsSeen DEF SeeConsent, serverVars
  <2>4. Lands(activeCard)
    BY <1>9, <2>2 DEF SeeConsent
  <2> QED BY <1>l, <2>2, <2>3, <2>4
<1>10. ASSUME NEW k \in Terminals, SeeTerminal(k) PROVE Tied' /\ ShowsItsOwn'
  <2>1. Frame(k) /\ k \in OfATurn /\ k # "status"
    BY <1>10 DEF SeeTerminal, OfATurn, Terminals
  <2>2. activeCard # NoText /\ Head(down).text = activeCard
    BY <2>1, HeadIsOwn
  <2>3. Tied'
    BY <1>10, <2>1, <2>2, EndIsSeen DEF SeeTerminal, serverVars
  <2>4. Lands(activeCard)
    BY <1>10, <2>2 DEF SeeTerminal
  <2> QED BY <1>l, <2>2, <2>3, <2>4
<1>11. ASSUME NEW k \in {"message", "stopword", "approval"}, ReadMessage(k) PROVE Tied' /\ ShowsItsOwn'
  <2>1. Reads(k) /\ UNCHANGED clientVars /\ landed' = landed
    BY <1>11 DEF ReadMessage
  <2>2. UNCHANGED <<typed, activeCard, pending>>
    BY <2>1 DEF clientVars
  <2>3. CASE serverTurn # NoText
    <3>1. (Reply("busy", NoText) /\ UNCHANGED <<serverTurn, stage>>) \/ EndByCancel
      BY <1>11, <2>3 DEF ReadMessage, Refuse
    <3> QED BY <1>u, <2>1, <2>2, <2>3, <3>1, TextIsAnswered
  <2>4. CASE serverTurn = NoText
    <3>1. UNCHANGED down /\ serverTurn' = Head(up).text /\ stage' = "begun"
      BY <1>11, <2>4 DEF ReadMessage
    <3> QED BY <1>u, <2>1, <2>2, <2>4, <3>1, CarriedBegins
  <2> QED BY <2>3, <2>4
<1>12. CASE ReadCancel
  <2>1. 1 \in DOMAIN up /\ up[1].kind = "cancel"
    BY <1>12, WiresMove, InParts DEF ReadCancel, Shorter
  <2> QED BY <2>1 DEF Tied, TextsInOrder
<1>13. CASE ReadAnswer
  <2>1. Tied'
    BY <1>13, OnlyAnswers DEF ReadAnswer, clientVars
  <2> QED BY <1>13, <1>u, <2>1 DEF ReadAnswer, historyVars
<1>14. CASE TurnSpeaks
  <2>1. Tied'
    BY <1>14, TurnSends DEF TurnSpeaks, clientVars, OfATurn
  <2> QED BY <1>14, <1>u, <2>1 DEF TurnSpeaks, historyVars
<1>15. CASE TurnAsks
  <2>1. Tied'
    BY <1>15, TurnSends DEF TurnAsks, clientVars, OfATurn
  <2> QED BY <1>15, <1>u, <2>1 DEF TurnAsks, historyVars
<1>16. ASSUME NEW k \in Terminals \ {"cancelled"}, TurnEnds(k) PROVE Tied' /\ ShowsItsOwn'
  <2>1. k \in OfATurn \ {"cancelled"}
    BY DEF OfATurn
  <2>2. Tied'
    BY <1>16, <2>1, TurnSends DEF TurnEnds, clientVars
  <2> QED BY <1>16, <1>u, <2>2 DEF TurnEnds, historyVars
<1>17. CASE AskTimesOut \/ OtherTurn
  <2>1. Tied'
    BY <1>17, OnlyAnswers DEF AskTimesOut, OtherTurn, clientVars
  <2> QED BY <1>17, <1>u, <2>1 DEF AskTimesOut, OtherTurn, historyVars
<1>18. CASE Drop
  <2>1. Tied'
    BY <1>18, NothingIsLeft
  <2> QED BY <1>18, <1>u, <2>1 DEF Drop
<1> QED BY <1>1, <1>2, <1>3, <1>4, <1>5, <1>6, <1>7, <1>8, <1>9, <1>10, <1>11, <1>12, <1>13, <1>14, <1>15, <1>16, <1>17, <1>18 DEF ViewNext

LEMMA ViewInitHolds == ViewInit => ViewInv
<1> SUFFICES ASSUME ViewInit PROVE ViewInv
  OBVIOUS
<1>1. ViewTyped
  BY ViewInitTyped
<1>2. DOMAIN up = {} /\ DOMAIN down = {}
  BY DEF ViewInit
<1>3. RunsWithACard
  BY DEF ViewInit, RunsWithACard
<1>4. CardsEnd
  BY <1>2 DEF ViewInit, CardsEnd
<1>5. ShowsItsOwn
  BY DEF ViewInit, ShowsItsOwn
<1>6. \A t : ~Spoke(t)
  BY <1>2 DEF Spoke
<1>7. TurnInOrder
  BY <1>6 DEF ViewInit, TurnInOrder
<1>8. FramesInOrder /\ TextsInOrder /\ AnswersInOrder
  BY <1>2 DEF FramesInOrder, TextsInOrder, AnswersInOrder
<1>9. PendingInOrder
  BY DEF ViewInit, PendingInOrder
<1>10. NumbersGrow
  BY DEF ViewInit, NumbersGrow, NoText
<1> QED BY <1>1, <1>3, <1>4, <1>5, <1>7, <1>8, <1>9, <1>10 DEF ViewInv, Tied

LEMMA ViewNextHolds == ViewInv /\ [ViewNext]_viewVars => ViewInv'
<1> SUFFICES ASSUME ViewInv, [ViewNext]_viewVars PROVE ViewInv'
  OBVIOUS
<1>1. ViewTyped /\ RunsWithACard /\ CardsEnd /\ ShowsItsOwn /\ (~crossed /\ ~stopped => Tied)
  BY DEF ViewInv
<1>2. ViewTyped'
  <2>1. ScalarsTyped' /\ WiresTyped'
    BY <1>1, ScalarsStayTyped, WiresStayTyped
  <2>2. WiresTyped' => /\ \A i \in 1..Len(up') : up'[i].kind \in {"message", "stopword", "cancel", "answer", "approval"}
                       /\ \A i \in 1..Len(down') : down'[i].kind \in {"status", "consent", "busy", "idle"} \cup Terminals
    <3>1. ASSUME up' \in Seq(Message), NEW i \in 1..Len(up') PROVE up'[i] \in Message
      BY <3>1
    <3>2. ASSUME down' \in Seq(ViewFrame), NEW i \in 1..Len(down') PROVE down'[i] \in ViewFrame
      BY <3>2
    <3> QED BY <3>1, <3>2 DEF Message, ViewFrame, WiresTyped
  <2> QED BY <2>1, <2>2 DEF ViewTyped, ViewTypeOK, ScalarsTyped, WiresTyped
<1>3. RunsWithACard' /\ CardsEnd'
  BY <1>1, RunsStays, EndsStay
<1>4. CASE ViewNext
  <2>1. ASSUME ~crossed', ~stopped' PROVE Tied' /\ ShowsItsOwn'
    <3>1. ~crossed /\ ~stopped
      BY <1>1, <1>4, <2>1, HistoryGrows
    <3> QED BY <1>1, <1>4, <2>1, <3>1, TiedStays
  <2> QED BY <1>2, <1>3, <2>1 DEF ViewInv, ShowsItsOwn
<1>5. CASE UNCHANGED viewVars
  <2>1. ShowsItsOwn'
    BY <1>1, <1>5 DEF ShowsItsOwn, viewVars, historyVars
  <2>2. UNCHANGED <<crossed, stopped, down, up, serverTurn, stage, typed, activeCard, pending>>
    BY <1>5 DEF viewVars, clientVars, serverVars, historyVars
  <2>3. Tied => Tied'
    BY <1>1, <2>2, OnlyAnswers
  <2> QED BY <1>1, <1>2, <1>3, <2>1, <2>2, <2>3 DEF ViewInv
<1> QED BY <1>4, <1>5

\* The strengthening holds in every reachable state.
THEOREM ViewInvariance == ViewSpec => []ViewInv
BY ViewInitHolds, ViewNextHolds, PTL DEF ViewSpec

\* For any messages, drops and turns of another window: a card shows the frames of its own turn, and
\* none is left running, while what is begun does not overlap what is unresolved.
THEOREM CardsTell == ViewSpec => []CardsHold
<1>1. ViewInv => CardsHold
  <2> SUFFICES ASSUME ViewInv PROVE CardsHold
    OBVIOUS
  <2>1. QuietMeansSettled
    <3> SUFFICES ASSUME up = <<>>, down = <<>>, serverTurn = NoText, ~crossed
                 PROVE  ~running /\ activeCard = NoText /\ \A t \in Texts : card[t] # "running"
      BY DEF QuietMeansSettled, Quiet
    <3>1. DOMAIN up = {} /\ DOMAIN down = {}
      OBVIOUS
    <3>2. activeCard = NoText
      BY <3>1 DEF ViewInv, CardsEnd, EndIsAhead
    <3>3. ~running /\ \A t \in Texts : card[t] = "running" => t = NoText
      BY <3>2 DEF ViewInv, RunsWithACard
    <3> QED BY <3>2, <3>3 DEF Texts, NoText
  <2> QED BY <2>1 DEF ViewInv, CardsHold
<1> QED BY <1>1, ViewInvariance, PTL

\* Types: of the cards, the wires and the turn.
THEOREM CardsTyped == ViewSpec => []ViewTypeOK
<1>1. ViewInv => ViewTypeOK
  BY DEF ViewInv, ViewTyped
<1> QED BY <1>1, ViewInvariance, PTL

-----------------------------------------------------------------------------
(* Beside one another, as they are checked together.                        *)

\* Each keeps its own specification, whichever part runs.
LEMMA EachKeepsItsSpec ==
  MCSpec => /\ ViewSpec /\ TabSpec /\ SupSpec /\ ReleaseSpec /\ EncSpec
            /\ GatesSpec /\ LimitsSpec /\ CacheSpec /\ ReuseSpec
<1>1. MCInit => /\ ViewInit /\ TabInit /\ SupInit /\ ReleaseInit /\ EncInit
                /\ GatesInit /\ LimitsInit /\ CacheInit /\ ReuseInit
  BY DEF MCInit
<1>2. ASSUME [MCNext]_<<viewVars, tabVars, supervisionVars, releaseVars, encVars, gateVars, limitVars, cacheVars, reuseVars, part>>
      PROVE  /\ [ViewNext]_viewVars /\ [TabNext]_tabVars /\ [SupNext]_supervisionVars
             /\ [ReleaseNext]_releaseVars /\ [EncNext]_encVars
             /\ [GatesNext]_gateVars /\ [LimitsNext]_limitVars /\ [CacheNext]_cacheVars /\ [ReuseNext]_reuseVars
  BY <1>2 DEF MCNext
<1> QED BY <1>1, <1>2, PTL
    DEF MCSpec, ViewSpec, TabSpec, SupSpec, ReleaseSpec, EncSpec, GatesSpec, LimitsSpec, CacheSpec, ReuseSpec

\* What is looked up instead of asked for: vectors of the encoder that is wanted, solutions of a
\* question near to this one, and what was kept of these tables.
THEOREM WhatIsLookedUpFits == MCSpec => []LookupsHold
<1>1. EncoderHolds /\ SolutionsHold /\ ReuseHolds => LookupsHold
  BY DEF LookupsHold
<1> QED BY <1>1, EachKeepsItsSpec, EncoderIsTheOneWanted, WhatIsReplayedFits, WhatIsReusedFits, PTL

\* The browser and its way in: the cards of a tab tell of their own turns, its socket follows the
\* session that it has adopted, and its address has no more slots and requests than its ceilings.
THEOREM TheWayIn == MCSpec => []WayInHolds
<1>1. CardsHold /\ SocketFollowsStore /\ SlotsAreSockets /\ SocketCeiling /\ LimitsHold => WayInHolds
  BY DEF WayInHolds
<1> QED BY <1>1, EachKeepsItsSpec, CardsTell, TheSocketFollows, SlotsCounted, AddressesAreBounded, CeilingsAreKept, PTL

\* What the run checks of types, for any of its constants: each of the parts keeps its own.
THEOREM EdgesTyped == MCSpec => []EdgeTypesHold
<1>1. /\ ViewTypeOK /\ TabTypeOK /\ SupTypeOK /\ ReleaseTypeOK /\ EncTypeOK
      /\ GatesTypeOK /\ LimitsTypeOK /\ CacheTypeOK /\ ReuseTypeOK
      => EdgeTypesHold
  BY DEF EdgeTypesHold
<1>2. GatesInv => GatesTypeOK
  <2> SUFFICES ASSUME GatesInv PROVE GatesTypeOK
    OBVIOUS
  <2>1. PerKey \in Nat /\ slots \in [Callers -> Nat] /\ \A k \in Callers : slots[k] <= PerKey
    BY GatesAssumption DEF GatesInv, SocketsTyped, UnderCeilings
  <2>2. slots \in [Callers -> 0..PerKey]
    BY <2>1
  <2> QED BY <2>2 DEF GatesInv, SocketsTyped, GatesTypeOK
<1>3. GatesSpec => []GatesTypeOK
  BY <1>2, GatesInitHolds, GatesNextHolds, PTL DEF GatesSpec
<1> QED BY <1>1, <1>3, EachKeepsItsSpec, CardsTyped, TabTyped, SupervisionTyped, ReleaseTyped, EncoderTyped,
           LimitsTyped, CacheIsTyped, ReuseIsTyped, PTL
=============================================================================
