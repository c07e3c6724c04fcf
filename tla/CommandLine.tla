---------------------------- MODULE CommandLine ----------------------------
(***************************************************************************)
(* The command line (cli/internal).  First what runs: `wizard start` and   *)
(* `wizard stop` (commands) beside the supervisor the first one leaves     *)
(* behind (daemon): separate processes that know each other by pid files   *)
(* and a stop sentinel.  Commands are given one after the other; each      *)
(* supervisor and each child runs on its own, and can be killed.           *)
(***************************************************************************)
EXTENDS Integers, FiniteSets

CONSTANTS
    MaxStarts,    \* bound: supervisors started
    MaxRestarts,  \* Config.MaxRestarts
    MaxKills      \* bound: supervisors killed from outside

ASSUME SupervisionAssumption == MaxStarts \in Nat \ {0} /\ MaxRestarts \in Nat /\ MaxKills \in Nat

Labels == {"backend", "frontend"}

StartIds == 1..MaxStarts

\* A child process: whose it is, what it runs and which restart it came from.
Processes == StartIds \X Labels \X (0..MaxRestarts)

NoFile == <<0, "backend", 0>>  \* no file

VARIABLES
    sup,        \* each supervisor: where it is, and the restarts of its children
    alive,      \* the child processes that run
    pidfile,    \* backend.pid and frontend.pid
    daemonpid,  \* daemon.pid; 0 when there is no file
    sentinel,   \* stop-requested: 0, or the start that was the latest when it was written
    crashed,    \* the crashed marker
    command,    \* where the command in the terminal is
    started, kills

supervisionVars == <<sup, alive, pidfile, daemonpid, sentinel, crashed, command, started, kills>>

SupTypeOK ==
    /\ sup \in [StartIds -> [pc : {"none", "boot", "second", "loop", "pause", "cleaning", "exiting", "ended", "killed"},
                           lost : Labels, restarts : [Labels -> 0..MaxRestarts]]]
    /\ alive \subseteq Processes
    /\ \A l \in Labels : pidfile[l] = NoFile \/ pidfile[l] \in Processes
    /\ daemonpid \in 0..MaxStarts /\ sentinel \in 0..MaxStarts
    /\ crashed \in BOOLEAN
    /\ command \in {"idle", "record", "waiting", "ask", "asked", "stop", "stopping",
                    "kill backend", "kill frontend", "kill daemon", "remove"}
    /\ started \in 0..MaxStarts /\ kills \in 0..MaxKills

SupInit ==
    /\ sup = [s \in StartIds |-> [pc |-> "none", lost |-> "backend", restarts |-> [l \in Labels |-> 0]]]
    /\ alive = {}
    /\ pidfile = [l \in Labels |-> NoFile]
    /\ daemonpid = 0 /\ sentinel = 0 /\ crashed = FALSE
    /\ command = "idle" /\ started = 0 /\ kills = 0

Lives(s) == sup[s].pc \notin {"none", "ended", "killed"}

\* LiveAt(daemon.pid): the identity beside the pid tells a recycled one apart.
DaemonLives == daemonpid # 0 /\ Lives(daemonpid)

OtherLabel(l) == IF l = "backend" THEN "frontend" ELSE "backend"

Child(s, l) == <<s, l, sup[s].restarts[l]>>
-----------------------------------------------------------------------------
(* The supervisor.                                                          *)

\* managed.start: the process runs and is recorded, or neither.
StartedChild(s, l) ==
    /\ alive' = alive \cup {Child(s, l)}
    /\ pidfile' = [pidfile EXCEPT ![l] = Child(s, l)]

\* It cannot be started, or is stopped because its pid could not be written.
FailedChild(l) ==
    /\ \/ UNCHANGED pidfile
       \/ pidfile' = [pidfile EXCEPT ![l] = NoFile]
    /\ UNCHANGED alive

Moves(s, where) == sup' = [sup EXCEPT ![s].pc = where]

\* Run: the backend first.
Boot(s) ==
    /\ sup[s].pc = "boot"
    /\ crashed' = FALSE
    /\ \/ StartedChild(s, "backend") /\ Moves(s, "second")
       \/ FailedChild("backend") /\ Moves(s, "ended")
    /\ UNCHANGED <<daemonpid, sentinel, command, started, kills>>

\* Then the frontend; without it the backend is stopped, the files are left.
BootFrontend(s) ==
    /\ sup[s].pc = "second"
    /\ \/ StartedChild(s, "frontend") /\ Moves(s, "loop")
       \/ /\ alive' = alive \ {Child(s, "backend")}
          /\ \E file \in {NoFile, pidfile["frontend"]} : pidfile' = [pidfile EXCEPT !["frontend"] = file]
          /\ Moves(s, "ended")
    /\ UNCHANGED <<daemonpid, sentinel, crashed, command, started, kills>>

\* giveUp: the crashed marker, and the other child is stopped.
GiveUp(s, l) ==
    /\ crashed' = TRUE
    /\ alive' = alive \ {Child(s, l), Child(s, OtherLabel(l))}
    /\ Moves(s, "cleaning")
    /\ UNCHANGED pidfile

\* Faulty variant: one restart too many.
RestartsLeftOffByOne(s, l) == sup[s].restarts[l] <= MaxRestarts

RestartsLeft(s, l) == sup[s].restarts[l] < MaxRestarts

\* A child exited, or missed its health checks and is terminated: another one
\* after a pause, as long as restarts are left.
Lose(s, l) ==
    /\ sup[s].pc = "loop"
    /\ IF RestartsLeft(s, l)
       THEN /\ alive' = alive \ {Child(s, l)}
            /\ sup' = [sup EXCEPT ![s] = [pc |-> "pause", lost |-> l,
                                          restarts |-> [sup[s].restarts EXCEPT ![l] = sup[s].restarts[l] + 1]]]
            /\ UNCHANGED <<crashed, pidfile>>
       ELSE GiveUp(s, l)
    /\ UNCHANGED <<daemonpid, sentinel, command, started, kills>>

\* The pause is over.
StartAgain(s) ==
    /\ sup[s].pc = "pause"
    /\ \/ StartedChild(s, sup[s].lost) /\ Moves(s, "loop") /\ UNCHANGED crashed
       \/ GiveUp(s, sup[s].lost)
    /\ UNCHANGED <<daemonpid, sentinel, command, started, kills>>

\* A tick that finds the sentinel.
HeedStop(s) ==
    /\ sup[s].pc = "loop" /\ sentinel # 0
    /\ alive' = alive \ {Child(s, l) : l \in Labels}
    /\ Moves(s, "cleaning")
    /\ UNCHANGED <<pidfile, daemonpid, sentinel, crashed, command, started, kills>>

\* cleanupAll, up to daemon.pid.
CleanUp(s) ==
    /\ sup[s].pc = "cleaning"
    /\ pidfile' = [l \in Labels |-> NoFile]
    /\ sentinel' = 0
    /\ Moves(s, "exiting")
    /\ UNCHANGED <<alive, daemonpid, crashed, command, started, kills>>

\* daemon.pid goes, and the supervisor with it.
ExitSupervisor(s) ==
    /\ sup[s].pc = "exiting"
    /\ daemonpid' = 0
    /\ Moves(s, "ended")
    /\ UNCHANGED <<alive, pidfile, sentinel, crashed, command, started, kills>>

\* Killed from outside, which its children survive.
KillSupervisor(s) ==
    /\ Lives(s) /\ kills < MaxKills
    /\ Moves(s, "killed")
    /\ kills' = kills + 1
    /\ UNCHANGED <<alive, pidfile, daemonpid, sentinel, crashed, command, started>>

ChildDies(p) ==
    /\ p \in alive
    /\ alive' = alive \ {p}
    /\ UNCHANGED <<sup, pidfile, daemonpid, sentinel, crashed, command, started, kills>>
-----------------------------------------------------------------------------
(* The commands.                                                            *)

Terminal(where) == command' = where

\* RunStart: not beside a daemon that runs; the supervisor is detached.
Start ==
    /\ command = "idle" /\ started < MaxStarts /\ ~DaemonLives
    /\ started' = started + 1
    /\ sup' = [sup EXCEPT ![started + 1].pc = "boot"]
    /\ Terminal("record")
    /\ UNCHANGED <<alive, pidfile, daemonpid, sentinel, crashed, kills>>

\* Its pid is written; a supervisor that cannot be recorded is killed.
Record ==
    /\ command = "record"
    /\ \/ daemonpid' = started /\ Terminal("waiting") /\ UNCHANGED sup
       \/ /\ sup' = [sup EXCEPT ![started].pc = IF Lives(started) THEN "killed" ELSE @]
          /\ Terminal("idle")
          /\ UNCHANGED daemonpid
    /\ UNCHANGED <<alive, pidfile, sentinel, crashed, started, kills>>

\* The backend answers; or it does not in time, or with another API version.
Healthy ==
    /\ command = "waiting"
    /\ \E p \in alive : p[2] = "backend"
    /\ Terminal("idle")
    /\ UNCHANGED <<sup, alive, pidfile, daemonpid, sentinel, crashed, started, kills>>

GiveUpStart ==
    /\ command = "waiting"
    /\ Terminal("ask")
    /\ UNCHANGED <<sup, alive, pidfile, daemonpid, sentinel, crashed, started, kills>>

\* requestStop: the sentinel, then a look at the daemon.
RequestStop ==
    /\ command = "ask"
    /\ sentinel' = started
    /\ Terminal(IF DaemonLives THEN "asked" ELSE "idle")
    /\ UNCHANGED <<sup, alive, pidfile, daemonpid, crashed, started, kills>>

RequestHeeded ==
    /\ command = "asked" /\ ~DaemonLives
    /\ Terminal("idle")
    /\ UNCHANGED <<sup, alive, pidfile, daemonpid, sentinel, crashed, started, kills>>

\* Five seconds on the sentinel is taken back.
RequestTimesOut ==
    /\ command = "asked"
    /\ sentinel' = 0
    /\ Terminal("idle")
    /\ UNCHANGED <<sup, alive, pidfile, daemonpid, crashed, started, kills>>

\* RunStop with no daemon: what a previous run may have left is removed.
StopIdle ==
    /\ command = "idle" /\ ~DaemonLives
    /\ sentinel' = 0 /\ daemonpid' = 0
    /\ pidfile' = [l \in Labels |-> NoFile]
    /\ UNCHANGED <<sup, alive, crashed, command, started, kills>>

RunStop ==
    /\ command = "idle" /\ DaemonLives
    /\ Terminal("stop")
    /\ UNCHANGED <<sup, alive, pidfile, daemonpid, sentinel, crashed, started, kills>>

StopAsks ==
    /\ command = "stop"
    /\ sentinel' = started
    /\ Terminal("stopping")
    /\ UNCHANGED <<sup, alive, pidfile, daemonpid, crashed, started, kills>>

Stopped ==
    /\ command = "stopping" /\ ~DaemonLives
    /\ Terminal("idle")
    /\ UNCHANGED <<sup, alive, pidfile, daemonpid, sentinel, crashed, started, kills>>

\* Twenty seconds on: forceKill, one pid file after the other.
StopTimesOut ==
    /\ command = "stopping"
    /\ Terminal("kill backend")
    /\ UNCHANGED <<sup, alive, pidfile, daemonpid, sentinel, crashed, started, kills>>

KillRecorded(l, here, next) ==
    /\ command = here
    /\ alive' = alive \ {pidfile[l]}
    /\ Terminal(next)
    /\ UNCHANGED <<sup, pidfile, daemonpid, sentinel, crashed, started, kills>>

KillDaemon ==
    /\ command = "kill daemon"
    /\ sup' = [s \in StartIds |-> IF s = daemonpid /\ Lives(s) THEN [sup[s] EXCEPT !.pc = "killed"] ELSE sup[s]]
    /\ Terminal("remove")
    /\ UNCHANGED <<alive, pidfile, daemonpid, sentinel, crashed, started, kills>>

RemoveFiles ==
    /\ command = "remove"
    /\ pidfile' = [l \in Labels |-> NoFile]
    /\ daemonpid' = 0 /\ sentinel' = 0
    /\ Terminal("idle")
    /\ UNCHANGED <<sup, alive, crashed, started, kills>>

Supervise(s) ==
    \/ Boot(s) \/ BootFrontend(s) \/ StartAgain(s) \/ HeedStop(s) \/ CleanUp(s) \/ ExitSupervisor(s)
    \/ \E l \in Labels : Lose(s, l)

Command ==
    \/ Record \/ Healthy \/ GiveUpStart \/ RequestStop \/ RequestHeeded \/ RequestTimesOut
    \/ StopAsks \/ Stopped \/ StopTimesOut
    \/ KillRecorded("backend", "kill backend", "kill frontend")
    \/ KillRecorded("frontend", "kill frontend", "kill daemon")
    \/ KillDaemon \/ RemoveFiles

SupNext ==
    \/ \E s \in StartIds : Supervise(s) \/ KillSupervisor(s)
    \/ \E p \in alive : ChildDies(p)
    \/ Start \/ RunStop \/ StopIdle \/ Command

SupSpec == SupInit /\ [][SupNext]_supervisionVars
-----------------------------------------------------------------------------
(* Properties.                                                              *)

\* However it ends by itself, a supervisor leaves no child of its own running.
LeavesNothingBehind ==
    \A s \in StartIds : sup[s].pc = "ended" => \A p \in alive : p[1] # s

\* There is one supervisor at a time, whatever was killed, forced or not
\* recorded before, and when no command is under way daemon.pid names it.
OneSupervisor ==
    \A s \in StartIds : Lives(s) =>
        /\ \A t \in StartIds : Lives(t) => t = s
        /\ command = "record" \/ daemonpid = s

\* A stop request is for the daemon that was there when it was made.
\* commands/start.go:161-165 leaves none behind, so that it does not shut the
\* next start down at its first poll.
NoStaleRequest ==
    \A s \in StartIds : (Lives(s) /\ sentinel # 0) => sentinel = s

\* What runs is supervised by the one that daemon.pid names.
Supervised == LeavesNothingBehind /\ OneSupervisor
-----------------------------------------------------------------------------
(***************************************************************************)
(* Then what is installed: `wizard update` (commands/update.go) on one     *)
(* installation, either a release, whose packages lie side by side under   *)
(* the install root with a `current` link to one of them, or a git         *)
(* checkout that is updated in place.  Every step may fail and the command *)
(* may be killed between two of them; the Python environment is shared by  *)
(* all packages.                                                           *)
(***************************************************************************)
CONSTANTS
    MaxVersion,  \* bound: releases that are published
    MaxUpdates   \* bound: updates that are begun

ASSUME ReleaseAssumption == MaxVersion \in Nat \ {0} /\ MaxUpdates \in Nat

Versions == 1..MaxVersion

NoVersion == 0

VARIABLES
    installKind,       \* "release" or "checkout" (installkind.Detect)
    published,  \* the latest release, or the head of the branch
    packages,       \* the packages under the install root; the version checked out
    built,      \* those of them that installDependencies has finished with
    current,    \* what the link (or the work tree) names
    venv,       \* the versions whose requirements the shared environment may hold
    service,    \* the version the running service was started from; None when down
    pc,         \* where the update is
    stagedPackage,     \* the package in the private staging directory
    guard,      \* restartGuard: the update stopped a running service
    outcome,    \* what the last update ended with
    updates

releaseVars == <<installKind, published, packages, built, current, venv, service, pc, stagedPackage, guard, outcome, updates>>

ReleaseTypeOK ==
    /\ installKind \in {"release", "checkout"}
    /\ published \in Versions /\ current \in Versions
    /\ packages \subseteq Versions /\ built \subseteq Versions /\ venv \subseteq Versions
    /\ service \in Versions \cup {NoVersion} /\ stagedPackage \in Versions \cup {NoVersion}
    /\ pc \in {"idle", "stop", "fetched", "install", "place", "launcher", "point", "pull", "check", "confirm", "restart"}
    /\ guard \in BOOLEAN
    /\ outcome \in {"none", "updated", "failed", "left down", "mismatch", "not restarted", "killed"}
    /\ updates \in 0..MaxUpdates

ReleaseInit ==
    /\ installKind \in {"release", "checkout"}
    /\ published = 1 /\ current = 1 /\ packages = {1} /\ built = {1} /\ venv = {1}
    /\ service \in {1, NoVersion}
    /\ pc = "idle" /\ stagedPackage = NoVersion /\ guard = FALSE /\ outcome = "none" /\ updates = 0

Publish ==
    /\ published < MaxVersion
    /\ published' = published + 1
    /\ UNCHANGED <<installKind, packages, built, current, venv, service, pc, stagedPackage, guard, outcome, updates>>

\* The user starts and stops the service between updates.
UserStarts ==
    /\ pc = "idle" /\ service = NoVersion
    /\ service' = current
    /\ UNCHANGED <<installKind, published, packages, built, current, venv, pc, stagedPackage, guard, outcome, updates>>

UserStops ==
    /\ pc = "idle" /\ service # NoVersion
    /\ service' = NoVersion
    /\ UNCHANGED <<installKind, published, packages, built, current, venv, pc, stagedPackage, guard, outcome, updates>>

\* The command ends and its staging directory goes.
Leave(how) ==
    pc' = "idle" /\ stagedPackage' = NoVersion /\ guard' = FALSE /\ outcome' = how

\* restartGuard.fail, whose own start may fail too.
FailGuarded ==
    \/ guard /\ service' = current /\ Leave("failed")
    \/ guard /\ UNCHANGED service /\ Leave("left down")
    \/ ~guard /\ UNCHANGED service /\ Leave("failed")

\* stageReleaseArchive: downloaded, checked against SHA256SUMS, extracted and
\* validated in a private directory.  Nothing else has changed if it fails.
StageArchive ==
    /\ installKind = "release" /\ pc = "idle" /\ updates < MaxUpdates
    /\ published > current
    /\ updates' = updates + 1
    /\ \/ stagedPackage' = published /\ pc' = "fetched" /\ outcome' = "none" /\ UNCHANGED guard
       \/ Leave("failed")
    /\ UNCHANGED <<installKind, published, packages, built, current, venv, service>>

\* copyEnvironmentFile and updatePrerequisites, before anything is stopped.
PrepareStaged ==
    /\ pc = "fetched"
    /\ \/ pc' = "stop" /\ UNCHANGED <<stagedPackage, guard, outcome>>
       \/ Leave("failed")
    /\ UNCHANGED <<installKind, published, packages, built, current, venv, service, updates>>

BeginCheckout ==
    /\ installKind = "checkout" /\ pc = "idle" /\ updates < MaxUpdates
    /\ pc' = "stop" /\ outcome' = "none"
    /\ updates' = updates + 1
    /\ UNCHANGED <<installKind, published, packages, built, current, venv, service, stagedPackage, guard>>

\* stopForUpdate: a service that cannot be stopped ends the update.
StopForUpdate ==
    /\ pc = "stop"
    /\ \/ /\ service' = NoVersion
          /\ guard' = (service # NoVersion)
          /\ pc' = (IF installKind = "release" THEN "install" ELSE "pull")
          /\ UNCHANGED <<stagedPackage, outcome>>
       \/ /\ service # NoVersion
          /\ Leave("failed")
          /\ UNCHANGED service
    /\ UNCHANGED <<installKind, published, packages, built, current, venv, updates>>

\* git pull --ff-only.
Pull ==
    /\ pc = "pull"
    /\ \/ /\ current' = published /\ packages' = {published}
          /\ built' = IF published = current THEN built ELSE {}
          /\ pc' = "check"
          /\ UNCHANGED <<service, stagedPackage, guard, outcome>>
       \/ FailGuarded /\ UNCHANGED <<packages, built, current>>
    /\ UNCHANGED <<installKind, published, venv, updates>>

CheckPrerequisites ==
    /\ pc = "check"
    /\ \/ pc' = "install" /\ UNCHANGED <<service, stagedPackage, guard, outcome>>
       \/ FailGuarded
    /\ UNCHANGED <<installKind, published, packages, built, current, venv, updates>>

Target == IF installKind = "release" THEN stagedPackage ELSE current

\* installDependencies: the packages of the shared environment, then the
\* frontend's, then its build.
Install ==
    /\ pc = "install"
    /\ \/ /\ venv' = {Target}
          /\ pc' = (IF installKind = "release" THEN "place" ELSE "confirm")
          /\ built' = IF installKind = "release" THEN built ELSE {current}
          /\ UNCHANGED <<service, stagedPackage, guard, outcome>>
       \/ /\ FailGuarded
          /\ venv' \in {venv, venv \cup {Target}, {Target}}
          /\ UNCHANGED built
    /\ UNCHANGED <<installKind, published, packages, current, updates>>

\* activateStagedRelease refuses a package that is already there, moves the
\* staged one in, replaces the launcher and, last, the link.
Place ==
    /\ pc = "place"
    /\ \/ /\ stagedPackage \notin packages
          /\ packages' = packages \cup {stagedPackage} /\ built' = built \cup {stagedPackage}
          /\ pc' = "launcher"
          /\ UNCHANGED <<service, stagedPackage, guard, outcome>>
       \/ FailGuarded /\ UNCHANGED <<packages, built>>
    /\ UNCHANGED <<installKind, published, current, venv, updates>>

\* Faulty variant: a failure that forgets the guard.
LauncherUnguarded ==
    /\ pc = "launcher"
    /\ \/ pc' = "point" /\ UNCHANGED <<service, stagedPackage, guard, outcome>>
       \/ Leave("failed") /\ UNCHANGED service
    /\ UNCHANGED <<installKind, published, packages, built, current, venv, updates>>

Launcher ==
    /\ pc = "launcher"
    /\ \/ pc' = "point" /\ UNCHANGED <<service, stagedPackage, guard, outcome>>
       \/ FailGuarded
    /\ UNCHANGED <<installKind, published, packages, built, current, venv, updates>>

Point ==
    /\ pc = "point"
    /\ \/ /\ current' = stagedPackage
          /\ pc' = "restart"
          /\ UNCHANGED <<service, stagedPackage, guard, outcome>>
       \/ FailGuarded /\ UNCHANGED current
    /\ UNCHANGED <<installKind, published, packages, built, venv, updates>>

\* confirmUpdatedAPIVersion: a pair known to mismatch is not started.
Confirm ==
    /\ pc = "confirm"
    /\ \/ pc' = "restart" /\ UNCHANGED <<stagedPackage, guard, outcome>>
       \/ Leave("mismatch")
    /\ UNCHANGED <<installKind, published, packages, built, current, venv, service, updates>>

Restart ==
    /\ pc = "restart"
    /\ \/ /\ guard
          /\ service' = current
          /\ Leave("updated")
       \/ /\ guard
          /\ Leave("not restarted")
          /\ UNCHANGED service
       \/ /\ ~guard
          /\ Leave("updated")
          /\ UNCHANGED service
    /\ UNCHANGED <<installKind, published, packages, built, current, venv, updates>>

\* The terminal is closed or the machine stops; what is on disk stays.
Killed ==
    /\ pc # "idle"
    /\ Leave("killed")
    /\ venv' \in {venv} \cup (IF pc = "install" THEN {venv \cup {Target}} ELSE {})
    /\ UNCHANGED <<installKind, published, packages, built, current, service, updates>>

ReleaseNext ==
    \/ Publish \/ UserStarts \/ UserStops
    \/ StageArchive \/ PrepareStaged \/ BeginCheckout \/ StopForUpdate
    \/ Pull \/ CheckPrerequisites \/ Install \/ Place \/ Launcher \/ Point
    \/ Confirm \/ Restart \/ Killed

ReleaseSpec == ReleaseInit /\ [][ReleaseNext]_releaseVars
-----------------------------------------------------------------------------
(* Properties.                                                              *)

\* Whatever failed or was killed, `current` of a release names a package that
\* is in place and built, and so does what the service runs.
CurrentIsComplete ==
    installKind = "release" =>
        /\ current \in packages \cap built
        /\ service # NoVersion => service \in packages \cap built

\* An update that stopped the service gives it back, in the version that is
\* current when it ends, unless the start itself fails, the pulled pair is
\* known to mismatch or the command is killed (cli/README.md:86).
ServiceComesBack ==
    [][(guard /\ pc' = "idle" /\ outcome' \in {"failed", "updated"}) => service' = current']_releaseVars

\* An update leaves an installation that can be started, and starts it.
UpdateHolds == []CurrentIsComplete /\ ServiceComesBack

\* The command line: what runs is supervised by the one that daemon.pid names, and an update leaves
\* an installation that can be started, and starts it.
CommandLineHolds == []Supervised /\ UpdateHolds
=============================================================================
