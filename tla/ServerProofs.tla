---------------------------- MODULE ServerProofs ----------------------------
(***************************************************************************)
(* What TLAPS proves about the server of MCServer: the turns of its        *)
(* transports (ChatTurns), what is kept of them (History, Secrets), where  *)
(* their code runs (Isolation), and, from these and from CallProofs, the   *)
(* server as a whole, for any clients, sessions and bounds.                *)
(*                                                                         *)
(* Mutual exclusion of turns is not inductive by itself: that a release    *)
(* never frees a lock somebody else holds needs to know, per kind of       *)
(* client, at which points of its life it holds the lock                   *)
(* (TurnUnderItsLock for WebSockets and REST, StreamHolds for the          *)
(* generators), that nothing ever cancels a REST turn (PostsRunThrough),   *)
(* and that a done-callback which finds its lease held belongs to a task   *)
(* that is over (CallbackReleases).                                        *)
(***************************************************************************)
EXTENDS MCServer, MCChatTurns, CallProofs

-----------------------------------------------------------------------------
(* The transports (ChatTurns).                                              *)

\* A generator holds the lock while it serves, interrupts or waits.
StreamHolds ==
    \A r \in Streams : holds[r] <=> loop[r] \in {"serving", "interrupting", "waiting"}

\* Nothing cancels a REST turn.
PostsRunThrough ==
    \A p \in Posts : ~cancelled[p] /\ loop[p] \in {"idle", "serving", "closed"}

\* A callback that finds its lease held is of a task that is over.
CallbackReleases ==
    \A s \in Sockets : callback[s] = "held" => task[s] = "done" /\ holds[s]

\* The inductive invariant.
IInv ==
    /\ TypeOK
    /\ LockHasOneHolder
    /\ TurnUnderItsLock
    /\ StreamHolds
    /\ PostsRunThrough
    /\ CallbackReleases

-----------------------------------------------------------------------------
(* Types.                                                                   *)

\* What the helpers of the actions leave behind has the right type.
LEMMA HelperTypes ==
    ASSUME TypeOK
    PROVE  /\ Abandoned \in [Sockets -> {"none", "open", "yes", "no"}]
           /\ \A c : Discarded(c) \in [Sockets -> {"none", "open", "yes", "no"}]
           /\ \A c \in Clients : TakeLock(c) \/ FreeLock(c)
                 => locked' \in BOOLEAN /\ holds' \in [Clients -> BOOLEAN]
<1>1. Abandoned \in [Sockets -> {"none", "open", "yes", "no"}]
  BY DEF TypeOK, Abandoned
<1>2. ASSUME NEW c PROVE Discarded(c) \in [Sockets -> {"none", "open", "yes", "no"}]
  BY DEF TypeOK, Discarded
<1>3. ASSUME NEW c \in Clients, TakeLock(c) \/ FreeLock(c)
      PROVE locked' \in BOOLEAN /\ holds' \in [Clients -> BOOLEAN]
  BY <1>3 DEF TypeOK, TakeLock, FreeLock
<1> QED
  BY <1>1, <1>2, <1>3

\* Ending a turn and dropping a plan keep the task record's type.
LEMMA TaskRecordTypes ==
    /\ \A p \in SUBSET Nat : EndTurn(p) =>
          plan' \in SUBSET Nat /\ status' \in {"idle", "running", "awaiting_plan"}
    /\ TypeOK /\ ResetTask =>
          plan' \in SUBSET Nat /\ status' \in {"idle", "running", "awaiting_plan"}
  BY DEF EndTurn, ResetTask, TypeOK, NoPlan

\* The types of the variables are preserved by every step.
LEMMA TypePreserved == TypeOK /\ [Next]_vars => TypeOK'
<1> SUFFICES ASSUME TypeOK, [Next]_vars PROVE TypeOK'
  OBVIOUS
<1> USE HelperTypes, TaskRecordTypes
    DEF TypeOK, Clients, Changes, Alive, InTurn, NoPlan, client, turn, taskRec, data, lockVars
<1>1. ASSUME NEW s \in Sockets, Message(s) PROVE TypeOK'
  BY <1>1 DEF Message
<1>2. ASSUME NEW s \in Sockets, Ask(s) PROVE TypeOK'
  BY <1>2 DEF Ask
<1>3. ASSUME NEW s \in Sockets, Answer(s) PROVE TypeOK'
  BY <1>3 DEF Answer
<1>4. ASSUME NEW s \in Sockets, Resume(s) PROVE TypeOK'
  BY <1>4 DEF Resume
<1>5. ASSUME NEW s \in Sockets, Unwound(s) PROVE TypeOK'
  BY <1>5 DEF Unwound, TaskOver
<1>d. ASSUME NEW s \in Sockets, DoneCallback(s) PROVE TypeOK'
  BY <1>d DEF DoneCallback
<1>7. ASSUME NEW s \in Sockets, UserCancel(s) PROVE TypeOK'
  BY <1>7 DEF UserCancel, StartCancel
<1>8. ASSUME NEW s \in Sockets, SocketCloses(s) PROVE TypeOK'
  <2>1. CASE current[s] /\ StartCancel(s, TRUE)
    BY <1>8, <2>1 DEF StartCancel, SocketCloses
  <2>2. CASE /\ answer' = Abandoned
             /\ loop' = [loop EXCEPT ![s] = "closed"]
             /\ UNCHANGED <<callback, closing, current, task, cancelled, frames, basis, lockVars, taskRec, data>>
    BY <2>2
  <2> QED
    BY <1>8, <2>1, <2>2 DEF SocketCloses
<1>9. ASSUME NEW r \in Streams, StreamAccepted(r) PROVE TypeOK'
  BY <1>9 DEF StreamAccepted
<1>10. ASSUME NEW r \in Streams, StreamBegins(r) PROVE TypeOK'
  BY <1>10 DEF StreamBegins
<1>11. ASSUME NEW r \in Streams, StreamLeaves(r) PROVE TypeOK'
  BY ZenonT(60), <1>11 DEF StreamLeaves, StartCancel
<1>12. ASSUME NEW r \in Streams, StreamEnds(r) PROVE TypeOK'
  BY <1>12 DEF StreamEnds
<1>13. ASSUME NEW r \in Streams, StreamDropped(r) PROVE TypeOK'
  BY <1>13 DEF StreamDropped
<1>14. ASSUME NEW p \in Posts, PostBegins(p) PROVE TypeOK'
  BY <1>14 DEF PostBegins
<1>15. ASSUME NEW c \in Clients, TurnBegins(c) PROVE TypeOK'
  BY <1>15 DEF TurnBegins
<1>16. ASSUME NEW c \in Clients, Conclude(c) PROVE TypeOK'
  BY <1>16 DEF Conclude
<1>17. ASSUME NEW c \in Clients, TurnReturns(c) PROVE TypeOK'
  <2>1. plan' \in SUBSET Nat /\ status' \in {"idle", "running", "awaiting_plan"}
    BY <1>17 DEF TurnReturns
  <2>2. locked' \in BOOLEAN /\ holds' \in [Clients -> BOOLEAN]
    BY <1>17 DEF TurnReturns, TaskOver
  <2>3. answer' \in [Sockets -> {"none", "open", "yes", "no"}]
    BY <1>17 DEF TurnReturns, TaskOver
  <2>4. callback' \in [Sockets -> {"none", "spent", "held"}]
    BY <1>17 DEF TurnReturns, TaskOver
  <2>5. loop' \in [Clients -> {"idle", "accepted", "serving", "interrupting", "waiting", "closed"}]
    BY <1>17 DEF TurnReturns
  <2> QED
    BY <1>17, <2>1, <2>2, <2>3, <2>4, <2>5 DEF TurnReturns
<1>18. ASSUME NEW c \in Clients, CancelledUnstarted(c) PROVE TypeOK'
  BY <1>18 DEF CancelledUnstarted
<1>19. ASSUME NEW c \in Clients, CancelledInTurn(c) PROVE TypeOK'
  BY <1>19 DEF CancelledInTurn
<1>20. ASSUME NEW c \in Clients, Interrupted(c) PROVE TypeOK'
  BY <1>20 DEF Interrupted
<1>21. ASSUME NEW c \in Clients, FinishCancel(c) PROVE TypeOK'
  <2>1. plan' \in SUBSET Nat /\ status' \in {"idle", "running", "awaiting_plan"}
    BY <1>21 DEF FinishCancel
  <2>2. CASE c \in Sockets
    BY ZenonT(60), <1>21, <2>1, <2>2 DEF FinishCancel
  <2>3. CASE c \notin Sockets
    BY <1>21, <2>1, <2>3 DEF FinishCancel
  <2> QED
    BY <2>2, <2>3
<1>22. CASE ChangeStep
  <2>1. ASSUME NEW d \in Changes, ChangeChecked(d) PROVE TypeOK'
    BY <2>1 DEF ChangeChecked
  <2>2. ASSUME NEW d \in Changes, UploadCommits(d) PROVE TypeOK'
    <3>1. CASE locked
      BY <2>2, <3>1 DEF UploadCommits
    <3>2. CASE ~locked
      BY <2>2, <3>2 DEF UploadCommits, DataChanges
    <3> QED
      BY <3>1, <3>2
  <2>5. ASSUME NEW d \in Changes, CleaningCommits(d) PROVE TypeOK'
    BY <2>5 DEF CleaningCommits, DataChanges
  <2>3. ASSUME NEW d \in Changes, CheckedOnceCommits(d) PROVE TypeOK'
    BY <2>3 DEF CheckedOnceCommits, DataChanges
  <2>4. ASSUME NEW d \in Changes, DisconnectCommits(d) PROVE TypeOK'
    BY <2>4 DEF DisconnectCommits, DataChanges
  <2> QED
    BY <1>22, <2>1, <2>2, <2>3, <2>4, <2>5 DEF ChangeStep, Changes
<1>23. CASE UNCHANGED vars
  BY <1>23 DEF vars
<1> QED
  BY <1>1, <1>2, <1>3, <1>4, <1>5, <1>d, <1>7, <1>8, <1>9, <1>10, <1>11, <1>12,
     <1>13, <1>14, <1>15, <1>16, <1>17, <1>18, <1>19, <1>20, <1>21, <1>22, <1>23
     DEF Next, SocketStep, StreamStep, TurnStep, CancelStep

-----------------------------------------------------------------------------
(* The lock.                                                                *)

\* Taking a free lock and freeing a lock one holds each the lock
\* with at most one holder; freeing another's would not.
LEMMA LockMoves ==
    ASSUME TypeOK, LockHasOneHolder, NEW c \in Clients
    PROVE  /\ TakeLock(c) => LockHasOneHolder'
           /\ holds[c] /\ FreeLock(c) => LockHasOneHolder'
<1>1. TakeLock(c) => LockHasOneHolder'
  BY DEF TypeOK, LockHasOneHolder, TakeLock
<1>2. holds[c] /\ FreeLock(c) => LockHasOneHolder'
  BY DEF TypeOK, LockHasOneHolder, FreeLock
<1> QED
  BY <1>1, <1>2

\* A step leaves the lock alone, takes it while it is free, or frees one that its client holds.
LockStep ==
    \/ UNCHANGED lockVars
    \/ \E c \in Clients : TakeLock(c) \/ (holds[c] /\ FreeLock(c))

\* No step frees the lock of another client.
LEMMA StepsMoveTheLock == IInv /\ [Next]_vars => LockStep
<1> SUFFICES ASSUME IInv, [Next]_vars PROVE LockStep
  OBVIOUS
<1> USE ClientsAreDistinct DEF LockStep, IInv, Clients, lockVars
<1>1. ASSUME NEW s \in Sockets, Message(s) PROVE LockStep
  BY <1>1 DEF Message
<1>2. ASSUME NEW s \in Sockets, Ask(s) PROVE LockStep
  BY <1>2 DEF Ask
<1>3. ASSUME NEW s \in Sockets, Answer(s) PROVE LockStep
  BY <1>3 DEF Answer
<1>4. ASSUME NEW s \in Sockets, Resume(s) PROVE LockStep
  BY <1>4 DEF Resume
<1>5. ASSUME NEW s \in Sockets, Unwound(s) PROVE LockStep
  BY <1>5 DEF Unwound, TaskOver, TurnUnderItsLock, Alive
<1>d. ASSUME NEW s \in Sockets, DoneCallback(s) PROVE LockStep
  BY <1>d DEF DoneCallback, CallbackReleases
<1>7. ASSUME NEW s \in Sockets, UserCancel(s) PROVE LockStep
  BY <1>7 DEF UserCancel, StartCancel
<1>8. ASSUME NEW s \in Sockets, SocketCloses(s) PROVE LockStep
  BY <1>8 DEF SocketCloses, StartCancel
<1>9. ASSUME NEW r \in Streams, StreamAccepted(r) PROVE LockStep
  BY <1>9 DEF StreamAccepted
<1>10. ASSUME NEW r \in Streams, StreamBegins(r) PROVE LockStep
  BY <1>10 DEF StreamBegins
<1>11. ASSUME NEW r \in Streams, StreamLeaves(r) PROVE LockStep
  BY <1>11 DEF StreamLeaves, StartCancel, StreamHolds
<1>12. ASSUME NEW r \in Streams, StreamEnds(r) PROVE LockStep
  BY <1>12 DEF StreamEnds, StreamHolds
<1>13. ASSUME NEW r \in Streams, StreamDropped(r) PROVE LockStep
  BY <1>13 DEF StreamDropped, StreamHolds
<1>14. ASSUME NEW p \in Posts, PostBegins(p) PROVE LockStep
  BY <1>14 DEF PostBegins
<1>15. ASSUME NEW c \in Clients, TurnBegins(c) PROVE LockStep
  BY <1>15 DEF TurnBegins
<1>16. ASSUME NEW c \in Clients, Conclude(c) PROVE LockStep
  BY <1>16 DEF Conclude
<1>17. ASSUME NEW c \in Clients, TurnReturns(c) PROVE LockStep
  BY <1>17 DEF TurnReturns, TaskOver, TurnUnderItsLock, Alive, InTurn
<1>18. ASSUME NEW c \in Clients, CancelledUnstarted(c) PROVE LockStep
  BY <1>18 DEF CancelledUnstarted
<1>19. ASSUME NEW c \in Clients, CancelledInTurn(c) PROVE LockStep
  BY <1>19 DEF CancelledInTurn
<1>20. ASSUME NEW c \in Clients, Interrupted(c) PROVE LockStep
  BY <1>20 DEF Interrupted
<1>21. ASSUME NEW c \in Clients, FinishCancel(c) PROVE LockStep
  BY <1>21 DEF FinishCancel, StreamHolds, PostsRunThrough, TypeOK
<1>22. CASE ChangeStep
  BY <1>22 DEF ChangeStep, ChangeChecked, CleaningCommits, UploadCommits, CheckedOnceCommits, DisconnectCommits
<1>23. CASE UNCHANGED vars
  BY <1>23 DEF vars
<1> QED
  BY <1>1, <1>2, <1>3, <1>4, <1>5, <1>d, <1>7, <1>8, <1>9, <1>10, <1>11, <1>12,
     <1>13, <1>14, <1>15, <1>16, <1>17, <1>18, <1>19, <1>20, <1>21, <1>22, <1>23
     DEF Next, SocketStep, StreamStep, TurnStep, CancelStep

\* Mutual exclusion is preserved by every step.
LEMMA HolderPreserved == IInv /\ [Next]_vars => LockHasOneHolder'
<1>1. IInv /\ UNCHANGED lockVars => LockHasOneHolder'
  BY DEF IInv, LockHasOneHolder, lockVars
<1>2. ASSUME IInv, NEW c \in Clients, TakeLock(c) \/ (holds[c] /\ FreeLock(c)) PROVE LockHasOneHolder'
  BY <1>2, LockMoves DEF IInv
<1> QED BY <1>1, <1>2, StepsMoveTheLock DEF LockStep

\* A WebSocket or REST turn keeps its lock exactly as long as it is alive.
LEMMA TurnLockPreserved == IInv /\ [Next]_vars => TurnUnderItsLock'
<1> SUFFICES ASSUME IInv, [Next]_vars PROVE TurnUnderItsLock'
  OBVIOUS
<1> USE ClientsAreDistinct
    DEF IInv, TypeOK, LockHasOneHolder, TurnUnderItsLock, Clients, Alive, InTurn, client, turn, data, lockVars
<1>1. ASSUME NEW s \in Sockets, Message(s) PROVE TurnUnderItsLock'
  BY <1>1 DEF Message, TakeLock
<1>2. ASSUME NEW s \in Sockets, Ask(s) PROVE TurnUnderItsLock'
  BY <1>2 DEF Ask
<1>3. ASSUME NEW s \in Sockets, Answer(s) PROVE TurnUnderItsLock'
  BY <1>3 DEF Answer
<1>4. ASSUME NEW s \in Sockets, Resume(s) PROVE TurnUnderItsLock'
  BY <1>4 DEF Resume
<1>5. ASSUME NEW s \in Sockets, Unwound(s) PROVE TurnUnderItsLock'
  BY <1>5 DEF Unwound, TaskOver, FreeLock
<1>d. ASSUME NEW s \in Sockets, DoneCallback(s) PROVE TurnUnderItsLock'
  BY <1>d DEF DoneCallback, FreeLock, CallbackReleases
<1>7. ASSUME NEW s \in Sockets, UserCancel(s) PROVE TurnUnderItsLock'
  BY <1>7 DEF UserCancel, StartCancel
<1>8. ASSUME NEW s \in Sockets, SocketCloses(s) PROVE TurnUnderItsLock'
  BY <1>8 DEF SocketCloses, StartCancel
<1>9. ASSUME NEW r \in Streams, StreamAccepted(r) PROVE TurnUnderItsLock'
  BY <1>9 DEF StreamAccepted
<1>10. ASSUME NEW r \in Streams, StreamBegins(r) PROVE TurnUnderItsLock'
  BY <1>10 DEF StreamBegins, TakeLock
<1>11. ASSUME NEW r \in Streams, StreamLeaves(r) PROVE TurnUnderItsLock'
  BY <1>11 DEF StreamLeaves, StartCancel, FreeLock
<1>12. ASSUME NEW r \in Streams, StreamEnds(r) PROVE TurnUnderItsLock'
  BY <1>12 DEF StreamEnds, FreeLock
<1>13. ASSUME NEW r \in Streams, StreamDropped(r) PROVE TurnUnderItsLock'
  BY <1>13 DEF StreamDropped, FreeLock
<1>14. ASSUME NEW p \in Posts, PostBegins(p) PROVE TurnUnderItsLock'
  BY <1>14 DEF PostBegins, TakeLock
<1>15. ASSUME NEW c \in Clients, TurnBegins(c) PROVE TurnUnderItsLock'
  BY <1>15 DEF TurnBegins
<1>16. ASSUME NEW c \in Clients, Conclude(c) PROVE TurnUnderItsLock'
  BY <1>16 DEF Conclude
<1>17. ASSUME NEW c \in Clients, TurnReturns(c) PROVE TurnUnderItsLock'
  BY <1>17 DEF TurnReturns, TaskOver, FreeLock
<1>18. ASSUME NEW c \in Clients, CancelledUnstarted(c) PROVE TurnUnderItsLock'
  BY <1>18 DEF CancelledUnstarted
<1>19. ASSUME NEW c \in Clients, CancelledInTurn(c) PROVE TurnUnderItsLock'
  BY <1>19 DEF CancelledInTurn
<1>20. ASSUME NEW c \in Clients, Interrupted(c) PROVE TurnUnderItsLock'
  BY <1>20 DEF Interrupted
<1>21. ASSUME NEW c \in Clients, FinishCancel(c) PROVE TurnUnderItsLock'
  BY <1>21 DEF FinishCancel, FreeLock, PostsRunThrough
<1>22. CASE ChangeStep
  BY <1>22 DEF ChangeStep, ChangeChecked, CleaningCommits, UploadCommits, CheckedOnceCommits, DisconnectCommits
<1>23. CASE UNCHANGED vars
  BY <1>23 DEF vars
<1> QED
  BY <1>1, <1>2, <1>3, <1>4, <1>5, <1>d, <1>7, <1>8, <1>9, <1>10, <1>11, <1>12,
     <1>13, <1>14, <1>15, <1>16, <1>17, <1>18, <1>19, <1>20, <1>21, <1>22, <1>23
     DEF Next, SocketStep, StreamStep, TurnStep, CancelStep

\* A stream's generator keeps its lock exactly from its first step to its
\* `finally`, and a REST turn is never cancelled from inside.
LEMMA GeneratorsPreserved == IInv /\ [Next]_vars => (StreamHolds /\ PostsRunThrough /\ CallbackReleases)'
<1> SUFFICES ASSUME IInv, [Next]_vars PROVE (StreamHolds /\ PostsRunThrough /\ CallbackReleases)'
  OBVIOUS
<1> USE ClientsAreDistinct
    DEF IInv, TypeOK, StreamHolds, PostsRunThrough, CallbackReleases, TurnUnderItsLock, LockHasOneHolder,
        Alive, InTurn, Clients, client, turn, data, lockVars
<1>1. ASSUME NEW s \in Sockets, Message(s) PROVE (StreamHolds /\ PostsRunThrough /\ CallbackReleases)'
  BY <1>1 DEF Message, TakeLock
<1>2. ASSUME NEW s \in Sockets, Ask(s) PROVE (StreamHolds /\ PostsRunThrough /\ CallbackReleases)'
  BY <1>2 DEF Ask
<1>3. ASSUME NEW s \in Sockets, Answer(s) PROVE (StreamHolds /\ PostsRunThrough /\ CallbackReleases)'
  BY <1>3 DEF Answer
<1>4. ASSUME NEW s \in Sockets, Resume(s) PROVE (StreamHolds /\ PostsRunThrough /\ CallbackReleases)'
  BY <1>4 DEF Resume
<1>5. ASSUME NEW s \in Sockets, Unwound(s) PROVE (StreamHolds /\ PostsRunThrough /\ CallbackReleases)'
  BY <1>5 DEF Unwound, TaskOver, FreeLock
<1>d. ASSUME NEW s \in Sockets, DoneCallback(s) PROVE (StreamHolds /\ PostsRunThrough /\ CallbackReleases)'
  BY <1>d DEF DoneCallback, FreeLock
<1>7. ASSUME NEW s \in Sockets, UserCancel(s) PROVE (StreamHolds /\ PostsRunThrough /\ CallbackReleases)'
  BY <1>7 DEF UserCancel, StartCancel
<1>8. ASSUME NEW s \in Sockets, SocketCloses(s) PROVE (StreamHolds /\ PostsRunThrough /\ CallbackReleases)'
  BY <1>8 DEF SocketCloses, StartCancel
<1>9. ASSUME NEW r \in Streams, StreamAccepted(r) PROVE (StreamHolds /\ PostsRunThrough /\ CallbackReleases)'
  BY <1>9 DEF StreamAccepted
<1>10. ASSUME NEW r \in Streams, StreamBegins(r) PROVE (StreamHolds /\ PostsRunThrough /\ CallbackReleases)'
  BY <1>10 DEF StreamBegins, TakeLock
<1>11. ASSUME NEW r \in Streams, StreamLeaves(r) PROVE (StreamHolds /\ PostsRunThrough /\ CallbackReleases)'
  BY <1>11 DEF StreamLeaves, StartCancel, FreeLock
<1>12. ASSUME NEW r \in Streams, StreamEnds(r) PROVE (StreamHolds /\ PostsRunThrough /\ CallbackReleases)'
  BY <1>12 DEF StreamEnds, FreeLock
<1>13. ASSUME NEW r \in Streams, StreamDropped(r) PROVE (StreamHolds /\ PostsRunThrough /\ CallbackReleases)'
  BY <1>13 DEF StreamDropped, FreeLock
<1>14. ASSUME NEW p \in Posts, PostBegins(p) PROVE (StreamHolds /\ PostsRunThrough /\ CallbackReleases)'
  BY <1>14 DEF PostBegins, TakeLock
<1>15. ASSUME NEW c \in Clients, TurnBegins(c) PROVE (StreamHolds /\ PostsRunThrough /\ CallbackReleases)'
  BY <1>15 DEF TurnBegins
<1>16. ASSUME NEW c \in Clients, Conclude(c) PROVE (StreamHolds /\ PostsRunThrough /\ CallbackReleases)'
  BY <1>16 DEF Conclude
<1>17. ASSUME NEW c \in Clients, TurnReturns(c) PROVE (StreamHolds /\ PostsRunThrough /\ CallbackReleases)'
  BY <1>17 DEF TurnReturns, TaskOver, FreeLock
<1>18. ASSUME NEW c \in Clients, CancelledUnstarted(c) PROVE (StreamHolds /\ PostsRunThrough /\ CallbackReleases)'
  BY <1>18 DEF CancelledUnstarted
<1>19. ASSUME NEW c \in Clients, CancelledInTurn(c) PROVE (StreamHolds /\ PostsRunThrough /\ CallbackReleases)'
  BY <1>19 DEF CancelledInTurn
<1>20. ASSUME NEW c \in Clients, Interrupted(c) PROVE (StreamHolds /\ PostsRunThrough /\ CallbackReleases)'
  BY <1>20 DEF Interrupted
<1>21. ASSUME NEW c \in Clients, FinishCancel(c) PROVE (StreamHolds /\ PostsRunThrough /\ CallbackReleases)'
  BY <1>21 DEF FinishCancel, FreeLock
<1>22. CASE ChangeStep
  BY <1>22 DEF ChangeStep, ChangeChecked, CleaningCommits, UploadCommits, CheckedOnceCommits, DisconnectCommits
<1>23. CASE UNCHANGED vars
  BY <1>23 DEF vars
<1> QED
  BY <1>1, <1>2, <1>3, <1>4, <1>5, <1>d, <1>7, <1>8, <1>9, <1>10, <1>11, <1>12,
     <1>13, <1>14, <1>15, <1>16, <1>17, <1>18, <1>19, <1>20, <1>21, <1>22, <1>23
     DEF Next, SocketStep, StreamStep, TurnStep, CancelStep

\* The inductive invariant holds in every reachable state.
THEOREM Invariance == Spec => []IInv
<1>1. Init => IInv
  <2>1. Init => TypeOK
    <3> SUFFICES ASSUME Init PROVE TypeOK
      OBVIOUS
    <3>1. task \in [Clients -> Alive \cup {"none", "done"}]
      BY DEF Init
    <3>2. plan \in SUBSET Nat /\ version \in Nat
      BY DEF Init, NoPlan
    <3> QED
      BY <3>1, <3>2 DEF Init, TypeOK
  <2>2. Init => LockHasOneHolder /\ TurnUnderItsLock
    BY DEF Init, LockHasOneHolder, TurnUnderItsLock, Clients, Alive, InTurn
  <2>3. Init => StreamHolds /\ PostsRunThrough /\ CallbackReleases
    BY DEF Init, StreamHolds, PostsRunThrough, CallbackReleases, Clients
  <2> QED
    BY <2>1, <2>2, <2>3 DEF IInv
<1>2. IInv /\ [Next]_vars => IInv'
  BY TypePreserved, HolderPreserved, TurnLockPreserved, GeneratorsPreserved DEF IInv
<1> QED
  BY <1>1, <1>2, PTL DEF Spec

\* Every variable keeps its type, for any clients and requests.
THEOREM TurnsTyped == Spec => []TypeOK
<1>1. IInv => TypeOK
  BY DEF IInv
<1> QED
  BY <1>1, Invariance, PTL

\* At most one client of a session holds its turn lock, and the lock is held
\* only while one does.
THEOREM MutualExclusion == Spec => []LockHasOneHolder
<1>1. IInv => LockHasOneHolder
  BY DEF IInv
<1> QED
  BY <1>1, Invariance, PTL

\* Seen from the abstract lock, its owner is the one client that holds it.
OwnerHolds ==
    /\ \A c \in Clients : holds[c] => Owner = c
    /\ (\A c \in Clients : ~holds[c]) => Owner = NoClient

\* With one holder the CHOOSE of Owner has one value.
LEMMA OwnerIsTheHolder == LockHasOneHolder => OwnerHolds
<1>1. ASSUME LockHasOneHolder, NEW c \in Clients, holds[c] PROVE Owner = c
  <2>1. \E d \in Clients : holds[d]
    BY <1>1
  <2>2. (CHOOSE d \in Clients : holds[d]) = c
    BY <1>1, <2>1 DEF LockHasOneHolder
  <2> QED BY <2>1, <2>2 DEF Owner
<1>2. ASSUME \A c \in Clients : ~holds[c] PROVE Owner = NoClient
  BY <1>2 DEF Owner
<1> QED BY <1>1, <1>2 DEF OwnerHolds

\* Every step of the transports is one of the abstract lock or changes nothing there.
LEMMA StepsAreOfTheLock ==
    IInv /\ LockHasOneHolder' /\ [Next]_vars => [Abstract!Next]_Owner
<1> SUFFICES ASSUME IInv, LockHasOneHolder', [Next]_vars PROVE [Abstract!Next]_Owner
  OBVIOUS
<1> USE DEF IInv
<1>g. OwnerHolds
  BY OwnerIsTheHolder
<1>h. OwnerHolds'
  BY OwnerIsTheHolder, PTL
<1>1. CASE UNCHANGED lockVars
  BY <1>1 DEF lockVars, Owner
<1>2. ASSUME NEW c \in Clients, TakeLock(c) PROVE Abstract!Admit(c)
  <2>1. Owner = NoClient
    BY <1>2, <1>g DEF TakeLock, LockHasOneHolder, OwnerHolds
  <2>2. holds'[c]
    BY <1>2 DEF TakeLock, TypeOK
  <2> QED BY <2>1, <2>2, <1>h DEF Abstract!Admit, OwnerHolds
<1>3. ASSUME NEW c \in Clients, holds[c], FreeLock(c) PROVE Abstract!GiveBack(c)
  <2>1. Owner = c
    BY <1>3, <1>g DEF OwnerHolds
  <2>2. \A d \in Clients : ~holds'[d]
    BY <1>3 DEF FreeLock, TypeOK, LockHasOneHolder
  <2> QED BY <2>1, <2>2, <1>h DEF Abstract!GiveBack, OwnerHolds
<1> QED BY <1>1, <1>2, <1>3, StepsMoveTheLock DEF LockStep, Abstract!Next

\* deps.py: "One turn at a time per session, whichever way it arrives".  The transports implement
\* the abstract lock: it is given to a client only when nobody has it, and passed from one to
\* another by none.
THEOREM ImplementsTheLock == Spec => Abstract!Safety
<1>1. Init => Abstract!Init
  <2> SUFFICES ASSUME Init PROVE Owner = NoClient
    BY DEF Abstract!Init
  <2> QED BY DEF Init, Owner
<1>2. IInv => LockHasOneHolder
  BY DEF IInv
<1> QED BY <1>1, <1>2, StepsAreOfTheLock, Invariance, PTL DEF Spec, Abstract!Safety

\* From the first to the last step of its task a WebSocket or REST turn holds
\* the lock; so at most one such turn is alive.
THEOREM TurnsHoldTheirLock == Spec => []TurnUnderItsLock
<1>1. IInv => TurnUnderItsLock
  BY DEF IInv
<1> QED
  BY <1>1, Invariance, PTL
-----------------------------------------------------------------------------
(* One terminal frame per turn.                                             *)

\* A turn that is ending has sent its frame; one whose cancellation is over, or
\* whose socket listens again, has too.
FramesInv ==
    /\ \A c \in Clients : frames[c] \in {0, 1}
    /\ \A s \in Sockets :
          task[s] \in {"concluding", "gated", "unwinding"} => frames[s] = 1
    /\ \A s \in Sockets :
          loop[s] = "idle" /\ (cancelled[s] \/ task[s] = "done") => frames[s] = 1

\* FramesInv is preserved by every step.
LEMMA FramesPreserved == TypeOK /\ FramesInv /\ [Next]_vars => FramesInv'
<1> SUFFICES ASSUME TypeOK, FramesInv, [Next]_vars PROVE FramesInv'
  OBVIOUS
<1> USE ClientsAreDistinct DEF TypeOK, FramesInv, Clients, InTurn, client, turn, taskRec, data
<1>1. ASSUME NEW s \in Sockets, Message(s) PROVE FramesInv'
  BY <1>1 DEF Message
<1>2. ASSUME NEW s \in Sockets, Ask(s) PROVE FramesInv'
  BY <1>2 DEF Ask
<1>3. ASSUME NEW s \in Sockets, Answer(s) PROVE FramesInv'
  BY <1>3 DEF Answer
<1>4. ASSUME NEW s \in Sockets, Resume(s) PROVE FramesInv'
  BY <1>4 DEF Resume
<1>5. ASSUME NEW s \in Sockets, Unwound(s) PROVE FramesInv'
  BY <1>5 DEF Unwound
<1>d. ASSUME NEW s \in Sockets, DoneCallback(s) PROVE FramesInv'
  BY <1>d DEF DoneCallback
<1>7. ASSUME NEW s \in Sockets, UserCancel(s) PROVE FramesInv'
  BY <1>7 DEF UserCancel, StartCancel
<1>8. ASSUME NEW s \in Sockets, SocketCloses(s) PROVE FramesInv'
  BY <1>8 DEF SocketCloses, StartCancel
<1>9. ASSUME NEW r \in Streams, StreamAccepted(r) PROVE FramesInv'
  BY <1>9 DEF StreamAccepted
<1>10. ASSUME NEW r \in Streams, StreamBegins(r) PROVE FramesInv'
  BY <1>10 DEF StreamBegins
<1>11. ASSUME NEW r \in Streams, StreamLeaves(r) PROVE FramesInv'
  BY <1>11 DEF StreamLeaves, StartCancel
<1>12. ASSUME NEW r \in Streams, StreamEnds(r) PROVE FramesInv'
  BY <1>12 DEF StreamEnds
<1>13. ASSUME NEW r \in Streams, StreamDropped(r) PROVE FramesInv'
  BY <1>13 DEF StreamDropped
<1>14. ASSUME NEW p \in Posts, PostBegins(p) PROVE FramesInv'
  BY <1>14 DEF PostBegins
<1>15. ASSUME NEW c \in Clients, TurnBegins(c) PROVE FramesInv'
  BY <1>15 DEF TurnBegins
<1>16. ASSUME NEW c \in Clients, Conclude(c) PROVE FramesInv'
  BY <1>16 DEF Conclude
<1>17. ASSUME NEW c \in Clients, TurnReturns(c) PROVE FramesInv'
  BY <1>17 DEF TurnReturns
<1>18. ASSUME NEW c \in Clients, CancelledUnstarted(c) PROVE FramesInv'
  BY <1>18 DEF CancelledUnstarted
<1>19. ASSUME NEW c \in Clients, CancelledInTurn(c) PROVE FramesInv'
  BY <1>19 DEF CancelledInTurn
<1>20. ASSUME NEW c \in Clients, Interrupted(c) PROVE FramesInv'
  BY <1>20 DEF Interrupted
<1>21. ASSUME NEW c \in Clients, FinishCancel(c) PROVE FramesInv'
  BY <1>21 DEF FinishCancel
<1>22. CASE ChangeStep
  BY <1>22 DEF ChangeStep, ChangeChecked, CleaningCommits, UploadCommits, CheckedOnceCommits, DisconnectCommits
<1>23. CASE UNCHANGED vars
  BY <1>23 DEF vars
<1> QED
  BY <1>1, <1>2, <1>3, <1>4, <1>5, <1>d, <1>7, <1>8, <1>9, <1>10, <1>11, <1>12,
     <1>13, <1>14, <1>15, <1>16, <1>17, <1>18, <1>19, <1>20, <1>21, <1>22, <1>23
     DEF Next, SocketStep, StreamStep, TurnStep, CancelStep

\* No turn sends two terminal frames, and one that is over has sent one by the
\* time its socket reads the next message.
THEOREM FrameCorrect == Spec => []OneTerminalFrame
<1>1. Init => FramesInv
  BY DEF Init, FramesInv, Clients
<1>2. FramesInv => OneTerminalFrame
  BY DEF FramesInv, OneTerminalFrame
<1> QED
  BY <1>1, <1>2, FramesPreserved, TurnsTyped, PTL DEF Spec

-----------------------------------------------------------------------------
(* Questions.                                                               *)

\* A question is open only while its turn waits on it: preserved by every step.
LEMMA QuestionsPreserved ==
    IInv /\ NoQuestionOutlivesItsTurn /\ [Next]_vars => NoQuestionOutlivesItsTurn'
<1> SUFFICES ASSUME IInv, NoQuestionOutlivesItsTurn, [Next]_vars
             PROVE  NoQuestionOutlivesItsTurn'
  OBVIOUS
<1>0. TurnUnderItsLock'
  BY TurnLockPreserved
<1> USE <1>0, ClientsAreDistinct
    DEF IInv, TypeOK, NoQuestionOutlivesItsTurn, TurnUnderItsLock, Clients, Alive, InTurn, turn, data,
        Abandoned, Discarded
<1>1. ASSUME NEW s \in Sockets, Message(s) PROVE NoQuestionOutlivesItsTurn'
  <2>1. ~holds[s]
    BY <1>1 DEF Message, TakeLock, LockHasOneHolder
  <2>2. answer[s] = "none"
    BY <2>1
  <2> QED
    BY <1>1, <2>2 DEF Message
<1>2. ASSUME NEW s \in Sockets, Ask(s) PROVE NoQuestionOutlivesItsTurn'
  BY <1>2 DEF Ask, lockVars
<1>3. ASSUME NEW s \in Sockets, Answer(s) PROVE NoQuestionOutlivesItsTurn'
  BY <1>3 DEF Answer, lockVars
<1>4. ASSUME NEW s \in Sockets, Resume(s) PROVE NoQuestionOutlivesItsTurn'
  BY <1>4 DEF Resume, lockVars
<1>5. ASSUME NEW s \in Sockets, Unwound(s) PROVE NoQuestionOutlivesItsTurn'
  BY <1>5 DEF Unwound, lockVars, TaskOver
<1>d. ASSUME NEW s \in Sockets, DoneCallback(s) PROVE NoQuestionOutlivesItsTurn'
  BY <1>d DEF DoneCallback
<1>7. ASSUME NEW s \in Sockets, UserCancel(s) PROVE NoQuestionOutlivesItsTurn'
  BY <1>7 DEF UserCancel, StartCancel, lockVars
<1>8. ASSUME NEW s \in Sockets, SocketCloses(s) PROVE NoQuestionOutlivesItsTurn'
  BY <1>8 DEF SocketCloses, StartCancel, lockVars
<1>9. ASSUME NEW r \in Streams, StreamAccepted(r) PROVE NoQuestionOutlivesItsTurn'
  BY <1>9 DEF StreamAccepted, lockVars
<1>10. ASSUME NEW r \in Streams, StreamBegins(r) PROVE NoQuestionOutlivesItsTurn'
  BY <1>10 DEF StreamBegins, lockVars
<1>11. ASSUME NEW r \in Streams, StreamLeaves(r) PROVE NoQuestionOutlivesItsTurn'
  BY <1>11 DEF StreamLeaves, StartCancel, lockVars
<1>12. ASSUME NEW r \in Streams, StreamEnds(r) PROVE NoQuestionOutlivesItsTurn'
  BY <1>12 DEF StreamEnds, lockVars
<1>13. ASSUME NEW r \in Streams, StreamDropped(r) PROVE NoQuestionOutlivesItsTurn'
  BY <1>13 DEF StreamDropped, lockVars
<1>14. ASSUME NEW p \in Posts, PostBegins(p) PROVE NoQuestionOutlivesItsTurn'
  BY <1>14 DEF PostBegins
<1>15. ASSUME NEW c \in Clients, TurnBegins(c) PROVE NoQuestionOutlivesItsTurn'
  BY <1>15 DEF TurnBegins, lockVars
<1>16. ASSUME NEW c \in Clients, Conclude(c) PROVE NoQuestionOutlivesItsTurn'
  BY <1>16 DEF Conclude, lockVars
<1>17. ASSUME NEW c \in Clients, TurnReturns(c) PROVE NoQuestionOutlivesItsTurn'
  BY <1>17 DEF TurnReturns, lockVars, TaskOver
<1>18. ASSUME NEW c \in Clients, CancelledUnstarted(c) PROVE NoQuestionOutlivesItsTurn'
  BY <1>18 DEF CancelledUnstarted, lockVars
<1>19. ASSUME NEW c \in Clients, CancelledInTurn(c) PROVE NoQuestionOutlivesItsTurn'
  BY <1>19 DEF CancelledInTurn, lockVars
<1>20. ASSUME NEW c \in Clients, Interrupted(c) PROVE NoQuestionOutlivesItsTurn'
  BY <1>20 DEF Interrupted, lockVars
<1>21. ASSUME NEW c \in Clients, FinishCancel(c) PROVE NoQuestionOutlivesItsTurn'
  BY <1>21 DEF FinishCancel, lockVars
<1>22. CASE ChangeStep
  BY <1>22 DEF ChangeStep, ChangeChecked, CleaningCommits, UploadCommits, CheckedOnceCommits, DisconnectCommits
<1>23. CASE UNCHANGED vars
  BY <1>23 DEF vars
<1> QED
  BY <1>1, <1>2, <1>3, <1>4, <1>5, <1>d, <1>7, <1>8, <1>9, <1>10, <1>11, <1>12,
     <1>13, <1>14, <1>15, <1>16, <1>17, <1>18, <1>19, <1>20, <1>21, <1>22, <1>23
     DEF Next, SocketStep, StreamStep, TurnStep, CancelStep

\* A turn that was cancelled, timed out or ended leaves no question registered.
THEOREM QuestionsCorrect == Spec => []NoQuestionOutlivesItsTurn
<1>1. Init => NoQuestionOutlivesItsTurn
  BY DEF Init, NoQuestionOutlivesItsTurn
<1> QED
  BY <1>1, QuestionsPreserved, Invariance, PTL DEF Spec

-----------------------------------------------------------------------------
(* Datasets under a turn.                                                   *)

\* Uploads, which look at the lock again after parsing, never change the data
\* of a running WebSocket or REST turn.  The requests that do not look again
\* are assumed away.
THEOREM UploadsLeaveTurnsAlone ==
    ASSUME Cleanings = {}, Edits = {}, Imports = {}, Disconnects = {}
    PROVE  Spec => DataStableUnderTurn
<1> DEFINE A == version' # version => \A c \in Sockets \cup Posts : task[c] \notin Alive
<1>1. IInv /\ [Next]_vars => [A]_vars
  <2> SUFFICES ASSUME IInv, Next, version' # version
               PROVE  \A c \in Sockets \cup Posts : task[c] \notin Alive
    OBVIOUS
  <2>1. PICK d \in Uploads : UploadCommits(d)
    BY DEF Next, SocketStep, StreamStep, TurnStep, CancelStep, ChangeStep, ChangeChecked, data,
           Message, Ask, Answer, Resume, Unwound, DoneCallback, UserCancel, SocketCloses,
           StartCancel, StreamAccepted, StreamBegins, StreamLeaves, StreamEnds, StreamDropped,
           PostBegins, TurnBegins, Conclude, TurnReturns, CancelledUnstarted, CancelledInTurn,
           Interrupted, FinishCancel
  <2>2. ~locked
    BY <2>1 DEF UploadCommits
  <2> QED
    BY <2>2 DEF IInv, TypeOK, LockHasOneHolder, TurnUnderItsLock, Clients
<1> QED
  BY <1>1, Invariance, PTL DEF Spec, DataStableUnderTurn
\* A turn that is running began with the data the session has now, and so did
\* the turn that left the plan now waiting.
PlanInv ==
    /\ PlanIsForCurrentData
    /\ \A c \in Sockets \cup Posts : task[c] \in InTurn => basis[c] = version

\* Without streams and without the requests that look at the lock once or
\* never, PlanInv is preserved by every step.
LEMMA PlanPreserved ==
    ASSUME Streams = {}, Cleanings = {}, Edits = {}, Imports = {}, Disconnects = {}
    PROVE  IInv /\ PlanInv /\ [Next]_vars => PlanInv'
<1> SUFFICES ASSUME IInv, PlanInv, [Next]_vars PROVE PlanInv'
  OBVIOUS
<1> USE ClientsAreDistinct
    DEF IInv, TypeOK, PlanInv, PlanIsForCurrentData, Clients, InTurn, NoPlan, EndTurn, ResetTask,
        client, turn, taskRec, data
<1>1. ASSUME NEW s \in Sockets, Message(s) PROVE PlanInv'
  BY <1>1 DEF Message
<1>2. ASSUME NEW s \in Sockets, Ask(s) PROVE PlanInv'
  BY <1>2 DEF Ask
<1>3. ASSUME NEW s \in Sockets, Answer(s) PROVE PlanInv'
  BY <1>3 DEF Answer
<1>4. ASSUME NEW s \in Sockets, Resume(s) PROVE PlanInv'
  BY <1>4 DEF Resume
<1>5. ASSUME NEW s \in Sockets, Unwound(s) PROVE PlanInv'
  BY <1>5 DEF Unwound
<1>d. ASSUME NEW s \in Sockets, DoneCallback(s) PROVE PlanInv'
  BY <1>d DEF DoneCallback
<1>7. ASSUME NEW s \in Sockets, UserCancel(s) PROVE PlanInv'
  BY <1>7 DEF UserCancel, StartCancel
<1>8. ASSUME NEW s \in Sockets, SocketCloses(s) PROVE PlanInv'
  BY <1>8 DEF SocketCloses, StartCancel
<1>9. ASSUME NEW r \in Streams, StreamAccepted(r) PROVE PlanInv'
  BY <1>9 DEF StreamAccepted
<1>10. ASSUME NEW r \in Streams, StreamBegins(r) PROVE PlanInv'
  BY <1>10 DEF StreamBegins
<1>11. ASSUME NEW r \in Streams, StreamLeaves(r) PROVE PlanInv'
  BY <1>11 DEF StreamLeaves, StartCancel
<1>12. ASSUME NEW r \in Streams, StreamEnds(r) PROVE PlanInv'
  BY <1>12 DEF StreamEnds
<1>13. ASSUME NEW r \in Streams, StreamDropped(r) PROVE PlanInv'
  BY <1>13 DEF StreamDropped
<1>14. ASSUME NEW p \in Posts, PostBegins(p) PROVE PlanInv'
  BY <1>14 DEF PostBegins
<1>15. ASSUME NEW c \in Clients, TurnBegins(c) PROVE PlanInv'
  BY <1>15 DEF TurnBegins
<1>16. ASSUME NEW c \in Clients, Conclude(c) PROVE PlanInv'
  BY <1>16 DEF Conclude
<1>17. ASSUME NEW c \in Clients, TurnReturns(c) PROVE PlanInv'
  BY <1>17 DEF TurnReturns
<1>18. ASSUME NEW c \in Clients, CancelledUnstarted(c) PROVE PlanInv'
  BY <1>18 DEF CancelledUnstarted
<1>19. ASSUME NEW c \in Clients, CancelledInTurn(c) PROVE PlanInv'
  BY <1>19 DEF CancelledInTurn
<1>20. ASSUME NEW c \in Clients, Interrupted(c) PROVE PlanInv'
  BY <1>20 DEF Interrupted
<1>21. ASSUME NEW c \in Clients, FinishCancel(c) PROVE PlanInv'
  BY <1>21 DEF FinishCancel
<1>22. CASE ChangeStep
  <2>1. PICK d \in Uploads : UploadCommits(d) \/ ChangeChecked(d)
    BY <1>22 DEF ChangeStep, Changes
  <2>2. CASE UploadCommits(d) /\ ~locked
    <3>1. \A c \in Sockets \cup Posts : task[c] \notin InTurn
      BY <2>2 DEF LockHasOneHolder, TurnUnderItsLock, Alive
    <3> QED
      BY <2>2, <3>1 DEF UploadCommits, DataChanges
  <2>3. CASE UploadCommits(d) /\ locked
    BY <2>3 DEF UploadCommits
  <2>4. CASE ChangeChecked(d)
    BY <2>4 DEF ChangeChecked
  <2> QED
    BY <2>1, <2>2, <2>3, <2>4
<1>23. CASE UNCHANGED vars
  BY <1>23 DEF vars
<1> QED
  BY <1>1, <1>2, <1>3, <1>4, <1>5, <1>d, <1>7, <1>8, <1>9, <1>10, <1>11, <1>12,
     <1>13, <1>14, <1>15, <1>16, <1>17, <1>18, <1>19, <1>20, <1>21, <1>22, <1>23
     DEF Next, SocketStep, StreamStep, TurnStep, CancelStep

\* The plan a user is asked to confirm was made on the data the session has,
\* when uploads are the only way the data changes.
THEOREM PlansAreCurrent ==
    ASSUME Streams = {}, Cleanings = {}, Edits = {}, Imports = {}, Disconnects = {}
    PROVE  Spec => []PlanIsForCurrentData
<1>1. Init => PlanInv
  BY DEF Init, PlanInv, PlanIsForCurrentData, NoPlan, InTurn, Clients
<1>2. PlanInv => PlanIsForCurrentData
  BY DEF PlanInv
<1>3. IInv /\ PlanInv /\ [Next]_vars => PlanInv'
  BY PlanPreserved
<1> QED
  BY <1>1, <1>2, <1>3, Invariance, PTL DEF Spec

-----------------------------------------------------------------------------
(* The rows of the database (History).                                      *)

\* The rows, and what the event loop is doing when it writes them.
AnswerRows == [id : 1..MaxWork, session : Owners, turn : Nat, workflow : Workflows]
RecordRows == [kind : Kinds, session : Owners, turn : Nat, id : 0..MaxWork]
TableDoings == [at : {"register", "remove"}, session : Owners]
TurnDoings == [at : {"memory", "message", "analysis", "evidence", "run"}, session : Owners, turn : Nat,
               workflow : Workflows, id : 0..MaxWork]

\* Types.
HistoryTyped ==
    /\ present \subseteq Owners /\ loaded \subseteq Owners /\ trailing \subseteq Owners /\ unsettled \subseteq Owners
    /\ answers \subseteq AnswerRows /\ IsFiniteSet(answers)
    /\ records \subseteq RecordRows
    /\ lastId \in 0..MaxWork
    /\ answering \in [Owners -> [turn : Nat, workflow : Workflows \cup {"none"}]]
    /\ \A s \in Owners : answering[s].turn # 0 => answering[s].workflow \in Workflows
    /\ doing \in {FreeLoop} \cup TableDoings \cup TurnDoings
    /\ loading \in [Owners -> {"none", "upload", "import", "imported"}]
    /\ schema \in Owners \cup {NoOwner}
    /\ work \in 0..MaxWork /\ faults \in 0..MaxFaults

\* The turns that may still get an id, each of which has been counted.
Owed(s) == IF answering[s].turn # 0 THEN 1 ELSE 0

\* The ids still owed, of both sessions and of the turn that is being written.
AllOwed == Owed("s") + Owed("t") + (IF doing.at \in {"memory", "message"} THEN 1 ELSE 0)

\* An id is of one message, and what is put down for an id is of its turn.
IdsHold ==
    /\ lastId + AllOwed <= work
    /\ \A m \in answers : m.id <= lastId /\ \A n \in answers : n.id = m.id => n = m
    /\ \A r \in records : r.id <= lastId /\ \A m \in answers : m.id = r.id => m.turn = r.turn /\ m.session = r.session
    /\ doing.at \in {"memory", "message"} => doing.id = 0
    /\ doing.at \in {"analysis", "evidence", "run"} =>
        doing.id <= lastId /\ \A m \in answers : m.id = doing.id => m.turn = doing.turn /\ m.session = doing.session

\* A session that went in order left nothing, and nothing of it is under way.
GoneAreGone ==
    \A s \in Owners \ (present \cup trailing) :
        schema # s /\ ~UnderWay(s) /\ \A r \in answers \cup records : r.session # s

\* The row of a session that is there is that of its table, except in between: from its addition to its
\* registration, and from its removal to that of the row.
TablesHold ==
    \A s \in present :
        /\ doing.at = "register" /\ doing.session = s => s \in loaded
        /\ s \notin unsettled /\ loading[s] # "imported" =>
            IF doing.at \in {"register", "remove"} /\ doing.session = s
            THEN doing.at = "remove" => s \notin loaded
            ELSE schema = s <=> s \in loaded

\* The inductive invariant.
HistoryInv == HistoryTyped /\ IdsHold /\ GoneAreGone /\ TablesHold

\* The bounds are numbers.
LEMMA HistoryCaps == MaxWork \in Nat /\ MaxFaults \in Nat /\ Looked \in Nat \ {0}
BY HistoryAssumption

\* What the event loop may be at.
LEMMA DoingIs ==
    ASSUME HistoryTyped
    PROVE  /\ doing.at \in {"free", "memory", "message", "analysis", "evidence", "run", "register", "remove"}
           /\ doing.at = "free" <=> doing = FreeLoop
           /\ doing.at # "free" => doing.session \in Owners
           /\ doing.at \in {"memory", "message", "analysis", "evidence", "run"} =>
                /\ doing \in TurnDoings /\ doing.turn \in Nat /\ doing.workflow \in Workflows /\ doing.id \in 0..MaxWork
BY DEF HistoryTyped, FreeLoop, TableDoings, TurnDoings

\* What is owed is a number.
LEMMA OwedIs ==
    ASSUME HistoryTyped
    PROVE  /\ \A s \in Owners : Owed(s) \in {0, 1}
           /\ Owed("s") + Owed("t") \in Nat /\ AllOwed \in Nat
           /\ AllOwed = (Owed("s") + Owed("t")) + (IF doing.at \in {"memory", "message"} THEN 1 ELSE 0)
BY DEF Owed, AllOwed

\* What is owed after the turn of one session has changed.
LEMMA OwedAfter ==
    ASSUME HistoryTyped, NEW s \in Owners, NEW x, answering' = [answering EXCEPT ![s] = x]
    PROVE  (Owed("s") + Owed("t"))' + Owed(s) = (Owed("s") + Owed("t")) + (IF x.turn # 0 THEN 1 ELSE 0)
<1>1. answering'[s] = x /\ \A o \in Owners \ {s} : answering'[o] = answering[o]
  BY DEF HistoryTyped
<1>2. CASE s = "s"
  <2>1. "t" \in Owners \ {s}
    BY <1>2 DEF Owners
  <2>2. answering'["t"] = answering["t"] /\ answering'["s"] = x
    BY <1>1, <1>2, <2>1
  <2> QED BY <1>2, <2>2 DEF Owed
<1>3. CASE s = "t"
  <2>1. "s" \in Owners \ {s}
    BY <1>3 DEF Owners
  <2>2. answering'["s"] = answering["s"] /\ answering'["t"] = x
    BY <1>1, <1>3, <2>1
  <2> QED BY <1>3, <2>2 DEF Owed
<1> QED BY <1>2, <1>3 DEF Owners

\* What leaves the rows alone, and owes no more than before, keeps the ids.
LEMMA IdsStay ==
    ASSUME HistoryInv, UNCHANGED <<answers, records, lastId>>, AllOwed' \in Nat, work' \in Nat,
           AllOwed' + work <= AllOwed + work',
           doing'.at \in {"memory", "message"} => doing'.id = 0,
           doing'.at \in {"analysis", "evidence", "run"} => doing' = doing
    PROVE  IdsHold'
<1>1. lastId' + AllOwed' <= work'
  <2>1. PICK l, a, b, w, v : l = lastId /\ a = AllOwed /\ b = AllOwed' /\ w = work /\ v = work'
    OBVIOUS
  <2>2. l \in Nat /\ w \in Nat
    BY <2>1, HistoryCaps DEF HistoryInv, HistoryTyped
  <2>3. a \in Nat /\ b \in Nat /\ v \in Nat
    BY <2>1, OwedIs DEF HistoryInv
  <2>4. l + a <= w /\ b + w <= a + v
    BY <2>1 DEF HistoryInv, IdsHold
  <2>5. l + b <= v
    BY ONLY <2>2, <2>3, <2>4
  <2> QED BY <2>1, <2>5
<1> QED BY <1>1 DEF HistoryInv, IdsHold

\* The steps of the tables change nothing of the turns.
LEMMA IdsStayOfTables ==
    ASSUME HistoryInv, UNCHANGED turnVars, work' \in Nat, work <= work', doing' = doing \/ doing'.at \in {"free", "register", "remove"}
    PROVE  IdsHold'
<1>1. UNCHANGED <<answers, records, lastId, answering>>
  BY DEF turnVars
<1>2. PICK p, d, e \in Nat : /\ p = Owed("s") + Owed("t")
                             /\ d = (IF doing.at \in {"memory", "message"} THEN 1 ELSE 0)
                             /\ e = (IF doing'.at \in {"memory", "message"} THEN 1 ELSE 0)
  BY OwedIs DEF HistoryInv
<1>3. (Owed("s") + Owed("t"))' = p
  BY <1>1, <1>2 DEF Owed
<1>4. AllOwed = p + d /\ AllOwed' = p + e /\ e <= d
  BY <1>2, <1>3 DEF AllOwed
<1>5. AllOwed' \in Nat /\ AllOwed' + work <= AllOwed + work'
  <2>1. work \in Nat
    BY HistoryCaps DEF HistoryInv, HistoryTyped
  <2> QED BY <1>2, <1>4, <2>1
<1>6. doing'.at \in {"memory", "message"} => doing'.id = 0
  BY DEF HistoryInv, IdsHold
<1> QED BY <1>1, <1>5, <1>6, IdsStay

\* And the steps of the turns nothing of the tables.
LEMMA TablesStay ==
    ASSUME HistoryInv, UNCHANGED <<tableVars, present>>, doing.at \notin {"register", "remove"}, doing'.at \notin {"register", "remove"}
    PROVE  TablesHold'
BY DEF HistoryInv, TablesHold, tableVars

\* Who is there, or did not go in order, may have rows and something under way.
LEMMA GoneStay ==
    ASSUME HistoryInv, NEW who \in present \cup trailing, UNCHANGED <<present, trailing>>,
           schema' \in {schema, who, NoOwner},
           \A r \in answers' \cup records' : r \in answers \cup records \/ r.session = who,
           \A s \in Owners \ {who} : UnderWay(s)' => UnderWay(s)
    PROVE  GoneAreGone'
<1>1. NoOwner \notin Owners
  BY DEF NoOwner, Owners
<1> QED BY <1>1 DEF HistoryInv, GoneAreGone

\* It holds at the start.
LEMMA HistoryInitHolds == ASSUME HistoryInit PROVE HistoryInv
<1> USE DEF HistoryInit
<1>1. IsFiniteSet(answers)
  BY FS_EmptySet
<1>2. HistoryTyped
  <2>1. lastId \in 0..MaxWork /\ work \in 0..MaxWork /\ faults \in 0..MaxFaults
    BY HistoryCaps
  <2>2. /\ answering \in [Owners -> [turn : Nat, workflow : Workflows \cup {"none"}]]
        /\ \A s \in Owners : answering[s].turn = 0
    BY DEF NoTurnYet
  <2> QED BY <1>1, <2>1, <2>2 DEF HistoryTyped
<1>3. \A s \in Owners : answering[s].turn = 0
  BY DEF NoTurnYet
<1>4. doing.at = "free"
  BY DEF FreeLoop
<1>5. IdsHold
  <2>1. AllOwed = 0
    BY <1>3, <1>4 DEF AllOwed, Owed, Owners
  <2> QED BY <1>4, <2>1 DEF IdsHold
<1>6. GoneAreGone
  BY DEF GoneAreGone
<1>7. TablesHold
  BY <1>4 DEF TablesHold, NoOwner, Owners
<1> QED BY <1>2, <1>5, <1>6, <1>7 DEF HistoryInv

\* The steps of turns.
LEMMA AnswerStep ==
    ASSUME HistoryInv, NEW s \in Owners,
           (\E w \in Workflows : BeginAnswer(s, w)) \/ AnswerFails(s) \/ Finalize(s)
    PROVE  HistoryInv'
<1> USE DEF HistoryInv
<1>0. /\ UNCHANGED <<present, answers, records, lastId, tableVars, faults, trailing>> /\ doing = FreeLoop
      /\ UNCHANGED <<loading, loaded, schema, unsettled>>
  BY DEF BeginAnswer, AnswerFails, Finalize, tableVars
<1>1. doing.at = "free"
  BY <1>0, DoingIs
<1>2. \A o \in Owners \ {s} : answering'[o] = answering[o]
  BY DEF BeginAnswer, AnswerFails, Finalize, HistoryTyped
<1>3. PICK p, q \in Nat : p = Owed("s") + Owed("t") /\ q = (Owed("s") + Owed("t"))'
  <2>1. Owed("s")' \in {0, 1} /\ Owed("t")' \in {0, 1}
    BY DEF Owed
  <2> QED BY <2>1, OwedIs
<1>4. AllOwed = p /\ p \in Nat /\ AllOwed' = q + (IF doing'.at \in {"memory", "message"} THEN 1 ELSE 0)
  BY <1>1, <1>3, OwedIs DEF AllOwed
<1>5. work \in Nat
  BY HistoryCaps DEF HistoryTyped
<1>6. CASE \E w \in Workflows : BeginAnswer(s, w)
  <2>1. PICK w \in Workflows : BeginAnswer(s, w)
    BY <1>6
  <2>2. /\ s \in present /\ answering[s].turn = 0 /\ work' = work + 1 /\ work' \in 0..MaxWork /\ doing' = doing
        /\ answering' = [answering EXCEPT ![s] = [turn |-> work + 1, workflow |-> w]]
    BY <1>5, <2>1, HistoryCaps DEF BeginAnswer, HistoryTyped
  <2>3. HistoryTyped'
    <3>1. answering' \in [Owners -> [turn : Nat, workflow : Workflows \cup {"none"}]] /\ answering'[s].workflow = w
      BY <1>5, <2>2 DEF HistoryTyped
    <3>2. \A o \in Owners : answering'[o].turn # 0 => answering'[o].workflow \in Workflows
      BY <1>2, <3>1 DEF HistoryTyped
    <3> QED BY <1>0, <2>2, <3>1, <3>2 DEF HistoryTyped
  <2>4. q = p + 1
    <3>1. PICK x : x = [turn |-> work + 1, workflow |-> w]
      OBVIOUS
    <3>2. x.turn # 0
      BY <1>5, <3>1
    <3>3. (Owed("s") + Owed("t"))' + Owed(s) = (Owed("s") + Owed("t")) + (IF x.turn # 0 THEN 1 ELSE 0)
      BY <2>2, <3>1, OwedAfter
    <3>4. Owed(s) = 0
      BY <2>2 DEF Owed
    <3> QED BY <1>3, <3>2, <3>3, <3>4
  <2>5. AllOwed' = p + 1
    BY <1>1, <1>4, <2>2, <2>4
  <2>6. IdsHold'
    BY <1>0, <1>1, <1>4, <1>5, <2>2, <2>5, IdsStay
  <2>7. GoneAreGone'
    <3>1. \A o \in Owners \ {s} : UnderWay(o)' => UnderWay(o)
      BY <1>0, <1>2, <2>2 DEF UnderWay
    <3> QED BY <1>0, <2>2, <3>1, GoneStay
  <2>8. TablesHold'
    BY <1>0, <1>1, <2>2, TablesStay
  <2> QED BY <2>3, <2>6, <2>7, <2>8
<1>7. CASE AnswerFails(s) \/ Finalize(s)
  <2>1. answering[s].turn # 0 /\ answering' = [answering EXCEPT ![s] = NoTurnYet] /\ work' = work /\ UNCHANGED work
    BY <1>7 DEF AnswerFails, Finalize
  <2>2. s \in present \cup trailing
    BY <2>1 DEF UnderWay, GoneAreGone
  <2>3. q + 1 = p
    <3>1. NoTurnYet.turn = 0
      BY DEF NoTurnYet
    <3>2. (Owed("s") + Owed("t"))' + Owed(s) = (Owed("s") + Owed("t")) + (IF NoTurnYet.turn # 0 THEN 1 ELSE 0)
      BY <2>1, OwedAfter
    <3>3. Owed(s) = 1
      BY <2>1 DEF Owed
    <3> QED BY <1>3, <3>1, <3>2, <3>3
  <2>4. /\ answering' \in [Owners -> [turn : Nat, workflow : Workflows \cup {"none"}]]
        /\ \A o \in Owners : answering'[o].turn # 0 => answering'[o].workflow \in Workflows
    <3>1. NoTurnYet \in [turn : Nat, workflow : Workflows \cup {"none"}] /\ NoTurnYet.turn = 0
      BY DEF NoTurnYet
    <3>2. answering'[s] = NoTurnYet /\ answering' \in [Owners -> [turn : Nat, workflow : Workflows \cup {"none"}]]
      BY <2>1, <3>1 DEF HistoryTyped
    <3> QED BY <1>2, <3>1, <3>2 DEF HistoryTyped
  <2>5. PICK d : d = doing'
    OBVIOUS
  <2>6. \/ d = doing
        \/ d \in TurnDoings /\ d.at \in {"memory", "message"} /\ d.id = 0 /\ d.session = s
    <3>1. CASE AnswerFails(s)
      BY <2>5, <3>1 DEF AnswerFails
    <3>2. CASE Finalize(s)
      <4>1. PICK a : a = IF answering[s].workflow = "task" THEN "memory" ELSE "message"
        OBVIOUS
      <4>2. d = [at |-> a, session |-> s, turn |-> answering[s].turn, workflow |-> answering[s].workflow, id |-> 0]
        BY <2>5, <3>2, <4>1 DEF Finalize
      <4>3. answering[s].turn \in Nat /\ answering[s].workflow \in Workflows /\ 0 \in 0..MaxWork
        BY <2>1, HistoryCaps DEF HistoryTyped
      <4>4. a \in {"memory", "message"}
        BY <4>1
      <4> QED BY <4>2, <4>3, <4>4 DEF TurnDoings
    <3> QED BY <1>7, <3>1, <3>2
  <2>7. HistoryTyped'
    <3>1. doing' \in {FreeLoop} \cup TableDoings \cup TurnDoings
      BY <1>0, <2>5, <2>6
    <3> QED BY <1>0, <2>1, <2>4, <3>1 DEF HistoryTyped
  <2>8. d.at \in {"free", "memory", "message"} /\ (d.at \in {"memory", "message"} => d.id = 0)
    BY <1>1, <2>6
  <2>9. AllOwed' \in Nat /\ AllOwed' + work <= AllOwed + work'
    BY <1>3, <1>4, <1>5, <2>1, <2>3
  <2>10. IdsHold'
    BY <1>0, <1>5, <2>1, <2>5, <2>8, <2>9, IdsStay
  <2>11. GoneAreGone'
    <3>1. \A o \in Owners \ {s} : UnderWay(o)' => UnderWay(o)
      BY <1>0, <1>2, <2>5, <2>6 DEF UnderWay
    <3> QED BY <1>0, <2>2, <3>1, GoneStay
  <2>12. TablesHold'
    BY <1>0, <1>1, <2>5, <2>8, TablesStay
  <2> QED BY <2>7, <2>10, <2>11, <2>12
<1> QED BY <1>6, <1>7

\* The bound on failures.
LEMMA FaultsStay == ASSUME HistoryTyped, WriteSucceeds \/ WriteFails PROVE faults' \in 0..MaxFaults
<1>1. faults \in 0..MaxFaults
  BY DEF HistoryTyped
<1> QED BY <1>1, HistoryCaps DEF WriteSucceeds, WriteFails

\* Its rows, one transaction each.
LEMMA RowStep == ASSUME HistoryInv, AppendMessage \/ PutDown PROVE HistoryInv'
<1> USE DEF HistoryInv
<1>0. /\ UNCHANGED <<present, answering, tableVars, work, trailing>> /\ UNCHANGED <<loading, loaded, schema, unsettled>>
      /\ faults' \in 0..MaxFaults
  <2>1. WriteSucceeds \/ WriteFails
    BY Zenon DEF AppendMessage, PutDown
  <2>3. faults' \in 0..MaxFaults
    BY <2>1, FaultsStay
  <2> QED BY <2>3 DEF AppendMessage, PutDown, tableVars
<1>1. PICK c : c = doing
  OBVIOUS
<1>2. c.at \in {"memory", "message", "analysis", "evidence", "run"}
  BY <1>1 DEF AppendMessage, PutDown, Kinds
<1>3. /\ c \in TurnDoings /\ c.session \in Owners /\ c.turn \in Nat /\ c.workflow \in Workflows /\ c.id \in 0..MaxWork
      /\ c # FreeLoop
  BY <1>1, <1>2, DoingIs
<1>4. c.session \in present \cup trailing
  BY <1>1, <1>3 DEF GoneAreGone, UnderWay
<1>5. PICK p, a \in Nat : p = Owed("s") + Owed("t") /\ a = AllOwed
  BY OwedIs
<1>6. (Owed("s") + Owed("t"))' = p
  BY <1>0, <1>5 DEF Owed
<1>7. a = p + (IF c.at \in {"memory", "message"} THEN 1 ELSE 0) /\ AllOwed' = p + (IF doing'.at \in {"memory", "message"} THEN 1 ELSE 0)
  BY <1>1, <1>5, <1>6 DEF AllOwed
<1>8. PICK l, w \in 0..MaxWork : l = lastId /\ w = work
  BY DEF HistoryTyped
<1>9. l + a <= w
  BY <1>5, <1>8 DEF IdsHold
<1>10. ASSUME doing' \in {FreeLoop} \cup TurnDoings, doing' # FreeLoop => doing'.session = c.session,
              \A r \in answers' \cup records' : r \in answers \cup records \/ r.session = c.session
       PROVE  GoneAreGone' /\ TablesHold'
  <2>1. \A o \in Owners \ {c.session} : UnderWay(o)' => UnderWay(o)
    BY <1>0, <1>1, <1>10 DEF UnderWay
  <2>2. GoneAreGone'
    BY <1>0, <1>4, <1>10, <2>1, GoneStay
  <2>3. doing'.at \notin {"register", "remove"}
    BY <1>10 DEF FreeLoop, TurnDoings
  <2>4. TablesHold'
    BY <1>0, <1>1, <1>2, <2>3, TablesStay
  <2> QED BY <2>2, <2>4
<1>11. CASE AppendMessage
  <2>1. c.at = "message" /\ UNCHANGED records
    BY <1>1, <1>11 DEF AppendMessage
  <2>2. a = p + 1 /\ l + 1 \in 1..MaxWork /\ l + 1 + p <= w
    BY <1>5, <1>7, <1>8, <1>9, <2>1, HistoryCaps
  <2>3. PICK next : next = IF c.workflow = "task" THEN [c EXCEPT !.at = "analysis"] ELSE FreeLoop
    OBVIOUS
  <2>4. c.workflow = "task" => /\ next \in TurnDoings /\ next.at = "analysis" /\ next.session = c.session /\ next.turn = c.turn
                               /\ next.id = 0 /\ next # FreeLoop
    <3>1. c.id = 0
      BY <1>1, <2>1 DEF IdsHold
    <3> QED BY <1>3, <2>3, <3>1 DEF TurnDoings, FreeLoop
  <2>5. FreeLoop.at = "free"
    BY DEF FreeLoop
  <2>6. CASE UNCHANGED <<answers, lastId>> /\ doing' = next
    <3>1. doing' \in {FreeLoop} \cup TurnDoings /\ (doing' # FreeLoop => doing'.session = c.session)
      BY <2>3, <2>4, <2>6
    <3>2. HistoryTyped'
      BY <1>0, <2>1, <2>6, <3>1 DEF HistoryTyped
    <3>3. doing'.at \in {"free", "analysis"} /\ (doing'.at = "analysis" => doing'.id = 0)
      BY <2>3, <2>4, <2>5, <2>6
    <3>4. AllOwed' = p
      BY <1>5, <1>7, <3>3
    <3>5. IdsHold'
      <4>1. lastId' + AllOwed' <= work'
        BY <1>0, <1>5, <1>8, <2>2, <2>6, <3>4
      <4>2. doing'.at = "analysis" => doing'.id <= lastId' /\ \A m \in answers' : m.id # doing'.id
        BY <1>8, <2>6, <3>3 DEF HistoryTyped, AnswerRows
      <4> QED BY <2>1, <2>6, <3>3, <4>1, <4>2 DEF IdsHold
    <3>6. GoneAreGone' /\ TablesHold'
      BY <1>10, <2>1, <2>6, <3>1
    <3> QED BY <3>2, <3>5, <3>6
  <2>7. CASE /\ answers' = answers \cup {[id |-> FreshId, session |-> c.session, turn |-> c.turn, workflow |-> c.workflow]}
             /\ lastId' = FreshId
             /\ doing' = IF next = FreeLoop THEN next ELSE [next EXCEPT !.id = FreshId]
    <3>1. PICK i : i = l + 1
      OBVIOUS
    <3>2. FreshId = i /\ i \in 1..MaxWork /\ lastId' = i
      BY <1>8, <2>2, <2>7, <3>1 DEF FreshId
    <3>3. PICK n : n = [id |-> i, session |-> c.session, turn |-> c.turn, workflow |-> c.workflow]
      OBVIOUS
    <3>4. answers' = answers \cup {n} /\ n \in AnswerRows /\ n.id = i /\ n.turn = c.turn /\ n.session = c.session
      BY <1>3, <2>7, <3>2, <3>3 DEF AnswerRows
    <3>5. PICK d : d = doing'
      OBVIOUS
    <3>6. IF c.workflow = "task"
          THEN d \in TurnDoings /\ d.at = "analysis" /\ d.session = c.session /\ d.turn = c.turn /\ d.id = i
          ELSE d = FreeLoop
      <4>1. CASE c.workflow = "task"
        <5>1. d = [next EXCEPT !.id = i]
          BY <2>4, <2>7, <3>2, <3>5, <4>1
        <5>2. i \in 0..MaxWork
          BY <3>2
        <5> QED BY <2>4, <4>1, <5>1, <5>2 DEF TurnDoings
      <4>2. CASE c.workflow # "task"
        BY <2>3, <2>7, <3>5, <4>2
      <4> QED BY <4>1, <4>2
    <3>7. HistoryTyped'
      <4>1. IsFiniteSet(answers') /\ answers' \subseteq AnswerRows
        BY <3>4, FS_AddElement DEF HistoryTyped
      <4>2. lastId' \in 0..MaxWork
        BY <3>2
      <4>3. doing' \in {FreeLoop} \cup TableDoings \cup TurnDoings
        BY <3>5, <3>6
      <4> QED BY <1>0, <2>1, <4>1, <4>2, <4>3 DEF HistoryTyped
    <3>8. d.at \in {"free", "analysis"}
      BY <2>5, <3>6
    <3>9. AllOwed' = p
      BY <1>5, <1>7, <3>5, <3>8
    <3>10. IdsHold'
      <4>1. lastId' + AllOwed' <= work'
        BY <1>0, <1>5, <1>8, <2>2, <3>1, <3>2, <3>9
      <4>2. \A m \in answers : m.id <= l /\ m.id # i /\ m.id <= i
        <5>1. SUFFICES ASSUME NEW m \in answers PROVE m.id <= l /\ m.id # i /\ m.id <= i
          OBVIOUS
        <5>2. m.id \in 1..MaxWork /\ m.id <= l
          BY <1>8, <5>1 DEF HistoryTyped, AnswerRows, IdsHold
        <5> QED BY <1>8, <3>1, <5>2
      <4>3. \A m \in answers' : m.id <= lastId' /\ \A o \in answers' : o.id = m.id => o = m
        BY <3>2, <3>4, <4>2 DEF IdsHold
      <4>4. \A r \in records' : r.id <= lastId' /\ \A m \in answers' : m.id = r.id => m.turn = r.turn /\ m.session = r.session
        <5>1. SUFFICES ASSUME NEW r \in records
                       PROVE r.id <= lastId' /\ \A m \in answers' : m.id = r.id => m.turn = r.turn /\ m.session = r.session
          BY <2>1
        <5>2. r.id \in 0..MaxWork /\ r.id <= l
          BY <1>8, <5>1 DEF HistoryTyped, RecordRows, IdsHold
        <5>3. r.id <= i /\ r.id # i
          BY <1>8, <3>1, <5>2
        <5> QED BY <3>2, <3>4, <5>3 DEF IdsHold
      <4>5. doing'.at = "analysis" =>
                doing'.id <= lastId' /\ \A m \in answers' : m.id = doing'.id => m.turn = doing'.turn /\ m.session = doing'.session
        <5>1. i <= i
          BY <3>2
        <5> QED BY <2>5, <3>2, <3>4, <3>5, <3>6, <4>2, <5>1
      <4> QED BY <3>5, <3>8, <4>1, <4>3, <4>4, <4>5 DEF IdsHold
    <3>11. GoneAreGone' /\ TablesHold'
      BY <1>10, <2>1, <3>4, <3>5, <3>6
    <3> QED BY <3>7, <3>10, <3>11
  <2> QED BY <1>1, <1>11, <2>3, <2>6, <2>7 DEF AppendMessage
<1>12. CASE PutDown
  <2>1. c.at \in Kinds /\ UNCHANGED <<answers, lastId>>
    BY <1>1, <1>12 DEF PutDown
  <2>2. PICK d : d = doing'
    OBVIOUS
  <2>3. \/ c.at = "run" /\ d = FreeLoop
        \/ c.at # "run" /\ d = [c EXCEPT !.at = NextKind[c.at]]
    BY <1>1, <1>12, <2>2 DEF PutDown
  <2>4. FreeLoop.at = "free"
    BY DEF FreeLoop
  <2>5. c.at # "run" => /\ d \in TurnDoings /\ d.session = c.session /\ d.turn = c.turn /\ d.id = c.id
                        /\ d.at = (IF c.at = "memory" THEN "message" ELSE IF c.at = "analysis" THEN "evidence" ELSE "run")
    <3>1. SUFFICES ASSUME c.at # "run"
                   PROVE  /\ d \in TurnDoings /\ d.session = c.session /\ d.turn = c.turn /\ d.id = c.id
                          /\ d.at = (IF c.at = "memory" THEN "message" ELSE IF c.at = "analysis" THEN "evidence" ELSE "run")
      OBVIOUS
    <3>2. c.at \in {"memory", "analysis", "evidence"}
      BY <2>1, <3>1 DEF Kinds
    <3>3. NextKind[c.at] = (IF c.at = "memory" THEN "message" ELSE IF c.at = "analysis" THEN "evidence" ELSE "run")
      BY <3>2 DEF NextKind
    <3>4. PICK k \in {"message", "evidence", "run"} : k = NextKind[c.at]
      BY <3>3
    <3>5. d = [c EXCEPT !.at = k]
      BY <2>3, <3>1, <3>4
    <3>6. d \in TurnDoings /\ d.session = c.session /\ d.turn = c.turn /\ d.id = c.id /\ d.at = k
      BY <1>3, <3>5 DEF TurnDoings
    <3> QED BY <3>3, <3>4, <3>6
  <2>6. PICK row : row = [kind |-> c.at, session |-> c.session, turn |-> c.turn, id |-> c.id]
    OBVIOUS
  <2>7. row \in RecordRows /\ row.session = c.session /\ row.id = c.id /\ row.turn = c.turn
    BY <1>3, <2>1, <2>6 DEF RecordRows
  <2>8. records' \subseteq records \cup {row}
    <3>1. Row(c.at) = row
      BY <1>1, <2>6 DEF Row
    <3>2. records' = records \/ records' = Stored(c.at)
      BY <1>1, <1>12 DEF PutDown
    <3> QED BY <3>1, <3>2 DEF Stored
  <2>9. d \in {FreeLoop} \cup TurnDoings /\ (d # FreeLoop => d.session = c.session)
    BY <2>3, <2>5
  <2>10. HistoryTyped'
    BY <1>0, <2>1, <2>2, <2>7, <2>8, <2>9 DEF HistoryTyped
  <2>11. /\ d.at \in {"memory", "message"} => c.at = "memory" /\ d.id = c.id
         /\ d.at \in {"analysis", "evidence", "run"} => c.at \in {"analysis", "evidence"} /\ d.id = c.id /\ d.turn = c.turn /\ d.session = c.session
    BY <2>1, <2>3, <2>4, <2>5 DEF Kinds
  <2>12. c.at = "memory" => c.id = 0
    BY <1>1 DEF IdsHold
  <2>13. c.at \in {"analysis", "evidence", "run"} => c.id <= l /\ \A m \in answers : m.id = c.id => m.turn = c.turn /\ m.session = c.session
    BY <1>1, <1>8 DEF IdsHold
  <2>14. IdsHold'
    <3>1. lastId' + AllOwed' <= work'
      <4>1. AllOwed' \in Nat /\ AllOwed' <= a
        BY <1>5, <1>7, <2>2, <2>11
      <4>2. PICK b : b = AllOwed'
        OBVIOUS
      <4>3. b \in Nat /\ b <= a /\ l \in Nat /\ w \in Nat
        BY <1>8, <4>1, <4>2, HistoryCaps
      <4>4. l + b <= w
        BY ONLY <1>5, <1>9, <4>3
      <4> QED BY <1>0, <1>8, <2>1, <4>2, <4>4
    <3>2. \A r \in records' : r.id <= lastId' /\ \A m \in answers' : m.id = r.id => m.turn = r.turn /\ m.session = r.session
      <4>1. ASSUME NEW m \in answers, m.id = 0 PROVE FALSE
        BY <4>1 DEF HistoryTyped, AnswerRows
      <4>2. 0 <= l
        BY <1>8
      <4>3. row.id <= l /\ \A m \in answers : m.id = row.id => m.turn = row.turn /\ m.session = row.session
        BY <2>1, <2>7, <2>12, <2>13, <4>1, <4>2 DEF Kinds
      <4> QED BY <1>8, <2>1, <2>8, <4>3 DEF IdsHold
    <3> QED BY <1>8, <2>1, <2>2, <2>11, <2>12, <2>13, <3>1, <3>2 DEF IdsHold
  <2>15. GoneAreGone' /\ TablesHold'
    BY <1>10, <2>1, <2>2, <2>7, <2>8, <2>9
  <2> QED BY <2>10, <2>14, <2>15
<1> QED BY <1>11, <1>12

\* Loads and removals.
LEMMA TableStep ==
    ASSUME HistoryInv, NEW s \in Owners,
           (\E how \in {"upload", "import"} : BeginLoad(s, how)) \/ AddUpload(s) \/ AddImport(s) \/ Remove(s)
    PROVE  HistoryInv'
<1> USE DEF HistoryInv
<1>0. /\ UNCHANGED <<present, turnVars, schema, faults, trailing, unsettled>>
      /\ UNCHANGED <<answers, records, lastId, answering>>
      /\ \A o \in Owners \ {s} : loading'[o] = loading[o]
      /\ doing' = doing \/ doing' = [at |-> "register", session |-> s] \/ doing' = [at |-> "remove", session |-> s]
      /\ doing' # doing => doing = FreeLoop
      /\ NoOwner \notin Owners
  BY DEF BeginLoad, AddUpload, AddImport, Remove, turnVars, HistoryTyped, NoOwner, Owners
<1>1. work \in 0..MaxWork /\ work' \in 0..MaxWork /\ work <= work'
  <2>1. work \in 0..MaxWork
    BY DEF HistoryTyped
  <2>2. work' = work \/ (work' = work + 1 /\ work < MaxWork)
    BY DEF BeginLoad, AddUpload, AddImport, Remove
  <2> QED BY <2>1, <2>2, HistoryCaps
<1>2. PICK d : d = doing'
  OBVIOUS
<1>3. d = doing \/ (d \in TableDoings /\ d.session = s)
  BY <1>0, <1>2 DEF TableDoings
<1>4. IdsHold'
  <2>1. doing' = doing \/ doing'.at \in {"free", "register", "remove"}
    BY <1>2, <1>3 DEF TableDoings
  <2>2. work' \in Nat
    BY <1>1
  <2> QED BY <1>0, <1>1, <2>1, <2>2, IdsStayOfTables
<1>5. s \in present \cup trailing
  BY DEF BeginLoad, AddUpload, AddImport, Remove, UnderWay, GoneAreGone
<1>6. GoneAreGone'
  <2>1. \A o \in Owners \ {s} : UnderWay(o)' => UnderWay(o)
    BY <1>0, <1>2, <1>3 DEF UnderWay
  <2>2. schema' \in {schema, s, NoOwner} /\ \A r \in answers' \cup records' : r \in answers \cup records \/ r.session = s
    BY <1>0
  <2>3. UNCHANGED <<present, trailing>>
    BY <1>0
  <2> QED BY <1>5, <2>1, <2>2, <2>3, GoneStay
<1>7. ASSUME loading' \in [Owners -> {"none", "upload", "import", "imported"}], loaded' \subseteq Owners PROVE HistoryTyped'
  <2>1. doing' \in {FreeLoop} \cup TableDoings \cup TurnDoings
    BY <1>2, <1>3 DEF HistoryTyped
  <2> QED BY <1>0, <1>1, <1>7, <2>1 DEF HistoryTyped
\* Of the tables, only those of this session change.
<1>8. ASSUME \A o \in Owners \ {s} : o \in loaded' <=> o \in loaded,
             s \in present =>
                /\ doing'.at = "register" /\ doing'.session = s => s \in loaded'
                /\ s \notin unsettled /\ loading'[s] # "imported" =>
                    IF doing'.at \in {"register", "remove"} /\ doing'.session = s
                    THEN doing'.at = "remove" => s \notin loaded'
                    ELSE schema = s <=> s \in loaded'
      PROVE  TablesHold'
  <2>1. SUFFICES ASSUME NEW o \in present, o # s
                 PROVE  /\ doing'.at = "register" /\ doing'.session = o => o \in loaded'
                        /\ o \notin unsettled /\ loading'[o] # "imported" =>
                            IF doing'.at \in {"register", "remove"} /\ doing'.session = o
                            THEN doing'.at = "remove" => o \notin loaded'
                            ELSE schema = o <=> o \in loaded'
    BY <1>0, <1>8 DEF TablesHold
  <2>2. o \in Owners /\ loading'[o] = loading[o] /\ (o \in loaded' <=> o \in loaded)
    BY <1>0, <1>8, <2>1 DEF HistoryTyped
  <2>3. CASE d = doing
    BY <1>2, <2>1, <2>2, <2>3 DEF TablesHold
  <2>4. CASE d # doing
    <3>1. d.session = s /\ doing.at = "free"
      BY <1>0, <1>2, <1>3, <2>4 DEF FreeLoop
    <3> QED BY <1>2, <2>1, <2>2, <3>1 DEF TablesHold
  <2> QED BY <2>3, <2>4
<1>9. ASSUME s \in present
      PROVE  /\ doing.at = "register" /\ doing.session = s => s \in loaded
             /\ s \notin unsettled /\ loading[s] # "imported" =>
                IF doing.at \in {"register", "remove"} /\ doing.session = s
                THEN doing.at = "remove" => s \notin loaded
                ELSE schema = s <=> s \in loaded
  BY <1>9 DEF TablesHold
<1>10. doing = FreeLoop => doing.at = "free"
  BY DEF FreeLoop
<1>11. CASE \E how \in {"upload", "import"} : BeginLoad(s, how)
  <2>1. PICK how \in {"upload", "import"} : BeginLoad(s, how)
    BY <1>11
  <2>2. loading[s] = "none" /\ doing = FreeLoop /\ loading' = [loading EXCEPT ![s] = how] /\ UNCHANGED <<loaded, doing>>
    BY <2>1 DEF BeginLoad
  <2>3. HistoryTyped'
    BY <1>7, <2>2 DEF HistoryTyped
  <2>4. TablesHold'
    BY <1>8, <1>9, <1>10, <2>2
  <2> QED BY <1>4, <1>6, <2>3, <2>4
<1>12. CASE AddUpload(s)
  <2>1. loading[s] = "upload" /\ doing = FreeLoop /\ loading' = [loading EXCEPT ![s] = "none"]
    BY <1>12 DEF AddUpload
  <2>2. loading' \in [Owners -> {"none", "upload", "import", "imported"}]
    BY <2>1 DEF HistoryTyped
  <2>3. CASE UNCHANGED <<loaded, doing>>
    <3>1. HistoryTyped'
      BY <1>7, <2>2, <2>3 DEF HistoryTyped
    <3>2. TablesHold'
      BY <1>8, <1>9, <1>10, <2>1, <2>3
    <3> QED BY <1>4, <1>6, <3>1, <3>2
  <2>4. CASE loaded' = loaded \cup {s} /\ doing' = [at |-> "register", session |-> s]
    <3>1. HistoryTyped'
      BY <1>7, <2>2, <2>4 DEF HistoryTyped
    <3>2. d.at = "register" /\ d.session = s
      BY <1>2, <2>4
    <3>3. TablesHold'
      BY <1>2, <1>8, <2>4, <3>2
    <3> QED BY <1>4, <1>6, <3>1, <3>3
  <2> QED BY <1>12, <2>3, <2>4 DEF AddUpload
<1>13. CASE AddImport(s)
  <2>1. loading[s] = "import" /\ loading' = [loading EXCEPT ![s] = "imported"] /\ loaded' = loaded \cup {s} /\ UNCHANGED doing
    BY <1>13 DEF AddImport
  <2>2. loading' \in [Owners -> {"none", "upload", "import", "imported"}] /\ loading'[s] = "imported"
    BY <2>1 DEF HistoryTyped
  <2>3. HistoryTyped'
    BY <1>7, <2>1, <2>2 DEF HistoryTyped
  <2>4. TablesHold'
    BY <1>8, <2>1, <2>2
  <2> QED BY <1>4, <1>6, <2>3, <2>4
<1>14. CASE Remove(s)
  <2>1. s \in present /\ doing = FreeLoop /\ loaded' = loaded \ {s} /\ doing' = [at |-> "remove", session |-> s] /\ UNCHANGED loading
    BY <1>14 DEF Remove
  <2>2. HistoryTyped'
    BY <1>7, <2>1 DEF HistoryTyped
  <2>3. d.at = "remove" /\ d.session = s
    BY <1>2, <2>1
  <2>4. TablesHold'
    BY <1>2, <1>8, <2>1, <2>3
  <2> QED BY <1>4, <1>6, <2>2, <2>4
<1> QED BY <1>11, <1>12, <1>13, <1>14

\* The row of a table.
LEMMA SchemaStep == ASSUME HistoryInv, (\E s \in Owners : Register(s)) \/ DeleteSchema PROVE HistoryInv'
<1> USE DEF HistoryInv
<1>0. /\ UNCHANGED <<present, turnVars, loaded, work, trailing>> /\ UNCHANGED <<answers, records, lastId, answering>>
      /\ faults' \in 0..MaxFaults
  <2>1. WriteSucceeds \/ WriteFails
    BY Zenon DEF Register, DeleteSchema
  <2> QED BY <2>1, FaultsStay DEF Register, DeleteSchema, turnVars
<1>1. work \in Nat /\ work \in 0..MaxWork /\ NoOwner \notin Owners /\ FreeLoop.at = "free"
  BY HistoryCaps DEF HistoryTyped, NoOwner, Owners, FreeLoop
<1>2. PICK c, d : c = doing /\ d = doing'
  OBVIOUS
<1>3. ASSUME d = c \/ d = FreeLoop PROVE IdsHold'
  <2>1. doing' = doing \/ doing'.at \in {"free", "register", "remove"}
    BY <1>1, <1>2, <1>3
  <2>2. work' \in Nat /\ work <= work'
    BY <1>0, <1>1
  <2> QED BY <1>0, <2>1, <2>2, IdsStayOfTables
<1>4. ASSUME NEW s \in Owners, UnderWay(s) \/ s \in present, d = c \/ d = FreeLoop,
             schema' \in {schema, s, NoOwner}, \A o \in Owners \ {s} : loading'[o] = loading[o]
      PROVE  GoneAreGone'
  <2>1. s \in present \cup trailing
    BY <1>4 DEF GoneAreGone
  <2>2. \A o \in Owners \ {s} : UnderWay(o)' => UnderWay(o)
    BY <1>0, <1>2, <1>4 DEF UnderWay
  <2>3. \A r \in answers' \cup records' : r \in answers \cup records \/ r.session = s
    BY <1>0
  <2>4. UNCHANGED <<present, trailing>>
    BY <1>0
  <2> QED BY <1>4, <2>1, <2>2, <2>3, <2>4, GoneStay
<1>5. ASSUME d = c \/ d = FreeLoop, unsettled' \subseteq Owners, schema' \in Owners \cup {NoOwner},
             loading' \in [Owners -> {"none", "upload", "import", "imported"}]
      PROVE  HistoryTyped'
  <2>1. doing' \in {FreeLoop} \cup TableDoings \cup TurnDoings
    BY <1>2, <1>5 DEF HistoryTyped
  <2> QED BY <1>0, <1>1, <1>5, <2>1 DEF HistoryTyped
<1>6. c.at = "free" => c = FreeLoop
  BY <1>2, DoingIs
<1>7. ASSUME NEW s \in Owners, Register(s) PROVE HistoryInv'
  <2>1. \/ c.at = "register" /\ c.session = s /\ d = FreeLoop /\ UNCHANGED loading
        \/ loading[s] = "imported" /\ loading' = [loading EXCEPT ![s] = "none"] /\ d = c
    BY <1>2, <1>7 DEF Register
  <2>2. \/ /\ schema' = s
           /\ unsettled' = (unsettled \ (IF s \in loaded THEN {s} ELSE {})) \cup ({schema} \ {s, NoOwner})
                          \cup (IF s \notin loaded \/ (c.at = "remove" /\ c.session = s) THEN {s} ELSE {})
        \/ unsettled' = unsettled \cup {s} /\ UNCHANGED schema
    BY <1>2, <1>7, Zenon DEF Register
  <2>3. d = c \/ d = FreeLoop
    BY <2>1
  <2>4. /\ loading' \in [Owners -> {"none", "upload", "import", "imported"}]
        /\ \A o \in Owners \ {s} : loading'[o] = loading[o]
    BY <2>1 DEF HistoryTyped
  <2>5. schema' \in {schema, s} /\ schema \in Owners \cup {NoOwner}
    BY <2>2 DEF HistoryTyped
  <2>6. unsettled' \subseteq Owners /\ schema' \in Owners \cup {NoOwner}
    BY <2>2, <2>5 DEF HistoryTyped
  <2>7. UnderWay(s)
    <3>1. CASE c.at = "register" /\ c.session = s
      BY <1>1, <1>2, <3>1 DEF UnderWay
    <3>2. CASE loading[s] = "imported"
      BY <3>2 DEF UnderWay
    <3> QED BY <2>1, <3>1, <3>2
  <2>8. TablesHold'
    <3>1. SUFFICES ASSUME NEW o \in present
                   PROVE  /\ d.at = "register" /\ d.session = o => o \in loaded
                          /\ o \notin unsettled' /\ loading'[o] # "imported" =>
                                IF d.at \in {"register", "remove"} /\ d.session = o
                                THEN d.at = "remove" => o \notin loaded
                                ELSE schema' = o <=> o \in loaded
      BY <1>0, <1>2 DEF TablesHold
    <3>2. o \in Owners /\ o # NoOwner
      BY <1>1 DEF HistoryTyped
    <3>3. /\ c.at = "register" /\ c.session = o => o \in loaded
          /\ o \notin unsettled /\ loading[o] # "imported" =>
                IF c.at \in {"register", "remove"} /\ c.session = o
                THEN c.at = "remove" => o \notin loaded
                ELSE schema = o <=> o \in loaded
      BY <1>2, <3>1 DEF TablesHold
    <3>4. CASE o = s
      <4>1. SUFFICES ASSUME s \notin unsettled', loading'[s] # "imported"
                     PROVE  IF d.at \in {"register", "remove"} /\ d.session = s
                            THEN d.at = "remove" => s \notin loaded
                            ELSE schema' = s <=> s \in loaded
        BY <1>1, <2>1, <3>3, <3>4
      <4>2. schema' = s /\ s \in loaded /\ ~(c.at = "remove" /\ c.session = s)
        BY <2>2, <4>1
      <4> QED BY <1>1, <2>3, <4>2
    <3>5. CASE o # s
      <4>1. loading'[o] = loading[o] /\ (o \notin unsettled' => o \notin unsettled)
        BY <2>2, <2>4, <3>2, <3>5
      <4>2. o \notin unsettled' => (schema' = o <=> schema = o)
        BY <2>2, <3>2, <3>5
      <4>3. d.at \in {"register", "remove"} => d = c
        BY <1>1, <2>3
      <4>4. d # c => c.session # o /\ d.at = "free"
        BY <1>1, <2>1, <3>5
      <4> QED BY <3>3, <4>1, <4>2, <4>3, <4>4
    <3> QED BY <3>4, <3>5
  <2> QED BY <1>3, <1>4, <1>5, <2>3, <2>4, <2>5, <2>6, <2>7, <2>8
<1>8. CASE DeleteSchema
  <2>1. PICK s : s = c.session
    OBVIOUS
  <2>2. c.at = "remove" /\ d = FreeLoop /\ UNCHANGED loading
    BY <1>2, <1>8 DEF DeleteSchema
  <2>3. s \in Owners /\ UnderWay(s)
    <3>1. c # FreeLoop
      BY <1>1, <2>2
    <3> QED BY <1>2, <2>1, <2>2, <3>1, DoingIs DEF UnderWay
  <2>4. \/ /\ schema' = IF schema = s THEN NoOwner ELSE schema
           /\ unsettled' = IF s \in loaded THEN unsettled ELSE unsettled \ {s}
        \/ unsettled' = unsettled \cup {s} /\ UNCHANGED schema
    BY <1>2, <1>8, <2>1, Zenon DEF DeleteSchema
  <2>5. schema' \in {schema, NoOwner} /\ unsettled' \subseteq Owners /\ schema' \in Owners \cup {NoOwner}
    BY <2>3, <2>4 DEF HistoryTyped
  <2>6. TablesHold'
    <3>1. SUFFICES ASSUME NEW o \in present, o \notin unsettled', loading[o] # "imported"
                   PROVE  schema' = o <=> o \in loaded
      BY <1>0, <1>1, <1>2, <2>2 DEF TablesHold
    <3>2. o \in Owners /\ o # NoOwner
      BY <1>1 DEF HistoryTyped
    <3>3. o \notin unsettled =>
                IF c.session = o THEN o \notin loaded ELSE schema = o <=> o \in loaded
      BY <1>2, <2>2, <3>1 DEF TablesHold
    <3>4. CASE o = s
      BY <2>1, <2>4, <3>1, <3>2, <3>3, <3>4
    <3>5. CASE o # s
      BY <2>1, <2>4, <3>1, <3>2, <3>3, <3>5
    <3> QED BY <3>4, <3>5
  <2>7. HistoryTyped' /\ IdsHold'
    BY <1>3, <1>5, <2>2, <2>5 DEF HistoryTyped
  <2>8. GoneAreGone'
    BY <1>4, <2>2, <2>3, <2>5
  <2> QED BY <2>6, <2>7, <2>8
<1> QED BY <1>7, <1>8

\* The end of a session, and of the server.
LEMMA EndStep == ASSUME HistoryInv, (\E s \in Owners : Dispose(s)) \/ ServerStops PROVE HistoryInv'
<1> USE DEF HistoryInv
<1>0. NoOwner \notin Owners /\ FreeLoop.at = "free"
  BY DEF NoOwner, Owners, FreeLoop
<1>1. ASSUME NEW s \in Owners, Dispose(s) PROVE HistoryInv'
  <2>1. /\ s \in present /\ present' = present \ {s} /\ loaded' = loaded \ {s}
        /\ UNCHANGED <<lastId, answering, doing, loading, work, unsettled>>
    BY <1>1 DEF Dispose
  <2>2. faults' \in 0..MaxFaults
    <3>1. WriteSucceeds \/ WriteFails
      BY <1>1 DEF Dispose
    <3> QED BY <3>1, FaultsStay
  <2>3. \/ /\ answers' = {m \in answers : m.session # s}
           /\ records' = {r \in records : r.session # s}
           /\ schema' = IF schema = s THEN NoOwner ELSE schema
           /\ trailing' = IF UnderWay(s) THEN trailing \cup {s} ELSE trailing
        \/ trailing' = trailing \cup {s} /\ UNCHANGED <<answers, records, schema>>
    BY <1>1 DEF Dispose
  <2>4. answers' \subseteq answers /\ records' \subseteq records /\ trailing \subseteq trailing' /\ trailing' \subseteq Owners
    BY <2>3 DEF HistoryTyped
  <2>5. schema' \in {schema, NoOwner} /\ \A o \in Owners \ {s} : schema' = o <=> schema = o
    BY <1>0, <2>3
  <2>6. HistoryTyped'
    <3>1. IsFiniteSet(answers')
      BY <2>4, FS_Subset DEF HistoryTyped
    <3> QED BY <2>1, <2>2, <2>4, <2>5, <3>1 DEF HistoryTyped
  <2>7. IdsHold'
    <3>1. AllOwed' = AllOwed
      BY <2>1 DEF AllOwed, Owed
    <3> QED BY <2>1, <2>4, <3>1 DEF IdsHold
  <2>8. \A o \in Owners : UnderWay(o)' => UnderWay(o)
    BY <2>1 DEF UnderWay
  <2>9. GoneAreGone'
    <3>1. SUFFICES ASSUME NEW o \in Owners \ (present' \cup trailing')
                   PROVE  schema' # o /\ ~UnderWay(o)' /\ \A r \in answers' \cup records' : r.session # o
      BY DEF GoneAreGone
    <3>2. CASE o = s
      BY <2>3, <2>8, <3>1, <3>2, <1>0
    <3>3. CASE o # s
      <4>1. o \in Owners \ (present \cup trailing)
        BY <2>1, <2>4, <3>1, <3>3
      <4> QED BY <2>4, <2>5, <2>8, <3>3, <4>1 DEF GoneAreGone
    <3> QED BY <3>2, <3>3
  <2>10. TablesHold'
    <3>1. SUFFICES ASSUME NEW o \in present, o # s
                   PROVE  /\ doing.at = "register" /\ doing.session = o => o \in loaded'
                          /\ o \notin unsettled /\ loading[o] # "imported" =>
                                IF doing.at \in {"register", "remove"} /\ doing.session = o
                                THEN doing.at = "remove" => o \notin loaded'
                                ELSE schema' = o <=> o \in loaded'
      BY <2>1 DEF TablesHold
    <3>2. o \in Owners /\ (o \in loaded' <=> o \in loaded) /\ (schema' = o <=> schema = o)
      BY <2>1, <2>5, <3>1 DEF HistoryTyped
    <3> QED BY <3>1, <3>2 DEF TablesHold
  <2> QED BY <2>6, <2>7, <2>9, <2>10
<1>2. CASE ServerStops
  <2>1. /\ present' = {} /\ loaded' = {} /\ answering' = [s \in Owners |-> NoTurnYet] /\ loading' = [s \in Owners |-> "none"]
        /\ doing' = FreeLoop /\ trailing' = trailing \cup present
        /\ UNCHANGED <<answers, records, lastId, schema, work, faults, unsettled>>
    BY <1>2 DEF ServerStops
  <2>2. NoTurnYet \in [turn : Nat, workflow : Workflows \cup {"none"}] /\ NoTurnYet.turn = 0
    BY DEF NoTurnYet
  <2>3. HistoryTyped'
    BY <2>1, <2>2 DEF HistoryTyped
  <2>4. \A s \in Owners : answering'[s].turn = 0 /\ loading'[s] = "none" /\ ~UnderWay(s)'
    BY <2>1, <2>2 DEF UnderWay
  <2>5. AllOwed' = 0
    BY <1>0, <2>1, <2>4 DEF AllOwed, Owed, Owners
  <2>6. IdsHold'
    <3>1. work \in Nat /\ work' \in Nat
      BY <2>1, HistoryCaps DEF HistoryTyped
    <3>2. AllOwed' \in Nat /\ AllOwed' + work <= AllOwed + work'
      BY <2>1, <2>5, <3>1, OwedIs
    <3> QED BY <1>0, <2>1, <3>1, <3>2, IdsStay
  <2>7. GoneAreGone'
    BY <2>1, <2>4 DEF GoneAreGone
  <2>8. TablesHold'
    BY <2>1 DEF TablesHold
  <2> QED BY <2>3, <2>6, <2>7, <2>8
<1> QED BY <1>1, <1>2

\* Every step.
LEMMA HistoryStep == ASSUME HistoryInv, HistoryNext PROVE HistoryInv'
BY AnswerStep, RowStep, TableStep, SchemaStep, EndStep DEF HistoryNext

\* Where nothing moves.
LEMMA HistoryStands == ASSUME HistoryInv, UNCHANGED rowVars PROVE HistoryInv'
<1>1. UNCHANGED <<present, answers, records, lastId, answering, doing, loading, loaded, schema, work, faults, trailing, unsettled>>
  BY DEF rowVars
<1>2. HistoryTyped'
  BY <1>1 DEF HistoryInv, HistoryTyped
<1>3. AllOwed' = AllOwed /\ \A s \in Owners : UnderWay(s)' = UnderWay(s)
  BY <1>1 DEF AllOwed, Owed, UnderWay
<1>4. IdsHold'
  BY <1>1, <1>3 DEF HistoryInv, IdsHold
<1>5. GoneAreGone'
  BY <1>1, <1>3 DEF HistoryInv, GoneAreGone
<1>6. TablesHold'
  BY <1>1 DEF HistoryInv, TablesHold
<1> QED BY <1>2, <1>4, <1>5, <1>6 DEF HistoryInv

\* What the run checks of it.
LEMMA HistoryShown == ASSUME HistoryInv PROVE HistoryTypeOK /\ HistoryHolds
<1> USE DEF HistoryInv
<1>1. HistoryTypeOK
  <2>1. \A m \in answers : m.id \in 1..MaxWork /\ m.session \in Owners /\ m.workflow \in Workflows
    BY DEF HistoryTyped, AnswerRows
  <2>2. \A r \in records : r.kind \in Kinds /\ r.session \in Owners /\ r.id \in 0..MaxWork
    BY DEF HistoryTyped, RecordRows
  <2>3. doing.at \in {"free", "memory", "message", "analysis", "evidence", "run", "register", "remove"}
    BY DoingIs
  <2> QED BY <2>1, <2>2, <2>3 DEF HistoryTyped, HistoryTypeOK
<1>2. ExportsOneTurn
  <2>1. SUFFICES ASSUME NEW m \in answers, NEW r \in Exported(m) PROVE r.turn = m.turn /\ r.session = m.session
    BY DEF ExportsOneTurn
  <2>2. r \in records /\ r.id = m.id
    BY DEF Exported, Of
  <2> QED BY <2>2 DEF IdsHold
<1>3. NothingIsLeft
  BY DEF GoneAreGone, NothingIsLeft
<1>4. SchemaIsOfTables
  <2>1. SUFFICES ASSUME NEW s \in present \ unsettled, ~UnderWay(s) PROVE schema = s <=> s \in loaded
    BY DEF SchemaIsOfTables
  <2>2. loading[s] # "imported" /\ ~(doing.at \in {"register", "remove"} /\ doing.session = s)
    <3>1. doing.at = "free" => doing = FreeLoop
      BY DoingIs
    <3>2. FreeLoop.at = "free"
      BY DEF FreeLoop
    <3> QED BY <2>1, <3>1, <3>2 DEF UnderWay
  <2> QED BY <2>1, <2>2 DEF TablesHold
<1>5. FollowUpFindsTask
  <2>1. SUFFICES ASSUME NEW s \in present, NEW m \in answers, m.session = s, m.workflow = "task",
                        \A n \in answers : n.session = s /\ n.workflow = "task" => n.id <= m.id,
                        ~(Cardinality({n \in answers : n.session = s /\ n.id > m.id}) >= Looked)
                 PROVE  LastTask(s) = {m}
    BY DEF FollowUpFindsTask
  <2>2. PICK k : k = Cardinality({n \in answers : n.session = s /\ n.id > m.id})
    OBVIOUS
  <2>3. k \in Nat
    <3>1. IsFiniteSet({n \in answers : n.session = s /\ n.id > m.id})
      BY FS_Subset DEF HistoryTyped
    <3> QED BY <2>2, <3>1, FS_CardinalityType
  <2>4. k < Looked
    BY <2>1, <2>2, <2>3, HistoryCaps
  <2>5. m \in Newest(s) /\ Newest(s) \subseteq answers
    BY <2>1, <2>2, <2>4 DEF Newest
  <2>6. \A n \in Newest(s) : n \in answers /\ n.session = s
    BY DEF Newest
  <2>7. PICK tasks : tasks = {n \in Newest(s) : n.workflow = "task"}
    OBVIOUS
  <2>8. m \in tasks /\ \A n \in tasks : n \in answers /\ n.id <= m.id
    BY <2>1, <2>5, <2>6, <2>7
  <2>9. LastTask(s) = {n \in tasks : \A o \in tasks : o.id <= n.id}
    BY <2>7 DEF LastTask
  <2>10. ASSUME NEW n \in tasks, m.id <= n.id PROVE n = m
    <3>1. n.id \in Nat /\ m.id \in Nat /\ n.id <= m.id /\ n \in answers
      BY <2>8, <2>10, HistoryCaps DEF HistoryTyped, AnswerRows
    <3>2. n.id = m.id
      BY <2>10, <3>1
    <3> QED BY <3>1, <3>2 DEF IdsHold
  <2> QED BY <2>8, <2>9, <2>10
<1> QED BY <1>1, <1>2, <1>3, <1>4, <1>5 DEF HistoryHolds

\* For any turns, uploads, imports, failures and ends of two sessions: an export is of one
\* turn, nothing is left of a session that went in order, the row of a schema is that of the tables that are
\* loaded, and a follow-up finds the last task (History.tla).
THEOREM RowsAreKept == HistorySpec => [](HistoryTypeOK /\ HistoryHolds)
<1>1. HistoryInv /\ [HistoryNext]_rowVars => HistoryInv'
  BY HistoryStep, HistoryStands
<1> QED BY <1>1, HistoryInitHolds, HistoryShown, PTL DEF HistorySpec

-----------------------------------------------------------------------------
(* The files of keys and connections (Secrets).                             *)

\* The files by themselves.
SecretsSpec == SecretsInit /\ [][SecretsNext]_secretVars

\* An author and the change it is in.  Only the event loop has .env to write, and only the key goes there.
Authored(a) ==
    /\ author[a] = [at |-> author[a].at, name |-> author[a].name, value |-> author[a].value, read |-> author[a].read,
                    then |-> author[a].then]
    /\ author[a].at \in {"rest", "lock", "open", "write", "env"}
    /\ author[a].name \in Names /\ author[a].value \in Secretives \cup {Absent}
    /\ author[a].read \in [Names -> Secretives \cup {Absent}]
    /\ author[a].then \in {"rest", "env"}
    /\ author[a].at = "rest" => author[a] = Resting
    /\ author[a].at = "env" => author[a].then = "env"
    /\ author[a].then = "env" => a = "loop" /\ author[a].name = "key"
    /\ a = "thread" => author[a].name = "key"

\* Types.
SecretsTyped ==
    /\ creds \in [Names -> Secretives \cup {Absent}] /\ private \in BOOLEAN
    /\ links \subseteq Links
    /\ dotenv \in Secretives \cup {Absent} /\ inForce \in Secretives \cup {Absent}
    /\ promised \in [Names -> Secretives \cup {Absent}]
    /\ spoiled \subseteq {"creds", "links", "env", "pair", "mode"}
    /\ DOMAIN author = Authors /\ \A a \in Authors : Authored(a)

\* The lock is had by the author that is between reading the file and writing it.
LockIsHad ==
    /\ holder \in Authors \cup {"none"}
    /\ \A a \in Authors : author[a].at \in {"open", "write"} <=> holder = a

\* What it has read is the file; and where it writes, the file is restricted.
ReadIsFile ==
    \A a \in Authors :
        /\ author[a].at \in {"open", "write"} /\ "creds" \notin spoiled => author[a].read = creds
        /\ author[a].at = "write" /\ "mode" \notin spoiled => private

\* The loop stores the secret of a connection there is.
SecretOfLink ==
    spoiled = {} /\ author["loop"].at # "rest" /\ author["loop"].name \in Links /\ author["loop"].value # Absent =>
        author["loop"].name \in links

\* A setting in force is the one in .env, or on its way there.
EnvFollows ==
    "env" \notin spoiled =>
        inForce = IF author["loop"].then = "env" THEN author["loop"].value ELSE dotenv

\* The inductive invariant.
SecretsInv == SecretsTyped /\ LockIsHad /\ ReadIsFile /\ SecretOfLink /\ EnvFollows /\ NoOrphanSecret /\ KeysAreKept
              /\ CachesAreFiles /\ SecretsArePrivate

\* The authors are the event loop and a thread.
LEMMA AuthorsAre == Authors = {"loop", "thread"} /\ "loop" \in Authors /\ "thread" \in Authors
BY DEF Authors

\* An author at rest is one.
LEMMA RestingIsAuthored ==
    /\ Resting.at = "rest" /\ Resting.name = "key" /\ Resting.value = Absent /\ Resting.then = "rest"
    /\ Resting.read \in [Names -> Secretives \cup {Absent}]
    /\ Resting = [at |-> "rest", name |-> "key", value |-> Absent, read |-> [n \in Names |-> Absent], then |-> "rest"]
    /\ "key" \in Names
BY DEF Resting, Names

\* It holds at the start.
LEMMA SecretsInitHolds == SecretsInit => SecretsInv
<1> SUFFICES ASSUME SecretsInit PROVE SecretsInv
  OBVIOUS
<1>1. \A a \in Authors : author[a] = Resting
  BY DEF SecretsInit
<1>2. \A a \in Authors : Authored(a)
  BY <1>1, RestingIsAuthored DEF Authored
<1>3. SecretsTyped
  BY <1>2 DEF SecretsInit, SecretsTyped
<1>4. LockIsHad /\ ReadIsFile
  BY <1>1, RestingIsAuthored, AuthorsAre DEF SecretsInit, LockIsHad, ReadIsFile
<1>5. SecretOfLink /\ EnvFollows
  BY <1>1, RestingIsAuthored, AuthorsAre DEF SecretsInit, SecretOfLink, EnvFollows
<1>6. NoOrphanSecret /\ KeysAreKept /\ SecretsArePrivate
  BY DEF SecretsInit, NoOrphanSecret, KeysAreKept, SecretsArePrivate, Names
<1>7. CachesAreFiles
  BY DEF SecretsInit, CachesAreFiles, NoCache
<1> QED BY <1>3, <1>4, <1>5, <1>6, <1>7 DEF SecretsInv

\* A change of one author leaves the other.
LEMMA OneAuthor ==
    ASSUME SecretsTyped, NEW a \in Authors, NEW me, author' = [author EXCEPT ![a] = me]
    PROVE  DOMAIN author' = Authors /\ author'[a] = me /\ \A b \in Authors \ {a} : author'[b] = author[b] /\ Authored(b)'
BY DEF SecretsTyped, Authored

\* The file is read, or cannot be.
LEMMA LReadCreds == ASSUME SecretsInv, NEW a \in Authors, ReadCreds(a) PROVE SecretsInv'
<1> USE DEF SecretsInv
<1>1. PICK me : me = author'[a] /\ author' = [author EXCEPT ![a] = me]
          /\ me = [at |-> "open", name |-> author[a].name, value |-> author[a].value, read |-> me.read, then |-> author[a].then]
          /\ (me.read = creds \/ (me.read = author[a].read /\ "creds" \in spoiled'))
          /\ spoiled \subseteq spoiled' /\ spoiled' \subseteq spoiled \cup {"creds"}
  <2>1. Authored(a) /\ DOMAIN author = Authors
    BY DEF SecretsTyped
  <2> QED BY <2>1 DEF ReadCreds, Authored, NoMishap, Mishap
<1>2. DOMAIN author' = Authors /\ author'[a] = me /\ \A b \in Authors \ {a} : author'[b] = author[b] /\ Authored(b)'
  BY <1>1, OneAuthor
<1>3. UNCHANGED <<creds, private, links, dotenv, inForce, credCache, linkCache, edits, promised>> /\ holder' = a /\ holder = "none"
      /\ author[a].at = "lock"
  BY DEF ReadCreds, HasLock, fileVars
<1>4. Authored(a)'
  BY <1>1, <1>2, <1>3, RestingIsAuthored DEF SecretsTyped, Authored
<1>5. SecretsTyped'
  BY <1>1, <1>2, <1>3, <1>4 DEF SecretsTyped
<1>6. LockIsHad'
  BY <1>1, <1>2, <1>3, AuthorsAre DEF LockIsHad
<1>7. ReadIsFile'
  BY <1>1, <1>2, <1>3 DEF ReadIsFile, LockIsHad
<1>8. SecretOfLink' /\ EnvFollows'
  BY <1>1, <1>2, <1>3, AuthorsAre DEF SecretOfLink, EnvFollows, SecretsTyped, Authored
<1>9. NoOrphanSecret'
  <2>1. \A n : InHand(n) => InHand(n)'
    BY <1>1, <1>2, <1>3 DEF InHand
  <2> QED BY <1>1, <1>3, <2>1 DEF NoOrphanSecret
<1>10. KeysAreKept' /\ SecretsArePrivate'
  BY <1>1, <1>3 DEF KeysAreKept, SecretsArePrivate
<1>11. CachesAreFiles'
  BY <1>1, <1>3, AuthorsAre DEF CachesAreFiles, LinkCached
<1> QED BY <1>5, <1>6, <1>7, <1>8, <1>9, <1>10, <1>11

\* The file is there, and restricted.
LEMMA LOpenCreds == ASSUME SecretsInv, NEW a \in Authors, OpenCreds(a) PROVE SecretsInv'
<1> USE DEF SecretsInv
<1>1. PICK me : me = author'[a] /\ author' = [author EXCEPT ![a] = me]
          /\ me = [at |-> "write", name |-> author[a].name, value |-> author[a].value, read |-> author[a].read, then |-> author[a].then]
  <2>1. Authored(a) /\ DOMAIN author = Authors
    BY DEF SecretsTyped
  <2>2. author' = [author EXCEPT ![a].at = "write"]
    BY DEF OpenCreds
  <2>3. author' = [author EXCEPT ![a] = [author[a] EXCEPT !.at = "write"]]
    BY <2>2
  <2>4. author'[a] = [author[a] EXCEPT !.at = "write"]
    BY <2>3, <2>1
  <2>5. author[a] = [at |-> author[a].at, name |-> author[a].name, value |-> author[a].value, read |-> author[a].read,
                     then |-> author[a].then]
    BY <2>1 DEF Authored
  <2>6. author'[a] = [at |-> "write", name |-> author[a].name, value |-> author[a].value, read |-> author[a].read,
                      then |-> author[a].then]
    BY ONLY <2>4, <2>5
  <2> QED BY <2>3, <2>4, <2>6
<1>2. DOMAIN author' = Authors /\ author'[a] = me /\ \A b \in Authors \ {a} : author'[b] = author[b] /\ Authored(b)'
  BY <1>1, OneAuthor
<1>3. UNCHANGED <<creds, links, dotenv, inForce, credCache, linkCache, holder, edits, promised>> /\ author[a].at = "open"
      /\ spoiled \subseteq spoiled' /\ spoiled' \subseteq spoiled \cup {"mode"}
      /\ (private' = TRUE \/ ("mode" \in spoiled' /\ private' = private))
  BY DEF OpenCreds, NoMishap, Mishap
<1>4. Authored(a)'
  BY <1>1, <1>2, <1>3, RestingIsAuthored DEF SecretsTyped, Authored
<1>5. SecretsTyped'
  BY <1>1, <1>2, <1>3, <1>4 DEF SecretsTyped
<1>6. LockIsHad'
  BY <1>1, <1>2, <1>3, AuthorsAre DEF LockIsHad
<1>7. ReadIsFile'
  BY <1>1, <1>2, <1>3 DEF ReadIsFile
<1>8. SecretOfLink' /\ EnvFollows'
  BY <1>1, <1>2, <1>3, AuthorsAre DEF SecretOfLink, EnvFollows, SecretsTyped, Authored
<1>9. NoOrphanSecret'
  <2>1. \A n : InHand(n) => InHand(n)'
    BY <1>1, <1>2, <1>3 DEF InHand
  <2> QED BY <1>1, <1>3, <2>1 DEF NoOrphanSecret
<1>10. KeysAreKept' /\ SecretsArePrivate'
  BY <1>1, <1>3 DEF KeysAreKept, SecretsArePrivate
<1>11. CachesAreFiles'
  BY <1>1, <1>3 DEF CachesAreFiles, LinkCached
<1> QED BY <1>5, <1>6, <1>7, <1>8, <1>9, <1>10, <1>11

\* The change is over; one of a setting goes on with .env.
LEMMA AfterCredsIs ==
    ASSUME SecretsTyped, NEW a \in Authors, AfterCreds(a)
    PROVE  /\ author' = [author EXCEPT ![a] = author'[a]]
           /\ author[a].then = "env" =>
                author'[a] = [at |-> "env", name |-> author[a].name, value |-> author[a].value, read |-> author[a].read,
                              then |-> "env"]
           /\ author[a].then # "env" => author'[a] = Resting
<1>1. Authored(a) /\ DOMAIN author = Authors
  BY DEF SecretsTyped
<1>2. author'[a] = IF author[a].then = "env" THEN [author[a] EXCEPT !.at = "env"] ELSE Resting
  BY <1>1 DEF AfterCreds
<1>3. author' = [author EXCEPT ![a] = author'[a]]
  BY <1>1, <1>2 DEF AfterCreds
<1>4. CASE author[a].then = "env"
  <2>1. author[a] = [at |-> author[a].at, name |-> author[a].name, value |-> author[a].value, read |-> author[a].read,
                     then |-> author[a].then]
    BY <1>1 DEF Authored
  <2>2. author'[a] = [author[a] EXCEPT !.at = "env"]
    BY <1>2, <1>4
  <2>3. author'[a] = [at |-> "env", name |-> author[a].name, value |-> author[a].value, read |-> author[a].read,
                      then |-> author[a].then]
    BY ONLY <2>1, <2>2
  <2> QED BY <1>3, <1>4, <2>3
<1>5. CASE author[a].then # "env"
  BY <1>2, <1>3, <1>5
<1> QED BY <1>4, <1>5

\* It ends so for its author, whatever it did with the file: its lock is free, its type and .env are as they were.
LEMMA CredsEnd ==
    ASSUME SecretsInv, NEW a \in Authors, author[a].at \in {"open", "write"}, AfterCreds(a), holder' = "none",
           UNCHANGED <<links, dotenv, inForce>>, spoiled \subseteq spoiled'
    PROVE  /\ \A b \in Authors : Authored(b)'
           /\ DOMAIN author' = Authors /\ LockIsHad' /\ ReadIsFile' /\ SecretOfLink' /\ EnvFollows'
           /\ \A n : InHand(n) /\ n # author[a].name => InHand(n)'
<1> USE DEF SecretsInv
<1>1. PICK me : /\ me = author'[a] /\ author' = [author EXCEPT ![a] = me]
                /\ author[a].then = "env" =>
                     me = [at |-> "env", name |-> author[a].name, value |-> author[a].value, read |-> author[a].read, then |-> "env"]
                /\ author[a].then # "env" => me = Resting
  BY AfterCredsIs
<1>2. DOMAIN author' = Authors /\ author'[a] = me /\ \A b \in Authors \ {a} : author'[b] = author[b] /\ Authored(b)'
  BY <1>1, OneAuthor
<1>3. Authored(a)
  BY DEF SecretsTyped
<1>4. Authored(a)'
  <2>1. CASE author[a].then = "env"
    BY <1>1, <1>2, <1>3, <2>1 DEF Authored
  <2>2. CASE author[a].then # "env"
    BY <1>1, <1>2, <2>2, RestingIsAuthored DEF Authored
  <2> QED BY <2>1, <2>2
<1>5. holder = a /\ me.at \in {"rest", "env"}
  BY <1>1, RestingIsAuthored DEF LockIsHad
<1>6. \A b \in Authors : author'[b].at \notin {"open", "write"}
  <2> SUFFICES ASSUME NEW b \in Authors PROVE author'[b].at \notin {"open", "write"}
    OBVIOUS
  <2>1. CASE b = a
    BY <1>2, <1>5, <2>1
  <2>2. CASE b # a
    BY <1>2, <1>5, <2>2 DEF LockIsHad
  <2> QED BY <2>1, <2>2
<1>7. LockIsHad' /\ ReadIsFile'
  BY <1>6, AuthorsAre DEF LockIsHad, ReadIsFile
<1>8. SecretOfLink'
  <2>1. CASE a = "loop"
    <3>1. me.at # "rest" => author[a].name = "key" /\ me.name = "key"
      BY <1>1, <1>3, RestingIsAuthored DEF Authored
    <3> QED BY <1>2, <2>1, <3>1, SecretsAssumption DEF SecretOfLink
  <2>2. CASE a # "loop"
    BY <1>2, <2>2, AuthorsAre DEF SecretOfLink
  <2> QED BY <2>1, <2>2
<1>9. EnvFollows'
  <2>1. CASE a = "loop"
    BY <1>1, <1>2, <2>1, RestingIsAuthored DEF EnvFollows
  <2>2. CASE a # "loop"
    BY <1>2, <2>2, AuthorsAre DEF EnvFollows
  <2> QED BY <2>1, <2>2
<1>10. \A n : InHand(n) /\ n # author[a].name => InHand(n)'
  BY <1>2 DEF InHand
<1> QED BY <1>2, <1>4, <1>7, <1>8, <1>9, <1>10

\* There is nothing to delete: the file stays.
LEMMA LLeaveUnchanged == ASSUME SecretsInv, NEW a \in Authors, LeaveUnchanged(a) PROVE SecretsInv'
<1> USE DEF SecretsInv
<1>1. /\ UNCHANGED <<creds, private, links, dotenv, inForce, linkCache, edits, mishaps, spoiled>>
      /\ author[a].at = "open" /\ author[a].value = Absent /\ author[a].read[author[a].name] = Absent
      /\ credCache' = Cached(author[a].read) /\ holder' = "none" /\ AfterCreds(a)
      /\ promised' = [promised EXCEPT ![author[a].name] = Absent]
  BY DEF LeaveUnchanged, NothingToDelete, fileVars
<1>2. /\ \A b \in Authors : Authored(b)'
      /\ DOMAIN author' = Authors /\ LockIsHad' /\ ReadIsFile' /\ SecretOfLink' /\ EnvFollows'
      /\ \A n : InHand(n) /\ n # author[a].name => InHand(n)'
  BY <1>1, CredsEnd
<1>3. Authored(a) /\ author[a].name \in Names
  BY DEF SecretsTyped, Authored
<1>4. SecretsTyped'
  BY <1>1, <1>2, <1>3 DEF SecretsTyped
<1>5. "creds" \notin spoiled => author[a].read = creds
  BY <1>1 DEF ReadIsFile
<1>6. NoOrphanSecret'
  <2> SUFFICES ASSUME spoiled = {}, NEW l \in Links, creds[l] # Absent PROVE l \in links \/ InHand(l)'
    BY <1>1 DEF NoOrphanSecret
  <2>1. l # author[a].name
    BY <1>1, <1>5
  <2> QED BY <1>2, <2>1 DEF NoOrphanSecret
<1>7. KeysAreKept'
  BY <1>1, <1>3, <1>5 DEF KeysAreKept, SecretsTyped
<1>8. CachesAreFiles' /\ SecretsArePrivate'
  BY <1>1, <1>5 DEF CachesAreFiles, SecretsArePrivate, Cached, LinkCached
<1> QED BY <1>2, <1>4, <1>6, <1>7, <1>8

\* The file is written, or what is left of it when that fails.
LEMMA LWriteCreds == ASSUME SecretsInv, NEW a \in Authors, WriteCreds(a) PROVE SecretsInv'
<1> USE DEF SecretsInv
<1>0. Authored(a) /\ author[a].name \in Names /\ author[a].value \in Secretives \cup {Absent}
      /\ author[a].read \in [Names -> Secretives \cup {Absent}]
  BY DEF SecretsTyped, Authored
<1>1. /\ UNCHANGED <<private, links, dotenv, inForce, linkCache, edits>>
      /\ author[a].at = "write" /\ holder' = "none" /\ AfterCreds(a)
  BY DEF WriteCreds
<1>2. PICK stored : stored = [author[a].read EXCEPT ![author[a].name] = author[a].value]
  OBVIOUS
<1>3. stored \in [Names -> Secretives \cup {Absent}] /\ stored[author[a].name] = author[a].value
      /\ \A n \in Names : n # author[a].name => stored[n] = author[a].read[n]
  BY <1>0, <1>2
<1>4. \/ /\ UNCHANGED <<mishaps, spoiled>> /\ creds' = stored /\ credCache' = Cached(stored)
         /\ promised' = [promised EXCEPT ![author[a].name] = author[a].value]
      \/ /\ spoiled' = spoiled \cup {"creds"} /\ (creds' = creds \/ creds' = [n \in Names |-> Absent])
         /\ UNCHANGED <<credCache, promised>>
  BY <1>2 DEF WriteCreds, NoMishap, Mishap
<1>5. spoiled \subseteq spoiled'
  BY <1>4
<1>6. /\ \A b \in Authors : Authored(b)'
      /\ DOMAIN author' = Authors /\ LockIsHad' /\ ReadIsFile' /\ SecretOfLink' /\ EnvFollows'
      /\ \A n : InHand(n) /\ n # author[a].name => InHand(n)'
  BY <1>1, <1>5, CredsEnd
<1>7. "creds" \notin spoiled => author[a].read = creds
  BY <1>1 DEF ReadIsFile
<1>8. "mode" \notin spoiled => private
  BY <1>1 DEF ReadIsFile
<1>9. CASE /\ UNCHANGED <<mishaps, spoiled>> /\ creds' = stored /\ credCache' = Cached(stored)
           /\ promised' = [promised EXCEPT ![author[a].name] = author[a].value]
  <2>1. SecretsTyped'
    BY <1>0, <1>1, <1>3, <1>6, <1>9 DEF SecretsTyped
  <2>2. NoOrphanSecret'
    <3> SUFFICES ASSUME spoiled = {}, NEW l \in Links, stored[l] # Absent PROVE l \in links \/ InHand(l)'
      BY <1>1, <1>9 DEF NoOrphanSecret
    <3>1. CASE l = author[a].name
      <4>1. a = "loop"
        BY <1>0, <3>1, SecretsAssumption, AuthorsAre DEF Authored
      <4> QED BY <1>1, <1>3, <3>1, <4>1 DEF SecretOfLink
    <3>2. CASE l # author[a].name
      <4>1. l \in Names /\ stored[l] = creds[l]
        BY <1>3, <1>7, <3>2 DEF Names
      <4> QED BY <1>6, <3>2, <4>1 DEF NoOrphanSecret
    <3> QED BY <3>1, <3>2
  <2>3. KeysAreKept'
    <3> SUFFICES ASSUME "creds" \notin spoiled, NEW n \in Names PROVE stored[n] = promised'[n]
      BY <1>9 DEF KeysAreKept
    <3>1. CASE n = author[a].name
      BY <1>0, <1>3, <1>9, <3>1 DEF SecretsTyped
    <3>2. CASE n # author[a].name
      BY <1>3, <1>7, <1>9, <3>2 DEF SecretsTyped, KeysAreKept
    <3> QED BY <3>1, <3>2
  <2>4. CachesAreFiles' /\ SecretsArePrivate'
    BY <1>1, <1>8, <1>9 DEF CachesAreFiles, SecretsArePrivate, Cached, LinkCached
  <2> QED BY <1>6, <2>1, <2>2, <2>3, <2>4
<1>10. CASE /\ spoiled' = spoiled \cup {"creds"} /\ (creds' = creds \/ creds' = [n \in Names |-> Absent])
            /\ UNCHANGED <<credCache, promised>>
  <2>1. SecretsTyped'
    BY <1>1, <1>6, <1>10 DEF SecretsTyped
  <2>2. NoOrphanSecret' /\ KeysAreKept'
    BY <1>10 DEF NoOrphanSecret, KeysAreKept
  <2>3. CachesAreFiles' /\ SecretsArePrivate'
    BY <1>1, <1>8, <1>10 DEF CachesAreFiles, SecretsArePrivate, LinkCached
  <2> QED BY <1>6, <2>1, <2>2, <2>3
<1> QED BY <1>4, <1>9, <1>10

\* A cache is filled, of the credentials or of the connections.
LEMMA LLoadCreds == ASSUME SecretsInv, LoadCreds PROVE SecretsInv'
<1> USE DEF SecretsInv
<1>1. /\ UNCHANGED <<creds, private, links, dotenv, inForce, linkCache, holder, author, edits, promised>> /\ holder = "none"
      /\ spoiled \subseteq spoiled' /\ spoiled' \subseteq spoiled \cup {"creds"}
      /\ "creds" \notin spoiled' => credCache' = Cached(creds)
  BY DEF LoadCreds, NoMishap, Mishap, fileVars
<1>2. \A b \in Authors : Authored(b)'
  BY <1>1 DEF SecretsTyped, Authored
<1>3. SecretsTyped'
  BY <1>1, <1>2 DEF SecretsTyped
<1>4. LockIsHad' /\ ReadIsFile' /\ SecretOfLink' /\ EnvFollows'
  BY <1>1 DEF LockIsHad, ReadIsFile, SecretOfLink, EnvFollows
<1>5. \A n : InHand(n) => InHand(n)'
  BY <1>1 DEF InHand
<1>6. NoOrphanSecret' /\ KeysAreKept' /\ SecretsArePrivate'
  BY <1>1, <1>5 DEF NoOrphanSecret, KeysAreKept, SecretsArePrivate
<1>7. CachesAreFiles'
  BY <1>1 DEF CachesAreFiles, Cached, LinkCached
<1> QED BY <1>3, <1>4, <1>6, <1>7

\* The connections are read.
LEMMA LLoadLinks == ASSUME SecretsInv, LoadLinks PROVE SecretsInv'
<1> USE DEF SecretsInv
<1>1. /\ UNCHANGED <<creds, private, links, dotenv, inForce, credCache, holder, author, edits, promised>>
      /\ spoiled \subseteq spoiled' /\ spoiled' \subseteq spoiled \cup {"links"}
      /\ "links" \notin spoiled' => linkCache' = LinkCached(links)
  BY DEF LoadLinks, NoMishap, Mishap, fileVars
<1>2. \A b \in Authors : Authored(b)'
  BY <1>1 DEF SecretsTyped, Authored
<1>3. SecretsTyped'
  BY <1>1, <1>2 DEF SecretsTyped
<1>4. LockIsHad' /\ ReadIsFile' /\ SecretOfLink' /\ EnvFollows'
  BY <1>1 DEF LockIsHad, ReadIsFile, SecretOfLink, EnvFollows
<1>5. \A n : InHand(n) => InHand(n)'
  BY <1>1 DEF InHand
<1>6. NoOrphanSecret' /\ KeysAreKept' /\ SecretsArePrivate'
  BY <1>1, <1>5 DEF NoOrphanSecret, KeysAreKept, SecretsArePrivate
<1>7. CachesAreFiles'
  BY <1>1 DEF CachesAreFiles, LinkCached
<1> QED BY <1>3, <1>4, <1>6, <1>7

\* A change that begins is in the lock's queue.
LEMMA ChangeIs ==
    ASSUME NEW name, NEW value, NEW then
    PROVE  /\ Change(name, value, then) =
                 [at |-> "lock", name |-> name, value |-> value, read |-> [n \in Names |-> Absent], then |-> then]
           /\ Change(name, value, then).at = "lock" /\ Change(name, value, then).name = name
           /\ Change(name, value, then).value = value /\ Change(name, value, then).then = then
           /\ [n \in Names |-> Absent] \in [Names -> Secretives \cup {Absent}]
<1>1. Resting = [at |-> "rest", name |-> "key", value |-> Absent, read |-> [n \in Names |-> Absent], then |-> "rest"]
  BY DEF Resting
<1>2. Change(name, value, then) = [Resting EXCEPT !.at = "lock", !.name = name, !.value = value, !.then = then]
  BY DEF Change
<1>3. Change(name, value, then) = [at |-> "lock", name |-> name, value |-> value, read |-> [n \in Names |-> Absent], then |-> then]
  BY ONLY <1>1, <1>2
<1> QED BY <1>3

\* An author that rested begins one, or does not: the lock, the file and .env are as they were, and
\* so is the secret of a connection when the loop stores none, or one of a connection there is.
LEMMA Begins ==
    ASSUME SecretsInv, NEW a \in Authors, author[a] = Resting, NEW name \in Names, NEW value \in Secretives \cup {Absent},
           NEW then \in {"rest", "env"}, then = "env" => a = "loop" /\ name = "key", a = "thread" => name = "key",
           author' = [author EXCEPT ![a] = Change(name, value, then)],
           UNCHANGED <<creds, private, dotenv, holder>>, inForce' = IF then = "env" THEN value ELSE inForce,
           spoiled \subseteq spoiled',
           spoiled' = {} /\ a = "loop" /\ name \in Links /\ value # Absent => name \in links',
           a = "thread" => links' = links
    PROVE  /\ \A b \in Authors : Authored(b)'
           /\ DOMAIN author' = Authors /\ LockIsHad' /\ ReadIsFile' /\ SecretOfLink' /\ EnvFollows'
           /\ \A n : InHand(n) => InHand(n)'
           /\ InHand(name)'
<1> USE DEF SecretsInv
<1>1. PICK me : me = Change(name, value, then)
  OBVIOUS
<1>2. /\ me = [at |-> "lock", name |-> name, value |-> value, read |-> me.read, then |-> then]
      /\ me.read \in [Names -> Secretives \cup {Absent}]
  BY <1>1, ChangeIs
<1>3. DOMAIN author' = Authors /\ author'[a] = me /\ \A b \in Authors \ {a} : author'[b] = author[b] /\ Authored(b)'
  BY <1>1, OneAuthor
<1>4. Authored(a)'
  BY <1>2, <1>3 DEF Authored
<1>5. author[a].at = "rest" /\ author[a].then = "rest"
  BY RestingIsAuthored
<1>6. LockIsHad'
  BY <1>2, <1>3, <1>5 DEF LockIsHad
<1>7. ReadIsFile'
  BY <1>2, <1>3 DEF ReadIsFile
<1>8. SecretOfLink'
  <2>1. CASE a = "loop"
    BY <1>2, <1>3, <2>1 DEF SecretOfLink
  <2>2. CASE a # "loop"
    BY <1>3, <2>2, AuthorsAre DEF SecretOfLink
  <2> QED BY <2>1, <2>2
<1>9. EnvFollows'
  <2>1. CASE a = "loop"
    BY <1>2, <1>3, <1>5, <2>1 DEF EnvFollows
  <2>2. CASE a # "loop"
    BY <1>3, <2>2, AuthorsAre DEF EnvFollows
  <2> QED BY <2>1, <2>2
<1>10. (\A n : InHand(n) => InHand(n)') /\ InHand(name)'
  <2>1. InHand(name)'
    BY <1>2, <1>3 DEF InHand
  <2>2. \A n : InHand(n) => InHand(n)'
    BY <1>3, <1>5 DEF InHand
  <2> QED BY <2>1, <2>2
<1> QED BY <1>3, <1>4, <1>6, <1>7, <1>8, <1>9, <1>10

\* A key of a provider, on a thread; a setting, on the event loop.
LEMMA LStoreProviderKey ==
    ASSUME SecretsInv, NEW value \in Secretives \cup {Absent}, StoreProviderKey(value) PROVE SecretsInv'
<1> USE DEF SecretsInv
<1>1. /\ UNCHANGED <<creds, private, links, dotenv, inForce, credCache, linkCache, holder, mishaps, promised, spoiled>>
      /\ author["thread"] = Resting /\ author' = [author EXCEPT !["thread"] = Change("key", value, "rest")]
  BY DEF StoreProviderKey, NewEdit, fileVars
<1>2. /\ \A b \in Authors : Authored(b)'
      /\ DOMAIN author' = Authors /\ LockIsHad' /\ ReadIsFile' /\ SecretOfLink' /\ EnvFollows'
      /\ \A n : InHand(n) => InHand(n)'
  <2>1. inForce' = IF "rest" = "env" THEN value ELSE inForce
    BY <1>1
  <2> QED BY <1>1, <2>1, RestingIsAuthored, AuthorsAre, Begins, SecretsAssumption
<1>3. SecretsTyped'
  BY <1>1, <1>2 DEF SecretsTyped
<1>4. NoOrphanSecret' /\ KeysAreKept' /\ SecretsArePrivate' /\ CachesAreFiles'
  BY <1>1, <1>2 DEF NoOrphanSecret, KeysAreKept, SecretsArePrivate, CachesAreFiles, LinkCached
<1> QED BY <1>2, <1>3, <1>4

\* A setting is changed.
LEMMA LPatchSetting == ASSUME SecretsInv, NEW value \in Secretives, PatchSetting(value) PROVE SecretsInv'
<1> USE DEF SecretsInv
<1>1. /\ UNCHANGED <<creds, private, links, dotenv, credCache, linkCache, holder, mishaps, promised, spoiled>>
      /\ author["loop"] = Resting /\ author' = [author EXCEPT !["loop"] = Change("key", value, "env")] /\ inForce' = value
  BY DEF PatchSetting, NewEdit, fileVars
<1>2. /\ \A b \in Authors : Authored(b)'
      /\ DOMAIN author' = Authors /\ LockIsHad' /\ ReadIsFile' /\ SecretOfLink' /\ EnvFollows'
      /\ \A n : InHand(n) => InHand(n)'
  BY <1>1, RestingIsAuthored, AuthorsAre, Begins, SecretsAssumption
<1>3. SecretsTyped'
  BY <1>1, <1>2 DEF SecretsTyped
<1>4. NoOrphanSecret' /\ KeysAreKept' /\ SecretsArePrivate' /\ CachesAreFiles'
  BY <1>1, <1>2 DEF NoOrphanSecret, KeysAreKept, SecretsArePrivate, CachesAreFiles, LinkCached
<1> QED BY <1>2, <1>3, <1>4

\* A connection is saved, with its secret or without one, or it fails.
LEMMA LSaveLink ==
    ASSUME SecretsInv, NEW l \in Links, NEW secret \in Secretives \cup {Absent, "kept"}, SaveLink(l, secret)
    PROVE  SecretsInv'
<1> USE DEF SecretsInv
<1>1. /\ UNCHANGED <<creds, private, dotenv, inForce, credCache, holder, promised>> /\ author["loop"] = Resting
      /\ links' \subseteq Links
      /\ spoiled \subseteq spoiled' /\ spoiled' \subseteq spoiled \cup {"links"}
      /\ "links" \notin spoiled' => spoiled' = spoiled /\ links' = links \cup {l} /\ linkCache' = LinkCached(links')
      /\ (DOMAIN author' = Authors /\ \A b \in Authors : author'[b] = author[b]) \/ (secret # "kept" /\ author' = [author EXCEPT !["loop"] = Change(l, secret, "rest")])
  <2>1. UNCHANGED <<creds, private, dotenv, inForce, credCache, holder, promised>> /\ author["loop"] = Resting
    BY DEF SaveLink, NewEdit
  <2>2. CASE \E read \in {links, {}} :
               /\ IF read = links THEN NoMishap ELSE Mishap("links")
               /\ links' = read \cup {l} /\ linkCache' = LinkCached(read \cup {l})
               /\ author' = [author EXCEPT !["loop"] = IF secret = "kept" THEN Resting ELSE Change(l, secret, "rest")]
    <3>1. PICK read \in {links, {}} :
               /\ IF read = links THEN NoMishap ELSE Mishap("links")
               /\ links' = read \cup {l} /\ linkCache' = LinkCached(read \cup {l})
               /\ author' = [author EXCEPT !["loop"] = IF secret = "kept" THEN Resting ELSE Change(l, secret, "rest")]
      BY <2>2
    <3>2. (DOMAIN author' = Authors /\ \A b \in Authors : author'[b] = author[b]) \/ (secret # "kept" /\ author' = [author EXCEPT !["loop"] = Change(l, secret, "rest")])
      <4>1. CASE secret = "kept"
        BY <2>1, <3>1, <4>1, AuthorsAre DEF SecretsTyped
      <4>2. CASE secret # "kept"
        BY <3>1, <4>2
      <4> QED BY <4>1, <4>2
    <3>3. LinkCached(read \cup {l}) = LinkCached(links')
      BY <3>1
    <3>4. linkCache' = LinkCached(links') /\ links' \subseteq Links
      BY <3>1, <3>3 DEF SecretsTyped
    <3>5. CASE read = links
      BY <2>1, <3>1, <3>2, <3>4, <3>5 DEF NoMishap
    <3>6. CASE read # links
      BY <2>1, <3>1, <3>2, <3>4, <3>6 DEF Mishap
    <3> QED BY <3>5, <3>6
  <2>3. CASE Mishap("links") /\ links' \in {links, {}} /\ UNCHANGED <<linkCache, author>>
    BY <2>1, <2>3 DEF Mishap, SecretsTyped
  <2> QED BY <2>2, <2>3 DEF SaveLink
<1>2. spoiled' = {} => l \in links'
  BY <1>1
<1>3. /\ \A b \in Authors : Authored(b)'
      /\ DOMAIN author' = Authors /\ LockIsHad' /\ ReadIsFile' /\ SecretOfLink' /\ EnvFollows'
      /\ \A n : InHand(n) => InHand(n)'
  <2>1. CASE (DOMAIN author' = Authors /\ \A b \in Authors : author'[b] = author[b])
    <3>1. SecretOfLink'
      BY <1>1, <2>1, RestingIsAuthored, AuthorsAre DEF SecretOfLink
    <3>2. \A b \in Authors : Authored(b)'
      BY <2>1 DEF SecretsTyped, Authored
    <3>3. LockIsHad' /\ ReadIsFile'
      BY <1>1, <2>1 DEF LockIsHad, ReadIsFile
    <3>4. EnvFollows'
      BY <1>1, <2>1, AuthorsAre DEF EnvFollows
    <3>5. \A n : InHand(n) => InHand(n)'
      BY <2>1 DEF InHand
    <3> QED BY <2>1, <3>1, <3>2, <3>3, <3>4, <3>5
  <2>2. CASE secret # "kept" /\ author' = [author EXCEPT !["loop"] = Change(l, secret, "rest")]
    <3>1. inForce' = (IF "rest" = "env" THEN secret ELSE inForce) /\ l \in Names /\ secret \in Secretives \cup {Absent}
      BY <1>1, <2>2 DEF Names
    <3> QED BY <1>1, <1>2, <2>2, <3>1, AuthorsAre, Begins
  <2> QED BY <1>1, <2>1, <2>2
<1>4. SecretsTyped'
  BY <1>1, <1>3 DEF SecretsTyped
<1>5. NoOrphanSecret'
  BY <1>1, <1>3 DEF NoOrphanSecret
<1>6. KeysAreKept' /\ SecretsArePrivate' /\ CachesAreFiles'
  BY <1>1 DEF KeysAreKept, SecretsArePrivate, CachesAreFiles
<1> QED BY <1>3, <1>4, <1>5, <1>6

\* A connection is deleted, and then its secret.
LEMMA LDeleteLink == ASSUME SecretsInv, NEW l \in Links, DeleteLink(l) PROVE SecretsInv'
<1> USE DEF SecretsInv
<1>1. /\ UNCHANGED <<creds, private, dotenv, inForce, credCache, holder, promised>> /\ author["loop"] = Resting
      /\ links' \subseteq Links
      /\ spoiled \subseteq spoiled' /\ spoiled' \subseteq spoiled \cup {"links"}
      /\ "links" \notin spoiled' => /\ spoiled' = spoiled /\ links' = links \ {l} /\ linkCache' = LinkCached(links')
                                   /\ author' = [author EXCEPT !["loop"] = Change(l, Absent, "rest")]
      /\ author' = author \/ author' = [author EXCEPT !["loop"] = Change(l, Absent, "rest")]
  <2>1. UNCHANGED <<creds, private, dotenv, inForce, credCache, holder, promised>> /\ author["loop"] = Resting
    BY DEF DeleteLink, NewEdit
  <2>2. CASE /\ NoMishap /\ links' = links \ {l} /\ linkCache' = LinkCached(links \ {l})
             /\ author' = [author EXCEPT !["loop"] = Change(l, Absent, "rest")]
    <3>1. LinkCached(links \ {l}) = LinkCached(links')
      BY <2>2
    <3> QED BY <2>1, <2>2, <3>1 DEF NoMishap, SecretsTyped
  <2>3. CASE Mishap("links") /\ (links' = links \/ links' = {}) /\ UNCHANGED author
    BY <2>1, <2>3 DEF Mishap, SecretsTyped
  <2> QED BY <2>2, <2>3 DEF DeleteLink
<1>2. /\ \A b \in Authors : Authored(b)'
      /\ DOMAIN author' = Authors /\ LockIsHad' /\ ReadIsFile' /\ SecretOfLink' /\ EnvFollows'
      /\ \A n : InHand(n) => InHand(n)'
      /\ "links" \notin spoiled' => InHand(l)'
  <2>1. CASE author' = author /\ "links" \in spoiled'
    <3>1. SecretOfLink'
      BY <1>1, <2>1, RestingIsAuthored DEF SecretOfLink
    <3>2. \A b \in Authors : Authored(b)'
      BY <2>1 DEF SecretsTyped, Authored
    <3> QED BY <1>1, <2>1, <3>1, <3>2 DEF SecretsTyped, LockIsHad, ReadIsFile, EnvFollows, InHand
  <2>2. CASE author' = [author EXCEPT !["loop"] = Change(l, Absent, "rest")]
    <3>1. inForce' = (IF "rest" = "env" THEN Absent ELSE inForce) /\ l \in Names
      BY <1>1, <2>2 DEF Names
    <3> QED BY <1>1, <2>2, <3>1, AuthorsAre, Begins
  <2> QED BY <1>1, <2>1, <2>2
<1>3. SecretsTyped'
  BY <1>1, <1>2 DEF SecretsTyped
<1>4. NoOrphanSecret'
  BY <1>1, <1>2 DEF NoOrphanSecret
<1>5. KeysAreKept' /\ SecretsArePrivate' /\ CachesAreFiles'
  BY <1>1 DEF KeysAreKept, SecretsArePrivate, CachesAreFiles
<1> QED BY <1>2, <1>3, <1>4, <1>5

\* The setting is written to .env.
LEMMA LPersistEnv == ASSUME SecretsInv, PersistEnv PROVE SecretsInv'
<1> USE DEF SecretsInv
<1>1. /\ UNCHANGED <<creds, private, links, inForce, credCache, linkCache, holder, edits, promised>>
      /\ author["loop"].at = "env" /\ author' = [author EXCEPT !["loop"] = Resting]
      /\ spoiled \subseteq spoiled' /\ spoiled' \subseteq spoiled \cup {"env"}
      /\ dotenv' \in Secretives \cup {Absent}
      /\ "env" \notin spoiled' => dotenv' = author["loop"].value
  BY AuthorsAre DEF PersistEnv, Rests, NoMishap, Mishap, SecretsTyped, Authored
<1>2. DOMAIN author' = Authors /\ author'["loop"] = Resting
      /\ \A b \in Authors \ {"loop"} : author'[b] = author[b] /\ Authored(b)'
  BY <1>1, OneAuthor, AuthorsAre
<1>3. Authored("loop")'
  BY <1>2, RestingIsAuthored DEF Authored
<1>4. Authored("loop")
  BY AuthorsAre DEF SecretsTyped
<1>5. SecretsTyped'
  BY <1>1, <1>2, <1>3 DEF SecretsTyped
<1>6. LockIsHad' /\ ReadIsFile'
  BY <1>1, <1>2, RestingIsAuthored DEF LockIsHad, ReadIsFile
<1>7. SecretOfLink' /\ EnvFollows'
  BY <1>1, <1>2, <1>4, RestingIsAuthored DEF SecretOfLink, EnvFollows, Authored
<1>8. NoOrphanSecret'
  <2>1. author["loop"].name = "key"
    BY <1>1, <1>4 DEF Authored
  <2>2. \A n : InHand(n) /\ n # "key" => InHand(n)'
    BY <1>2, <2>1 DEF InHand
  <2> QED BY <1>1, <2>2, SecretsAssumption DEF NoOrphanSecret
<1>9. KeysAreKept' /\ SecretsArePrivate' /\ CachesAreFiles'
  BY <1>1 DEF KeysAreKept, SecretsArePrivate, CachesAreFiles, LinkCached
<1> QED BY <1>5, <1>6, <1>7, <1>8, <1>9

\* Nothing but the files is left of a server that is killed.
LEMMA LRestarts == ASSUME SecretsInv, Restarts PROVE SecretsInv'
<1> USE DEF SecretsInv
<1>1. /\ UNCHANGED <<private, links, edits, promised>> /\ inForce' = dotenv' /\ holder' = "none"
      /\ credCache' = NoCache /\ linkCache' = NoCache /\ author' = [a \in Authors |-> Resting]
      /\ spoiled \subseteq spoiled' /\ spoiled' \subseteq spoiled \cup {"pair", "env", "creds"}
      /\ dotenv' \in Secretives \cup {Absent}
      /\ creds' = creds \/ (creds' = [n \in Names |-> Absent] /\ "creds" \in spoiled')
      /\ spoiled' = {} => creds' = creds /\ \A a \in Authors : author[a] = Resting
  BY DEF Restarts, SecretsTyped
<1>2. DOMAIN author' = Authors /\ \A a \in Authors : author'[a] = Resting
  BY <1>1
<1>3. \A a \in Authors : Authored(a)'
  BY <1>2, RestingIsAuthored DEF Authored
<1>4. SecretsTyped'
  BY <1>1, <1>2, <1>3 DEF SecretsTyped
<1>5. LockIsHad' /\ ReadIsFile' /\ SecretOfLink' /\ EnvFollows'
  BY <1>1, <1>2, AuthorsAre, RestingIsAuthored DEF LockIsHad, ReadIsFile, SecretOfLink, EnvFollows
<1>6. NoOrphanSecret'
  <2>1. spoiled' = {} => \A n : ~InHand(n)
    BY <1>1, RestingIsAuthored DEF InHand
  <2> QED BY <1>1, <2>1 DEF NoOrphanSecret
<1>7. KeysAreKept' /\ SecretsArePrivate' /\ CachesAreFiles'
  BY <1>1 DEF KeysAreKept, SecretsArePrivate, CachesAreFiles, NoCache
<1> QED BY <1>4, <1>5, <1>6, <1>7

\* Where nothing moves.
LEMMA SecretsStand == ASSUME SecretsInv, UNCHANGED secretVars PROVE SecretsInv'
<1> USE DEF SecretsInv
<1>1. UNCHANGED <<creds, private, links, dotenv, inForce, credCache, linkCache, holder, author, edits, mishaps, promised, spoiled>>
  BY DEF secretVars
<1>2. \A b \in Authors : Authored(b)'
  BY <1>1 DEF SecretsTyped, Authored
<1>3. SecretsTyped' /\ LockIsHad' /\ ReadIsFile' /\ SecretOfLink' /\ EnvFollows'
  BY <1>1, <1>2 DEF SecretsTyped, LockIsHad, ReadIsFile, SecretOfLink, EnvFollows
<1>4. NoOrphanSecret' /\ KeysAreKept' /\ SecretsArePrivate' /\ CachesAreFiles'
  BY <1>1 DEF NoOrphanSecret, KeysAreKept, SecretsArePrivate, CachesAreFiles, LinkCached, InHand
<1> QED BY <1>3, <1>4

\* Every step.
LEMMA SecretsStep == ASSUME SecretsInv, [SecretsNext]_secretVars PROVE SecretsInv'
<1>1. CASE UNCHANGED secretVars
  BY <1>1, SecretsStand
<1>2. CASE \E a \in Authors : ReadCreds(a) \/ OpenCreds(a) \/ LeaveUnchanged(a) \/ WriteCreds(a)
  BY <1>2, LReadCreds, LOpenCreds, LLeaveUnchanged, LWriteCreds
<1>3. CASE LoadCreds \/ LoadLinks
  BY <1>3, LLoadCreds, LLoadLinks
<1>4. CASE \E l \in Links : DeleteLink(l) \/ \E secret \in Secretives \cup {Absent, "kept"} : SaveLink(l, secret)
  BY <1>4, LDeleteLink, LSaveLink
<1>5. CASE \E value \in Secretives \cup {Absent} : StoreProviderKey(value)
  BY <1>5, LStoreProviderKey
<1>6. CASE \E value \in Secretives : PatchSetting(value)
  BY <1>6, LPatchSetting
<1>7. CASE PersistEnv \/ Restarts
  BY <1>7, LPersistEnv, LRestarts
<1> QED BY <1>1, <1>2, <1>3, <1>4, <1>5, <1>6, <1>7 DEF SecretsNext

\* What the run checks of it.
LEMMA SecretsShown == ASSUME SecretsInv PROVE SecretsTypeOK /\ SecretsHold
<1> USE DEF SecretsInv
<1>1. SecretsTypeOK
  BY DEF SecretsTypeOK, SecretsTyped, LockIsHad, Authored
<1>2. PatchOutlivesRestart
  BY RestingIsAuthored DEF PatchOutlivesRestart, EnvFollows
<1> QED BY <1>1, <1>2 DEF SecretsHold

\* Whatever authors, failures and crashes come between: the secrets, the keys, the caches and the
\* settings are as they were reported (Secrets.tla).
THEOREM SecretsAreKept == SecretsSpec => [](SecretsTypeOK /\ SecretsHold)
<1>1. SecretsSpec => []SecretsInv
  BY SecretsInitHolds, SecretsStep, PTL DEF SecretsSpec
<1> QED BY <1>1, SecretsShown, PTL

-----------------------------------------------------------------------------
(* Isolation: the inductive invariant.  The properties alone are not: they  *)
(* do not say what a cell has read, who is under the pool's lock, who       *)
(* printed over whom, or that a process that is down has nothing.           *)

\* The fields of a cell, the lives of the server, and where a cell may be.
Fields == {"at", "session", "root", "backend", "ran", "kept", "moved", "crowded"}
Lives == {"off", "checking", "pruning", "serving", "closing"}
CellPlaces == {"idle", "get", "lock", "start", "run", "enter", "exec", "done"}

\* Types, of cells and of the pool.
CellTyped ==
    /\ DOMAIN cell = Cells
    /\ \A c \in Cells :
        /\ DOMAIN cell[c] = Fields
        /\ cell[c].at \in CellPlaces
        /\ cell[c].at \notin {"idle"} => cell[c].session \in Users
        /\ cell[c].kept \in Cells \cup {Nobody}
        /\ cell[c].moved \in BOOLEAN /\ cell[c].crowded \in BOOLEAN

DockTyped ==
    /\ setting \in Backends /\ engine \in BOOLEAN
    /\ life \in Lives /\ boots \in 0..MaxBoots /\ (life # "off" => boots # 0)
    /\ docker \in {"unasked", "there", "none"}
    /\ made \in 0..MaxStarts
    /\ \A x \in containers : x.id \in 1..made /\ x.session \in Users /\ x.boot \in 1..boots
    /\ pooled \in [Users -> 0..made] /\ reports \in [Users -> 0..made] /\ asking \in [Users -> 0..made]
    /\ stopping \subseteq 1..made /\ stuck \subseteq 1..made
    /\ leaving \in [Users -> {"no", "released", "gone"}]
    /\ console \in Cells \cup {Nobody} /\ interpreter \in Cells \cup {Nobody}
    /\ heard \in [Cells -> SUBSET Cells]
    /\ upsets \in Nat

\* Nothing of the process is there while it is not.
Running == life \in {"serving", "closing"}

\* A server that is down has nothing in memory.
Down ==
    ~Running => /\ \A c \in Cells : ~InCourse(c)
           /\ \A s \in Users : pooled[s] = NoContainer /\ reports[s] = NoContainer /\ asking[s] = NoContainer

\* One start at a time, of the session of its cell, which has no container yet.
OneStart ==
    /\ \A c \in Cells : cell[c].at = "start" <=> starting.cell = c
    /\ starting.cell \notin Cells => starting = NoStart
    /\ starting.cell \in Cells =>
          LET s == cell[starting.cell].session IN
          /\ starting.id \in 1..made /\ pooled[s] = NoContainer
          /\ \A x \in containers : x.id = starting.id => x.session = s

\* What a cell that no change of the setting overtook has read.
Guarded ==
    \A c \in Cells :
        LET w == cell[c] IN
        ~w.moved =>
            /\ w.at \in {"get", "lock", "start", "run"} => (w.root = "container" <=> w.backend = "docker")
            /\ w.at \in {"idle", "get", "lock", "start"} => w.ran = "none"
            /\ w.at = "get" => w.backend = Active
            /\ w.at \in {"lock", "start"} => w.backend = "docker"
            /\ w.at = "run" => <<w.ran, w.backend>> \in {<<"container", "docker">>, <<"host", "host">>}

\* Code in this process never ran anywhere else.
Local == {c \in Cells : cell[c].at \in {"enter", "exec"}}

\* What runs in this process was sent here.
RanLocally == \A c \in Local : cell[c].ran = "local"

\* What a result says of where it ran.
Ended == ResultSaysWhere /\ GuardKnowsTheRoot

\* The interpreter's holder is the one that prints.
OnePrints ==
    /\ \A c \in Cells : cell[c].at = "exec" <=> interpreter = c
    /\ console \in Cells \cup {Nobody}
    /\ interpreter \in Cells => console = interpreter
    /\ \A c \in Cells : heard[c] \subseteq {c}

\* Cells that never met leave sys.stdout as it was.
Alone ==
    /\ \A c \in Cells : cell[c].at \notin {"enter", "exec", "done"} => ~cell[c].crowded
    /\ (\A c \in Cells : ~cell[c].crowded) =>
          /\ \A c, d \in Local : c = d
          /\ \A c \in Local : cell[c].kept = Nobody
          /\ interpreter \notin Cells => console = Nobody

\* What was asked and what was answered is of the container that is there.
DockCurrent ==
    \A s \in Users : leaving[s] = "no" /\ life # "closing" =>
        reports[s] \in {NoContainer, pooled[s]} /\ asking[s] \in {NoContainer, pooled[s]}

-----------------------------------------------------------------------------
(* What the moves of a cell keep.                                           *)

\* All that is about the cells.
CellInv == CellTyped /\ Guarded /\ RanLocally /\ Ended /\ OnePrints /\ Alone

\* Nothing of the cells changes.
LEMMA CellsStand ==
    ASSUME CellInv, UNCHANGED <<cell, localVars, setting, docker>> PROVE CellInv'
BY DEF CellInv, CellTyped, Guarded, RanLocally, Ended, OnePrints, Alone, ResultSaysWhere, GuardKnowsTheRoot,
   Local, Active, localVars

\* A cell that gets a runtime of its own.
LEMMA RunsInKeeps ==
    ASSUME CellInv, NEW c \in Cells, NEW where \in {"container", "host"}, RunsIn(c, where),
           cell[c].at \in {"get", "lock", "start"},
           ~cell[c].moved => cell[c].backend = IF where = "container" THEN "docker" ELSE "host",
           UNCHANGED <<localVars, setting, docker>>
    PROVE  /\ CellInv'
           /\ cell'[c].at = "run" /\ cell'[c].session = cell[c].session
           /\ \A o \in Cells \ {c} : cell'[o] = cell[o]
<1> USE DEF CellInv
<1>1. /\ DOMAIN cell' = Cells /\ DOMAIN cell'[c] = Fields
      /\ cell'[c].at = "run" /\ cell'[c].ran = where /\ cell'[c].session = cell[c].session
      /\ cell'[c].root = cell[c].root /\ cell'[c].backend = cell[c].backend
      /\ cell'[c].kept = cell[c].kept
      /\ cell'[c].moved = cell[c].moved /\ cell'[c].crowded = cell[c].crowded
      /\ \A o \in Cells \ {c} : cell'[o] = cell[o]
  BY DEF CellTyped, RunsIn, Fields
<1>2. CellTyped'
  BY <1>1 DEF CellTyped, CellPlaces
<1>3. Local' = Local
  BY <1>1 DEF Local
<1>4. Guarded'
  BY <1>1 DEF Guarded, Active
<1>5. RanLocally'
  BY <1>1, <1>3 DEF RanLocally, Local
<1>6. Ended'
  BY <1>1 DEF Ended, ResultSaysWhere, GuardKnowsTheRoot, Guarded
<1>7. OnePrints'
  BY <1>1 DEF OnePrints, localVars
<1>8. Alone'
  BY <1>1, <1>3 DEF Alone, localVars, Local
<1> QED BY <1>1, <1>2, <1>4, <1>5, <1>6, <1>7, <1>8

\* A cell that runs in this process.
LEMMA RunsLocallyKeeps ==
    ASSUME CellInv, Nobody \notin Cells, NEW c \in Cells, RunsLocally(c),
           cell[c].at \in {"get", "lock", "start"},
           UNCHANGED <<localVars, setting, docker>>
    PROVE  /\ CellInv'
           /\ cell'[c].at = "enter" /\ cell'[c].session = cell[c].session
           /\ \A o \in Cells \ {c} : cell'[o].at = cell[o].at /\ cell'[o].session = cell[o].session
<1> USE DEF CellInv
<1> DEFINE others == {o \in Cells \ {c} : cell[o].at \in {"enter", "exec"}}
<1>0. /\ DOMAIN cell' = Cells
      /\ cell'[c] = [cell[c] EXCEPT !.at = "enter", !.ran = "local", !.kept = console, !.crowded = (others # {})]
      /\ \A o \in Cells \ {c} : cell'[o] = [cell[o] EXCEPT !.crowded = (cell[o].crowded \/ o \in others)]
  BY DEF RunsLocally
<1> HIDE DEF others
<1>1. /\ DOMAIN cell' = Cells /\ \A o \in Cells : DOMAIN cell'[o] = Fields
      /\ cell'[c].at = "enter" /\ cell'[c].ran = "local" /\ cell'[c].kept = console
      /\ cell'[c].session = cell[c].session
      /\ cell'[c].root = cell[c].root /\ cell'[c].backend = cell[c].backend
      /\ cell'[c].moved = cell[c].moved /\ cell'[c].crowded = (others # {})
  BY ZenonT(60), <1>0 DEF CellTyped, Fields
<1>2. \A o \in Cells \ {c} :
        /\ cell'[o].at = cell[o].at /\ cell'[o].session = cell[o].session
        /\ cell'[o].root = cell[o].root /\ cell'[o].backend = cell[o].backend
        /\ cell'[o].ran = cell[o].ran /\ cell'[o].kept = cell[o].kept
        /\ cell'[o].moved = cell[o].moved
        /\ cell'[o].crowded = (cell[o].crowded \/ o \in others)
  BY <1>0 DEF CellTyped, Fields
<1>a. (cell'[c].crowded <=> others # {}) /\ \A o \in Cells \ {c} : cell'[o].crowded <=> cell[o].crowded \/ o \in others
  BY <1>1, <1>2
<1>3. CellTyped'
  <2>1. console \in Cells \cup {Nobody}
    BY DEF OnePrints
  <2>2. cell[c].session \in Users /\ cell[c].moved \in BOOLEAN
    BY DEF CellTyped
  <2>3. cell'[c].at \in CellPlaces /\ cell'[c].session \in Users /\ cell'[c].kept \in Cells \cup {Nobody}
    BY <1>1, <2>1, <2>2 DEF CellPlaces
  <2>4. cell'[c].moved \in BOOLEAN /\ cell'[c].crowded \in BOOLEAN
    BY Zenon, <1>1, <2>2
  <2>5. ASSUME NEW o \in Cells \ {c}
        PROVE  /\ cell'[o].at \in CellPlaces /\ (cell'[o].at \notin {"idle"} => cell'[o].session \in Users)
               /\ cell'[o].kept \in Cells \cup {Nobody} /\ cell'[o].moved \in BOOLEAN
    <3>1. /\ cell[o].at \in CellPlaces /\ (cell[o].at \notin {"idle"} => cell[o].session \in Users)
          /\ cell[o].kept \in Cells \cup {Nobody} /\ cell[o].moved \in BOOLEAN
      BY DEF CellTyped
    <3> QED BY Zenon, <1>2, <3>1
  <2>6. ASSUME NEW o \in Cells \ {c} PROVE cell'[o].crowded \in BOOLEAN
    BY Zenon, <1>2
  <2> QED BY Zenon, <1>1, <2>3, <2>4, <2>5, <2>6 DEF CellTyped
<1>4. Local' = Local \cup {c} /\ others = Local
  BY <1>1, <1>2 DEF Local, others
<1>5. Guarded'
  BY <1>1, <1>2 DEF Guarded, Active
<1>6. RanLocally'
  BY <1>1, <1>2, <1>4 DEF RanLocally, Local
<1>7. Ended'
  BY <1>1, <1>2 DEF Ended, ResultSaysWhere, GuardKnowsTheRoot
<1>8. OnePrints'
  BY <1>1, <1>2 DEF OnePrints, localVars
<1>9. Alone'
  <2>1. \A o \in Cells : cell'[o].at \notin {"enter", "exec", "done"} => ~cell'[o].crowded
    <3> SUFFICES ASSUME NEW o \in Cells, cell'[o].at \notin {"enter", "exec", "done"} PROVE ~cell'[o].crowded
      OBVIOUS
    <3>1. o # c /\ o \notin others /\ cell[o].at \notin {"enter", "exec", "done"}
      BY <1>1, <1>2, <1>4 DEF Local
    <3>2. ~cell[o].crowded
      BY <3>1 DEF Alone
    <3> QED BY <3>1, <3>2, <1>a
  <2>2. ASSUME \A o \in Cells : ~cell'[o].crowded
        PROVE  /\ \A o, d \in Local' : o = d
               /\ \A o \in Local' : cell'[o].kept = Nobody
               /\ interpreter' \notin Cells => console' = Nobody
    <3>1. Local = {}
      BY <2>2, <1>a, <1>4
    <3>2. \A o \in Cells : ~cell[o].crowded
      <4>1. ~cell[c].crowded
        BY DEF Alone
      <4> QED BY <2>2, <1>a, <4>1
    <3>3. interpreter \notin Cells
      BY <3>1 DEF OnePrints, Local
    <3>4. console = Nobody
      BY <3>2, <3>3 DEF Alone
    <3>5. Local' = {c} /\ cell'[c].kept = Nobody /\ console' = Nobody
      BY <3>1, <3>4, <1>1, <1>4 DEF localVars
    <3> QED BY <3>5
  <2> QED BY <2>1, <2>2 DEF Alone
<1> QED BY <1>1, <1>2, <1>3, <1>5, <1>6, <1>7, <1>8, <1>9

\* A cell that comes one place further, in no interpreter.
LEMMA StepKeeps ==
    ASSUME CellInv, NEW c \in Cells, NEW to \in {"lock", "start", "done"},
           cell' = [cell EXCEPT ![c].at = to],
           \/ cell[c].at = "get" /\ to = "lock" /\ Active = "docker"
           \/ cell[c].at = "lock" /\ to = "start"
           \/ cell[c].at = "run" /\ to = "done",
           UNCHANGED <<localVars, setting, docker>>
    PROVE  /\ CellInv'
           /\ cell'[c].at = to /\ cell'[c].session = cell[c].session
           /\ \A o \in Cells \ {c} : cell'[o] = cell[o]
<1> USE DEF CellInv
<1>1. /\ DOMAIN cell' = Cells /\ DOMAIN cell'[c] = Fields
      /\ cell'[c].at = to /\ cell'[c].ran = cell[c].ran /\ cell'[c].session = cell[c].session
      /\ cell'[c].root = cell[c].root /\ cell'[c].backend = cell[c].backend
      /\ cell'[c].kept = cell[c].kept
      /\ cell'[c].moved = cell[c].moved /\ cell'[c].crowded = cell[c].crowded
      /\ \A o \in Cells \ {c} : cell'[o] = cell[o]
  BY DEF CellTyped, Fields
<1>2. CellTyped'
  BY <1>1 DEF CellTyped, CellPlaces
<1>3. Local' = Local
  BY <1>1 DEF Local
<1>4. Guarded'
  BY <1>1 DEF Guarded, Active
<1>5. RanLocally'
  BY <1>1, <1>3 DEF RanLocally, Local
<1>6. Ended'
  BY <1>1 DEF Ended, ResultSaysWhere, GuardKnowsTheRoot, Guarded
<1>7. OnePrints'
  BY <1>1 DEF OnePrints, localVars
<1>8. Alone'
  BY <1>1, <1>3 DEF Alone, localVars, Local
<1> QED BY <1>1, <1>2, <1>4, <1>5, <1>6, <1>7, <1>8

-----------------------------------------------------------------------------
(* What the moves of the pool keep.                                         *)

\* All that is about the pool.
DockInv == DockTyped /\ Down /\ OneStart /\ ContainersAreAccounted /\ LeftoversArePruned /\ DockCurrent

\* A cell moves on and the pool does not.
LEMMA PoolStands ==
    ASSUME DockInv, UNCHANGED <<bootVars, dockVars, capVars>>,
           console' \in Cells \cup {Nobody}, interpreter' \in Cells \cup {Nobody},
           heard' \in [Cells -> SUBSET Cells],
           upsets' \in Nat, upsets' >= upsets,
           \A c \in Cells : /\ cell'[c].at = "start" <=> cell[c].at = "start"
                            /\ cell'[c].session = cell[c].session \/ cell'[c].at # "start"
                            /\ InCourse(c)' => InCourse(c) \/ Running
    PROVE  DockInv'
<1> USE DEF DockInv, bootVars, dockVars, capVars
<1>1. DockTyped'
  BY DEF DockTyped
<1>2. Down'
  BY DEF Down, Running
<1>3. OneStart'
  BY DEF OneStart
<1>4. ContainersAreAccounted'
  BY DEF ContainersAreAccounted, DockTyped
<1>5. LeftoversArePruned' /\ DockCurrent'
  BY DEF LeftoversArePruned, DockCurrent
<1> QED BY <1>1, <1>2, <1>3, <1>4, <1>5

\* The inductive invariant.
IsoInv == DockInv /\ CellInv

-----------------------------------------------------------------------------
(* The actions of a cell.                                                   *)

\* A cell reads the backend and is guarded.
LEMMA LBegin ==
    ASSUME IsoInv, NEW c \in Cells, NEW s \in Users, BeginCell(c, s) PROVE IsoInv'
<1> USE DEF IsoInv
<1> DEFINE new(verdict) ==
      [Waiting EXCEPT !.session = s, !.backend = Active,
                      !.root = IF Active = "docker" THEN "container" ELSE "session",
                      !.at = IF verdict = "ok" THEN "get" ELSE "done",
                      !.ran = IF verdict = "ok" THEN "none" ELSE "nowhere"]
<1>0. PICK verdict \in {"ok", "refused"} : cell' = [cell EXCEPT ![c] = new(verdict)]
  BY DEF BeginCell
<1>1. /\ DOMAIN new(verdict) = Fields
      /\ new(verdict).at = IF verdict = "ok" THEN "get" ELSE "done"
      /\ new(verdict).ran = IF verdict = "ok" THEN "none" ELSE "nowhere"
      /\ new(verdict).root = IF Active = "docker" THEN "container" ELSE "session"
      /\ new(verdict).backend = Active /\ new(verdict).session = s
      /\ new(verdict).kept = Nobody /\ new(verdict).moved = FALSE /\ new(verdict).crowded = FALSE
  BY DEF Waiting, Fields
<1> HIDE DEF new
<1>2. /\ life = "serving" /\ cell[c].at = "idle"
      /\ UNCHANGED <<bootVars, dockVars, capVars, localVars, upsets>>
  BY DEF BeginCell
<1>3. /\ DOMAIN cell' = Cells /\ cell'[c] = new(verdict)
      /\ \A o \in Cells \ {c} : cell'[o] = cell[o]
  BY <1>0 DEF CellInv, CellTyped
<1>4. DockInv'
  <2>1. \A o \in Cells : /\ cell'[o].at = "start" <=> cell[o].at = "start"
                         /\ cell'[o].session = cell[o].session \/ cell'[o].at # "start"
                         /\ InCourse(o)' => InCourse(o) \/ Running
    BY <1>1, <1>2, <1>3 DEF InCourse, Running
  <2>2. /\ console' \in Cells \cup {Nobody} /\ interpreter' \in Cells \cup {Nobody}
        /\ heard' \in [Cells -> SUBSET Cells] /\ upsets' \in Nat /\ upsets' >= upsets
    BY <1>2 DEF DockInv, DockTyped, localVars
  <2> QED BY <1>2, <2>1, <2>2, PoolStands
<1>5. Active' = Active
  BY <1>2 DEF Active, bootVars
<1>6. CellTyped'
  BY <1>1, <1>3 DEF CellInv, CellTyped, CellPlaces
<1>7. Local' = Local
  BY <1>1, <1>2, <1>3 DEF Local
<1>8. Guarded'
  BY <1>1, <1>3, <1>5 DEF CellInv, Guarded
<1>9. RanLocally'
  BY <1>1, <1>2, <1>3, <1>7 DEF CellInv, RanLocally, Local
<1>10. Ended'
  BY <1>1, <1>3 DEF CellInv, Ended, ResultSaysWhere, GuardKnowsTheRoot
<1>11. OnePrints'
  BY <1>1, <1>2, <1>3 DEF CellInv, OnePrints, localVars
<1>12. Alone'
  <2>1. (\A o \in Cells : ~cell'[o].crowded) => \A o \in Cells : ~cell[o].crowded
    BY <1>2, <1>3 DEF CellInv, Alone
  <2>2. \A o \in Cells : cell'[o].at \notin {"enter", "exec", "done"} => ~cell'[o].crowded
    BY <1>1, <1>3 DEF CellInv, Alone
  <2>3. \A o \in Local : cell'[o].kept = cell[o].kept
    BY <1>2, <1>3 DEF Local
  <2> QED BY <1>2, <1>7, <2>1, <2>2, <2>3 DEF CellInv, Alone, localVars
<1> QED BY <1>4, <1>6, <1>8, <1>9, <1>10, <1>11, <1>12 DEF CellInv

\* It reads the backend again.
LEMMA LGetRuntime ==
    ASSUME IsoInv, NEW c \in Cells, GetRuntime(c) PROVE IsoInv'
<1> USE DEF IsoInv
<1>1. cell[c].at = "get" /\ UNCHANGED <<bootVars, dockVars, capVars, localVars>>
  BY DEF GetRuntime
<1>2. UNCHANGED <<setting, docker>> /\ Nobody \notin Cells
  BY <1>1, IsolationAssumption DEF bootVars
<1>3. ~cell[c].moved => cell[c].backend = Active
  BY <1>1 DEF CellInv, Guarded
<1>4. /\ CellInv'
      /\ cell'[c].at # "start" /\ cell'[c].session = cell[c].session
      /\ \A o \in Cells \ {c} : cell'[o].at = cell[o].at /\ cell'[o].session = cell[o].session
  <2>1. CASE Active = "docker" /\ RunsIn(c, "container")
    BY <1>1, <1>2, <1>3, <2>1, RunsInKeeps
  <2>2. CASE Active = "docker" /\ cell' = [cell EXCEPT ![c].at = "lock"]
    BY <1>1, <1>2, <2>2, StepKeeps
  <2>3. CASE Active = "host" /\ RunsIn(c, "host")
    BY <1>1, <1>2, <1>3, <2>3, RunsInKeeps
  <2>4. CASE RunsLocally(c)
    BY <1>1, <1>2, <2>4, RunsLocallyKeeps
  <2> QED BY <2>1, <2>2, <2>3, <2>4 DEF GetRuntime
<1>5. upsets' \in Nat /\ upsets' >= upsets
  BY DEF GetRuntime, Upset, Smooth, DockInv, DockTyped
<1>6. DockInv'
  <2>1. \A o \in Cells : /\ cell'[o].at = "start" <=> cell[o].at = "start"
                         /\ cell'[o].session = cell[o].session \/ cell'[o].at # "start"
                         /\ InCourse(o)' => InCourse(o) \/ Running
    BY <1>1, <1>4 DEF InCourse
  <2>2. /\ console' \in Cells \cup {Nobody} /\ interpreter' \in Cells \cup {Nobody}
        /\ heard' \in [Cells -> SUBSET Cells]
    BY <1>1 DEF DockInv, DockTyped, localVars
  <2> QED BY <1>1, <1>5, <2>1, <2>2, PoolStands
<1> QED BY <1>4, <1>6

\* Code ends in a container or on the host.
LEMMA LFinishRun ==
    ASSUME IsoInv, NEW c \in Cells, FinishRun(c) PROVE IsoInv'
<1> USE DEF IsoInv
<1>1. /\ cell[c].at = "run" /\ cell' = [cell EXCEPT ![c].at = "done"]
      /\ UNCHANGED <<bootVars, dockVars, capVars, localVars, upsets>>
  BY DEF FinishRun
<1>2. UNCHANGED <<setting, docker>>
  BY <1>1 DEF bootVars
<1>4. /\ CellInv'
      /\ cell'[c].at = "done" /\ cell'[c].session = cell[c].session
      /\ \A o \in Cells \ {c} : cell'[o] = cell[o]
  BY <1>1, <1>2, StepKeeps
<1>6. DockInv'
  <2>1. \A o \in Cells : /\ cell'[o].at = "start" <=> cell[o].at = "start"
                         /\ cell'[o].session = cell[o].session \/ cell'[o].at # "start"
                         /\ InCourse(o)' => InCourse(o) \/ Running
    BY <1>1, <1>4 DEF InCourse
  <2>2. /\ console' \in Cells \cup {Nobody} /\ interpreter' \in Cells \cup {Nobody}
        /\ heard' \in [Cells -> SUBSET Cells] /\ upsets' \in Nat /\ upsets' >= upsets
    BY <1>1 DEF DockInv, DockTyped, localVars
  <2> QED BY <1>1, <2>1, <2>2, PoolStands
<1> QED BY <1>4, <1>6

\* The three moves of the interpreter.
LEMMA LInterpreter ==
    ASSUME IsoInv, NEW c \in Cells, EnterInterpreter(c) \/ PrintLine(c) \/ LeaveInterpreter(c)
    PROVE  IsoInv'
<1> USE DEF IsoInv
<1>1. UNCHANGED <<bootVars, dockVars, capVars, upsets>> /\ cell[c].at \in {"enter", "exec"}
  BY DEF EnterInterpreter, PrintLine, LeaveInterpreter
<1>2. Active' = Active /\ Nobody \notin Cells
  BY <1>1, IsolationAssumption DEF Active, bootVars
<1>3. CASE PrintLine(c)
  <2>1. /\ cell[c].at = "exec" /\ heard' = [heard EXCEPT ![console] = @ \cup {c}]
        /\ UNCHANGED <<cell, console, interpreter>>
    BY <1>3 DEF PrintLine
  <2>2. interpreter = c /\ console = c
    BY <2>1 DEF CellInv, OnePrints
  <2>3. OnePrints' /\ heard' \in [Cells -> SUBSET Cells]
    BY <2>1, <2>2 DEF CellInv, OnePrints, DockInv, DockTyped
  <2>4. CellInv'
    BY <1>2, <2>1, <2>3 DEF CellInv, CellTyped, Guarded, RanLocally, Ended, Alone, ResultSaysWhere,
       GuardKnowsTheRoot, Local
  <2>5. DockInv'
    <3>1. /\ console' \in Cells \cup {Nobody} /\ interpreter' \in Cells \cup {Nobody}
          /\ upsets' \in Nat /\ upsets' >= upsets
      BY <1>1, <2>1 DEF DockInv, DockTyped
    <3>2. \A o \in Cells : /\ cell'[o].at = "start" <=> cell[o].at = "start"
                           /\ cell'[o].session = cell[o].session \/ cell'[o].at # "start"
                           /\ InCourse(o)' => InCourse(o) \/ Running
      BY <2>1 DEF InCourse
    <3> QED BY <1>1, <2>3, <3>1, <3>2, PoolStands
  <2> QED BY <2>4, <2>5
<1>4. CASE EnterInterpreter(c)
  <2>1. /\ cell[c].at = "enter" /\ interpreter = Nobody /\ interpreter' = c /\ console' = c
        /\ UNCHANGED heard
    BY <1>4 DEF EnterInterpreter
  <2>2. /\ DOMAIN cell' = Cells /\ DOMAIN cell'[c] = Fields
        /\ cell'[c].at = "exec" /\ cell'[c].ran = cell[c].ran /\ cell'[c].session = cell[c].session
        /\ cell'[c].root = cell[c].root /\ cell'[c].backend = cell[c].backend
        /\ cell'[c].kept = cell[c].kept
        /\ cell'[c].moved = cell[c].moved /\ cell'[c].crowded = cell[c].crowded
        /\ \A o \in Cells \ {c} : cell'[o] = cell[o]
    BY <1>4 DEF EnterInterpreter, CellInv, CellTyped, Fields
  <2>3. CellTyped'
    BY <2>1, <2>2 DEF CellInv, CellTyped, CellPlaces
  <2>4. Local' = Local
    BY <2>1, <2>2 DEF Local
  <2>5. Guarded' /\ RanLocally' /\ Ended'
    BY <1>2, <2>1, <2>2, <2>4 DEF CellInv, Guarded, RanLocally, Local, Ended, ResultSaysWhere, GuardKnowsTheRoot
  <2>6. OnePrints'
    BY <1>2, <2>1, <2>2 DEF CellInv, OnePrints
  <2>7. Alone'
    BY <2>1, <2>2, <2>4 DEF CellInv, Alone, Local
  <2>8. DockInv'
    <3>1. /\ console' \in Cells \cup {Nobody} /\ interpreter' \in Cells \cup {Nobody}
          /\ heard' \in [Cells -> SUBSET Cells] /\ upsets' \in Nat /\ upsets' >= upsets
      BY <1>1, <2>1 DEF DockInv, DockTyped
    <3>2. \A o \in Cells : /\ cell'[o].at = "start" <=> cell[o].at = "start"
                           /\ cell'[o].session = cell[o].session \/ cell'[o].at # "start"
                           /\ InCourse(o)' => InCourse(o) \/ Running
      BY <2>1, <2>2 DEF InCourse
    <3> QED BY <1>1, <3>1, <3>2, PoolStands
  <2> QED BY <2>3, <2>5, <2>6, <2>7, <2>8 DEF CellInv
<1>5. CASE LeaveInterpreter(c)
  <2>1. /\ cell[c].at = "exec" /\ interpreter' = Nobody /\ console' = cell[c].kept
        /\ UNCHANGED heard
    BY <1>5 DEF LeaveInterpreter
  <2>2. /\ DOMAIN cell' = Cells /\ DOMAIN cell'[c] = Fields
        /\ cell'[c].at = "done" /\ cell'[c].ran = cell[c].ran /\ cell'[c].session = cell[c].session
        /\ cell'[c].root = cell[c].root /\ cell'[c].backend = "inprocess"
        /\ cell'[c].kept = cell[c].kept
        /\ cell'[c].moved = cell[c].moved /\ cell'[c].crowded = cell[c].crowded
        /\ \A o \in Cells \ {c} : cell'[o] = cell[o]
    BY <1>5 DEF LeaveInterpreter, CellInv, CellTyped, Fields
  <2>3. CellTyped'
    BY <2>1, <2>2 DEF CellInv, CellTyped, CellPlaces
  <2>4. Local' = Local \ {c} /\ c \in Local /\ cell[c].ran = "local"
    BY <2>1, <2>2 DEF Local, CellInv, RanLocally
  <2>5. Guarded' /\ RanLocally' /\ Ended'
    BY <1>2, <2>1, <2>2, <2>4 DEF CellInv, Guarded, RanLocally, Local, Ended, ResultSaysWhere, GuardKnowsTheRoot
  <2>6. OnePrints'
    BY <1>2, <2>1, <2>2 DEF CellInv, CellTyped, OnePrints
  <2>7. Alone'
    <3>1. (\A o \in Cells : ~cell'[o].crowded) => cell[c].kept = Nobody
      BY <2>2, <2>4 DEF CellInv, Alone
    <3> QED BY <2>1, <2>2, <2>4, <3>1 DEF CellInv, Alone, Local
  <2>8. DockInv'
    <3>1. console' \in Cells \cup {Nobody}
      BY <2>1 DEF CellInv, CellTyped
    <3>2. /\ interpreter' \in Cells \cup {Nobody}
          /\ heard' \in [Cells -> SUBSET Cells] /\ upsets' \in Nat /\ upsets' >= upsets
      BY <1>1, <2>1 DEF DockInv, DockTyped
    <3>3. \A o \in Cells : /\ cell'[o].at = "start" <=> cell[o].at = "start"
                           /\ cell'[o].session = cell[o].session \/ cell'[o].at # "start"
                           /\ InCourse(o)' => InCourse(o) \/ Running
      BY <2>1, <2>2 DEF InCourse
    <3> QED BY <1>1, <3>1, <3>2, <3>3, PoolStands
  <2> QED BY <2>3, <2>5, <2>6, <2>7, <2>8 DEF CellInv
<1> QED BY <1>3, <1>4, <1>5

-----------------------------------------------------------------------------
(* The pool's lock.                                                         *)

\* The second look, and a start where there is still nothing.
LEMMA LLockPool ==
    ASSUME IsoInv, NEW c \in Cells, LockPool(c) PROVE IsoInv'
<1> USE DEF IsoInv
<1> DEFINE s == cell[c].session
<1>1. /\ cell[c].at = "lock" /\ starting = NoStart
      /\ UNCHANGED <<bootVars, pooled, stopping, stuck, capVars, localVars>>
  BY DEF LockPool
<1>2. UNCHANGED <<setting, docker>> /\ Nobody \notin Cells /\ s \in Users
  BY <1>1, IsolationAssumption DEF bootVars, CellInv, CellTyped
<1>3. ~cell[c].moved => cell[c].backend = "docker"
  BY <1>1 DEF CellInv, Guarded
<1>4. upsets' \in Nat /\ upsets' >= upsets
  BY DEF LockPool, Upset, Smooth, DockInv, DockTyped
<1>a. /\ console' \in Cells \cup {Nobody} /\ interpreter' \in Cells \cup {Nobody}
      /\ heard' \in [Cells -> SUBSET Cells]
  BY <1>1 DEF DockInv, DockTyped, localVars
<1>5. CASE UNCHANGED <<containers, made, starting>> /\ (RunsIn(c, "container") \/ RunsLocally(c))
  <2>1. /\ CellInv'
        /\ cell'[c].at \in {"run", "enter"} /\ cell'[c].session = cell[c].session
        /\ \A o \in Cells \ {c} : cell'[o].at = cell[o].at /\ cell'[o].session = cell[o].session
    <3>1. CASE RunsIn(c, "container")
      BY <1>1, <1>2, <1>3, <3>1, RunsInKeeps
    <3>2. CASE RunsLocally(c)
      BY <1>1, <1>2, <3>2, RunsLocallyKeeps
    <3> QED BY <1>5, <3>1, <3>2
  <2>2. \A o \in Cells : /\ cell'[o].at = "start" <=> cell[o].at = "start"
                         /\ cell'[o].session = cell[o].session \/ cell'[o].at # "start"
                         /\ InCourse(o)' => InCourse(o) \/ Running
    BY <1>1, <2>1 DEF InCourse
  <2>3. UNCHANGED dockVars
    BY <1>1, <1>5 DEF dockVars
  <2> QED BY <1>1, <1>4, <1>a, <2>1, <2>2, <2>3, PoolStands
<1>6. CASE /\ pooled[s] = NoContainer /\ made < MaxStarts /\ made' = made + 1
           /\ containers' = containers \cup {[id |-> made + 1, session |-> s, boot |-> boots]}
           /\ starting' = [cell |-> c, id |-> made + 1]
           /\ cell' = [cell EXCEPT ![c].at = "start"]
  <2>1. /\ CellInv'
        /\ cell'[c].at = "start" /\ cell'[c].session = s
        /\ \A o \in Cells \ {c} : cell'[o] = cell[o]
    BY <1>1, <1>2, <1>6, StepKeeps
  <2> DEFINE new == [id |-> made + 1, session |-> s, boot |-> boots]
  <2>2. Running /\ boots \in 1..boots
    <3>1. Running
      BY <1>1 DEF DockInv, Down, InCourse
    <3> QED BY <3>1 DEF DockInv, DockTyped, Running
  <2>3. made \in Nat /\ made' \in 0..MaxStarts /\ 0..made \subseteq 0..made' /\ 1..made \subseteq 1..made'
    <3>1. made \in 0..MaxStarts /\ MaxStarts \in Nat
      BY IsolationAssumption DEF DockInv, DockTyped
    <3> QED BY <1>6, <3>1
  <2>4. /\ new.id = made + 1 /\ new.session = s /\ new.boot = boots /\ new.id \in 1..made'
        /\ containers' = containers \cup {new}
    BY <1>6, <2>3
  <2> HIDE DEF new
  <2>5. \A x \in containers : x.id \in 1..made /\ x.session \in Users /\ x.boot \in 1..boots
    BY DEF DockInv, DockTyped
  <2>6. DockTyped'
    <3>1. \A x \in containers' : x.id \in 1..made' /\ x.session \in Users /\ x.boot \in 1..boots
      BY <1>2, <2>2, <2>3, <2>4, <2>5
    <3>2. /\ pooled \in [Users -> 0..made'] /\ reports \in [Users -> 0..made'] /\ asking \in [Users -> 0..made']
          /\ stopping \subseteq 1..made' /\ stuck \subseteq 1..made'
      BY <2>3 DEF DockInv, DockTyped
    <3> QED BY <1>1, <1>4, <1>a, <2>3, <3>1, <3>2 DEF DockInv, DockTyped, bootVars, capVars
  <2>7. Down'
    BY <1>1, <2>2 DEF Down, Running, bootVars
  <2>8. starting'.cell = c /\ starting'.id = made + 1 /\ starting.cell = Nobody /\ starting.id = NoContainer
    BY <1>1, <1>6 DEF NoStart
  <2>9. OneStart'
    <3>1. \A o \in Cells : cell[o].at # "start"
      BY <1>2, <2>8 DEF DockInv, OneStart
    <3>2. \A o \in Cells : cell'[o].at = "start" <=> starting'.cell = o
      BY <2>1, <2>8, <3>1
    <3>3. made + 1 \in 1..made' /\ pooled'[s] = NoContainer
      BY <1>1, <1>6, <2>3
    <3>4. \A x \in containers' : x.id = made + 1 => x.session = s
      BY <2>3, <2>4, <2>5
    <3> QED BY <2>1, <2>8, <3>2, <3>3, <3>4 DEF OneStart
  <2>10. ContainersAreAccounted'
    <3>1. \A x \in containers : x.id # NoContainer
      BY <2>5 DEF NoContainer
    <3>2. \A x \in containers : x.boot = boots => x.id \in {pooled[x.session]} \cup stopping \cup stuck
      BY <2>2, <2>8, <3>1 DEF DockInv, ContainersAreAccounted, Running
    <3> QED BY <1>1, <2>4, <2>8, <3>2 DEF ContainersAreAccounted, bootVars
  <2>11. LeftoversArePruned'
    <3>1. ~(boots < boots)
      BY <2>2
    <3> QED BY <1>1, <2>4, <3>1 DEF DockInv, LeftoversArePruned, bootVars
  <2>12. DockCurrent'
    BY <1>1 DEF DockInv, DockCurrent, bootVars, capVars
  <2> QED BY <2>1, <2>6, <2>7, <2>9, <2>10, <2>11, <2>12 DEF DockInv
<1> QED
  <2>1. CASE pooled[s] # NoContainer
    BY <1>5, <2>1 DEF LockPool, Present
  <2>2. CASE pooled[s] = NoContainer
    BY <1>5, <1>6, <2>2 DEF LockPool, Present
  <2> QED BY <2>1, <2>2

\* The end of a start, under the lock.
LEMMA LFinishStart ==
    ASSUME IsoInv, NEW c \in Cells, FinishStart(c) PROVE IsoInv'
<1> USE DEF IsoInv
<1> DEFINE s == cell[c].session
<1>1. /\ cell[c].at = "start" /\ starting' = NoStart
      /\ UNCHANGED <<bootVars, made, stopping, capVars, localVars>>
  BY DEF FinishStart
<1>2. UNCHANGED <<setting, docker>> /\ Nobody \notin Cells /\ s \in Users
  BY <1>1, IsolationAssumption DEF bootVars, CellInv, CellTyped
<1>3. /\ ~cell[c].moved => cell[c].backend = "docker"
      /\ starting.cell = c /\ starting.id \in 1..made /\ pooled[s] = NoContainer
      /\ \A x \in containers : x.id = starting.id => x.session = s
      /\ \A o \in Cells : cell[o].at = "start" <=> o = c
  BY <1>1 DEF CellInv, Guarded, DockInv, OneStart
<1>4. upsets' \in Nat /\ upsets' >= upsets
  BY DEF FinishStart, Upset, Smooth, DockInv, DockTyped
<1>5. Running /\ boots' = boots /\ life' = life
  BY <1>1 DEF DockInv, Down, InCourse, bootVars
<1>6. /\ CellInv'
      /\ cell'[c].at \in {"run", "enter"}
      /\ \A o \in Cells \ {c} : cell'[o].at = cell[o].at
  <2>1. CASE RunsIn(c, "container")
    BY <1>1, <1>2, <1>3, <2>1, RunsInKeeps
  <2>2. CASE RunsLocally(c)
    BY <1>1, <1>2, <2>2, RunsLocallyKeeps
  <2> QED BY <2>1, <2>2 DEF FinishStart
<1>7. /\ \A x \in containers' : x \in containers
      /\ \/ /\ pooled' = [pooled EXCEPT ![s] = starting.id] /\ UNCHANGED <<containers, stuck>>
         \/ /\ pooled' = pooled /\ stuck' \subseteq 1..made /\ stuck \subseteq stuck'
            /\ \A x \in containers' : x.id = starting.id => x.id \in stuck'
  BY <1>3 DEF FinishStart, Gone, DockInv, DockTyped
<1>8. DockTyped'
  <2>1. pooled' \in [Users -> 0..made] /\ stuck' \subseteq 1..made
    <3>1. pooled \in [Users -> 0..made] /\ stuck \subseteq 1..made /\ starting.id \in 0..made
      BY <1>3 DEF DockInv, DockTyped
    <3> QED BY <1>2, <1>7, <3>1
  <2> QED BY <1>1, <1>4, <1>7, <2>1 DEF DockInv, DockTyped, bootVars, capVars, localVars
<1>9. Down'
  BY <1>5 DEF Down, Running
<1>10. OneStart'
  <2>1. \A o \in Cells : cell'[o].at # "start"
    BY <1>3, <1>6
  <2> QED BY <1>1, <1>2, <2>1 DEF OneStart, NoStart
<1>11. ContainersAreAccounted'
  <2> SUFFICES ASSUME NEW x \in containers', x.boot = boots
               PROVE  x.id \in {pooled'[x.session]} \cup stopping' \cup stuck'
    BY <1>5 DEF ContainersAreAccounted
  <2>1. x \in containers /\ x.session \in Users /\ x.id # NoContainer
    BY <1>7 DEF DockInv, DockTyped, NoContainer
  <2>2. x.id \in {pooled[x.session], starting.id} \cup stopping \cup stuck
    BY <1>5, <2>1 DEF DockInv, ContainersAreAccounted, Running
  <2>3. DOMAIN pooled = Users
    BY DEF DockInv, DockTyped
  <2>4. stuck \subseteq stuck' /\ stopping' = stopping
    BY <1>1, <1>7
  <2>5. CASE x.id = starting.id
    <3>1. x.session = s
      BY <1>3, <2>1, <2>5
    <3> QED BY <1>2, <1>7, <2>3, <2>5, <3>1
  <2>6. CASE x.id = pooled[x.session]
    <3>1. x.session # s
      BY <1>3, <2>1, <2>6
    <3>2. pooled'[x.session] = pooled[x.session]
      BY <1>7, <2>1, <2>3, <3>1
    <3> QED BY <2>6, <3>2
  <2>7. CASE x.id \in stopping \cup stuck
    BY <2>4, <2>7
  <2> QED BY <2>2, <2>5, <2>6, <2>7
<1>12. LeftoversArePruned'
  BY <1>1, <1>5, <1>7 DEF DockInv, LeftoversArePruned, bootVars
<1>13. DockCurrent'
  <2>1. \A u \in Users : pooled[u] # NoContainer => pooled'[u] = pooled[u]
    BY <1>3, <1>7 DEF DockInv, DockTyped
  <2> QED BY <1>1, <1>5, <2>1 DEF DockInv, DockCurrent, capVars
<1> QED BY <1>6, <1>8, <1>9, <1>10, <1>11, <1>12, <1>13 DEF DockInv

-----------------------------------------------------------------------------
(* The process, its settings and its engine.                                *)

\* A process starts, looks for Docker, and is asked to close: no cell is about.
LEMMA LProcess ==
    ASSUME IsoInv, StartServer \/ CheckClient \/ BeginClosing \/ EngineTurns PROVE IsoInv'
<1> USE DEF IsoInv
<1>1. UNCHANGED <<setting, dockVars, capVars, cell, localVars>> /\ (docker' = docker \/ ~Running)
  BY DEF StartServer, CheckClient, BeginClosing, EngineTurns, Running
<1>2. upsets' \in Nat /\ upsets' >= upsets
  BY DEF StartServer, CheckClient, BeginClosing, EngineTurns, Upset, DockInv, DockTyped
<1>3. CellInv'
  <2>1. CASE docker' = docker
    BY <1>1, <2>1, CellsStand
  <2>2. CASE ~Running
    <3>1. \A c \in Cells : cell[c].at \in {"idle", "done"}
      BY <2>2 DEF DockInv, Down, InCourse
    <3>2. CellTyped' /\ RanLocally' /\ Ended' /\ OnePrints' /\ Alone' /\ Local' = Local
      BY <1>1 DEF CellInv, CellTyped, RanLocally, Ended, OnePrints, Alone, ResultSaysWhere,
         GuardKnowsTheRoot, Local, localVars
    <3>3. Guarded'
      BY <1>1, <3>1 DEF CellInv, Guarded
    <3> QED BY <3>2, <3>3 DEF CellInv
  <2> QED BY <1>1, <2>1, <2>2
<1>4. /\ life' \in Lives /\ boots' \in 0..MaxBoots /\ (life' # "off" => boots' # 0)
      /\ boots' >= boots /\ boots \in Nat
      /\ docker' \in {"unasked", "there", "none"} /\ engine' \in BOOLEAN
  <2>0. boots \in 0..MaxBoots /\ MaxBoots \in Nat /\ life \in Lives /\ engine \in BOOLEAN
        /\ (life # "off" => boots # 0) /\ docker \in {"unasked", "there", "none"}
    BY IsolationAssumption DEF DockInv, DockTyped
  <2>1. CASE StartServer
    BY <2>0, <2>1 DEF StartServer, Lives
  <2>2. CASE CheckClient
    BY <2>0, <2>2 DEF CheckClient, Lives
  <2>3. CASE BeginClosing
    BY <2>0, <2>3 DEF BeginClosing, Lives
  <2>4. CASE EngineTurns
    <3>1. UNCHANGED <<life, boots, docker>> /\ engine' = ~engine
      BY <2>4 DEF EngineTurns
    <3> QED BY <2>0, <3>1
  <2> QED BY <2>1, <2>2, <2>3, <2>4
<1>5. DockTyped'
  <2>1. \A x \in containers : x.boot \in 1..boots => x.boot \in 1..boots'
    BY <1>4
  <2> QED BY <1>1, <1>2, <1>4, <2>1 DEF DockInv, DockTyped, dockVars, capVars, localVars
<1>6. Down'
  <2>1. Running' => Running
    BY DEF StartServer, CheckClient, BeginClosing, EngineTurns, Running
  <2>2. Running => Running'
    BY DEF StartServer, CheckClient, BeginClosing, EngineTurns, Running
  <2> QED BY <1>1, <2>2 DEF DockInv, Down, dockVars, capVars, InCourse
<1>7. OneStart'
  BY <1>1 DEF DockInv, OneStart, dockVars
<1>8. ContainersAreAccounted'
  <2>1. CASE StartServer
    <3>1. \A x \in containers' : x.boot # boots'
      BY <1>1, <2>1 DEF StartServer, DockInv, DockTyped, dockVars
    <3> QED BY <3>1 DEF ContainersAreAccounted
  <2>2. CASE CheckClient \/ BeginClosing \/ EngineTurns
    <3>1. boots' = boots /\ (life = "off" <=> life' = "off")
      BY <2>2 DEF CheckClient, BeginClosing, EngineTurns
    <3> QED BY <1>1, <1>2, <3>1 DEF DockInv, DockTyped, ContainersAreAccounted, dockVars
  <2> QED BY <2>1, <2>2
<1>9. LeftoversArePruned'
  BY <1>1 DEF StartServer, CheckClient, BeginClosing, EngineTurns, DockInv, LeftoversArePruned, dockVars
<1>10. DockCurrent'
  <2>1. CASE life' = "closing"
    BY <2>1 DEF DockCurrent
  <2>2. CASE life # "closing"
    BY <1>1, <2>2 DEF DockInv, DockCurrent, dockVars, capVars
  <2>3. life = "closing" => life' = "closing"
    BY DEF StartServer, CheckClient, BeginClosing, EngineTurns
  <2> QED BY <2>1, <2>2, <2>3
<1> QED BY <1>3, <1>5, <1>6, <1>7, <1>8, <1>9, <1>10 DEF DockInv

\* The containers of an earlier process are removed.
LEMMA LPrune == ASSUME IsoInv, PruneOrphans PROVE IsoInv'
<1> USE DEF IsoInv
<1>1. /\ life = "pruning" /\ life' = "serving"
      /\ UNCHANGED <<setting, engine, boots, docker, made, pooled, starting, stopping, capVars, cell, localVars>>
  BY DEF PruneOrphans
<1>2. upsets' \in Nat /\ upsets' >= upsets
  BY DEF PruneOrphans, Upset, Smooth, DockInv, DockTyped
<1>3. CellInv'
  BY <1>1, CellsStand
<1>4. /\ \A c \in Cells : ~InCourse(c)
      /\ \A u \in Users : pooled[u] = NoContainer /\ reports[u] = NoContainer /\ asking[u] = NoContainer
  BY <1>1 DEF DockInv, Down, Running
<1>5. /\ \A x \in containers' : x \in containers
      /\ stuck \subseteq stuck' /\ stuck' \subseteq 1..made
      /\ docker = "there" => \A x \in containers' : x.id \in stuck'
  <2>1. Orphans = containers
    BY <1>4 DEF Orphans, DockInv, DockTyped
  <2>2. CASE docker # "there"
    BY <2>2 DEF PruneOrphans, DockInv, DockTyped
  <2>3. CASE docker = "there"
    <3>1. PICK left \in SUBSET Orphans :
             containers' = containers \ (Orphans \ left) /\ stuck' = stuck \cup {x.id : x \in left}
      BY <2>3 DEF PruneOrphans
    <3> QED BY <2>1, <3>1 DEF DockInv, DockTyped
  <2> QED BY <2>2, <2>3
<1>6. DockTyped'
  BY <1>1, <1>2, <1>5 DEF DockInv, DockTyped, Lives, capVars, localVars
<1>7. Down'
  BY <1>1 DEF Down, Running
<1>8. OneStart'
  BY <1>1, <1>5 DEF DockInv, OneStart
<1>9. ContainersAreAccounted'
  BY <1>1, <1>5 DEF DockInv, ContainersAreAccounted
<1>10. LeftoversArePruned'
  BY <1>1, <1>5 DEF LeftoversArePruned
<1>11. DockCurrent'
  BY <1>1, <1>4 DEF DockCurrent, capVars
<1> QED BY <1>3, <1>6, <1>7, <1>8, <1>9, <1>10, <1>11 DEF DockInv

\* A change of the setting overtakes every cell in course.
LEMMA LPatch == ASSUME IsoInv, PatchBackend PROVE IsoInv'
<1> USE DEF IsoInv
<1>1. /\ setting' \in Backends
      /\ UNCHANGED <<engine, life, boots, docker, dockVars, capVars, localVars, upsets>>
      /\ cell' = [c \in Cells |-> IF InCourse(c) THEN [cell[c] EXCEPT !.moved = TRUE] ELSE cell[c]]
  BY DEF PatchBackend
<1>2. /\ DOMAIN cell' = Cells
      /\ \A c \in Cells : InCourse(c) => cell'[c] = [cell[c] EXCEPT !.moved = TRUE]
      /\ \A c \in Cells : ~InCourse(c) => cell'[c] = cell[c]
  BY <1>1
<1>3. \A c \in Cells : InCourse(c) =>
        /\ DOMAIN cell'[c] = Fields
        /\ cell'[c].at = cell[c].at /\ cell'[c].ran = cell[c].ran /\ cell'[c].session = cell[c].session
        /\ cell'[c].kept = cell[c].kept /\ cell'[c].moved = TRUE /\ cell'[c].crowded = cell[c].crowded
  BY <1>2 DEF CellInv, CellTyped, Fields
<1>4. \A c \in Cells : cell'[c].at = cell[c].at /\ cell'[c].ran = cell[c].ran
                       /\ cell'[c].session = cell[c].session /\ cell'[c].kept = cell[c].kept
                       /\ cell'[c].crowded = cell[c].crowded
  BY <1>2, <1>3
<1>5. CellTyped'
  BY <1>2, <1>3 DEF CellInv, CellTyped
<1>6. Local' = Local /\ RanLocally'
  BY <1>4 DEF CellInv, Local, RanLocally
<1>7. Guarded'
  BY <1>2, <1>3 DEF CellInv, Guarded, InCourse
<1>8. Ended'
  BY <1>2, <1>3 DEF CellInv, Ended, ResultSaysWhere, GuardKnowsTheRoot
<1>9. OnePrints'
  BY <1>1, <1>4 DEF CellInv, OnePrints, localVars
<1>10. Alone'
  BY <1>1, <1>4, <1>6 DEF CellInv, Alone, localVars, Local
<1>11. DockTyped'
  BY <1>1 DEF DockInv, DockTyped, dockVars, capVars, localVars
<1>12. Down' /\ OneStart'
  BY <1>1, <1>4 DEF DockInv, Down, OneStart, Running, InCourse, dockVars, capVars
<1>13. ContainersAreAccounted' /\ LeftoversArePruned' /\ DockCurrent'
  BY <1>1 DEF DockInv, ContainersAreAccounted, LeftoversArePruned, DockCurrent, dockVars, capVars
<1> QED BY <1>5, <1>6, <1>7, <1>8, <1>9, <1>10, <1>11, <1>12, <1>13 DEF CellInv, DockInv

\* The pool is emptied at the end of the process, or of a session.
LEMMA LEmptied ==
    ASSUME IsoInv, NEW S \in SUBSET Users, starting = NoStart,
           UNCHANGED <<bootVars, containers, made, starting, stuck, reports, asking, cell, localVars, upsets>>,
           pooled' = [u \in Users |-> IF u \in S THEN NoContainer ELSE pooled[u]],
           stopping' = stopping \cup ({pooled[u] : u \in S} \ {NoContainer}),
           leaving' \in [Users -> {"no", "released", "gone"}],
           \A u \in Users : leaving'[u] = "no" /\ life # "closing" => u \notin S /\ leaving[u] = "no"
    PROVE  IsoInv'
<1> USE DEF IsoInv, bootVars
<1>1. CellInv'
  BY CellsStand
<1>2. stopping' \subseteq 1..made /\ pooled' \in [Users -> 0..made]
  <2>1. /\ 0 \in 0..made /\ pooled \in [Users -> 0..made] /\ stopping \subseteq 1..made
        /\ \A n \in 0..made : n # 0 => n \in 1..made
    BY DEF DockInv, DockTyped
  <2>2. pooled' \in [Users -> 0..made]
    BY <2>1 DEF NoContainer
  <2>3. \A u \in S : pooled[u] # NoContainer => pooled[u] \in 1..made
    BY <2>1 DEF NoContainer
  <2> QED BY <2>1, <2>2, <2>3
<1>3. DockTyped'
  BY <1>2 DEF DockInv, DockTyped, localVars
<1>4. Down'
  BY DEF DockInv, Down, Running, InCourse
<1>5. OneStart'
  BY <1>1 DEF DockInv, OneStart, CellInv, CellTyped
<1>6. ContainersAreAccounted'
  <2> SUFFICES ASSUME NEW x \in containers, x.boot = boots, ~(life = "off" /\ upsets > 0)
               PROVE  x.id \in {pooled'[x.session]} \cup stopping' \cup stuck
    BY DEF ContainersAreAccounted
  <2>1. x.session \in Users /\ x.id # NoContainer
    BY DEF DockInv, DockTyped, NoContainer
  <2>2. x.id \in {pooled[x.session]} \cup stopping \cup stuck
    BY <2>1 DEF DockInv, ContainersAreAccounted, NoStart
  <2> QED BY <2>1, <2>2
<1>7. LeftoversArePruned'
  BY DEF DockInv, LeftoversArePruned
<1>8. DockCurrent'
  BY DEF DockInv, DockCurrent
<1> QED BY <1>1, <1>3, <1>4, <1>5, <1>6, <1>7, <1>8 DEF DockInv

\* The server shuts down.
LEMMA LShutdown == ASSUME IsoInv, Shutdown PROVE IsoInv'
<1> DEFINE S == {u \in Users : pooled[u] # NoContainer}
<1>1. /\ starting = NoStart /\ life = "closing" /\ S \in SUBSET Users
      /\ UNCHANGED <<bootVars, containers, made, starting, stuck, reports, asking, leaving, cell, localVars, upsets>>
      /\ stopping' = stopping \cup ({pooled[u] : u \in S} \ {NoContainer})
      /\ pooled' = [u \in Users |-> NoContainer]
  BY DEF Shutdown, capVars
<1>2. pooled' = [u \in Users |-> IF u \in S THEN NoContainer ELSE pooled[u]]
  BY <1>1
<1>3. leaving' \in [Users -> {"no", "released", "gone"}]
  BY <1>1 DEF IsoInv, DockInv, DockTyped
<1> HIDE DEF S
<1> QED BY <1>1, <1>2, <1>3, LEmptied

\* A session leaves.
LEMMA LRelease == ASSUME IsoInv, NEW s \in Users, Release(s) PROVE IsoInv'
<1>1. /\ starting = NoStart /\ life = "serving" /\ {s} \in SUBSET Users
      /\ UNCHANGED <<bootVars, containers, made, starting, stuck, reports, asking, cell, localVars, upsets>>
      /\ stopping' = stopping \cup ({pooled[u] : u \in {s}} \ {NoContainer})
      /\ pooled' = [pooled EXCEPT ![s] = NoContainer]
      /\ leaving' = [leaving EXCEPT ![s] = "released"]
  BY DEF Release
<1>2. pooled' = [u \in Users |-> IF u \in {s} THEN NoContainer ELSE pooled[u]]
  BY <1>1 DEF IsoInv, DockInv, DockTyped
<1>3. /\ leaving' \in [Users -> {"no", "released", "gone"}]
      /\ \A u \in Users : leaving'[u] = "no" => u \notin {s} /\ leaving[u] = "no"
  BY <1>1 DEF IsoInv, DockInv, DockTyped
<1> QED BY <1>1, <1>2, <1>3, LEmptied

\* The process ends.
LEMMA LExit == ASSUME IsoInv, ExitProcess PROVE IsoInv'
<1> USE DEF IsoInv
<1>1. /\ life = "closing" /\ life' = "off"
      /\ \A c \in Cells : ~InCourse(c)
      /\ \A s \in Users : pooled[s] = NoContainer
      /\ reports' = [s \in Users |-> NoContainer] /\ asking' = [s \in Users |-> NoContainer]
      /\ UNCHANGED <<setting, engine, boots, docker, dockVars, leaving, cell, localVars, patches, upsets>>
  BY DEF ExitProcess
<1>2. CellInv'
  BY <1>1, CellsStand
<1>3. 0 \in 0..made
  BY DEF DockInv, DockTyped
<1>4. DockTyped'
  BY <1>1, <1>3 DEF DockInv, DockTyped, Lives, NoContainer, dockVars, localVars
<1>5. Down' /\ DockCurrent'
  BY <1>1 DEF Down, DockCurrent, InCourse, dockVars
<1>6. OneStart'
  BY <1>1 DEF DockInv, OneStart, dockVars
<1>7. ContainersAreAccounted' /\ LeftoversArePruned'
  BY <1>1 DEF DockInv, ContainersAreAccounted, LeftoversArePruned, dockVars
<1> QED BY <1>2, <1>4, <1>5, <1>6, <1>7 DEF DockInv

\* The process dies.
LEMMA LCrash == ASSUME IsoInv, Crash PROVE IsoInv'
<1> USE DEF IsoInv
<1>1. /\ life' = "off" /\ upsets' = upsets + 1
      /\ pooled' = [s \in Users |-> NoContainer] /\ starting' = NoStart /\ stopping' = {}
      /\ reports' = [s \in Users |-> NoContainer] /\ asking' = [s \in Users |-> NoContainer]
      /\ cell' = [c \in Cells |-> IF InCourse(c) THEN Waiting ELSE cell[c]]
      /\ console' = Nobody /\ interpreter' = Nobody /\ heard' = [c \in Cells |-> {}]
      /\ UNCHANGED <<setting, engine, boots, docker, containers, made, stuck, leaving, patches>>
  BY DEF Crash, Upset
<1>2. /\ DOMAIN cell' = Cells
      /\ \A c \in Cells : InCourse(c) => cell'[c] = Waiting
      /\ \A c \in Cells : ~InCourse(c) => cell'[c] = cell[c] /\ cell[c].at \in {"idle", "done"}
  BY <1>1 DEF InCourse
<1>3. /\ DOMAIN Waiting = Fields /\ Waiting.at = "idle" /\ Waiting.ran = "none" /\ Waiting.kept = Nobody
      /\ Waiting.root = "none" /\ Waiting.moved = FALSE /\ Waiting.crowded = FALSE
  BY DEF Waiting, Fields
<1>4. /\ Nobody \notin Cells /\ \A c \in Cells : cell'[c].at \in {"idle", "done"}
      /\ Local' = {}
  BY <1>2, <1>3, IsolationAssumption DEF Local
<1>5. CellTyped'
  BY <1>2, <1>3 DEF CellInv, CellTyped, CellPlaces
<1>6. Guarded' /\ RanLocally' /\ Ended'
  BY <1>2, <1>3, <1>4 DEF CellInv, Guarded, RanLocally, Ended, ResultSaysWhere, GuardKnowsTheRoot
<1>7. OnePrints' /\ Alone'
  BY <1>1, <1>2, <1>3, <1>4 DEF CellInv, OnePrints, Alone
<1>8. 0 \in 0..made /\ upsets' \in Nat /\ upsets' > 0
  BY <1>1 DEF DockInv, DockTyped
<1>9. DockTyped'
  BY <1>1, <1>8 DEF DockInv, DockTyped, Lives, NoContainer
<1>10. Down' /\ DockCurrent'
  BY <1>1, <1>4 DEF Down, DockCurrent, InCourse
<1>11. OneStart'
  BY <1>1, <1>4 DEF OneStart, NoStart
<1>12. ContainersAreAccounted' /\ LeftoversArePruned'
  BY <1>1, <1>8 DEF ContainersAreAccounted, LeftoversArePruned
<1> QED BY <1>5, <1>6, <1>7, <1>9, <1>10, <1>11, <1>12 DEF CellInv, DockInv

\* A container is removed, or is not.
LEMMA LRemove == ASSUME IsoInv, NEW id \in stopping, RemoveContainer(id) PROVE IsoInv'
<1> USE DEF IsoInv
<1>1. /\ stopping' = stopping \ {id}
      /\ UNCHANGED <<bootVars, made, pooled, starting, capVars, cell, localVars>>
  BY DEF RemoveContainer
<1>2. upsets' \in Nat /\ upsets' >= upsets
  BY DEF RemoveContainer, Upset, Smooth, DockInv, DockTyped
<1>3. CellInv'
  BY <1>1, CellsStand DEF bootVars
<1>4. /\ \A x \in containers' : x \in containers
      /\ stuck \subseteq stuck' /\ stuck' \subseteq 1..made
      /\ \A x \in containers' : x.id = id => x.id \in stuck'
  BY DEF RemoveContainer, Gone, DockInv, DockTyped
<1>5. DockTyped'
  BY <1>1, <1>2, <1>4 DEF DockInv, DockTyped, bootVars, capVars, localVars
<1>6. Down' /\ DockCurrent'
  BY <1>1 DEF DockInv, Down, DockCurrent, Running, InCourse, bootVars, capVars
<1>7. OneStart'
  BY <1>1, <1>4 DEF DockInv, OneStart
<1>8. ContainersAreAccounted'
  BY <1>1, <1>2, <1>4 DEF DockInv, DockTyped, ContainersAreAccounted, bootVars
<1>9. LeftoversArePruned'
  BY <1>1, <1>4 DEF DockInv, LeftoversArePruned, bootVars
<1> QED BY <1>3, <1>5, <1>6, <1>7, <1>8, <1>9 DEF DockInv

\* What a prompt asks of a container.
LEMMA LCapabilities ==
    ASSUME IsoInv, NEW s \in Users, ForgetCapabilities(s) \/ AskCapabilities(s) \/ StoreCapabilities(s)
    PROVE  IsoInv'
<1> USE DEF IsoInv
<1>1. UNCHANGED <<bootVars, dockVars, cell, localVars, upsets>>
  BY DEF ForgetCapabilities, AskCapabilities, StoreCapabilities
<1>2. CellInv'
  BY <1>1, CellsStand DEF bootVars
<1>3. DockTyped'
  <2>1. /\ reports' \in [Users -> 0..made] /\ asking' \in [Users -> 0..made]
        /\ leaving' \in [Users -> {"no", "released", "gone"}]
    BY DEF ForgetCapabilities, AskCapabilities, StoreCapabilities, DockInv, DockTyped, NoContainer
  <2> QED BY <1>1, <2>1 DEF DockInv, DockTyped, bootVars, dockVars, localVars
<1>4. Down'
  BY <1>1 DEF ForgetCapabilities, AskCapabilities, StoreCapabilities, DockInv, DockTyped, Down, Running, InCourse,
     bootVars, dockVars
<1>5. DockCurrent'
  BY <1>1 DEF ForgetCapabilities, AskCapabilities, StoreCapabilities, DockInv, DockTyped, DockCurrent, bootVars, dockVars
<1>6. OneStart' /\ ContainersAreAccounted' /\ LeftoversArePruned'
  BY <1>1 DEF DockInv, OneStart, ContainersAreAccounted, LeftoversArePruned, bootVars, dockVars
<1> QED BY <1>2, <1>3, <1>4, <1>5, <1>6 DEF DockInv

-----------------------------------------------------------------------------

\* It holds at the start.
LEMMA LIsoInit == IsolationInit => IsoInv
<1> SUFFICES ASSUME IsolationInit PROVE IsoInv
  OBVIOUS
<1>1. /\ DOMAIN Waiting = Fields /\ Waiting.at = "idle" /\ Waiting.ran = "none" /\ Waiting.kept = Nobody
      /\ Waiting.root = "none" /\ Waiting.moved = FALSE /\ Waiting.crowded = FALSE
  BY DEF Waiting, Fields
<1>2. /\ DOMAIN cell = Cells /\ \A c \in Cells : cell[c] = Waiting
      /\ Nobody \notin Cells /\ console = Nobody /\ interpreter = Nobody /\ heard = [c \in Cells |-> {}]
  BY IsolationAssumption DEF IsolationInit
<1>3. CellTyped
  BY <1>1, <1>2 DEF CellTyped, CellPlaces
<1>4. Guarded /\ RanLocally /\ Ended /\ Local = {}
  BY <1>1, <1>2 DEF Guarded, RanLocally, Ended, ResultSaysWhere, GuardKnowsTheRoot, Local
<1>5. OnePrints /\ Alone
  BY <1>1, <1>2, <1>4 DEF OnePrints, Alone
<1>6. DockTyped
  <2>1. MaxBoots \in Nat /\ MaxStarts \in Nat
    BY IsolationAssumption
  <2> QED BY <2>1 DEF IsolationInit, DockTyped, Lives, NoContainer
<1>7. Down /\ DockCurrent
  BY <1>1, <1>2 DEF IsolationInit, Down, DockCurrent, InCourse
<1>8. OneStart /\ ContainersAreAccounted /\ LeftoversArePruned
  BY <1>1, <1>2 DEF IsolationInit, OneStart, NoStart, ContainersAreAccounted, LeftoversArePruned
<1> QED BY <1>3, <1>4, <1>5, <1>6, <1>7, <1>8 DEF IsoInv, CellInv, DockInv

\* Every step.
LEMMA LIsoNext == IsoInv /\ [IsolationNext]_isoVars => IsoInv'
<1> SUFFICES ASSUME IsoInv, [IsolationNext]_isoVars PROVE IsoInv'
  OBVIOUS
<1>1. CASE UNCHANGED isoVars
  <2>1. UNCHANGED <<bootVars, dockVars, capVars, localVars, cell, upsets>>
    BY <1>1 DEF isoVars, bootVars, dockVars, capVars, localVars
  <2>2. CellInv'
    BY <2>1, CellsStand DEF IsoInv, bootVars
  <2>3. DockInv'
    <3>1. /\ console' \in Cells \cup {Nobody} /\ interpreter' \in Cells \cup {Nobody}
          /\ heard' \in [Cells -> SUBSET Cells] /\ upsets' \in Nat /\ upsets' >= upsets
      BY <2>1 DEF IsoInv, DockInv, DockTyped, localVars
    <3>2. \A c \in Cells : /\ cell'[c].at = "start" <=> cell[c].at = "start"
                           /\ cell'[c].session = cell[c].session \/ cell'[c].at # "start"
                           /\ InCourse(c)' => InCourse(c) \/ Running
      BY <2>1 DEF InCourse
    <3> QED BY <2>1, <3>1, <3>2, PoolStands DEF IsoInv
  <2> QED BY <2>2, <2>3 DEF IsoInv
<1>2. ASSUME NEW c \in Cells, CellNext(c) PROVE IsoInv'
  BY <1>2, LBegin, LGetRuntime, LLockPool, LFinishStart, LFinishRun, LInterpreter DEF CellNext
<1> QED BY <1>1, <1>2, LProcess, LPrune, LPatch, LShutdown, LExit, LCrash, LRelease, LCapabilities, LRemove
        DEF IsolationNext

\* The strengthening is inductive.
THEOREM IsoInvariance == IsolationSpec => []IsoInv
BY LIsoInit, LIsoNext, PTL DEF IsolationSpec

\* Types: of the settings, the containers, the pool, the cells and the interpreter.
THEOREM IsolationTyped == IsolationSpec => []IsolationTypeOK
<1>1. IsoInv => IsolationTypeOK
  <2> SUFFICES ASSUME IsoInv PROVE IsolationTypeOK
    OBVIOUS
  <2>1. /\ 0..made \subseteq 0..MaxStarts /\ 1..made \subseteq 1..MaxStarts /\ 1..boots \subseteq 1..MaxBoots
    BY IsolationAssumption DEF IsoInv, DockInv, DockTyped
  <2> QED BY <2>1 DEF IsoInv, DockInv, CellInv, DockTyped, CellTyped, IsolationTypeOK, Lives, CellPlaces
<1> QED BY <1>1, IsoInvariance, PTL

\* Whatever the cells, the changes of the setting, the engine's comings and
\* goings, crashes and restarts: no container is lost sight of, what an earlier
\* process left is pruned, a result says where its code ran, code was checked
\* against the root it meets, outputs are not mixed, and a prompt speaks of the
\* container that is there.
THEOREM CodeStaysWhereItBelongs == IsolationSpec => []IsolationHolds
<1>1. IsoInv => IsolationHolds
  <2> SUFFICES ASSUME IsoInv PROVE IsolationHolds
    OBVIOUS
  <2>1. OutputIsItsOwn
    <3>1. ASSUME \A c \in Cells : cell[c].at \notin {"enter", "exec"} /\ ~cell[c].crowded PROVE console = Nobody
      BY <3>1 DEF IsoInv, CellInv, OnePrints, Alone
    <3> QED BY <3>1 DEF IsoInv, CellInv, OnePrints, OutputIsItsOwn
  <2>2. CapabilitiesAreCurrent
    BY DEF IsoInv, DockInv, DockCurrent, CapabilitiesAreCurrent
  <2> QED BY <2>1, <2>2 DEF IsoInv, DockInv, CellInv, Ended, IsolationHolds
<1> QED BY <1>1, IsoInvariance, PTL

-----------------------------------------------------------------------------
(* Beside one another, as they are checked together.                        *)

\* MCServer lets one of the parts run and the others stand still, so each keeps its own
\* specification there.
LEMMA EachKeepsItsSpec ==
  MCSpec => /\ Spec /\ SpendSpec /\ AccessSpec /\ HistorySpec /\ IsolationSpec
            /\ SecretsSpec /\ DisclosureSpec /\ ResidencySpec /\ SizingSpec
<1>1. MCInit => /\ Init /\ SpendInit /\ AccessInit /\ HistoryInit /\ IsolationInit
                /\ SecretsInit /\ DisclosureInit /\ ResidencyInit /\ SizingInit
  BY DEF MCInit
<1>2. ASSUME [MCNext]_allVars
      PROVE  /\ [Next]_vars /\ [SpendNext]_spendVars /\ [AccessNext]_accessVars
             /\ [HistoryNext]_rowVars /\ [IsolationNext]_isoVars /\ [SecretsNext]_secretVars
             /\ [DisclosureNext]_disclosureVars /\ [ResidencyNext]_residencyVars /\ [SizingNext]_sizingVars
  BY <1>2 DEF MCNext, allVars
<1> QED BY <1>1, <1>2, PTL
    DEF MCSpec, Spec, SpendSpec, AccessSpec, HistorySpec, IsolationSpec, SecretsSpec, DisclosureSpec,
        ResidencySpec, SizingSpec

\* What the run checks of calls, for any of its constants: each is billed to its turn, goes where the
\* mode and the choice let it, carries what the policy lets out, and asks for no more than fits.
THEOREM CallsAreInOrder == MCSpec => []CallsHold
<1>1. SpendingHolds /\ AccessHolds /\ DisclosureHolds /\ ResidencyHolds /\ SizesHold => CallsHold
  BY DEF CallsHold
<1> QED BY <1>1, EachKeepsItsSpec, TurnsAreBilled, CallsGoWhereTheyMay, PromptsAreWithheld,
           ResidencyIsKept, SizesAreRight, PTL

\* What the run checks of what is kept, for any of its constants: the rows of a turn and the files of
\* keys and connections.
THEOREM RecordsAreInOrder == MCSpec => []RecordsHold
<1>1. HistoryHolds /\ SecretsHold => RecordsHold
  BY DEF RecordsHold
<1> QED BY <1>1, EachKeepsItsSpec, RowsAreKept, SecretsAreKept, PTL

\* What the run checks of types, for any of its constants: each of the parts keeps its own.
THEOREM ServerTyped == MCSpec => []ServerTypesHold
<1>1. /\ TypeOK /\ SpendTypeOK /\ AccessTypeOK /\ HistoryTypeOK /\ IsolationTypeOK
      /\ SecretsTypeOK /\ DisclosureTypeOK /\ ResidencyTypeOK /\ SizingTypeOK
      => ServerTypesHold
  BY DEF ServerTypesHold
<1> QED BY <1>1, EachKeepsItsSpec, TurnsTyped, TurnsAreBilled, CallsGoWhereTheyMay, RowsAreKept, IsolationTyped,
           SecretsAreKept, DisclosureTyped, ResidencyIsKept, SizesAreRight, PTL
=============================================================================
