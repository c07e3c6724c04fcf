---------------------------- MODULE MCChatTurns ----------------------------
(***************************************************************************)
(* ChatTurns for TLC, with the refinement of the abstract turn lock.       *)
(***************************************************************************)
EXTENDS ChatTurns, TLC

CONSTANT NoClient

ASSUME NoClientAssumption == NoClient \notin Clients

\* Whose lease or `finally` will release the lock.
Owner == IF \E c \in Clients : holds[c] THEN CHOOSE c \in Clients : holds[c] ELSE NoClient

Abstract == INSTANCE TurnLock WITH owner <- Owner, Nobody <- NoClient

\* The transports together implement the abstract lock of TurnLock: it is
\* never handed over while held and always comes back.
ImplementsTurnLock == Abstract!Spec
=============================================================================
