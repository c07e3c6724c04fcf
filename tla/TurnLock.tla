------------------------------ MODULE TurnLock ------------------------------
(***************************************************************************)
(* What the turn lock of one session promises, backend/src/api/deps.py:    *)
(* "One turn at a time per session, whichever way it arrives".  The lock   *)
(* is given to a client only when nobody has it, is never passed from one  *)
(* client to another, and always comes back.                               *)
(***************************************************************************)
CONSTANTS Clients, Nobody

VARIABLE owner

Init == owner = Nobody

Admit(c) == owner = Nobody /\ owner' = c

GiveBack(c) == owner = c /\ owner' = Nobody

Next == \E c \in Clients : Admit(c) \/ GiveBack(c)

\* Without what must happen.
Safety == Init /\ [][Next]_owner

Spec == Safety /\ \A c \in Clients : WF_owner(GiveBack(c))
=============================================================================
