---------------------------- MODULE MCRuntimePool ----------------------------
(***************************************************************************)
(* RuntimePool for TLC: two threads execute for session i1, which nobody   *)
(* releases and whose child does not die; one executes for i2, which is    *)
(* released while it does and whose child may die.                         *)
(***************************************************************************)
EXTENDS RuntimePool

CONSTANTS i1, i2, a, b, c, d

MCSessionOf == [t \in Runners |-> IF t = c THEN i2 ELSE i1]
MCScope == [t \in Removers |-> {i2}]
=============================================================================
