-------------------------- MODULE MCCommandScheduling --------------------------
(***************************************************************************)
(* Two banks that share a command queue, and a third with a queue of its   *)
(* own.                                                                    *)
(***************************************************************************)
EXTENDS CommandScheduling

CONSTANTS b1, b2, b3, q1, q2

SharedQueue == [b \in Bank |-> IF b = b3 THEN q2 ELSE q1]
=============================================================================
