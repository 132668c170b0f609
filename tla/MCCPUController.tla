---------------------------- MODULE MCCPUController ----------------------------
(* The instance of CPUController that TLC checks. *)
EXTENDS CPUController, TLC

CONSTANT MAX_REQUESTS   \* accesses in a behaviour

CONSTANTS a, b           \* two lines

MCRequest == 1..MAX_REQUESTS
MCAccess == ({a} \X Kind) \cup {<<b, "fetch">>}
=============================================================================
