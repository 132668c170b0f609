----------------------------- MODULE MCClockDomain -----------------------------
(***************************************************************************)
(* ClockDomain for the first MAX_UPDATES cycles of the CPU.                *)
(***************************************************************************)
EXTENDS ClockDomain

CONSTANT MAX_UPDATES

MCNext == updates < MAX_UPDATES /\ Next
MCSpec == Init /\ [][MCNext]_vars
=============================================================================
