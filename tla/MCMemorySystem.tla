---------------------------- MODULE MCMemorySystem ----------------------------
(***************************************************************************)
(* A channel (MemorySystem) with a chosen front end.                       *)
(***************************************************************************)
EXTENDS ChannelScheduling

CONSTANTS OFFERED,        \* the transactions the front end may ask for
          MAX_ACCEPTED,   \* how many of them in a behaviour
          Live            \* keep a bit of the clock, for the liveness run

VARIABLES accepted,       \* transactions so far
          tick            \* parity of the clock cycle, when Live

mcvars == <<vars, accepted, tick>>

MCInit == Init /\ accepted = 0 /\ tick = 0

MCAdd(t) ==
    /\ AddTransaction(t)
    /\ accepted < MAX_ACCEPTED /\ accepted' = accepted + 1
    /\ UNCHANGED tick

MCUpdate ==
    /\ Update
    /\ tick' = IF Live THEN 1 - tick ELSE tick
    /\ UNCHANGED accepted

MCNext == MCUpdate \/ \E t \in OFFERED : MCAdd(t)
MCSpec == MCInit /\ [][MCNext]_mcvars
-----------------------------------------------------------------------------
(* Front ends *)

\* Both rows of bank 0, the first row of the other banks.
RowConflicts == {t \in Transactions : t.addr.bank > 0 => t.addr.row = 0}

\* A line that is read and written, reads of another row of its bank, and
\* writes to another bank.
SharedLine ==
    {t \in Transactions :
        \/ t.addr.bank = 0 /\ (t.addr.row = 1 => t.type = "DATA_READ")
        \/ t.addr.bank = 1 /\ t.addr.row = 0 /\ t.type = "DATA_WRITE"}
=============================================================================
