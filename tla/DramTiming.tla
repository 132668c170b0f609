----------------------------- MODULE DramTiming -----------------------------
(***************************************************************************)
(* The configuration of a DRAMSim2 channel (SystemConfiguration.h), the    *)
(* packets that travel on its buses (BusPacket.h) and the state of one     *)
(* bank (BankState.h).                                                     *)
(*                                                                         *)
(* The program keeps absolute clock cycles: "a READ may be issued from     *)
(* cycle nextRead on".  Every use compares such a field with               *)
(* currentClockCycle or replaces it by max(currentClockCycle + d, field),  *)
(* so the model keeps the distance to the current cycle instead, never     *)
(* below 0.  currentClockCycle >= field becomes field = 0,                 *)
(* currentClockCycle + d becomes d, and the end of a cycle takes one off.  *)
(***************************************************************************)
EXTENDS Integers, FiniteSets

CONSTANTS
    NUM_RANKS, NUM_BANKS, NUM_ROWS, NUM_COLS,
    CL, AL, BL,                         \* read and additive latency, burst
    tRAS, tRCD, tRRD, tRC, tRP, tCCD, tRTP, tWTR, tWR, tRTRS, tRFC, tFAW,
    tCKE, tXP, tCMD,
    REFRESH_CYCLES,                     \* REFRESH_PERIOD/tCK; 0: not in sight
    CMD_QUEUE_DEPTH, TRANS_QUEUE_DEPTH, TOTAL_ROW_ACCESSES,
    ClosePage,                          \* rowBufferPolicy = ClosePage
    PerRank,                            \* queuingStructure = PerRank
    SchedulingPolicy,
    USE_LOW_POWER, isSmartMRAM

ASSUME GeometryAssumption ==
    /\ {NUM_RANKS, NUM_BANKS, NUM_ROWS, NUM_COLS} \subseteq Nat \ {0}
    /\ {CMD_QUEUE_DEPTH, TRANS_QUEUE_DEPTH, TOTAL_ROW_ACCESSES} \subseteq Nat
    /\ {ClosePage, PerRank, USE_LOW_POWER, isSmartMRAM} \subseteq BOOLEAN
    /\ SchedulingPolicy \in {"RankThenBankRoundRobin",
                             "BankThenRankRoundRobin", "PriorityBased"}

\* The unsigned arithmetic of the program stays clear of zero: a write latency
\* of 0, or an additive latency above tRCD, would wrap around.
ASSUME TimingAssumption ==
    /\ {CL, AL, BL, tRAS, tRCD, tRRD, tRC, tRP, tCCD, tRTP, tWTR, tWR, tRTRS,
        tRFC, tFAW, tCKE, tXP, tCMD, REFRESH_CYCLES} \subseteq Nat
    /\ CL + AL >= 2 /\ BL >= 2 /\ AL <= tRCD /\ tFAW >= 1

\* As in every device file: commands leave in successive cycles, and one that
\* took longer would still be on the bus when the next one came.
ASSUME CommandAssumption == tCMD = 1
-----------------------------------------------------------------------------
Ranks == 0 .. NUM_RANKS - 1
Banks == 0 .. NUM_BANKS - 1
Addresses == [rank : Ranks, bank : Banks, row : 0 .. NUM_ROWS - 1,
              col : 0 .. NUM_COLS - 1]

Later(a, b) == IF a >= b THEN a ELSE b
Elapsed(n) == IF n = 0 THEN 0 ELSE n - 1

RL == CL + AL
WL == RL - 1
Burst == BL \div 2
READ_TO_PRE_DELAY     == AL + Burst + Later(tRTP, tCCD) - tCCD
WRITE_TO_PRE_DELAY    == WL + Burst + tWR
READ_TO_WRITE_DELAY   == RL + Burst + tRTRS - WL
READ_AUTOPRE_DELAY    == AL + tRTP + tRP
WRITE_AUTOPRE_DELAY   == WL + Burst + tWR + tRP
WRITE_TO_READ_DELAY_B == WL + Burst + tWTR
WRITE_TO_READ_DELAY_R == WL + Burst + tRTRS - RL

\* As in every device file: with auto-precharge a row is closed (the precharge
\* starts READ_TO_PRE_DELAY after a read) before the bank may be used again.
ASSUME AutoprechargeAssumption == READ_TO_PRE_DELAY <= READ_AUTOPRE_DELAY
-----------------------------------------------------------------------------
(* Transactions and bus packets *)

Reads  == {"READ", "READ_P"}
Writes == {"WRITE", "WRITE_P"}
Columns == Reads \cup Writes
Commands == Columns \cup {"ACTIVATE", "PRECHARGE", "REFRESH"}

Packets == [type : Commands, addr : Addresses]
None == [type |-> "none"]

Transactions == [type : {"DATA_READ", "DATA_WRITE"}, addr : Addresses]

\* Fault: the close page policy is forgotten.
getOpenPageType(t) == IF t.type = "DATA_READ" THEN "READ" ELSE "WRITE"

getBusPacketType(t) ==
    IF t.type = "DATA_READ"
    THEN IF ClosePage THEN "READ_P" ELSE "READ"
    ELSE IF ClosePage THEN "WRITE_P" ELSE "WRITE"

SameBank(p, q) == p.addr.rank = q.addr.rank /\ p.addr.bank = q.addr.bank
SameRow(p, q) == SameBank(p, q) /\ p.addr.row = q.addr.row
-----------------------------------------------------------------------------
(* The state of a bank; every bank starts precharged. *)

BankStates ==
    [state : {"Idle", "RowActive", "Precharging", "Refreshing", "PowerDown"},
     row : 0 .. NUM_ROWS - 1,
     nextRead : Nat, nextWrite : Nat, nextActivate : Nat,
     nextPrecharge : Nat, nextPowerUp : Nat,
     lastCommand : Commands, countdown : Nat]

InitBank ==
    [state |-> "Idle", row |-> 0, nextRead |-> 0, nextWrite |-> 0,
     nextActivate |-> 0, nextPrecharge |-> 0, nextPowerUp |-> 0,
     lastCommand |-> "READ", countdown |-> 0]

\* The clock advances: SimulatorObject::step seen from a bank's deadlines.
BankStep(b) ==
    [b EXCEPT !.nextRead = Elapsed(@), !.nextWrite = Elapsed(@),
              !.nextActivate = Elapsed(@), !.nextPrecharge = Elapsed(@),
              !.nextPowerUp = Elapsed(@)]
=============================================================================
