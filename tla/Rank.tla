--------------------------------- MODULE Rank ---------------------------------
(***************************************************************************)
(* A rank of devices (Rank.cpp).  A rank keeps a bank table of its own,    *)
(* updated when a command arrives rather than when it is issued, and       *)
(* refuses a command its table does not allow: the program prints an error *)
(* and exits.  The model records the refusal in the field error.           *)
(***************************************************************************)
EXTENDS DramTiming, Sequences

RankStates ==
    [banks : [Banks -> BankStates],
     returning : Seq([addr : Addresses, left : Nat]),   \* readReturnPacket
     outgoing : Seq([addr : Addresses, left : Nat]),    \* outgoingDataPacket
     refreshWaiting : BOOLEAN, isPowerDown : BOOLEAN, error : BOOLEAN]

InitRank ==
    [banks |-> [b \in Banks |-> InitBank],
     returning |-> <<>>, outgoing |-> <<>>,
     refreshWaiting |-> FALSE, isPowerDown |-> FALSE, error |-> FALSE]

AllBanks(rk, F(_)) == [rk EXCEPT !.banks = [b \in Banks |-> F(rk.banks[b])]]
-----------------------------------------------------------------------------
(* receiveFromBus *)

ColumnAllowed(rk, p) ==
    LET b == rk.banks[p.addr.bank]
    IN  /\ b.state = "RowActive"
        /\ (IF p.type \in Reads THEN b.nextRead ELSE b.nextWrite) = 0
        /\ b.row = p.addr.row

\* READ and WRITE set nextPrecharge; with auto-precharge the rank closes the
\* row at once, and a SMART bank may be activated again at once.
ColumnOwnBank(b, p) ==
    LET topre == IF p.type \in Reads
                 THEN READ_TO_PRE_DELAY ELSE WRITE_TO_PRE_DELAY
        autopre == IF p.type \in Reads
                   THEN READ_AUTOPRE_DELAY ELSE WRITE_AUTOPRE_DELAY
    IN  IF p.type \in {"READ", "WRITE"}
        THEN [b EXCEPT !.nextPrecharge = Later(@, topre)]
        ELSE [b EXCEPT !.state = "Idle",
                !.nextActivate = IF isSmartMRAM THEN 0 ELSE Later(@, autopre)]

\* The banks of the rank share the data bus.
ColumnAnyBank(b, p) ==
    LET read == IF p.type \in Reads
                THEN Later(tCCD, Burst) ELSE WRITE_TO_READ_DELAY_B
        write == IF p.type \in Reads
                 THEN READ_TO_WRITE_DELAY ELSE Later(tCCD, Burst)
    IN  [b EXCEPT !.nextRead = Later(@, read), !.nextWrite = Later(@, write)]

ReceiveColumn(rk, p) ==
    LET own == [rk.banks EXCEPT ![p.addr.bank] = ColumnOwnBank(@, p)]
    IN  [rk EXCEPT
           !.banks = [b \in Banks |-> ColumnAnyBank(own[b], p)],
           !.returning = IF p.type \in Reads
                         THEN Append(@, [addr |-> p.addr, left |-> RL]) ELSE @]

\* The check is skipped in SMART mode, where ACTIVATE of an open bank is an
\* implicit precharge.
ActivateAllowed(rk, p) ==
    \/ isSmartMRAM
    \/ /\ rk.banks[p.addr.bank].state = "Idle"
       /\ rk.banks[p.addr.bank].nextActivate = 0

\* The own bank's deadlines are overwritten, not maximised.
ActivateOwnBank(b, p) ==
    LET ready == IF isSmartMRAM THEN 0 ELSE tRCD - AL
    IN  [b EXCEPT !.state = "RowActive", !.row = p.addr.row,
                  !.nextActivate = IF isSmartMRAM THEN tRRD ELSE tRC,
                  !.nextPrecharge = IF isSmartMRAM THEN 0 ELSE tRAS,
                  !.nextRead = ready, !.nextWrite = ready]
ActivateOtherBank(b) == [b EXCEPT !.nextActivate = Later(@, tRRD)]

ReceiveActivate(rk, p) ==
    [rk EXCEPT !.banks =
        [b \in Banks |-> IF b = p.addr.bank THEN ActivateOwnBank(@[b], p)
                         ELSE ActivateOtherBank(@[b])]]

PrechargeIgnored(rk, p) ==
    isSmartMRAM /\ rk.banks[p.addr.bank].state \in {"Idle", "PowerDown"}

PrechargeAllowed(rk, p) ==
    /\ rk.banks[p.addr.bank].state = "RowActive"
    /\ rk.banks[p.addr.bank].nextPrecharge = 0

PrechargeOwnBank(b) ==
    [b EXCEPT !.state = "Idle",
              !.nextActivate = IF isSmartMRAM THEN 0 ELSE Later(@, tRP)]
ReceivePrecharge(rk, p) ==
    [rk EXCEPT !.banks[p.addr.bank] = PrechargeOwnBank(@)]

RefreshBank(b) == [b EXCEPT !.nextActivate = tRFC]
ReceiveRefresh(rk) ==
    AllBanks([rk EXCEPT !.refreshWaiting = FALSE], RefreshBank)

Refused(rk) == [rk EXCEPT !.error = TRUE]

receiveFromBus(rk, p) ==
    CASE p.type \in Columns ->
           IF ColumnAllowed(rk, p) THEN ReceiveColumn(rk, p) ELSE Refused(rk)
      [] p.type = "ACTIVATE" ->
           IF ActivateAllowed(rk, p) THEN ReceiveActivate(rk, p) ELSE Refused(rk)
      [] p.type = "PRECHARGE" ->
           IF PrechargeIgnored(rk, p) THEN rk
           ELSE IF PrechargeAllowed(rk, p) THEN ReceivePrecharge(rk, p)
           ELSE Refused(rk)
      [] p.type = "REFRESH" ->
           IF \A b \in Banks : rk.banks[b].state = "Idle"
           THEN ReceiveRefresh(rk) ELSE Refused(rk)
-----------------------------------------------------------------------------
(* update, powerDown, powerUp *)

\* The read data whose last beat is sent in this cycle, if any.
Returned(rk) ==
    IF rk.outgoing # <<>> /\ rk.outgoing[1].left = 1
    THEN <<rk.outgoing[1].addr>> ELSE <<>>

\* A packet whose read latency has passed takes the data bus, whatever is on it.
RankUpdate(rk) ==
    LET sending == IF rk.outgoing = <<>> \/ rk.outgoing[1].left = 1 THEN <<>>
                   ELSE <<[rk.outgoing[1] EXCEPT !.left = @ - 1]>>
        waiting == [i \in DOMAIN rk.returning |->
                       [rk.returning[i] EXCEPT !.left = @ - 1]]
        ready == waiting # <<>> /\ waiting[1].left = 0
    IN  [rk EXCEPT
           !.outgoing = IF ready
                        THEN <<[addr |-> waiting[1].addr, left |-> Burst]>>
                        ELSE sending,
           !.returning = IF ready THEN Tail(waiting) ELSE waiting]

DownBank(b) == [b EXCEPT !.nextPowerUp = tCKE, !.state = "PowerDown"]
UpBank(b) == [b EXCEPT !.nextActivate = tXP, !.state = "Idle"]

\* Fault: a SMART bank whose PRECHARGE is still on the bus counts as open.
RankPowerDownStrict(rk) ==
    IF \A b \in Banks : rk.banks[b].state = "Idle"
    THEN AllBanks([rk EXCEPT !.isPowerDown = TRUE], DownBank) ELSE Refused(rk)

\* SMART closes open banks implicitly.
RankPowerDown(rk) ==
    LET Closed(b) == \/ b.state = "Idle"
                     \/ isSmartMRAM /\ b.state = "RowActive"
    IN  IF \A b \in Banks : Closed(rk.banks[b])
        THEN AllBanks([rk EXCEPT !.isPowerDown = TRUE], DownBank) ELSE Refused(rk)

\* Fault: the flag is not cleared.
RankPowerUpFlagKept(rk) == AllBanks(rk, UpBank)

RankPowerUp(rk) ==
    IF rk.isPowerDown /\ \A b \in Banks : rk.banks[b].nextPowerUp = 0
    THEN AllBanks([rk EXCEPT !.isPowerDown = FALSE], UpBank) ELSE Refused(rk)

RankStep(rk) == AllBanks(rk, BankStep)
=============================================================================
