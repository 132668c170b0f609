------------------------------ MODULE BankTable ------------------------------
(***************************************************************************)
(* The memory controller's own view of the banks: the table bankStates of  *)
(* MemoryController.cpp, which the command queue consults before it issues *)
(* a command.  Each operator takes the table, a function from ranks to     *)
(* banks to BankStates, and returns the table the code leaves behind.      *)
(***************************************************************************)
EXTENDS DramTiming

Table(F(_, _)) == [r \in Ranks |-> [b \in Banks |-> F(r, b)]]

\* The implicit state change when a bank's countdown runs out: an
\* auto-precharge starts (SMART: completes), a precharge or refresh ends.
CountDown(b) ==
    LET left == b.countdown - 1
        autoPrecharged == b.lastCommand \in {"READ_P", "WRITE_P"}
    IN  IF b.countdown = 0 THEN b
        ELSE IF left # 0 THEN [b EXCEPT !.countdown = left]
        ELSE IF autoPrecharged /\ isSmartMRAM
          THEN [b EXCEPT !.state = "Idle", !.lastCommand = "PRECHARGE",
                         !.countdown = 0]
        ELSE IF autoPrecharged
          THEN [b EXCEPT !.state = "Precharging", !.lastCommand = "PRECHARGE",
                         !.countdown = tRP]
        ELSE IF b.lastCommand \in {"REFRESH", "PRECHARGE"}
          THEN [b EXCEPT !.state = "Idle", !.countdown = 0]
        ELSE [b EXCEPT !.countdown = 0]

\* A column command keeps every bank that shares the data bus off the bus:
\* the banks of its own rank always, those of other ranks only when active.
Delay(b, read, write) ==
    [b EXCEPT !.nextRead = Later(read, @), !.nextWrite = Later(write, @)]

\* Fault: the other ranks are not kept off the data bus.
ColumnTableOneRank(bs, p, own, sameRead, sameWrite, otherRead, otherWrite) ==
    LET Entry(r, b) ==
          IF r # p.addr.rank THEN bs[r][b]
          ELSE Delay(IF b = p.addr.bank THEN own ELSE bs[r][b],
                     sameRead, sameWrite)
    IN  Table(Entry)

ColumnTable(bs, p, own, sameRead, sameWrite, otherRead, otherWrite) ==
    LET Entry(r, b) ==
          IF r # p.addr.rank
          THEN IF bs[r][b].state = "RowActive"
               THEN Delay(bs[r][b], otherRead, otherWrite) ELSE bs[r][b]
          ELSE Delay(IF b = p.addr.bank THEN own ELSE bs[r][b],
                     sameRead, sameWrite)
    IN  Table(Entry)

\* With auto-precharge no further column command may reach the bank.
BlockColumns(bs, p) ==
    IF p.type \in {"READ_P", "WRITE_P"}
    THEN [bs EXCEPT ![p.addr.rank][p.addr.bank] =
             [@ EXCEPT !.nextRead = bs[p.addr.rank][p.addr.bank].nextActivate,
                       !.nextWrite = bs[p.addr.rank][p.addr.bank].nextActivate]]
    ELSE bs

ColumnOwn(b, p, autopre, topre) ==
    IF p.type \in {"READ_P", "WRITE_P"}
    THEN [b EXCEPT !.nextActivate = Later(autopre, @),
                   !.lastCommand = p.type, !.countdown = topre]
    ELSE [b EXCEPT !.nextPrecharge = Later(topre, @), !.lastCommand = p.type]

OnRead(bs, p) ==
    LET own == ColumnOwn(bs[p.addr.rank][p.addr.bank], p,
                         READ_AUTOPRE_DELAY, READ_TO_PRE_DELAY)
    IN  BlockColumns(
          ColumnTable(bs, p, own, Later(tCCD, Burst), READ_TO_WRITE_DELAY,
                      Burst + tRTRS, READ_TO_WRITE_DELAY), p)

\* Fault: the delay between ranks is used within the rank.
OnWriteRankDelay(bs, p) ==
    LET own == ColumnOwn(bs[p.addr.rank][p.addr.bank], p,
                         WRITE_AUTOPRE_DELAY, WRITE_TO_PRE_DELAY)
    IN  BlockColumns(
          ColumnTable(bs, p, own, WRITE_TO_READ_DELAY_R, Later(Burst, tCCD),
                      WRITE_TO_READ_DELAY_R, Burst + tRTRS), p)

OnWrite(bs, p) ==
    LET own == ColumnOwn(bs[p.addr.rank][p.addr.bank], p,
                         WRITE_AUTOPRE_DELAY, WRITE_TO_PRE_DELAY)
    IN  BlockColumns(
          ColumnTable(bs, p, own, WRITE_TO_READ_DELAY_B, Later(Burst, tCCD),
                      WRITE_TO_READ_DELAY_R, Burst + tRTRS), p)

\* Fault: tRCD is not waited for.
OnActivateAtOnce(bs, p) ==
    [bs EXCEPT ![p.addr.rank][p.addr.bank] =
        [@ EXCEPT !.state = "RowActive", !.lastCommand = "ACTIVATE",
                  !.row = p.addr.row, !.nextActivate = Later(tRC, @),
                  !.nextPrecharge = Later(tRAS, @)]]

\* SMART decodes the row and senses it lazily: no tRCD, no tRAS, no tRC.
ActivateOwn(b, p) ==
    LET open == [b EXCEPT !.state = "RowActive", !.lastCommand = "ACTIVATE",
                          !.row = p.addr.row]
    IN  IF isSmartMRAM
        THEN [open EXCEPT !.nextActivate = Later(tRRD, @), !.nextPrecharge = 0]
        ELSE [open EXCEPT !.nextActivate = Later(tRC, @),
                          !.nextPrecharge = Later(tRAS, @),
                          !.nextRead = Later(tRCD - AL, @),
                          !.nextWrite = Later(tRCD - AL, @)]
ActivateOther(b) == [b EXCEPT !.nextActivate = Later(tRRD, @)]

OnActivate(bs, p) ==
    [bs EXCEPT ![p.addr.rank] =
        [b \in Banks |-> IF b = p.addr.bank THEN ActivateOwn(@[b], p)
                         ELSE ActivateOther(@[b])]]

\* Fault: tRP is not waited for.
OnPrechargeAtOnce(bs, p) ==
    [bs EXCEPT ![p.addr.rank][p.addr.bank] =
        [@ EXCEPT !.state = "Idle", !.lastCommand = "PRECHARGE",
                  !.countdown = 0, !.nextActivate = 0]]

PrechargeOwn(b) ==
    IF isSmartMRAM
    THEN [b EXCEPT !.state = "Idle", !.lastCommand = "PRECHARGE",
                   !.countdown = 0, !.nextActivate = 0]
    ELSE [b EXCEPT !.state = "Precharging", !.lastCommand = "PRECHARGE",
                   !.countdown = tRP, !.nextActivate = Later(tRP, @)]
OnPrecharge(bs, p) ==
    [bs EXCEPT ![p.addr.rank][p.addr.bank] = PrechargeOwn(@)]

RefreshOwn(b) ==
    [b EXCEPT !.state = "Refreshing", !.lastCommand = "REFRESH",
              !.countdown = tRFC, !.nextActivate = tRFC]
OnRefresh(bs, p) ==
    [bs EXCEPT ![p.addr.rank] = [b \in Banks |-> RefreshOwn(@[b])]]

\* The table after command p has been popped from the command queue.
OnCommand(bs, p) ==
    CASE p.type \in Reads       -> OnRead(bs, p)
      [] p.type \in Writes      -> OnWrite(bs, p)
      [] p.type = "ACTIVATE"    -> OnActivate(bs, p)
      [] p.type = "PRECHARGE"   -> OnPrecharge(bs, p)
      [] p.type = "REFRESH"     -> OnRefresh(bs, p)
      [] OTHER                  -> bs

BankPowerDown(b) == [b EXCEPT !.state = "PowerDown", !.nextPowerUp = tCKE]
BankPowerUp(b) == [b EXCEPT !.state = "Idle", !.nextActivate = tXP]
=============================================================================
