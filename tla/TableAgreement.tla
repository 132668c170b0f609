---------------------------- MODULE TableAgreement ----------------------------
(***************************************************************************)
(* How an entry of the controller's bank table and the entry of the rank's *)
(* own table for the same bank are related.                                *)
(***************************************************************************)
EXTENDS BankTable, Rank

\* An auto-precharge is under way in a bank the controller still shows open.
Closing(m) == m.state = "RowActive" /\ m.lastCommand \in {"READ_P", "WRITE_P"}
Open(m) == m.state = "RowActive" /\ ~ Closing(m)

\* A row that an auto-precharge is closing is closed to the scheduler.
NoRow == -1
OpenRow(m) == IF Open(m) THEN m.row ELSE NoRow

\* The open row of a bank after the command p; own: it goes to that bank.
RowAfter(p, own, row) ==
    IF ~ own THEN row
    ELSE IF p.type = "ACTIVATE" THEN p.addr.row
    ELSE IF p.type \in {"READ_P", "WRITE_P", "PRECHARGE"} THEN NoRow
    ELSE row

\* What the controller's entry m says of the rank's entry t: t is one cycle
\* late at most, and a closing bank is through before it seems accessible.
\* A SMART rank does not look at nextActivate, and a PRECHARGE that finds it
\* powered down leaves that field behind.
Agrees(m, t) ==
    /\ m.state = "PowerDown" =>
          t.state = "PowerDown" /\ t.nextPowerUp = m.nextPowerUp
    /\ m.state \in {"Idle", "PowerDown"} => m.countdown = 0
    /\ Open(m) => /\ m.lastCommand \notin {"PRECHARGE", "REFRESH"}
                  /\ t.state = "RowActive" /\ t.row = m.row
                  /\ t.nextRead <= m.nextRead + 1
                  /\ t.nextWrite <= m.nextWrite + 1
                  /\ t.nextPrecharge <= m.nextPrecharge + 1
    /\ m.state # "PowerDown" /\ ~ Open(m) => t.state = "Idle"
    /\ ~ isSmartMRAM => t.nextActivate <= m.nextActivate + 1
    /\ Closing(m) => /\ ClosePage
                     /\ m.countdown \in 1 .. m.nextRead + 1
                     /\ m.countdown \in 1 .. m.nextWrite + 1

\* The delays a column command imposes.
ReadDelay(p) ==
    IF p.type \in Reads THEN Later(tCCD, Burst) ELSE WRITE_TO_READ_DELAY_B
WriteDelay(p) ==
    IF p.type \in Reads THEN READ_TO_WRITE_DELAY ELSE Later(tCCD, Burst)
PreDelay(p) ==
    IF p.type \in Reads THEN READ_TO_PRE_DELAY ELSE WRITE_TO_PRE_DELAY
AutoPreDelay(p) ==
    IF p.type \in Reads THEN READ_AUTOPRE_DELAY ELSE WRITE_AUTOPRE_DELAY

\* The delays it imposes on the open banks of the other ranks.
OtherReadDelay(p) ==
    IF p.type \in Reads THEN Burst + tRTRS ELSE WRITE_TO_READ_DELAY_R
OtherWriteDelay(p) ==
    IF p.type \in Reads THEN READ_TO_WRITE_DELAY ELSE Burst + tRTRS

\* The deadlines of a bank before and after a cycle that issues the command p;
\* own: p goes to that bank, same: to its rank.
DeadlinesKept(p, m, n, own, same) ==
    LET auto == p.type \in {"READ_P", "WRITE_P"}
        column == p.type \in Columns
        Covers(read, write) == read <= n.nextRead + 1 /\ write <= n.nextWrite + 1
    IN  /\ {m.nextRead, m.nextWrite, n.nextRead, n.nextWrite} \subseteq Nat
        /\ ~ (own /\ auto) => Covers(m.nextRead, m.nextWrite)
        /\ own /\ auto => Covers(AutoPreDelay(p), AutoPreDelay(p))
        /\ column /\ same /\ ~ (own /\ auto) => Covers(ReadDelay(p), WriteDelay(p))
        /\ column /\ ~ same /\ Open(n) => Covers(OtherReadDelay(p), OtherWriteDelay(p))
        /\ own /\ p.type = "ACTIVATE" /\ ~ isSmartMRAM => Covers(tRCD - AL, tRCD - AL)
        /\ Open(n) => \/ Open(m) /\ ~ (own /\ auto)
                      \/ own /\ p.type = "ACTIVATE"

\* The command of the cycle is for rank r.
For(p, r) == p # None /\ p.addr.rank = r

\* The bank tables.
Tables == [Ranks -> [Banks -> BankStates]]

\* What pop guarantees of the command p it returns.
Legal(bs, p) ==
    LET row == bs[p.addr.rank]
        m == row[p.addr.bank]
    IN  /\ p.type \in Columns =>
              /\ m.state = "RowActive" /\ m.row = p.addr.row
              /\ (IF p.type \in Reads THEN m.nextRead ELSE m.nextWrite) = 0
              /\ p.type \in {"READ_P", "WRITE_P"} => ClosePage
        /\ p.type = "ACTIVATE" =>
              m.state \in {"Idle", "Refreshing"} /\ m.nextActivate = 0
        /\ p.type = "PRECHARGE" =>
              m.state = "RowActive" /\ m.nextPrecharge = 0 /\ ~ ClosePage
        /\ p.type = "REFRESH" =>
              /\ \A b \in Banks : row[b].state # "RowActive" /\ row[b].nextActivate = 0
              /\ row[0].state # "PowerDown"
=============================================================================
