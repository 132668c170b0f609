------------------------------ MODULE TableProofs ------------------------------
(***************************************************************************)
(* What each command and each clock cycle does to one bank in the two bank *)
(* tables, and that it keeps the tables in agreement (TableAgreement); and *)
(* what it does to the bursts whose room those tables reserve (DataBus).   *)
(***************************************************************************)
EXTENDS DataBus, FiniteSetTheorems, TLAPS

-----------------------------------------------------------------------------
(* One bank *)

\* The timing parameters, and the delays derived from them that the bank tables
\* are filled with, are natural numbers.
LEMMA TimingNat ==
    /\ tRAS \in Nat /\ tRCD \in Nat /\ tRRD \in Nat /\ tRC \in Nat /\ tRP \in Nat
    /\ tCCD \in Nat /\ tRTRS \in Nat /\ tRFC \in Nat /\ tCKE \in Nat /\ tXP \in Nat
    /\ AL \in Nat
  BY TimingAssumption, Zenon

LEMMA DelaysNat ==
    /\ RL \in Nat /\ WL \in Nat /\ WL >= 1 /\ Burst \in Nat /\ Burst >= 1
    /\ READ_TO_PRE_DELAY \in Nat /\ READ_TO_PRE_DELAY >= 1
    /\ WRITE_TO_PRE_DELAY \in Nat /\ WRITE_TO_PRE_DELAY >= 1
    /\ READ_TO_WRITE_DELAY \in Nat /\ READ_AUTOPRE_DELAY \in Nat
    /\ WRITE_AUTOPRE_DELAY \in Nat /\ WRITE_TO_PRE_DELAY <= WRITE_AUTOPRE_DELAY
    /\ WRITE_TO_READ_DELAY_B \in Nat /\ WRITE_TO_READ_DELAY_R \in Nat
    /\ tRCD - AL \in Nat
<1>1. Burst \in Nat /\ Burst >= 1
  BY TimingAssumption DEF Burst
<1> QED
  BY <1>1, TimingAssumption
  DEF RL, WL, READ_TO_PRE_DELAY, WRITE_TO_PRE_DELAY,
      READ_TO_WRITE_DELAY, READ_AUTOPRE_DELAY, WRITE_AUTOPRE_DELAY,
      WRITE_TO_READ_DELAY_B, WRITE_TO_READ_DELAY_R, Later

\* Deadlines are natural numbers; a clock cycle takes one off.
LEMMA LaterElapsed ==
    /\ \A m, n \in Nat : /\ Later(m, n) \in Nat /\ Later(m, n) >= m
                         /\ Later(m, n) >= n /\ Later(m, n) \in {m, n}
    /\ \A n \in Nat : Elapsed(n) \in Nat /\ Elapsed(n) <= n /\ n <= Elapsed(n) + 1
    /\ \A n \in {0, 1} : Elapsed(n) = 0
    /\ \A m, n \in Nat : m <= n + 1 => Elapsed(m) <= Elapsed(n) + 1
  BY DEF Later, Elapsed

\* The fields of a bank.
LEMMA BankFields ==
    ASSUME NEW b \in BankStates
    PROVE  /\ {b.nextRead, b.nextWrite, b.nextActivate, b.nextPrecharge,
               b.nextPowerUp, b.countdown} \subseteq Nat
           /\ b.row \in 0 .. NUM_ROWS - 1 /\ b.lastCommand \in Commands
           /\ b.state \in {"Idle", "RowActive", "Precharging", "Refreshing",
                           "PowerDown"}
  BY Zenon DEF BankStates

\* The end of a cycle takes one off every deadline.
LEMMA BankStepShape ==
    ASSUME NEW b \in BankStates
    PROVE  /\ BankStep(b) \in BankStates
           /\ BankStep(b).state = b.state /\ BankStep(b).row = b.row
           /\ BankStep(b).lastCommand = b.lastCommand
           /\ BankStep(b).countdown = b.countdown
           /\ BankStep(b).nextRead = Elapsed(b.nextRead)
           /\ BankStep(b).nextWrite = Elapsed(b.nextWrite)
           /\ BankStep(b).nextActivate = Elapsed(b.nextActivate)
           /\ BankStep(b).nextPrecharge = Elapsed(b.nextPrecharge)
           /\ BankStep(b).nextPowerUp = Elapsed(b.nextPowerUp)
<1>1. BankStep(b) \in BankStates
  BY LaterElapsed, Zenon DEF BankStep, BankStates
<1> QED
  BY <1>1, SMT DEF BankStep, BankStates

\* What a countdown does to the state of a bank.
CountedDown(b, n) ==
    LET auto == b.lastCommand \in {"READ_P", "WRITE_P"}
    IN  \/ /\ b.countdown = 0 /\ n.countdown = 0
           /\ n.state = b.state /\ n.lastCommand = b.lastCommand
        \/ /\ b.countdown > 1 /\ n.countdown = b.countdown - 1
           /\ n.state = b.state /\ n.lastCommand = b.lastCommand
        \/ /\ b.countdown = 1 /\ auto
           /\ n.state = IF isSmartMRAM THEN "Idle" ELSE "Precharging"
           /\ n.lastCommand = "PRECHARGE"
           /\ n.state = "Idle" => n.countdown = 0
        \/ /\ b.countdown = 1 /\ b.lastCommand \in {"REFRESH", "PRECHARGE"}
           /\ n.state = "Idle" /\ n.countdown = 0
           /\ n.lastCommand = b.lastCommand
        \/ /\ b.countdown = 1 /\ ~ auto
           /\ b.lastCommand \notin {"REFRESH", "PRECHARGE"}
           /\ n.state = b.state /\ n.countdown = 0
           /\ n.lastCommand = b.lastCommand

\* A countdown leaves the row and the deadlines alone.
LEMMA CountDownShape ==
    ASSUME NEW b \in BankStates
    PROVE  /\ CountDown(b) \in BankStates
           /\ CountDown(b).row = b.row
           /\ CountDown(b).nextRead = b.nextRead
           /\ CountDown(b).nextWrite = b.nextWrite
           /\ CountDown(b).nextActivate = b.nextActivate
           /\ CountDown(b).nextPrecharge = b.nextPrecharge
           /\ CountDown(b).nextPowerUp = b.nextPowerUp
           /\ CountedDown(b, CountDown(b))
<1> DEFINE left == b.countdown - 1
           auto == b.lastCommand \in {"READ_P", "WRITE_P"}
<1>1. b.countdown \in Nat /\ tRP \in Nat /\ "PRECHARGE" \in Commands /\ 0 \in Nat
  BY TimingNat, Zenon DEF BankStates, Commands
<1>2. CASE b.countdown = 0
  BY <1>2, Zenon DEF CountDown, CountedDown
<1>3. CASE b.countdown # 0 /\ left # 0
  <2>1. CountDown(b) = [b EXCEPT !.countdown = left] /\ left \in Nat
    BY <1>1, <1>3 DEF CountDown
  <2>2. CountDown(b) \in BankStates
    BY <2>1, Zenon DEF BankStates
  <2> QED BY <1>1, <1>3, <2>1, <2>2, SMT DEF BankStates, CountedDown
<1>4. CASE b.countdown # 0 /\ left = 0 /\ auto
  <2>1. CASE isSmartMRAM
    <3>1. CountDown(b) = [b EXCEPT !.state = "Idle", !.lastCommand = "PRECHARGE",
                                   !.countdown = 0]
      BY <1>4, <2>1, Zenon DEF CountDown
    <3>2. CountDown(b) \in BankStates
      BY <1>1, <3>1, Zenon DEF BankStates
    <3> QED BY <1>1, <1>4, <2>1, <3>1, <3>2, SMT DEF BankStates, CountedDown
  <2>2. CASE ~ isSmartMRAM
    <3>1. CountDown(b) = [b EXCEPT !.state = "Precharging",
                                   !.lastCommand = "PRECHARGE", !.countdown = tRP]
      BY <1>4, <2>2, Zenon DEF CountDown
    <3>2. CountDown(b) \in BankStates
      BY <1>1, <3>1, Zenon DEF BankStates
    <3> QED BY <1>1, <1>4, <2>2, <3>1, <3>2, SMT DEF BankStates, CountedDown
  <2> QED BY <2>1, <2>2, Zenon
<1>5. CASE b.countdown # 0 /\ left = 0 /\ ~ auto
  <2>1. CASE b.lastCommand \in {"REFRESH", "PRECHARGE"}
    <3>1. CountDown(b) = [b EXCEPT !.state = "Idle", !.countdown = 0]
      BY <1>5, <2>1, Zenon DEF CountDown
    <3>2. CountDown(b) \in BankStates
      BY <1>1, <3>1, Zenon DEF BankStates
    <3> QED BY <1>1, <1>5, <2>1, <3>1, <3>2, SMT DEF BankStates, CountedDown
  <2>2. CASE b.lastCommand \notin {"REFRESH", "PRECHARGE"}
    <3>1. CountDown(b) = [b EXCEPT !.countdown = 0]
      BY <1>5, <2>2, Zenon DEF CountDown
    <3>2. CountDown(b) \in BankStates
      BY <1>1, <3>1, Zenon DEF BankStates
    <3> QED BY <1>1, <1>5, <2>2, <3>1, <3>2, SMT DEF BankStates, CountedDown
  <2> QED BY <2>1, <2>2, Zenon
<1> QED BY <1>2, <1>3, <1>4, <1>5, Zenon

-----------------------------------------------------------------------------
(* The controller's table *)

LEMMA ColumnDelays ==
    ASSUME NEW p
    PROVE  /\ {ReadDelay(p), WriteDelay(p), PreDelay(p), AutoPreDelay(p)} \subseteq Nat
           /\ {OtherReadDelay(p), OtherWriteDelay(p)} \subseteq Nat
           /\ PreDelay(p) \in 1 .. AutoPreDelay(p)
<1>1. Later(tCCD, Burst) \in Nat
  BY DelaysNat, LaterElapsed, TimingNat, Zenon
<1>2. {OtherReadDelay(p), OtherWriteDelay(p)} \subseteq Nat
  BY DelaysNat, TimingNat DEF OtherReadDelay, OtherWriteDelay
<1> QED
  BY <1>1, <1>2, DelaysNat, AutoprechargeAssumption
  DEF ReadDelay, WriteDelay, PreDelay, AutoPreDelay

\* What column command p does to entry m of the controller's table: own is the
\* bank it goes to, same a bank of the same rank.
ColumnBooked(p, m, n, own, same) ==
    LET auto == p.type \in {"READ_P", "WRITE_P"}
    IN  /\ n \in BankStates /\ n.state = m.state /\ n.row = m.row
        /\ n.nextPowerUp = m.nextPowerUp
        /\ n.lastCommand = IF own THEN p.type ELSE m.lastCommand
        /\ n.countdown = IF own /\ auto THEN PreDelay(p) ELSE m.countdown
        /\ n.nextActivate = IF own /\ auto
                            THEN Later(AutoPreDelay(p), m.nextActivate)
                            ELSE m.nextActivate
        /\ n.nextPrecharge = IF own /\ ~ auto
                             THEN Later(PreDelay(p), m.nextPrecharge)
                             ELSE m.nextPrecharge
        /\ own /\ auto => n.nextRead = n.nextActivate /\ n.nextWrite = n.nextActivate
        /\ ~ (own /\ auto) => n.nextRead >= m.nextRead /\ n.nextWrite >= m.nextWrite
        /\ same /\ ~ (own /\ auto) => /\ n.nextRead >= ReadDelay(p)
                                      /\ n.nextWrite >= WriteDelay(p)
        /\ ~ same /\ m.state = "RowActive" => /\ n.nextRead >= OtherReadDelay(p)
                                              /\ n.nextWrite >= OtherWriteDelay(p)

\* The controller's table after column command p.
BookColumn(bs, p) ==
    BlockColumns(ColumnTable(bs, p,
        ColumnOwn(bs[p.addr.rank][p.addr.bank], p, AutoPreDelay(p), PreDelay(p)),
        ReadDelay(p), WriteDelay(p), OtherReadDelay(p), OtherWriteDelay(p)), p)

LEMMA OnCommandCases ==
    ASSUME NEW bs, NEW p
    PROVE  /\ p.type \in Reads => OnCommand(bs, p) = OnRead(bs, p)
           /\ p.type \in Writes => OnCommand(bs, p) = OnWrite(bs, p)
           /\ p.type = "ACTIVATE" => OnCommand(bs, p) = OnActivate(bs, p)
           /\ p.type = "PRECHARGE" => OnCommand(bs, p) = OnPrecharge(bs, p)
           /\ p.type = "REFRESH" => OnCommand(bs, p) = OnRefresh(bs, p)
           /\ p.type \notin Commands => OnCommand(bs, p) = bs
  BY Zenon DEF OnCommand, Commands, Columns, Reads, Writes

\* Reads and writes are booked as column commands.
LEMMA OnColumnShape ==
    \A bs, p :
       /\ bs \in Tables /\ p \in Packets /\ p.type \in Columns
       => /\ OnCommand(bs, p) \in Tables
          /\ \A r \in Ranks, b \in Banks :
                ColumnBooked(p, bs[r][b], OnCommand(bs, p)[r][b],
                             r = p.addr.rank /\ b = p.addr.bank, r = p.addr.rank)
<1>BookColumnShape.
    \A bs, p :
       /\ bs \in Tables /\ p \in Packets /\ p.type \in Columns
       => /\ BookColumn(bs, p) \in Tables
          /\ \A r \in Ranks, b \in Banks :
                ColumnBooked(p, bs[r][b],
                             BookColumn(bs, p)[r][b],
                             r = p.addr.rank /\ b = p.addr.bank, r = p.addr.rank)
\* A column command as the controller books it in its own bank.
  <2>ColumnOwnShape.
      ASSUME NEW b \in BankStates, NEW p \in Packets, p.type \in Columns,
             NEW autopre \in Nat, NEW topre \in Nat
      PROVE  LET n == ColumnOwn(b, p, autopre, topre)
                 auto == p.type \in {"READ_P", "WRITE_P"}
             IN  /\ n \in BankStates /\ n.state = b.state /\ n.row = b.row
                 /\ n.nextRead = b.nextRead /\ n.nextWrite = b.nextWrite
                 /\ n.nextPowerUp = b.nextPowerUp /\ n.lastCommand = p.type
                 /\ n.countdown = IF auto THEN topre ELSE b.countdown
                 /\ n.nextActivate = IF auto THEN Later(autopre, b.nextActivate)
                                     ELSE b.nextActivate
                 /\ n.nextPrecharge = IF auto THEN b.nextPrecharge
                                      ELSE Later(topre, b.nextPrecharge)
    <3> USE <2>ColumnOwnShape
    <3>1. /\ Later(autopre, b.nextActivate) \in Nat
          /\ Later(topre, b.nextPrecharge) \in Nat /\ p.type \in Commands
      BY BankFields, LaterElapsed, Zenon DEF Packets
    <3>2. CASE p.type \in {"READ_P", "WRITE_P"}
      <4>1. ColumnOwn(b, p, autopre, topre) =
               [b EXCEPT !.nextActivate = Later(autopre, b.nextActivate),
                         !.lastCommand = p.type, !.countdown = topre]
        BY <3>2, Zenon DEF ColumnOwn
      <4>2. ColumnOwn(b, p, autopre, topre) \in BankStates
        BY <3>1, <4>1, Zenon DEF BankStates
      <4> QED BY <3>2, <4>1, <4>2, SMT DEF BankStates
    <3>3. CASE p.type \notin {"READ_P", "WRITE_P"}
      <4>1. ColumnOwn(b, p, autopre, topre) =
               [b EXCEPT !.nextPrecharge = Later(topre, b.nextPrecharge),
                         !.lastCommand = p.type]
        BY <3>3, Zenon DEF ColumnOwn
      <4>2. ColumnOwn(b, p, autopre, topre) \in BankStates
        BY <3>1, <4>1, Zenon DEF BankStates
      <4> QED BY <3>3, <4>1, <4>2, SMT DEF BankStates
    <3> QED BY <3>2, <3>3, Zenon

  <2>DelayShape.
      ASSUME NEW b \in BankStates, NEW read \in Nat, NEW write \in Nat
      PROVE  LET n == Delay(b, read, write)
             IN  /\ n \in BankStates /\ n.state = b.state /\ n.row = b.row
                 /\ n.nextRead = Later(read, b.nextRead)
                 /\ n.nextWrite = Later(write, b.nextWrite)
                 /\ n.nextActivate = b.nextActivate
                 /\ n.nextPrecharge = b.nextPrecharge
                 /\ n.nextPowerUp = b.nextPowerUp
                 /\ n.lastCommand = b.lastCommand /\ n.countdown = b.countdown
    <3> USE <2>DelayShape
    <3>1. Later(read, b.nextRead) \in Nat /\ Later(write, b.nextWrite) \in Nat
      BY BankFields, LaterElapsed, Zenon
    <3>2. Delay(b, read, write) \in BankStates
      BY <3>1, Zenon DEF Delay, BankStates
    <3> QED
      BY <3>2, SMT DEF Delay, BankStates

  <2>DelayBooked.
      ASSUME NEW p \in Packets, NEW m \in BankStates, NEW same \in BOOLEAN,
             NEW read \in Nat, NEW write \in Nat,
             same => read = ReadDelay(p) /\ write = WriteDelay(p),
             ~ same => read = OtherReadDelay(p) /\ write = OtherWriteDelay(p)
      PROVE  ColumnBooked(p, m, Delay(m, read, write), FALSE, same)
    <3> USE <2>DelayBooked
    <3>1. PICK n \in BankStates :
             /\ n = Delay(m, read, write) /\ n.state = m.state /\ n.row = m.row
             /\ n.nextRead = Later(read, m.nextRead)
             /\ n.nextWrite = Later(write, m.nextWrite)
             /\ n.nextActivate = m.nextActivate
             /\ n.nextPrecharge = m.nextPrecharge
             /\ n.nextPowerUp = m.nextPowerUp
             /\ n.lastCommand = m.lastCommand /\ n.countdown = m.countdown
      BY <2>DelayShape, Zenon
    <3>2. /\ Later(read, m.nextRead) >= read /\ Later(read, m.nextRead) >= m.nextRead
          /\ Later(write, m.nextWrite) >= write /\ Later(write, m.nextWrite) >= m.nextWrite
      BY BankFields, LaterElapsed, Zenon
    <3> QED
      BY <3>1, <3>2, Zenon DEF ColumnBooked

  <2> SUFFICES ASSUME NEW bs \in Tables, NEW p \in Packets, p.type \in Columns
               PROVE  /\ BookColumn(bs, p) \in Tables
                      /\ \A r \in Ranks, b \in Banks :
                            ColumnBooked(p, bs[r][b],
                                         BookColumn(bs, p)[r][b],
                                         r = p.addr.rank /\ b = p.addr.bank, r = p.addr.rank)
    BY Zenon
  <2> DEFINE a == p.addr
             own == ColumnOwn(bs[a.rank][a.bank], p, AutoPreDelay(p), PreDelay(p))
             auto == p.type \in {"READ_P", "WRITE_P"}
             E(x, y) == IF x # a.rank
                        THEN IF bs[x][y].state = "RowActive"
                             THEN Delay(bs[x][y], OtherReadDelay(p), OtherWriteDelay(p))
                             ELSE bs[x][y]
                        ELSE Delay(IF y = a.bank THEN own ELSE bs[x][y],
                                   ReadDelay(p), WriteDelay(p))
             ct == [x \in Ranks |-> [y \in Banks |-> E(x, y)]]
             last == ct[a.rank][a.bank]
             blocked == [last EXCEPT !.nextRead = last.nextActivate,
                                     !.nextWrite = last.nextActivate]
             bt == BookColumn(bs, p)
  <2>1. a.rank \in Ranks /\ a.bank \in Banks
    BY Zenon DEF Packets, Addresses
  <2>2. /\ \A x \in Ranks, y \in Banks : bs[x][y] \in BankStates
        /\ ReadDelay(p) \in Nat /\ WriteDelay(p) \in Nat
        /\ OtherReadDelay(p) \in Nat /\ OtherWriteDelay(p) \in Nat
    BY ColumnDelays, Zenon DEF Tables
  <2>3. own \in BankStates
    BY <2>1, <2>2, ColumnDelays, <2>ColumnOwnShape, Zenon
  <2>4. bt = IF auto THEN [ct EXCEPT ![a.rank][a.bank] = blocked] ELSE ct
    BY Zenon DEF BookColumn, BlockColumns, ColumnTable, Table
  <2> HIDE DEF own, bt
  <2>5. \A x \in Ranks, y \in Banks : E(x, y) \in BankStates
    BY <2>2, <2>3, <2>DelayShape, Zenon
  <2>6. ct \in Tables /\ \A x \in Ranks, y \in Banks : ct[x][y] = E(x, y)
    <3> HIDE DEF E
    <3> QED BY <2>5, Zenon DEF Tables
  <2> HIDE DEF ct
  <2>7. last \in BankStates
    BY <2>1, <2>6, Zenon DEF Tables
  <2>8. blocked \in BankStates
    BY <2>7, Zenon DEF BankStates
  <2>9. /\ bt \in Tables
        /\ \A x \in Ranks, y \in Banks :
              bt[x][y] = IF auto /\ x = a.rank /\ y = a.bank THEN blocked ELSE E(x, y)
    <3> HIDE DEF blocked, E
    <3> QED BY <2>1, <2>4, <2>6, <2>8, Zenon DEF Tables
  <2>10. ASSUME NEW r \in Ranks, NEW b \in Banks, ~ (r = a.rank /\ b = a.bank)
         PROVE  ColumnBooked(p, bs[r][b], bt[r][b], FALSE, r = a.rank)
    <3>1. \/ bt[r][b] = bs[r][b] /\ r # a.rank /\ bs[r][b].state # "RowActive"
          \/ /\ bt[r][b] = Delay(bs[r][b], OtherReadDelay(p), OtherWriteDelay(p))
             /\ r # a.rank
          \/ bt[r][b] = Delay(bs[r][b], ReadDelay(p), WriteDelay(p)) /\ r = a.rank
      BY <2>9, <2>10, Zenon
    <3>2. CASE bt[r][b] = bs[r][b] /\ r # a.rank /\ bs[r][b].state # "RowActive"
      <4>1. bs[r][b] \in BankStates
        BY <2>2, Zenon
      <4>2. bs[r][b].nextRead \in Nat /\ bs[r][b].nextWrite \in Nat
        BY <4>1, BankFields, Zenon
      <4> QED BY <3>2, <4>1, <4>2 DEF ColumnBooked
    <3>3. CASE /\ bt[r][b] = Delay(bs[r][b], OtherReadDelay(p), OtherWriteDelay(p))
               /\ r # a.rank
      BY <2>2, <3>3, <2>DelayBooked, Zenon
    <3>4. CASE bt[r][b] = Delay(bs[r][b], ReadDelay(p), WriteDelay(p)) /\ r = a.rank
      BY <2>2, <3>4, <2>DelayBooked, ZenonT(40)
    <3> QED BY <3>1, <3>2, <3>3, <3>4, Zenon
  <2>11. ColumnBooked(p, bs[a.rank][a.bank], bt[a.rank][a.bank], TRUE, TRUE)
    <3> DEFINE m == bs[a.rank][a.bank]
    <3>1. /\ own.state = m.state /\ own.row = m.row
          /\ own.nextRead = m.nextRead /\ own.nextWrite = m.nextWrite
          /\ own.nextPowerUp = m.nextPowerUp /\ own.lastCommand = p.type
          /\ own.countdown = IF auto THEN PreDelay(p) ELSE m.countdown
          /\ own.nextActivate = IF auto THEN Later(AutoPreDelay(p), m.nextActivate)
                                ELSE m.nextActivate
          /\ own.nextPrecharge = IF auto THEN m.nextPrecharge
                                 ELSE Later(PreDelay(p), m.nextPrecharge)
      <4>1. m \in BankStates /\ AutoPreDelay(p) \in Nat /\ PreDelay(p) \in Nat
        BY <2>1, <2>2, ColumnDelays, Zenon
      <4> HIDE DEF m
      <4>2. own = ColumnOwn(m, p, AutoPreDelay(p), PreDelay(p))
        BY Zenon DEF own, m
      <4> QED BY <4>1, <4>2, <2>ColumnOwnShape
    <3>2. last = Delay(own, ReadDelay(p), WriteDelay(p))
      BY <2>1, <2>6, Zenon
    <3>3. ColumnBooked(p, own, last, FALSE, TRUE)
      BY <2>2, <2>3, <3>2, <2>DelayBooked, Zenon
    <3>4. m \in BankStates
      BY <2>1, <2>2, Zenon
    <3>5. CASE ~ auto
      <4>1. bt[a.rank][a.bank] = last
        BY <2>1, <2>6, <2>9, <3>5
      <4> QED BY <2>7, <3>1, <3>3, <3>4, <3>5, <4>1, BankFields, Zenon DEF ColumnBooked
    <3>6. CASE auto
      <4>1. bt[a.rank][a.bank] = blocked
        BY <2>1, <2>9, <3>6, Zenon
      <4>2. /\ blocked.state = last.state /\ blocked.row = last.row
            /\ blocked.nextPowerUp = last.nextPowerUp
            /\ blocked.lastCommand = last.lastCommand
            /\ blocked.countdown = last.countdown
            /\ blocked.nextActivate = last.nextActivate
            /\ blocked.nextPrecharge = last.nextPrecharge
            /\ blocked.nextRead = last.nextActivate
            /\ blocked.nextWrite = last.nextActivate
        BY <2>7, SMT DEF BankStates
      <4> HIDE DEF blocked
      <4> QED BY <2>8, <3>1, <3>3, <3>6, <4>1, <4>2, Zenon DEF ColumnBooked
    <3> QED BY <3>5, <3>6, Zenon
  <2> QED
    BY <2>1, <2>9, <2>10, <2>11, Zenon DEF bt

<1> SUFFICES ASSUME NEW bs \in Tables, NEW p \in Packets, p.type \in Columns
             PROVE  /\ OnCommand(bs, p) \in Tables
                    /\ \A r \in Ranks, b \in Banks :
                          ColumnBooked(p, bs[r][b], OnCommand(bs, p)[r][b],
                                       r = p.addr.rank /\ b = p.addr.bank, r = p.addr.rank)
  BY Zenon
<1>1. CASE p.type \in Reads
  <2>1. OnCommand(bs, p) = BookColumn(bs, p)
    <3>1. OnCommand(bs, p) = OnRead(bs, p)
      BY <1>1, OnCommandCases, Zenon
    <3>2. /\ ReadDelay(p) = Later(tCCD, Burst) /\ WriteDelay(p) = READ_TO_WRITE_DELAY
          /\ PreDelay(p) = READ_TO_PRE_DELAY /\ AutoPreDelay(p) = READ_AUTOPRE_DELAY
          /\ OtherReadDelay(p) = Burst + tRTRS
          /\ OtherWriteDelay(p) = READ_TO_WRITE_DELAY
      BY <1>1, Zenon DEF ReadDelay, WriteDelay, PreDelay, AutoPreDelay,
                         OtherReadDelay, OtherWriteDelay
    <3> QED BY <3>1, <3>2, Zenon DEF OnRead, BookColumn
  <2>3. /\ BookColumn(bs, p) \in Tables
        /\ \A r \in Ranks, b \in Banks :
              ColumnBooked(p, bs[r][b],
                   BookColumn(bs, p)[r][b],
                   r = p.addr.rank /\ b = p.addr.bank, r = p.addr.rank)
    BY <1>BookColumnShape, Zenon
  <2> QED BY <2>1, <2>3, Zenon
<1>2. CASE p.type \in Writes
  <2>1. p.type \notin Reads
    BY <1>2, Zenon DEF Reads, Writes
  <2>2. Later(Burst, tCCD) = Later(tCCD, Burst)
    BY DelaysNat, TimingNat DEF Later
  <2>3. OnCommand(bs, p) = BookColumn(bs, p)
    <3>1. OnCommand(bs, p) = OnWrite(bs, p)
      BY <1>2, OnCommandCases, Zenon
    <3>2. /\ ReadDelay(p) = WRITE_TO_READ_DELAY_B
          /\ WriteDelay(p) = Later(Burst, tCCD)
          /\ PreDelay(p) = WRITE_TO_PRE_DELAY /\ AutoPreDelay(p) = WRITE_AUTOPRE_DELAY
          /\ OtherReadDelay(p) = WRITE_TO_READ_DELAY_R
          /\ OtherWriteDelay(p) = Burst + tRTRS
      BY <2>1, <2>2, Zenon DEF ReadDelay, WriteDelay, PreDelay, AutoPreDelay,
                               OtherReadDelay, OtherWriteDelay
    <3> QED BY <3>1, <3>2, Zenon DEF OnWrite, BookColumn
  <2>5. /\ BookColumn(bs, p) \in Tables
        /\ \A r \in Ranks, b \in Banks :
              ColumnBooked(p, bs[r][b],
                   BookColumn(bs, p)[r][b],
                   r = p.addr.rank /\ b = p.addr.bank, r = p.addr.rank)
    BY <1>BookColumnShape, Zenon
  <2> QED BY <2>3, <2>5, Zenon
<1> QED BY <1>1, <1>2, Zenon DEF Columns

\* What ACTIVATE p does to entry m of the controller's table.
ActivateBooked(p, m, n, own, same) ==
    /\ n \in BankStates /\ n.countdown = m.countdown
    /\ n.nextPowerUp = m.nextPowerUp
    /\ same /\ (~ own \/ isSmartMRAM) => n.nextActivate >= tRRD
    /\ n.nextActivate >= m.nextActivate
    /\ ~ own => /\ n.state = m.state /\ n.row = m.row
                /\ n.lastCommand = m.lastCommand /\ n.nextRead = m.nextRead
                /\ n.nextWrite = m.nextWrite /\ n.nextPrecharge = m.nextPrecharge
    /\ own => /\ n.state = "RowActive" /\ n.row = p.addr.row
              /\ n.lastCommand = "ACTIVATE"
              /\ n.nextRead >= m.nextRead /\ n.nextWrite >= m.nextWrite
    /\ own /\ ~ isSmartMRAM => /\ n.nextActivate >= tRC
                               /\ n.nextPrecharge >= tRAS
                               /\ n.nextRead >= tRCD - AL
                               /\ n.nextWrite >= tRCD - AL

\* ACTIVATE opens a row in its bank and delays the next ACTIVATE of the rank.
LEMMA OnActivateShape ==
    \A bs, p :
       /\ bs \in Tables /\ p \in Packets /\ p.type = "ACTIVATE"
       => /\ OnCommand(bs, p) \in Tables
          /\ \A r \in Ranks, b \in Banks :
                ActivateBooked(p, bs[r][b], OnCommand(bs, p)[r][b],
                               r = p.addr.rank /\ b = p.addr.bank, r = p.addr.rank)
<1>ActivateOwnBooked.
    ASSUME NEW m \in BankStates, NEW p \in Packets
    PROVE  ActivateBooked(p, m, ActivateOwn(m, p), TRUE, TRUE)
  <2> USE <1>ActivateOwnBooked
  <2> DEFINE open == [m EXCEPT !.state = "RowActive", !.lastCommand = "ACTIVATE",
                               !.row = p.addr.row]
             d == tRCD - AL
             own == IF isSmartMRAM
                    THEN [open EXCEPT !.nextActivate = Later(tRRD, @),
                                      !.nextPrecharge = 0]
                    ELSE [open EXCEPT !.nextActivate = Later(tRC, @),
                                      !.nextPrecharge = Later(tRAS, @),
                                      !.nextRead = Later(d, @),
                                      !.nextWrite = Later(d, @)]
  <2>1. p.addr.row \in 0 .. NUM_ROWS - 1 /\ "ACTIVATE" \in Commands /\ 0 \in Nat
    BY Zenon DEF Packets, Addresses, Commands
  <2>2. open \in BankStates
    BY <2>1, Zenon DEF BankStates
  <2>3. /\ open.state = "RowActive" /\ open.row = p.addr.row
        /\ open.lastCommand = "ACTIVATE" /\ open.countdown = m.countdown
        /\ open.nextPowerUp = m.nextPowerUp
        /\ open.nextRead = m.nextRead /\ open.nextWrite = m.nextWrite
        /\ open.nextActivate = m.nextActivate /\ open.nextPrecharge = m.nextPrecharge
    BY <2>2, SMT DEF BankStates
  <2>4. ActivateOwn(m, p) = own
    BY Zenon DEF ActivateOwn
  <2> HIDE DEF open
  <2>5. /\ m.nextActivate \in Nat /\ m.nextPrecharge \in Nat
        /\ m.nextRead \in Nat /\ m.nextWrite \in Nat /\ d \in Nat
    BY BankFields, DelaysNat, Zenon
  <2> HIDE DEF d
  <2>6. /\ \A x \in {tRRD, tRC} : /\ Later(x, m.nextActivate) \in Nat
                                 /\ Later(x, m.nextActivate) >= x
                                 /\ Later(x, m.nextActivate) >= m.nextActivate
        /\ Later(tRAS, m.nextPrecharge) \in Nat
        /\ Later(tRAS, m.nextPrecharge) >= tRAS
        /\ \A y \in {m.nextRead, m.nextWrite} :
              Later(d, y) \in Nat /\ Later(d, y) >= d /\ Later(d, y) >= y
    BY <2>5, LaterElapsed, TimingNat, ZenonT(40)
  <2>7. own \in BankStates
    BY <2>1, <2>2, <2>3, <2>6, Zenon DEF BankStates
  <2>8. CASE isSmartMRAM
    <3>1. /\ own.state = open.state /\ own.row = open.row
          /\ own.lastCommand = open.lastCommand /\ own.countdown = open.countdown
          /\ own.nextPowerUp = open.nextPowerUp /\ own.nextRead = open.nextRead
          /\ own.nextWrite = open.nextWrite
          /\ own.nextActivate = Later(tRRD, open.nextActivate)
      BY <2>2, <2>8, SMT DEF BankStates
    <3> HIDE DEF own
    <3> QED BY <2>3, <2>4, <2>5, <2>6, <2>7, <2>8, <3>1 DEF ActivateBooked
  <2>9. CASE ~ isSmartMRAM
    <3>1. /\ own.state = open.state /\ own.row = open.row
          /\ own.lastCommand = open.lastCommand /\ own.countdown = open.countdown
          /\ own.nextPowerUp = open.nextPowerUp
          /\ own.nextRead = Later(d, open.nextRead)
          /\ own.nextWrite = Later(d, open.nextWrite)
          /\ own.nextActivate = Later(tRC, open.nextActivate)
          /\ own.nextPrecharge = Later(tRAS, open.nextPrecharge)
      BY <2>2, <2>9, SMT DEF BankStates
    <3> HIDE DEF own
    <3> QED BY <2>3, <2>4, <2>5, <2>6, <2>7, <2>9, <3>1, Zenon DEF ActivateBooked, d
  <2> QED BY <2>8, <2>9, Zenon

<1>ActivateOtherBooked.
    ASSUME NEW m \in BankStates, NEW p \in Packets
    PROVE  ActivateBooked(p, m, ActivateOther(m), FALSE, TRUE)
  <2> USE <1>ActivateOtherBooked
  <2> DEFINE n == ActivateOther(m)
  <2>1. /\ Later(tRRD, m.nextActivate) \in Nat
        /\ Later(tRRD, m.nextActivate) >= tRRD
        /\ Later(tRRD, m.nextActivate) >= m.nextActivate
    BY BankFields, LaterElapsed, TimingNat, Zenon
  <2>2. n \in BankStates
    BY <2>1, Zenon DEF ActivateOther, BankStates
  <2>3. /\ n.state = m.state /\ n.row = m.row /\ n.lastCommand = m.lastCommand
        /\ n.nextRead = m.nextRead /\ n.nextWrite = m.nextWrite
        /\ n.nextPrecharge = m.nextPrecharge /\ n.nextPowerUp = m.nextPowerUp
        /\ n.countdown = m.countdown
        /\ n.nextActivate = Later(tRRD, m.nextActivate)
    BY <2>2, SMT DEF ActivateOther, BankStates
  <2> HIDE DEF n
  <2> QED BY <2>1, <2>2, <2>3, Zenon DEF ActivateBooked, n

<1> SUFFICES ASSUME NEW bs \in Tables, NEW p \in Packets, p.type = "ACTIVATE"
             PROVE  /\ OnCommand(bs, p) \in Tables
                    /\ \A r \in Ranks, b \in Banks :
                          ActivateBooked(p, bs[r][b], OnCommand(bs, p)[r][b],
                                         r = p.addr.rank /\ b = p.addr.bank, r = p.addr.rank)
  BY Zenon
<1> DEFINE a == p.addr
           bt == OnCommand(bs, p)
           E(y) == IF y = a.bank THEN ActivateOwn(bs[a.rank][y], p)
                   ELSE ActivateOther(bs[a.rank][y])
<1>1. a.rank \in Ranks /\ a.bank \in Banks
  BY Zenon DEF Packets, Addresses
<1>2. \A x \in Ranks, y \in Banks : bs[x][y] \in BankStates
  BY Zenon DEF Tables
<1>3. bt = [bs EXCEPT ![a.rank] = [y \in Banks |-> E(y)]]
  BY OnCommandCases DEF OnActivate
<1>4. \A y \in Banks : ActivateBooked(p, bs[a.rank][y], E(y), y = a.bank, TRUE)
  BY <1>1, <1>2, <1>ActivateOwnBooked, <1>ActivateOtherBooked, Zenon
<1>5. \A y \in Banks : E(y) \in BankStates
  BY <1>4, Zenon DEF ActivateBooked
<1>6. /\ bt \in Tables
      /\ \A x \in Ranks, y \in Banks :
            bt[x][y] = IF x = a.rank THEN E(y) ELSE bs[x][y]
  <2> HIDE DEF E
  <2> QED BY <1>1, <1>3, <1>5 DEF Tables
<1> HIDE DEF E
<1>7. ASSUME NEW r \in Ranks, NEW b \in Banks
      PROVE  ActivateBooked(p, bs[r][b], bt[r][b],
                            r = a.rank /\ b = a.bank, r = a.rank)
  <2>1. CASE r = a.rank
    BY <1>4, <1>6, <2>1, Zenon
  <2>2. CASE r # a.rank
    <3>1. bs[r][b] \in BankStates /\ bs[r][b].nextActivate \in Nat
      BY <1>2, BankFields, Zenon
    <3> QED BY <1>6, <2>2, <3>1 DEF ActivateBooked
  <2> QED BY <2>1, <2>2, Zenon
<1> QED BY <1>6, <1>7, Zenon

\* What PRECHARGE does to the entry m of its bank.
PrechargeBooked(m, n) ==
    /\ n \in BankStates /\ n.row = m.row /\ n.nextRead = m.nextRead
    /\ n.nextWrite = m.nextWrite /\ n.nextPrecharge = m.nextPrecharge
    /\ n.nextPowerUp = m.nextPowerUp /\ n.lastCommand = "PRECHARGE"
    /\ n.state = IF isSmartMRAM THEN "Idle" ELSE "Precharging"
    /\ n.countdown = IF isSmartMRAM THEN 0 ELSE tRP
    /\ n.nextActivate = IF isSmartMRAM THEN 0 ELSE Later(tRP, m.nextActivate)

LEMMA OnPrechargeShape ==
    ASSUME NEW bs \in Tables, NEW p \in Packets, p.type = "PRECHARGE"
    PROVE  /\ OnCommand(bs, p) \in Tables
           /\ \A r \in Ranks, b \in Banks :
                 IF r = p.addr.rank /\ b = p.addr.bank
                 THEN PrechargeBooked(bs[r][b], OnCommand(bs, p)[r][b])
                 ELSE OnCommand(bs, p)[r][b] = bs[r][b]
<1> DEFINE a == p.addr
           bt == OnCommand(bs, p)
           m == bs[a.rank][a.bank]
           n == PrechargeOwn(m)
<1>1. a.rank \in Ranks /\ a.bank \in Banks
  BY Zenon DEF Packets, Addresses
<1>2. bt = [bs EXCEPT ![a.rank][a.bank] = n]
  BY OnCommandCases, Zenon DEF OnPrecharge
<1>3. m \in BankStates
  BY <1>1, Zenon DEF Tables
<1> HIDE DEF m
<1>4. PrechargeBooked(m, n)
  <2>1. Later(tRP, m.nextActivate) \in Nat /\ tRP \in Nat /\ 0 \in Nat
        /\ "PRECHARGE" \in Commands
    BY <1>3, BankFields, LaterElapsed, TimingNat, Zenon DEF Commands
  <2>2. n \in BankStates
    BY <1>3, <2>1, Zenon DEF PrechargeOwn, BankStates
  <2>3. CASE isSmartMRAM
    BY <1>3, <2>2, <2>3, SMT DEF PrechargeBooked, PrechargeOwn, BankStates
  <2>4. CASE ~ isSmartMRAM
    BY <1>3, <2>2, <2>4, SMT DEF PrechargeBooked, PrechargeOwn, BankStates
  <2> QED BY <2>3, <2>4, Zenon
<1>5. n \in BankStates
  BY <1>4, Zenon DEF PrechargeBooked
<1> HIDE DEF n
<1>6. /\ bt \in Tables
      /\ \A x \in Ranks, y \in Banks :
            bt[x][y] = IF x = a.rank /\ y = a.bank THEN n ELSE bs[x][y]
  BY <1>1, <1>2, <1>5 DEF Tables
<1> QED BY <1>4, <1>6, Zenon DEF m

\* What REFRESH does to an entry m of its rank.
RefreshBooked(m, n) ==
    /\ n \in BankStates /\ n.row = m.row /\ n.nextRead = m.nextRead
    /\ n.nextWrite = m.nextWrite /\ n.nextPrecharge = m.nextPrecharge
    /\ n.nextPowerUp = m.nextPowerUp /\ n.lastCommand = "REFRESH"
    /\ n.state = "Refreshing" /\ n.countdown = tRFC /\ n.nextActivate = tRFC

LEMMA OnRefreshShape ==
    ASSUME NEW bs \in Tables, NEW p \in Packets, p.type = "REFRESH"
    PROVE  /\ OnCommand(bs, p) \in Tables
           /\ \A r \in Ranks, b \in Banks :
                 IF r = p.addr.rank
                 THEN RefreshBooked(bs[r][b], OnCommand(bs, p)[r][b])
                 ELSE OnCommand(bs, p)[r][b] = bs[r][b]
<1> DEFINE a == p.addr
           bt == OnCommand(bs, p)
<1>1. a.rank \in Ranks
  BY Zenon DEF Packets, Addresses
<1>2. bt = [bs EXCEPT ![a.rank] = [y \in Banks |-> RefreshOwn(bs[a.rank][y])]]
  BY OnCommandCases DEF OnRefresh
<1>3. ASSUME NEW m \in BankStates
      PROVE  RefreshBooked(m, RefreshOwn(m))
  <2>1. tRFC \in Nat /\ "REFRESH" \in Commands
    BY TimingNat, Zenon DEF Commands
  <2>2. RefreshOwn(m) \in BankStates
    BY <2>1, Zenon DEF RefreshOwn, BankStates
  <2> QED BY <2>2, SMT DEF RefreshBooked, RefreshOwn, BankStates
<1>4. \A m \in BankStates : RefreshOwn(m) \in BankStates
  BY <1>3, Zenon DEF RefreshBooked
<1>5. /\ bt \in Tables
      /\ \A x \in Ranks, y \in Banks :
            bt[x][y] = IF x = a.rank THEN RefreshOwn(bs[x][y]) ELSE bs[x][y]
  BY <1>1, <1>2, <1>4 DEF Tables
<1>6. \A x \in Ranks, y \in Banks : bs[x][y] \in BankStates
  BY Zenon DEF Tables
<1> QED BY <1>3, <1>5, <1>6, Zenon

LEMMA PowerShape ==
    ASSUME NEW m \in BankStates
    PROVE  /\ LET n == BankPowerDown(m)
              IN  /\ n \in BankStates /\ n.state = "PowerDown"
                  /\ n.nextPowerUp = tCKE /\ n.countdown = m.countdown
                  /\ n.nextActivate = m.nextActivate
                  /\ n.nextRead = m.nextRead /\ n.nextWrite = m.nextWrite
                  /\ n.lastCommand = m.lastCommand
           /\ LET n == BankPowerUp(m)
              IN  /\ n \in BankStates /\ n.state = "Idle" /\ n.nextActivate = tXP
                  /\ n.nextRead = m.nextRead /\ n.nextWrite = m.nextWrite
                  /\ n.countdown = m.countdown /\ n.lastCommand = m.lastCommand
<1>1. tCKE \in Nat /\ tXP \in Nat
  BY TimingNat, Zenon
<1>2. BankPowerDown(m) \in BankStates /\ BankPowerUp(m) \in BankStates
  BY <1>1, Zenon DEF BankPowerDown, BankPowerUp, BankStates
<1> QED BY <1>2, SMT DEF BankPowerDown, BankPowerUp, BankStates

-----------------------------------------------------------------------------
(* The rank's table *)

\* A rank, whatever its read data is.
IsRank(rk) ==
    rk \in [banks : [Banks -> BankStates], returning : {rk.returning},
            outgoing : {rk.outgoing}, refreshWaiting : BOOLEAN,
            isPowerDown : BOOLEAN, error : BOOLEAN]

\* The rank after command p has arrived, n, where its table allowed it.
ColumnReceived(p, t, n, own) ==
    LET auto == p.type \in {"READ_P", "WRITE_P"}
    IN  /\ n \in BankStates /\ n.row = t.row /\ n.nextPowerUp = t.nextPowerUp
        /\ n.state = IF own /\ auto THEN "Idle" ELSE t.state
        /\ n.nextRead = Later(t.nextRead, ReadDelay(p))
        /\ n.nextWrite = Later(t.nextWrite, WriteDelay(p))
        /\ n.nextPrecharge = IF own /\ ~ auto THEN Later(t.nextPrecharge, PreDelay(p))
                             ELSE t.nextPrecharge
        /\ n.nextActivate = IF ~ (own /\ auto) THEN t.nextActivate
                            ELSE IF isSmartMRAM THEN 0
                            ELSE Later(t.nextActivate, AutoPreDelay(p))

LEMMA ColumnReceivedShape ==
    \A rk, p :
       /\ IsRank(rk) /\ p \in Packets /\ p.type \in Columns
       => LET n == ReceiveColumn(rk, p)
          IN  /\ IsRank(n) /\ n.error = rk.error
              /\ n.isPowerDown = rk.isPowerDown
              /\ n.refreshWaiting = rk.refreshWaiting
              /\ n.outgoing = rk.outgoing
              /\ n.returning = IF p.type \in Reads
                               THEN Append(rk.returning, [addr |-> p.addr, left |-> RL])
                               ELSE rk.returning
              /\ \A b \in Banks :
                    ColumnReceived(p, rk.banks[b], n.banks[b], b = p.addr.bank)
<1>ColumnOwnBankShape.
    ASSUME NEW t \in BankStates, NEW p \in Packets, p.type \in Columns
    PROVE  LET n == ColumnOwnBank(t, p)
               auto == p.type \in {"READ_P", "WRITE_P"}
           IN  /\ n \in BankStates /\ n.row = t.row /\ n.nextPowerUp = t.nextPowerUp
               /\ n.nextRead = t.nextRead /\ n.nextWrite = t.nextWrite
               /\ n.state = IF auto THEN "Idle" ELSE t.state
               /\ n.nextPrecharge = IF auto THEN t.nextPrecharge
                                    ELSE Later(t.nextPrecharge, PreDelay(p))
               /\ n.nextActivate = IF ~ auto THEN t.nextActivate
                                   ELSE IF isSmartMRAM THEN 0
                                   ELSE Later(t.nextActivate, AutoPreDelay(p))
  <2> USE <1>ColumnOwnBankShape
  <2> DEFINE n == ColumnOwnBank(t, p)
             again == IF isSmartMRAM THEN 0 ELSE Later(t.nextActivate, AutoPreDelay(p))
  <2>1. /\ Later(t.nextPrecharge, PreDelay(p)) \in Nat
        /\ again \in Nat
    <3>1. Later(t.nextActivate, AutoPreDelay(p)) \in Nat
      BY ColumnDelays, BankFields, LaterElapsed, Zenon
    <3> QED BY <3>1, ColumnDelays, BankFields, LaterElapsed, Zenon
  <2>2. CASE p.type \in {"READ_P", "WRITE_P"}
    <3>1. n = [t EXCEPT !.state = "Idle", !.nextActivate = again]
      BY <2>2, Zenon DEF ColumnOwnBank, AutoPreDelay
    <3> HIDE DEF again
    <3>2. n \in BankStates
      BY <2>1, <3>1, Zenon DEF BankStates
    <3>3. /\ n.row = t.row /\ n.nextPowerUp = t.nextPowerUp /\ n.state = "Idle"
          /\ n.nextRead = t.nextRead /\ n.nextWrite = t.nextWrite
          /\ n.nextPrecharge = t.nextPrecharge /\ n.nextActivate = again
      BY <3>1, <3>2, SMT DEF BankStates
    <3> QED BY <2>2, <3>2, <3>3, Zenon DEF again
  <2>3. CASE p.type \in {"READ", "WRITE"}
    <3>1. n = [t EXCEPT !.nextPrecharge = Later(t.nextPrecharge, PreDelay(p))]
      BY <2>3, Zenon DEF ColumnOwnBank, PreDelay
    <3>2. n \in BankStates
      BY <2>1, <3>1, Zenon DEF BankStates
    <3> QED BY <2>3, <3>1, <3>2, SMT DEF BankStates
  <2> QED BY <2>2, <2>3, Zenon DEF Columns, Reads, Writes

<1>ColumnAnyBankShape.
    ASSUME NEW t \in BankStates, NEW p \in Packets
    PROVE  LET n == ColumnAnyBank(t, p)
           IN  /\ n \in BankStates /\ n.row = t.row /\ n.nextPowerUp = t.nextPowerUp
               /\ n.state = t.state /\ n.nextPrecharge = t.nextPrecharge
               /\ n.nextActivate = t.nextActivate
               /\ n.nextRead = Later(t.nextRead, ReadDelay(p))
               /\ n.nextWrite = Later(t.nextWrite, WriteDelay(p))
  <2> USE <1>ColumnAnyBankShape
  <2> DEFINE n == ColumnAnyBank(t, p)
  <2>1. /\ Later(t.nextRead, ReadDelay(p)) \in Nat
        /\ Later(t.nextWrite, WriteDelay(p)) \in Nat
    BY ColumnDelays, BankFields, LaterElapsed, Zenon
  <2>2. n = [t EXCEPT !.nextRead = Later(t.nextRead, ReadDelay(p)),
                      !.nextWrite = Later(t.nextWrite, WriteDelay(p))]
    BY Zenon DEF ColumnAnyBank, ReadDelay, WriteDelay
  <2>3. n \in BankStates
    BY <2>1, <2>2, Zenon DEF BankStates
  <2> QED BY <2>2, <2>3, SMT DEF BankStates

<1> SUFFICES ASSUME NEW rk, NEW p \in Packets, IsRank(rk), p.type \in Columns
             PROVE  LET n == ReceiveColumn(rk, p)
                    IN  /\ IsRank(n) /\ n.error = rk.error
                        /\ n.isPowerDown = rk.isPowerDown
                        /\ n.refreshWaiting = rk.refreshWaiting
                        /\ n.outgoing = rk.outgoing
                        /\ n.returning = IF p.type \in Reads
                                         THEN Append(rk.returning, [addr |-> p.addr, left |-> RL])
                                         ELSE rk.returning
                        /\ \A b \in Banks :
                              ColumnReceived(p, rk.banks[b], n.banks[b], b = p.addr.bank)
  BY Zenon
<1> DEFINE n == ReceiveColumn(rk, p)
           own == [rk.banks EXCEPT ![p.addr.bank] = ColumnOwnBank(rk.banks[p.addr.bank], p)]
           bk == [b \in Banks |-> ColumnAnyBank(own[b], p)]
           ret == IF p.type \in Reads
                  THEN Append(rk.returning, [addr |-> p.addr, left |-> RL])
                  ELSE rk.returning
<1>1. p.addr.bank \in Banks /\ rk.banks \in [Banks -> BankStates]
  BY Zenon DEF Packets, Addresses, IsRank
<1>2. n = [rk EXCEPT !.banks = bk, !.returning = ret]
  BY Zenon DEF ReceiveColumn
<1>3. \A b \in Banks : own[b] \in BankStates
  BY <1>1, <1>ColumnOwnBankShape, Zenon
<1>4. bk \in [Banks -> BankStates]
  BY <1>3, <1>ColumnAnyBankShape, Zenon
<1>5. ASSUME NEW b \in Banks
      PROVE  ColumnReceived(p, rk.banks[b], bk[b], b = p.addr.bank)
  <2>1. CASE b # p.addr.bank
    <3>1. own[b] = rk.banks[b] /\ bk[b] = ColumnAnyBank(rk.banks[b], p)
      BY <1>1, <2>1, Zenon
    <3>2. rk.banks[b] \in BankStates
      BY <1>1, Zenon
    <3> HIDE DEF bk, own
    <3> QED BY <2>1, <3>1, <3>2, <1>ColumnAnyBankShape DEF ColumnReceived
  <2>2. CASE b = p.addr.bank
    <3> DEFINE o == ColumnOwnBank(rk.banks[b], p)
    <3>1. bk[b] = ColumnAnyBank(o, p)
      BY <1>1, <2>2, Zenon
    <3>2. rk.banks[b] \in BankStates
      BY <1>1
    <3>3. o \in BankStates
      BY <3>2, <1>ColumnOwnBankShape, Zenon
    <3> HIDE DEF bk, own
    <3>4. /\ o.row = rk.banks[b].row /\ o.nextPowerUp = rk.banks[b].nextPowerUp
          /\ o.nextRead = rk.banks[b].nextRead /\ o.nextWrite = rk.banks[b].nextWrite
          /\ LET auto == p.type \in {"READ_P", "WRITE_P"}
             IN  /\ o.state = IF auto THEN "Idle" ELSE rk.banks[b].state
                 /\ o.nextPrecharge = IF auto THEN rk.banks[b].nextPrecharge
                                ELSE Later(rk.banks[b].nextPrecharge, PreDelay(p))
                 /\ o.nextActivate = IF ~ auto THEN rk.banks[b].nextActivate
                               ELSE IF isSmartMRAM THEN 0
                               ELSE Later(rk.banks[b].nextActivate, AutoPreDelay(p))
      BY <3>2, <1>ColumnOwnBankShape, Zenon
    <3> HIDE DEF o
    <3> QED BY <2>2, <3>1, <3>3, <3>4, <1>ColumnAnyBankShape DEF ColumnReceived
  <2> QED BY <2>1, <2>2, Zenon
<1> HIDE DEF own, bk, ret
<1>6. /\ n.banks = bk /\ n.returning = ret /\ n.error = rk.error
      /\ n.isPowerDown = rk.isPowerDown /\ n.outgoing = rk.outgoing
      /\ n.refreshWaiting = rk.refreshWaiting
  BY <1>2, SMT DEF IsRank
<1>7. IsRank(n)
  BY <1>2, <1>4, <1>6, Zenon DEF IsRank
<1> QED BY <1>5, <1>6, <1>7, Zenon DEF ret

\* The rank after ACTIVATE p has arrived.
ActivateReceived(p, t, n, own) ==
    /\ n \in BankStates /\ n.nextPowerUp = t.nextPowerUp
    /\ ~ own => /\ n.state = t.state /\ n.row = t.row
                /\ n.nextRead = t.nextRead /\ n.nextWrite = t.nextWrite
                /\ n.nextPrecharge = t.nextPrecharge
                /\ n.nextActivate = Later(t.nextActivate, tRRD)
    /\ own => /\ n.state = "RowActive" /\ n.row = p.addr.row
              /\ n.nextActivate = IF isSmartMRAM THEN tRRD ELSE tRC
              /\ n.nextPrecharge = IF isSmartMRAM THEN 0 ELSE tRAS
              /\ n.nextRead = IF isSmartMRAM THEN 0 ELSE tRCD - AL
              /\ n.nextWrite = IF isSmartMRAM THEN 0 ELSE tRCD - AL

LEMMA ActivateReceivedShape ==
    \A rk, p :
       /\ IsRank(rk) /\ p \in Packets
       => LET n == ReceiveActivate(rk, p)
          IN  /\ IsRank(n) /\ n.error = rk.error
              /\ n.isPowerDown = rk.isPowerDown
              /\ n.refreshWaiting = rk.refreshWaiting
              /\ n.outgoing = rk.outgoing /\ n.returning = rk.returning
              /\ \A b \in Banks :
                    ActivateReceived(p, rk.banks[b], n.banks[b], b = p.addr.bank)
<1>ActivateOneReceived.
    ASSUME NEW t \in BankStates, NEW p \in Packets
    PROVE  /\ ActivateReceived(p, t, ActivateOwnBank(t, p), TRUE)
           /\ ActivateReceived(p, t, ActivateOtherBank(t), FALSE)
  <2> USE <1>ActivateOneReceived
  <2>1. /\ p.addr.row \in 0 .. NUM_ROWS - 1 /\ 0 \in Nat
        /\ Later(t.nextActivate, tRRD) \in Nat
        /\ tRRD \in Nat /\ tRC \in Nat /\ tRAS \in Nat /\ tRCD - AL \in Nat
    BY BankFields, LaterElapsed, TimingNat, DelaysNat, Zenon DEF Packets, Addresses
  <2>2. ActivateReceived(p, t, ActivateOwnBank(t, p), TRUE)
    <3> DEFINE n == ActivateOwnBank(t, p)
               d == tRCD - AL
    <3>0. d \in Nat
      BY <2>1, Zenon
    <3>1. n = [t EXCEPT !.state = "RowActive", !.row = p.addr.row,
                        !.nextActivate = IF isSmartMRAM THEN tRRD ELSE tRC,
                        !.nextPrecharge = IF isSmartMRAM THEN 0 ELSE tRAS,
                        !.nextRead = IF isSmartMRAM THEN 0 ELSE d,
                        !.nextWrite = IF isSmartMRAM THEN 0 ELSE d]
      BY Zenon DEF ActivateOwnBank
    <3> HIDE DEF d, n
    <3>2. n \in BankStates
      BY <2>1, <3>0, <3>1, Zenon DEF BankStates
    <3>3. /\ n.nextPowerUp = t.nextPowerUp /\ n.state = "RowActive"
          /\ n.row = p.addr.row
          /\ n.nextActivate = IF isSmartMRAM THEN tRRD ELSE tRC
          /\ n.nextPrecharge = IF isSmartMRAM THEN 0 ELSE tRAS
          /\ n.nextRead = IF isSmartMRAM THEN 0 ELSE d
          /\ n.nextWrite = IF isSmartMRAM THEN 0 ELSE d
      BY <3>1, <3>2, SMT DEF BankStates
    <3> QED BY <3>2, <3>3, Zenon DEF ActivateReceived, n, d
  <2>3. ActivateReceived(p, t, ActivateOtherBank(t), FALSE)
    <3> DEFINE n == ActivateOtherBank(t)
    <3>1. n \in BankStates
      BY <2>1, Zenon DEF ActivateOtherBank, BankStates
    <3> QED BY <3>1, SMT DEF ActivateReceived, ActivateOtherBank, BankStates
  <2> QED BY <2>2, <2>3, Zenon

<1> SUFFICES ASSUME NEW rk, NEW p \in Packets, IsRank(rk)
             PROVE  LET n == ReceiveActivate(rk, p)
                    IN  /\ IsRank(n) /\ n.error = rk.error
                        /\ n.isPowerDown = rk.isPowerDown
                        /\ n.refreshWaiting = rk.refreshWaiting
                        /\ n.outgoing = rk.outgoing /\ n.returning = rk.returning
                        /\ \A b \in Banks :
                              ActivateReceived(p, rk.banks[b], n.banks[b], b = p.addr.bank)
  BY Zenon
<1> DEFINE n == ReceiveActivate(rk, p)
           E(b) == IF b = p.addr.bank THEN ActivateOwnBank(rk.banks[b], p)
                   ELSE ActivateOtherBank(rk.banks[b])
           bk == [b \in Banks |-> E(b)]
<1>1. rk.banks \in [Banks -> BankStates]
  BY Zenon DEF IsRank
<1>2. n = [rk EXCEPT !.banks = bk]
  BY Zenon DEF ReceiveActivate
<1>3. \A b \in Banks : ActivateReceived(p, rk.banks[b], E(b), b = p.addr.bank)
  BY <1>1, <1>ActivateOneReceived, Zenon
<1>4. \A b \in Banks : E(b) \in BankStates
  BY <1>3, Zenon DEF ActivateReceived
<1> HIDE DEF E
<1>5. bk \in [Banks -> BankStates]
  BY <1>4, Zenon
<1>6. \A b \in Banks : ActivateReceived(p, rk.banks[b], bk[b], b = p.addr.bank)
  BY <1>3, Zenon
<1> HIDE DEF bk
<1>7. /\ n.banks = bk /\ n.error = rk.error /\ n.isPowerDown = rk.isPowerDown
      /\ n.outgoing = rk.outgoing /\ n.returning = rk.returning
      /\ n.refreshWaiting = rk.refreshWaiting
  BY <1>2, SMT DEF IsRank
<1>8. IsRank(n)
  BY <1>2, <1>5, <1>7, Zenon DEF IsRank
<1> QED BY <1>6, <1>7, <1>8, Zenon

\* A rank whose banks are replaced keeps the rest.
LEMMA BanksReplaced ==
    ASSUME NEW rk, IsRank(rk), NEW bk \in [Banks -> BankStates]
    PROVE  LET n == [rk EXCEPT !.banks = bk]
           IN  /\ IsRank(n) /\ n.banks = bk /\ n.error = rk.error
               /\ n.isPowerDown = rk.isPowerDown
               /\ n.refreshWaiting = rk.refreshWaiting
               /\ n.outgoing = rk.outgoing /\ n.returning = rk.returning
<1> DEFINE n == [rk EXCEPT !.banks = bk]
<1>1. /\ n.banks = bk /\ n.error = rk.error /\ n.isPowerDown = rk.isPowerDown
      /\ n.outgoing = rk.outgoing /\ n.returning = rk.returning
      /\ n.refreshWaiting = rk.refreshWaiting
  BY SMT DEF IsRank
<1>2. IsRank(n)
  BY <1>1, Zenon DEF IsRank
<1> QED BY <1>1, <1>2, Zenon

\* A rank whose flags are changed keeps its table.
LEMMA FlagsReplaced ==
    ASSUME NEW rk, IsRank(rk), NEW x \in BOOLEAN
    PROVE  /\ LET n == [rk EXCEPT !.isPowerDown = x]
              IN  /\ IsRank(n) /\ n.banks = rk.banks /\ n.error = rk.error
                  /\ n.isPowerDown = x /\ n.refreshWaiting = rk.refreshWaiting
                  /\ n.outgoing = rk.outgoing /\ n.returning = rk.returning
           /\ LET n == [rk EXCEPT !.refreshWaiting = x]
              IN  /\ IsRank(n) /\ n.banks = rk.banks /\ n.error = rk.error
                  /\ n.isPowerDown = rk.isPowerDown /\ n.refreshWaiting = x
                  /\ n.outgoing = rk.outgoing /\ n.returning = rk.returning
           /\ LET n == [rk EXCEPT !.error = x]
              IN  /\ IsRank(n) /\ n.banks = rk.banks /\ n.error = x
                  /\ n.isPowerDown = rk.isPowerDown
                  /\ n.refreshWaiting = rk.refreshWaiting
                  /\ n.outgoing = rk.outgoing /\ n.returning = rk.returning
<1> DEFINE k == [rk EXCEPT !.isPowerDown = x]
           l == [rk EXCEPT !.refreshWaiting = x]
           m == [rk EXCEPT !.error = x]
<1>1. /\ k.banks = rk.banks /\ k.error = rk.error /\ k.isPowerDown = x
      /\ k.outgoing = rk.outgoing /\ k.returning = rk.returning
      /\ k.refreshWaiting = rk.refreshWaiting
  BY SMT DEF IsRank
<1>2. /\ l.banks = rk.banks /\ l.error = rk.error /\ l.isPowerDown = rk.isPowerDown
      /\ l.outgoing = rk.outgoing /\ l.returning = rk.returning
      /\ l.refreshWaiting = x
  BY SMT DEF IsRank
<1>3. /\ m.banks = rk.banks /\ m.error = x /\ m.isPowerDown = rk.isPowerDown
      /\ m.outgoing = rk.outgoing /\ m.returning = rk.returning
      /\ m.refreshWaiting = rk.refreshWaiting
  BY SMT DEF IsRank
<1>4. IsRank(k)
  BY <1>1, Zenon DEF IsRank
<1>5. IsRank(l)
  BY <1>2, Zenon DEF IsRank
<1>6. IsRank(m)
  BY <1>3, Zenon DEF IsRank
<1> QED BY <1>1, <1>2, <1>3, <1>4, <1>5, <1>6, Zenon

\* The rank after the PRECHARGE of bank t has arrived.
PrechargeReceived(t, n) ==
    /\ n \in BankStates /\ n.state = "Idle" /\ n.nextPowerUp = t.nextPowerUp
    /\ n.nextActivate = IF isSmartMRAM THEN 0 ELSE Later(t.nextActivate, tRP)

LEMMA PrechargeReceivedShape ==
    ASSUME NEW rk, IsRank(rk), NEW p \in Packets
    PROVE  LET n == ReceivePrecharge(rk, p)
           IN  /\ IsRank(n) /\ n.error = rk.error
               /\ n.isPowerDown = rk.isPowerDown
               /\ n.refreshWaiting = rk.refreshWaiting
               /\ n.outgoing = rk.outgoing /\ n.returning = rk.returning
               /\ \A b \in Banks : IF b = p.addr.bank
                                   THEN PrechargeReceived(rk.banks[b], n.banks[b])
                                   ELSE n.banks[b] = rk.banks[b]
<1> DEFINE n == ReceivePrecharge(rk, p)
           t == rk.banks[p.addr.bank]
           own == PrechargeOwnBank(t)
           bk == [rk.banks EXCEPT ![p.addr.bank] = own]
<1>1. rk.banks \in [Banks -> BankStates] /\ p.addr.bank \in Banks
  BY Zenon DEF IsRank, Packets, Addresses
<1>2. n = [rk EXCEPT !.banks = bk]
  BY Zenon DEF ReceivePrecharge, IsRank
<1>3. t \in BankStates
  BY <1>1, Zenon
<1> HIDE DEF t
<1>4. PrechargeReceived(t, own)
  <2> DEFINE next == IF isSmartMRAM THEN 0 ELSE Later(t.nextActivate, tRP)
  <2>1. next \in Nat
    BY <1>3, BankFields, LaterElapsed, TimingNat, Zenon
  <2>2. own = [t EXCEPT !.state = "Idle", !.nextActivate = next]
    BY Zenon DEF PrechargeOwnBank
  <2> HIDE DEF next
  <2>3. own \in BankStates
    BY <1>3, <2>1, <2>2, Zenon DEF BankStates
  <2>4. own.state = "Idle" /\ own.nextPowerUp = t.nextPowerUp /\ own.nextActivate = next
    BY <1>3, <2>2, <2>3, SMT DEF BankStates
  <2> QED BY <2>3, <2>4, Zenon DEF PrechargeReceived, next
<1>5. own \in BankStates
  BY <1>4, Zenon DEF PrechargeReceived
<1> HIDE DEF own
<1>6. /\ bk \in [Banks -> BankStates]
      /\ \A b \in Banks : bk[b] = IF b = p.addr.bank THEN own ELSE rk.banks[b]
  BY <1>1, <1>5, Zenon
<1> HIDE DEF bk
<1>7. /\ IsRank(n) /\ n.banks = bk /\ n.error = rk.error
      /\ n.isPowerDown = rk.isPowerDown /\ n.refreshWaiting = rk.refreshWaiting
      /\ n.outgoing = rk.outgoing /\ n.returning = rk.returning
  BY <1>2, <1>6, BanksReplaced
<1> QED BY <1>4, <1>6, <1>7, Zenon DEF t

\* What a refresh, a power-down, a power-up and the clock do to one bank.
LEMMA RankBankShapes ==
    ASSUME NEW t \in BankStates
    PROVE  /\ LET n == RefreshBank(t)
              IN  /\ n \in BankStates /\ n.state = t.state
                  /\ n.nextActivate = tRFC /\ n.nextPowerUp = t.nextPowerUp
           /\ LET n == DownBank(t)
              IN  /\ n \in BankStates /\ n.state = "PowerDown"
                  /\ n.nextActivate = t.nextActivate /\ n.nextPowerUp = tCKE
           /\ LET n == UpBank(t)
              IN  n \in BankStates /\ n.state = "Idle" /\ n.nextActivate = tXP
<1>1. tRFC \in Nat /\ tCKE \in Nat /\ tXP \in Nat
  BY TimingNat, Zenon
<1>2. RefreshBank(t) \in BankStates /\ DownBank(t) \in BankStates
      /\ UpBank(t) \in BankStates
  BY <1>1, Zenon DEF RefreshBank, DownBank, UpBank, BankStates
<1> QED BY <1>2, SMT DEF RefreshBank, DownBank, UpBank, BankStates

LEMMA RefreshReceivedShape ==
    ASSUME NEW rk, IsRank(rk)
    PROVE  LET n == ReceiveRefresh(rk)
           IN  /\ IsRank(n) /\ n.error = rk.error
               /\ n.isPowerDown = rk.isPowerDown /\ n.refreshWaiting = FALSE
               /\ n.outgoing = rk.outgoing /\ n.returning = rk.returning
               /\ \A b \in Banks : n.banks[b] = RefreshBank(rk.banks[b])
<1> DEFINE n == ReceiveRefresh(rk)
           k == [rk EXCEPT !.refreshWaiting = FALSE]
           bk == [b \in Banks |-> RefreshBank(rk.banks[b])]
<1>1. rk.banks \in [Banks -> BankStates]
  BY Zenon DEF IsRank
<1>2. /\ IsRank(k) /\ k.banks = rk.banks /\ k.error = rk.error
      /\ k.isPowerDown = rk.isPowerDown /\ k.refreshWaiting = FALSE
      /\ k.outgoing = rk.outgoing /\ k.returning = rk.returning
  BY FlagsReplaced, Zenon
<1>3. n = [k EXCEPT !.banks = [b \in Banks |-> RefreshBank(k.banks[b])]]
  BY Zenon DEF ReceiveRefresh, AllBanks
<1> HIDE DEF k
<1>4. n = [k EXCEPT !.banks = bk]
  BY <1>2, <1>3, Zenon
<1>5. bk \in [Banks -> BankStates]
  BY <1>1, RankBankShapes, Zenon
<1>6. \A b \in Banks : bk[b] = RefreshBank(rk.banks[b])
  BY Zenon
<1> HIDE DEF bk
<1> QED BY <1>2, <1>4, <1>5, <1>6, BanksReplaced

\* What arrives is handled by its type.
LEMMA ReceiveCases ==
    ASSUME NEW rk, NEW p \in Packets
    PROVE  LET n == receiveFromBus(rk, p)
           IN  /\ p.type \in Columns =>
                     n = IF ColumnAllowed(rk, p) THEN ReceiveColumn(rk, p)
                         ELSE Refused(rk)
               /\ p.type = "ACTIVATE" =>
                     n = IF ActivateAllowed(rk, p) THEN ReceiveActivate(rk, p)
                         ELSE Refused(rk)
               /\ p.type = "PRECHARGE" =>
                     n = IF PrechargeIgnored(rk, p) THEN rk
                         ELSE IF PrechargeAllowed(rk, p) THEN ReceivePrecharge(rk, p)
                         ELSE Refused(rk)
               /\ p.type = "REFRESH" =>
                     n = IF \A b \in Banks : rk.banks[b].state = "Idle"
                         THEN ReceiveRefresh(rk) ELSE Refused(rk)
  BY Zenon DEF receiveFromBus, Columns, Reads, Writes

\* A command never changes the power state, and the rank stays a rank.
Kept(p, rk, n) ==
    /\ IsRank(n) /\ n.isPowerDown = rk.isPowerDown /\ n.outgoing = rk.outgoing
    /\ \/ n.returning = rk.returning
       \/ n.returning = Append(rk.returning, [addr |-> p.addr, left |-> RL])

LEMMA ReceiveKeeps ==
    ASSUME NEW rk, IsRank(rk), NEW p \in Packets
    PROVE  Kept(p, rk, receiveFromBus(rk, p))
<1> DEFINE n == receiveFromBus(rk, p)
<1>1. Kept(p, rk, rk)
  BY Zenon DEF Kept
<1>2. Kept(p, rk, Refused(rk))
  <2>1. /\ IsRank([rk EXCEPT !.error = TRUE])
        /\ [rk EXCEPT !.error = TRUE].isPowerDown = rk.isPowerDown
        /\ [rk EXCEPT !.error = TRUE].outgoing = rk.outgoing
        /\ [rk EXCEPT !.error = TRUE].returning = rk.returning
    BY FlagsReplaced, Zenon
  <2> QED BY <2>1, Zenon DEF Refused, Kept
<1>3. CASE p.type = "ACTIVATE"
  <2>1. Kept(p, rk, ReceiveActivate(rk, p))
    BY ActivateReceivedShape, Zenon DEF Kept
  <2> QED BY <1>2, <1>3, <2>1, ReceiveCases, Zenon
<1>4. CASE p.type = "PRECHARGE"
  <2>1. Kept(p, rk, ReceivePrecharge(rk, p))
    BY PrechargeReceivedShape, Zenon DEF Kept
  <2> QED BY <1>1, <1>2, <1>4, <2>1, ReceiveCases, Zenon
<1>5. CASE p.type = "REFRESH"
  <2>1. Kept(p, rk, ReceiveRefresh(rk))
    BY RefreshReceivedShape, Zenon DEF Kept
  <2>2. n \in {ReceiveRefresh(rk), Refused(rk)}
    BY <1>5, ReceiveCases, Zenon
  <2> QED BY <1>2, <2>1, <2>2, Zenon
<1>6. CASE p.type \in Columns
  <2>1. Kept(p, rk, ReceiveColumn(rk, p))
    BY <1>6, ColumnReceivedShape, Zenon DEF Kept
  <2> QED BY <1>2, <1>6, <2>1, ReceiveCases, Zenon
<1> QED BY <1>3, <1>4, <1>5, <1>6, Zenon DEF Packets, Commands

-----------------------------------------------------------------------------
(* Agreement is kept.  In a cycle the controller books a command p in its     *)
(* table (m becomes n), both tables are stepped, and p then arrives (u).      *)

\* Agreement in the middle of a cycle: a closing bank is not accessible.
AgreesNow(m, t) ==
    /\ Agrees(m, t)
    /\ Closing(m) => m.countdown \in 1 .. m.nextRead /\ m.countdown \in 1 .. m.nextWrite

\* A bank the command does not go to can only be delayed.
Delayed(m, n) ==
    /\ n \in BankStates /\ n.state = m.state /\ n.row = m.row
    /\ n.lastCommand = m.lastCommand /\ n.countdown = m.countdown
    /\ n.nextPowerUp = m.nextPowerUp /\ n.nextPrecharge = m.nextPrecharge
    /\ n.nextRead >= m.nextRead /\ n.nextWrite >= m.nextWrite
    /\ n.nextActivate >= m.nextActivate

-----------------------------------------------------------------------------
(* One rank, one cycle *)

\* A rank's table and the controller's row for it, in the middle of a cycle.
RowAgrees(row, rk) ==
    /\ row \in [Banks -> BankStates] /\ IsRank(rk) /\ ~ rk.error
    /\ \A b \in Banks : AgreesNow(row[b], rk.banks[b])
    /\ \A b, c \in Banks : row[b].state = "PowerDown" => row[c].state = "PowerDown"

\* A rank that is powered down in the cycle of a command for it: the command can
\* only be a PRECHARGE in SMART mode, and the rank ignores it when it arrives.
SentToSleep(bs, p, k, n) ==
    /\ IsRank(k) /\ ~ k.error /\ k.isPowerDown /\ n = k
    /\ \A b \in Banks :
          Agrees(BankStep(BankPowerDown(OnCommand(bs, p)[p.addr.rank][b])),
                 n.banks[b])

-----------------------------------------------------------------------------
(* One clock cycle of one rank *)

\* The rank rk, and the controller's row for it when the countdowns have been
\* taken; pd is the controller's power-down flag.
RankBefore(row, rk, pd) ==
    /\ RowAgrees(row, rk) /\ pd \in BOOLEAN /\ rk.isPowerDown = pd
    /\ \A b \in Banks : /\ row[b].state = "PowerDown" <=> pd
                        /\ pd => row[b].nextPowerUp = row[0].nextPowerUp

\* The same at the end of the cycle; n is the rank when the command of the
\* cycle has arrived.
RankAfter(row, k, n, pd) ==
    /\ row \in [Banks -> BankStates] /\ IsRank(k) /\ ~ k.error /\ ~ n.error
    /\ k.isPowerDown = pd /\ n.isPowerDown = pd
    /\ \A b \in Banks : /\ Agrees(row[b], n.banks[b])
                        /\ row[b].state = "PowerDown" <=> pd
                        /\ k.banks[b].state = "PowerDown" <=> pd
                        /\ pd => row[b].nextPowerUp = row[0].nextPowerUp

\* p is the command of the cycle, or None.
Issued(bs, p) == p # None => p \in Packets /\ Legal(bs, p)
\* What the command of the cycle makes of the controller's row for rank r.
RowBooked(bs, p, r, rk, pd, x) ==
    /\ x \in [Banks -> BankStates]
    /\ \A b \in Banks : /\ x[b].state = "PowerDown" <=> pd
                        /\ pd => x[b].nextPowerUp = bs[r][b].nextPowerUp
    /\ For(p, r) => ~ pd
    /\ ~ For(p, r) => RowAgrees(x, rk)

LEMMA NextRow ==
    \A bs, p, r, rk, pd, x :
       /\ bs \in Tables /\ Issued(bs, p) /\ r \in Ranks
       /\ RankBefore(bs[r], rk, pd) /\ x = OnCommand(bs, p)[r]
       => RowBooked(bs, p, r, rk, pd, x)
\* A command only delays the banks of the other ranks.
<1>OtherRankDelayed.
    ASSUME NEW bs \in Tables, NEW p \in Packets,
           NEW r \in Ranks, r # p.addr.rank, NEW b \in Banks
    PROVE  Delayed(bs[r][b], OnCommand(bs, p)[r][b])
  <2> USE <1>OtherRankDelayed
  <2> DEFINE m == bs[r][b]
             n == OnCommand(bs, p)[r][b]
  <2>1. m \in BankStates
    BY Zenon DEF Tables
  <2>2. m.nextRead \in Nat /\ m.nextWrite \in Nat /\ m.nextActivate \in Nat
    BY <2>1, BankFields, Zenon
  <2>3. Delayed(m, m)
    BY <2>1, <2>2 DEF Delayed
  <2>4. CASE p.type \in Columns
    <3>1. ColumnBooked(p, m, n, FALSE, FALSE)
      BY <2>4, OnColumnShape, Zenon
    <3> HIDE DEF m, n
    <3>2. Delayed(m, n)
      BY <2>2, <3>1 DEF ColumnBooked, Delayed
    <3> QED BY <3>2, Zenon DEF m, n
  <2>5. CASE p.type = "ACTIVATE"
    <3>1. ActivateBooked(p, m, n, FALSE, FALSE)
      BY <2>5, OnActivateShape, Zenon
    <3> HIDE DEF m, n
    <3>2. Delayed(m, n)
      BY <2>2, <3>1 DEF ActivateBooked, Delayed
    <3> QED BY <3>2 DEF m, n
  <2>6. CASE p.type = "PRECHARGE"
    BY <2>3, <2>6, OnPrechargeShape
  <2>7. CASE p.type = "REFRESH"
    BY <2>3, <2>7, OnRefreshShape, Zenon
  <2> QED BY <2>4, <2>5, <2>6, <2>7, Zenon DEF Packets, Commands

<1>OnCommandTables.
    ASSUME NEW bs \in Tables, NEW p \in Packets
    PROVE  OnCommand(bs, p) \in Tables
    BY <1>OnCommandTables, OnColumnShape, OnActivateShape, OnPrechargeShape, OnRefreshShape, Zenon
    DEF Packets, Commands

\* Delays keep a rank's table and the controller's row in agreement.
<1>DelayedRow.
    \A row, rk, next :
       /\ RowAgrees(row, rk) /\ next \in [Banks -> BankStates]
       /\ (\A b \in Banks : Delayed(row[b], next[b]))
       => RowAgrees(next, rk)
  <2>DelayedAgrees.
      ASSUME NEW m \in BankStates, NEW t \in BankStates, NEW n, Delayed(m, n),
             AgreesNow(m, t)
      PROVE  AgreesNow(n, t)
    <3> USE <2>DelayedAgrees
    <3>1. /\ m.nextRead \in Nat /\ m.nextWrite \in Nat /\ m.nextActivate \in Nat
          /\ n.nextRead \in Nat /\ n.nextWrite \in Nat /\ n.nextActivate \in Nat
          /\ t.nextRead \in Nat /\ t.nextWrite \in Nat /\ t.nextActivate \in Nat
          /\ m.countdown \in Nat
      BY BankFields, Zenon DEF Delayed
    <3> QED BY <3>1 DEF Delayed, AgreesNow, Agrees, Open, Closing

  <2> SUFFICES ASSUME NEW row, NEW rk, NEW next \in [Banks -> BankStates],
                      RowAgrees(row, rk), \A b \in Banks : Delayed(row[b], next[b])
               PROVE  RowAgrees(next, rk)
    BY Zenon
  <2>1. \A b \in Banks : /\ row[b] \in BankStates /\ rk.banks[b] \in BankStates
                         /\ AgreesNow(row[b], rk.banks[b])
    BY Zenon DEF RowAgrees, IsRank
  <2>2. \A b \in Banks : AgreesNow(next[b], rk.banks[b])
    BY <2>1, <2>DelayedAgrees, Zenon
  <2>3. \A b \in Banks : next[b].state = row[b].state
    BY Zenon DEF Delayed
  <2> QED BY <2>2, <2>3, Zenon DEF RowAgrees

\* No command is issued to a rank that is powered down.
<1>LegalAwake.
    ASSUME NEW bs \in Tables, NEW p \in Packets, Legal(bs, p),
           NEW rk, NEW pd, RankBefore(bs[p.addr.rank], rk, pd)
    PROVE  /\ ~ pd
           /\ \A b \in Banks : OnCommand(bs, p)[p.addr.rank][b].state # "PowerDown"
  <2> USE <1>LegalAwake
  <2> DEFINE r == p.addr.rank
             bank == p.addr.bank
             row == bs[r]
             bt == OnCommand(bs, p)
  <2>1. r \in Ranks /\ bank \in Banks /\ p.type \in Commands /\ 0 \in Banks
    BY GeometryAssumption DEF Packets, Addresses, Banks
  <2>2. pd \in BOOLEAN /\ \A b \in Banks : row[b].state = "PowerDown" <=> pd
    BY Zenon DEF RankBefore
  <2>3. CASE p.type \in Columns
    <3>1. ~ pd
      BY <2>1, <2>2, <2>3, Zenon DEF Legal
    <3>2. \A b \in Banks : bt[r][b].state = row[b].state
      BY <2>1, <2>3, OnColumnShape DEF ColumnBooked
    <3> QED BY <2>2, <3>1, <3>2, Zenon
  <2>4. CASE p.type = "ACTIVATE"
    <3>1. ~ pd
      BY <2>1, <2>2, <2>4, Zenon DEF Legal
    <3>2. \A b \in Banks : bt[r][b].state \in {row[b].state, "RowActive"}
      <4> TAKE b \in Banks
      <4>1. ActivateBooked(p, row[b], bt[r][b], r = p.addr.rank /\ b = p.addr.bank,
                           r = p.addr.rank)
        BY <2>1, <2>4, OnActivateShape, Zenon
      <4> QED BY <4>1, Zenon DEF ActivateBooked
    <3> QED BY <2>2, <3>1, <3>2, Zenon
  <2>5. CASE p.type = "PRECHARGE"
    <3>1. ~ pd
      BY <2>1, <2>2, <2>5, Zenon DEF Legal
    <3>2. \A b \in Banks : bt[r][b].state \in {row[b].state, "Idle", "Precharging"}
      BY <2>1, <2>5, OnPrechargeShape DEF PrechargeBooked
    <3> QED BY <2>2, <3>1, <3>2, Zenon
  <2>6. CASE p.type = "REFRESH"
    <3>1. ~ pd
      BY <2>1, <2>2, <2>6, Zenon DEF Legal
    <3>2. \A b \in Banks : bt[r][b].state = "Refreshing"
      BY <2>1, <2>6, OnRefreshShape DEF RefreshBooked
    <3> QED BY <3>1, <3>2, Zenon
  <2> QED BY <2>1, <2>3, <2>4, <2>5, <2>6, Zenon DEF Commands

<1> SUFFICES ASSUME NEW bs \in Tables, NEW p, NEW r \in Ranks, NEW rk, NEW pd,
                    NEW x, Issued(bs, p), RankBefore(bs[r], rk, pd),
                    x = OnCommand(bs, p)[r]
             PROVE  RowBooked(bs, p, r, rk, pd, x)
  BY Zenon
<1>1. /\ bs[r] \in [Banks -> BankStates] /\ pd \in BOOLEAN
      /\ \A b \in Banks : bs[r][b].state = "PowerDown" <=> pd
  BY Zenon DEF RankBefore, Tables
<1>2. CASE p = None
  <2>1. x = bs[r]
    BY <1>2, OnCommandCases, Zenon DEF None, Commands, Columns, Reads, Writes
  <2> QED BY <1>1, <1>2, <2>1, Zenon DEF RankBefore, RowBooked, For
<1>3. CASE p # None /\ p.addr.rank = r
  <2>0. p \in Packets /\ Legal(bs, p)
    BY <1>3, Zenon DEF Issued
  <2>1. OnCommand(bs, p) \in Tables
    BY <2>0, <1>OnCommandTables, Zenon
  <2>2. /\ ~ pd
        /\ \A b \in Banks : OnCommand(bs, p)[p.addr.rank][b].state # "PowerDown"
    BY <1>3, <2>0, <1>LegalAwake, Zenon
  <2>3. x \in [Banks -> BankStates]
    BY <2>1, Zenon DEF Tables
  <2> QED BY <1>3, <2>2, <2>3, Zenon DEF RowBooked, For
<1>4. CASE p # None /\ p.addr.rank # r
  <2>0. p \in Packets /\ Legal(bs, p)
    BY <1>4, Zenon DEF Issued
  <2>1. OnCommand(bs, p) \in Tables
    BY <2>0, <1>OnCommandTables
  <2>2. \A b \in Banks : Delayed(bs[r][b], x[b])
    BY <1>4, <2>0, <1>OtherRankDelayed, Zenon
  <2>3. x \in [Banks -> BankStates]
    BY <2>1 DEF Tables
  <2>4. RowAgrees(x, rk)
    BY <2>2, <2>3, <1>DelayedRow, Zenon DEF RankBefore
  <2>5. \A b \in Banks : x[b].state = bs[r][b].state
                         /\ x[b].nextPowerUp = bs[r][b].nextPowerUp
    BY <2>2, Zenon DEF Delayed
  <2> QED BY <1>1, <1>4, <2>3, <2>4, <2>5, Zenon DEF RowBooked, For
<1> QED BY <1>2, <1>3, <1>4, Zenon

-----------------------------------------------------------------------------
(* What a rank does with a command depends on its table only *)

\* n is rk but for the read data.
SameButData(rk, n) ==
    /\ IsRank(n) /\ n.banks = rk.banks /\ n.error = rk.error
    /\ n.isPowerDown = rk.isPowerDown /\ n.refreshWaiting = rk.refreshWaiting

\* The tables and the errors of two ranks are the same.
SameTable(rk, k) == k.banks = rk.banks /\ k.error = rk.error

LEMMA InitBankType == InitBank \in BankStates
<1>1. 0 \in 0 .. NUM_ROWS - 1
  BY GeometryAssumption
<1> QED BY <1>1, Zenon DEF InitBank, BankStates, Commands, Columns, Reads

LEMMA InitAgrees == Agrees(InitBank, InitBank)
  BY DEF Agrees, InitBank, Open, Closing

\* n is a rank with the table, the error and the flag of rk.
SameView(rk, n) ==
    IsRank(n) /\ SameTable(rk, n) /\ n.isPowerDown = rk.isPowerDown

LEMMA UpdateView ==
    \A rk :
       /\ IsRank(rk)
       => SameView(rk, RankUpdate(rk))
<1>RankUpdateShape.
    \A rk, n :
       /\ IsRank(rk) /\ n = RankUpdate(rk)
       => SameButData(rk, n)
  <2>DataReplaced.
      ASSUME NEW rk, IsRank(rk), NEW x, NEW y,
             NEW n, n = [rk EXCEPT !.outgoing = x, !.returning = y]
      PROVE  SameButData(rk, n) /\ n.outgoing = x /\ n.returning = y
    <3> USE <2>DataReplaced
    <3>1. n.outgoing = x /\ n.returning = y
      BY SMT DEF IsRank
    <3>2. n \in [banks : [Banks -> BankStates], returning : {y},
                 outgoing : {x}, refreshWaiting : BOOLEAN,
                 isPowerDown : BOOLEAN, error : BOOLEAN]
      BY Zenon DEF IsRank
    <3>3. /\ n.banks = rk.banks /\ n.error = rk.error
          /\ n.isPowerDown = rk.isPowerDown /\ n.refreshWaiting = rk.refreshWaiting
      BY SMT DEF IsRank
    <3>4. IsRank(n)
      BY <3>1, <3>2, Zenon DEF IsRank
    <3> QED BY <3>1, <3>3, <3>4, Zenon DEF SameButData

  <2> SUFFICES ASSUME NEW rk, NEW n, IsRank(rk), n = RankUpdate(rk)
               PROVE  SameButData(rk, n)
    BY Zenon
  <2>1. PICK x, y : n = [rk EXCEPT !.outgoing = x, !.returning = y]
    BY Zenon DEF RankUpdate
  <2> QED BY <2>1, <2>DataReplaced, Zenon

<1> SUFFICES ASSUME NEW rk, IsRank(rk)
             PROVE  SameView(rk, RankUpdate(rk))
  BY Zenon
<1>1. SameButData(rk, RankUpdate(rk))
  BY <1>RankUpdateShape, Zenon
<1> QED BY <1>1, Zenon DEF SameButData, SameView, SameTable

LEMMA ReceiveView ==
    \A rk, k, p :
       /\ IsRank(rk) /\ SameView(rk, k) /\ p \in Packets
       => SameView(receiveFromBus(rk, p), receiveFromBus(k, p))
<1>ReceiveSameTable.
    ASSUME NEW rk, IsRank(rk), NEW k, IsRank(k), SameTable(rk, k), NEW p \in Packets
    PROVE  SameTable(receiveFromBus(rk, p), receiveFromBus(k, p))
  <2> USE <1>ReceiveSameTable
  <2>1. p.type \in Commands
    BY Zenon DEF Packets
  <2>2. SameTable(Refused(rk), Refused(k))
    BY SMT DEF SameTable, Refused, IsRank
  <2>3. CASE p.type \in Columns
    <3>1. ColumnAllowed(rk, p) <=> ColumnAllowed(k, p)
      BY Zenon DEF ColumnAllowed, SameTable
    <3>2. SameTable(ReceiveColumn(rk, p), ReceiveColumn(k, p))
      BY SMT DEF SameTable, ReceiveColumn, IsRank
    <3> QED BY <2>2, <2>3, <3>1, <3>2, ReceiveCases, Zenon
  <2>4. CASE p.type = "ACTIVATE"
    <3>1. ActivateAllowed(rk, p) <=> ActivateAllowed(k, p)
      BY Zenon DEF ActivateAllowed, SameTable
    <3>2. SameTable(ReceiveActivate(rk, p), ReceiveActivate(k, p))
      BY SMT DEF SameTable, ReceiveActivate, IsRank
    <3> QED BY <2>2, <2>4, <3>1, <3>2, ReceiveCases, Zenon
  <2>5. CASE p.type = "PRECHARGE"
    <3>1. /\ PrechargeAllowed(rk, p) <=> PrechargeAllowed(k, p)
          /\ PrechargeIgnored(rk, p) <=> PrechargeIgnored(k, p)
      BY Zenon DEF PrechargeAllowed, PrechargeIgnored, SameTable
    <3>2. SameTable(ReceivePrecharge(rk, p), ReceivePrecharge(k, p))
      BY SMT DEF SameTable, ReceivePrecharge, IsRank
    <3> QED BY <2>2, <2>5, <3>1, <3>2, ReceiveCases, Zenon
  <2>6. CASE p.type = "REFRESH"
    <3>1. (\A b \in Banks : rk.banks[b].state = "Idle")
            <=> (\A b \in Banks : k.banks[b].state = "Idle")
      BY Zenon DEF SameTable
    <3>2. SameTable(ReceiveRefresh(rk), ReceiveRefresh(k))
      BY SMT DEF SameTable, ReceiveRefresh, AllBanks, IsRank
    <3> QED BY <2>2, <2>6, <3>1, <3>2, ReceiveCases, Zenon
  <2> QED BY <2>1, <2>3, <2>4, <2>5, <2>6, Zenon DEF Commands

<1> SUFFICES ASSUME NEW rk, NEW k, NEW p \in Packets, IsRank(rk), SameView(rk, k)
             PROVE  SameView(receiveFromBus(rk, p), receiveFromBus(k, p))
  BY Zenon
<1>1. IsRank(k) /\ SameTable(rk, k) /\ k.isPowerDown = rk.isPowerDown
  BY Zenon DEF SameView
<1>2. SameTable(receiveFromBus(rk, p), receiveFromBus(k, p))
  BY <1>1, <1>ReceiveSameTable, Zenon
<1>3. Kept(p, rk, receiveFromBus(rk, p)) /\ Kept(p, k, receiveFromBus(k, p))
  BY <1>1, ReceiveKeeps, Zenon
<1> QED BY <1>1, <1>2, <1>3, Zenon DEF Kept, SameView

LEMMA RequestView ==
    ASSUME NEW a, NEW k, SameView(a, k)
    PROVE  SameView(a, [k EXCEPT !.refreshWaiting = TRUE])
<1>1. PICK n : n = [k EXCEPT !.refreshWaiting = TRUE]
  BY Zenon
<1>2. IsRank(k) /\ SameTable(a, k) /\ k.isPowerDown = a.isPowerDown
  BY Zenon DEF SameView
<1>3. /\ IsRank(n) /\ n.banks = k.banks /\ n.error = k.error
      /\ n.isPowerDown = k.isPowerDown
  BY <1>1, <1>2, FlagsReplaced, Zenon
<1>4. SameView(a, n)
  BY <1>2, <1>3, Zenon DEF SameView, SameTable
<1> QED BY <1>1, <1>4, Zenon

\* What TablesInv says of a rank: m is the controller's row of bank states and
\* k what the rank will be when the command on the bus has arrived.
Matched(m, k, pd) ==
    /\ ~ k.error /\ pd \in BOOLEAN /\ k.isPowerDown = pd
    /\ \A b \in Banks : /\ Agrees(m[b], k.banks[b])
                        /\ pd => m[b].nextPowerUp = m[0].nextPowerUp
                        /\ pd <=> m[b].state = "PowerDown"

\* The command arrives and the countdowns are taken.
LEMMA CountedDownBefore ==
    \A m, k, pd, rk, row :
       /\ m \in [Banks -> BankStates] /\ Matched(m, k, pd) /\ SameView(k, rk)
       /\ row = [b \in Banks |-> CountDown(m[b])]
       => row \in [Banks -> BankStates] /\ RankBefore(row, rk, pd)
\* A countdown keeps the tables in agreement, and a bank it leaves closing is
\* not accessible in this cycle.
<1>CountDownAgrees.
    ASSUME NEW m \in BankStates, NEW t \in BankStates, Agrees(m, t)
    PROVE  /\ Agrees(CountDown(m), t)
           /\ Closing(CountDown(m)) =>
                 /\ CountDown(m).countdown \in 1 .. CountDown(m).nextRead
                 /\ CountDown(m).countdown \in 1 .. CountDown(m).nextWrite
           /\ m.state = "PowerDown" <=> CountDown(m).state = "PowerDown"
  <2> USE <1>CountDownAgrees
  <2>1. PICK n \in BankStates :
           /\ n = CountDown(m) /\ n.row = m.row
           /\ n.nextRead = m.nextRead /\ n.nextWrite = m.nextWrite
           /\ n.nextActivate = m.nextActivate /\ n.nextPrecharge = m.nextPrecharge
           /\ n.nextPowerUp = m.nextPowerUp /\ CountedDown(m, n)
    BY CountDownShape, Zenon
  <2>2. /\ {m.nextRead, m.nextWrite, m.countdown, n.countdown} \subseteq Nat
        /\ m.nextActivate \in Nat /\ t.nextActivate \in Nat
    BY <2>1, BankFields, Zenon
  <2>3. CASE Closing(n)
    BY <2>1, <2>2, <2>3, SMT DEF Agrees, Open, Closing, CountedDown
  <2>4. CASE Open(n)
    BY <2>1, <2>2, <2>4, SMT DEF Agrees, Open, Closing, CountedDown
  <2>5. CASE n.state # "RowActive"
    BY <2>1, <2>2, <2>5, SMT DEF Agrees, Open, Closing, CountedDown
  <2> QED
    BY <2>3, <2>4, <2>5, Zenon DEF Open, Closing

<1> SUFFICES ASSUME NEW m \in [Banks -> BankStates], NEW k, NEW pd, NEW rk,
                    NEW row, Matched(m, k, pd), SameView(k, rk),
                    row = [b \in Banks |-> CountDown(m[b])]
             PROVE  row \in [Banks -> BankStates] /\ RankBefore(row, rk, pd)
  BY Zenon
<1>1. row \in [Banks -> BankStates]
  BY CountDownShape, Zenon
<1>2. /\ IsRank(rk) /\ rk.banks = k.banks /\ rk.error = k.error
      /\ rk.isPowerDown = k.isPowerDown /\ rk.banks \in [Banks -> BankStates]
  BY Zenon DEF SameView, SameTable, IsRank
<1>3. 0 \in Banks
  BY GeometryAssumption DEF Banks
<1>4. ASSUME NEW b \in Banks
      PROVE  /\ AgreesNow(row[b], rk.banks[b])
             /\ row[b].state = "PowerDown" <=> pd
             /\ row[b].nextPowerUp = m[b].nextPowerUp
  <2>1. PICK x \in BankStates : /\ x = m[b] /\ row[b] = CountDown(x)
                                /\ x.state = "PowerDown" <=> pd
    BY Zenon DEF Matched
  <2>2. PICK t \in BankStates : t = rk.banks[b] /\ Agrees(x, t)
    BY <1>2, <2>1, Zenon DEF Matched
  <2>3. AgreesNow(CountDown(x), t)
        /\ (x.state = "PowerDown" <=> CountDown(x).state = "PowerDown")
    BY <2>2, <1>CountDownAgrees, Zenon DEF AgreesNow
  <2>4. CountDown(x).nextPowerUp = x.nextPowerUp
    BY CountDownShape, Zenon
  <2> QED BY <2>1, <2>2, <2>3, <2>4, Zenon
<1>5. RowAgrees(row, rk)
  BY <1>1, <1>2, <1>4, Zenon DEF RowAgrees, Matched
<1>6. \A b \in Banks : pd => row[b].nextPowerUp = row[0].nextPowerUp
  BY <1>3, <1>4, Zenon DEF Matched
<1> QED BY <1>1, <1>2, <1>4, <1>5, <1>6, Zenon DEF RankBefore, Matched

\* Powering down or up and the clock: from the row x, the rank rk and the flag
\* pd to the row row, the rank k and the flag q.
Cycled(x, rk, pd, r, Down, Up, row, k, q) ==
    /\ r \in Down => \A b \in Banks : x[b].state = "Idle"
    /\ r \in Up => pd /\ x[0].nextPowerUp = 0
    /\ row = [b \in Banks |-> BankStep(IF r \in Down THEN BankPowerDown(x[b])
                                       ELSE IF r \in Up THEN BankPowerUp(x[b])
                                       ELSE x[b])]
    /\ k = RankStep(IF r \in Down THEN RankPowerDown(rk)
                    ELSE IF r \in Up THEN RankPowerUp(rk) ELSE rk)
    /\ q = ((pd /\ r \notin Up) \/ r \in Down)

LEMMA RankCycle ==
    \A bs, p, r, rk, pd, Down, Up, row, k, q, n :
       /\ bs \in Tables /\ Issued(bs, p) /\ r \in Ranks
       /\ RankBefore(bs[r], rk, pd)
       /\ Cycled(OnCommand(bs, p)[r], rk, pd, r, Down, Up, row, k, q)
       /\ n = IF For(p, r) THEN receiveFromBus(k, p) ELSE k
       => RankAfter(row, k, n, q)
<1>RankStepShape.
    ASSUME NEW rk, IsRank(rk)
    PROVE  LET n == RankStep(rk)
           IN  /\ IsRank(n) /\ n.error = rk.error
               /\ n.isPowerDown = rk.isPowerDown
               /\ n.refreshWaiting = rk.refreshWaiting
               /\ n.outgoing = rk.outgoing /\ n.returning = rk.returning
               /\ \A b \in Banks : n.banks[b] = BankStep(rk.banks[b])
  <2> USE <1>RankStepShape
  <2> DEFINE bk == [b \in Banks |-> BankStep(rk.banks[b])]
  <2>1. rk.banks \in [Banks -> BankStates]
    BY Zenon DEF IsRank
  <2>2. RankStep(rk) = [rk EXCEPT !.banks = bk]
    BY Zenon DEF RankStep, AllBanks
  <2>3. bk \in [Banks -> BankStates] /\ \A b \in Banks : bk[b] = BankStep(rk.banks[b])
    BY <2>1, BankStepShape, Zenon
  <2> HIDE DEF bk
  <2> QED BY <2>2, <2>3, BanksReplaced

\* A power-down the rank accepts; a power-up the rank accepts.
<1>RankPowerShape.
    ASSUME NEW rk, IsRank(rk)
    PROVE  /\ LET n == RankPowerDown(rk)
              IN  (\A b \in Banks : \/ rk.banks[b].state = "Idle"
                                    \/ isSmartMRAM /\ rk.banks[b].state = "RowActive") =>
                     /\ IsRank(n) /\ n.error = rk.error /\ n.isPowerDown = TRUE
                     /\ n.refreshWaiting = rk.refreshWaiting
                     /\ n.outgoing = rk.outgoing /\ n.returning = rk.returning
                     /\ \A b \in Banks : n.banks[b] = DownBank(rk.banks[b])
           /\ LET n == RankPowerUp(rk)
              IN  rk.isPowerDown /\ (\A b \in Banks : rk.banks[b].nextPowerUp = 0) =>
                     /\ IsRank(n) /\ n.error = rk.error /\ n.isPowerDown = FALSE
                     /\ n.refreshWaiting = rk.refreshWaiting
                     /\ n.outgoing = rk.outgoing /\ n.returning = rk.returning
                     /\ \A b \in Banks : n.banks[b] = UpBank(rk.banks[b])
  <2> USE <1>RankPowerShape
  <2>1. rk.banks \in [Banks -> BankStates]
    BY DEF IsRank
  <2>2. ASSUME \A b \in Banks : \/ rk.banks[b].state = "Idle"
                                \/ isSmartMRAM /\ rk.banks[b].state = "RowActive"
        PROVE  LET n == RankPowerDown(rk)
               IN  /\ IsRank(n) /\ n.error = rk.error /\ n.isPowerDown = TRUE
                   /\ n.refreshWaiting = rk.refreshWaiting
                   /\ n.outgoing = rk.outgoing /\ n.returning = rk.returning
                   /\ \A b \in Banks : n.banks[b] = DownBank(rk.banks[b])
    <3> DEFINE n == RankPowerDown(rk)
               k == [rk EXCEPT !.isPowerDown = TRUE]
               bk == [b \in Banks |-> DownBank(rk.banks[b])]
    <3>1. /\ IsRank(k) /\ k.banks = rk.banks /\ k.error = rk.error
          /\ k.isPowerDown = TRUE /\ k.refreshWaiting = rk.refreshWaiting
          /\ k.outgoing = rk.outgoing /\ k.returning = rk.returning
      BY FlagsReplaced, Zenon
    <3>2. n = [k EXCEPT !.banks = [b \in Banks |-> DownBank(k.banks[b])]]
      BY <2>2, Zenon DEF RankPowerDown, AllBanks
    <3> HIDE DEF k, n
    <3>3. n = [k EXCEPT !.banks = bk]
      BY <3>1, <3>2, Zenon
    <3>4. bk \in [Banks -> BankStates] /\ \A b \in Banks : bk[b] = DownBank(rk.banks[b])
      BY <2>1, RankBankShapes, Zenon
    <3> HIDE DEF bk
    <3> QED BY <3>1, <3>3, <3>4, BanksReplaced DEF n
  <2>3. ASSUME rk.isPowerDown, \A b \in Banks : rk.banks[b].nextPowerUp = 0
        PROVE  LET n == RankPowerUp(rk)
               IN  /\ IsRank(n) /\ n.error = rk.error /\ n.isPowerDown = FALSE
                   /\ n.refreshWaiting = rk.refreshWaiting
                   /\ n.outgoing = rk.outgoing /\ n.returning = rk.returning
                   /\ \A b \in Banks : n.banks[b] = UpBank(rk.banks[b])
    <3> DEFINE n == RankPowerUp(rk)
               k == [rk EXCEPT !.isPowerDown = FALSE]
               bk == [b \in Banks |-> UpBank(rk.banks[b])]
    <3>1. /\ IsRank(k) /\ k.banks = rk.banks /\ k.error = rk.error
          /\ k.isPowerDown = FALSE /\ k.refreshWaiting = rk.refreshWaiting
          /\ k.outgoing = rk.outgoing /\ k.returning = rk.returning
      BY FlagsReplaced, Zenon
    <3>2. n = [k EXCEPT !.banks = [b \in Banks |-> UpBank(k.banks[b])]]
      BY <2>3, Zenon DEF RankPowerUp, AllBanks
    <3> HIDE DEF k, n
    <3>3. n = [k EXCEPT !.banks = bk]
      BY <3>1, <3>2, Zenon
    <3>4. bk \in [Banks -> BankStates] /\ \A b \in Banks : bk[b] = UpBank(rk.banks[b])
      BY <2>1, RankBankShapes, Zenon
    <3> HIDE DEF bk
    <3> QED BY <3>1, <3>3, <3>4, BanksReplaced DEF n
  <2> QED BY <2>2, <2>3, Zenon

<1>StepAgrees.
    ASSUME NEW m \in BankStates, NEW t \in BankStates, AgreesNow(m, t)
    PROVE  Agrees(BankStep(m), BankStep(t))
  <2> USE <1>StepAgrees
  <2>1. PICK n \in BankStates :
           /\ n = BankStep(m) /\ n.state = m.state /\ n.row = m.row
           /\ n.lastCommand = m.lastCommand /\ n.countdown = m.countdown
           /\ n.nextRead = Elapsed(m.nextRead) /\ n.nextWrite = Elapsed(m.nextWrite)
           /\ n.nextActivate = Elapsed(m.nextActivate)
           /\ n.nextPrecharge = Elapsed(m.nextPrecharge)
           /\ n.nextPowerUp = Elapsed(m.nextPowerUp)
    BY BankStepShape, Zenon
  <2>2. PICK u \in BankStates :
           /\ u = BankStep(t) /\ u.state = t.state /\ u.row = t.row
           /\ u.nextRead = Elapsed(t.nextRead) /\ u.nextWrite = Elapsed(t.nextWrite)
           /\ u.nextActivate = Elapsed(t.nextActivate)
           /\ u.nextPrecharge = Elapsed(t.nextPrecharge)
           /\ u.nextPowerUp = Elapsed(t.nextPowerUp)
    BY BankStepShape, Zenon
  <2>3. /\ m.nextRead \in Nat /\ m.nextWrite \in Nat /\ m.nextActivate \in Nat
        /\ m.nextPrecharge \in Nat /\ m.countdown \in Nat
        /\ t.nextRead \in Nat /\ t.nextWrite \in Nat /\ t.nextActivate \in Nat
        /\ t.nextPrecharge \in Nat
    BY BankFields, Zenon
  <2>4. /\ t.nextActivate <= m.nextActivate + 1 => u.nextActivate <= n.nextActivate + 1
        /\ t.nextRead <= m.nextRead + 1 => u.nextRead <= n.nextRead + 1
        /\ t.nextWrite <= m.nextWrite + 1 => u.nextWrite <= n.nextWrite + 1
        /\ t.nextPrecharge <= m.nextPrecharge + 1 => u.nextPrecharge <= n.nextPrecharge + 1
    BY <2>1, <2>2, <2>3 DEF Elapsed
  <2>5. /\ n.nextRead \in Nat /\ m.nextRead <= n.nextRead + 1
        /\ n.nextWrite \in Nat /\ m.nextWrite <= n.nextWrite + 1
    BY <2>1, <2>3, LaterElapsed, Zenon
  <2> QED BY <2>1, <2>2, <2>3, <2>4, <2>5 DEF AgreesNow, Agrees, Open, Closing

\* A bank is powered down in both tables at once, and powered up in both.
<1>PowerAgrees.
    ASSUME NEW m \in BankStates, NEW t \in BankStates, AgreesNow(m, t)
    PROVE  /\ m.state = "Idle" => Agrees(BankStep(BankPowerDown(m)), BankStep(DownBank(t)))
           /\ m.state = "PowerDown" => Agrees(BankStep(BankPowerUp(m)), BankStep(UpBank(t)))
  <2> USE <1>PowerAgrees
  <2>1. PICK n \in BankStates :
           /\ n = BankPowerDown(m) /\ n.state = "PowerDown" /\ n.nextPowerUp = tCKE
           /\ n.countdown = m.countdown /\ n.nextActivate = m.nextActivate
    BY PowerShape, Zenon
  <2>2. PICK u \in BankStates :
           /\ u = DownBank(t) /\ u.state = "PowerDown"
           /\ u.nextActivate = t.nextActivate /\ u.nextPowerUp = tCKE
    BY RankBankShapes, Zenon
  <2>3. m.state = "Idle" => AgreesNow(n, u)
    BY <2>1, <2>2, Zenon DEF AgreesNow, Agrees, Open, Closing
  <2>4. PICK x \in BankStates :
           /\ x = BankPowerUp(m) /\ x.state = "Idle" /\ x.nextActivate = tXP
           /\ x.countdown = m.countdown
    BY PowerShape, Zenon
  <2>5. PICK y \in BankStates : y = UpBank(t) /\ y.state = "Idle" /\ y.nextActivate = tXP
    BY RankBankShapes, Zenon
  <2>6. m.state = "PowerDown" => AgreesNow(x, y)
    BY <2>4, <2>5, TimingNat DEF AgreesNow, Agrees, Open, Closing
  <2> QED BY <2>1, <2>2, <2>3, <2>4, <2>5, <2>6, <1>StepAgrees, Zenon

\* An idle rank accepts the power-down.
<1>RankGoesDown.
    ASSUME NEW row, NEW rk, RowAgrees(row, rk),
           \A b \in Banks : row[b].state = "Idle",
           NEW n, n = RankStep(RankPowerDown(rk))
    PROVE  /\ IsRank(n) /\ ~ n.error /\ n.isPowerDown
           /\ \A b \in Banks : Agrees(BankStep(BankPowerDown(row[b])), n.banks[b])
  <2> USE <1>RankGoesDown
  <2> DEFINE k == RankPowerDown(rk)
  <2>1. \A b \in Banks : /\ row[b] \in BankStates /\ rk.banks[b] \in BankStates
                         /\ AgreesNow(row[b], rk.banks[b])
    BY Zenon DEF RowAgrees, IsRank
  <2>2. \A b \in Banks : rk.banks[b].state = "Idle"
    BY <2>1, Zenon DEF AgreesNow, Agrees, Open
  <2>3. /\ IsRank(k) /\ k.error = rk.error /\ k.isPowerDown = TRUE
        /\ \A b \in Banks : k.banks[b] = DownBank(rk.banks[b])
    <3>1. \A b \in Banks : \/ rk.banks[b].state = "Idle"
                           \/ isSmartMRAM /\ rk.banks[b].state = "RowActive"
      BY <2>2, Zenon
    <3>2. IsRank(rk)
      BY Zenon DEF RowAgrees
    <3> QED BY <3>1, <3>2, <1>RankPowerShape, Zenon
  <2> HIDE DEF k
  <2>4. /\ IsRank(n) /\ n.error = k.error /\ n.isPowerDown = k.isPowerDown
        /\ \A b \in Banks : n.banks[b] = BankStep(k.banks[b])
    BY <2>3, <1>RankStepShape, Zenon DEF k
  <2> QED BY <2>1, <2>3, <2>4, <1>PowerAgrees, ZenonT(40) DEF RowAgrees

\* A rank that has slept long enough accepts the power-up.
<1>RankComesUp.
    ASSUME NEW row, NEW rk, RowAgrees(row, rk), rk.isPowerDown,
           \A b \in Banks : row[b].state = "PowerDown" /\ row[b].nextPowerUp = 0,
           NEW n, n = RankStep(RankPowerUp(rk))
    PROVE  /\ IsRank(n) /\ ~ n.error /\ ~ n.isPowerDown
           /\ \A b \in Banks : Agrees(BankStep(BankPowerUp(row[b])), n.banks[b])
  <2> USE <1>RankComesUp
  <2> DEFINE k == RankPowerUp(rk)
  <2>1. \A b \in Banks : /\ row[b] \in BankStates /\ rk.banks[b] \in BankStates
                         /\ AgreesNow(row[b], rk.banks[b])
    BY Zenon DEF RowAgrees, IsRank
  <2>2. \A b \in Banks : rk.banks[b].nextPowerUp = 0
    BY <2>1, Zenon DEF AgreesNow, Agrees
  <2>3. /\ IsRank(k) /\ k.error = rk.error /\ k.isPowerDown = FALSE
        /\ \A b \in Banks : k.banks[b] = UpBank(rk.banks[b])
    BY <2>2, <1>RankPowerShape, Zenon DEF RowAgrees
  <2> HIDE DEF k
  <2>4. /\ IsRank(n) /\ n.error = k.error /\ n.isPowerDown = k.isPowerDown
        /\ \A b \in Banks : n.banks[b] = BankStep(k.banks[b])
    BY <2>3, <1>RankStepShape, Zenon DEF k
  <2> QED BY <2>1, <2>3, <2>4, <1>PowerAgrees, Zenon DEF RowAgrees

<1>PrechargeFindsAsleep.
    ASSUME NEW bs \in Tables, NEW p \in Packets, Legal(bs, p),
           NEW rk, RowAgrees(bs[p.addr.rank], rk),
           \A b \in Banks : OnCommand(bs, p)[p.addr.rank][b].state = "Idle",
           NEW k, k = RankStep(RankPowerDown(rk)),
           NEW n, n = receiveFromBus(k, p)
    PROVE  SentToSleep(bs, p, k, n)
  <2> USE <1>PrechargeFindsAsleep
  <2> DEFINE r == p.addr.rank
             bank == p.addr.bank
             row == bs[r]
             bt == OnCommand(bs, p)
             d == RankPowerDown(rk)
  <2>1. r \in Ranks /\ bank \in Banks
    BY Zenon DEF Packets, Addresses
  <2>2. \A b \in Banks : /\ row[b] \in BankStates /\ rk.banks[b] \in BankStates
                         /\ AgreesNow(row[b], rk.banks[b])
    BY Zenon DEF RowAgrees, IsRank
  <2>3. p.type \notin Columns
    <3> SUFFICES ASSUME p.type \in Columns PROVE FALSE
      BY Zenon
    <3>1. ColumnBooked(p, row[bank], bt[r][bank], TRUE, TRUE)
      BY <2>1, OnColumnShape, Zenon
    <3> QED BY <2>1, <3>1, Zenon DEF ColumnBooked, Legal
  <2>4. p.type # "ACTIVATE"
    <3> SUFFICES ASSUME p.type = "ACTIVATE" PROVE FALSE
      BY Zenon
    <3>1. ActivateBooked(p, row[bank], bt[r][bank], TRUE, TRUE)
      BY <2>1, OnActivateShape, Zenon
    <3> QED BY <2>1, <3>1, Zenon DEF ActivateBooked
  <2>5. p.type # "REFRESH"
    <3> SUFFICES ASSUME p.type = "REFRESH" PROVE FALSE
      BY Zenon
    <3>1. RefreshBooked(row[bank], bt[r][bank])
      BY <2>1, OnRefreshShape, Zenon
    <3> QED BY <2>1, <3>1, Zenon DEF RefreshBooked
  <2>6. p.type = "PRECHARGE"
    BY <2>3, <2>4, <2>5, Zenon DEF Packets, Commands
  <2>7. \A b \in Banks : IF b = bank THEN PrechargeBooked(row[b], bt[r][b])
                         ELSE bt[r][b] = row[b]
    BY <2>1, <2>6, OnPrechargeShape
  <2>8. isSmartMRAM
    BY <2>1, <2>7, Zenon DEF PrechargeBooked
  <2>9. row[bank].state = "RowActive" /\ ~ ClosePage
    BY <2>6, Zenon DEF Legal
  <2>10. \A b \in Banks : IF b = bank THEN rk.banks[b].state = "RowActive"
                          ELSE row[b].state = "Idle" /\ rk.banks[b].state = "Idle"
    BY <2>2, <2>7, <2>9, ZenonT(40) DEF AgreesNow, Agrees, Open, Closing
  <2>11. /\ IsRank(d) /\ d.error = rk.error /\ d.isPowerDown = TRUE
         /\ \A b \in Banks : d.banks[b] = DownBank(rk.banks[b])
    <3>1. \A b \in Banks : \/ rk.banks[b].state = "Idle"
                           \/ isSmartMRAM /\ rk.banks[b].state = "RowActive"
      BY <2>8, <2>10, Zenon
    <3>2. IsRank(rk)
      BY Zenon DEF RowAgrees
    <3> QED BY <3>1, <3>2, <1>RankPowerShape, Zenon
  <2> HIDE DEF d
  <2>12. /\ IsRank(k) /\ k.error = d.error /\ k.isPowerDown = d.isPowerDown
         /\ \A b \in Banks : k.banks[b] = BankStep(DownBank(rk.banks[b]))
    BY <2>11, <1>RankStepShape, Zenon DEF d
  <2>13. \A b \in Banks : DownBank(rk.banks[b]) \in BankStates
                          /\ DownBank(rk.banks[b]).state = "PowerDown"
                          /\ DownBank(rk.banks[b]).nextPowerUp = tCKE
    BY <2>2, RankBankShapes, Zenon
  <2>14. n = k
    <3>1. k.banks[bank].state = "PowerDown"
      BY <2>1, <2>12, <2>13, BankStepShape
    <3> QED BY <2>6, <2>8, <3>1, ReceiveCases, Zenon DEF PrechargeIgnored
  <2>15. ASSUME NEW b \in Banks
         PROVE  Agrees(BankStep(BankPowerDown(bt[r][b])), n.banks[b])
    <3>1. CASE b # bank
      <4>1. bt[r][b] = row[b] /\ row[b].state = "Idle"
        BY <2>7, <2>10, <3>1, Zenon
      <4> QED BY <2>2, <2>12, <2>14, <4>1, <1>PowerAgrees, Zenon
    <3>2. CASE b = bank
      <4>1. PICK m \in BankStates : m = bt[r][b] /\ m.countdown = 0
        BY <2>7, <2>8, <3>2, Zenon DEF PrechargeBooked
      <4>2. PICK x \in BankStates : /\ x = BankPowerDown(m) /\ x.state = "PowerDown"
                                    /\ x.nextPowerUp = tCKE /\ x.countdown = 0
        BY <4>1, PowerShape, Zenon
      <4>3. PICK t \in BankStates : /\ t = DownBank(rk.banks[b]) /\ t.state = "PowerDown"
                                    /\ t.nextPowerUp = tCKE
        BY <2>13, Zenon
      <4>4. AgreesNow(x, t)
        BY <2>8, <4>2, <4>3, Zenon DEF AgreesNow, Agrees, Open, Closing
      <4>5. Agrees(BankStep(x), BankStep(t))
        BY <4>4, <1>StepAgrees, Zenon
      <4> QED BY <2>12, <2>14, <4>1, <4>2, <4>3, <4>5, Zenon
    <3> QED BY <3>1, <3>2, Zenon
  <2> QED BY <2>11, <2>12, <2>14, <2>15, Zenon DEF RowAgrees, SentToSleep

\* A rank that stays as it is: no power change.
<1>RankStays.
    \A bs, p, r, rk, pd, row, k, n :
       /\ bs \in Tables /\ Issued(bs, p) /\ r \in Ranks
       /\ RankBefore(bs[r], rk, pd)
       /\ row = [b \in Banks |-> BankStep(OnCommand(bs, p)[r][b])]
       /\ k = RankStep(rk) /\ n = IF For(p, r) THEN receiveFromBus(k, p) ELSE k
       => RankAfter(row, k, n, pd)
\* A legal command is allowed by the rank it arrives at, and the two tables
\* agree again.
  <2>CommandAgrees.
      \A bs, p, rk, n :
         /\ bs \in Tables /\ p \in Packets /\ Legal(bs, p)
         /\ RowAgrees(bs[p.addr.rank], rk) /\ n = receiveFromBus(RankStep(rk), p)
         => /\ ~ n.error
            /\ \A b \in Banks :
                  Agrees(BankStep(OnCommand(bs, p)[p.addr.rank][b]), n.banks[b])
  \* What the rank's entry is at the end of a cycle in which nothing arrives.
    <3>SteppedFields.
        ASSUME NEW t \in BankStates, NEW v, v = BankStep(t)
        PROVE  /\ v \in BankStates /\ v.state = t.state /\ v.row = t.row
               /\ v.nextPowerUp = Elapsed(t.nextPowerUp)
               /\ \A k \in Nat :
                     /\ t.nextRead <= k + 1 => v.nextRead <= k
                     /\ t.nextWrite <= k + 1 => v.nextWrite <= k
                     /\ t.nextActivate <= k + 1 => v.nextActivate <= k
                     /\ t.nextPrecharge <= k + 1 => v.nextPrecharge <= k
      <4> USE <3>SteppedFields
      <4>1. /\ t.nextRead \in Nat /\ t.nextWrite \in Nat /\ t.nextActivate \in Nat
            /\ t.nextPrecharge \in Nat
        BY BankFields, Zenon
      <4>2. \A j, k \in Nat : j <= k + 1 => Elapsed(j) <= k
        BY DEF Elapsed
      <4> QED BY <4>1, <4>2, BankStepShape, Zenon

    \* A column command is allowed when it arrives, and leaves its bank and the
    \* others of its rank in agreement.
    <3>ColumnAgrees.
        ASSUME NEW p \in Packets, p.type \in Columns, NEW own \in BOOLEAN,
               own /\ p.type \in {"READ_P", "WRITE_P"} => ClosePage,
               NEW m \in BankStates, NEW t \in BankStates, AgreesNow(m, t),
               own => Open(m),
               NEW n, ColumnBooked(p, m, n, own, TRUE),
               NEW u, ColumnReceived(p, BankStep(t), u, own)
        PROVE  Agrees(BankStep(n), u)
      <4> USE <3>ColumnAgrees
      <4> DEFINE v == BankStep(t)
                 w == BankStep(n)
                 auto == p.type \in {"READ_P", "WRITE_P"}
      <4>1. n \in BankStates /\ u \in BankStates
        BY Zenon DEF ColumnBooked, ColumnReceived
      <4>2. /\ w \in BankStates /\ w.state = n.state /\ w.row = n.row
            /\ w.lastCommand = n.lastCommand /\ w.countdown = n.countdown
            /\ w.nextRead = Elapsed(n.nextRead) /\ w.nextWrite = Elapsed(n.nextWrite)
            /\ w.nextActivate = Elapsed(n.nextActivate)
            /\ w.nextPrecharge = Elapsed(n.nextPrecharge)
            /\ w.nextPowerUp = Elapsed(n.nextPowerUp)
        BY <4>1, BankStepShape, Zenon
      <4>3. /\ v \in BankStates /\ v.state = t.state /\ v.row = t.row
            /\ v.nextPowerUp = Elapsed(t.nextPowerUp)
            /\ \A k \in Nat :
                  /\ t.nextRead <= k + 1 => v.nextRead <= k
                  /\ t.nextWrite <= k + 1 => v.nextWrite <= k
                  /\ t.nextActivate <= k + 1 => v.nextActivate <= k
                  /\ t.nextPrecharge <= k + 1 => v.nextPrecharge <= k
        BY <3>SteppedFields, Zenon
      <4>4. ColumnReceived(p, v, u, own)
        BY Zenon
      <4> SUFFICES Agrees(w, u)
        BY Zenon
      <4> HIDE DEF v, w
      <4>5. /\ m.nextRead \in Nat /\ m.nextWrite \in Nat /\ m.nextActivate \in Nat
            /\ m.nextPrecharge \in Nat /\ m.countdown \in Nat
            /\ n.nextRead \in Nat /\ n.nextWrite \in Nat /\ n.nextActivate \in Nat
            /\ n.nextPrecharge \in Nat
            /\ v.nextRead \in Nat /\ v.nextWrite \in Nat /\ v.nextActivate \in Nat
            /\ v.nextPrecharge \in Nat
            /\ w.nextRead \in Nat /\ w.nextWrite \in Nat /\ w.nextActivate \in Nat
            /\ w.nextPrecharge \in Nat
            /\ u.nextRead \in Nat /\ u.nextWrite \in Nat /\ u.nextActivate \in Nat
            /\ u.nextPrecharge \in Nat
        BY <4>1, <4>2, <4>3, BankFields, Zenon
      <4>6. /\ n.nextRead <= w.nextRead + 1 /\ n.nextWrite <= w.nextWrite + 1
            /\ n.nextActivate <= w.nextActivate + 1 /\ n.nextPrecharge <= w.nextPrecharge + 1
        BY <4>2, <4>5, LaterElapsed, Zenon
      <4>7. /\ ReadDelay(p) \in Nat /\ WriteDelay(p) \in Nat /\ PreDelay(p) \in Nat
            /\ AutoPreDelay(p) \in Nat /\ PreDelay(p) \in 1 .. AutoPreDelay(p)
        BY ColumnDelays, Zenon
      <4>8. ~ isSmartMRAM => u.nextActivate <= w.nextActivate + 1
        <5>1. ~ isSmartMRAM => v.nextActivate <= m.nextActivate
          BY <4>3, <4>5, Zenon DEF AgreesNow, Agrees
        <5>2. CASE own /\ auto
          BY <4>4, <4>5, <4>6, <4>7, <5>1, <5>2 DEF Later, ColumnBooked, ColumnReceived
        <5>3. CASE ~ (own /\ auto)
          BY <4>4, <4>5, <4>6, <5>1, <5>3 DEF ColumnBooked, ColumnReceived
        <5> QED BY <5>2, <5>3, Zenon
      <4>9. CASE own /\ auto
        <5>1. Closing(w) /\ w.state = "RowActive" /\ ~ Open(w)
          BY <4>2, <4>9, Zenon DEF Open, Closing, ColumnBooked
        <5>2. /\ w.countdown = PreDelay(p) /\ n.nextRead = n.nextActivate
              /\ n.nextWrite = n.nextActivate
              /\ n.nextActivate = Later(AutoPreDelay(p), m.nextActivate)
          BY <4>2, <4>9, Zenon DEF ColumnBooked
        <5>3. n.nextActivate >= AutoPreDelay(p)
          BY <4>5, <4>7, <5>2 DEF Later
        <5>4. u.state = "Idle"
          BY <4>4, <4>9, Zenon DEF ColumnReceived
        <5> QED BY <4>2, <4>5, <4>6, <4>7, <4>8, <4>9, <5>1, <5>2, <5>3, <5>4 DEF Agrees
      <4>10. CASE own /\ ~ auto
        <5>1. Open(w) /\ w.row = m.row /\ w.state = "RowActive"
              /\ w.lastCommand \notin {"PRECHARGE", "REFRESH"} /\ ~ Closing(w)
          BY <4>2, <4>10, Zenon DEF Open, Closing, ColumnBooked, Columns, Reads, Writes
        <5>2. /\ v.nextRead <= m.nextRead /\ v.nextWrite <= m.nextWrite
              /\ v.nextPrecharge <= m.nextPrecharge
              /\ t.state = "RowActive" /\ t.row = m.row
          BY <4>3, <4>5, <4>10, Zenon DEF AgreesNow, Agrees
        <5>3. /\ u.nextRead <= n.nextRead /\ u.nextWrite <= n.nextWrite
              /\ u.nextPrecharge <= n.nextPrecharge
          <6>1. /\ u.nextRead \in {v.nextRead, ReadDelay(p)}
                /\ u.nextWrite \in {v.nextWrite, WriteDelay(p)}
                /\ u.nextPrecharge \in {v.nextPrecharge, PreDelay(p)}
            BY <4>4, <4>5, <4>7, <4>10, LaterElapsed, Zenon DEF ColumnReceived
          <6>2. /\ n.nextRead >= m.nextRead /\ n.nextWrite >= m.nextWrite
                /\ n.nextRead >= ReadDelay(p) /\ n.nextWrite >= WriteDelay(p)
                /\ n.nextPrecharge >= PreDelay(p) /\ n.nextPrecharge >= m.nextPrecharge
            BY <4>5, <4>7, <4>10 DEF Later, ColumnBooked
          <6> QED BY <4>5, <4>7, <5>2, <6>1, <6>2
        <5>4. u.state = "RowActive" /\ u.row = w.row
          BY <4>3, <4>4, <4>10, <5>1, <5>2, Zenon DEF ColumnReceived
        <5> QED BY <4>5, <4>6, <4>8, <5>1, <5>3, <5>4 DEF Agrees
      <4>11. CASE ~ own
        <5>1. /\ w.state = m.state /\ w.row = m.row /\ w.lastCommand = m.lastCommand
              /\ w.countdown = m.countdown /\ u.state = t.state /\ u.row = t.row
              /\ n.nextPowerUp = m.nextPowerUp /\ u.nextPowerUp = v.nextPowerUp
              /\ n.nextPrecharge = m.nextPrecharge /\ u.nextPrecharge = v.nextPrecharge
          BY <4>2, <4>3, <4>4, <4>11, Zenon DEF ColumnBooked, ColumnReceived
        <5>2. /\ n.nextRead >= m.nextRead /\ n.nextWrite >= m.nextWrite
              /\ n.nextRead >= ReadDelay(p) /\ n.nextWrite >= WriteDelay(p)
              /\ u.nextRead \in {v.nextRead, ReadDelay(p)}
              /\ u.nextWrite \in {v.nextWrite, WriteDelay(p)}
          BY <4>4, <4>5, <4>7, <4>11, LaterElapsed, Zenon DEF ColumnBooked, ColumnReceived
        <5>3. (Open(m) <=> Open(w)) /\ (Closing(m) <=> Closing(w))
          BY <5>1, Zenon DEF Open, Closing
        <5>4. m.state = "PowerDown" => t.nextPowerUp = m.nextPowerUp
          BY Zenon DEF AgreesNow, Agrees
        <5>5. CASE Open(m)
          <6>1. /\ v.nextRead <= m.nextRead /\ v.nextWrite <= m.nextWrite
                /\ v.nextPrecharge <= m.nextPrecharge
            BY <4>3, <4>5, <5>5, Zenon DEF AgreesNow, Agrees
          <6>2. /\ m.lastCommand \notin {"PRECHARGE", "REFRESH"}
                /\ t.state = "RowActive" /\ t.row = m.row /\ m.state = "RowActive"
            BY <5>5, Zenon DEF AgreesNow, Agrees, Open
          <6>3. ~ Closing(w)
            BY <5>3, <5>5, Zenon DEF Open
          <6> QED BY <4>5, <4>6, <4>7, <4>8, <5>1, <5>2, <5>3, <5>5, <6>1, <6>2, <6>3 DEF Agrees
        <5>6. CASE ~ Open(m)
          BY <4>2, <4>3, <4>5, <4>6, <4>7, <4>8, <5>1, <5>2, <5>3, <5>4, <5>6
          DEF Agrees, AgreesNow
        <5> QED BY <5>5, <5>6, Zenon
      <4> QED BY <4>9, <4>10, <4>11, Zenon

    <3>SteppedMine.
        ASSUME NEW n \in BankStates, NEW w, w = BankStep(n)
        PROVE  /\ w \in BankStates /\ w.state = n.state /\ w.row = n.row
               /\ w.lastCommand = n.lastCommand /\ w.countdown = n.countdown
               /\ w.nextPowerUp = Elapsed(n.nextPowerUp)
               /\ w.nextRead \in Nat /\ w.nextWrite \in Nat /\ w.nextActivate \in Nat
               /\ w.nextPrecharge \in Nat
               /\ n.nextRead <= w.nextRead + 1 /\ n.nextWrite <= w.nextWrite + 1
               /\ n.nextActivate <= w.nextActivate + 1
               /\ n.nextPrecharge <= w.nextPrecharge + 1
      <4> USE <3>SteppedMine
      <4>1. /\ w \in BankStates /\ w.state = n.state /\ w.row = n.row
            /\ w.lastCommand = n.lastCommand /\ w.countdown = n.countdown
            /\ w.nextPowerUp = Elapsed(n.nextPowerUp)
            /\ w.nextRead = Elapsed(n.nextRead) /\ w.nextWrite = Elapsed(n.nextWrite)
            /\ w.nextActivate = Elapsed(n.nextActivate)
            /\ w.nextPrecharge = Elapsed(n.nextPrecharge)
        BY BankStepShape, Zenon
      <4>2. /\ n.nextRead \in Nat /\ n.nextWrite \in Nat /\ n.nextActivate \in Nat
            /\ n.nextPrecharge \in Nat
        BY BankFields
      <4> QED BY <4>1, <4>2 DEF Elapsed

    \* The same for ACTIVATE, which opens its bank.
    <3>ActivateAgrees.
        ASSUME NEW p \in Packets, NEW own \in BOOLEAN,
               NEW m \in BankStates, NEW t \in BankStates, AgreesNow(m, t),
               NEW n, ActivateBooked(p, m, n, own, TRUE),
               NEW u, ActivateReceived(p, BankStep(t), u, own)
        PROVE  Agrees(BankStep(n), u)
      <4> USE <3>ActivateAgrees
      <4> DEFINE v == BankStep(t)
                 w == BankStep(n)
      <4>1. n \in BankStates /\ u \in BankStates
        BY Zenon DEF ActivateBooked, ActivateReceived
      <4>2. /\ w \in BankStates /\ w.state = n.state /\ w.row = n.row
            /\ w.lastCommand = n.lastCommand /\ w.countdown = n.countdown
            /\ w.nextPowerUp = Elapsed(n.nextPowerUp)
            /\ w.nextRead \in Nat /\ w.nextWrite \in Nat /\ w.nextActivate \in Nat
            /\ w.nextPrecharge \in Nat
            /\ n.nextRead <= w.nextRead + 1 /\ n.nextWrite <= w.nextWrite + 1
            /\ n.nextActivate <= w.nextActivate + 1
            /\ n.nextPrecharge <= w.nextPrecharge + 1
        BY <4>1, <3>SteppedMine, Zenon
      <4>3. /\ v \in BankStates /\ v.state = t.state /\ v.row = t.row
            /\ v.nextPowerUp = Elapsed(t.nextPowerUp)
            /\ \A k \in Nat :
                  /\ t.nextRead <= k + 1 => v.nextRead <= k
                  /\ t.nextWrite <= k + 1 => v.nextWrite <= k
                  /\ t.nextActivate <= k + 1 => v.nextActivate <= k
                  /\ t.nextPrecharge <= k + 1 => v.nextPrecharge <= k
        BY <3>SteppedFields, Zenon
      <4>4. ActivateReceived(p, v, u, own)
        BY Zenon
      <4> SUFFICES Agrees(w, u)
        BY Zenon
      <4> HIDE DEF v, w
      <4>5. /\ m.nextRead \in Nat /\ m.nextWrite \in Nat /\ m.nextActivate \in Nat
            /\ m.nextPrecharge \in Nat /\ m.countdown \in Nat
            /\ n.nextRead \in Nat /\ n.nextWrite \in Nat /\ n.nextActivate \in Nat
            /\ n.nextPrecharge \in Nat
            /\ v.nextRead \in Nat /\ v.nextWrite \in Nat /\ v.nextActivate \in Nat
            /\ v.nextPrecharge \in Nat
            /\ tRRD \in Nat /\ tRC \in Nat /\ tRAS \in Nat /\ tRCD - AL \in Nat
        BY <4>1, <4>2, <4>3, BankFields, TimingNat, DelaysNat, Zenon
      <4>6. ~ isSmartMRAM => v.nextActivate <= m.nextActivate
        BY <4>3, <4>5, Zenon DEF AgreesNow, Agrees
      <4>7. CASE own
        <5>1. /\ Open(w) /\ ~ Closing(w) /\ w.state = "RowActive" /\ w.row = p.addr.row
              /\ w.lastCommand = "ACTIVATE"
          BY <4>2, <4>7, Zenon DEF ActivateBooked, Open, Closing
        <5>2. CASE isSmartMRAM
          <6>1. /\ u.state = "RowActive" /\ u.row = p.addr.row /\ u.nextActivate = tRRD
                /\ u.nextPrecharge = 0 /\ u.nextRead = 0 /\ u.nextWrite = 0
            BY <4>4, <4>7, <5>2, Zenon DEF ActivateReceived
          <6>2. n.nextActivate >= tRRD
            BY <4>7, <5>2, Zenon DEF ActivateBooked
          <6> QED BY <4>2, <4>5, <5>1, <6>1, <6>2 DEF Agrees
        <5>3. CASE ~ isSmartMRAM
          <6>1. /\ u.state = "RowActive" /\ u.row = p.addr.row /\ u.nextActivate = tRC
                /\ u.nextPrecharge = tRAS /\ u.nextRead = tRCD - AL
                /\ u.nextWrite = tRCD - AL
            BY <4>4, <4>7, <5>3, Zenon DEF ActivateReceived
          <6>2. /\ n.nextActivate >= tRC /\ n.nextPrecharge >= tRAS
                /\ n.nextRead >= tRCD - AL /\ n.nextWrite >= tRCD - AL
            BY <4>7, <5>3, Zenon DEF ActivateBooked
          <6> QED BY <4>2, <4>5, <5>1, <6>1, <6>2 DEF Agrees
        <5> QED BY <5>2, <5>3, Zenon
      <4>8. CASE ~ own
        <5>1. /\ w.state = m.state /\ w.row = m.row /\ w.lastCommand = m.lastCommand
              /\ w.countdown = m.countdown /\ n.nextRead = m.nextRead
              /\ n.nextWrite = m.nextWrite /\ n.nextPrecharge = m.nextPrecharge
              /\ n.nextPowerUp = m.nextPowerUp
              /\ n.nextActivate >= tRRD /\ n.nextActivate >= m.nextActivate
          BY <4>2, <4>8, Zenon DEF ActivateBooked
        <5>2. /\ u.state = t.state /\ u.row = t.row /\ u.nextRead = v.nextRead
              /\ u.nextWrite = v.nextWrite /\ u.nextPrecharge = v.nextPrecharge
              /\ u.nextPowerUp = v.nextPowerUp /\ u.nextActivate \in {v.nextActivate, tRRD}
          BY <4>3, <4>4, <4>8, Zenon DEF ActivateReceived, Later
        <5>3. ~ isSmartMRAM => u.nextActivate <= w.nextActivate + 1
          BY <4>2, <4>5, <4>6, <5>1, <5>2
        <5>4. (Open(m) <=> Open(w)) /\ (Closing(m) <=> Closing(w))
          BY <5>1, Zenon DEF Open, Closing
        <5>5. CASE Open(m)
          <6>1. /\ v.nextRead <= m.nextRead /\ v.nextWrite <= m.nextWrite
                /\ v.nextPrecharge <= m.nextPrecharge
                /\ m.lastCommand \notin {"PRECHARGE", "REFRESH"}
                /\ t.state = "RowActive" /\ t.row = m.row
            BY <4>3, <4>5, <5>5, Zenon DEF AgreesNow, Agrees
          <6>2. ~ Closing(w) /\ w.state = "RowActive"
            BY <5>1, <5>4, <5>5, Zenon DEF Open
          <6>3. /\ u.nextRead <= w.nextRead + 1 /\ u.nextWrite <= w.nextWrite + 1
                /\ u.nextPrecharge <= w.nextPrecharge + 1
            BY <4>2, <4>5, <5>1, <5>2, <6>1
          <6> QED BY <5>1, <5>2, <5>3, <5>4, <5>5, <6>1, <6>2, <6>3, Zenon DEF Agrees
        <5>6. CASE ~ Open(m)
          BY <4>2, <4>3, <4>5, <5>1, <5>2, <5>3, <5>4, <5>6 DEF Agrees, AgreesNow
        <5> QED BY <5>5, <5>6, Zenon
      <4> QED BY <4>7, <4>8, Zenon

    \* The same for PRECHARGE, which closes its bank.
    <3>PrechargeAgrees.
        ASSUME NEW m \in BankStates, NEW t \in BankStates, AgreesNow(m, t),
               NEW n, PrechargeBooked(m, n),
               NEW u, PrechargeReceived(BankStep(t), u)
        PROVE  Agrees(BankStep(n), u)
      <4> USE <3>PrechargeAgrees
      <4> DEFINE v == BankStep(t)
                 w == BankStep(n)
      <4>1. n \in BankStates /\ u \in BankStates
        BY Zenon DEF PrechargeBooked, PrechargeReceived
      <4>2. /\ w.state = n.state /\ w.lastCommand = n.lastCommand
            /\ w.countdown = n.countdown /\ w.nextActivate \in Nat
            /\ n.nextActivate <= w.nextActivate + 1
        BY <4>1, <3>SteppedMine, Zenon
      <4>3. v \in BankStates /\ \A k \in Nat : t.nextActivate <= k + 1 => v.nextActivate <= k
        BY <3>SteppedFields, Zenon
      <4>4. PrechargeReceived(v, u)
        BY Zenon
      <4> SUFFICES Agrees(w, u)
        BY Zenon
      <4> HIDE DEF v, w
      <4>5. m.nextActivate \in Nat /\ n.nextActivate \in Nat /\ v.nextActivate \in Nat
            /\ tRP \in Nat
        BY <4>1, <4>3, BankFields, TimingNat, Zenon
      <4>6. ~ isSmartMRAM => v.nextActivate <= m.nextActivate
        BY <4>3, <4>5, Zenon DEF AgreesNow, Agrees
      <4>7. ~ isSmartMRAM => u.nextActivate <= w.nextActivate + 1
        BY <4>2, <4>4, <4>5, <4>6 DEF PrechargeBooked, PrechargeReceived, Later
      <4>8. w.state \in {"Idle", "Precharging"} /\ (w.state = "Idle" => w.countdown = 0)
        BY <4>2, Zenon DEF PrechargeBooked
      <4>9. u.state = "Idle"
        BY <4>4, Zenon DEF PrechargeReceived
      <4> QED BY <4>7, <4>8, <4>9, Zenon DEF Agrees, Open, Closing

    \* The same for REFRESH, which goes to every bank of the rank.
    <3>RefreshAgrees.
        ASSUME NEW m \in BankStates, NEW t \in BankStates, t.state = "Idle",
               NEW n, RefreshBooked(m, n),
               NEW u, u = RefreshBank(BankStep(t))
        PROVE  Agrees(BankStep(n), u)
      <4> USE <3>RefreshAgrees
      <4> DEFINE v == BankStep(t)
                 w == BankStep(n)
      <4>1. n \in BankStates
        BY Zenon DEF RefreshBooked
      <4>2. /\ w.state = n.state /\ w.nextActivate \in Nat
            /\ n.nextActivate <= w.nextActivate + 1
        BY <4>1, <3>SteppedMine, Zenon
      <4>3. v \in BankStates /\ v.state = "Idle"
        BY <3>SteppedFields, Zenon
      <4>4. u.state = "Idle" /\ u.nextActivate = tRFC
        BY <4>3, RankBankShapes, Zenon
      <4> SUFFICES Agrees(w, u)
        BY Zenon
      <4> HIDE DEF v, w
      <4> QED BY <4>2, <4>4, Zenon DEF RefreshBooked, Agrees, Open, Closing

    <3> SUFFICES ASSUME NEW bs \in Tables, NEW p \in Packets, NEW rk, NEW n,
                        Legal(bs, p), RowAgrees(bs[p.addr.rank], rk),
                        n = receiveFromBus(RankStep(rk), p)
                 PROVE  /\ ~ n.error
                        /\ \A b \in Banks :
                              Agrees(BankStep(OnCommand(bs, p)[p.addr.rank][b]), n.banks[b])
      BY Zenon
    <3> DEFINE r == p.addr.rank
               bank == p.addr.bank
               row == bs[r]
               s == RankStep(rk)
               bt == OnCommand(bs, p)
    <3>1. r \in Ranks /\ bank \in Banks /\ 0 \in Banks
      BY GeometryAssumption DEF Packets, Addresses, Banks
    <3>2. /\ row \in [Banks -> BankStates] /\ IsRank(rk) /\ ~ rk.error
          /\ \A b \in Banks : /\ row[b] \in BankStates /\ rk.banks[b] \in BankStates
                              /\ AgreesNow(row[b], rk.banks[b])
          /\ \A b, c \in Banks : row[b].state = "PowerDown" => row[c].state = "PowerDown"
      BY Zenon DEF RowAgrees, IsRank
    <3>3. /\ IsRank(s) /\ ~ s.error
          /\ \A b \in Banks : s.banks[b] = BankStep(rk.banks[b])
      BY <3>2, <1>RankStepShape, Zenon
    <3>4. n = receiveFromBus(s, p)
      BY Zenon
    <3> HIDE DEF s, bt
    <3>5. CASE p.type \in Columns
      <4>1. /\ row[bank].state = "RowActive" /\ row[bank].row = p.addr.row
            /\ (IF p.type \in Reads THEN row[bank].nextRead ELSE row[bank].nextWrite) = 0
            /\ p.type \in {"READ_P", "WRITE_P"} => ClosePage
        BY <3>5, ZenonT(40) DEF Legal
      <4>2. Open(row[bank])
        <5>1. row[bank].nextRead \in Nat /\ row[bank].nextWrite \in Nat
              /\ row[bank].countdown \in Nat
          BY <3>1, <3>2, BankFields, Zenon
        <5>2. AgreesNow(row[bank], rk.banks[bank])
          BY <3>1, <3>2, Zenon
        <5> QED BY ONLY <4>1, <5>1, <5>2, SMT DEF Open, AgreesNow
      <4>3. ColumnAllowed(s, p)
        <5>1. AgreesNow(row[bank], rk.banks[bank]) /\ rk.banks[bank] \in BankStates
              /\ s.banks[bank] = BankStep(rk.banks[bank])
          BY <3>1, <3>2, <3>3, Zenon
        <5>2. /\ s.banks[bank].state = rk.banks[bank].state
              /\ s.banks[bank].row = rk.banks[bank].row
              /\ rk.banks[bank].nextRead <= 0 + 1 => s.banks[bank].nextRead <= 0
              /\ rk.banks[bank].nextWrite <= 0 + 1 => s.banks[bank].nextWrite <= 0
              /\ s.banks[bank].nextRead \in Nat /\ s.banks[bank].nextWrite \in Nat
          BY <5>1, <3>SteppedFields, BankFields
        <5>3. /\ p.type \in Reads => rk.banks[bank].nextRead <= 0 + 1
              /\ p.type \notin Reads => rk.banks[bank].nextWrite <= 0 + 1
              /\ rk.banks[bank].state = "RowActive" /\ rk.banks[bank].row = p.addr.row
          BY <4>1, <4>2, <5>1, Zenon DEF AgreesNow, Agrees
        <5>4. /\ s.banks[bank].state = "RowActive" /\ s.banks[bank].row = p.addr.row
              /\ p.type \in Reads => s.banks[bank].nextRead = 0
              /\ p.type \notin Reads => s.banks[bank].nextWrite = 0
          BY <5>2, <5>3
        <5> QED BY <5>4, Zenon DEF ColumnAllowed
      <4>4. n = ReceiveColumn(s, p)
        BY <3>4, <3>5, <4>3, ReceiveCases, Zenon
      <4>5. /\ n.error = s.error
            /\ \A b \in Banks : ColumnReceived(p, s.banks[b], n.banks[b], b = bank)
        <5>1. /\ ReceiveColumn(s, p).error = s.error
              /\ \A b \in Banks :
                    ColumnReceived(p, s.banks[b], ReceiveColumn(s, p).banks[b], b = p.addr.bank)
          BY <3>3, <3>5, ColumnReceivedShape, Zenon
        <5> QED BY <4>4, <5>1, Zenon DEF bank
      <4>6. \A b \in Banks : ColumnBooked(p, row[b], bt[r][b], b = bank, TRUE)
        BY <3>1, <3>5, OnColumnShape, Zenon DEF bt
      <4>7. ASSUME NEW b \in Banks
            PROVE  Agrees(BankStep(bt[r][b]), n.banks[b])
        <5>1. /\ row[b] \in BankStates /\ rk.banks[b] \in BankStates
              /\ AgreesNow(row[b], rk.banks[b])
              /\ ColumnBooked(p, row[b], bt[r][b], b = bank, TRUE)
              /\ ColumnReceived(p, BankStep(rk.banks[b]), n.banks[b], b = bank)
          BY <3>2, <3>3, <4>5, <4>6, Zenon
        <5>2. /\ b = bank => Open(row[b])
              /\ b = bank /\ p.type \in {"READ_P", "WRITE_P"} => ClosePage
              /\ (b = bank) \in BOOLEAN
          BY <4>1, <4>2, Zenon
        <5> HIDE DEF row, bank, r
        <5> QED BY <3>5, <5>1, <5>2, <3>ColumnAgrees, Zenon
      <4> QED BY <3>3, <4>5, <4>7, Zenon DEF bt
    <3>6. CASE p.type = "ACTIVATE"
      <4>1. row[bank].state \in {"Idle", "Refreshing"} /\ row[bank].nextActivate = 0
        BY <3>6, Zenon DEF Legal
      <4>2. ActivateAllowed(s, p)
        <5>1. AgreesNow(row[bank], rk.banks[bank]) /\ rk.banks[bank] \in BankStates
              /\ s.banks[bank] = BankStep(rk.banks[bank])
          BY <3>1, <3>2, <3>3
        <5>2. /\ s.banks[bank].state = rk.banks[bank].state
              /\ rk.banks[bank].nextActivate <= 0 + 1 => s.banks[bank].nextActivate <= 0
              /\ s.banks[bank].nextActivate \in Nat
          BY <5>1, <3>SteppedFields, BankFields
        <5>3. /\ ~ isSmartMRAM => rk.banks[bank].nextActivate <= 0 + 1
              /\ rk.banks[bank].state = "Idle"
          BY <4>1, <5>1, Zenon DEF AgreesNow, Agrees, Open
        <5>4. /\ s.banks[bank].state = "Idle"
              /\ ~ isSmartMRAM => s.banks[bank].nextActivate = 0
          BY <5>2, <5>3
        <5> QED BY <5>4, Zenon DEF ActivateAllowed
      <4>3. n = ReceiveActivate(s, p)
        BY <3>4, <3>6, <4>2, ReceiveCases, Zenon
      <4>4. /\ n.error = s.error
            /\ \A b \in Banks : ActivateReceived(p, s.banks[b], n.banks[b], b = bank)
        BY <3>3, <4>3, ActivateReceivedShape
      <4>5. \A b \in Banks : ActivateBooked(p, row[b], bt[r][b], b = bank, TRUE)
        BY <3>1, <3>6, OnActivateShape, Zenon DEF bt
      <4>6. ASSUME NEW b \in Banks
            PROVE  Agrees(BankStep(bt[r][b]), n.banks[b])
        <5>1. /\ row[b] \in BankStates /\ rk.banks[b] \in BankStates
              /\ AgreesNow(row[b], rk.banks[b]) /\ (b = bank) \in BOOLEAN
              /\ ActivateBooked(p, row[b], bt[r][b], b = bank, TRUE)
              /\ ActivateReceived(p, BankStep(rk.banks[b]), n.banks[b], b = bank)
          BY <3>2, <3>3, <4>4, <4>5, Zenon
        <5> HIDE DEF row, bank, r
        <5> QED BY <5>1, <3>ActivateAgrees, Zenon
      <4> QED BY <3>3, <4>4, <4>6 DEF bt
    <3>7. CASE p.type = "PRECHARGE"
      <4>1. row[bank].state = "RowActive" /\ row[bank].nextPrecharge = 0 /\ ~ ClosePage
        BY <3>7, Zenon DEF Legal
      <4>2. PrechargeAllowed(s, p) /\ ~ PrechargeIgnored(s, p)
        <5>1. AgreesNow(row[bank], rk.banks[bank]) /\ rk.banks[bank] \in BankStates
              /\ s.banks[bank] = BankStep(rk.banks[bank])
          BY <3>1, <3>2, <3>3
        <5>2. /\ s.banks[bank].state = rk.banks[bank].state
              /\ rk.banks[bank].nextPrecharge <= 0 + 1 => s.banks[bank].nextPrecharge <= 0
              /\ s.banks[bank].nextPrecharge \in Nat
          BY <5>1, <3>SteppedFields, BankFields
        <5>3. /\ rk.banks[bank].nextPrecharge <= 0 + 1
              /\ rk.banks[bank].state = "RowActive"
          BY <4>1, <5>1, Zenon DEF AgreesNow, Agrees, Open, Closing
        <5>4. s.banks[bank].state = "RowActive" /\ s.banks[bank].nextPrecharge = 0
          BY <5>2, <5>3
        <5> QED BY <5>4, Zenon DEF PrechargeAllowed, PrechargeIgnored
      <4>3. n = ReceivePrecharge(s, p)
        BY <3>4, <3>7, <4>2, ReceiveCases, Zenon
      <4>4. /\ n.error = s.error
            /\ \A b \in Banks : IF b = bank THEN PrechargeReceived(s.banks[b], n.banks[b])
                                ELSE n.banks[b] = s.banks[b]
        BY <3>3, <4>3, PrechargeReceivedShape
      <4>5. \A b \in Banks : IF b = bank THEN PrechargeBooked(row[b], bt[r][b])
                             ELSE bt[r][b] = row[b]
        BY <3>1, <3>7, OnPrechargeShape DEF bt
      <4>6. ASSUME NEW b \in Banks
            PROVE  Agrees(BankStep(bt[r][b]), n.banks[b])
        <5>1. /\ row[b] \in BankStates /\ rk.banks[b] \in BankStates
              /\ AgreesNow(row[b], rk.banks[b]) /\ s.banks[b] = BankStep(rk.banks[b])
          BY <3>2, <3>3, Zenon
        <5>2. CASE b = bank
          BY <4>4, <4>5, <5>1, <5>2, <3>PrechargeAgrees, Zenon
        <5>3. CASE b # bank
          BY <4>4, <4>5, <5>1, <5>3, <1>StepAgrees
        <5> QED BY <5>2, <5>3, Zenon
      <4> QED BY <3>3, <4>4, <4>6, Zenon DEF bt
    <3>8. CASE p.type = "REFRESH"
      <4>1. /\ \A b \in Banks : row[b].state # "RowActive" /\ row[b].nextActivate = 0
            /\ row[0].state # "PowerDown"
        BY <3>8, Zenon DEF Legal
      <4>2. \A b \in Banks : rk.banks[b].state = "Idle"
        BY <3>1, <3>2, <4>1, Zenon DEF AgreesNow, Agrees, Open
      <4>3. \A b \in Banks : s.banks[b].state = "Idle"
        BY <3>2, <3>3, <4>2, BankStepShape
      <4>4. n = ReceiveRefresh(s)
        BY <3>4, <3>8, <4>3, ReceiveCases, Zenon
      <4>5. n.error = s.error /\ \A b \in Banks : n.banks[b] = RefreshBank(s.banks[b])
        BY <3>3, <4>4, RefreshReceivedShape, Zenon
      <4>6. \A b \in Banks : RefreshBooked(row[b], bt[r][b])
        BY <3>1, <3>8, OnRefreshShape, Zenon DEF bt
      <4>7. \A b \in Banks : Agrees(BankStep(bt[r][b]), n.banks[b])
        BY <3>2, <3>3, <4>2, <4>5, <4>6, <3>RefreshAgrees, Zenon
      <4> QED BY <3>3, <4>5, <4>7, Zenon DEF bt
    <3> QED BY <3>5, <3>6, <3>7, <3>8, Zenon DEF Packets, Commands

  \* The end of a cycle for a rank that no command is sent to.
  <2>QuietRank.
      ASSUME NEW row, NEW rk, RowAgrees(row, rk), NEW n, n = RankStep(rk)
      PROVE  /\ IsRank(n) /\ ~ n.error /\ n.isPowerDown = rk.isPowerDown
             /\ \A b \in Banks : Agrees(BankStep(row[b]), n.banks[b])
    <3> USE <2>QuietRank
    <3>1. \A b \in Banks : /\ row[b] \in BankStates /\ rk.banks[b] \in BankStates
                           /\ AgreesNow(row[b], rk.banks[b])
      BY Zenon DEF RowAgrees, IsRank
    <3>2. /\ IsRank(n) /\ n.error = rk.error /\ n.isPowerDown = rk.isPowerDown
          /\ \A b \in Banks : n.banks[b] = BankStep(rk.banks[b])
      BY <1>RankStepShape, Zenon DEF RowAgrees
    <3> QED BY <3>1, <3>2, <1>StepAgrees, Zenon DEF RowAgrees

  <2> SUFFICES ASSUME NEW bs \in Tables, NEW p, NEW r \in Ranks, NEW rk, NEW pd,
                      NEW row, NEW k, NEW n, Issued(bs, p),
                      RankBefore(bs[r], rk, pd),
                      row = [b \in Banks |-> BankStep(OnCommand(bs, p)[r][b])],
                      k = RankStep(rk),
                      n = IF For(p, r) THEN receiveFromBus(k, p) ELSE k
               PROVE  RankAfter(row, k, n, pd)
    OBVIOUS
  <2>0. PICK x : x = OnCommand(bs, p)[r]
    BY Zenon
  <2>1. /\ x \in [Banks -> BankStates]
        /\ \A b \in Banks : /\ x[b].state = "PowerDown" <=> pd
                            /\ pd => x[b].nextPowerUp = bs[r][b].nextPowerUp
        /\ For(p, r) => ~ pd
        /\ ~ For(p, r) => RowAgrees(x, rk)
    <3>1. RowBooked(bs, p, r, rk, pd, x)
      BY <2>0, NextRow, Zenon
    <3> QED BY <3>1, Zenon DEF RowBooked
  <2>2. /\ pd \in BOOLEAN /\ rk.isPowerDown = pd /\ RowAgrees(bs[r], rk)
        /\ 0 \in Banks
        /\ \A b \in Banks : /\ bs[r][b].state = "PowerDown" <=> pd
                            /\ pd => bs[r][b].nextPowerUp = bs[r][0].nextPowerUp
    BY GeometryAssumption DEF RankBefore, Banks
  <2>3. /\ IsRank(k) /\ ~ k.error /\ k.isPowerDown = pd
        /\ \A b \in Banks : k.banks[b] = BankStep(rk.banks[b])
    <3>1. IsRank(rk) /\ ~ rk.error
      BY <2>2, Zenon DEF RowAgrees
    <3> QED BY <2>2, <3>1, <1>RankStepShape, Zenon
  <2>4. \A b \in Banks : k.banks[b].state = "PowerDown" <=> pd
    <3> TAKE b \in Banks
    <3>1. rk.banks[b] \in BankStates /\ AgreesNow(bs[r][b], rk.banks[b])
      BY <2>2, Zenon DEF RowAgrees, IsRank
    <3>2. rk.banks[b].state = "PowerDown" <=> pd
      BY <2>2, <3>1, Zenon DEF AgreesNow, Agrees, Open, Closing
    <3> QED BY <2>3, <3>1, <3>2, BankStepShape
  <2>5. \A b \in Banks : /\ row[b] = BankStep(x[b]) /\ row[b] \in BankStates
                         /\ row[b].state = "PowerDown" <=> pd
                         /\ row[b].nextPowerUp = Elapsed(x[b].nextPowerUp)
    <3> TAKE b \in Banks
    <3>1. row[b] = BankStep(x[b]) /\ x[b] \in BankStates
      BY <2>0, <2>1, Zenon
    <3> QED BY <2>1, <3>1, BankStepShape
  <2>6. row \in [Banks -> BankStates]
    BY <2>5, Zenon
  <2>7. \A b \in Banks : pd => row[b].nextPowerUp = row[0].nextPowerUp
    BY <2>1, <2>2, <2>5
  <2>8. ~ n.error /\ n.isPowerDown = pd
        /\ \A b \in Banks : Agrees(row[b], n.banks[b])
    <3>1. CASE For(p, r)
      <4>0. p \in Packets /\ Legal(bs, p)
        BY <3>1, Zenon DEF Issued, For
      <4>1. /\ ~ n.error
            /\ \A b \in Banks :
                  Agrees(BankStep(OnCommand(bs, p)[p.addr.rank][b]), n.banks[b])
        BY <2>2, <3>1, <4>0, <2>CommandAgrees, Zenon DEF For
      <4>2. Kept(p, k, n)
        BY <2>3, <3>1, <4>0, ReceiveKeeps, Zenon
      <4> QED BY <2>0, <2>3, <2>5, <3>1, <4>1, <4>2, Zenon DEF Kept, For
    <3>2. CASE ~ For(p, r)
      <4>1. n = k /\ RowAgrees(x, rk)
        BY <2>1, <3>2, Zenon
      <4>2. \A b \in Banks : Agrees(BankStep(x[b]), k.banks[b])
        BY <4>1, <2>QuietRank, Zenon
      <4> QED BY <2>3, <2>5, <4>1, <4>2, Zenon
    <3> QED BY <3>1, <3>2, Zenon
  <2> QED BY <2>3, <2>4, <2>5, <2>6, <2>7, <2>8, Zenon DEF RankAfter

\* A rank with all banks idle is powered down, perhaps with a PRECHARGE on
\* its way to it.
<1>RankDowned.
    ASSUME NEW bs \in Tables, NEW p, Issued(bs, p),
           NEW r \in Ranks, NEW rk, NEW pd, RankBefore(bs[r], rk, pd),
           \A b \in Banks : OnCommand(bs, p)[r][b].state = "Idle",
           NEW row, row = [b \in Banks |-> BankStep(BankPowerDown(OnCommand(bs, p)[r][b]))],
           NEW k, k = RankStep(RankPowerDown(rk)),
           NEW n, n = IF For(p, r) THEN receiveFromBus(k, p) ELSE k
    PROVE  RankAfter(row, k, n, TRUE)
  <2> USE <1>RankDowned
  <2>0. PICK x : x = OnCommand(bs, p)[r]
    BY Zenon
  <2>1. /\ x \in [Banks -> BankStates]
        /\ ~ For(p, r) => RowAgrees(x, rk)
    <3>1. RowBooked(bs, p, r, rk, pd, x)
      BY <2>0, NextRow, Zenon
    <3> QED BY <3>1, Zenon DEF RowBooked
  <2>2. RowAgrees(bs[r], rk) /\ 0 \in Banks
    BY GeometryAssumption DEF RankBefore, Banks
  <2>3. \A b \in Banks : x[b].state = "Idle"
    BY <2>0, Zenon
  <2>4. /\ IsRank(k) /\ ~ k.error /\ k.isPowerDown /\ n = k
        /\ \A b \in Banks : Agrees(BankStep(BankPowerDown(x[b])), n.banks[b])
    <3>1. CASE For(p, r)
      <4>0. p \in Packets /\ Legal(bs, p)
        BY <3>1, Zenon DEF Issued, For
      <4>1. \A b \in Banks : OnCommand(bs, p)[p.addr.rank][b].state = "Idle"
        BY <3>1, Zenon DEF For
      <4>2. n = receiveFromBus(k, p) /\ RowAgrees(bs[p.addr.rank], rk)
        BY <2>2, <3>1, Zenon DEF For
      <4>3. /\ IsRank(k) /\ ~ k.error /\ k.isPowerDown /\ n = k
            /\ \A b \in Banks :
                  Agrees(BankStep(BankPowerDown(OnCommand(bs, p)[p.addr.rank][b])),
                         n.banks[b])
        <5>1. SentToSleep(bs, p, k, n)
          BY <4>0, <4>1, <4>2, <1>PrechargeFindsAsleep, Zenon
        <5> QED BY <5>1, Zenon DEF SentToSleep
      <4> QED BY <2>0, <3>1, <4>3, Zenon DEF For
    <3>2. CASE ~ For(p, r)
      <4>1. n = k /\ RowAgrees(x, rk)
        BY <2>1, <3>2, Zenon
      <4> QED BY <2>3, <4>1, <1>RankGoesDown, Zenon
    <3> QED BY <3>1, <3>2, Zenon
  <2>5. \A b \in Banks : /\ row[b] = BankStep(BankPowerDown(x[b])) /\ row[b] \in BankStates
                         /\ row[b].state = "PowerDown"
                         /\ row[b].nextPowerUp = Elapsed(tCKE)
    <3> TAKE b \in Banks
    <3>1. row[b] = BankStep(BankPowerDown(x[b])) /\ x[b] \in BankStates
      BY <2>0, <2>1, Zenon
    <3>2. PICK y \in BankStates : /\ y = BankPowerDown(x[b]) /\ y.state = "PowerDown"
                                  /\ y.nextPowerUp = tCKE
      BY <3>1, PowerShape, Zenon
    <3> QED BY <3>1, <3>2, BankStepShape
  <2>6. row \in [Banks -> BankStates]
    BY <2>5, Zenon
  <2>7. \A b \in Banks : k.banks[b].state = "PowerDown"
    <3>1. \A b \in Banks : Agrees(row[b], k.banks[b])
      BY <2>4, <2>5, Zenon
    <3> QED BY <2>5, <3>1, Zenon DEF Agrees
  <2>8. k.isPowerDown = TRUE
    BY <2>4, Zenon DEF IsRank
  <2> QED BY <2>2, <2>4, <2>5, <2>6, <2>7, <2>8, Zenon DEF RankAfter

\* A rank is powered up again.
<1>RankUpped.
    ASSUME NEW bs \in Tables, NEW p, Issued(bs, p),
           NEW r \in Ranks, NEW rk, NEW pd, RankBefore(bs[r], rk, pd), pd,
           OnCommand(bs, p)[r][0].nextPowerUp = 0,
           NEW row, row = [b \in Banks |-> BankStep(BankPowerUp(OnCommand(bs, p)[r][b]))],
           NEW k, k = RankStep(RankPowerUp(rk)),
           NEW n, n = IF For(p, r) THEN receiveFromBus(k, p) ELSE k
    PROVE  RankAfter(row, k, n, FALSE)
  <2> USE <1>RankUpped
  <2>0. PICK x : x = OnCommand(bs, p)[r]
    BY Zenon
  <2>1. /\ x \in [Banks -> BankStates]
        /\ \A b \in Banks : /\ x[b].state = "PowerDown" <=> pd
                            /\ pd => x[b].nextPowerUp = bs[r][b].nextPowerUp
        /\ For(p, r) => ~ pd
        /\ ~ For(p, r) => RowAgrees(x, rk)
    <3>1. RowBooked(bs, p, r, rk, pd, x)
      BY <2>0, NextRow, Zenon
    <3> QED BY <3>1, Zenon DEF RowBooked
  <2>2. /\ rk.isPowerDown /\ 0 \in Banks
        /\ \A b \in Banks : bs[r][b].nextPowerUp = bs[r][0].nextPowerUp
    BY GeometryAssumption DEF RankBefore, Banks
  <2>3. x[0].nextPowerUp = 0
    BY <2>0, Zenon
  <2>4. \A b \in Banks : x[b].state = "PowerDown" /\ x[b].nextPowerUp = 0
    BY <2>1, <2>2, <2>3, Zenon
  <2>5. n = k /\ RowAgrees(x, rk)
    BY <2>1, Zenon
  <2>6. /\ IsRank(k) /\ ~ k.error /\ ~ k.isPowerDown
        /\ \A b \in Banks : Agrees(BankStep(BankPowerUp(x[b])), k.banks[b])
    BY <2>2, <2>4, <2>5, <1>RankComesUp, Zenon
  <2>7. \A b \in Banks : /\ row[b] = BankStep(BankPowerUp(x[b])) /\ row[b] \in BankStates
                         /\ row[b].state = "Idle"
    <3> TAKE b \in Banks
    <3>1. row[b] = BankStep(BankPowerUp(x[b])) /\ x[b] \in BankStates
      BY <2>0, <2>1, Zenon
    <3>2. PICK y \in BankStates : y = BankPowerUp(x[b]) /\ y.state = "Idle"
      BY <3>1, PowerShape, Zenon
    <3> QED BY <3>1, <3>2, BankStepShape
  <2>8. row \in [Banks -> BankStates]
    BY <2>7, Zenon
  <2>9. \A b \in Banks : k.banks[b].state # "PowerDown" /\ row[b].state # "PowerDown"
    BY <2>6, <2>7, Zenon DEF Agrees, Open, Closing
  <2>10. k.isPowerDown = FALSE
    BY <2>6, Zenon DEF IsRank
  <2> QED BY <2>5, <2>6, <2>7, <2>8, <2>9, <2>10, Zenon DEF RankAfter

<1> SUFFICES ASSUME NEW bs \in Tables, NEW p, NEW r \in Ranks, NEW rk, NEW pd,
                    NEW Down, NEW Up, NEW row, NEW k, NEW q, NEW n, Issued(bs, p),
                    RankBefore(bs[r], rk, pd),
                    Cycled(OnCommand(bs, p)[r], rk, pd, r, Down, Up, row, k, q),
                    n = IF For(p, r) THEN receiveFromBus(k, p) ELSE k
             PROVE  RankAfter(row, k, n, q)
  OBVIOUS
<1>1. CASE r \in Down
  <2>1. row = [b \in Banks |-> BankStep(BankPowerDown(OnCommand(bs, p)[r][b]))]
    BY <1>1, Zenon DEF Cycled
  <2>2. k = RankStep(RankPowerDown(rk)) /\ q = TRUE
    BY <1>1, Zenon DEF Cycled
  <2>3. \A b \in Banks : OnCommand(bs, p)[r][b].state = "Idle"
    BY <1>1, Zenon DEF Cycled
  <2>4. RankAfter(row, k, n, TRUE)
    BY <2>1, <2>2, <2>3, <1>RankDowned, Zenon
  <2> QED BY <2>2, <2>4, Zenon
<1>2. CASE r \notin Down /\ r \in Up
  <2>1. row = [b \in Banks |-> BankStep(BankPowerUp(OnCommand(bs, p)[r][b]))]
    BY <1>2, Zenon DEF Cycled
  <2>2. k = RankStep(RankPowerUp(rk)) /\ q = FALSE
    BY <1>2, Zenon DEF Cycled
  <2>3. pd /\ OnCommand(bs, p)[r][0].nextPowerUp = 0
    BY <1>2, Zenon DEF Cycled
  <2>4. RankAfter(row, k, n, FALSE)
    BY <2>1, <2>2, <2>3, <1>RankUpped, Zenon
  <2> QED BY <2>2, <2>4, Zenon
<1>3. CASE r \notin Down /\ r \notin Up
  <2>1. row = [b \in Banks |-> BankStep(OnCommand(bs, p)[r][b])]
    BY <1>3, Zenon DEF Cycled
  <2>2. k = RankStep(rk)
    BY <1>3, Zenon DEF Cycled
  <2>3. q = pd
    BY <1>3, Zenon DEF Cycled, RankBefore
  <2>4. RankAfter(row, k, n, pd)
    BY <2>1, <2>2, <1>RankStays, Zenon
  <2> QED BY <2>3, <2>4, Zenon
<1> QED BY <1>1, <1>2, <1>3, Zenon

-----------------------------------------------------------------------------
(* Which rows are open *)

\* A countdown closes no row that is open to the scheduler.
LEMMA CountDownRow ==
    ASSUME NEW m \in BankStates, NEW t, Agrees(m, t)
    PROVE  OpenRow(CountDown(m)) = OpenRow(m) /\ (Open(CountDown(m)) <=> Open(m))
<1>1. PICK n : n = CountDown(m) /\ n.row = m.row /\ CountedDown(m, n)
  BY CountDownShape, Zenon
<1>2. Open(m) => m.lastCommand \notin {"PRECHARGE", "REFRESH"}
  BY Zenon DEF Agrees
<1>3. Open(n) <=> Open(m)
  BY <1>1, <1>2, Zenon DEF CountedDown, Open, Closing
<1> QED BY <1>1, <1>3, Zenon DEF OpenRow

\* A column command or a PRECHARGE goes to an open row, not to one that is
\* being closed.
LEMMA LegalOpen ==
    ASSUME NEW bs \in Tables, NEW p \in Packets, Legal(bs, p),
           p.type \in Columns \cup {"PRECHARGE"},
           NEW rk, RowAgrees(bs[p.addr.rank], rk)
    PROVE  Open(bs[p.addr.rank][p.addr.bank])
<1>1. p.addr.rank \in Ranks /\ p.addr.bank \in Banks
  BY Zenon DEF Packets, Addresses
<1>2. PICK m \in BankStates : m = bs[p.addr.rank][p.addr.bank]
  BY <1>1, Zenon DEF Tables
<1>3. /\ p.type \in Columns =>
            /\ m.state = "RowActive"
            /\ (IF p.type \in Reads THEN m.nextRead ELSE m.nextWrite) = 0
      /\ p.type = "PRECHARGE" => m.state = "RowActive" /\ ~ ClosePage
  BY <1>2, Zenon DEF Legal
<1>4. AgreesNow(m, rk.banks[p.addr.bank])
  BY <1>1, <1>2, Zenon DEF RowAgrees
<1>5. m.countdown \in Nat
  BY BankFields, Zenon
<1>6. ~ Closing(m)
  BY <1>3, <1>4, <1>5 DEF AgreesNow, Agrees
<1> QED BY <1>2, <1>3, <1>6, Zenon DEF Open

\* In a clock cycle the command opens or closes a row, and nothing else does.
NextOpen(x, p, r, b, m) ==
    OpenRow(x) = RowAfter(p, For(p, r) /\ p.addr.bank = b, OpenRow(m))

LEMMA CycleRow ==
    \A bs, p, r, rk, pd, Down, Up, row, k, q, b :
       /\ bs \in Tables /\ Issued(bs, p) /\ r \in Ranks
       /\ RankBefore(bs[r], rk, pd)
       /\ Cycled(OnCommand(bs, p)[r], rk, pd, r, Down, Up, row, k, q)
       /\ b \in Banks
       => NextOpen(row[b], p, r, b, bs[r][b])
<1>CommandRow.
    ASSUME NEW bs \in Tables, NEW p, Issued(bs, p), NEW r \in Ranks, NEW b \in Banks,
           NEW rk, RowAgrees(bs[r], rk)
    PROVE  OpenRow(OnCommand(bs, p)[r][b])
             = RowAfter(p, For(p, r) /\ p.addr.bank = b, OpenRow(bs[r][b]))
  <2> USE <1>CommandRow
  <2>1. CASE p = None
    <3>1. OnCommand(bs, p) = bs
      BY <2>1, OnCommandCases, Zenon DEF None, Commands, Columns, Reads, Writes
    <3> QED BY <2>1, <3>1, Zenon DEF RowAfter, For
  <2>2. CASE p # None
    <3>1. p \in Packets /\ Legal(bs, p) /\ p.type \in Commands
      BY <2>2, Zenon DEF Issued, Packets
    <3>2. PICK m \in BankStates : m = bs[r][b]
      BY Zenon DEF Tables
    <3>3. PICK n : n = OnCommand(bs, p)[r][b]
      BY Zenon
    <3>4. PICK own \in BOOLEAN : own = (r = p.addr.rank /\ b = p.addr.bank)
      BY Zenon
    <3>5. (For(p, r) /\ p.addr.bank = b) = own
      BY <2>2, <3>4, Zenon DEF For
    <3>6. CASE p.type \in Columns
      <4>1. ColumnBooked(p, m, n, own, r = p.addr.rank)
        BY <3>1, <3>2, <3>3, <3>4, <3>6, OnColumnShape, Zenon
      <4>2. own => Open(m)
        BY <3>1, <3>2, <3>4, <3>6, LegalOpen, Zenon
      <4>3. /\ n.state = m.state /\ n.row = m.row
            /\ n.lastCommand = IF own THEN p.type ELSE m.lastCommand
        BY <4>1, Zenon DEF ColumnBooked
      <4>4. OpenRow(n) = RowAfter(p, own, OpenRow(m))
        BY <3>6, <4>2, <4>3, Zenon DEF OpenRow, RowAfter, Open, Closing, Columns, Reads, Writes
      <4> QED BY <3>2, <3>3, <3>5, <4>4, Zenon
    <3>7. CASE p.type = "ACTIVATE"
      <4>1. ActivateBooked(p, m, n, own, r = p.addr.rank)
        BY <3>1, <3>2, <3>3, <3>4, <3>7, OnActivateShape, Zenon
      <4>2. /\ ~ own => n.state = m.state /\ n.row = m.row /\ n.lastCommand = m.lastCommand
            /\ own => /\ n.state = "RowActive" /\ n.row = p.addr.row
                      /\ n.lastCommand = "ACTIVATE"
        BY <4>1, Zenon DEF ActivateBooked
      <4>3. OpenRow(n) = RowAfter(p, own, OpenRow(m))
        BY <3>7, <4>2, Zenon DEF OpenRow, RowAfter, Open, Closing
      <4> QED BY <3>2, <3>3, <3>5, <4>3
    <3>8. CASE p.type = "PRECHARGE"
      <4>1. IF own THEN PrechargeBooked(m, n) ELSE n = m
        BY <3>1, <3>2, <3>3, <3>4, <3>8, OnPrechargeShape, ZenonT(40)
      <4>2. own => n.state \in {"Idle", "Precharging"}
        BY <4>1, Zenon DEF PrechargeBooked
      <4>3. OpenRow(n) = RowAfter(p, own, OpenRow(m))
        BY <3>8, <4>1, <4>2, Zenon DEF OpenRow, RowAfter, Open, Closing
      <4> QED BY <3>2, <3>3, <3>5, <4>3
    <3>9. CASE p.type = "REFRESH"
      <4>1. IF r = p.addr.rank THEN RefreshBooked(m, n) ELSE n = m
        BY <3>1, <3>2, <3>3, <3>9, OnRefreshShape, Zenon
      <4>2. r = p.addr.rank => m.state # "RowActive" /\ n.state = "Refreshing"
        BY <3>1, <3>2, <3>9, <4>1, Zenon DEF RefreshBooked, Legal
      <4>3. OpenRow(n) = OpenRow(m)
        BY <4>1, <4>2, Zenon DEF OpenRow, Open
      <4>4. RowAfter(p, own, OpenRow(m)) = OpenRow(m)
        BY <3>9, Zenon DEF RowAfter
      <4> QED BY <3>2, <3>3, <3>5, <4>3, <4>4, Zenon
    <3> QED BY <3>1, <3>6, <3>7, <3>8, <3>9, Zenon DEF Commands
  <2> QED BY <2>1, <2>2, Zenon

<1>StepRow.
    ASSUME NEW m \in BankStates
    PROVE  OpenRow(BankStep(m)) = OpenRow(m)
  <2> USE <1>StepRow
  <2>1. PICK n : /\ n = BankStep(m) /\ n.state = m.state /\ n.row = m.row
                 /\ n.lastCommand = m.lastCommand
    BY BankStepShape, Zenon
  <2> QED BY <2>1, Zenon DEF OpenRow, Open, Closing

<1>PowerRow.
    ASSUME NEW m \in BankStates, m.state # "RowActive"
    PROVE  /\ OpenRow(BankStep(BankPowerDown(m))) = OpenRow(m)
           /\ OpenRow(BankStep(BankPowerUp(m))) = OpenRow(m)
  <2> USE <1>PowerRow
  <2>1. /\ BankPowerDown(m) \in BankStates /\ BankPowerDown(m).state = "PowerDown"
        /\ BankPowerUp(m) \in BankStates /\ BankPowerUp(m).state = "Idle"
    BY PowerShape, Zenon
  <2>2. /\ OpenRow(BankStep(BankPowerDown(m))) = OpenRow(BankPowerDown(m))
        /\ OpenRow(BankStep(BankPowerUp(m))) = OpenRow(BankPowerUp(m))
    BY <2>1, <1>StepRow, Zenon
  <2> QED BY <2>1, <2>2, Zenon DEF OpenRow, Open

<1> SUFFICES ASSUME NEW bs \in Tables, NEW p, NEW r \in Ranks, NEW rk, NEW pd,
                    NEW Down, NEW Up, NEW row, NEW k, NEW q, NEW b \in Banks,
                    Issued(bs, p), RankBefore(bs[r], rk, pd),
                    Cycled(OnCommand(bs, p)[r], rk, pd, r, Down, Up, row, k, q)
             PROVE  NextOpen(row[b], p, r, b, bs[r][b])
  OBVIOUS
<1>1. PICK x : x = OnCommand(bs, p)[r]
  BY Zenon
<1>2. RowBooked(bs, p, r, rk, pd, x)
  BY <1>1, NextRow, Zenon
<1>3. /\ x[b] \in BankStates /\ (x[b].state = "PowerDown" <=> pd)
  BY <1>2, Zenon DEF RowBooked
<1>4. /\ row[b] = BankStep(IF r \in Down THEN BankPowerDown(x[b])
                           ELSE IF r \in Up THEN BankPowerUp(x[b]) ELSE x[b])
      /\ r \in Down => x[b].state = "Idle"
      /\ r \in Up => pd
  BY <1>1, Zenon DEF Cycled
<1>5. OpenRow(row[b]) = OpenRow(x[b])
  <2>1. CASE r \in Down
    BY <1>3, <1>4, <2>1, <1>PowerRow, Zenon
  <2>2. CASE r \notin Down /\ r \in Up
    BY <1>3, <1>4, <2>2, <1>PowerRow, Zenon
  <2>3. CASE r \notin Down /\ r \notin Up
    BY <1>3, <1>4, <2>3, <1>StepRow, Zenon
  <2> QED BY <2>1, <2>2, <2>3, Zenon
<1>6. RowAgrees(bs[r], rk)
  BY Zenon DEF RankBefore
<1>7. OpenRow(OnCommand(bs, p)[r][b])
        = RowAfter(p, For(p, r) /\ p.addr.bank = b, OpenRow(bs[r][b]))
  BY <1>6, <1>CommandRow, Zenon
<1> QED BY <1>1, <1>5, <1>7, Zenon DEF NextOpen

\* In a clock cycle a deadline comes nearer by one cycle at most, whatever is
\* issued, and the command issued sets the deadlines of the banks it delays.
LEMMA CycleDelays ==
    \A bs, p, r, rk, pd, Down, Up, row, k, q, b :
       /\ bs \in Tables /\ Issued(bs, p) /\ r \in Ranks
       /\ RankBefore(bs[r], rk, pd)
       /\ Cycled(OnCommand(bs, p)[r], rk, pd, r, Down, Up, row, k, q)
       /\ b \in Banks
       => DeadlinesKept(p, bs[r][b], row[b], For(p, r) /\ p.addr.bank = b, For(p, r))
<1> DEFINE Set(p, m, x, own, same) ==
             LET auto == p.type \in {"READ_P", "WRITE_P"}
             IN  /\ x \in BankStates
                 /\ ~ (own /\ auto) => x.nextRead >= m.nextRead /\ x.nextWrite >= m.nextWrite
                 /\ own /\ auto => /\ x.nextRead >= AutoPreDelay(p)
                                   /\ x.nextWrite >= AutoPreDelay(p)
                 /\ p.type \in Columns /\ same /\ ~ (own /\ auto) =>
                       x.nextRead >= ReadDelay(p) /\ x.nextWrite >= WriteDelay(p)
                 /\ p.type \in Columns /\ ~ same /\ m.state = "RowActive" =>
                       /\ x.nextRead >= OtherReadDelay(p)
                       /\ x.nextWrite >= OtherWriteDelay(p)
                 /\ own /\ p.type = "ACTIVATE" /\ ~ isSmartMRAM =>
                       x.nextRead >= tRCD - AL /\ x.nextWrite >= tRCD - AL
<1>CommandDelays.
    ASSUME NEW bs \in Tables, NEW p, Issued(bs, p), NEW r \in Ranks, NEW b \in Banks
    PROVE  Set(p, bs[r][b], OnCommand(bs, p)[r][b],
               For(p, r) /\ p.addr.bank = b, For(p, r))
  <2> USE <1>CommandDelays
  <2>1. PICK m \in BankStates : m = bs[r][b]
    BY Zenon DEF Tables
  <2>2. m.nextRead >= m.nextRead /\ m.nextWrite >= m.nextWrite
    <3>1. m.nextRead \in Nat /\ m.nextWrite \in Nat
      BY BankFields, Zenon
    <3> QED BY <3>1
  <2>3. CASE p = None
    <3>1. OnCommand(bs, p) = bs
      BY <2>3, OnCommandCases, Zenon DEF None, Commands, Columns, Reads, Writes
    <3>2. p.type \notin Columns /\ ~ For(p, r)
      BY <2>3, Zenon DEF For, None, Columns, Reads, Writes
    <3> QED BY <2>1, <2>2, <3>1, <3>2, Zenon
  <2>4. CASE p # None
    <3>1. p \in Packets /\ p.type \in Commands
      BY <2>4, Zenon DEF Issued, Packets
    <3>2. PICK x : x = OnCommand(bs, p)[r][b]
      BY Zenon
    <3>3. PICK own \in BOOLEAN : own = (r = p.addr.rank /\ b = p.addr.bank)
      BY Zenon
    <3>same. PICK same \in BOOLEAN : same = (r = p.addr.rank)
      BY Zenon
    <3>4. (For(p, r) /\ p.addr.bank = b) = own /\ For(p, r) = same
      BY <2>4, <3>3, <3>same, Zenon DEF For
    <3>5. CASE p.type \in Columns
      <4>1. ColumnBooked(p, m, x, own, same)
        <5>1. ColumnBooked(p, m, x, own, r = p.addr.rank)
          BY <2>1, <3>1, <3>2, <3>3, <3>5, OnColumnShape, Zenon
        <5> QED BY <3>same, <5>1, Zenon
      <4>2. own /\ p.type \in {"READ_P", "WRITE_P"} =>
               x.nextRead >= AutoPreDelay(p) /\ x.nextWrite >= AutoPreDelay(p)
        <5>1. m.nextActivate \in Nat /\ AutoPreDelay(p) \in Nat
          BY BankFields, ColumnDelays, Zenon
        <5>2. Later(AutoPreDelay(p), m.nextActivate) >= AutoPreDelay(p)
          BY <5>1, LaterElapsed, Zenon
        <5> QED BY <4>1, <5>2, Zenon DEF ColumnBooked
      <4>3. p.type # "ACTIVATE"
        BY <3>5, Zenon DEF Columns, Reads, Writes
      <4>4. Set(p, m, x, own, same)
        BY <4>1, <4>2, <4>3, Zenon DEF ColumnBooked
      <4> QED BY <2>1, <3>2, <3>4, <4>4, Zenon
    <3>6. CASE p.type = "ACTIVATE"
      <4>1. ActivateBooked(p, m, x, own, same)
        <5>1. ActivateBooked(p, m, x, own, r = p.addr.rank)
          BY <2>1, <3>1, <3>2, <3>3, <3>6, OnActivateShape, Zenon
        <5> QED BY <3>same, <5>1, Zenon
      <4>2. p.type \notin Columns /\ p.type \notin {"READ_P", "WRITE_P"}
        BY <3>6, Zenon DEF Columns, Reads, Writes
      <4>3. Set(p, m, x, own, same)
        BY <2>2, <4>1, <4>2, Zenon DEF ActivateBooked
      <4> QED BY <2>1, <3>2, <3>4, <4>3, Zenon
    <3>7. CASE p.type \in {"PRECHARGE", "REFRESH"}
      <4>1. /\ x \in BankStates /\ x.nextRead = m.nextRead /\ x.nextWrite = m.nextWrite
        <5>1. CASE p.type = "PRECHARGE"
          <6>1. IF own THEN PrechargeBooked(m, x) ELSE x = m
            BY <2>1, <3>1, <3>2, <3>3, <5>1, OnPrechargeShape, ZenonT(40)
          <6> QED BY <6>1, Zenon DEF PrechargeBooked
        <5>2. CASE p.type = "REFRESH"
          <6>1. IF r = p.addr.rank THEN RefreshBooked(m, x) ELSE x = m
            BY <2>1, <3>1, <3>2, <5>2, OnRefreshShape, Zenon
          <6> QED BY <6>1, Zenon DEF RefreshBooked
        <5> QED BY <3>7, <5>1, <5>2, Zenon
      <4>2. /\ p.type \notin Columns /\ p.type \notin {"READ_P", "WRITE_P"}
            /\ p.type # "ACTIVATE"
        BY <3>7, Zenon DEF Columns, Reads, Writes
      <4>3. Set(p, m, x, own, same)
        BY <2>2, <4>1, <4>2, Zenon
      <4> QED BY <2>1, <3>2, <3>4, <4>3, Zenon
    <3> QED BY <3>1, <3>5, <3>6, <3>7, Zenon DEF Commands
  <2> QED BY <2>3, <2>4, Zenon

<1>StepDelays.
    ASSUME NEW m \in BankStates,
           NEW n \in {BankStep(m), BankStep(BankPowerDown(m)), BankStep(BankPowerUp(m))}
    PROVE  /\ n \in BankStates
           /\ m.nextRead <= n.nextRead + 1 /\ m.nextWrite <= n.nextWrite + 1
  <2> USE <1>StepDelays
  <2>1. PICK w \in BankStates : /\ n = BankStep(w) /\ w.nextRead = m.nextRead
                                /\ w.nextWrite = m.nextWrite
    BY PowerShape, Zenon
  <2>2. /\ n \in BankStates /\ n.nextRead = Elapsed(w.nextRead)
        /\ n.nextWrite = Elapsed(w.nextWrite)
    BY <2>1, BankStepShape, Zenon
  <2>3. w.nextRead \in Nat /\ w.nextWrite \in Nat
    BY BankFields, Zenon
  <2> QED BY <2>1, <2>2, <2>3, LaterElapsed, Zenon

<1>LaterStill. \A i, j, l \in Nat : j >= i /\ j <= l + 1 => i <= l + 1
  OBVIOUS
<1> HIDE DEF Set
<1> SUFFICES ASSUME NEW bs \in Tables, NEW p, NEW r \in Ranks, NEW rk, NEW pd,
                    NEW Down, NEW Up, NEW row, NEW k, NEW q, NEW b \in Banks,
                    Issued(bs, p), RankBefore(bs[r], rk, pd),
                    Cycled(OnCommand(bs, p)[r], rk, pd, r, Down, Up, row, k, q)
             PROVE  DeadlinesKept(p, bs[r][b], row[b],
                                  For(p, r) /\ p.addr.bank = b, For(p, r))
  OBVIOUS
<1>1. PICK m \in BankStates : m = bs[r][b]
  BY Zenon DEF Tables
<1>2. PICK x : x = OnCommand(bs, p)[r][b]
  BY Zenon
<1>3. PICK own \in BOOLEAN, same \in BOOLEAN :
         own = (For(p, r) /\ p.addr.bank = b) /\ same = For(p, r)
  BY Zenon DEF For
<1>4. Set(p, m, x, own, same)
  BY <1>1, <1>2, <1>3, <1>CommandDelays, Zenon
<1>5. x \in BankStates
  BY <1>4, Zenon DEF Set
<1>6. PICK n : n = row[b]
  BY Zenon
<1>7. n \in {BankStep(x), BankStep(BankPowerDown(x)), BankStep(BankPowerUp(x))}
  BY <1>2, <1>6, Zenon DEF Cycled
<1>8. /\ n \in BankStates
      /\ x.nextRead <= n.nextRead + 1 /\ x.nextWrite <= n.nextWrite + 1
  BY <1>5, <1>7, <1>StepDelays, Zenon
<1>9. /\ {m.nextRead, m.nextWrite, n.nextRead, n.nextWrite} \subseteq Nat
      /\ x.nextRead \in Nat /\ x.nextWrite \in Nat
      /\ m.row \in 0 .. NUM_ROWS - 1 /\ n.row \in 0 .. NUM_ROWS - 1
  BY <1>5, <1>8, BankFields, Zenon
<1>10. Open(n) => \/ Open(m) /\ ~ (own /\ p.type \in {"READ_P", "WRITE_P"})
                  \/ own /\ p.type = "ACTIVATE"
  <2>1. OpenRow(n) = RowAfter(p, own, OpenRow(m))
    <3>1. NextOpen(row[b], p, r, b, bs[r][b])
      BY CycleRow, Zenon
    <3> QED BY <1>1, <1>3, <1>6, <3>1, Zenon DEF NextOpen
  <2>2. m.row # NoRow /\ n.row # NoRow
    BY <1>9, GeometryAssumption DEF NoRow
  <2> QED BY <2>1, <2>2, Zenon DEF OpenRow, RowAfter
<1>11. /\ tRCD - AL \in Nat /\ AutoPreDelay(p) \in Nat /\ ReadDelay(p) \in Nat
       /\ WriteDelay(p) \in Nat /\ OtherReadDelay(p) \in Nat /\ OtherWriteDelay(p) \in Nat
  BY ColumnDelays, DelaysNat, Zenon
<1>12. \A i \in Nat : /\ x.nextRead >= i => i <= n.nextRead + 1
                      /\ x.nextWrite >= i => i <= n.nextWrite + 1
  BY <1>8, <1>9, <1>LaterStill, Zenon
<1>13. Open(n) /\ p.type \in Columns => m.state = "RowActive"
  BY <1>10, Zenon DEF Open, Columns, Reads, Writes
<1>14. DeadlinesKept(p, m, n, own, same)
  BY <1>4, <1>9, <1>10, <1>11, <1>12, <1>13, Zenon DEF Set, DeadlinesKept
<1> QED BY <1>1, <1>3, <1>6, <1>14, Zenon

LEMMA CountDownDelays ==
    ASSUME NEW m \in BankStates, NEW t, Agrees(m, t), NEW p, NEW x, NEW own, NEW same,
           DeadlinesKept(p, CountDown(m), x, own, same)
    PROVE  DeadlinesKept(p, m, x, own, same)
<1>1. PICK n : n = CountDown(m) /\ n.nextRead = m.nextRead /\ n.nextWrite = m.nextWrite
  BY CountDownShape, Zenon
<1>2. Open(n) <=> Open(m)
  BY <1>1, CountDownRow, Zenon
<1>3. DeadlinesKept(p, n, x, own, same)
  BY <1>1, Zenon
<1> QED BY <1>1, <1>2, <1>3, Zenon DEF DeadlinesKept

-----------------------------------------------------------------------------
(* Bursts that follow each other keep doing so *)

LEMMA BurstNat == Burst \in Nat /\ Burst >= 1 /\ RL \in Nat /\ RL >= 2 /\ WL = RL - 1
  BY TimingAssumption DEF Burst, RL, WL

\* What waits has a cycle less to wait.
LEMMA WaitingShape ==
    ASSUME NEW queue \in Seq(DataPackets), \A i \in DOMAIN queue : queue[i].left >= 1,
           NEW w, w = Waiting(queue)
    PROVE  /\ w \in Seq(DataPackets) /\ Len(w) = Len(queue)
           /\ \A i \in 1 .. Len(queue) :
                 w[i].left = queue[i].left - 1 /\ w[i].addr = queue[i].addr
<1>1. PICK n \in Nat : n = Len(queue) /\ DOMAIN queue = 1 .. n
  OBVIOUS
<1>2. \A i \in 1 .. n : queue[i] \in DataPackets
  BY <1>1
<1>3. DOMAIN w = 1 .. n /\ \A i \in 1 .. n : w[i] = [queue[i] EXCEPT !.left = @ - 1]
  <2>1. DOMAIN w = DOMAIN queue /\ \A i \in DOMAIN queue : w[i] = [queue[i] EXCEPT !.left = @ - 1]
    BY Zenon DEF Waiting
  <2> QED BY <1>1, <2>1, Zenon
<1>4. ASSUME NEW i \in 1 .. n
      PROVE  /\ w[i] \in DataPackets
             /\ w[i].left = queue[i].left - 1 /\ w[i].addr = queue[i].addr
  <2>1. PICK d \in DataPackets : d = queue[i]
    BY <1>2, Zenon
  <2>2. d.left >= 1 /\ d.left \in Nat
    BY <1>1, <2>1, Zenon DEF DataPackets
  <2>3. d.left - 1 \in Nat
    BY <2>2
  <2>4. [d EXCEPT !.left = @ - 1] \in DataPackets
    BY <2>3, Zenon DEF DataPackets
  <2>5. /\ [d EXCEPT !.left = @ - 1].left = d.left - 1
        /\ [d EXCEPT !.left = @ - 1].addr = d.addr
    BY SMT DEF DataPackets
  <2> QED BY <1>3, <2>1, <2>4, <2>5, Zenon
<1>5. w = [i \in 1 .. n |-> w[i]]
  BY <1>1, Zenon DEF Waiting
<1>6. w \in [1 .. n -> DataPackets]
  BY <1>4, <1>5, Zenon
<1>7. w \in Seq(DataPackets) /\ Len(w) = n
  BY <1>6
<1> QED BY <1>1, <1>4, <1>7, Zenon

\* One cycle of a driver: its bursts come a cycle nearer, and one that starts
\* finds the bus free.
LEMMA TrainStep ==
    ASSUME NEW bus, NEW queue, Train(bus, queue)
    PROVE  /\ Train(BusAfter(bus, queue), QueueAfter(queue))
           /\ \A s \in Starts(BusAfter(bus, queue), QueueAfter(queue)) :
                 s + 1 \in Starts(bus, queue)
           /\ Through(queue) => Sending(bus) = <<>>
<1>1. /\ bus \in Seq(DataPackets) /\ queue \in Seq(DataPackets)
      /\ Burst \in Nat /\ Burst >= 1
  BY BurstNat DEF Train
<1>2. PICK n \in Nat : n = Len(queue) /\ DOMAIN queue = 1 .. n
  BY <1>1
<1>3. \A i \in 1 .. n : queue[i] \in DataPackets /\ queue[i].left \in Nat
                        /\ queue[i].addr \in Addresses
  <2>1. \A i \in 1 .. n : queue[i] \in DataPackets
    BY <1>1, <1>2
  <2> QED BY <2>1, Zenon DEF DataPackets
<1>4. PICK w : w = Waiting(queue)
  OBVIOUS
<1>5. /\ w \in Seq(DataPackets) /\ Len(w) = n
      /\ \A i \in 1 .. n : w[i].left = queue[i].left - 1 /\ w[i].addr = queue[i].addr
  <2>1. \A i \in DOMAIN queue : queue[i].left >= 1
    BY Zenon DEF Train
  <2> QED BY <1>1, <1>2, <1>4, <2>1, WaitingShape, Zenon
<1>6. \A i \in 1 .. n : w[i] \in DataPackets /\ queue[i].left >= 1
  BY <1>1, <1>2, <1>5 DEF Train
<1>7. DOMAIN w = 1 .. n
  BY <1>2, <1>5
<1>8. bus # <<>> => /\ DOMAIN bus = {1} /\ bus[1] \in DataPackets
                    /\ bus[1].left \in 1 .. Burst
  <2>1. bus # <<>> => Len(bus) = 1 /\ bus[1].left \in 1 .. Burst
    BY Zenon DEF Train
  <2>2. bus # <<>> => DOMAIN bus = 1 .. 1 /\ bus[1] \in DataPackets
    BY <1>1, <2>1
  <2> QED BY <2>1, <2>2
<1>9. \A i \in 1 .. n : bus # <<>> => bus[1].left <= queue[i].left
  BY <1>2, Zenon DEF Train
<1>10. \A i, j \in 1 .. n : i < j => queue[i].left + Burst <= queue[j].left
  BY <1>2, Zenon DEF Train
<1>11. Through(queue) <=> n >= 1 /\ queue[1].left = 1
  <2>1. queue = <<>> <=> n = 0
    BY <1>1, <1>2
  <2>2. n >= 1 => (w[1].left = 0 <=> queue[1].left = 1)
    <3>1. n >= 1 => 1 \in 1 .. n
      OBVIOUS
    <3>2. n >= 1 => w[1].left = queue[1].left - 1 /\ queue[1].left \in Nat
      BY <1>3, <1>5, <3>1, Zenon
    <3> QED BY <3>2
  <2> QED BY <1>4, <2>1, <2>2 DEF Through
<1>12. PICK b : b = BusAfter(bus, queue)
  OBVIOUS
<1>13. PICK q : q = QueueAfter(queue)
  OBVIOUS
<1>14. PICK d \in Nat : /\ d = IF Through(queue) THEN 1 ELSE 0
  OBVIOUS
\* The packets that wait are those of before, one cycle nearer, without the
\* first one if it is through.
<1>15. /\ q \in Seq(DataPackets) /\ DOMAIN q = 1 .. n - d
       /\ \A i \in 1 .. n - d : /\ i + d \in 1 .. n
                                /\ q[i].left = queue[i + d].left - 1
                                /\ queue[i + d].left > 1
  <2>1. CASE ~ Through(queue)
    <3>1. q = w /\ d = 0
      BY <1>4, <1>13, <1>14, <2>1, Zenon DEF QueueAfter
    <3>2. \A i \in 1 .. n : queue[i].left > 1
      BY <1>1, <1>3, <1>6, <1>10, <1>11, <2>1
    <3> QED BY <1>5, <1>6, <1>7, <3>1, <3>2
  <2>2. CASE Through(queue)
    <3>1. q = Tail(w) /\ d = 1 /\ n >= 1 /\ queue[1].left = 1
      BY <1>4, <1>11, <1>13, <1>14, <2>2, Zenon DEF QueueAfter
    <3>2. q \in Seq(DataPackets) /\ DOMAIN q = 1 .. n - 1
          /\ \A i \in 1 .. n - 1 : q[i] = w[i + 1]
      BY <1>5, <1>7, <3>1
    <3>3. \A i \in 1 .. n - 1 : i + 1 \in 1 .. n /\ queue[i + 1].left > 1
      BY <1>1, <1>3, <1>10, <3>1
    <3> QED BY <1>5, <3>1, <3>2, <3>3
  <2> QED BY <2>1, <2>2, Zenon
<1>16. b \in Seq(DataPackets)
       /\ (b # <<>> => /\ Len(b) = 1 /\ DOMAIN b = {1} /\ b[1].left \in 1 .. Burst
                       /\ IF d = 1 THEN b[1].left = Burst
                          ELSE bus # <<>> /\ b[1].left = bus[1].left - 1)
  <2>1. CASE Through(queue)
    <3>1. PICK x : x = [addr |-> w[1].addr, left |-> Burst]
      BY Zenon
    <3>2. b = <<x>>
      BY <1>4, <1>12, <2>1, <3>1, Zenon DEF BusAfter
    <3>3. x \in DataPackets /\ x.left = Burst
      <4>1. 1 \in 1 .. n
        BY <1>11, <2>1
      <4>2. w[1].addr \in Addresses
        BY <1>6, <4>1, Zenon DEF DataPackets
      <4> QED BY <1>1, <3>1, <4>2, Zenon DEF DataPackets
    <3>4. d = 1
      BY <1>14, <2>1, Zenon
    <3> QED BY <1>1, <3>2, <3>3, <3>4
  <2>2. CASE ~ Through(queue)
    <3>1. b = Sending(bus) /\ d = 0
      BY <1>12, <1>14, <2>2, Zenon DEF BusAfter
    <3>2. CASE bus = <<>> \/ bus[1].left = 1
      <4>1. b = <<>>
        BY <3>1, <3>2, Zenon DEF Sending
      <4> QED BY <4>1
    <3>3. CASE ~ (bus = <<>> \/ bus[1].left = 1)
      <4>1. PICK e \in DataPackets : e = bus[1] /\ e.left \in 1 .. Burst /\ e.left # 1
        BY <1>8, <3>3, Zenon
      <4>2. PICK x : x = [e EXCEPT !.left = @ - 1]
        BY Zenon
      <4>3. b = <<x>>
        BY <3>1, <3>3, <4>1, <4>2, Zenon DEF Sending
      <4>4. e.left - 1 \in Nat /\ e.left - 1 \in 1 .. Burst
        BY <1>1, <4>1
      <4>5. x \in DataPackets
        BY <4>2, <4>4, Zenon DEF DataPackets
      <4>6. x.left = e.left - 1
        BY <4>2, SMT DEF DataPackets
      <4> QED BY <3>1, <3>3, <4>1, <4>3, <4>4, <4>5, <4>6
    <3> QED BY <3>2, <3>3, Zenon
  <2> QED BY <2>1, <2>2, Zenon
<1>17. Train(b, q)
  <2>1. ASSUME NEW i \in DOMAIN q
        PROVE  q[i].left >= 1 /\ (b # <<>> => b[1].left <= q[i].left)
    <3>1. /\ i \in 1 .. n - d /\ i + d \in 1 .. n /\ q[i].left = queue[i + d].left - 1
          /\ queue[i + d].left > 1 /\ queue[i + d].left \in Nat
      BY <1>3, <1>15, <2>1, Zenon
    <3>2. CASE d = 1 /\ b # <<>>
      <4>1. n >= 1 /\ queue[1].left = 1 /\ b[1].left = Burst
        BY <1>11, <1>14, <1>16, <3>2
      <4>2. queue[1].left + Burst <= queue[i + d].left
        BY <1>10, <3>1, <3>2, <4>1
      <4> QED BY ONLY <1>1, <3>1, <4>1, <4>2, SMT
    <3>3. CASE d # 1 /\ b # <<>>
      <4>1. bus # <<>> /\ b[1].left = bus[1].left - 1 /\ bus[1].left \in 1 .. Burst
        BY <1>8, <1>16, <3>3, Zenon
      <4>2. bus[1].left <= queue[i + d].left
        BY <1>9, <3>1, <4>1, Zenon
      <4>3. PICK x \in Nat, y \in Int : x = queue[i + d].left /\ y = bus[1].left
        BY <3>1, <4>1
      <4>4. x > 1 /\ y <= x
        BY <3>1, <4>2, <4>3, Zenon
      <4>5. x - 1 >= 1 /\ y - 1 <= x - 1
        BY ONLY <4>3, <4>4, SMT
      <4> QED BY <3>1, <4>1, <4>3, <4>5, Zenon
    <3> QED BY <3>1, <3>2, <3>3
  <2>2. ASSUME NEW i \in DOMAIN q, NEW j \in DOMAIN q, i < j
        PROVE  q[i].left + Burst <= q[j].left
    <3>1. /\ i + d \in 1 .. n /\ j + d \in 1 .. n /\ q[i].left = queue[i + d].left - 1
          /\ q[j].left = queue[j + d].left - 1 /\ queue[i + d].left \in Nat
          /\ queue[j + d].left \in Nat /\ i \in 1 .. n - d /\ j \in 1 .. n - d
      BY <1>3, <1>15, <2>2, Zenon
    <3>2. i + d < j + d
      BY <2>2, <3>1
    <3>3. queue[i + d].left + Burst <= queue[j + d].left
      BY <1>10, <3>1, <3>2, Zenon
    <3>4. PICK u \in Nat, v \in Nat : u = queue[i + d].left /\ v = queue[j + d].left
      BY <3>1, Zenon
    <3>5. u + Burst <= v => u - 1 + Burst <= v - 1
      BY <1>1
    <3> QED BY <3>1, <3>3, <3>4, <3>5, Zenon
  <2> QED BY <1>15, <1>16, <2>1, <2>2, Zenon DEF Train
<1>18. ASSUME NEW s \in Starts(b, q)
       PROVE  s + 1 \in Starts(bus, queue)
  <2>1. CASE \E i \in DOMAIN q : s = q[i].left
    <3>1. PICK i \in DOMAIN q : s = q[i].left
      BY <2>1, Zenon
    <3>2. /\ i + d \in 1 .. n /\ s = queue[i + d].left - 1 /\ queue[i + d].left \in Nat
      BY <1>3, <1>15, <3>1, Zenon
    <3>3. s + 1 = queue[i + d].left
      BY <3>2
    <3> QED BY <1>2, <3>2, <3>3, Zenon DEF Starts
  <2>2. CASE \E i \in DOMAIN b : s = b[i].left - Burst
    <3>1. b # <<>> /\ s = b[1].left - Burst
      <4>1. PICK i \in DOMAIN b : s = b[i].left - Burst
        BY <2>2, Zenon
      <4>2. b # <<>>
        BY <4>1
      <4> QED BY <1>16, <4>1, <4>2, Zenon
    <3>2. CASE d = 1
      <4>1. s = 0 /\ n >= 1 /\ queue[1].left = 1
        BY <1>1, <1>11, <1>14, <1>16, <3>1, <3>2
      <4>2. s + 1 = queue[1].left /\ 1 \in 1 .. n
        BY <4>1
      <4> QED BY <1>2, <4>2, Zenon DEF Starts
    <3>3. CASE d # 1
      <4>1. /\ bus # <<>> /\ b[1].left = bus[1].left - 1 /\ bus[1].left \in 1 .. Burst
            /\ 1 \in DOMAIN bus
        BY <1>8, <1>16, <3>1, <3>3
      <4>2. s + 1 = bus[1].left - Burst
        BY <1>1, <3>1, <4>1
      <4> QED BY <4>1, <4>2, Zenon DEF Starts
    <3> QED BY <3>2, <3>3, Zenon
  <2> QED BY <1>18, <2>1, <2>2, Zenon DEF Starts
<1>19. Through(queue) => Sending(bus) = <<>>
  <2>1. Through(queue) /\ bus # <<>> => bus[1].left = 1
    BY <1>1, <1>8, <1>9, <1>11
  <2> QED BY <2>1, Zenon DEF Sending
<1> QED BY <1>12, <1>13, <1>17, <1>18, <1>19, Zenon

\* A burst that starts after the others joins the train.
LEMMA TrainAppend ==
    ASSUME NEW bus, NEW queue, Train(bus, queue), NEW x \in DataPackets, x.left >= 1,
           \A s \in Starts(bus, queue) : s + Burst <= x.left
    PROVE  /\ Train(bus, Append(queue, x))
           /\ \A s \in Starts(bus, Append(queue, x)) :
                 s \in Starts(bus, queue) \/ s = x.left
<1>1. /\ bus \in Seq(DataPackets) /\ queue \in Seq(DataPackets)
      /\ Burst \in Nat /\ Burst >= 1 /\ x.left \in Nat
  BY BurstNat DEF Train, DataPackets
<1>2. PICK n \in Nat : n = Len(queue) /\ DOMAIN queue = 1 .. n
  BY <1>1
<1>3. PICK q : q = Append(queue, x)
  BY Zenon
<1>4. /\ q \in Seq(DataPackets) /\ DOMAIN q = 1 .. n + 1 /\ q[n + 1] = x
      /\ \A i \in 1 .. n : q[i] = queue[i]
  BY <1>1, <1>2, <1>3
<1>5. \A i \in 1 .. n : queue[i].left + Burst <= x.left /\ queue[i].left \in Nat
  <2>1. \A i \in 1 .. n : queue[i].left \in Starts(bus, queue)
    BY <1>2, Zenon DEF Starts
  <2>2. \A i \in 1 .. n : queue[i] \in DataPackets
    BY <1>1, <1>2
  <2> QED BY <2>1, <2>2, Zenon DEF DataPackets
<1>6. bus # <<>> => bus[1].left <= x.left
  <2> SUFFICES ASSUME bus # <<>> PROVE bus[1].left <= x.left
    BY Zenon
  <2>1. Len(bus) = 1 /\ bus[1].left \in 1 .. Burst
    BY Zenon DEF Train
  <2>2. 1 \in DOMAIN bus
    BY <1>1, <2>1
  <2>3. bus[1].left - Burst \in Starts(bus, queue)
    BY <2>2, Zenon DEF Starts
  <2>4. bus[1].left - Burst + Burst <= x.left
    BY <2>3, Zenon
  <2> QED BY <1>1, <2>1, <2>4
<1>7. Train(bus, q)
  <2>1. ASSUME NEW i \in DOMAIN q
        PROVE  q[i].left >= 1 /\ (bus # <<>> => bus[1].left <= q[i].left)
    <3>1. i \in 1 .. n \/ i = n + 1
      BY <1>4, <2>1
    <3> QED BY <1>2, <1>4, <1>6, <3>1, Zenon DEF Train
  <2>2. ASSUME NEW i \in DOMAIN q, NEW j \in DOMAIN q, i < j
        PROVE  q[i].left + Burst <= q[j].left
    <3>1. i \in 1 .. n /\ (j \in 1 .. n \/ j = n + 1)
      BY <1>4, <2>2
    <3> QED BY <1>2, <1>4, <1>5, <2>2, <3>1, Zenon DEF Train
  <2>3. bus # <<>> => Len(bus) = 1 /\ bus[1].left \in 1 .. Burst
    BY Zenon DEF Train
  <2> QED BY <1>1, <1>4, <2>1, <2>2, <2>3, Zenon DEF Train
<1>8. ASSUME NEW s \in Starts(bus, q)
      PROVE  s \in Starts(bus, queue) \/ s = x.left
  <2>1. CASE \E i \in DOMAIN bus : s = bus[i].left - Burst
    BY <2>1, Zenon DEF Starts
  <2>2. CASE \E i \in DOMAIN q : s = q[i].left
    <3>1. PICK i \in DOMAIN q : s = q[i].left
      BY <2>2, Zenon
    <3>2. i \in 1 .. n \/ i = n + 1
      BY <1>4, <3>1
    <3> QED BY <1>2, <1>4, <3>1, <3>2, Zenon DEF Starts
  <2> QED BY <1>8, <2>1, <2>2, Zenon DEF Starts
<1> QED BY <1>3, <1>7, <1>8, Zenon

LEMMA StartsInt ==
    ASSUME NEW bus, NEW queue, Train(bus, queue)
    PROVE  \A s \in Starts(bus, queue) : s \in Int
<1>1. /\ \A i \in DOMAIN bus : bus[i] \in DataPackets
      /\ \A i \in DOMAIN queue : queue[i] \in DataPackets
  BY DEF Train
<1>2. /\ \A i \in DOMAIN bus : bus[i].left \in Nat
      /\ \A i \in DOMAIN queue : queue[i].left \in Nat
  BY <1>1, Zenon DEF DataPackets
<1>3. \A n \in Nat : n \in Int /\ n - Burst \in Int
  BY BurstNat
<1> QED BY <1>2, <1>3, Zenon DEF Starts

\* What comes last waits behind the others.
LEMMA QueueAfterAppend ==
    ASSUME NEW bus, NEW queue, Train(bus, queue)
    PROVE  /\ QueueAfter(queue) \o <<>> = QueueAfter(queue)
           /\ \A x \in DataPackets : QueueAfter(queue) \o <<x>> = Append(QueueAfter(queue), x)
<1>1. Train(BusAfter(bus, queue), QueueAfter(queue))
  BY TrainStep, Zenon
<1>2. PICK q \in Seq(DataPackets) : q = QueueAfter(queue)
  BY <1>1, Zenon DEF Train
<1>3. q \o <<>> = q /\ \A x \in DataPackets : q \o <<x>> = Append(q, x)
  OBVIOUS
<1> QED BY <1>2, <1>3, Zenon

LEMMA WaitingEmpty ==
    ASSUME NEW queue \in Seq(DataPackets)
    PROVE  Waiting(queue) = <<>> <=> queue = <<>>
<1>1. PICK n \in Nat : n = Len(queue) /\ DOMAIN queue = 1 .. n
  OBVIOUS
<1>2. PICK w : w = Waiting(queue)
  OBVIOUS
<1>3. DOMAIN w = 1 .. n
  BY <1>1, <1>2, Zenon DEF Waiting
<1>4. w = <<>> => n = 0
  BY <1>3
<1>5. n = 0 => queue = <<>>
  BY <1>1
<1>6. queue = <<>> => Waiting(queue) = <<>>
  BY DEF Waiting
<1> QED BY <1>2, <1>4, <1>5, <1>6, Zenon

\* What waits behind is not through.
LEMMA LaneStep ==
    ASSUME NEW bus, NEW queue \in Seq(DataPackets), NEW x \in DataPackets, x.left > 1
    PROVE  /\ BusAfter(bus, Append(queue, x)) = BusAfter(bus, queue)
           /\ QueueAfter(Append(queue, x))
                = Append(QueueAfter(queue), [x EXCEPT !.left = @ - 1])
<1>1. PICK q : q = Append(queue, x)
  BY Zenon
<1>2. PICK n \in Nat : n = Len(queue) /\ DOMAIN queue = 1 .. n
  OBVIOUS
<1>3. /\ q \in Seq(DataPackets) /\ DOMAIN q = 1 .. n + 1 /\ q # <<>> /\ q[n + 1] = x
      /\ \A i \in 1 .. n : q[i] = queue[i]
  BY <1>1, <1>2
<1>4. PICK y : y = [x EXCEPT !.left = @ - 1]
  BY Zenon
<1>5. y \in DataPackets /\ y.left # 0
  <2>1. x.left \in Nat
    BY Zenon DEF DataPackets
  <2>2. x.left - 1 \in Nat /\ x.left - 1 # 0
    BY <2>1
  <2>3. y \in DataPackets
    BY <1>4, <2>2, Zenon DEF DataPackets
  <2>4. y.left = x.left - 1
    BY <1>4 DEF DataPackets
  <2> QED BY <2>2, <2>3, <2>4, Zenon
<1>6. PICK w : w = Waiting(queue)
  OBVIOUS
<1>7. DOMAIN w = 1 .. n /\ \A i \in 1 .. n : w[i] = [queue[i] EXCEPT !.left = @ - 1]
  BY <1>2, <1>6, Zenon DEF Waiting
<1>8. w = [i \in 1 .. n |-> w[i]]
  BY <1>2, <1>6, <1>7, Zenon DEF Waiting
<1>9. Waiting(q) = [i \in 1 .. n + 1 |-> IF i = n + 1 THEN y ELSE w[i]]
  <2>1. \A i \in 1 .. n + 1 : i = n + 1 \/ i \in 1 .. n
    OBVIOUS
  <2>2. \A i \in 1 .. n + 1 :
           [q[i] EXCEPT !.left = @ - 1] = IF i = n + 1 THEN y ELSE w[i]
    BY <1>3, <1>4, <1>7, <2>1, Zenon
  <2>3. Waiting(q) = [i \in 1 .. n + 1 |-> [q[i] EXCEPT !.left = @ - 1]]
    BY <1>3, Zenon DEF Waiting
  <2> QED BY <2>2, <2>3, Zenon
<1>10. PICK v : v = Waiting(q)
  OBVIOUS
<1>11. w \in Seq({w[i] : i \in 1 .. n} \cup {y}) /\ Len(w) = n /\ y \in {w[i] : i \in 1 .. n} \cup {y}
  BY <1>8
<1>12. v = Append(w, y)
  BY <1>8, <1>9, <1>10, <1>11
<1>13. queue = <<>> => w = <<>> /\ v[1] = y /\ n = 0
  BY <1>2, <1>8, <1>9, <1>10
<1>14. queue # <<>> => n >= 1 /\ v[1] = w[1] /\ w # <<>>
  BY <1>2, <1>8, <1>9, <1>10, <1>11
<1>15. Through(q) <=> Through(queue)
  BY <1>3, <1>5, <1>6, <1>10, <1>13, <1>14, Zenon DEF Through
<1>16. Through(queue) => queue # <<>>
  BY Zenon DEF Through
<1>17. w # <<>> => Tail(v) = Append(Tail(w), y)
  BY <1>11, <1>12
<1>18. BusAfter(bus, q) = BusAfter(bus, queue)
  BY <1>6, <1>10, <1>14, <1>15, <1>16, Zenon DEF BusAfter
<1>19. QueueAfter(q) = Append(QueueAfter(queue), y)
  BY <1>6, <1>10, <1>12, <1>14, <1>15, <1>16, <1>17, Zenon DEF QueueAfter
<1> QED BY <1>1, <1>4, <1>18, <1>19, Zenon

-----------------------------------------------------------------------------
(* The deadlines of the bank table and the bursts *)

\* After a cycle the deadlines of a bank still keep it off the bursts that were
\* under way, and off the burst of the command issued in the cycle.
LEMMA BankStaysClear ==
    ASSUME BusSpaced, NEW p, NEW m, NEW n, NEW own \in BOOLEAN, NEW same \in BOOLEAN,
           DeadlinesKept(p, m, n, own, same), own => same,
           NUM_RANKS = 1 /\ p.type \in Columns => same, Guarded(n)
    PROVE  /\ \A s \in Int : s <= RL /\ (Guarded(m) => Clear(m, s + 1)) => Clear(n, s)
           /\ p.type \in Columns => Clear(n, Slot(p))
<1> DEFINE auto == p.type \in {"READ_P", "WRITE_P"}
<1>1. /\ Burst \in Nat /\ Burst >= 1 /\ RL \in Nat /\ RL >= 2 /\ WL = RL - 1
      /\ tRTRS \in Nat /\ tRTRS >= 1
  BY BurstNat, TimingAssumption DEF BusSpaced
<1>2. PICK i \in Nat, j \in Nat : i = n.nextRead /\ j = n.nextWrite
  BY Zenon DEF DeadlinesKept
<1>3. PICK k \in Nat, l \in Nat : k = m.nextRead /\ l = m.nextWrite
  BY Zenon DEF DeadlinesKept
<1>4. \A s : Clear(n, s) <=> s + Burst <= i + RL + 2 /\ s + Burst <= j + RL
  BY <1>2, Zenon DEF Clear
<1>5. /\ p.type \in Reads => Slot(p) = RL + 1
      /\ p.type \notin Reads => Slot(p) = RL - 1
  BY <1>1, Zenon DEF Slot
<1>6. CASE own /\ auto
  <2>1. OneRankOnly
    BY <1>6, Zenon DEF Guarded, DeadlinesKept
  <2>2. AutoPreDelay(p) <= i + 1 /\ AutoPreDelay(p) <= j + 1
    BY <1>2, <1>6, Zenon DEF DeadlinesKept
  <2>3. /\ p.type \in Reads => AutoPreDelay(p) = READ_AUTOPRE_DELAY
        /\ p.type \notin Reads => AutoPreDelay(p) = WRITE_AUTOPRE_DELAY
    BY Zenon DEF AutoPreDelay
  <2>4. /\ READ_AUTOPRE_DELAY \in Nat /\ READ_AUTOPRE_DELAY >= Burst + 2
        /\ WRITE_AUTOPRE_DELAY \in Nat /\ WRITE_AUTOPRE_DELAY >= Burst + 1
    BY <1>1, <2>1, TimingAssumption DEF OneRankOnly, READ_AUTOPRE_DELAY,
                                        WRITE_AUTOPRE_DELAY
  <2>5. i >= Burst /\ j >= Burst /\ (p.type \in Reads => i >= Burst + 1 /\ j >= Burst + 1)
    BY <1>1, <2>2, <2>3, <2>4
  <2>6. \A s \in Int : s <= RL => Clear(n, s)
    BY <1>1, <1>4, <2>5
  <2>7. Clear(n, Slot(p))
    BY <1>1, <1>4, <1>5, <2>5
  <2> QED BY <2>6, <2>7, Zenon
<1>7. CASE ~ (own /\ auto)
  <2>1. ASSUME NEW s \in Int, s <= RL, Guarded(m) => Clear(m, s + 1)
        PROVE  Clear(n, s)
    <3>1. CASE Guarded(m)
      <4>1. /\ s + 1 + Burst <= k + RL + 2 /\ s + 1 + Burst <= l + RL
            /\ k <= i + 1 /\ l <= j + 1
        BY <1>2, <1>3, <1>7, <2>1, <3>1, Zenon DEF Clear, DeadlinesKept
      <4> QED BY <1>1, <1>4, <4>1
    <3>2. CASE ~ Guarded(m)
      <4>1. ~ isSmartMRAM /\ tRCD - AL >= Burst + 1
        BY <3>2, Zenon DEF Guarded, BusSpaced
      <4>2. tRCD - AL <= i + 1 /\ tRCD - AL <= j + 1
        BY <1>2, <3>2, <4>1, Zenon DEF Guarded, DeadlinesKept
      <4>3. tRCD - AL \in Int
        BY TimingAssumption
      <4>4. i >= Burst /\ j >= Burst
        <5> HIDE DEF auto
        <5>1. \A d \in Int : d >= Burst + 1 /\ d <= i + 1 /\ d <= j + 1
                             => i >= Burst /\ j >= Burst
          BY <1>1
        <5> QED BY <4>1, <4>2, <4>3, <5>1, Zenon
      <4> QED BY <1>1, <1>4, <2>1, <4>4
    <3> QED BY <3>1, <3>2, Zenon
  <2>2. ASSUME p.type \in Columns
        PROVE  Clear(n, Slot(p))
    <3>1. CASE same
      <4>1. ReadDelay(p) <= i + 1 /\ WriteDelay(p) <= j + 1
        BY <1>2, <1>7, <2>2, <3>1, Zenon DEF DeadlinesKept
      <4>2. CASE p.type \in Reads
        <5>1. ReadDelay(p) = Later(tCCD, Burst) /\ WriteDelay(p) = READ_TO_WRITE_DELAY
          BY <4>2, Zenon DEF ReadDelay, WriteDelay
        <5>2. /\ Later(tCCD, Burst) \in Nat /\ Later(tCCD, Burst) >= Burst
              /\ READ_TO_WRITE_DELAY = Burst + tRTRS + 1
          BY <1>1, TimingAssumption DEF Later, READ_TO_WRITE_DELAY
        <5> QED BY <1>1, <1>4, <1>5, <4>1, <4>2, <5>1, <5>2
      <4>3. CASE p.type \notin Reads
        <5>1. ReadDelay(p) = WRITE_TO_READ_DELAY_B /\ WriteDelay(p) = Later(tCCD, Burst)
          BY <4>3, Zenon DEF ReadDelay, WriteDelay
        <5>2. /\ Later(tCCD, Burst) \in Nat /\ Later(tCCD, Burst) >= Burst
              /\ WRITE_TO_READ_DELAY_B \in Nat /\ WRITE_TO_READ_DELAY_B >= Burst
          BY <1>1, TimingAssumption DEF Later, WRITE_TO_READ_DELAY_B
        <5> QED BY <1>1, <1>4, <1>5, <4>1, <4>3, <5>1, <5>2
      <4> QED BY <4>2, <4>3, Zenon
    <3>2. CASE ~ same
      <4>1. Open(n)
        BY <2>2, <3>2, Zenon DEF Guarded, OneRankOnly
      <4>2. OtherReadDelay(p) <= i + 1 /\ OtherWriteDelay(p) <= j + 1
        BY <1>2, <2>2, <3>2, <4>1, Zenon DEF DeadlinesKept
      <4>3. CASE p.type \in Reads
        <5>1. /\ OtherReadDelay(p) = Burst + tRTRS
              /\ OtherWriteDelay(p) = READ_TO_WRITE_DELAY
          BY <4>3, Zenon DEF OtherReadDelay, OtherWriteDelay
        <5>2. READ_TO_WRITE_DELAY = Burst + tRTRS + 1
          BY <1>1, TimingAssumption DEF READ_TO_WRITE_DELAY
        <5> QED BY <1>1, <1>4, <1>5, <4>2, <4>3, <5>1, <5>2
      <4>4. CASE p.type \notin Reads
        <5>1. /\ OtherReadDelay(p) = WRITE_TO_READ_DELAY_R
              /\ OtherWriteDelay(p) = Burst + tRTRS
          BY <4>4, Zenon DEF OtherReadDelay, OtherWriteDelay
        <5>2. WRITE_TO_READ_DELAY_R = Burst + tRTRS - 1
          BY <1>1, TimingAssumption DEF WRITE_TO_READ_DELAY_R
        <5> QED BY <1>1, <1>4, <1>5, <4>2, <4>4, <5>1, <5>2
      <4> QED BY <4>3, <4>4, Zenon
    <3> QED BY <3>1, <3>2, Zenon
  <2> QED BY <2>1, <2>2, Zenon
<1> QED BY <1>6, <1>7, Zenon

\* A cycle of all the drivers, in which command p is issued.
LEMMA DriversStep ==
    ASSUME BusSpaced, NEW B, NEW Q, NEW bs, Scheduled(B, Q, bs),
           NEW C, NEW L, NEW bt, NEW p,
           p.type \in Columns =>
              LET m == bs[p.addr.rank][p.addr.bank]
              IN  /\ p.addr \in Addresses /\ Open(m)
                  /\ (IF p.type \in Reads THEN m.nextRead ELSE m.nextWrite) = 0,
           \A x \in Drivers : C[x] = BusAfter(B[x], Q[x]),
           \A x \in Drivers :
              L[x] = IF Uses(p, x)
                     THEN Append(QueueAfter(Q[x]), [addr |-> p.addr, left |-> Slot(p)])
                     ELSE QueueAfter(Q[x]),
           \A r \in Ranks, b \in Banks :
              DeadlinesKept(p, bs[r][b], bt[r][b], For(p, r) /\ p.addr.bank = b, For(p, r))
    PROVE  Scheduled(C, L, bt)
<1>1. /\ Burst \in Nat /\ Burst >= 1 /\ RL \in Nat /\ RL >= 2 /\ WL = RL - 1
      /\ Slot(p) = IF p.type \in Reads THEN RL + 1 ELSE RL - 1
  BY BurstNat, Zenon DEF Slot
<1>2. PICK d : d = [addr |-> p.addr, left |-> Slot(p)]
  OBVIOUS
<1> DEFINE Old(x) == Starts(C[x], QueueAfter(Q[x]))
<1>3. ASSUME NEW x \in Drivers
      PROVE  /\ Train(C[x], QueueAfter(Q[x]))
             /\ \A s \in Old(x) : s \in Int /\ s + 1 \in Starts(B[x], Q[x])
  <2>1. Train(B[x], Q[x])
    BY Zenon DEF Scheduled
  <2>2. /\ Train(BusAfter(B[x], Q[x]), QueueAfter(Q[x]))
        /\ \A s \in Starts(BusAfter(B[x], Q[x]), QueueAfter(Q[x])) :
              s + 1 \in Starts(B[x], Q[x])
    BY <2>1, TrainStep, Zenon
  <2>3. C[x] = BusAfter(B[x], Q[x])
    BY Zenon
  <2>4. Train(C[x], QueueAfter(Q[x]))
    BY <2>2, <2>3, Zenon
  <2> QED BY <2>2, <2>3, <2>4, StartsInt, Zenon
<1>4. ASSUME NEW x \in Drivers, NEW s \in Old(x)
      PROVE  /\ s <= RL
             /\ \A r \in Ranks, b \in Banks : Guarded(bs[r][b]) => Clear(bs[r][b], s + 1)
  <2>1. s \in Int /\ s + 1 \in Starts(B[x], Q[x])
    BY <1>3, <1>4, Zenon
  <2>2. s + 1 <= RL + 1
    BY <2>1, ZenonT(40) DEF Scheduled
  <2>3. \A i \in Int : i + 1 <= RL + 1 => i <= RL
    BY ONLY <1>1, SMT
  <2> QED BY <2>1, <2>2, <2>3, Zenon DEF Scheduled
<1>5. ASSUME p.type \in Columns
      PROVE  /\ d \in DataPackets /\ d.left = Slot(p) /\ d.left >= 1
             /\ p.addr.rank \in Ranks /\ p.addr.bank \in Banks /\ p # None
             /\ \A x \in Drivers : \A s \in Old(x) : s + Burst <= Slot(p)
  <2>1. p.addr \in Addresses
    BY <1>5, Zenon
  <2>2. p.addr.rank \in Ranks /\ p.addr.bank \in Banks /\ p # None
    <3>1. None.type \notin Columns
      BY Zenon DEF None, Columns, Reads, Writes
    <3> QED BY <1>5, <2>1, <3>1, Zenon DEF Addresses
  <2>3. Slot(p) \in Nat /\ Slot(p) >= 1
    BY ONLY <1>1, SMT
  <2>4. d.left = Slot(p)
    BY <1>2, Zenon
  <2>5. d \in DataPackets
    BY <1>2, <2>1, <2>3, ZenonT(40) DEF DataPackets
  <2>6. PICK m : m = bs[p.addr.rank][p.addr.bank]
    BY Zenon
  <2>7. Guarded(m) /\ (IF p.type \in Reads THEN m.nextRead ELSE m.nextWrite) = 0
    BY <1>5, <2>6, Zenon DEF Guarded
  <2>8. ASSUME NEW x \in Drivers, NEW s \in Old(x)
        PROVE  s + Burst <= Slot(p)
    <3>1. Clear(m, s + 1) /\ s \in Int
      BY <1>3, <1>4, <2>2, <2>6, <2>7, <2>8, Zenon
    <3>2. /\ p.type \in Reads => s + 1 + Burst <= 0 + RL + 2
          /\ p.type \notin Reads => s + 1 + Burst <= 0 + RL
      BY <2>7, <3>1, Zenon DEF Clear
    <3>3. \A i \in Int : /\ i + 1 + Burst <= 0 + RL + 2 => i + Burst <= RL + 1
                         /\ i + 1 + Burst <= 0 + RL => i + Burst <= RL - 1
      BY ONLY <1>1, SMT
    <3> QED BY <1>1, <3>1, <3>2, <3>3, Zenon
  <2> QED BY <2>2, <2>3, <2>4, <2>5, <2>8, Zenon
<1>6. ASSUME NEW x \in Drivers
      PROVE  /\ Train(C[x], L[x])
             /\ \A s \in Starts(C[x], L[x]) : \/ s \in Old(x)
                                              \/ s = Slot(p) /\ Uses(p, x)
  <2>1. Train(C[x], QueueAfter(Q[x]))
    BY <1>3, Zenon
  <2>2. CASE Uses(p, x)
    <3>1. p.type \in Columns
      BY <2>2, Zenon DEF Uses, Columns
    <3>2. L[x] = Append(QueueAfter(Q[x]), d)
      BY <1>2, <2>2, Zenon
    <3>3. /\ Train(C[x], Append(QueueAfter(Q[x]), d))
          /\ \A s \in Starts(C[x], Append(QueueAfter(Q[x]), d)) :
                s \in Starts(C[x], QueueAfter(Q[x])) \/ s = d.left
      <4>1. /\ d \in DataPackets /\ d.left >= 1
            /\ \A s \in Starts(C[x], QueueAfter(Q[x])) : s + Burst <= d.left
        BY <1>5, <3>1, Zenon
      <4> HIDE DEF Old
      <4> QED BY <2>1, <4>1, TrainAppend, Zenon
    <3> QED BY <1>5, <2>2, <3>1, <3>2, <3>3, Zenon
  <2>3. CASE ~ Uses(p, x)
    BY <2>1, <2>3, Zenon
  <2> QED BY <2>2, <2>3, Zenon
<1>7. ASSUME NEW x \in Drivers, NEW y \in Drivers, x # y
      PROVE  Apart(Starts(C[x], L[x]), Starts(C[y], L[y]))
  <2> SUFFICES ASSUME NEW s \in Starts(C[x], L[x]), NEW u \in Starts(C[y], L[y])
               PROVE  s + Burst <= u \/ u + Burst <= s
    BY Zenon DEF Apart
  <2>1. s \in Old(x) \/ (s = Slot(p) /\ Uses(p, x))
    BY <1>6, Zenon
  <2>2. u \in Old(y) \/ (u = Slot(p) /\ Uses(p, y))
    BY <1>6, Zenon
  <2>3. ~ (Uses(p, x) /\ Uses(p, y))
    <3>1. CASE p.type \in Reads
      BY <1>7, <3>1, Zenon DEF Uses
    <3>2. CASE p.type \notin Reads
      BY <1>7, <3>2, Zenon DEF Uses
    <3> QED BY <3>1, <3>2, Zenon
  <2>4. Uses(p, x) \/ Uses(p, y) => p.type \in Columns
    BY ZenonT(40) DEF Uses, Columns
  <2>5. CASE s \in Old(x) /\ u \in Old(y)
    <3>1. /\ s \in Int /\ u \in Int
          /\ s + 1 \in Starts(B[x], Q[x]) /\ u + 1 \in Starts(B[y], Q[y])
      BY <1>3, <2>5, Zenon
    <3>2. s + 1 + Burst <= u + 1 \/ u + 1 + Burst <= s + 1
      BY <1>7, <3>1, Zenon DEF Scheduled, Apart
    <3> HIDE DEF Old
    <3> QED BY <1>1, <3>1, <3>2
  <2> QED BY <1>5, <2>1, <2>2, <2>3, <2>4, <2>5, Zenon
<1>8. ASSUME NEW x \in Drivers, NEW s \in Starts(C[x], L[x])
      PROVE  /\ s <= RL + 1
             /\ \A r \in Ranks, b \in Banks : Guarded(bt[r][b]) => Clear(bt[r][b], s)
  <2>1. s \in Old(x) \/ (s = Slot(p) /\ p.type \in Columns)
    BY <1>6, <1>8, Zenon DEF Uses, Columns
  <2>2. s <= RL + 1
    <3>1. \A i \in Int : i <= RL => i <= RL + 1
      BY ONLY <1>1, SMT
    <3>2. Slot(p) <= RL + 1
      BY <1>1
    <3> QED BY <1>3, <1>4, <2>1, <3>1, <3>2, ZenonT(40)
  <2>3. ASSUME NEW r \in Ranks, NEW b \in Banks, Guarded(bt[r][b])
        PROVE  Clear(bt[r][b], s)
    <3>1. PICK own \in BOOLEAN, same \in BOOLEAN :
             own = (For(p, r) /\ p.addr.bank = b) /\ same = For(p, r)
      BY Zenon DEF For
    <3>2. PICK m, n : m = bs[r][b] /\ n = bt[r][b]
      BY Zenon
    <3>3. DeadlinesKept(p, m, n, own, same) /\ Guarded(n) /\ (own => same)
      BY <2>3, <3>1, <3>2, Zenon
    <3>4. NUM_RANKS = 1 /\ p.type \in Columns => same
      <4>1. NUM_RANKS = 1 => \A i, j \in Ranks : i = j
        BY ONLY SMT DEF Ranks
      <4> QED BY <1>5, <3>1, <4>1, Zenon DEF For
    <3>5. /\ \A i \in Int : i <= RL /\ (Guarded(m) => Clear(m, i + 1)) => Clear(n, i)
          /\ p.type \in Columns => Clear(n, Slot(p))
      BY <3>3, <3>4, BankStaysClear, Zenon
    <3> QED BY <1>3, <1>4, <2>1, <3>2, <3>5, Zenon
  <2> QED BY <2>2, <2>3, Zenon
<1> QED BY <1>6, <1>7, <1>8, Zenon DEF Scheduled

-----------------------------------------------------------------------------
(* The read data of a rank *)

HasData(rk) == {"returning", "outgoing", "error"} \subseteq DOMAIN rk
SameData(rk, n) ==
    HasData(n) /\ n.outgoing = rk.outgoing /\ n.returning = rk.returning

LEMMA DataKept ==
    ASSUME NEW rk, HasData(rk), NEW v
    PROVE  /\ SameData(rk, [rk EXCEPT !.banks = v])
           /\ SameData(rk, [rk EXCEPT !.error = v])
           /\ SameData(rk, [rk EXCEPT !.isPowerDown = v])
           /\ /\ SameData(rk, [rk EXCEPT !.refreshWaiting = v])
              /\ [rk EXCEPT !.refreshWaiting = v].error = rk.error
  BY Zenon DEF HasData, SameData

\* The end of the cycle, and powering down or up, leave read data alone.
LEMMA StepData ==
    ASSUME NEW rk, HasData(rk),
           NEW n \in {RankStep(rk), RankStep(RankPowerDown(rk)), RankStep(RankPowerUp(rk))}
    PROVE  SameData(rk, n)
<1>1. ASSUME NEW k, SameData(rk, k)
      PROVE  SameData(rk, RankStep(k))
  <2>1. HasData(k)
    BY <1>1, Zenon DEF SameData
  <2>2. SameData(k, RankStep(k))
    BY <2>1, DataKept, Zenon DEF RankStep, AllBanks
  <2> QED BY <1>1, <2>2, Zenon DEF SameData
<1>2. SameData(rk, rk) /\ SameData(rk, Refused(rk))
  BY DataKept, Zenon DEF SameData, Refused
<1>3. ASSUME NEW v, NEW F(_)
      PROVE  SameData(rk, AllBanks([rk EXCEPT !.isPowerDown = v], F))
  <2>1. PICK k : k = [rk EXCEPT !.isPowerDown = v]
    BY Zenon
  <2>2. SameData(rk, k)
    BY <2>1, DataKept, Zenon
  <2>3. HasData(k)
    BY <2>2, Zenon DEF SameData
  <2>4. SameData(k, [k EXCEPT !.banks = [b \in Banks |-> F(k.banks[b])]])
    BY <2>3, DataKept, Zenon
  <2> QED BY <2>1, <2>2, <2>4, Zenon DEF SameData, AllBanks
<1>4. SameData(rk, RankPowerDown(rk)) /\ SameData(rk, RankPowerUp(rk))
  BY <1>2, <1>3, Zenon DEF RankPowerDown, RankPowerUp
<1> QED BY <1>1, <1>2, <1>4, Zenon

\* A READ that is not refused adds its data to what the rank will return.
LEMMA ReceiveData ==
    ASSUME NEW rk, HasData(rk), NEW p \in Packets, NEW n,
           n = receiveFromBus(rk, p), ~ n.error
    PROVE  /\ HasData(n) /\ n.outgoing = rk.outgoing
           /\ n.returning = IF p.type \in Reads
                            THEN Append(rk.returning, [addr |-> p.addr, left |-> RL])
                            ELSE rk.returning
<1>1. Refused(rk).error
  BY Zenon DEF Refused, HasData
<1>2. CASE p.type \in Columns
  <2>1. n = ReceiveColumn(rk, p)
    BY <1>1, <1>2, Zenon DEF receiveFromBus, Columns, Reads, Writes
  <2>2. PICK x, y : /\ n = [rk EXCEPT !.banks = x, !.returning = y]
                    /\ y = IF p.type \in Reads
                           THEN Append(rk.returning, [addr |-> p.addr, left |-> RL])
                           ELSE rk.returning
    BY <2>1, Zenon DEF ReceiveColumn
  <2>3. HasData(n) /\ n.outgoing = rk.outgoing /\ n.returning = y
    BY <2>2, Zenon DEF HasData
  <2> QED BY <2>2, <2>3, Zenon
<1>3. CASE p.type \notin Columns
  <2>1. n \in {rk, ReceiveActivate(rk, p), ReceivePrecharge(rk, p), ReceiveRefresh(rk)}
    <3>1. p.type \in {"ACTIVATE", "PRECHARGE", "REFRESH"}
      BY <1>3, Zenon DEF Packets, Commands
    <3>2. CASE p.type = "ACTIVATE"
      BY <1>1, <3>2, Zenon DEF receiveFromBus, Columns, Reads, Writes
    <3>3. CASE p.type = "PRECHARGE"
      BY <1>1, <3>3, Zenon DEF receiveFromBus, Columns, Reads, Writes
    <3>4. CASE p.type = "REFRESH"
      BY <1>1, <3>4, Zenon DEF receiveFromBus, Columns, Reads, Writes
    <3> QED BY <3>1, <3>2, <3>3, <3>4, Zenon
  <2>2. /\ SameData(rk, rk) /\ SameData(rk, ReceiveActivate(rk, p))
        /\ SameData(rk, ReceivePrecharge(rk, p))
    BY DataKept, Zenon DEF SameData, ReceiveActivate, ReceivePrecharge
  <2>3. SameData(rk, ReceiveRefresh(rk))
    <3>1. PICK k : k = [rk EXCEPT !.refreshWaiting = FALSE]
      BY Zenon
    <3>2. SameData(rk, k)
      BY <3>1, DataKept, Zenon
    <3>3. HasData(k)
      BY <3>2, Zenon DEF SameData
    <3>4. SameData(k, [k EXCEPT !.banks = [b \in Banks |-> RefreshBank(k.banks[b])]])
      BY <3>3, DataKept, Zenon
    <3> QED BY <3>1, <3>2, <3>4, Zenon DEF SameData, ReceiveRefresh, AllBanks
  <2>4. p.type \notin Reads
    BY <1>3, Zenon DEF Columns
  <2> QED BY <2>1, <2>2, <2>3, <2>4, Zenon DEF SameData
<1> QED BY <1>2, <1>3, Zenon

LEMMA UpdateData ==
    ASSUME NEW rk, HasData(rk), rk.returning \in Seq(DataPackets)
    PROVE  LET n == RankUpdate(rk)
           IN  /\ HasData(n)
               /\ n.outgoing = BusAfter(rk.outgoing, rk.returning)
               /\ n.returning = QueueAfter(rk.returning)
<1>1. PICK x, y : x = BusAfter(rk.outgoing, rk.returning) /\ y = QueueAfter(rk.returning)
  BY Zenon
<1>2. RankUpdate(rk) = [rk EXCEPT !.outgoing = x, !.returning = y]
  <2> DEFINE w == Waiting(rk.returning)
  <2>2. w # <<>> <=> rk.returning # <<>>
    BY WaitingEmpty, Zenon
  <2>3. RankUpdate(rk) =
          [rk EXCEPT !.outgoing = IF w # <<>> /\ w[1].left = 0
                                  THEN <<[addr |-> w[1].addr, left |-> Burst]>>
                                  ELSE Sending(rk.outgoing),
                     !.returning = IF w # <<>> /\ w[1].left = 0 THEN Tail(w) ELSE w]
    BY DEF RankUpdate, Waiting, Sending
  <2>4. Through(rk.returning) <=> w # <<>> /\ w[1].left = 0
    BY <2>2, Zenon DEF Through
  <2>5. CASE w # <<>> /\ w[1].left = 0
    BY <1>1, <2>3, <2>4, <2>5, Zenon DEF BusAfter, QueueAfter
  <2>6. CASE ~ (w # <<>> /\ w[1].left = 0)
    <3>1. x = Sending(rk.outgoing) /\ y = w
      BY <1>1, <2>4, <2>6, Zenon DEF BusAfter, QueueAfter
    <3>2. RankUpdate(rk) = [rk EXCEPT !.outgoing = Sending(rk.outgoing), !.returning = w]
      BY <2>3, <2>6, Zenon
    <3> QED BY <3>1, <3>2, Zenon
  <2> QED BY <2>5, <2>6, Zenon
<1>3. PICK n : n = [rk EXCEPT !.outgoing = x, !.returning = y]
  BY Zenon
<1>4. HasData(n) /\ n.outgoing = x /\ n.returning = y
  BY <1>3, Zenon DEF HasData
<1> QED BY <1>1, <1>2, <1>3, <1>4, Zenon

\* A clock cycle of the rank rk: it is updated, the command c on the bus arrives
\* (None: there is none), a refresh may be asked for (h), and the rank may be
\* powered down or up (n).
RankCycles(rk, c, h, n) ==
    LET g == IF c = None THEN RankUpdate(rk) ELSE receiveFromBus(RankUpdate(rk), c)
    IN  /\ h \in {g, [g EXCEPT !.refreshWaiting = TRUE]}
        /\ n \in {RankStep(h), RankStep(RankPowerDown(h)), RankStep(RankPowerUp(h))}

\* The read data of a rank in a clock cycle.
LEMMA RankDataStep ==
    ASSUME NEW rk, HasData(rk), rk.returning \in Seq(DataPackets),
           NEW c \in Packets \cup {None}, NEW h, HasData(h), ~ h.error,
           NEW n, RankCycles(rk, c, h, n)
    PROVE  /\ HasData(n) /\ n.outgoing = BusAfter(rk.outgoing, Incoming(rk, c))
           /\ n.returning = QueueAfter(Incoming(rk, c))
<1>1. PICK g : /\ g = IF c = None THEN RankUpdate(rk) ELSE receiveFromBus(RankUpdate(rk), c)
               /\ h \in {g, [g EXCEPT !.refreshWaiting = TRUE]}
               /\ n \in {RankStep(h), RankStep(RankPowerDown(h)), RankStep(RankPowerUp(h))}
  BY Zenon DEF RankCycles
<1>2. SameData(h, n)
  BY <1>1, StepData, Zenon
<1>3. SameData(g, h) /\ ~ g.error
  <2>1. HasData(g)
    BY <1>1, Zenon DEF HasData
  <2>2. PICK k : k = [g EXCEPT !.refreshWaiting = TRUE]
    BY Zenon
  <2>3. SameData(g, k) /\ k.error = g.error
    BY <2>1, <2>2, DataKept, Zenon
  <2>4. SameData(g, g)
    BY <2>1, Zenon DEF SameData
  <2>5. h = g \/ h = k
    BY <1>1, <2>2, Zenon
  <2>6. h.error = g.error
    BY <2>3, <2>5, Zenon
  <2> QED BY <2>3, <2>4, <2>5, <2>6, Zenon
<1>4. PICK k : k = RankUpdate(rk)
  BY Zenon
<1>5. /\ HasData(k) /\ k.outgoing = BusAfter(rk.outgoing, rk.returning)
      /\ k.returning = QueueAfter(rk.returning)
  BY <1>4, UpdateData, Zenon
<1>6. /\ g.outgoing = BusAfter(rk.outgoing, Incoming(rk, c))
      /\ g.returning = QueueAfter(Incoming(rk, c))
  <2>1. CASE c = None
    <3>1. c.type \notin Reads
      BY <2>1, Zenon DEF None, Reads
    <3> QED BY <1>1, <1>4, <1>5, <2>1, <3>1, Zenon DEF Incoming
  <2>2. CASE c # None
    <3>1. c \in Packets /\ g = receiveFromBus(k, c)
      BY <1>1, <1>4, <2>2, Zenon
    <3>2. /\ g.outgoing = k.outgoing
          /\ g.returning = IF c.type \in Reads
                           THEN Append(k.returning, [addr |-> c.addr, left |-> RL])
                           ELSE k.returning
      BY <1>3, <1>5, <3>1, ReceiveData, Zenon
    <3>3. CASE c.type \notin Reads
      BY <1>5, <3>2, <3>3, Zenon DEF Incoming
    <3>4. CASE c.type \in Reads
      <4>1. PICK x : x = [addr |-> c.addr, left |-> RL + 1]
        BY Zenon
      <4>2. x \in DataPackets /\ x.left = RL + 1 /\ x.left > 1
        <5>1. RL + 1 \in Nat /\ RL + 1 > 1
          BY BurstNat
        <5>2. c.addr \in Addresses
          BY <3>1, Zenon DEF Packets
        <5> QED BY <4>1, <5>1, <5>2, Zenon DEF DataPackets
      <4>3. [x EXCEPT !.left = @ - 1] = [addr |-> c.addr, left |-> RL]
        <5>1. x.left - 1 = RL
          BY <4>2, BurstNat
        <5>2. ASSUME NEW w
              PROVE  [x EXCEPT !.left = w] = [addr |-> c.addr, left |-> w]
          BY <4>1, SMT
        <5>3. [x EXCEPT !.left = x.left - 1] = [addr |-> c.addr, left |-> x.left - 1]
          BY <5>2, Zenon
        <5> QED BY <5>1, <5>3, Zenon
      <4>4. PICK y : y = [x EXCEPT !.left = @ - 1]
        BY Zenon
      <4>5. /\ BusAfter(rk.outgoing, Append(rk.returning, x))
                 = BusAfter(rk.outgoing, rk.returning)
            /\ QueueAfter(Append(rk.returning, x)) = Append(QueueAfter(rk.returning), y)
        BY <4>2, <4>4, LaneStep, Zenon
      <4>6. Incoming(rk, c) = Append(rk.returning, x)
        BY <3>4, <4>1, Zenon DEF Incoming
      <4> QED BY <1>5, <3>2, <3>4, <4>3, <4>4, <4>5, <4>6, Zenon
    <3> QED BY <3>3, <3>4, Zenon
  <2> QED BY <2>1, <2>2, Zenon
<1> QED BY <1>2, <1>3, <1>6, Zenon DEF SameData

-----------------------------------------------------------------------------
(* One driver at a time *)

\* Two bursts that are on the bus now are not apart.
LEMMA OneSends ==
    ASSUME NEW B, NEW Q, NEW bs, Scheduled(B, Q, bs),
           NEW x \in Drivers, NEW y \in Drivers, B[x] # <<>>, B[y] # <<>>
    PROVE  x = y
<1> SUFFICES ASSUME x # y PROVE FALSE
  BY Zenon
<1>1. ASSUME NEW z \in Drivers, B[z] # <<>>
      PROVE  \E s \in Starts(B[z], Q[z]) : s \in Int /\ s <= 0 /\ 0 < s + Burst
  <2>1. /\ Train(B[z], Q[z]) /\ Len(B[z]) = 1 /\ B[z][1].left \in 1 .. Burst
        /\ B[z] \in Seq(DataPackets)
    BY <1>1, Zenon DEF Scheduled, Train
  <2>2. 1 \in DOMAIN B[z]
    BY <2>1
  <2>3. B[z][1].left - Burst \in Starts(B[z], Q[z])
    BY <2>2, Zenon DEF Starts
  <2>4. PICK s : s = B[z][1].left - Burst
    BY Zenon
  <2>5. s \in Int /\ s <= 0 /\ 0 < s + Burst
    BY <2>1, <2>4, BurstNat
  <2> QED BY <2>3, <2>4, <2>5, Zenon
<1>2. PICK s \in Starts(B[x], Q[x]) : s \in Int /\ s <= 0 /\ 0 < s + Burst
  BY <1>1, Zenon
<1>3. PICK u \in Starts(B[y], Q[y]) : u \in Int /\ u <= 0 /\ 0 < u + Burst
  BY <1>1, Zenon
<1>4. s + Burst <= u \/ u + Burst <= s
  BY Zenon DEF Scheduled, Apart
<1>5. Burst \in Nat
  BY BurstNat, Zenon
<1> QED BY <1>2, <1>3, <1>4, <1>5

LEMMA AtMostOne ==
    ASSUME NEW S, \A x, y \in S : x = y
    PROVE  /\ S = {} => Cardinality(S) = 0
           /\ S # {} => Cardinality(S) = 1
<1>1. CASE S = {}
  BY <1>1, FS_EmptySet, Zenon
<1>2. CASE S # {}
  <2>1. PICK x \in S : TRUE
    BY <1>2, Zenon
  <2>2. S = {x}
    BY <2>1, Zenon
  <2> QED BY <1>2, <2>2, FS_Singleton, Zenon
<1> QED BY <1>1, <1>2, Zenon

-----------------------------------------------------------------------------
(* Counting entries of sequences *)

LEMMA NumberNat ==
    ASSUME NEW S, NEW s \in Seq(S), NEW T
    PROVE  /\ IsFiniteSet({i \in DOMAIN s : s[i] \in T}) /\ NumberIn(s, T) \in Nat
           /\ NumberIn(s, T) = 0 <=> \A i \in DOMAIN s : s[i] \notin T
<1>1. PICK W : W = {i \in DOMAIN s : s[i] \in T}
  BY Zenon
<1>2. DOMAIN s = 1 .. Len(s) /\ Len(s) \in Int
  OBVIOUS
<1>3. IsFiniteSet(1 .. Len(s))
  BY <1>2, FS_Interval, SMT
<1>4. W \in SUBSET (1 .. Len(s))
  BY <1>1, <1>2, Zenon
<1>5. IsFiniteSet(W)
  BY <1>3, <1>4, FS_Subset, Zenon
<1>6. Cardinality(W) \in Nat
  BY <1>5, FS_CardinalityType, Zenon
<1>7. Cardinality(W) = 0 <=> W = {}
  BY <1>5, FS_EmptySet, Zenon
<1> QED BY <1>1, <1>5, <1>6, <1>7, Zenon DEF NumberIn

LEMMA NumberEmpty ==
    ASSUME NEW T
    PROVE  NumberIn(<<>>, T) = 0
<1>1. {i \in DOMAIN <<>> : <<>>[i] \in T} = {}
  OBVIOUS
<1> QED BY <1>1, FS_EmptySet, Zenon DEF NumberIn

Bit(b) == IF b THEN 1 ELSE 0

LEMMA NumberAppend ==
    ASSUME NEW S, NEW s \in Seq(S), NEW x \in S, NEW T
    PROVE  NumberIn(Append(s, x), T) = NumberIn(s, T) + Bit(x \in T)
<1>1. PICK W : W = {i \in DOMAIN s : s[i] \in T}
  BY Zenon
<1>2. PICK V : V = {i \in DOMAIN Append(s, x) : Append(s, x)[i] \in T}
  BY Zenon
<1>3. IsFiniteSet(W) /\ Cardinality(W) \in Nat
  BY <1>1, NumberNat, Zenon DEF NumberIn
<1>4. PICK n \in Nat : n = Len(s)
  OBVIOUS
<1>5. /\ DOMAIN s = 1 .. n /\ DOMAIN Append(s, x) = 1 .. n + 1
      /\ \A i \in 1 .. n : Append(s, x)[i] = s[i]
      /\ Append(s, x)[n + 1] = x
  BY <1>4
<1>6. n + 1 \notin 1 .. n /\ \A i : i \in 1 .. n + 1 <=> i \in 1 .. n \/ i = n + 1
  OBVIOUS
<1>7. V = IF x \in T THEN W \cup {n + 1} ELSE W
  <2>1. CASE x \in T
    <3>1. \A i : i \in V <=> i \in W \cup {n + 1}
      BY <1>1, <1>2, <1>5, <1>6, <2>1, Zenon
    <3> QED BY <2>1, <3>1, Zenon
  <2>2. CASE x \notin T
    <3>1. \A i : i \in V <=> i \in W
      BY <1>1, <1>2, <1>5, <1>6, <2>2, Zenon
    <3> QED BY <2>2, <3>1, Zenon
  <2> QED BY <2>1, <2>2, Zenon
<1>8. n + 1 \notin W
  BY <1>1, <1>5, <1>6, Zenon
<1>9. Cardinality(W \cup {n + 1}) = Cardinality(W) + 1
  BY <1>3, <1>8, FS_AddElement, Zenon
<1>10. Cardinality(W) = Cardinality(W) + 0
  BY <1>3
<1> QED BY <1>1, <1>2, <1>7, <1>9, <1>10, Zenon DEF NumberIn, Bit

\* t is s without the entries i to j, of which only the last can count; an entry
\* that stays may change as long as it counts as before.
CutsOut(s, t, T, i, j, d) ==
    /\ i \in 1 .. Len(s) /\ j \in i .. Len(s) /\ d = j - i + 1 /\ Len(t) = Len(s) - d
    /\ \A k \in 1 .. Len(t) : t[k] \in T <=> s[IF k < i THEN k ELSE k + d] \in T
    /\ \A k \in i .. j - 1 : s[k] \notin T

LEMMA NumberCut ==
    ASSUME NEW S, NEW s \in Seq(S), NEW t \in Seq(S), NEW T, NEW i, NEW j, NEW d,
           CutsOut(s, t, T, i, j, d)
    PROVE  NumberIn(s, T) = NumberIn(t, T) + Bit(s[j] \in T)
<1>0. /\ i \in 1 .. Len(s) /\ j \in i .. Len(s) /\ d = j - i + 1 /\ Len(t) = Len(s) - d
      /\ \A k \in 1 .. Len(t) : t[k] \in T <=> s[IF k < i THEN k ELSE k + d] \in T
      /\ \A k \in i .. j - 1 : s[k] \notin T
  BY Zenon DEF CutsOut
<1> USE <1>0
<1>1. PICK W : W = {k \in DOMAIN s : s[k] \in T}
  BY Zenon
<1>2. PICK V : V = {k \in DOMAIN t : t[k] \in T}
  BY Zenon
<1>3. /\ IsFiniteSet(W) /\ Cardinality(W) \in Nat
      /\ IsFiniteSet(V) /\ Cardinality(V) \in Nat
  BY <1>1, <1>2, NumberNat, Zenon DEF NumberIn
<1>4. DOMAIN s = 1 .. Len(s) /\ DOMAIN t = 1 .. Len(t) /\ Len(s) \in Nat /\ Len(t) \in Nat
  OBVIOUS
<1>5. i \in Nat /\ j \in Nat /\ i >= 1 /\ j <= Len(s) /\ i <= j
  BY <1>4
<1> DEFINE f == [k \in V |-> IF k < i THEN k ELSE k + d]
<1>6. ASSUME NEW k \in V
      PROVE  k \in 1 .. Len(t) /\ f[k] \in W \ {j}
  <2>1. k \in 1 .. Len(t) /\ t[k] \in T
    BY <1>2, <1>4, Zenon
  <2>2. (IF k < i THEN k ELSE k + d) \in 1 .. Len(s)
        /\ (IF k < i THEN k ELSE k + d) # j
    BY <1>4, <1>5, <2>1
  <2>3. s[IF k < i THEN k ELSE k + d] \in T
    BY <2>1, Zenon
  <2>4. f[k] = IF k < i THEN k ELSE k + d
    BY Zenon
  <2> QED BY <1>1, <1>4, <2>1, <2>2, <2>3, <2>4, Zenon
<1>7. ASSUME NEW k \in V, NEW m \in V, f[k] = f[m]
      PROVE  k = m
  <2>1. k \in 1 .. Len(t) /\ m \in 1 .. Len(t)
    BY <1>6, Zenon
  <2>2. f[k] = (IF k < i THEN k ELSE k + d) /\ f[m] = (IF m < i THEN m ELSE m + d)
    BY Zenon
  <2>3. (IF k < i THEN k ELSE k + d) = (IF m < i THEN m ELSE m + d)
    BY <1>7, <2>2, Zenon
  <2> HIDE DEF f
  <2> QED BY <1>4, <1>5, <2>1, <2>3
<1>8. ASSUME NEW m \in W \ {j}
      PROVE  \E k \in V : f[k] = m
  <2>1. m \in 1 .. Len(s) /\ s[m] \in T /\ m # j
    BY <1>1, <1>4, Zenon
  <2>2. m < i \/ m > j
    BY <1>4, <1>5, <2>1
  <2>3. PICK k : k = IF m < i THEN m ELSE m - d
    BY Zenon
  <2>4. k \in 1 .. Len(t) /\ (IF k < i THEN k ELSE k + d) = m
    BY <1>4, <1>5, <2>1, <2>2, <2>3
  <2>5. k \in V
    BY <1>2, <1>4, <2>1, <2>4, Zenon
  <2>6. f[k] = m
    BY <2>4, <2>5, Zenon
  <2> QED BY <2>5, <2>6, Zenon
<1>9. f \in Bijection(V, W \ {j})
  <2>1. f \in [V -> W \ {j}]
    BY <1>6, Zenon
  <2>2. DOMAIN f = V
    BY Zenon
  <2> HIDE DEF f
  <2>3. IsInjective(f)
    BY <1>7, <2>2, Zenon DEF IsInjective
  <2> QED BY <1>8, <2>1, <2>3, Zenon DEF Bijection, Injection, Surjection
<1> HIDE DEF f
<1>10. Cardinality(W \ {j}) = Cardinality(V)
  BY <1>3, <1>9, FS_Bijection, Zenon DEF ExistsBijection
<1>11. Cardinality(W \ {j}) = IF j \in W THEN Cardinality(W) - 1 ELSE Cardinality(W)
  BY <1>3, FS_RemoveElement, Zenon
<1>12. j \in W <=> s[j] \in T
  <2>1. j \in 1 .. Len(s)
    BY <1>4, <1>5
  <2> QED BY <1>1, <1>4, <2>1, Zenon
<1>13. CASE s[j] \in T
  <2>1. Cardinality(V) = Cardinality(W) - 1
    BY <1>10, <1>11, <1>12, <1>13, Zenon
  <2>2. \A x, y \in Nat : y = x - 1 => x = y + 1
    OBVIOUS
  <2>3. Cardinality(W) = Cardinality(V) + 1
    BY <1>3, <2>1, <2>2, Zenon
  <2> QED BY <1>1, <1>2, <1>13, <2>3, Zenon DEF NumberIn, Bit
<1>14. CASE s[j] \notin T
  <2>1. Cardinality(V) = Cardinality(W)
    BY <1>10, <1>11, <1>12, <1>14, Zenon
  <2>2. Cardinality(W) = Cardinality(V) + 0
    BY <1>3, <2>1, SMT
  <2> QED BY <1>1, <1>2, <1>14, <2>2, Zenon DEF NumberIn, Bit
<1> QED BY <1>13, <1>14, Zenon

LEMMA NumberSame ==
    ASSUME NEW S, NEW s \in Seq(S), NEW t \in Seq(S), NEW T, Len(t) = Len(s),
           \A k \in 1 .. Len(t) : t[k] \in T <=> s[k] \in T
    PROVE  NumberIn(s, T) = NumberIn(t, T)
<1>1. DOMAIN s = 1 .. Len(t) /\ DOMAIN t = 1 .. Len(t)
  OBVIOUS
<1>2. {k \in DOMAIN s : s[k] \in T} = {k \in DOMAIN t : t[k] \in T}
  BY <1>1, Zenon
<1> QED BY <1>2, Zenon DEF NumberIn

LEMMA NumberOne ==
    ASSUME NEW x, NEW T
    PROVE  NumberIn(<<x>>, T) = IF x \in T THEN 1 ELSE 0
<1>1. PICK W : W = {k \in DOMAIN <<x>> : <<x>>[k] \in T}
  BY Zenon
<1>2. DOMAIN <<x>> = {1} /\ <<x>>[1] = x
  OBVIOUS
<1>3. W = IF x \in T THEN {1} ELSE {}
  BY <1>1, <1>2, Zenon
<1>4. Cardinality({1}) = 1 /\ Cardinality({}) = 0
  BY FS_Singleton, FS_EmptySet, Zenon
<1> QED BY <1>1, <1>3, <1>4, Zenon DEF NumberIn

\* In a cycle of a driver no data is lost: what is on the bus or waits stays
\* there, but for the burst that ends.
Ends(bus) == bus # <<>> /\ bus[1].left = 1

LEMMA BusNumbers ==
    ASSUME NEW bus, NEW queue, Train(bus, queue), NEW a
    PROVE  NumberIn(bus, DataOf(a)) + NumberIn(queue, DataOf(a))
             = NumberIn(BusAfter(bus, queue), DataOf(a))
                 + NumberIn(QueueAfter(queue), DataOf(a))
                 + Bit(Ends(bus) /\ bus[1].addr = a)
<1>1. PICK T : T = DataOf(a)
  BY Zenon
<1>2. bus \in Seq(DataPackets) /\ queue \in Seq(DataPackets)
  BY Zenon DEF Train
<1>3. \A d \in DataPackets : d \in T <=> d.addr = a
  BY <1>1, Zenon DEF DataOf
<1>4. PICK w : w = Waiting(queue)
  BY Zenon
<1>5. /\ w \in Seq(DataPackets) /\ Len(w) = Len(queue)
      /\ \A k \in 1 .. Len(w) : w[k].addr = queue[k].addr
  <2>1. \A i \in DOMAIN queue : queue[i].left >= 1
    BY Zenon DEF Train
  <2>2. /\ w \in Seq(DataPackets) /\ Len(w) = Len(queue)
        /\ \A k \in 1 .. Len(queue) : w[k].addr = queue[k].addr
    BY <1>2, <1>4, <2>1, WaitingShape, Zenon
  <2> QED BY <2>2, Zenon
<1>6. \A k \in 1 .. Len(w) : w[k] \in T <=> queue[k] \in T
  BY <1>2, <1>3, <1>5
<1>7. NumberIn(queue, T) = NumberIn(w, T) /\ NumberIn(w, T) \in Nat
  <2>1. NumberIn(queue, T) = NumberIn(w, T)
    BY <1>2, <1>5, <1>6, NumberSame
  <2> QED BY <1>5, <2>1, NumberNat, Zenon
<1>8. NumberIn(bus, T) = IF bus = <<>> THEN 0 ELSE Bit(bus[1].addr = a)
  <2>1. CASE bus = <<>>
    BY <2>1, NumberEmpty, Zenon
  <2>2. CASE bus # <<>>
    <3>1. Len(bus) = 1
      BY <2>2, Zenon DEF Train
    <3>2. bus = <<bus[1]>> /\ bus[1] \in DataPackets
      BY <1>2, <3>1
    <3>3. NumberIn(<<bus[1]>>, T) = IF bus[1] \in T THEN 1 ELSE 0
      BY NumberOne, Zenon
    <3> QED BY <1>3, <2>2, <3>2, <3>3, Zenon DEF Bit
  <2> QED BY <2>1, <2>2, Zenon
<1>9. CASE Through(queue)
  <2>1. PICK x : x = [addr |-> w[1].addr, left |-> Burst]
    BY Zenon
  <2>2. BusAfter(bus, queue) = <<x>> /\ QueueAfter(queue) = Tail(w)
    BY <1>4, <1>9, <2>1, Zenon DEF BusAfter, QueueAfter
  <2>3. Len(w) \in Nat /\ Len(w) >= 1 /\ w[1] \in DataPackets
    BY <1>2, <1>5, <1>9 DEF Through
  <2>4. x \in DataPackets /\ x.addr = w[1].addr
    <3>1. w[1].addr \in Addresses
      BY <2>3, Zenon DEF DataPackets
    <3> QED BY <2>1, <3>1, BurstNat, Zenon DEF DataPackets
  <2>5. NumberIn(<<x>>, T) = Bit(w[1].addr = a)
    BY <1>3, <2>4, NumberOne, Zenon DEF Bit
  <2>6. NumberIn(w, T) = NumberIn(Tail(w), T) + Bit(w[1].addr = a)
    <3>1. PICK t : t = Tail(w)
      BY Zenon
    <3>2. PICK i, j, d : i = 1 /\ j = 1 /\ d = 1
      BY Zenon
    <3>3. t \in Seq(DataPackets) /\ Len(t) = Len(w) - d
      BY <1>5, <2>3, <3>1, <3>2
    <3>4. /\ i \in 1 .. Len(w) /\ j \in i .. Len(w) /\ d = j - i + 1
          /\ \A k \in i .. j - 1 : w[k] \notin T
      BY <1>5, <2>3, <3>2
    <3>5. \A k \in 1 .. Len(t) : t[k] = w[IF k < i THEN k ELSE k + d]
      BY <1>5, <2>3, <3>1, <3>2
    <3>6. \A k \in 1 .. Len(t) : t[k] \in T <=> w[IF k < i THEN k ELSE k + d] \in T
      BY <3>5, Zenon
    <3>7. w \in Seq(DataPackets)
      BY <1>5, Zenon
    <3>8. CutsOut(w, t, T, i, j, d)
      BY ONLY <3>3, <3>4, <3>6, Zenon DEF CutsOut
    <3>9. NumberIn(w, T) = NumberIn(t, T) + Bit(w[j] \in T)
      BY ONLY <3>3, <3>7, <3>8, NumberCut, Zenon
    <3> QED BY <1>3, <2>3, <3>1, <3>2, <3>9, Zenon DEF Bit
  <2>7. Sending(bus) = <<>>
    BY <1>9, TrainStep, Zenon
  <2>8. bus = <<>> \/ Ends(bus)
    BY <2>7 DEF Sending, Ends
  <2>9. NumberIn(bus, T) = Bit(Ends(bus) /\ bus[1].addr = a)
    BY <1>8, <2>8, Zenon DEF Ends, Bit
  <2>10. NumberIn(Tail(w), T) \in Nat
    <3>1. Tail(w) \in Seq(DataPackets)
      BY <1>5, <2>3
    <3> QED BY <3>1, NumberNat, Zenon
  <2>11. PICK e \in Nat : e = Bit(Ends(bus) /\ bus[1].addr = a)
    BY Zenon DEF Bit
  <2>12. PICK h \in Nat : h = Bit(w[1].addr = a)
    BY Zenon DEF Bit
  <2>13. NumberIn(bus, T) = e /\ NumberIn(queue, T) = NumberIn(Tail(w), T) + h
         /\ NumberIn(<<x>>, T) = h
    BY <1>7, <2>5, <2>6, <2>9, <2>11, <2>12, Zenon
  <2>14. NumberIn(bus, T) + NumberIn(queue, T)
           = NumberIn(<<x>>, T) + NumberIn(Tail(w), T) + e
    BY <2>10, <2>13, SMT
  <2> QED BY <1>1, <2>2, <2>11, <2>14, Zenon
<1>10. CASE ~ Through(queue)
  <2>1. BusAfter(bus, queue) = Sending(bus) /\ QueueAfter(queue) = w
    BY <1>4, <1>10, Zenon DEF BusAfter, QueueAfter
  <2>2. NumberIn(bus, T) = NumberIn(Sending(bus), T) + Bit(Ends(bus) /\ bus[1].addr = a)
    <3>1. CASE bus = <<>> \/ Ends(bus)
      <4>1. Sending(bus) = <<>>
        BY <3>1, Zenon DEF Sending, Ends
      <4>2. NumberIn(bus, T) = Bit(Ends(bus) /\ bus[1].addr = a)
        BY <1>8, <3>1, Zenon DEF Ends, Bit
      <4>3. \A b : Bit(b) = 0 + Bit(b)
        BY DEF Bit
      <4> QED BY <4>1, <4>2, <4>3, NumberEmpty, Zenon
    <3>2. CASE bus # <<>> /\ ~ Ends(bus)
      <4>1. PICK d \in DataPackets : d = bus[1]
        BY <1>2, <3>2
      <4>2. PICK x : x = [d EXCEPT !.left = @ - 1]
        BY Zenon
      <4>3. Sending(bus) = <<x>>
        BY <3>2, <4>1, <4>2, Zenon DEF Sending, Ends
      <4>4. x.addr = d.addr /\ x \in DataPackets
        <5>1. d.left \in Nat /\ d.left # 1
          BY <3>2, <4>1, Zenon DEF DataPackets, Ends
        <5>2. d.left \in 1 .. Burst
          BY <3>2, <4>1, Zenon DEF Train
        <5>3. d.left - 1 \in Nat
          BY <5>1, <5>2, BurstNat
        <5>4. x \in DataPackets
          BY <4>2, <5>3, Zenon DEF DataPackets
        <5> QED BY <4>2, <5>4, SMT DEF DataPackets
      <4>5. NumberIn(<<x>>, T) = Bit(d.addr = a)
        BY <1>3, <4>4, NumberOne, Zenon DEF Bit
      <4>6. NumberIn(bus, T) = Bit(d.addr = a)
        BY <1>8, <3>2, <4>1, Zenon
      <4>7. Bit(Ends(bus) /\ bus[1].addr = a) = 0
        BY <3>2 DEF Bit
      <4>8. PICK k : k = Bit(d.addr = a) /\ k = k + 0
        BY DEF Bit
      <4> QED BY <4>3, <4>5, <4>6, <4>7, <4>8, Zenon
    <3> QED BY <3>1, <3>2, Zenon
  <2>3. Sending(bus) \in Seq(DataPackets)
    BY <2>1, TrainStep, Zenon DEF Train
  <2>4. NumberIn(Sending(bus), T) \in Nat
    BY <2>3, NumberNat, Zenon
  <2>5. PICK e \in Nat : e = Bit(Ends(bus) /\ bus[1].addr = a)
    BY Zenon DEF Bit
  <2>6. NumberIn(bus, T) = NumberIn(Sending(bus), T) + e
    BY <2>2, <2>5, Zenon
  <2>7. NumberIn(bus, T) + NumberIn(queue, T)
          = NumberIn(Sending(bus), T) + NumberIn(w, T) + e
    BY <1>7, <2>4, <2>6, SMT
  <2> QED BY <1>1, <2>1, <2>5, <2>7, Zenon
<1> QED BY <1>9, <1>10, Zenon
=============================================================================
