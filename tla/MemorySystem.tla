----------------------------- MODULE MemorySystem -----------------------------
(***************************************************************************)
(* One channel: MemorySystem.cpp with its memory controller                *)
(* (MemoryController.cpp), command queue and ranks.  The program is one    *)
(* thread: a front end calls addTransaction any number of times, then      *)
(* update, which advances every part by one clock cycle.  Update is one    *)
(* action here; its steps appear in the order of the code.                 *)
(***************************************************************************)
EXTENDS CommandQueue, Rank

CONSTANT MAX_PENDING      \* bound on the overflow list, unbounded in the code

ASSUME PendingAssumption == MAX_PENDING \in Nat

\* Every rank's turn comes before its unsigned countdown could pass zero.
ASSUME RefreshAssumption == REFRESH_CYCLES = 0 \/ REFRESH_CYCLES >= NUM_RANKS

VARIABLES
    transactionQueue,     \* accepted, not yet split into commands
    pendingTransactions,  \* MARSS only: added while the queue was full
    cq,                   \* the command queue
    bankStates,           \* the controller's bank table
    ranks,                \* the ranks, each with a table of its own
    cmdBus,               \* outgoingCmdPacket, at most one
    dataBus,              \* outgoingDataPacket (write data), at most one
    writeData,            \* writeDataToSend and writeDataCountdown
    pendingReads,         \* pendingReadTransactions
    returnTransaction,    \* read data on its way to the CPU
    powerDown,
    refreshCountdown, refreshRank,
    done,                 \* the callbacks the last action made
    errors                \* why the controller called exit or abort

vars == <<transactionQueue, pendingTransactions, cq, bankStates, ranks, cmdBus,
          dataBus, writeData, pendingReads, returnTransaction, powerDown,
          refreshCountdown, refreshRank, done, errors>>

NoCallback == [reads |-> <<>>, writes |-> <<>>]
ErrorKinds == {"CommandBusCollision", "DataBusCollision", "QueueOverflow",
               "NoMatchingRead"}

Init ==
    /\ transactionQueue = <<>> /\ pendingTransactions = <<>>
    /\ cq = InitCommandQueue
    /\ bankStates = [r \in Ranks |-> [b \in Banks |-> InitBank]]
    /\ ranks = [r \in Ranks |-> InitRank]
    /\ cmdBus = <<>> /\ dataBus = <<>> /\ writeData = <<>>
    /\ pendingReads = <<>> /\ returnTransaction = <<>>
    /\ powerDown = [r \in Ranks |-> FALSE]
    /\ refreshCountdown = [r \in Ranks |-> (REFRESH_CYCLES \div NUM_RANKS) * (r + 1)]
    /\ refreshRank = 0
    /\ done = NoCallback /\ errors = {}

Stopped == errors # {} \/ \E r \in Ranks : ranks[r].error

\* Fault: one transaction too many is accepted.
WillAcceptOneMore(tq) == Len(tq) <= TRANS_QUEUE_DEPTH

WillAcceptTransaction(tq) == Len(tq) < TRANS_QUEUE_DEPTH
-----------------------------------------------------------------------------
(* MemorySystem::addTransaction(isWrite, addr): never refused. *)

AddTransaction(t) ==
    /\ ~ Stopped
    /\ IF WillAcceptTransaction(transactionQueue)
       THEN /\ transactionQueue' = Append(transactionQueue, t)
            /\ UNCHANGED pendingTransactions
       ELSE /\ Len(pendingTransactions) < MAX_PENDING
            /\ pendingTransactions' = Append(pendingTransactions, t)
            /\ UNCHANGED transactionQueue
    /\ done' = NoCallback
    /\ UNCHANGED <<cq, bankStates, ranks, cmdBus, dataBus, writeData,
                   pendingReads, returnTransaction, powerDown,
                   refreshCountdown, refreshRank, errors>>
-----------------------------------------------------------------------------
(* The steps of MemoryController::update *)

\* A bus carries one packet for a number of cycles.
BusEnds(bus) == bus # <<>> /\ bus[1].left = 1
BusStep(bus) ==
    IF bus = <<>> \/ BusEnds(bus) THEN <<>>
    ELSE <<[bus[1] EXCEPT !.left = @ - 1]>>

Deliver(rks) ==
    IF BusEnds(cmdBus)
    THEN [rks EXCEPT ![cmdBus[1].packet.addr.rank] =
             receiveFromBus(@, cmdBus[1].packet)]
    ELSE rks

WriteDone == IF BusEnds(dataBus) THEN <<dataBus[1].addr>> ELSE <<>>

\* Write data goes out a write latency after its command.
WriteWaiting ==
    [i \in DOMAIN writeData |-> [writeData[i] EXCEPT !.left = @ - 1]]
WriteReady == WriteWaiting # <<>> /\ WriteWaiting[1].left = 0
DataBusNext ==
    IF WriteReady THEN <<[addr |-> WriteWaiting[1].addr, left |-> Burst]>>
    ELSE BusStep(dataBus)

\* The refresh timer of one rank at a time is looked at.
RefreshDue == REFRESH_CYCLES # 0 /\ refreshCountdown[refreshRank] = 0
WakeForRefresh ==
    /\ REFRESH_CYCLES # 0 /\ ~ RefreshDue
    /\ powerDown[refreshRank] /\ refreshCountdown[refreshRank] <= tXP
\* Fault: the rank is not told of the refresh and sleeps on.
RefreshRequestForgotten(rks) == rks

RefreshRequest(rks) ==
    IF RefreshDue \/ WakeForRefresh
    THEN [rks EXCEPT ![refreshRank].refreshWaiting = TRUE] ELSE rks
RefreshTimers ==
    IF REFRESH_CYCLES = 0 THEN refreshCountdown
    ELSE [r \in Ranks |-> (IF RefreshDue /\ r = refreshRank
                           THEN REFRESH_CYCLES ELSE refreshCountdown[r]) - 1]

\* The first transaction whose command queue has room for two commands is
\* split; one per cycle.
Splittable(tq, q) ==
    {i \in DOMAIN tq : hasRoomFor(q, 2, tq[i].addr.rank, tq[i].addr.bank)}
Split(q, t) ==
    enqueue(enqueue(q, [type |-> "ACTIVATE", addr |-> t.addr]),
            [type |-> getBusPacketType(t), addr |-> t.addr])
Overflows(q) ==
    \E r \in Ranks, b \in Banks : Len(q.queues[r][b]) > CMD_QUEUE_DEPTH

\* A rank with nothing to do and all banks idle is powered down; it is powered
\* up again, tCKE later at the earliest, when there is something to do.
GoesDown(q, bs, rks, r) ==
    /\ USE_LOW_POWER /\ isEmpty(q, r) /\ ~ rks[r].refreshWaiting
    /\ \A b \in Banks : bs[r][b].state = "Idle"
\* Fault: the minimum power-down time tCKE is not waited for.
ComesUpAtOnce(q, bs, rks, r) ==
    /\ USE_LOW_POWER /\ ~ (isEmpty(q, r) /\ ~ rks[r].refreshWaiting)
    /\ powerDown[r]

\* Fault: a rank with work is woken only while no refresh waits for it.
ComesUpUnlessRefresh(q, bs, rks, r) ==
    /\ USE_LOW_POWER /\ ~ isEmpty(q, r) /\ ~ rks[r].refreshWaiting
    /\ bs[r][0].nextPowerUp = 0 /\ powerDown[r]

ComesUp(q, bs, rks, r) ==
    /\ USE_LOW_POWER /\ ~ (isEmpty(q, r) /\ ~ rks[r].refreshWaiting)
    /\ bs[r][0].nextPowerUp = 0 /\ powerDown[r]

\* Fault: returned data is given to the oldest read, whatever its address.
ReadMatchOldest(reads, addr) == IF reads = <<>> THEN 0 ELSE 1

\* Returned data goes to the oldest pending read of the same address.
ReadMatch(reads, addr) ==
    FirstOf({i \in DOMAIN reads : reads[i] = addr})
-----------------------------------------------------------------------------
(* MemorySystem::update, then one step of the clock.  The parts are in the    *)
(* order of the code; each works on what the earlier ones leave behind.       *)

\* The ranks come first, in their order, and read data that has reached the
\* controller.
Returns ==
    LET R == {r \in Ranks : Returned(ranks[r]) # <<>>}
        Nth(i) == CHOOSE r \in R : Cardinality({s \in R : s < r}) = i - 1
    IN  returnTransaction \o [i \in 1 .. Cardinality(R) |-> Returned(ranks[Nth(i)])[1]]

\* One transaction leaves the overflow list.
Admit == pendingTransactions # <<>> /\ WillAcceptTransaction(transactionQueue)
Admitted == IF Admit THEN Append(transactionQueue, Head(pendingTransactions))
            ELSE transactionQueue

BanksCountedDown ==
    LET CountedDown(r, b) == CountDown(bankStates[r][b]) IN Table(CountedDown)

\* The command of the cycle, if any, goes on the bus, its data later.
Send(p) ==
    /\ cmdBus' = IF p = None THEN BusStep(cmdBus)
                 ELSE <<[packet |-> p, left |-> tCMD]>>
    /\ dataBus' = DataBusNext
    /\ writeData' = (IF WriteReady THEN Tail(WriteWaiting) ELSE WriteWaiting)
                    \o (IF p.type \in Writes
                        THEN <<[addr |-> p.addr, left |-> WL]>> ELSE <<>>)

Power(bs, rks, down, up) ==
    LET Stepped(r, b) == BankStep(IF r \in down THEN BankPowerDown(bs[r][b])
                                  ELSE IF r \in up THEN BankPowerUp(bs[r][b])
                                  ELSE bs[r][b])
    IN  /\ bankStates' = Table(Stepped)
        /\ ranks' = [r \in Ranks |->
              RankStep(IF r \in down THEN RankPowerDown(rks[r])
                         ELSE IF r \in up THEN RankPowerUp(rks[r])
                         ELSE rks[r])]
        /\ powerDown' = [r \in Ranks |-> (powerDown[r] /\ r \notin up) \/ r \in down]

\* One read goes back to the CPU.
Return(p, q, reads, returns, match) ==
    /\ pendingReads' = IF match = 0 THEN reads ELSE Cut(reads, match, match)
    /\ returnTransaction' = IF returns = <<>> THEN <<>> ELSE Tail(returns)
    /\ done' = [reads |-> IF match = 0 THEN <<>> ELSE <<returns[1]>>,
                writes |-> WriteDone]
    /\ errors' =
         (IF p # None /\ BusStep(cmdBus) # <<>>
          THEN {"CommandBusCollision"} ELSE {})
         \cup (IF WriteReady /\ BusStep(dataBus) # <<>>
               THEN {"DataBusCollision"} ELSE {})
         \cup (IF Overflows(q) THEN {"QueueOverflow"} ELSE {})
         \cup (IF returns # <<>> /\ match = 0 THEN {"NoMatchingRead"} ELSE {})

Finish(p, q, bs, rks, reads, returns) ==
    /\ Send(p)
    /\ cq' = q
    /\ Power(bs, rks, {r \in Ranks : GoesDown(q, bs, rks, r)},
             {r \in Ranks : ComesUp(q, bs, rks, r)})
    /\ Return(p, q, reads, returns,
              IF returns = <<>> THEN 0 ELSE ReadMatch(reads, returns[1]))

\* popped is the command of the cycle, tq the transactions that may become
\* commands for the cycles to come.
Work(popped, bs, rks, tq, returns) ==
    LET split == Splittable(tq, popped.cq)
        i == Min(split)
        t == tq[i]
    IN  /\ transactionQueue' = IF split = {} THEN tq ELSE Cut(tq, i, i)
        /\ Finish(popped.packet,
                  IF split = {} THEN popped.cq ELSE Split(popped.cq, t),
                  OnCommand(bs, popped.packet), rks,
                  IF split # {} /\ t.type = "DATA_READ"
                  THEN Append(pendingReads, t.addr) ELSE pendingReads,
                  returns)

Update ==
    /\ ~ Stopped
    /\ pendingTransactions' =
         IF Admit THEN Tail(pendingTransactions) ELSE pendingTransactions
    /\ refreshCountdown' = RefreshTimers
    /\ refreshRank' = IF RefreshDue THEN (refreshRank + 1) % NUM_RANKS
                      ELSE refreshRank
    /\ Work(pop(IF RefreshDue THEN needRefresh(cq, refreshRank) ELSE cq,
                BanksCountedDown),
            BanksCountedDown,
            RefreshRequest(Deliver([r \in Ranks |-> RankUpdate(ranks[r])])),
            Admitted, Returns)
-----------------------------------------------------------------------------
Next == Update \/ \E t \in Transactions : AddTransaction(t)

Spec == Init /\ [][Next]_vars

\* The front end calls update once per memory clock cycle, for ever.
FairSpec == Spec /\ WF_vars(Update)
=============================================================================
