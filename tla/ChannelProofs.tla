----------------------------- MODULE ChannelProofs -----------------------------
(***************************************************************************)
(* The channel's two bank tables agree, so that no rank ever refuses what  *)
(* the controller sends it, and the bursts on the data bus never meet.     *)
(***************************************************************************)
EXTENDS ChannelScheduling, TableProofs, QueueProofs

\* The command bus holds at most the command of the last cycle.
BusOK == cmdBus = <<>> \/ \E p \in Packets : cmdBus = <<[packet |-> p, left |-> 1]>>

RanksOK == /\ ranks = [r \in Ranks |-> ranks[r]]
           /\ \A r \in Ranks : IsRank(ranks[r])

TransactionsOK == /\ transactionQueue \in Seq(Transactions)
                  /\ pendingTransactions \in Seq(Transactions)

\* The inductive invariant: the types that matter, orderly queues, TablesInv.
ChannelInv ==
    /\ QueueOK(cq) /\ Orderly(cq.queues)
    /\ bankStates \in Tables /\ RanksOK /\ BusOK /\ TransactionsOK
    /\ powerDown \in [Ranks -> BOOLEAN] /\ refreshRank \in Ranks
    /\ RanksNeverRefuse /\ TablesInv

-----------------------------------------------------------------------------

LEMMA InitChannel == Init => ChannelInv
<1> SUFFICES ASSUME Init PROVE ChannelInv
  BY Zenon
<1>1. QueueOK(cq) /\ Orderly(cq.queues)
  BY InitQueue, Zenon DEF Init
<1>2. bankStates \in Tables /\ \A r \in Ranks, b \in Banks : bankStates[r][b] = InitBank
  BY InitBankType, Zenon DEF Init, Tables
<1>3. IsRank(InitRank)
  BY InitBankType, Zenon DEF IsRank, InitRank
<1>4. RanksOK /\ \A r \in Ranks : ranks[r] = InitRank
  BY <1>3, Zenon DEF RanksOK, Init
<1>5. /\ ~ InitRank.error /\ ~ InitRank.isPowerDown
      /\ \A b \in Banks : InitRank.banks[b] = InitBank
  BY Zenon DEF InitRank
<1>6. \A r \in Ranks : Arrived(r) = InitRank
  BY <1>4, Zenon DEF Init, Arrived, InFlight
<1>7. powerDown \in [Ranks -> BOOLEAN] /\ \A r \in Ranks : powerDown[r] = FALSE
  BY Zenon DEF Init
<1>8. refreshRank \in Ranks
  BY GeometryAssumption DEF Init, Ranks
<1>9. BusOK /\ TransactionsOK
  BY DEF Init, BusOK, TransactionsOK
<1>10. PowerDownAgreed
  BY <1>2, <1>4, <1>5, <1>7 DEF PowerDownAgreed, InitBank, InitRank
<1>11. TablesInv
  <2>1. \A r \in Ranks : ~ Arrived(r).error /\ Arrived(r).isPowerDown = powerDown[r]
    <3>1. InitRank.isPowerDown = FALSE /\ ~ InitRank.error
      BY Zenon DEF InitRank
    <3> QED BY <1>6, <1>7, <3>1, Zenon
  <2>2. \A r \in Ranks, b \in Banks :
          /\ Agrees(bankStates[r][b], Arrived(r).banks[b])
          /\ powerDown[r] => bankStates[r][b].nextPowerUp = bankStates[r][0].nextPowerUp
    BY <1>2, <1>5, <1>6, <1>7, InitAgrees, Zenon
  <2> QED BY <1>10, <2>1, <2>2, Zenon DEF TablesInv
<1>12. RanksNeverRefuse
  BY <1>4, <1>5, Zenon DEF RanksNeverRefuse
<1> QED BY <1>1, <1>2, <1>4, <1>7, <1>8, <1>9, <1>11, <1>12, Zenon DEF ChannelInv

-----------------------------------------------------------------------------
(* The clock cycle *)

\* The ranks when they have been updated, the command on the bus has arrived
\* and a refresh has been asked for.
RanksNow == RefreshRequest(Deliver([r \in Ranks |-> RankUpdate(ranks[r])]))

\* Before the command of the cycle: the countdowns are taken, and the tables
\* agree on every rank.
LEMMA BeforeCommand ==
    /\ ChannelInv
    => /\ BanksCountedDown \in Tables
       /\ \A r \in Ranks : RankBefore(BanksCountedDown[r], RanksNow[r], powerDown[r])
<1>RanksNowShape.
    /\ ChannelInv
    => \A r \in Ranks : SameView(Arrived(r), RanksNow[r])
  <2>DeliverShape.
      ASSUME ChannelInv, NEW f, f = [r \in Ranks |-> RankUpdate(ranks[r])],
             NEW g, g = Deliver(f)
      PROVE  g = [r \in Ranks |-> g[r]] /\ \A r \in Ranks : SameView(Arrived(r), g[r])
    <3> USE <2>DeliverShape
    <3>1. \A r \in Ranks : IsRank(ranks[r]) /\ SameView(ranks[r], f[r])
      BY UpdateView, Zenon DEF ChannelInv, RanksOK
    <3>2. CASE cmdBus = <<>>
      BY <3>1, <3>2, Zenon DEF Deliver, BusEnds, Arrived, InFlight
    <3>3. CASE cmdBus # <<>>
      <4>1. PICK p \in Packets : cmdBus = <<[packet |-> p, left |-> 1]>>
        BY <3>3, Zenon DEF ChannelInv, BusOK
      <4>2. cmdBus[1].packet = p /\ cmdBus[1].left = 1
        BY <4>1, Zenon
      <4>3. g = [f EXCEPT ![p.addr.rank] = receiveFromBus(f[p.addr.rank], p)]
        BY <3>3, <4>2, Zenon DEF Deliver, BusEnds
      <4>4. ASSUME NEW r \in Ranks
            PROVE  SameView(Arrived(r), g[r])
        <5>1. SameView(receiveFromBus(ranks[r], p), receiveFromBus(f[r], p))
          BY <3>1, ReceiveView, Zenon
        <5> QED BY <3>1, <3>3, <4>2, <4>3, <5>1, Zenon DEF Arrived, InFlight
      <4> QED BY <4>3, <4>4, Zenon
    <3> QED BY <3>2, <3>3, Zenon

  <2> SUFFICES ASSUME ChannelInv
               PROVE  \A r \in Ranks : SameView(Arrived(r), RanksNow[r])
    BY Zenon
  <2>1. PICK f : f = [r \in Ranks |-> RankUpdate(ranks[r])]
    BY Zenon
  <2>2. PICK g : g = Deliver(f)
    BY Zenon
  <2>3. g = [r \in Ranks |-> g[r]] /\ \A r \in Ranks : SameView(Arrived(r), g[r])
    BY <2>1, <2>2, <2>DeliverShape, Zenon
  <2>4. RanksNow = RefreshRequest(g)
    BY <2>1, <2>2, Zenon DEF RanksNow
  <2>5. \A r \in Ranks : SameView(Arrived(r), [g[r] EXCEPT !.refreshWaiting = TRUE])
    BY <2>3, RequestView, Zenon
  <2>6. \A r \in Ranks : RanksNow[r] \in {g[r], [g[r] EXCEPT !.refreshWaiting = TRUE]}
    BY <2>3, <2>4, Zenon DEF RefreshRequest
  <2> QED BY <2>3, <2>5, <2>6, Zenon

<1> SUFFICES ASSUME ChannelInv
             PROVE  /\ BanksCountedDown \in Tables
                    /\ \A r \in Ranks : RankBefore(BanksCountedDown[r], RanksNow[r], powerDown[r])
  BY Zenon
<1>1. BanksCountedDown = [r \in Ranks |-> [b \in Banks |-> CountDown(bankStates[r][b])]]
  BY Zenon DEF BanksCountedDown, Table
<1>2. ASSUME NEW r \in Ranks
      PROVE  /\ BanksCountedDown[r] \in [Banks -> BankStates]
             /\ RankBefore(BanksCountedDown[r], RanksNow[r], powerDown[r])
  <2>1. bankStates[r] \in [Banks -> BankStates] /\ powerDown[r] \in BOOLEAN
    BY Zenon DEF ChannelInv, Tables
  <2>2. Matched(bankStates[r], Arrived(r), powerDown[r])
    BY <2>1, Zenon DEF ChannelInv, TablesInv, PowerDownAgreed, Matched
  <2>3. SameView(Arrived(r), RanksNow[r])
    BY <1>RanksNowShape, Zenon
  <2>4. BanksCountedDown[r] = [b \in Banks |-> CountDown(bankStates[r][b])]
    BY <1>1, Zenon
  <2> QED BY <2>1, <2>2, <2>3, <2>4, CountedDownBefore, Zenon
<1>3. BanksCountedDown \in Tables
  BY <1>1, <1>2, Zenon DEF Tables
<1> QED BY <1>2, <1>3, Zenon

-----------------------------------------------------------------------------
(* Commands in and out of the command queue *)

\* Two commands of one transaction join the queues, or none do.
JoinsOrNot(v, w) ==
    \/ w = v
    \/ \E a, k \in QueuedPackets : Pair(a, k) /\ Joins(v, w, a, k)

LEMMA AdmittedType ==
    ASSUME TransactionsOK
    PROVE  /\ Admitted \in Seq(Transactions)
           /\ (IF Admit THEN Tail(pendingTransactions) ELSE pendingTransactions)
                \in Seq(Transactions)
<1>1. transactionQueue \in Seq(Transactions) /\ pendingTransactions \in Seq(Transactions)
  BY Zenon DEF TransactionsOK
<1>2. CASE pendingTransactions # <<>>
  <2>1. /\ Head(pendingTransactions) \in Transactions
        /\ Tail(pendingTransactions) \in Seq(Transactions)
    BY <1>1, <1>2, SeqTail, Zenon
  <2>2. PICK h \in Transactions : h = Head(pendingTransactions)
    BY <2>1, Zenon
  <2>3. Append(transactionQueue, h) \in Seq(Transactions)
    BY <1>1
  <2> QED BY <1>1, <2>1, <2>2, <2>3, Zenon DEF Admitted
<1>3. CASE pendingTransactions = <<>>
  BY <1>1, <1>3, Zenon DEF Admitted, Admit
<1> QED BY <1>2, <1>3, Zenon

-----------------------------------------------------------------------------
(* The parts of Update *)

\* The outcome of pop in this cycle.
PoppedNow == pop(IF RefreshDue THEN needRefresh(cq, refreshRank) ELSE cq,
                 BanksCountedDown)

\* The command queue at the end of the cycle.
QueueNow ==
    LET split == Splittable(Admitted, PoppedNow.cq)
    IN  IF split = {} THEN PoppedNow.cq
        ELSE Split(PoppedNow.cq, Admitted[Min(split)])

LEMMA PoppedNowOK ==
    ASSUME ChannelInv
    PROVE  /\ PopOK(Contents(cq), BanksCountedDown, PoppedNow)
           /\ Orderly(PoppedNow.cq.queues)
           /\ Issued(BanksCountedDown, PoppedNow.packet)
<1> DEFINE c == IF RefreshDue THEN needRefresh(cq, refreshRank) ELSE cq
<1>1. QueueOK(cq) /\ Orderly(cq.queues) /\ refreshRank \in Ranks
  BY Zenon DEF ChannelInv
<1>2. QueueOK(c) /\ c.queues = cq.queues /\ Contents(c) = Contents(cq)
  BY <1>1, needRefreshOK, Zenon
<1>3. BanksCountedDown \in Tables
  BY BeforeCommand, Zenon
<1>4. PoppedNow = pop(c, BanksCountedDown)
  BY Zenon DEF PoppedNow
<1> HIDE DEF c
<1>5. PopOK(Contents(c), BanksCountedDown, pop(c, BanksCountedDown))
  BY <1>1, <1>2, <1>3, popOK, Zenon
<1>6. PopOK(Contents(cq), BanksCountedDown, PoppedNow)
  BY <1>2, <1>4, <1>5, Zenon
<1>7. Contents(cq).queues \in Queues /\ Orderly(Contents(cq).queues)
  BY <1>1, QueueFields, Zenon DEF QueueOK, Contents
<1>8. Follows(Contents(cq), BanksCountedDown, Contents(PoppedNow.cq), PoppedNow.packet)
  BY <1>6, Zenon DEF PopOK
<1>9. Orderly(PoppedNow.cq.queues)
  <2>1. Orderly(Contents(PoppedNow.cq).queues)
    BY <1>7, <1>8, FollowsOrderly, Zenon
  <2> QED BY <2>1, Zenon DEF Contents
<1>10. Issued(BanksCountedDown, PoppedNow.packet)
  BY <1>6, Zenon DEF PopOK, Issued
<1> QED BY <1>6, <1>9, <1>10, Zenon

\* A transaction that is split is an ACTIVATE and a column command of its kind.
SplitsInto(c, t, e) ==
    \E a, k \in QueuedPackets :
        /\ Pair(a, k) /\ Joins(Contents(c), Contents(e), a, k)
        /\ k.addr = t.addr /\ (k.type \in Reads <=> t.type = "DATA_READ")

LEMMA SplitOK ==
    ASSUME NEW c, QueueOK(c), Orderly(c.queues), NEW t \in Transactions,
           hasRoomFor(c, 2, t.addr.rank, t.addr.bank)
    PROVE  /\ QueueOK(Split(c, t)) /\ Orderly(Split(c, t).queues)
           /\ SplitsInto(c, t, Split(c, t))
<1>1. PICK x \in Addresses : x = t.addr
  BY Zenon DEF Transactions
<1>2. PICK a \in QueuedPackets : a = [type |-> "ACTIVATE", addr |-> x]
  BY Zenon DEF QueuedPackets
<1>3. PICK k \in QueuedPackets : k = [type |-> getBusPacketType(t), addr |-> x]
  BY Zenon DEF QueuedPackets, getBusPacketType
<1>4. a.addr = x /\ Pair(a, k)
  BY <1>2, <1>3, Zenon DEF Pair, getBusPacketType
<1>5. k.addr = t.addr /\ (k.type \in Reads <=> t.type = "DATA_READ")
  BY <1>1, <1>3, Zenon DEF getBusPacketType, Reads
<1>6. PICK e : e = enqueue(enqueue(c, a), k)
  BY Zenon
<1>7. QueueOK(e) /\ Orderly(e.queues) /\ Joins(Contents(c), Contents(e), a, k)
  BY <1>1, <1>4, <1>6, EnqueueTwo, Zenon
<1>8. e = Split(c, t)
  BY <1>1, <1>2, <1>3, <1>6, Zenon DEF Split
<1> QED BY <1>4, <1>5, <1>7, <1>8, Zenon DEF SplitsInto

\* The transaction that is split is one of the queue, and has room.
LEMMA SplitFirst ==
    ASSUME NEW tq \in Seq(Transactions), NEW c, NEW split,
           split = Splittable(tq, c), split # {}
    PROVE  LET i == Min(split)
           IN  /\ i \in DOMAIN tq /\ tq[i] \in Transactions
               /\ hasRoomFor(c, 2, tq[i].addr.rank, tq[i].addr.bank)
<1>1. DOMAIN tq = 1 .. Len(tq) /\ Len(tq) \in Nat
  BY SeqDomain, Zenon
<1>2. split \in SUBSET Nat
  BY <1>1 DEF Splittable
<1>3. Min(split) \in split
  BY <1>2, MinIn, Zenon
<1>4. PICK i \in DOMAIN tq : /\ i = Min(split)
                             /\ hasRoomFor(c, 2, tq[i].addr.rank, tq[i].addr.bank)
  BY <1>3, Zenon DEF Splittable
<1>5. tq[i] \in Transactions
  BY <1>1, <1>4, SeqElement, Zenon
<1> QED BY <1>4, <1>5, Zenon

LEMMA QueueNowOK ==
    /\ ChannelInv
    => /\ QueueOK(QueueNow) /\ Orderly(QueueNow.queues)
       /\ JoinsOrNot(Contents(PoppedNow.cq), Contents(QueueNow))
       /\ (LET split == Splittable(Admitted, PoppedNow.cq)
           IN  IF split = {} THEN Admitted ELSE Cut(Admitted, Min(split), Min(split)))
             \in Seq(Transactions)
\* Splitting: the transaction queue and the command queue of the next cycle.
<1>SplitStep.
    \A c, tq, split, q :
       /\ QueueOK(c) /\ Orderly(c.queues) /\ tq \in Seq(Transactions)
       /\ split = Splittable(tq, c)
       /\ q = (IF split = {} THEN c ELSE Split(c, tq[Min(split)]))
       => /\ QueueOK(q) /\ Orderly(q.queues) /\ JoinsOrNot(Contents(c), Contents(q))
          /\ (IF split = {} THEN tq ELSE Cut(tq, Min(split), Min(split))) \in Seq(Transactions)
  <2> SUFFICES ASSUME NEW c, NEW tq \in Seq(Transactions), NEW split, NEW q,
                      QueueOK(c), Orderly(c.queues), split = Splittable(tq, c),
                      q = (IF split = {} THEN c ELSE Split(c, tq[Min(split)]))
               PROVE  /\ QueueOK(q) /\ Orderly(q.queues) /\ JoinsOrNot(Contents(c), Contents(q))
                      /\ (IF split = {} THEN tq ELSE Cut(tq, Min(split), Min(split))) \in Seq(Transactions)
    BY Zenon
  <2>1. CASE split = {}
    BY <2>1, Zenon DEF JoinsOrNot
  <2>2. CASE split # {}
    <3>1. PICK i : i = Min(split)
      BY Zenon
    <3>2. /\ i \in DOMAIN tq /\ tq[i] \in Transactions
          /\ hasRoomFor(c, 2, tq[i].addr.rank, tq[i].addr.bank)
      BY <2>2, <3>1, SplitFirst, Zenon
    <3>3. PICK t \in Transactions : t = tq[i]
      BY <3>2, Zenon
    <3>4. hasRoomFor(c, 2, t.addr.rank, t.addr.bank)
      BY <3>2, <3>3, Zenon
    <3>5. /\ QueueOK(Split(c, t)) /\ Orderly(Split(c, t).queues)
          /\ SplitsInto(c, t, Split(c, t))
      BY <3>4, SplitOK, Zenon
    <3>6. JoinsOrNot(Contents(c), Contents(Split(c, t)))
      BY <3>5, Zenon DEF SplitsInto, JoinsOrNot
    <3>7. Cut(tq, i, i) \in Seq(Transactions)
      BY <3>2, CutOneType, Zenon
    <3> QED BY <2>2, <3>1, <3>3, <3>5, <3>6, <3>7, Zenon
  <2> QED BY <2>1, <2>2, Zenon

<1> SUFFICES ASSUME ChannelInv
             PROVE  /\ QueueOK(QueueNow) /\ Orderly(QueueNow.queues)
                    /\ JoinsOrNot(Contents(PoppedNow.cq), Contents(QueueNow))
                    /\ (LET split == Splittable(Admitted, PoppedNow.cq)
                        IN  IF split = {} THEN Admitted ELSE Cut(Admitted, Min(split), Min(split)))
                          \in Seq(Transactions)
  BY Zenon
<1>1. QueueOK(PoppedNow.cq) /\ Orderly(PoppedNow.cq.queues)
  BY PoppedNowOK, Zenon DEF PopOK
<1>2. Admitted \in Seq(Transactions)
  BY AdmittedType, Zenon DEF ChannelInv
<1>3. PICK split : split = Splittable(Admitted, PoppedNow.cq)
  BY Zenon
<1>4. QueueNow = IF split = {} THEN PoppedNow.cq
                 ELSE Split(PoppedNow.cq, Admitted[Min(split)])
  BY <1>3, Zenon DEF QueueNow
<1>5. /\ QueueOK(QueueNow) /\ Orderly(QueueNow.queues)
      /\ JoinsOrNot(Contents(PoppedNow.cq), Contents(QueueNow))
      /\ (IF split = {} THEN Admitted ELSE Cut(Admitted, Min(split), Min(split)))
           \in Seq(Transactions)
  <2>1. PICK c : c = PoppedNow.cq
    BY Zenon
  <2>2. PICK tq : tq = Admitted
    BY Zenon
  <2>3. PICK q : q = QueueNow
    BY Zenon
  <2>4. /\ QueueOK(c) /\ Orderly(c.queues) /\ tq \in Seq(Transactions)
        /\ split = Splittable(tq, c)
        /\ q = (IF split = {} THEN c ELSE Split(c, tq[Min(split)]))
    BY <1>1, <1>2, <1>3, <1>4, <2>1, <2>2, <2>3, Zenon
  <2>5. /\ QueueOK(q) /\ Orderly(q.queues) /\ JoinsOrNot(Contents(c), Contents(q))
        /\ (IF split = {} THEN tq ELSE Cut(tq, Min(split), Min(split))) \in Seq(Transactions)
    BY <2>4, <1>SplitStep, Zenon
  <2> QED BY <2>1, <2>2, <2>3, <2>5, Zenon
<1> QED BY <1>3, <1>5, Zenon

\* The ranks that are powered down and up at the end of the cycle.
Down == {r \in Ranks : GoesDown(QueueNow, OnCommand(BanksCountedDown, PoppedNow.packet),
                                RanksNow, r)}
Up == {r \in Ranks : ComesUp(QueueNow, OnCommand(BanksCountedDown, PoppedNow.packet),
                             RanksNow, r)}

LEMMA UpdateParts ==
    ASSUME Update
    PROVE  /\ Send(PoppedNow.packet) /\ cq' = QueueNow
           /\ Power(OnCommand(BanksCountedDown, PoppedNow.packet), RanksNow, Down, Up)
           /\ transactionQueue' =
                (LET split == Splittable(Admitted, PoppedNow.cq)
                 IN  IF split = {} THEN Admitted ELSE Cut(Admitted, Min(split), Min(split)))
           /\ pendingTransactions' =
                (IF Admit THEN Tail(pendingTransactions) ELSE pendingTransactions)
           /\ refreshRank' = IF RefreshDue THEN (refreshRank + 1) % NUM_RANKS
                             ELSE refreshRank
<1>1. Work(PoppedNow, BanksCountedDown, RanksNow, Admitted, Returns)
  BY Zenon DEF Update, PoppedNow, RanksNow
<1>2. PICK reads : Finish(PoppedNow.packet, QueueNow,
                          OnCommand(BanksCountedDown, PoppedNow.packet), RanksNow,
                          reads, Returns)
  BY <1>1, Zenon DEF Work, QueueNow
<1>3. /\ Send(PoppedNow.packet) /\ cq' = QueueNow
      /\ Power(OnCommand(BanksCountedDown, PoppedNow.packet), RanksNow, Down, Up)
  BY <1>2, Zenon DEF Finish, Down, Up
<1>4. transactionQueue' =
        (LET split == Splittable(Admitted, PoppedNow.cq)
         IN  IF split = {} THEN Admitted ELSE Cut(Admitted, Min(split), Min(split)))
  BY <1>1, Zenon DEF Work
<1>5. /\ pendingTransactions' =
           (IF Admit THEN Tail(pendingTransactions) ELSE pendingTransactions)
      /\ refreshRank' = IF RefreshDue THEN (refreshRank + 1) % NUM_RANKS
                        ELSE refreshRank
  BY Zenon DEF Update
<1> QED BY <1>3, <1>4, <1>5, Zenon

\* What the clock cycle does to the tables and to each rank.
LEMMA CycledNow ==
    ASSUME ChannelInv, Update, NEW bt, bt = OnCommand(BanksCountedDown, PoppedNow.packet)
    PROVE  /\ bankStates' = [r \in Ranks |-> bankStates'[r]]
           /\ ranks' = [r \in Ranks |-> ranks'[r]] /\ powerDown' \in [Ranks -> BOOLEAN]
           /\ \A r \in Ranks :
                 Cycled(bt[r], RanksNow[r], powerDown[r], r, Down, Up,
                        bankStates'[r], ranks'[r], powerDown'[r])
<1>1. Power(bt, RanksNow, Down, Up)
  BY UpdateParts, Zenon
<1>2. /\ \A r \in Down : \A b \in Banks : bt[r][b].state = "Idle"
      /\ \A r \in Up : powerDown[r] /\ bt[r][0].nextPowerUp = 0
  BY Zenon DEF Down, Up, GoesDown, ComesUp
<1>3. /\ bankStates' = [r \in Ranks |-> [b \in Banks |->
                          BankStep(IF r \in Down THEN BankPowerDown(bt[r][b])
                                   ELSE IF r \in Up THEN BankPowerUp(bt[r][b])
                                   ELSE bt[r][b])]]
      /\ ranks' = [r \in Ranks |-> RankStep(IF r \in Down THEN RankPowerDown(RanksNow[r])
                                            ELSE IF r \in Up THEN RankPowerUp(RanksNow[r])
                                            ELSE RanksNow[r])]
      /\ powerDown' = [r \in Ranks |-> (powerDown[r] /\ r \notin Up) \/ r \in Down]
  BY <1>1, Zenon DEF Power, Table
<1> HIDE DEF Down, Up
<1>4. ASSUME NEW r \in Ranks
      PROVE  Cycled(bt[r], RanksNow[r], powerDown[r], r, Down, Up,
                    bankStates'[r], ranks'[r], powerDown'[r])
  BY <1>2, <1>3, Zenon DEF Cycled
<1>5. /\ bankStates' = [r \in Ranks |-> bankStates'[r]]
      /\ ranks' = [r \in Ranks |-> ranks'[r]] /\ powerDown' \in [Ranks -> BOOLEAN]
  BY <1>3, Zenon
<1> QED BY <1>4, <1>5, Zenon

\* A clock cycle is a step of the scheduler: the command of the cycle, then the
\* commands of at most one transaction.
LEMMA UpdateSeen ==
    /\ ChannelInv /\ Update
    /\ SeenOrphans(SeenQueues(cq.queues), OpenRows(bankStates))
    => \E q1 :
          /\ SeesStep(SeenQueues(cq.queues), OpenRows(bankStates),
                      AccessCounts(cq.rowAccessCounters),
                      q1, OpenRows(bankStates'), AccessCounts(cq'.rowAccessCounters))
          /\ \/ SeenQueues(cq'.queues) = q1
             \/ \E b \in BankIds, row \in Rows :
                   SeesJoin(q1, SeenQueues(cq'.queues), b, row)
\* The command of the cycle opens or closes a row, and nothing else does; it
\* goes to an open row if it accesses or closes one.
<1>RowsNow.
    ASSUME ChannelInv, Update, NEW p, p = PoppedNow.packet
    PROVE  /\ OpenRows(BanksCountedDown) = OpenRows(bankStates)
           /\ RowsAfter(p, OpenRows(BanksCountedDown), OpenRows(bankStates'))
           /\ FindsOpen(BanksCountedDown, p)
  <2> USE <1>RowsNow
  <2>1. PICK bs \in Tables : bs = BanksCountedDown
    BY BeforeCommand, Zenon
  <2>2. Issued(bs, p) /\ \A r \in Ranks : RankBefore(bs[r], RanksNow[r], powerDown[r])
    BY <2>1, PoppedNowOK, BeforeCommand, Zenon
  <2>3. \A r \in Ranks :
          Cycled(OnCommand(bs, p)[r], RanksNow[r], powerDown[r], r, Down, Up,
                 bankStates'[r], ranks'[r], powerDown'[r])
    BY <2>1, CycledNow, Zenon
  <2>4. ASSUME NEW r \in Ranks, NEW b \in Banks
        PROVE  OpenRow(bs[r][b]) = OpenRow(bankStates[r][b])
    <3>1. bs[r][b] = CountDown(bankStates[r][b])
      BY <2>1, Zenon DEF BanksCountedDown, Table
    <3>2. bankStates[r][b] \in BankStates
      BY Zenon DEF ChannelInv, Tables
    <3>3. Agrees(bankStates[r][b], Arrived(r).banks[b])
      BY Zenon DEF ChannelInv, TablesInv
    <3> QED BY <3>1, <3>2, <3>3, CountDownRow, Zenon
  <2>5. ASSUME NEW r \in Ranks, NEW b \in Banks
        PROVE  NextOpen(bankStates'[r][b], p, r, b, bs[r][b])
    BY <2>2, <2>3, CycleRow, Zenon
  <2>6. OpenRows(bs) = OpenRows(bankStates)
    BY <2>4, Zenon DEF OpenRows, BankIds
  <2>7. RowsAfter(p, OpenRows(bs), OpenRows(bankStates'))
    <3>1. ASSUME NEW k \in BankIds
          PROVE  OpenRows(bankStates')[k]
                   = RowAfter(p, p # None /\ k = <<p.addr.rank, p.addr.bank>>, OpenRows(bs)[k])
      <4>1. PICK r \in Ranks, b \in Banks : k = <<r, b>>
        BY DEF BankIds
      <4>2. OpenRows(bankStates')[k] = OpenRow(bankStates'[r][b])
        BY <4>1, Zenon DEF OpenRows
      <4>3. OpenRows(bs)[k] = OpenRow(bs[r][b])
        BY <4>1, Zenon DEF OpenRows
      <4>4. (For(p, r) /\ p.addr.bank = b) <=> (p # None /\ k = <<p.addr.rank, p.addr.bank>>)
        BY <4>1, Zenon DEF For
      <4>5. NextOpen(bankStates'[r][b], p, r, b, bs[r][b])
        BY <2>5, Zenon
      <4> QED BY <4>2, <4>3, <4>4, <4>5, Zenon DEF RowAfter, NextOpen
    <3>2. OpenRows(bankStates') = [k \in BankIds |-> OpenRows(bankStates')[k]]
      BY Zenon DEF OpenRows
    <3> QED BY <3>1, <3>2, Zenon DEF RowsAfter
  <2>8. FindsOpen(bs, p)
    <3> SUFFICES ASSUME p.type \in Columns \cup {"PRECHARGE"}
                 PROVE  Open(bs[p.addr.rank][p.addr.bank])
      BY Zenon DEF FindsOpen
    <3>1. p # None
      <4>1. p.type # "none"
        BY Zenon DEF Columns, Reads, Writes
      <4> QED BY <4>1 DEF None
    <3>2. p \in Packets /\ Legal(bs, p)
      BY <2>2, <3>1, Zenon DEF Issued
    <3>3. p.addr.rank \in Ranks
      BY <3>2, Zenon DEF Packets, Addresses
    <3>4. RowAgrees(bs[p.addr.rank], RanksNow[p.addr.rank])
      BY <2>2, <3>3, Zenon DEF RankBefore
    <3> QED BY <3>2, <3>4, LegalOpen, Zenon
  <2> QED BY <2>1, <2>6, <2>7, <2>8, Zenon

<1> SUFFICES ASSUME ChannelInv, Update,
                    SeenOrphans(SeenQueues(cq.queues), OpenRows(bankStates))
             PROVE  \E q1 :
                       /\ SeesStep(SeenQueues(cq.queues), OpenRows(bankStates),
                                   AccessCounts(cq.rowAccessCounters),
                                   q1, OpenRows(bankStates'), AccessCounts(cq'.rowAccessCounters))
                       /\ \/ SeenQueues(cq'.queues) = q1
                          \/ \E b \in BankIds, row \in Rows :
                                SeesJoin(q1, SeenQueues(cq'.queues), b, row)
  BY Zenon
<1>1. PICK p : p = PoppedNow.packet
  BY Zenon
<1>2. PICK bs \in Tables : bs = BanksCountedDown
  BY BeforeCommand, Zenon
<1>3. PICK v : v = Contents(cq)
  BY Zenon
<1>4. PICK w : w = Contents(PoppedNow.cq)
  BY Zenon
<1>5. PICK u : u = Contents(QueueNow)
  BY Zenon
<1>6. /\ v.queues = cq.queues /\ v.counts = cq.rowAccessCounters
      /\ u.queues = cq'.queues /\ u.counts = cq'.rowAccessCounters
  BY <1>3, <1>5, UpdateParts, Zenon DEF Contents
<1>7. Follows(v, bs, w, p) /\ (p # None => Legal(bs, p)) /\ w.queues \in Queues
  <2>1. PopOK(v, bs, PoppedNow)
    BY <1>2, <1>3, PoppedNowOK, Zenon
  <2>2. Follows(v, bs, w, p) /\ (p # None => Legal(bs, p)) /\ QueueOK(PoppedNow.cq)
    BY <1>1, <1>4, <2>1, Zenon DEF PopOK
  <2>3. PoppedNow.cq.queues \in Queues
    BY <2>2, QueueFields, Zenon DEF QueueOK
  <2> QED BY <1>4, <2>2, <2>3, Zenon DEF Contents
<1>8. JoinsOrNot(w, u)
  BY <1>4, <1>5, QueueNowOK, Zenon
<1>9. /\ OpenRows(bs) = OpenRows(bankStates)
      /\ RowsAfter(p, OpenRows(bs), OpenRows(bankStates')) /\ FindsOpen(bs, p)
  BY <1>1, <1>2, <1>RowsNow, Zenon
<1>10. PICK q : q = SeenQueues(v.queues)
  BY Zenon
<1>11. PICK o : o = OpenRows(bs)
  BY Zenon
<1>12. PICK c : c = AccessCounts(v.counts)
  BY Zenon
<1>13. ViewOf(v, bs, q, o, c)
  <2>1. /\ cq.queues \in Queues /\ cq.rowAccessCounters \in Counters
        /\ Orderly(cq.queues)
    BY QueueFields, Zenon DEF ChannelInv, QueueOK
  <2> QED BY <1>6, <1>10, <1>11, <1>12, <2>1, Zenon DEF ViewOf
<1>14. SeenOrphans(q, o)
  BY <1>6, <1>9, <1>10, <1>11, Zenon
<1>15. SeesStep(q, o, c, SeenQueues(w.queues), OpenRows(bankStates'),
                AccessCounts(w.counts))
  BY <1>7, <1>9, <1>11, <1>13, <1>14, FollowsSeen, Zenon
<1>16. CASE u = w
  BY <1>6, <1>9, <1>10, <1>11, <1>12, <1>15, <1>16, Zenon
<1>17. ASSUME NEW a \in QueuedPackets, NEW k \in QueuedPackets,
              Pair(a, k), Joins(w, u, a, k)
       PROVE  /\ u.counts = w.counts
              /\ \E b \in BankIds, row \in Rows :
                    SeesJoin(SeenQueues(w.queues), SeenQueues(u.queues), b, row)
  <2>1. u.counts = w.counts
    BY <1>17, Zenon DEF Joins
  <2> QED BY <1>7, <1>17, <2>1, JoinSeen, Zenon
<1>18. CASE \E a, k \in QueuedPackets : Pair(a, k) /\ Joins(w, u, a, k)
  <2>1. /\ u.counts = w.counts
        /\ \E b \in BankIds, row \in Rows :
              SeesJoin(SeenQueues(w.queues), SeenQueues(u.queues), b, row)
    BY <1>17, <1>18, Zenon
  <2> QED BY <1>6, <1>9, <1>10, <1>11, <1>12, <1>15, <2>1, Zenon
<1> QED BY <1>8, <1>16, <1>18, Zenon DEF JoinsOrNot

\* The two exits of the controller that only the command path can reach.
CommandErrors == {"CommandBusCollision", "QueueOverflow"}

LEMMA UpdateReturns ==
    ASSUME Update
    PROVE  \E reads, match : Return(PoppedNow.packet, QueueNow, reads, Returns, match)
<1>1. Work(PoppedNow, BanksCountedDown, RanksNow, Admitted, Returns)
  BY Zenon DEF Update, PoppedNow, RanksNow
<1>2. PICK reads : Finish(PoppedNow.packet, QueueNow,
                          OnCommand(BanksCountedDown, PoppedNow.packet), RanksNow,
                          reads, Returns)
  BY <1>1, Zenon DEF Work, QueueNow
<1> QED BY <1>2, Zenon DEF Finish

LEMMA UpdateErrors ==
    ASSUME ChannelInv, Update
    PROVE  errors' \cap CommandErrors = {}
<1>1. BusStep(cmdBus) = <<>>
  <2>1. CASE cmdBus = <<>>
    BY <2>1, Zenon DEF BusStep
  <2>2. ASSUME NEW p \in Packets, cmdBus = <<[packet |-> p, left |-> 1]>>
        PROVE  BusEnds(cmdBus)
    BY <2>2, Zenon DEF BusEnds
  <2> QED BY <2>1, <2>2, Zenon DEF ChannelInv, BusOK, BusStep
<1>2. ~ Overflows(QueueNow)
  <2>1. Orderly(QueueNow.queues) /\ QueueOK(QueueNow)
    BY QueueNowOK, Zenon
  <2>2. ASSUME NEW r \in Ranks, NEW b \in Banks
        PROVE  ~ (Len(QueueNow.queues[r][b]) > CMD_QUEUE_DEPTH)
    <3>1. QueueNow.queues[r][b] \in Seq(QueuedPackets)
      BY <2>1, QueueFields, Zenon DEF QueueOK, Queues
    <3>2. Len(QueueNow.queues[r][b]) \in Nat
      BY <3>1, SeqDomain, Zenon
    <3> QED BY <2>1, <3>2, GeometryAssumption DEF Orderly
  <2> QED BY <2>2, Zenon DEF Overflows
<1>3. PICK reads, match : Return(PoppedNow.packet, QueueNow, reads, Returns, match)
  BY UpdateReturns, Zenon
<1>4. errors' \subseteq {"DataBusCollision", "NoMatchingRead"}
  BY <1>1, <1>2, <1>3, Zenon DEF Return
<1> QED BY <1>4, Zenon DEF CommandErrors

LEMMA AgreedNow ==
    ASSUME ChannelInv
    PROVE  TablesAgree
<1> SUFFICES ASSUME NEW r \in Ranks, NEW b \in Banks,
                    bankStates[r][b].state = "RowActive", ~ InFlight(r),
                    bankStates[r][b].lastCommand \notin {"READ_P", "WRITE_P"}
             PROVE  LET mine == bankStates[r][b]
                        theirs == ranks[r].banks[b]
                    IN  /\ theirs.state = "RowActive" /\ theirs.row = mine.row
                        /\ theirs.nextRead <= mine.nextRead + tCMD
                        /\ theirs.nextWrite <= mine.nextWrite + tCMD
                        /\ theirs.nextPrecharge <= mine.nextPrecharge + tCMD
  BY Zenon DEF TablesAgree
<1>1. Agrees(bankStates[r][b], Arrived(r).banks[b])
  BY Zenon DEF ChannelInv, TablesInv
<1>2. Arrived(r) = ranks[r]
  BY Zenon DEF Arrived
<1> QED BY <1>1, <1>2, CommandAssumption, Zenon DEF Agrees, Open, Closing

-----------------------------------------------------------------------------
(* The theorems *)

\* The command of the cycle is on the bus in the next, on its way to its rank.
LEMMA CommandOnBus ==
    ASSUME ChannelInv, Update, NEW p, p = PoppedNow.packet
    PROVE  /\ cmdBus' = IF p = None THEN <<>> ELSE <<[packet |-> p, left |-> 1]>>
           /\ BusOK'
           /\ \A r \in Ranks :
                 Arrived(r)' = IF For(p, r) THEN receiveFromBus(ranks'[r], p)
                               ELSE ranks'[r]
<1>1. BusStep(cmdBus) = <<>>
  BY DEF ChannelInv, BusOK, BusStep, BusEnds
<1>2. cmdBus' = IF p = None THEN <<>> ELSE <<[packet |-> p, left |-> 1]>>
  BY <1>1, UpdateParts, CommandAssumption, Zenon DEF Send
<1>3. p # None => p \in Packets
  BY PoppedNowOK, Zenon DEF Issued
<1>4. BusOK'
  BY <1>2, <1>3, Zenon DEF BusOK
<1>5. ASSUME NEW r \in Ranks
      PROVE  Arrived(r)' = IF For(p, r) THEN receiveFromBus(ranks'[r], p)
                           ELSE ranks'[r]
  <2>1. CASE p = None
    BY <1>2, <2>1, Zenon DEF Arrived, InFlight, For
  <2>2. CASE p # None
    <3>1. cmdBus' # <<>> /\ cmdBus'[1].packet = p
      BY <1>2, <2>2, Zenon
    <3> QED BY <2>2, <3>1, Zenon DEF Arrived, InFlight, For
  <2> QED BY <2>1, <2>2, Zenon
<1> QED BY <1>2, <1>4, <1>5, Zenon

LEMMA NextKeeps ==
    /\ ChannelInv /\ [Next]_vars
    => ChannelInv'
<1>AddKeeps.
    ASSUME ChannelInv, NEW t \in Transactions, AddTransaction(t)
    PROVE  ChannelInv'
  <2> USE <1>AddKeeps
  <2>1. TransactionsOK'
    <3>1. /\ transactionQueue \in Seq(Transactions)
          /\ pendingTransactions \in Seq(Transactions)
      BY Zenon DEF ChannelInv, TransactionsOK
    <3>2. /\ transactionQueue' \in {transactionQueue, Append(transactionQueue, t)}
          /\ pendingTransactions' \in {pendingTransactions, Append(pendingTransactions, t)}
      BY Zenon DEF AddTransaction
    <3>3. /\ Append(transactionQueue, t) \in Seq(Transactions)
          /\ Append(pendingTransactions, t) \in Seq(Transactions)
      BY <3>1
    <3> QED BY <3>1, <3>2, <3>3, Zenon DEF TransactionsOK
  <2>2. UNCHANGED <<cq, bankStates, ranks, cmdBus, powerDown, refreshRank>>
    BY Zenon DEF AddTransaction
  <2>3. /\ QueueOK(cq)' /\ Orderly(cq.queues)' /\ (bankStates \in Tables)'
        /\ RanksOK' /\ BusOK' /\ (powerDown \in [Ranks -> BOOLEAN])'
        /\ (refreshRank \in Ranks)'
    BY <2>2, Zenon DEF ChannelInv, RanksOK, BusOK
  <2>4. TablesInv'
    BY <2>2 DEF ChannelInv, TablesInv, Arrived, InFlight, PowerDownAgreed
  <2>5. RanksNeverRefuse'
    BY <2>2, Zenon DEF ChannelInv, RanksNeverRefuse
  <2> QED BY <2>1, <2>3, <2>4, <2>5, Zenon DEF ChannelInv

<1>StutterKeeps.
    ASSUME ChannelInv, UNCHANGED vars
    PROVE  ChannelInv'
  <2> USE <1>StutterKeeps
  <2>1. UNCHANGED <<cq, bankStates, ranks, cmdBus, powerDown, refreshRank,
                    transactionQueue, pendingTransactions>>
    BY Zenon DEF vars
  <2>2. /\ QueueOK(cq)' /\ Orderly(cq.queues)' /\ (bankStates \in Tables)'
        /\ RanksOK' /\ BusOK' /\ (powerDown \in [Ranks -> BOOLEAN])'
        /\ (refreshRank \in Ranks)' /\ TransactionsOK'
    BY <2>1, Zenon DEF ChannelInv, RanksOK, BusOK, TransactionsOK
  <2>3. TablesInv'
    BY <2>1 DEF ChannelInv, TablesInv, Arrived, InFlight, PowerDownAgreed
  <2>4. RanksNeverRefuse'
    BY <2>1, Zenon DEF ChannelInv, RanksNeverRefuse
  <2> QED BY <2>2, <2>3, <2>4, Zenon DEF ChannelInv

<1>UpdateKeeps.
    /\ ChannelInv /\ Update
    => ChannelInv'
  \* At the end of the cycle the tables agree on every rank.
  <2>AfterCommand.
      ASSUME ChannelInv, Update
      PROVE  /\ bankStates' \in Tables /\ ranks' = [r \in Ranks |-> ranks'[r]]
             /\ powerDown' \in [Ranks -> BOOLEAN]
             /\ \A r \in Ranks :
                   RankAfter(bankStates'[r], ranks'[r], Arrived(r)', powerDown'[r])
    <3> USE <2>AfterCommand
    <3>1. PICK p : p = PoppedNow.packet
      BY Zenon
    <3>2. PICK bs \in Tables : bs = BanksCountedDown
      BY BeforeCommand, Zenon
    <3>3. Issued(bs, p) /\ \A r \in Ranks : RankBefore(bs[r], RanksNow[r], powerDown[r])
      BY <3>1, <3>2, PoppedNowOK, BeforeCommand, Zenon
    <3>4. \A r \in Ranks : Arrived(r)' = IF For(p, r) THEN receiveFromBus(ranks'[r], p)
                                         ELSE ranks'[r]
      BY <3>1, CommandOnBus, Zenon
    <3>5. /\ bankStates' = [r \in Ranks |-> bankStates'[r]]
          /\ ranks' = [r \in Ranks |-> ranks'[r]] /\ powerDown' \in [Ranks -> BOOLEAN]
          /\ \A r \in Ranks :
                Cycled(OnCommand(bs, p)[r], RanksNow[r], powerDown[r], r, Down, Up,
                       bankStates'[r], ranks'[r], powerDown'[r])
      BY <3>1, <3>2, CycledNow, Zenon
    <3>6. ASSUME NEW r \in Ranks
          PROVE  RankAfter(bankStates'[r], ranks'[r], Arrived(r)', powerDown'[r])
      BY <3>3, <3>4, <3>5, RankCycle, Zenon
    <3>7. bankStates' \in Tables
      <4>1. \A r \in Ranks : bankStates'[r] \in [Banks -> BankStates]
        BY <3>6, Zenon DEF RankAfter
      <4> QED BY <3>5, <4>1, Zenon DEF Tables
    <3> QED BY <3>5, <3>6, <3>7, Zenon

  <2> SUFFICES ASSUME ChannelInv, Update
               PROVE  ChannelInv'
    BY Zenon
  <2>1. QueueOK(cq)' /\ Orderly(cq.queues)' /\ TransactionsOK'
    <3>1. TransactionsOK
      BY Zenon DEF ChannelInv
    <3> QED BY <3>1, QueueNowOK, AdmittedType, UpdateParts, Zenon DEF TransactionsOK
  <2>2. (refreshRank \in Ranks)'
    <3>1. refreshRank \in Ranks /\ NUM_RANKS \in Nat \ {0}
      BY GeometryAssumption, Zenon DEF ChannelInv
    <3>2. (refreshRank + 1) % NUM_RANKS \in Ranks
      BY <3>1 DEF Ranks
    <3> QED BY <3>1, <3>2, UpdateParts, Zenon
  <2>3. /\ bankStates' \in Tables /\ ranks' = [r \in Ranks |-> ranks'[r]]
        /\ powerDown' \in [Ranks -> BOOLEAN]
        /\ \A r \in Ranks :
              RankAfter(bankStates'[r], ranks'[r], Arrived(r)', powerDown'[r])
    BY <2>AfterCommand, Zenon
  <2>4. BusOK'
    BY CommandOnBus, Zenon
  <2>5. RanksOK'
    BY <2>3, Zenon DEF RankAfter, RanksOK
  <2>6. PowerDownAgreed'
    BY <2>3, Zenon DEF RankAfter, PowerDownAgreed
  <2>7. TablesInv'
    <3>1. \A r \in Ranks : ~ Arrived(r)'.error /\ Arrived(r)'.isPowerDown = powerDown'[r]
      BY <2>3, Zenon DEF RankAfter
    <3>2. \A r \in Ranks, b \in Banks :
            /\ Agrees(bankStates'[r][b], Arrived(r)'.banks[b])
            /\ powerDown'[r] => bankStates'[r][b].nextPowerUp = bankStates'[r][0].nextPowerUp
      BY <2>3, Zenon DEF RankAfter
    <3> QED BY <2>6, <3>1, <3>2, Zenon DEF TablesInv
  <2>8. RanksNeverRefuse'
    BY <2>3, Zenon DEF RankAfter, RanksNeverRefuse
  <2> QED BY <2>1, <2>2, <2>3, <2>4, <2>5, <2>7, <2>8, Zenon DEF ChannelInv

<1> SUFFICES ASSUME ChannelInv, [Next]_vars
             PROVE  ChannelInv'
  BY Zenon
<1> QED BY <1>AddKeeps, <1>UpdateKeeps, <1>StutterKeeps, Zenon DEF Next

\* The inductive invariant holds: whatever transactions come and whenever, the
\* controller's bank table (MemoryController::bankStates) agrees with what each
\* rank's own table will be when the command on the bus has arrived.
THEOREM ChannelInvariant == Spec => []ChannelInv
  BY InitChannel, NextKeeps, PTL DEF Spec

\* No rank ever receives a command, a power-down or a power-up it has to
\* refuse: the error exits of Rank::receiveFromBus, powerDown and powerUp
\* are never taken.
THEOREM NeverRefused == Spec => []RanksNeverRefuse
<1>1. ChannelInv => RanksNeverRefuse
  BY Zenon DEF ChannelInv
<1> QED BY <1>1, ChannelInvariant, PTL

\* The controller's flag and table and the rank's flag and table never differ
\* on whether the rank is powered down.
THEOREM PowerDownOneState == Spec => []PowerDownAgreed
<1>1. ChannelInv => PowerDownAgreed
  BY Zenon DEF ChannelInv, TablesInv
<1> QED BY <1>1, ChannelInvariant, PTL

\* A row the controller believes open, with no command on its way to the rank,
\* is open in the rank, and the rank's deadlines are at most one cycle later.
THEOREM TablesInStep == Spec => []TablesAgree
<1>1. ChannelInv => TablesAgree
  BY AgreedNow, Zenon
<1> QED BY <1>1, ChannelInvariant, PTL

\* The controller never puts a command on an occupied bus and never overfills a
\* command queue: those two exits (MemoryController::update, CommandQueue::
\* enqueue) are never taken.
THEOREM CommandsAlwaysFit == Spec => [](errors \cap CommandErrors = {})
<1>1. Init => errors \cap CommandErrors = {}
  BY Zenon DEF Init
<1>2. ChannelInv /\ errors \cap CommandErrors = {} /\ [Next]_vars
        => (errors \cap CommandErrors = {})'
  BY UpdateErrors, Zenon DEF Next, AddTransaction, vars
<1> QED BY <1>1, <1>2, ChannelInvariant, PTL DEF Spec

-----------------------------------------------------------------------------
(* The data bus *)

\* What has happened to a rank when the command of the cycle is chosen: it has
\* been updated and has received the command on the bus, if that is for it, and
\* may have been asked for a refresh.
LEMMA RankArrives ==
    ASSUME ChannelInv, NEW r \in Ranks, NEW g,
           g = IF Arriving(r) = None THEN RankUpdate(ranks[r])
               ELSE receiveFromBus(RankUpdate(ranks[r]), Arriving(r))
    PROVE  /\ Arriving(r) \in Packets \cup {None}
           /\ RanksNow[r] \in {g, [g EXCEPT !.refreshWaiting = TRUE]}
<1>1. PICK f : f = [s \in Ranks |-> RankUpdate(ranks[s])]
  BY Zenon
<1>2. PICK h : h = Deliver(f)
  BY Zenon
<1>3. /\ Arriving(r) \in Packets \cup {None} /\ h[r] = g
      /\ h = [s \in Ranks |-> h[s]]
  <2>1. CASE cmdBus = <<>>
    BY <1>1, <1>2, <2>1, Zenon DEF Arriving, InFlight, Deliver, BusEnds
  <2>2. CASE cmdBus # <<>>
    <3>1. PICK p \in Packets : cmdBus = <<[packet |-> p, left |-> 1]>>
      BY <2>2, Zenon DEF ChannelInv, BusOK
    <3>2. cmdBus[1].packet = p /\ cmdBus[1].left = 1
      BY <3>1, Zenon
    <3>3. h = [f EXCEPT ![p.addr.rank] = receiveFromBus(f[p.addr.rank], p)]
      BY <1>2, <2>2, <3>2, Zenon DEF Deliver, BusEnds
    <3>4. p # None
      <4>1. p.type \in Commands /\ None.type = "none"
        BY Zenon DEF Packets, None
      <4>2. "none" \notin Commands
        BY Zenon DEF Commands, Columns, Reads, Writes
      <4> QED BY <4>1, <4>2, Zenon
    <3>5. Arriving(r) = IF p.addr.rank = r THEN p ELSE None
      BY <2>2, <3>2, Zenon DEF Arriving, InFlight
    <3> QED BY <1>1, <3>3, <3>4, <3>5, Zenon
  <2> QED BY <2>1, <2>2, Zenon
<1>4. RanksNow = RefreshRequest(h)
  BY <1>1, <1>2, Zenon DEF RanksNow
<1> QED BY <1>3, <1>4, Zenon DEF RefreshRequest

\* A clock cycle is a cycle of every driver of the data bus, and the command of
\* the cycle adds its burst to those of its driver.
LEMMA DataNow ==
    /\ ChannelInv /\ DataBusInv /\ Update
    => LET p == PoppedNow.packet
       IN  \A x \in Drivers :
              /\ Buses'[x] = BusAfter(Buses[x], Lanes[x])
              /\ Lanes'[x] = IF Uses(p, x)
                             THEN Append(QueueAfter(Lanes[x]),
                                         [addr |-> p.addr, left |-> Slot(p)])
                             ELSE QueueAfter(Lanes[x])
              /\ x \in Ranks => ranks'[x].returning = QueueAfter(Lanes[x])
<1> SUFFICES ASSUME ChannelInv, DataBusInv, Update, NEW p, p = PoppedNow.packet,
                    NEW x \in Drivers
             PROVE  /\ Buses'[x] = BusAfter(Buses[x], Lanes[x])
                    /\ Lanes'[x] = IF Uses(p, x)
                                   THEN Append(QueueAfter(Lanes[x]),
                                               [addr |-> p.addr, left |-> Slot(p)])
                                   ELSE QueueAfter(Lanes[x])
                    /\ x \in Ranks => ranks'[x].returning = QueueAfter(Lanes[x])
  BY Zenon
<1>1. /\ Train(Buses[x], Lanes[x]) /\ Lanes[x] \in Seq(DataPackets)
  BY Zenon DEF DataBusInv, Scheduled, Train
<1>2. Send(p)
  BY UpdateParts, Zenon
<1>3. p # None => p \in Packets
  BY PoppedNowOK, Zenon DEF Issued
<1>4. p.type \in Columns => p \in Packets /\ p.addr \in Addresses /\ p.addr.rank \in Ranks
  <2>1. None.type \notin Columns
    BY Zenon DEF None, Columns, Reads, Writes
  <2> QED BY <1>3, <2>1, Zenon DEF Packets, Addresses
<1>5. \A r \in Ranks : r \in Drivers /\ r # Controller
  BY DEF Drivers, Ranks, Controller
<1>6. Reads \subseteq Columns /\ Writes \subseteq Columns /\ Reads \cap Writes = {}
  BY Zenon DEF Columns, Reads, Writes
<1>7. CASE x = Controller
  <2>1. /\ Buses[x] = dataBus /\ Buses'[x] = dataBus'
        /\ Lanes[x] = writeData /\ Lanes'[x] = writeData' /\ x \notin Ranks
    BY <1>5, <1>7, Zenon DEF Buses, Lanes
  <2>2. WriteWaiting = Waiting(writeData)
    BY Zenon DEF WriteWaiting, Waiting
  <2>3. WriteReady <=> Through(writeData)
    BY <1>1, <2>1, <2>2, WaitingEmpty, Zenon DEF WriteReady, Through
  <2>4. BusStep(dataBus) = Sending(dataBus)
    BY Zenon DEF BusStep, BusEnds, Sending
  <2>5. dataBus' = BusAfter(dataBus, writeData)
    BY <1>2, <2>2, <2>3, <2>4, Zenon DEF Send, DataBusNext, BusAfter
  <2>6. writeData' = QueueAfter(writeData)
                       \o (IF p.type \in Writes
                           THEN <<[addr |-> p.addr, left |-> WL]>> ELSE <<>>)
    BY <1>2, <2>2, <2>3, Zenon DEF Send, QueueAfter
  <2>7. Uses(p, x) <=> p.type \in Writes
    BY <1>4, <1>5, <1>6, <1>7, Zenon DEF Uses
  <2>8. /\ QueueAfter(writeData) \o <<>> = QueueAfter(writeData)
        /\ \A d \in DataPackets :
              QueueAfter(writeData) \o <<d>> = Append(QueueAfter(writeData), d)
    BY <1>1, <2>1, QueueAfterAppend, Zenon
  <2>9. CASE p.type \in Writes
    <3>1. PICK d : d = [addr |-> p.addr, left |-> WL]
      BY Zenon
    <3>2. d \in DataPackets
      BY <1>4, <1>6, <2>9, <3>1, DelaysNat, Zenon DEF DataPackets
    <3>3. Slot(p) = WL
      BY <1>6, <2>9, Zenon DEF Slot
    <3>4. writeData' = Append(QueueAfter(writeData), d)
      BY <2>6, <2>8, <2>9, <3>1, <3>2, Zenon
    <3> QED BY <2>1, <2>5, <2>7, <2>9, <3>1, <3>3, <3>4, Zenon
  <2>10. CASE p.type \notin Writes
    BY <2>1, <2>5, <2>6, <2>7, <2>8, <2>10, Zenon
  <2> QED BY <2>9, <2>10, Zenon
<1>8. CASE x # Controller
  <2>1. x \in Ranks
    BY <1>8, Zenon DEF Drivers
  <2>2. /\ Buses[x] = ranks[x].outgoing /\ Buses'[x] = ranks'[x].outgoing
        /\ Lanes[x] = Incoming(ranks[x], Arriving(x))
        /\ Lanes'[x] = Incoming(ranks'[x], Arriving(x)')
    BY <1>8, Zenon DEF Buses, Lanes
  <2>3. PICK c : c = Arriving(x)
    BY Zenon
  <2>4. PICK g : g = IF c = None THEN RankUpdate(ranks[x])
                     ELSE receiveFromBus(RankUpdate(ranks[x]), c)
    BY Zenon
  <2>5. PICK h : h = RanksNow[x]
    BY Zenon
  <2>6. c \in Packets \cup {None} /\ h \in {g, [g EXCEPT !.refreshWaiting = TRUE]}
    BY <2>1, <2>3, <2>4, <2>5, RankArrives, Zenon
  <2>7. IsRank(ranks[x]) /\ IsRank(h) /\ ~ h.error
    BY <2>1, <2>5, BeforeCommand, Zenon DEF ChannelInv, RanksOK, RankBefore, RowAgrees
  <2>8. HasData(ranks[x]) /\ HasData(h)
    BY <2>7, Zenon DEF IsRank, HasData
  <2>9. ranks[x].returning \in Seq(DataPackets)
    BY <2>1, Zenon DEF DataBusInv
  <2>10. PICK n : n = ranks'[x]
    BY Zenon
  <2>11. n \in {RankStep(h), RankStep(RankPowerDown(h)), RankStep(RankPowerUp(h))}
    BY <2>1, <2>5, <2>10, CycledNow, Zenon DEF Cycled
  <2>12. /\ n.outgoing = BusAfter(Buses[x], Lanes[x])
         /\ n.returning = QueueAfter(Lanes[x])
    <3>1. RankCycles(ranks[x], c, h, n)
      BY <2>4, <2>6, <2>11, Zenon DEF RankCycles
    <3>2. /\ n.outgoing = BusAfter(ranks[x].outgoing, Incoming(ranks[x], c))
          /\ n.returning = QueueAfter(Incoming(ranks[x], c))
      <4>1. HasData(ranks[x]) /\ ranks[x].returning \in Seq(DataPackets)
        BY <2>8, <2>9, Zenon
      <4>2. HasData(h) /\ ~ h.error /\ c \in Packets \cup {None}
        BY <2>6, <2>7, <2>8, Zenon
      <4> QED BY ONLY <3>1, <4>1, <4>2, RankDataStep, Zenon
    <3> QED BY <2>2, <2>3, <3>2, Zenon
  <2>13. Arriving(x)' = IF For(p, x) THEN p ELSE None
    <3>1. cmdBus' = IF p = None THEN <<>> ELSE <<[packet |-> p, left |-> 1]>>
      BY CommandOnBus, Zenon
    <3>2. CASE p = None
      BY <3>1, <3>2, Zenon DEF Arriving, InFlight, For
    <3>3. CASE p # None
      <4>1. cmdBus' # <<>> /\ cmdBus'[1].packet = p
        BY <3>1, <3>3, Zenon
      <4> QED BY <3>3, <4>1, Zenon DEF Arriving, InFlight, For
    <3> QED BY <3>2, <3>3, Zenon
  <2>14. CASE Uses(p, x)
    <3>1. p.type \in Reads /\ p.addr.rank = x
      BY <1>8, <2>14, Zenon DEF Uses
    <3>2. Arriving(x)' = p /\ Slot(p) = RL + 1
      BY <2>13, <3>1, Zenon DEF For, Slot, None, Reads
    <3> QED BY <2>2, <2>10, <2>12, <2>14, <3>1, <3>2, Zenon DEF Incoming
  <2>15. CASE ~ Uses(p, x)
    <3>1. None.type \notin Reads
      BY Zenon DEF None, Reads
    <3>2. For(p, x) => p.type \notin Reads
      BY <2>15, Zenon DEF For, Uses
    <3>3. Arriving(x)'.type \notin Reads
      BY <2>13, <3>1, <3>2, Zenon
    <3> QED BY <2>2, <2>10, <2>12, <2>15, <3>3, Zenon DEF Incoming
  <2> QED BY <2>14, <2>15, Zenon
<1> QED BY <1>7, <1>8, Zenon

\* The command of the cycle finds its row open and its deadline passed, and the
\* deadlines of every bank are kept.
LEMMA DeadlinesNow ==
    ASSUME ChannelInv, Update, NEW p, p = PoppedNow.packet
    PROVE  /\ p.type \in Columns =>
                 LET m == bankStates[p.addr.rank][p.addr.bank]
                 IN  /\ p.addr \in Addresses /\ Open(m)
                     /\ (IF p.type \in Reads THEN m.nextRead ELSE m.nextWrite) = 0
           /\ \A r \in Ranks, b \in Banks :
                 DeadlinesKept(p, bankStates[r][b], bankStates'[r][b],
                               For(p, r) /\ p.addr.bank = b, For(p, r))
<1>1. PICK bs \in Tables : bs = BanksCountedDown
  BY BeforeCommand, Zenon
<1>2. Issued(bs, p) /\ \A r \in Ranks : RankBefore(bs[r], RanksNow[r], powerDown[r])
  BY <1>1, PoppedNowOK, BeforeCommand, Zenon
<1>3. \A r \in Ranks :
        Cycled(OnCommand(bs, p)[r], RanksNow[r], powerDown[r], r, Down, Up,
               bankStates'[r], ranks'[r], powerDown'[r])
  BY <1>1, CycledNow, Zenon
<1>4. ASSUME NEW r \in Ranks, NEW b \in Banks
      PROVE  /\ bs[r][b] = CountDown(bankStates[r][b]) /\ bankStates[r][b] \in BankStates
             /\ Agrees(bankStates[r][b], Arrived(r).banks[b])
  <2>1. bs[r][b] = CountDown(bankStates[r][b])
    BY <1>1, Zenon DEF BanksCountedDown, Table
  <2>2. bankStates[r][b] \in BankStates
    BY Zenon DEF ChannelInv, Tables
  <2>3. Agrees(bankStates[r][b], Arrived(r).banks[b])
    BY Zenon DEF ChannelInv, TablesInv
  <2> QED BY <2>1, <2>2, <2>3, Zenon
<1>5. ASSUME NEW r \in Ranks, NEW b \in Banks
      PROVE  DeadlinesKept(p, bankStates[r][b], bankStates'[r][b],
                           For(p, r) /\ p.addr.bank = b, For(p, r))
  <2>1. DeadlinesKept(p, bs[r][b], bankStates'[r][b],
                      For(p, r) /\ p.addr.bank = b, For(p, r))
    BY <1>2, <1>3, CycleDelays, Zenon
  <2>2. DeadlinesKept(p, CountDown(bankStates[r][b]), bankStates'[r][b],
                      For(p, r) /\ p.addr.bank = b, For(p, r))
    BY <1>4, <2>1, Zenon
  <2> QED BY <1>4, <2>2, CountDownDelays, Zenon
<1>6. ASSUME p.type \in Columns
      PROVE  LET m == bankStates[p.addr.rank][p.addr.bank]
             IN  /\ p.addr \in Addresses /\ Open(m)
                 /\ (IF p.type \in Reads THEN m.nextRead ELSE m.nextWrite) = 0
  <2>1. p # None
    <3>1. p.type # "none" /\ None.type = "none"
      BY <1>6, Zenon DEF Columns, Reads, Writes, None
    <3> QED BY <3>1, Zenon
  <2>2. p \in Packets /\ Legal(bs, p)
    BY <1>2, <2>1, Zenon DEF Issued
  <2>3. p.addr \in Addresses /\ p.addr.rank \in Ranks /\ p.addr.bank \in Banks
    BY <2>2, Zenon DEF Packets, Addresses
  <2>4. PICK m : m = bankStates[p.addr.rank][p.addr.bank]
    BY Zenon
  <2>5. PICK n : n = bs[p.addr.rank][p.addr.bank]
    BY Zenon
  <2>6. Open(n)
    <3>1. RowAgrees(bs[p.addr.rank], RanksNow[p.addr.rank])
      BY <1>2, <2>3, Zenon DEF RankBefore
    <3> QED BY <1>6, <2>2, <2>5, <3>1, LegalOpen, Zenon
  <2>7. Open(m) /\ n.nextRead = m.nextRead /\ n.nextWrite = m.nextWrite
    <3>1. PICK r \in Ranks, b \in Banks : r = p.addr.rank /\ b = p.addr.bank
      BY <2>3, Zenon
    <3>2. n = CountDown(m) /\ m \in BankStates /\ Agrees(m, Arrived(r).banks[b])
      BY <1>4, <2>4, <2>5, <3>1, Zenon
    <3>3. Open(n) <=> Open(m)
      BY <3>2, CountDownRow, Zenon
    <3>4. n.nextRead = m.nextRead /\ n.nextWrite = m.nextWrite
      BY <3>2, CountDownShape, Zenon
    <3> QED BY <2>6, <3>3, <3>4, Zenon
  <2>8. (IF p.type \in Reads THEN n.nextRead ELSE n.nextWrite) = 0
    BY <1>6, <2>2, <2>5, Zenon DEF Legal
  <2> QED BY <2>3, <2>4, <2>7, <2>8, Zenon
<1> QED BY <1>5, <1>6, Zenon

LEMMA InitData == Init => DataBusInv
<1> SUFFICES ASSUME Init PROVE DataBusInv
  BY Zenon
<1>1. \A r \in Ranks : /\ ranks[r].outgoing = <<>> /\ ranks[r].returning = <<>>
                       /\ Arriving(r) = None
  BY Zenon DEF Init, InitRank, Arriving, InFlight
<1>2. None.type \notin Reads
  BY Zenon DEF None, Reads
<1>3. \A x \in Drivers : Buses[x] = <<>> /\ Lanes[x] = <<>>
  BY <1>1, <1>2, Zenon DEF Init, Buses, Lanes, Incoming, Drivers
<1>4. Train(<<>>, <<>>) /\ Starts(<<>>, <<>>) = {}
  BY DEF Train, Starts
<1>5. Scheduled(Buses, Lanes, bankStates)
  BY <1>3, <1>4, Zenon DEF Scheduled, Apart
<1>6. <<>> \in Seq(DataPackets)
  OBVIOUS
<1> QED BY <1>1, <1>5, <1>6, Zenon DEF DataBusInv

LEMMA UpdateBus ==
    ASSUME BusSpaced, ChannelInv, DataBusInv, Update
    PROVE  DataBusInv'
<1>1. PICK p : p = PoppedNow.packet
  BY Zenon
<1>2. \A x \in Drivers :
        /\ Buses'[x] = BusAfter(Buses[x], Lanes[x])
        /\ Lanes'[x] = IF Uses(p, x)
                       THEN Append(QueueAfter(Lanes[x]), [addr |-> p.addr, left |-> Slot(p)])
                       ELSE QueueAfter(Lanes[x])
  BY <1>1, DataNow, Zenon
<1>3. Scheduled(Buses, Lanes, bankStates)
  BY Zenon DEF DataBusInv
<1>4. /\ p.type \in Columns =>
            LET m == bankStates[p.addr.rank][p.addr.bank]
            IN  /\ p.addr \in Addresses /\ Open(m)
                /\ (IF p.type \in Reads THEN m.nextRead ELSE m.nextWrite) = 0
      /\ \A r \in Ranks, b \in Banks :
            DeadlinesKept(p, bankStates[r][b], bankStates'[r][b],
                          For(p, r) /\ p.addr.bank = b, For(p, r))
  BY <1>1, DeadlinesNow, Zenon
<1>5. Scheduled(Buses', Lanes', bankStates')
  BY ONLY BusSpaced, <1>2, <1>3, <1>4, DriversStep, Zenon
<1>6. ASSUME NEW r \in Ranks
      PROVE  ranks'[r].returning \in Seq(DataPackets)
  <2>1. r \in Drivers
    BY Zenon DEF Drivers
  <2>2. Train(Buses[r], Lanes[r])
    BY <1>3, <2>1, Zenon DEF Scheduled
  <2>3. QueueAfter(Lanes[r]) \in Seq(DataPackets)
    BY <2>2, TrainStep, Zenon DEF Train
  <2> QED BY <1>1, <2>1, <2>3, DataNow, Zenon
<1> QED BY <1>5, <1>6, Zenon DEF DataBusInv

LEMMA NextBus ==
    /\ BusSpaced /\ ChannelInv /\ DataBusInv /\ [Next]_vars
    => DataBusInv'
<1> SUFFICES ASSUME BusSpaced, ChannelInv, DataBusInv, [Next]_vars
             PROVE  DataBusInv'
  BY Zenon
<1>1. ASSUME UNCHANGED <<bankStates, ranks, cmdBus, dataBus, writeData>>
      PROVE  DataBusInv'
  <2>1. Buses' = Buses /\ Lanes' = Lanes
    BY <1>1 DEF Buses, Lanes, Arriving, InFlight
  <2> QED BY <1>1, <2>1, Zenon DEF DataBusInv
<1>2. CASE Update
  BY <1>2, UpdateBus, Zenon
<1>3. ASSUME NEW t \in Transactions, AddTransaction(t)
      PROVE  DataBusInv'
  BY <1>1, <1>3, Zenon DEF AddTransaction
<1>4. CASE UNCHANGED vars
  BY <1>1, <1>4, Zenon DEF vars
<1> QED BY <1>2, <1>3, <1>4, Zenon DEF Next

\* With timings that keep bursts apart (BusSpaced: every device file does), all
\* data that is under way is scheduled on the bus without overlap.
THEOREM DataBusInvariant ==
    ASSUME BusSpaced
    PROVE  Spec => []DataBusInv
<1>1. ChannelInv /\ DataBusInv /\ [Next]_vars => DataBusInv'
  BY NextBus, Zenon
<1> QED BY <1>1, InitData, ChannelInvariant, PTL DEF Spec

\* At most one party drives the data bus: the controller with write data
\* (MemoryController::update) or one rank with read data (Rank::update), though
\* neither looks at what the other does.
THEOREM OneDriver ==
    ASSUME BusSpaced
    PROVE  Spec => []OneDataBusDriver
<1>1. DataBusInv => OneDataBusDriver
  <2> SUFFICES ASSUME DataBusInv PROVE OneDataBusDriver
    BY Zenon
  <2>1. Scheduled(Buses, Lanes, bankStates)
    BY Zenon DEF DataBusInv
  <2>2. PICK S : S = {r \in Ranks : ranks[r].outgoing # <<>>}
    BY Zenon
  <2>3. \A r \in Ranks : r \in Drivers /\ r # Controller
    BY DEF Drivers, Ranks, Controller
  <2>4. /\ Controller \in Drivers /\ Buses[Controller] = dataBus
        /\ \A r \in Ranks : Buses[r] = ranks[r].outgoing
    BY <2>3, Zenon DEF Drivers, Buses
  <2>5. \A x, y \in Drivers : Buses[x] # <<>> /\ Buses[y] # <<>> => x = y
    BY <2>1, OneSends, Zenon
  <2>6. \A r, s \in S : r = s
    BY <2>2, <2>3, <2>4, <2>5, Zenon
  <2>7. dataBus # <<>> => S = {}
    BY <2>2, <2>3, <2>4, <2>5, Zenon
  <2>8. (S = {} => Cardinality(S) = 0) /\ (S # {} => Cardinality(S) = 1)
    BY <2>6, AtMostOne, Zenon
  <2>9. Cardinality(S) + (IF dataBus = <<>> THEN 0 ELSE 1) <= 1
    BY <2>7, <2>8, SMT
  <2> QED BY <2>2, <2>9, Zenon DEF OneDataBusDriver
<1> QED BY <1>1, DataBusInvariant, PTL

\* The controller never puts write data on the bus while it still sends a
\* burst: that exit of MemoryController::update is never taken.
THEOREM WritesNeverCollide ==
    ASSUME BusSpaced
    PROVE  Spec => []("DataBusCollision" \notin errors)
<1>1. Init => "DataBusCollision" \notin errors
  BY Zenon DEF Init
<1>2. ASSUME DataBusInv, Update
      PROVE  ("DataBusCollision" \notin errors)'
  <2>1. Train(dataBus, writeData)
    BY <1>2, Zenon DEF DataBusInv, Scheduled, Buses, Lanes, Drivers
  <2>2. Through(writeData) => Sending(dataBus) = <<>>
    BY <2>1, TrainStep, Zenon
  <2>3. WriteReady => BusStep(dataBus) = <<>>
    <3>1. writeData \in Seq(DataPackets)
      BY <2>1, Zenon DEF Train
    <3>2. WriteReady <=> Through(writeData)
      BY <3>1, WaitingEmpty, Zenon DEF WriteReady, WriteWaiting, Waiting, Through
    <3>3. BusStep(dataBus) = Sending(dataBus)
      BY Zenon DEF BusStep, BusEnds, Sending
    <3> QED BY <2>2, <3>2, <3>3, Zenon
  <2>4. PICK reads, match : Return(PoppedNow.packet, QueueNow, reads, Returns, match)
    BY <1>2, UpdateReturns, Zenon
  <2> QED BY <2>3, <2>4, Zenon DEF Return
<1>3. DataBusInv /\ "DataBusCollision" \notin errors /\ [Next]_vars
        => ("DataBusCollision" \notin errors)'
  BY <1>2, Zenon DEF Next, AddTransaction, vars
<1> QED BY <1>1, <1>3, DataBusInvariant, PTL DEF Spec
=============================================================================
