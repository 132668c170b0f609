--------------------------- MODULE ChannelProperties ---------------------------
(***************************************************************************)
(* What a channel (MemorySystem) is expected to guarantee.                 *)
(***************************************************************************)
EXTENDS MemorySystem, DataBus

TypeOK ==
    /\ transactionQueue \in Seq(Transactions)
    /\ Len(transactionQueue) <= TRANS_QUEUE_DEPTH
    /\ pendingTransactions \in Seq(Transactions)
    /\ cq \in CommandQueueStates
    /\ bankStates \in [Ranks -> [Banks -> BankStates]]
    /\ ranks \in [Ranks -> RankStates]
    /\ cmdBus \in Seq([packet : Packets, left : Nat])
    /\ {dataBus, writeData} \subseteq Seq([addr : Addresses, left : Nat])
    /\ {pendingReads, returnTransaction} \subseteq Seq(Addresses)
    /\ powerDown \in [Ranks -> BOOLEAN]
    /\ refreshCountdown \in [Ranks -> Nat] /\ refreshRank \in Ranks
    /\ done \in [reads : Seq(Addresses), writes : Seq(Addresses)]
    /\ errors \subseteq ErrorKinds

\* The controller's table is good enough: a rank never finds a command, a
\* power-down or a power-up it has to refuse, and so never ends the program
\* ("received a READ when not allowed" and the other exits of Rank.cpp).
RanksNeverRefuse == \A r \in Ranks : ~ ranks[r].error

\* The controller never ends the program: no command or data bus collision, no
\* overfull command queue, no returned data without a pending read.
ControllerNeverAborts == errors = {}

\* At most one party drives the channel's data bus: the controller with write
\* data, or one of the ranks with read data.  The code checks this only for
\* one write following another.
OneDataBusDriver ==
    Cardinality({r \in Ranks : ranks[r].outgoing # <<>>})
      + (IF dataBus = <<>> THEN 0 ELSE 1) <= 1

\* The controller's table says at least what the rank's says: when no command
\* is under way to the rank, an open row is open in the rank too, and no
\* deadline of the rank is later than the controller's by more than the time
\* a command takes to arrive.
InFlight(r) == cmdBus # <<>> /\ cmdBus[1].packet.addr.rank = r
TablesAgree ==
    \A r \in Ranks, b \in Banks :
        LET mine == bankStates[r][b]
            theirs == ranks[r].banks[b]
        IN  mine.state = "RowActive" /\ ~ InFlight(r)
              /\ mine.lastCommand \notin {"READ_P", "WRITE_P"} =>
              /\ theirs.state = "RowActive" /\ theirs.row = mine.row
              /\ theirs.nextRead <= mine.nextRead + tCMD
              /\ theirs.nextWrite <= mine.nextWrite + tCMD
              /\ theirs.nextPrecharge <= mine.nextPrecharge + tCMD

\* Power-down is one state held in four places (the controller's flag and bank
\* table, the rank's flag and bank table) that are never seen to differ, also
\* when a command is on the bus while the rank is powered down.
PowerDownAgreed ==
    \A r \in Ranks :
        /\ powerDown[r] <=> ranks[r].isPowerDown
        /\ \A b \in Banks :
              /\ powerDown[r] <=> bankStates[r][b].state = "PowerDown"
              /\ powerDown[r] <=> ranks[r].banks[b].state = "PowerDown"

-----------------------------------------------------------------------------
(* The inductive invariant behind the three properties above.  The rank's     *)
(* table is behind by the command on the bus, so the controller's table is    *)
(* compared with what the rank's will be when that command has arrived.       *)

Arrived(r) == IF InFlight(r) THEN receiveFromBus(ranks[r], cmdBus[1].packet)
              ELSE ranks[r]

TablesInv ==
    /\ \A r \in Ranks : /\ ~ Arrived(r).error
                         /\ Arrived(r).isPowerDown = powerDown[r]
    /\ \A r \in Ranks, b \in Banks :
          /\ Agrees(bankStates[r][b], Arrived(r).banks[b])
          /\ powerDown[r] => bankStates[r][b].nextPowerUp
                                = bankStates[r][0].nextPowerUp
    /\ PowerDownAgreed
-----------------------------------------------------------------------------
(* The inductive invariant behind OneDataBusDriver: the bursts under way do   *)
(* not overlap, and the deadlines of the table keep new ones off them.        *)

Arriving(r) == IF InFlight(r) THEN cmdBus[1].packet ELSE None
Buses == [x \in Drivers |-> IF x = Controller THEN dataBus ELSE ranks[x].outgoing]
Lanes == [x \in Drivers |-> IF x = Controller THEN writeData
                            ELSE Incoming(ranks[x], Arriving(x))]
DataBusInv == /\ Scheduled(Buses, Lanes, bankStates)
              /\ \A r \in Ranks : ranks[r].returning \in Seq(DataPackets)

\* The inductive form of ReadsCarriedOnce below: the packets that carry a read
\* of address a are in its command queue or, as data, with its rank; nothing
\* waits in returnTransaction, since one burst at most ends in a cycle.
ReadsOf(a) == {p \in QueuedPackets : p.type \in Reads /\ p.addr = a}
QueuedReads(qs, a) == NumberIn(qs[a.rank][QueueIndex(a.bank)], ReadsOf(a))
UnderWay(r, a) == NumberIn(Lanes[r], DataOf(a)) + NumberIn(Buses[r], DataOf(a))

ReadsInv ==
    /\ pendingReads \in Seq(Addresses) /\ returnTransaction = <<>>
    /\ \A a \in Addresses :
          /\ NumberIn(pendingReads, {a}) = QueuedReads(cq.queues, a) + UnderWay(a.rank, a)
          /\ \A r \in Ranks : r # a.rank => UnderWay(r, a) = 0
-----------------------------------------------------------------------------
\* A refresh is sent before the next one is asked for: needRefresh, which
\* remembers one rank only, never replaces a rank that is still waiting.
RefreshInTime == RefreshDue => ~ cq.refreshWaiting
-----------------------------------------------------------------------------
(* Every pending read is carried by exactly one packet. *)

Count(s, Test(_)) == Cardinality({i \in DOMAIN s : Test(s[i])})

ReadCarriers(a) ==
    LET IsRead(p) == p.type \in Reads /\ p.addr = a
        IsReadCmd(c) == IsRead(c.packet)
        Same(x) == x = a
        SameAddr(x) == x.addr = a
    IN  Count(cq.queues[a.rank][QueueIndex(a.bank)], IsRead)
        + Count(cmdBus, IsReadCmd)
        + Count(ranks[a.rank].returning, SameAddr)
        + Count(ranks[a.rank].outgoing, SameAddr)
        + Count(returnTransaction, Same)

\* A read is never lost and never answered twice: for every address, as many
\* packets are under way (queued, on a bus, waiting in the rank, coming back)
\* as reads are pending.  Rank::update puts ready data on the bus without
\* looking whether the previous burst is still there.
ReadsCarriedOnce ==
    \A a \in Addresses :
        LET Same(x) == x = a IN Count(pendingReads, Same) = ReadCarriers(a)
=============================================================================
