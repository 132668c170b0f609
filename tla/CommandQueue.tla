----------------------------- MODULE CommandQueue -----------------------------
(***************************************************************************)
(* The command queue of a channel (CommandQueue.cpp): what it holds and    *)
(* which command pop() takes from it in a clock cycle.  The state is a     *)
(* record, the operations are functions of it and of the controller's bank *)
(* table, so that MemorySystem can run them in the order in which          *)
(* MemoryController::update does.                                          *)
(*                                                                         *)
(* queues[r][b] is the queue getCommandQueue(r, b) returns; with one queue *)
(* per rank only b = 0 is used.  A transaction enters as an ACTIVATE and a *)
(* column command, next to each other.                                     *)
(***************************************************************************)
EXTENDS BankTable, Sequences, FiniteSetsExt

NoRank == -1
FourActivates == 4

\* What is queued: an ACTIVATE, or the column command of the row buffer policy.
QueuedPackets ==
    [type : {"ACTIVATE"} \cup (IF ClosePage THEN {"READ_P", "WRITE_P"}
                               ELSE {"READ", "WRITE"}), addr : Addresses]

Queues == [Ranks -> [Banks -> Seq(QueuedPackets)]]
Counters == [Ranks -> [Banks -> Nat]]
Windows == [Ranks -> SUBSET (Nat \ {0})]
Pointers == [rank : Ranks, bank : Banks]

CommandQueueStates ==
    [queues : Queues, rowAccessCounters : Counters,
     faw : Windows,                            \* tFAWCountdown
     refreshRank : Ranks \cup {NoRank}, refreshWaiting : BOOLEAN,
     next : Pointers,                          \* nextRank, nextBank
     nextPRE : Pointers,                       \* nextRankPRE, nextBankPRE
     sendAct : BOOLEAN, lastIssued : {"READ", "WRITE"}]

InitCommandQueue ==
    [queues |-> [r \in Ranks |-> [b \in Banks |-> <<>>]],
     rowAccessCounters |-> [r \in Ranks |-> [b \in Banks |-> 0]],
     faw |-> [r \in Ranks |-> {}],
     refreshRank |-> 0, refreshWaiting |-> FALSE,
     next |-> [rank |-> 0, bank |-> 0], nextPRE |-> [rank |-> 0, bank |-> 0],
     sendAct |-> TRUE, lastIssued |-> "READ"]

QueueIndex(b) == IF PerRank THEN 0 ELSE b
getCommandQueue(cq, r, b) == cq.queues[r][QueueIndex(b)]

\* Fault: off by one.
hasAlmostRoomFor(cq, n, r, b) ==
    CMD_QUEUE_DEPTH - Len(getCommandQueue(cq, r, b)) >= n - 1

\* The subtraction is unsigned: an overfull queue would seem to have room.
hasRoomFor(cq, n, r, b) ==
    LET free == CMD_QUEUE_DEPTH - Len(getCommandQueue(cq, r, b))
    IN  free >= n \/ free < 0

enqueue(cq, p) ==
    [cq EXCEPT !.queues[p.addr.rank][QueueIndex(p.addr.bank)] = Append(@, p)]

isEmpty(cq, r) == \A b \in Banks : cq.queues[r][b] = <<>>

needRefresh(cq, r) ==
    [cq EXCEPT !.refreshWaiting = TRUE, !.refreshRank = r]
-----------------------------------------------------------------------------
isIssuable(cq, bs, p) ==
    LET b == bs[p.addr.rank][p.addr.bank]
        hit == /\ b.state = "RowActive" /\ b.row = p.addr.row
               /\ cq.rowAccessCounters[p.addr.rank][p.addr.bank]
                    < TOTAL_ROW_ACCESSES
    IN  CASE p.type = "ACTIVATE" ->
               /\ b.state \in {"Idle", "Refreshing"} /\ b.nextActivate = 0
               /\ Cardinality(cq.faw[p.addr.rank]) < FourActivates
          [] p.type \in Writes -> hit /\ b.nextWrite = 0
          [] p.type \in Reads -> hit /\ b.nextRead = 0
          [] OTHER -> FALSE

\* The position k places after pointer n in the round robin over all banks.
nextRankAndBank(n, k) ==
    IF SchedulingPolicy = "RankThenBankRoundRobin"
    THEN LET pos == (n.bank * NUM_RANKS + n.rank + k) % (NUM_RANKS * NUM_BANKS)
         IN  [rank |-> pos % NUM_RANKS, bank |-> pos \div NUM_RANKS]
    ELSE LET pos == (n.rank * NUM_BANKS + n.bank + k) % (NUM_RANKS * NUM_BANKS)
         IN  [rank |-> pos \div NUM_BANKS, bank |-> pos % NUM_BANKS]

Positions == 0 .. NUM_RANKS * NUM_BANKS - 1

\* The queues the search for a command visits: rank by rank, or bank by bank.
Turn(n, k) ==
    IF PerRank THEN [n EXCEPT !.rank = (@ + k) % NUM_RANKS]
    ELSE nextRankAndBank(n, k)
Turns == IF PerRank THEN Ranks ELSE Positions
-----------------------------------------------------------------------------
(* Choosing a command in one queue: its index, or 0. *)

\* Fault: the check for earlier commands to the same row is dropped.
NeverDependent(q, i) == FALSE

\* Open page: an earlier column command to the same row must go first.
Dependent(q, i) ==
    \E j \in 1 .. i - 1 : q[j].type # "ACTIVATE" /\ SameRow(q[j], q[i])

OpenPageReady(cq, bs, q) ==
    {i \in DOMAIN q : isIssuable(cq, bs, q[i]) /\ ~ Dependent(q, i)}

\* Close page: never a column command whose ACTIVATE is still in front of it.
Paired(q, i) ==
    i > 1 /\ q[i - 1].type = "ACTIVATE" /\ q[i - 1].addr = q[i].addr

ClosePageReady(cq, bs, q) ==
    {i \in IF PerRank THEN DOMAIN q ELSE DOMAIN q \cap {1} :
        isIssuable(cq, bs, q[i]) /\ (PerRank => ~ Paired(q, i))}

Refreshing(cq, r) == cq.refreshWaiting /\ r = cq.refreshRank

Ready(cq, bs, r, b) ==
    LET q == getCommandQueue(cq, r, b)
    IN  IF Refreshing(cq, r) THEN {}
        ELSE IF ClosePage THEN ClosePageReady(cq, bs, q)
        ELSE OpenPageReady(cq, bs, q)

\* Lower is better: same command type, other bank, open page, age.
calculatePriority(cq, bs, p, age) ==
    LET b == bs[p.addr.rank][p.addr.bank]
    IN  (IF p.type \notin {cq.lastIssued, "ACTIVATE", "PRECHARGE"}
         THEN 10000 ELSE 0)
        + (IF p.addr.rank = cq.next.rank /\ p.addr.bank = cq.next.bank
           THEN 1000 ELSE 0)
        + (IF b.state # "RowActive" \/ b.row # p.addr.row THEN 100 ELSE 0)
        + age
-----------------------------------------------------------------------------
(* Taking a command: [cq |-> the queue left behind, packet |-> the command] *)

Popped(cq, p) == [cq |-> cq, packet |-> p]
Nothing(cq) == Popped(cq, None)

\* A sequence without the entries first .. last, and the first of the positions
\* I, 0 if there is none.
Cut(s, first, last) == SubSeq(s, 1, first - 1) \o SubSeq(s, last + 1, Len(s))
FirstOf(I) == IF I = {} THEN 0 ELSE Min(I)

Erase(cq, r, b, first, last) ==
    [cq EXCEPT !.queues[r][QueueIndex(b)] = Cut(@, first, last)]

\* Fault: the ACTIVATE of a hit stays in the queue.
IssueOpenLeavesActivate(cq, r, b, i) ==
    LET p == getCommandQueue(cq, r, b)[i]
    IN  Popped([Erase(cq, r, b, i, i) EXCEPT
                  !.rowAccessCounters[p.addr.rank][p.addr.bank] = @ + 1], p)

\* Open page: a column command that hits takes its ACTIVATE away with it.
IssueOpen(cq, r, b, i) ==
    LET q == getCommandQueue(cq, r, b)
        p == q[i]
        hit == i > 1 /\ q[i - 1].type = "ACTIVATE" /\ SameRow(q[i - 1], p)
    IN  Popped([Erase(cq, r, b, IF hit THEN i - 1 ELSE i, i) EXCEPT
                  !.rowAccessCounters[p.addr.rank][p.addr.bank] = @ + 1], p)

Issue(cq, r, b, i) ==
    IF ClosePage
    THEN Popped(Erase(cq, r, b, i, i), getCommandQueue(cq, r, b)[i])
    ELSE IssueOpen(cq, r, b, i)

IssueRoundRobin(cq, bs) ==
    LET Has(k) == LET n == Turn(cq.next, k)
                  IN  Ready(cq, bs, n.rank, n.bank) # {}
        n == Turn(cq.next, Min({k \in Turns : Has(k)}))
    IN  IF \E k \in Turns : Has(k)
        THEN Issue([cq EXCEPT !.next = n], n.rank, n.bank,
                   Min(Ready(cq, bs, n.rank, n.bank)))
        ELSE Nothing(cq)

\* The lowest priority value wins; among equals the first queue in order.
Best(cq, bs, candidates) ==
    LET Packet(c) == getCommandQueue(cq, c[1], c[2])[c[3]]
        Value(c) == calculatePriority(cq, bs, Packet(c), c[3] - 1)
                      * NUM_RANKS * NUM_BANKS + c[1] * NUM_BANKS + c[2]
    IN  CHOOSE c \in candidates : \A d \in candidates : Value(c) <= Value(d)

\* The next command had better be of the same type.
Remembered(issued) ==
    [issued EXCEPT !.cq.lastIssued =
        CASE issued.packet.type \in Reads -> "READ"
          [] issued.packet.type \in Writes -> "WRITE"
          [] OTHER -> @]

IssueAt(cq, c) == Remembered(Issue(cq, c[1], c[2], c[3]))

IssuePriority(cq, bs) ==
    LET Candidates == {c \in Ranks \X Banks \X (1 .. CMD_QUEUE_DEPTH) :
                          c[2] = QueueIndex(c[2])
                          /\ c[3] \in Ready(cq, bs, c[1], c[2])}
    IN  IF Candidates = {} THEN Nothing(cq)
        ELSE IssueAt(cq, Best(cq, bs, Candidates))
-----------------------------------------------------------------------------
(* Closing rows and refreshing *)

Unaddressed(type, r, b) ==
    [type |-> type, addr |-> [rank |-> r, bank |-> b, row |-> 0, col |-> 0]]

ForOpenRow(bs, r, b, p) == p.addr.bank = b /\ p.addr.row = bs[r][b].row

Precharge(cq, r, b) ==
    Popped([cq EXCEPT !.rowAccessCounters[r][b] = 0],
           Unaddressed("PRECHARGE", r, b))

\* Open page, nothing else to do: close a row nobody waits for, or one that
\* has been accessed TOTAL_ROW_ACCESSES times.
MayClose(cq, bs, r, b) ==
    LET q == getCommandQueue(cq, r, b)
        wanted == \E i \in DOMAIN q : ForOpenRow(bs, r, b, q[i])
    IN  /\ bs[r][b].state = "RowActive"
        /\ ~ wanted \/ cq.rowAccessCounters[r][b] = TOTAL_ROW_ACCESSES
        /\ bs[r][b].nextPrecharge = 0

IssuePrecharge(cq, bs) ==
    LET Closing == {k \in Positions :
                      LET n == nextRankAndBank(cq.nextPRE, k)
                      IN  MayClose(cq, bs, n.rank, n.bank)}
        n == nextRankAndBank(cq.nextPRE, Min(Closing))
    IN  IF Closing = {} THEN Nothing(cq)
        ELSE Precharge([cq EXCEPT !.nextPRE = n], n.rank, n.bank)

\* A waiting refresh looks at the first bank that is open or not yet ready.
\* The column command its row was opened for goes out first; then, with the
\* open page policy, the row is closed.  With no such bank, REFRESH goes out.
IssueRefresh(cq, bs) ==
    LET r == cq.refreshRank
        InTheWay == {b \in Banks : \/ bs[r][b].state = "RowActive"
                                   \/ bs[r][b].nextActivate > 0}
        b == Min(InTheWay)
        q == getCommandQueue(cq, r, b)
        j == FirstOf({i \in DOMAIN q : ForOpenRow(bs, r, b, q[i])})
        drain == j # 0 /\ q[j].type # "ACTIVATE"
    IN  IF InTheWay = {}
        THEN IF bs[r][0].state = "PowerDown" THEN Nothing(cq)
             ELSE Popped([cq EXCEPT !.refreshRank = NoRank,
                                    !.refreshWaiting = FALSE],
                         Unaddressed("REFRESH", r, 0))
        ELSE IF bs[r][b].state # "RowActive" THEN Nothing(cq)
        ELSE IF drain
          THEN IF isIssuable(cq, bs, q[j])
               THEN Popped(Erase(cq, r, b, j, j), q[j]) ELSE Nothing(cq)
        ELSE IF ~ ClosePage /\ bs[r][b].nextPrecharge = 0
          THEN Precharge(cq, r, b)
        ELSE Nothing(cq)
-----------------------------------------------------------------------------
\* The activation window slides by one cycle.
FawElapsed(cq) ==
    [cq EXCEPT !.faw = [r \in Ranks |-> {n - 1 : n \in @[r]} \ {0}]]

\* Posted CAS keeps the pointer on a queue for one more command.
Advance(cq) ==
    IF AL > 0 /\ cq.sendAct THEN [cq EXCEPT !.sendAct = FALSE]
    ELSE [cq EXCEPT !.sendAct = TRUE, !.next = nextRankAndBank(@, 1)]

Activated(cq, p) ==
    IF p.type = "ACTIVATE" /\ ~ isSmartMRAM
    THEN [cq EXCEPT !.faw[p.addr.rank] = @ \cup {tFAW}] ELSE cq

Sent(taken) ==
    IF taken.packet = None THEN taken
    ELSE [taken EXCEPT !.cq = Activated(Advance(@), taken.packet)]

OrElse(taken, other) == IF taken.packet # None THEN taken ELSE other

PopWith(cq, bs) ==
    Sent(OrElse(IF cq.refreshWaiting THEN IssueRefresh(cq, bs) ELSE Nothing(cq),
         OrElse(IF ~ ClosePage /\ SchedulingPolicy = "PriorityBased"
                THEN IssuePriority(cq, bs) ELSE IssueRoundRobin(cq, bs),
                IF ClosePage THEN Nothing(cq) ELSE IssuePrecharge(cq, bs))))

pop(cq, bs) == PopWith(FawElapsed(cq), bs)
=============================================================================
