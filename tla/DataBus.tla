-------------------------------- MODULE DataBus --------------------------------
(***************************************************************************)
(* When data moves on the channel's data bus.  A rank with read data and   *)
(* the controller with write data work alike: packets wait in a queue,     *)
(* each with the cycles it has left, and the one that is through takes the *)
(* bus for a burst (Rank::update, MemoryController::update).  Nobody looks *)
(* whether the bus is free; the deadlines of the bank table must see to it.*)
(***************************************************************************)
EXTENDS TableAgreement

DataPackets == [addr : Addresses, left : Nat]

\* A cycle of a driver of the bus: the packet it sends, those that wait.
Sending(bus) == IF bus = <<>> \/ bus[1].left = 1 THEN <<>>
                ELSE <<[bus[1] EXCEPT !.left = @ - 1]>>
Waiting(queue) == [i \in DOMAIN queue |-> [queue[i] EXCEPT !.left = @ - 1]]
Through(queue) == queue # <<>> /\ Waiting(queue)[1].left = 0
BusAfter(bus, queue) ==
    IF Through(queue) THEN <<[addr |-> Waiting(queue)[1].addr, left |-> Burst]>>
    ELSE Sending(bus)
QueueAfter(queue) ==
    IF Through(queue) THEN Tail(Waiting(queue)) ELSE Waiting(queue)

\* The cycles, counted from now, in which the bursts of a driver start.
Starts(bus, queue) ==
    {bus[i].left - Burst : i \in DOMAIN bus} \cup {queue[i].left : i \in DOMAIN queue}

\* The bursts of one driver follow each other.
Train(bus, queue) ==
    /\ bus \in Seq(DataPackets) /\ queue \in Seq(DataPackets)
    /\ bus # <<>> => Len(bus) = 1 /\ bus[1].left \in 1 .. Burst
    /\ \A i \in DOMAIN queue : /\ queue[i].left >= 1
                               /\ bus # <<>> => bus[1].left <= queue[i].left
    /\ \A i, j \in DOMAIN queue : i < j => queue[i].left + Burst <= queue[j].left

\* No burst of S overlaps one of T.
Apart(S, T) == \A s \in S, t \in T : s + Burst <= t \/ t + Burst <= s

\* A burst that starts in s cycles is over before the data of a command that
\* the bank's deadlines allow: a READ has its data on the bus RL + 1 cycles
\* after the cycle that issues it (tCMD is 1), a WRITE WL cycles after it.
Clear(m, s) == s + Burst <= m.nextRead + RL + 2 /\ s + Burst <= m.nextWrite + RL

\* The deadlines keep the banks off each other's data if a change of ranks
\* costs at least a cycle and, for a bank that was closed while the others'
\* deadlines were set, tRCD is longer than a burst.  Without tRCD (SMART) there
\* must be one rank only, whose deadlines are set in closed banks too.
OneRankOnly == NUM_RANKS = 1 /\ READ_AUTOPRE_DELAY >= Burst + 2
BusSpaced == tRTRS >= 1 /\ (OneRankOnly \/ (~ isSmartMRAM /\ tRCD - AL >= Burst + 1))
Guarded(m) == OneRankOnly \/ Open(m)

\* The drivers of the bus are the ranks and the controller.  B[x] is the packet
\* that the driver x sends, Q[x] those that wait, bs the controller's table.
Controller == -1
Drivers == Ranks \cup {Controller}
Scheduled(B, Q, bs) ==
    /\ \A x \in Drivers : Train(B[x], Q[x])
    /\ \A x, y \in Drivers : x # y => Apart(Starts(B[x], Q[x]), Starts(B[y], Q[y]))
    /\ \A x \in Drivers : \A s \in Starts(B[x], Q[x]) :
          /\ s <= RL + 1
          /\ \A r \in Ranks, b \in Banks : Guarded(bs[r][b]) => Clear(bs[r][b], s)

\* The driver of the data of command p, and when its burst starts.
Uses(p, x) == IF p.type \in Reads THEN x = p.addr.rank
              ELSE p.type \in Writes /\ x = Controller
Slot(p) == IF p.type \in Reads THEN RL + 1 ELSE WL

\* The read data waiting in the rank rk, that of the command c on the command
\* bus included (None: there is none).
Incoming(rk, c) ==
    IF c.type \in Reads THEN Append(rk.returning, [addr |-> c.addr, left |-> RL + 1])
    ELSE rk.returning

\* How many entries of s are in T, and the data of address a.
NumberIn(s, T) == Cardinality({i \in DOMAIN s : s[i] \in T})
DataOf(a) == {d \in DataPackets : d.addr = a}
=============================================================================
