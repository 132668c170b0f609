--------------------------- MODULE CommandScheduling ---------------------------
(***************************************************************************)
(* What the scheduler of CommandQueue.cpp promises whatever its policy.    *)
(* Clock cycles and the order of the search are left out: any command the  *)
(* code could find issuable may be issued, any row it could close may be   *)
(* closed.  MemorySystem, with either row policy, queuing structure and    *)
(* scheduling policy, implements this specification.                       *)
(*                                                                         *)
(* A command is the ACTIVATE or the column command of a transaction.       *)
(***************************************************************************)
EXTENDS Integers, Sequences

CONSTANTS Bank, Row, Queue,
          QueueOf,            \* the queue that holds a bank's commands
          Closed,             \* no row is open
          Depth,              \* CMD_QUEUE_DEPTH
          Accesses,           \* TOTAL_ROW_ACCESSES
          AutoPrecharge       \* rowBufferPolicy = ClosePage

ASSUME QueueAssumption ==
    QueueOf \in [Bank -> Queue] /\ Closed \notin Row /\ Depth \in Nat

\* The ACTIVATE counts as an access, so one access would leave none for the
\* column command the row was opened for.
ASSUME AccessAssumption == Accesses \in Nat /\ Accesses >= 2

ASSUME PolicyAssumption == AutoPrecharge \in BOOLEAN

VARIABLES queue,    \* the commands waiting, oldest first
          open,     \* the row open in each bank
          counter   \* rowAccessCounters

vars == <<queue, open, counter>>

Command == [act : BOOLEAN, bank : Bank, row : Row]

Init ==
    /\ queue = [k \in Queue |-> <<>>]
    /\ open = [b \in Bank |-> Closed]
    /\ counter = [b \in Bank |-> 0]
-----------------------------------------------------------------------------
SameRow(c, d) == c.bank = d.bank /\ c.row = d.row

\* Commands first .. last leave the queue.
Cut(s, first, last) ==
    [j \in 1 .. Len(s) - (last - first + 1) |->
        IF j < first THEN s[j] ELSE s[j + (last - first + 1)]]

\* No earlier column command goes to the same row.
First(s, i) == \A j \in 1 .. i - 1 : s[j].act \/ ~ SameRow(s[j], s[i])

\* The ACTIVATE in front of a column command is its own.
Paired(s, i) == i > 1 /\ s[i - 1].act /\ SameRow(s[i - 1], s[i])

\* A column command whose ACTIVATE has been issued.
Orphan(s, i) == ~ s[i].act /\ (i = 1 \/ ~ s[i - 1].act)

\* The first command in line for the open row of bank b.
FirstForOpenRow(s, i, b) ==
    /\ s[i].bank = b /\ s[i].row = open[b]
    /\ \A j \in 1 .. i - 1 : ~ (s[j].bank = b /\ s[j].row = open[b])

Wanted(b) ==
    \E i \in DOMAIN queue[QueueOf[b]] :
        /\ queue[QueueOf[b]][i].bank = b
        /\ queue[QueueOf[b]][i].row = open[b]
-----------------------------------------------------------------------------
(* Guards of the commands *)

MayActivate(k, i) ==
    /\ queue[k][i].act
    /\ open[queue[k][i].bank] = Closed
    /\ First(queue[k], i)

MayAccess(k, i) ==
    /\ ~ queue[k][i].act
    /\ open[queue[k][i].bank] = queue[k][i].row
    /\ counter[queue[k][i].bank] < Accesses
    /\ IF AutoPrecharge THEN ~ Paired(queue[k], i) ELSE First(queue[k], i)

MayDrain(k, i) ==
    /\ ~ queue[k][i].act
    /\ open[queue[k][i].bank] = queue[k][i].row
    /\ FirstForOpenRow(queue[k], i, queue[k][i].bank)

\* Fault: a row is closed without looking for commands that still want it.
MayCloseWanted(b) == ~ AutoPrecharge /\ open[b] # Closed

MayClose(b) ==
    /\ ~ AutoPrecharge /\ open[b] # Closed
    /\ ~ Wanted(b) \/ counter[b] = Accesses

MayCloseForRefresh(b) ==
    /\ ~ AutoPrecharge /\ open[b] # Closed
    /\ \A i \in DOMAIN queue[QueueOf[b]] :
          FirstForOpenRow(queue[QueueOf[b]], i, b) => queue[QueueOf[b]][i].act
-----------------------------------------------------------------------------
(* Steps.  In the same clock cycle one transaction may join the queue q that  *)
(* the command of the cycle leaves behind, if there is room for two commands. *)

Enqueued(q, b, r) ==
    [q EXCEPT ![QueueOf[b]] =
        @ \o << [act |-> TRUE, bank |-> b, row |-> r],
                [act |-> FALSE, bank |-> b, row |-> r] >>]

Enqueue(q) ==
    \/ queue' = q
    \/ \E b \in Bank, r \in Row :
          Len(q[QueueOf[b]]) + 2 <= Depth /\ queue' = Enqueued(q, b, r)

Counted(b) ==
    counter' = IF AutoPrecharge THEN counter
               ELSE [counter EXCEPT ![b] = @ + 1]

AfterAccess(b) ==
    open' = IF AutoPrecharge THEN [open EXCEPT ![b] = Closed] ELSE open

Activate(k, i) ==
    /\ MayActivate(k, i)
    /\ Enqueue([queue EXCEPT ![k] = Cut(queue[k], i, i)])
    /\ open' = [open EXCEPT ![queue[k][i].bank] = queue[k][i].row]
    /\ Counted(queue[k][i].bank)

\* A hit takes along the ACTIVATE that turned out not to be needed.
Access(k, i) ==
    /\ MayAccess(k, i)
    /\ Enqueue([queue EXCEPT ![k] =
          Cut(queue[k], IF Paired(queue[k], i) THEN i - 1 ELSE i, i)])
    /\ AfterAccess(queue[k][i].bank)
    /\ Counted(queue[k][i].bank)

\* Before a refresh the access a row was opened for goes out uncounted.
Drain(k, i) ==
    /\ MayDrain(k, i)
    /\ Enqueue([queue EXCEPT ![k] = Cut(queue[k], i, i)])
    /\ AfterAccess(queue[k][i].bank)
    /\ UNCHANGED counter

Close(b) ==
    /\ MayClose(b) \/ MayCloseForRefresh(b)
    /\ Enqueue(queue)
    /\ open' = [open EXCEPT ![b] = Closed]
    /\ counter' = [counter EXCEPT ![b] = 0]

NoCommand == Enqueue(queue) /\ UNCHANGED <<open, counter>>

Next ==
    \/ \E k \in Queue : \E i \in DOMAIN queue[k] :
          Activate(k, i) \/ Access(k, i) \/ Drain(k, i)
    \/ \E b \in Bank : Close(b)
    \/ NoCommand

Spec == Init /\ [][Next]_vars
-----------------------------------------------------------------------------
(* Properties *)

TypeOK ==
    /\ queue \in [Queue -> Seq(Command)]
    /\ open \in [Bank -> Row \cup {Closed}]
    /\ counter \in [Bank -> Nat]

\* enqueue never finds more than CMD_QUEUE_DEPTH commands in a queue, so the
\* program does not exit there and hasRoomFor never subtracts past zero.
WithinDepth == \A k \in Queue : Len(queue[k]) <= Depth

\* Every ACTIVATE is followed by the column command it came with, in the queue
\* of its bank; removing the ACTIVATE of a hit relies on it.
ActivatesPaired ==
    \A k \in Queue : \A i \in DOMAIN queue[k] :
        /\ QueueOf[queue[k][i].bank] = k
        /\ queue[k][i].act => /\ i + 1 \in DOMAIN queue[k]
                              /\ ~ queue[k][i + 1].act
                              /\ SameRow(queue[k][i], queue[k][i + 1])

\* A column command whose ACTIVATE has been issued finds its row open until it
\* is issued itself: neither the access limit, nor a refresh, nor another
\* transaction's ACTIVATE closes the row under it.  No second ACTIVATE would
\* ever be sent for it.
OrphanRowOpen ==
    \A k \in Queue : \A i \in DOMAIN queue[k] :
        Orphan(queue[k], i) => open[queue[k][i].bank] = queue[k][i].row

\* An access a row was opened for is the oldest one to that row, and the row
\* has not been accessed since: it cannot run into the access limit.
OrphanNext ==
    \A k \in Queue : \A i \in DOMAIN queue[k] :
        Orphan(queue[k], i) => /\ First(queue[k], i)
                               /\ counter[queue[k][i].bank] <= 1

\* The access counter belongs to the open row: it is back at zero whenever the
\* row has been closed, by a conflict, the limit, or a refresh, and it never
\* passes the limit.
CounterOfOpenRow ==
    \A b \in Bank : /\ open[b] = Closed \/ AutoPrecharge => counter[b] = 0
                    /\ counter[b] <= Accesses

\* With auto-precharge a row is open only while an access it was opened for
\* waits: nothing else would ever close it.
OpenForAccess ==
    AutoPrecharge =>
        \A b \in Bank : open[b] # Closed =>
            \E i \in DOMAIN queue[QueueOf[b]] :
                Orphan(queue[QueueOf[b]], i) /\ queue[QueueOf[b]][i].bank = b

IInv == /\ TypeOK /\ WithinDepth /\ ActivatesPaired
        /\ OrphanRowOpen /\ OrphanNext /\ CounterOfOpenRow /\ OpenForAccess

\* While commands wait some command may be sent: the rules never leave the
\* scheduler with a queue it cannot make progress on.
NeverStuck ==
    \A k \in Queue : queue[k] # <<>> =>
        \/ \E i \in DOMAIN queue[k] : MayActivate(k, i) \/ MayAccess(k, i)
        \/ \E b \in Bank : QueueOf[b] = k /\ MayClose(b)

\* Accesses to one row leave in the order in which they came: a queue only
\* loses the oldest column command to a row.
RowOrder ==
    [][\A k \in Queue : \A i \in DOMAIN queue[k] :
         (Access(k, i) \/ Drain(k, i)) => First(queue[k], i)]_vars
=============================================================================
