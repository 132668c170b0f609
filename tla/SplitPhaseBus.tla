----------------------------- MODULE SplitPhaseBus -----------------------------
(***************************************************************************)
(* The split-phase bus of MARSS.  A request waits in the queue of its      *)
(* controller, is broadcast on the address bus, collects the responses of  *)
(* all other controllers in a pending entry, and ends with a broadcast on  *)
(* the data bus.  The two buses work at the same time.                     *)
(*                                                                         *)
(* A request is a record: [core, n, type, line] for the n-th access of a   *)
(* core, [type, line] for a message of a cache.  Snooping is enabled, as   *)
(* in every machine configuration.                                         *)
(***************************************************************************)
EXTENDS Integers, FiniteSets, SequencesExt

CONSTANTS Request,          \* reads and writes of the cores, messages of the caches
          Cache,            \* the lowest private caches, one per core
          MEM,              \* the memory controller
          ControllerOrder,  \* all controllers, in the order they registered
          QUEUE_SIZE,       \* requests a controller may have in its queue
          TRANSACTIONS      \* pending entries of the bus

ASSUME BusAssumption ==
    /\ Cache # {} /\ MEM \notin Cache
    /\ ControllerOrder \in Seq(Cache \cup {MEM}) /\ ControllerOrder # <<>>
    /\ \A r \in Request : r.type \in {"READ", "WRITE", "UPDATE", "EVICT"}
    /\ QUEUE_SIZE \in Nat \ {0} /\ TRANSACTIONS \in Nat \ {0}

VARIABLES queue,          \* per controller, its requests that wait
          transactions,   \* the pending entries, in order
          addressBus,     \* its next event: [event, controller]
          lastAccess,     \* index of the controller chosen last
          dataBus         \* its next event: [event, request]

busvars == <<queue, transactions, addressBus, lastAccess, dataBus>>

Controller == Cache \cup {MEM}
Idle == [event |-> "idle"]
Arbitrate == [event |-> "arbitrate"]

BusInit ==
    /\ queue = [c \in Controller |-> <<>>]
    /\ transactions = <<>>
    /\ addressBus = Idle
    /\ lastAccess = 1
    /\ dataBus = Idle

Ready(t) == t.responded = Controller
DataBroadcastOf(request) == [event |-> "broadcast", request |-> request]

\* set_data_bus: the first entry of ts that has all its responses goes next.
FirstReady(ts) ==
    CHOOSE i \in DOMAIN ts : Ready(ts[i]) /\ \A j \in 1..(i - 1) : ~Ready(ts[j])
set_data_bus(ts) ==
    IF \E i \in DOMAIN ts : Ready(ts[i])
    THEN DataBroadcastOf(ts[FirstReady(ts)].request) ELSE Idle
-----------------------------------------------------------------------------
\* A request that is not pending is new; it is refused if the queue of its
\* controller is full.
IsNew(request) == \A i \in DOMAIN transactions : transactions[i].request # request
Refuses(c, request) == IsNew(request) /\ Len(queue[c]) = QUEUE_SIZE

\* Otherwise it is the response of controller c.  A private cache that has the
\* data answers for all: whoever has not responded yet is annulled.
Annulled(c, t, data) ==
    IF data /\ c \in Cache THEN Controller \ (t.responded \cup {c}) ELSE {}

AnnulledBy(c, request, data) ==
    UNION {Annulled(c, t, data) : t \in {u \in Range(transactions) : u.request = request}}

\* Fault: the annulled controllers are not counted as responded.
RespondedAlone(c, t, data, shared) ==
    [t EXCEPT !.responded = @ \cup {c},
              !.supplier = IF data THEN {c} ELSE @,
              !.shared = @ \/ (c \in Cache /\ shared)]

Responded(c, t, data, shared) ==
    [t EXCEPT !.responded = @ \cup {c} \cup Annulled(c, t, data),
              !.supplier = IF data THEN {c} ELSE @,
              !.shared = @ \/ (c \in Cache /\ shared)]

\* The annul_request calls themselves are left to the controllers.
controller_request_cb(c, request, data, shared) ==
    /\ queue' = IF IsNew(request) /\ ~Refuses(c, request)
                THEN [queue EXCEPT ![c] = Append(@, request)] ELSE queue
    /\ addressBus' = IF queue' # queue /\ addressBus = Idle THEN Arbitrate
                     ELSE addressBus
    /\ transactions' = [i \in DOMAIN transactions |->
                          IF transactions[i].request = request
                          THEN Responded(c, transactions[i], data, shared)
                          ELSE transactions[i]]
    /\ dataBus' =
          IF dataBus = Idle /\ \E i \in DOMAIN transactions' :
                transactions'[i].request = request /\ Ready(transactions'[i])
          THEN DataBroadcastOf(request) ELSE dataBus
    /\ UNCHANGED lastAccess
-----------------------------------------------------------------------------
\* arbitrate_round_robin: the first controller with a request, counting from
\* the one after lastAccess.
Turn(k) == ControllerOrder[((lastAccess + k - 1) % Len(ControllerOrder)) + 1]
Chosen(q, k) ==
    /\ q[Turn(k)] # <<>>
    /\ \A j \in 1..(k - 1) : q[Turn(j)] = <<>>

\* broadcast_cb(NULL), with the queues q: choose a request, or ask again.
broadcast_next(q) ==
    \/ \E k \in 1..Len(ControllerOrder) :
          /\ Chosen(q, k)
          /\ addressBus' = [event |-> "broadcast", controller |-> Turn(k)]
          /\ lastAccess' = ((lastAccess + k - 1) % Len(ControllerOrder)) + 1
    \/ /\ \A k \in 1..Len(ControllerOrder) : ~Chosen(q, k)
       /\ addressBus' = Arbitrate
       /\ UNCHANGED lastAccess

BusArbitrate ==
    /\ addressBus.event = "arbitrate"
    /\ broadcast_next(queue)
    /\ UNCHANGED <<queue, transactions, dataBus>>

\* broadcast_cb for the chosen request: start, or arbitrate again when there
\* is no pending entry for it or another controller is full.
broadcast_cb(can_broadcast) ==
    /\ addressBus.event = "broadcast"
    /\ addressBus' =
          IF \/ /\ Len(transactions) = TRANSACTIONS
                /\ Head(queue[addressBus.controller]).type # "UPDATE"
             \/ ~can_broadcast
          THEN Arbitrate
          ELSE [event |-> "completed", controller |-> addressBus.controller]
    /\ UNCHANGED <<queue, transactions, lastAccess, dataBus>>

\* broadcast_completed_cb: the request leaves its queue, a read or write gets
\* its pending entry, and the next request is chosen.
broadcast_completed_cb(c, request) ==
    /\ addressBus = [event |-> "completed", controller |-> c]
    /\ request = Head(queue[c])
    /\ transactions' =
          IF request.type \in {"READ", "WRITE"}
          THEN Append(transactions, [request |-> request, from |-> c,
                                     responded |-> {c}, supplier |-> {},
                                     shared |-> FALSE])
          ELSE transactions
    /\ queue' = [queue EXCEPT ![c] = Tail(@)]
    /\ broadcast_next(queue')
    /\ UNCHANGED dataBus

\* The same when a controller has filled up meanwhile: arbitrate again.
BroadcastPutOff ==
    /\ addressBus.event = "completed"
    /\ addressBus' = Arbitrate
    /\ UNCHANGED <<queue, transactions, lastAccess, dataBus>>

data_broadcast_cb(can_broadcast) ==
    /\ dataBus.event = "broadcast"
    /\ can_broadcast
    /\ dataBus' = [dataBus EXCEPT !.event = "completed"]
    /\ UNCHANGED <<queue, transactions, addressBus, lastAccess>>

\* Fault: nobody looks for the next transaction that is ready.
DataCompletedLast(i) ==
    /\ dataBus.event = "completed" /\ dataBus.request = transactions[i].request
    /\ transactions' = RemoveAt(transactions, i)
    /\ dataBus' = Idle
    /\ UNCHANGED <<queue, addressBus, lastAccess>>

\* data_broadcast_completed_cb for transaction i: it ends, and the next one
\* that is ready gets the data bus.
data_broadcast_completed_cb(i) ==
    /\ dataBus.event = "completed" /\ dataBus.request = transactions[i].request
    /\ transactions' = RemoveAt(transactions, i)
    /\ dataBus' = set_data_bus(transactions')
    /\ UNCHANGED <<queue, addressBus, lastAccess>>
-----------------------------------------------------------------------------
(* The bus among controllers of any kind.  They respond as they like, but a *)
(* read or write is asked for once.                                         *)

Waits(request) == \E c \in Controller : request \in Range(queue[c])
AskedOnce(request) == request.type \in {"READ", "WRITE"} /\ IsNew(request) => ~Waits(request)

BusNext ==
    \/ \E c \in Controller, request \in Request, data \in BOOLEAN, shared \in BOOLEAN :
          AskedOnce(request) /\ controller_request_cb(c, request, data, shared)
    \/ BusArbitrate
    \/ \E can_broadcast \in BOOLEAN : broadcast_cb(can_broadcast)
    \/ BroadcastPutOff
    \/ \E c \in Controller :
          queue[c] # <<>> /\ broadcast_completed_cb(c, Head(queue[c]))
    \/ \E can_broadcast \in BOOLEAN : data_broadcast_cb(can_broadcast)
    \/ \E i \in DOMAIN transactions : data_broadcast_completed_cb(i)

BusSpec == BusInit /\ [][BusNext]_busvars
-----------------------------------------------------------------------------
Transaction == [request : Request, from : Controller, responded : SUBSET Controller,
                supplier : SUBSET Controller, shared : BOOLEAN]

BusTypeOK ==
    /\ queue \in [Controller -> Seq(Request)]
    /\ transactions \in Seq(Transaction)
    /\ addressBus \in [event : {"idle", "arbitrate"}]
                       \cup [event : {"broadcast", "completed"}, controller : Controller]
    /\ lastAccess \in DOMAIN ControllerOrder
    /\ dataBus \in [event : {"idle"}]
                    \cup [event : {"broadcast", "completed"}, request : Request]

\* The data bus never forgets a request: it works on a pending request that has
\* all its responses, and it rests only if there is none.  A response that
\* comes while it is busy, or completes another request, does not start it.
ReadyServed ==
    /\ dataBus # Idle => \E i \in DOMAIN transactions :
          transactions[i].request = dataBus.request /\ Ready(transactions[i])
    /\ dataBus = Idle => \A i \in DOMAIN transactions : ~Ready(transactions[i])

\* The request on the address bus is still the first of its queue.
BroadcastQueued ==
    addressBus.event \in {"broadcast", "completed"} => queue[addressBus.controller] # <<>>

\* The bus never runs out of pending entries or queue entries: the room that
\* broadcast_cb has seen is still there when broadcast_completed_cb asserts
\* that it gets an entry, whatever has happened on the data bus meanwhile.
Broadcasting == Head(queue[addressBus.controller])
RoomKept ==
    /\ Len(transactions) <= TRANSACTIONS
    /\ \A c \in Controller : Len(queue[c]) <= QUEUE_SIZE
    /\ addressBus.event = "completed" /\ Broadcasting.type # "UPDATE" =>
          Len(transactions) < TRANSACTIONS

\* A read or write is at one place of the bus only.
Unique ==
    /\ \A i, j \in DOMAIN transactions :
          transactions[i].request = transactions[j].request => i = j
    /\ \A i \in DOMAIN transactions : ~Waits(transactions[i].request)
    /\ \A i \in DOMAIN transactions : transactions[i].request.type \in {"READ", "WRITE"}
    /\ \A c, d \in Controller : \A j \in DOMAIN queue[c], k \in DOMAIN queue[d] :
          queue[c][j] = queue[d][k] /\ queue[c][j].type \in {"READ", "WRITE"} =>
             c = d /\ j = k

BusIInv == BusTypeOK /\ ReadyServed /\ BroadcastQueued /\ RoomKept /\ Unique
=============================================================================
