------------------------- MODULE SplitPhaseBusProofs --------------------------
(***************************************************************************)
(* That the bus serves every request that has its responses and never runs *)
(* out of entries, among controllers of any number and kind.               *)
(***************************************************************************)
EXTENDS SplitPhaseBus, WellFoundedInduction, TLAPS

\* Of the entries with all their responses there is a first one.
LEMMA FirstReadyExists ==
    ASSUME NEW ts \in Seq(Transaction), \E i \in DOMAIN ts : Ready(ts[i])
    PROVE  FirstReady(ts) \in DOMAIN ts /\ Ready(ts[FirstReady(ts)])
<1> DEFINE T == {i \in DOMAIN ts : Ready(ts[i])}
           R == OpToRel(<, Nat)
<1>1. IsWellFoundedOn(R, Nat)
  BY NatLessThanWellFounded, Zenon
<1>2. \A x, y \in Nat : x < y => <<x, y>> \in R
  BY Zenon DEF OpToRel
<1>3. T \subseteq Nat /\ T # {}
  OBVIOUS
<1> HIDE DEF R, T
<1>4. PICK x \in T : \A y \in T : ~ (<<y, x>> \in R)
  BY <1>1, <1>3, WFMin, Zenon
<1>5. \A y \in T : ~ (y < x)
  BY <1>2, <1>3, <1>4, Zenon
<1>6. x \in DOMAIN ts /\ Ready(ts[x]) /\ \A j \in 1..(x - 1) : ~Ready(ts[j])
  BY <1>5 DEF T
<1> QED BY <1>6, Zenon DEF FirstReady

\* RemoveAt drops one entry and moves up the ones behind it.
LEMMA RemoveAtShape ==
    ASSUME NEW S, NEW s \in Seq(S), NEW i \in DOMAIN s
    PROVE  /\ RemoveAt(s, i) \in Seq(S)
           /\ Len(RemoveAt(s, i)) = Len(s) - 1
           /\ \A j \in 1..(Len(s) - 1) :
                 RemoveAt(s, i)[j] = IF j < i THEN s[j] ELSE s[j + 1]
<1> DEFINE a == SubSeq(s, 1, i - 1)
           b == SubSeq(s, i + 1, Len(s))
<1>1. a \in Seq(S) /\ Len(a) = i - 1 /\ \A j \in 1..(i - 1) : a[j] = s[j]
  OBVIOUS
<1>2. b \in Seq(S) /\ Len(b) = Len(s) - i /\ \A j \in 1..(Len(s) - i) : b[j] = s[i + j]
  OBVIOUS
<1>3. RemoveAt(s, i) = a \o b
  BY Zenon DEF RemoveAt
<1> HIDE DEF a, b
<1>4. a \o b \in Seq(S) /\ Len(a \o b) = Len(s) - 1
  BY <1>1, <1>2
<1>5. ASSUME NEW j \in 1..(Len(s) - 1)
      PROVE  (a \o b)[j] = IF j < i THEN s[j] ELSE s[j + 1]
  <2>1. CASE j < i
    BY <2>1, <1>1, <1>2
  <2>2. CASE ~ (j < i)
    <3>1. (a \o b)[j] = b[j - (i - 1)]
      BY <2>2, <1>1, <1>2
    <3>2. j - (i - 1) \in 1..(Len(s) - i)
      BY <2>2
    <3> QED BY <3>1, <3>2, <2>2, <1>2
  <2> QED BY <2>1, <2>2, Zenon
<1> QED BY <1>3, <1>4, <1>5, Zenon

\* A response, or a request that is already pending, changes one entry only.
LEMMA ResponseKeeps ==
    ASSUME BusIInv, NEW c \in Controller, NEW request \in Request,
           NEW data \in BOOLEAN, NEW shared \in BOOLEAN,
           ~IsNew(request), controller_request_cb(c, request, data, shared)
    PROVE  BusIInv'
<1> USE BusAssumption
<1> DEFINE Answered(i) == IF transactions[i].request = request
                          THEN Responded(c, transactions[i], data, shared)
                          ELSE transactions[i]
<1>1. /\ UNCHANGED <<queue, addressBus, lastAccess>>
      /\ transactions' = [i \in DOMAIN transactions |-> Answered(i)]
  BY Zenon DEF controller_request_cb
<1>2. ASSUME NEW i \in DOMAIN transactions
      PROVE  /\ Answered(i) \in Transaction
             /\ Answered(i).request = transactions[i].request
             /\ Ready(transactions[i]) => Ready(Answered(i))
             /\ transactions[i].request # request => Answered(i) = transactions[i]
  <2>1. transactions[i] \in Transaction
    BY DEF BusIInv, BusTypeOK
  <2>2. Annulled(c, transactions[i], data) \subseteq Controller
    BY Zenon DEF Annulled
  <2> HIDE DEF Controller
  <2>3. Responded(c, transactions[i], data, shared) \in Transaction
    BY <2>1, <2>2, Zenon DEF Responded, Transaction
  <2>4. Responded(c, transactions[i], data, shared).request = transactions[i].request
    BY <2>1, Zenon DEF Responded, Transaction
  <2>5. Ready(transactions[i]) => Ready(Responded(c, transactions[i], data, shared))
    BY <2>1, <2>2 DEF Responded, Transaction, Ready
  <2> QED BY <2>1, <2>3, <2>4, <2>5, Zenon
<1> HIDE DEF Answered
<1>3. /\ transactions' \in Seq(Transaction)
      /\ Len(transactions') = Len(transactions)
      /\ DOMAIN transactions' = DOMAIN transactions
      /\ \A i \in DOMAIN transactions : transactions'[i] = Answered(i)
  BY <1>1, <1>2 DEF BusIInv, BusTypeOK
<1>4. dataBus' = dataBus \/ (dataBus = Idle /\ dataBus' = DataBroadcastOf(request))
  BY Zenon DEF controller_request_cb
<1>5. BusTypeOK'
  BY <1>1, <1>3, <1>4 DEF BusIInv, BusTypeOK, DataBroadcastOf
<1>6. ReadyServed'
  <2>1. CASE dataBus # Idle
    <3>1. dataBus' = dataBus
      BY <2>1, Zenon DEF controller_request_cb
    <3>2. PICK i \in DOMAIN transactions :
             transactions[i].request = dataBus.request /\ Ready(transactions[i])
      BY <2>1, Zenon DEF BusIInv, ReadyServed
    <3>3. transactions'[i].request = dataBus'.request /\ Ready(transactions'[i])
      BY <3>1, <3>2, <1>2, <1>3, Zenon DEF Ready
    <3> QED BY <2>1, <3>1, <3>3, <1>3, Zenon DEF ReadyServed
  <2>2. CASE dataBus = Idle /\ \E i \in DOMAIN transactions' :
                transactions'[i].request = request /\ Ready(transactions'[i])
    <3>1. dataBus' = DataBroadcastOf(request)
      BY <2>2, Zenon DEF controller_request_cb
    <3> QED BY <3>1, <2>2, Zenon DEF ReadyServed, DataBroadcastOf, Idle, Ready
  <2>3. CASE dataBus = Idle /\ ~ \E i \in DOMAIN transactions' :
                transactions'[i].request = request /\ Ready(transactions'[i])
    <3>1. dataBus' = Idle
      BY <2>3, Zenon DEF controller_request_cb
    <3>2. ASSUME NEW i \in DOMAIN transactions' PROVE ~Ready(transactions'[i])
      <4>1. CASE transactions[i].request = request
        BY <4>1, <2>3, <1>2, <1>3, Zenon
      <4>2. CASE transactions[i].request # request
        BY <4>2, <2>3, <1>2, <1>3, Zenon DEF BusIInv, ReadyServed
      <4> QED BY <4>1, <4>2, Zenon
    <3> QED BY <3>1, <3>2, Zenon DEF ReadyServed, Ready, Idle
  <2> QED BY <2>1, <2>2, <2>3, Zenon
<1>7. BroadcastQueued' /\ RoomKept'
  BY <1>1, <1>3, Zenon DEF BusIInv, BroadcastQueued, RoomKept, Broadcasting
<1>8. Unique'
  BY <1>1, <1>2, <1>3 DEF BusIInv, Unique, Waits
<1> QED BY <1>5, <1>6, <1>7, <1>8, Zenon DEF BusIInv

\* A new request changes its queue only, and finds a place there.
LEMMA RequestKeeps ==
    ASSUME BusIInv, NEW c \in Controller, NEW request \in Request,
           NEW data \in BOOLEAN, NEW shared \in BOOLEAN,
           IsNew(request), AskedOnce(request),
           controller_request_cb(c, request, data, shared)
    PROVE  BusIInv'
<1> USE BusAssumption
<1>1. transactions' = transactions
  BY DEF controller_request_cb, IsNew, BusIInv, BusTypeOK
<1>2. UNCHANGED <<dataBus, lastAccess>>
  BY <1>1, Zenon DEF controller_request_cb, IsNew
<1>3. CASE Refuses(c, request)
  <2>1. queue' = queue /\ addressBus' = addressBus
    BY <1>3, Zenon DEF controller_request_cb
  <2> QED BY <1>1, <1>2, <2>1 DEF BusIInv, BusTypeOK, ReadyServed, Ready,
             BroadcastQueued, RoomKept, Broadcasting, Unique, Waits
<1>4. CASE ~Refuses(c, request)
  <2>1. queue' = [queue EXCEPT ![c] = Append(queue[c], request)]
    BY <1>4, Zenon DEF controller_request_cb
  <2>2. addressBus' = addressBus \/ (addressBus = Idle /\ addressBus' = Arbitrate)
    BY Zenon DEF controller_request_cb
  <2>3. queue[c] \in Seq(Request) /\ Len(queue[c]) < QUEUE_SIZE
    BY <1>4 DEF Refuses, BusIInv, BusTypeOK, RoomKept
  <2>4. /\ queue' \in [Controller -> Seq(Request)]
        /\ Len(queue'[c]) = Len(queue[c]) + 1
        /\ \A j \in DOMAIN queue[c] : queue'[c][j] = queue[c][j]
        /\ queue'[c][Len(queue[c]) + 1] = request
        /\ \A d \in Controller : d # c => queue'[d] = queue[d]
    BY <2>1, <2>3 DEF BusIInv, BusTypeOK
  <2>5. BusTypeOK'
    BY <1>1, <1>2, <2>2, <2>4 DEF BusIInv, BusTypeOK, Arbitrate
  <2>6. ReadyServed'
    BY <1>1, <1>2, Zenon DEF BusIInv, ReadyServed, Ready
  <2>7. ASSUME NEW d \in Controller, queue[d] # <<>>
        PROVE  queue'[d] # <<>> /\ Head(queue'[d]) = Head(queue[d])
    <3>1. queue[d] \in Seq(Request)
      BY Zenon DEF BusIInv, BusTypeOK
    <3> QED BY <3>1, <2>1, <2>4, <2>7
  <2>8. BroadcastQueued' /\ RoomKept'
    <3>1. addressBus'.event \in {"broadcast", "completed"} =>
             addressBus' = addressBus /\ addressBus.controller \in Controller
      BY <2>2 DEF Arbitrate, BusIInv, BusTypeOK
    <3>2. BroadcastQueued'
      BY <3>1, <2>7, Zenon DEF BusIInv, BroadcastQueued
    <3>3. \A d \in Controller : Len(queue'[d]) <= QUEUE_SIZE
      BY <2>3, <2>4 DEF BusIInv, RoomKept
    <3>4. addressBus'.event = "completed" => Broadcasting' = Broadcasting
      BY <3>1, <2>7, Zenon DEF BusIInv, BroadcastQueued, Broadcasting
    <3> QED BY <1>1, <3>1, <3>2, <3>3, <3>4, Zenon DEF BusIInv, RoomKept
  <2>9. Unique'
    <3>1. ASSUME NEW d \in Controller, NEW k \in DOMAIN queue'[d]
          PROVE  \/ k \in DOMAIN queue[d] /\ queue'[d][k] = queue[d][k]
                 \/ d = c /\ k = Len(queue[c]) + 1 /\ queue'[d][k] = request
      <4>1. queue[d] \in Seq(Request) /\ queue'[d] \in Seq(Request)
        BY <2>4, Zenon DEF BusIInv, BusTypeOK
      <4> QED BY <4>1, <2>3, <2>4
    <3>2. \A i \in DOMAIN transactions : ~Waits(transactions[i].request)'
      BY <1>1, <3>1 DEF BusIInv, Unique, Waits, IsNew, Range
    <3>3. ASSUME NEW d \in Controller, NEW k \in DOMAIN queue[d],
                 request.type \in {"READ", "WRITE"}
          PROVE  queue[d][k] # request
      BY <3>3, Zenon DEF AskedOnce, Waits, Range
    <3>4. \A d, e \in Controller : \A j \in DOMAIN queue'[d], k \in DOMAIN queue'[e] :
             queue'[d][j] = queue'[e][k] /\ queue'[d][j].type \in {"READ", "WRITE"} =>
                d = e /\ j = k
      BY <3>1, <3>3 DEF BusIInv, Unique
    <3> QED BY <1>1, <3>2, <3>4, Zenon DEF BusIInv, Unique
  <2> QED BY <2>5, <2>6, <2>8, <2>9, Zenon DEF BusIInv
<1> QED BY <1>3, <1>4, Zenon

\* Arbitration chooses a controller with a request, or nobody.
LEMMA ArbitrationChooses ==
    ASSUME lastAccess \in DOMAIN ControllerOrder, NEW q, broadcast_next(q)
    PROVE  /\ lastAccess' \in DOMAIN ControllerOrder
           /\ \/ addressBus' = Arbitrate
              \/ \E c \in Controller :
                    q[c] # <<>> /\ addressBus' = [event |-> "broadcast", controller |-> c]
<1> USE BusAssumption
<1> DEFINE N == Len(ControllerOrder)
<1>1. N \in Nat \ {0} /\ DOMAIN ControllerOrder = 1..N
  OBVIOUS
<1>2. ASSUME NEW k \in 1..N
      PROVE  ((lastAccess + k - 1) % N) + 1 \in 1..N
  <2>1. lastAccess + k - 1 \in Nat
    BY <1>1
  <2> HIDE DEF N
  <2>2. (lastAccess + k - 1) % N \in 0..(N - 1)
    BY <1>1, <2>1
  <2> QED BY <1>1, <2>2
<1>3. CASE \E k \in 1..N :
              /\ Chosen(q, k)
              /\ addressBus' = [event |-> "broadcast", controller |-> Turn(k)]
              /\ lastAccess' = ((lastAccess + k - 1) % N) + 1
  <2>1. PICK k \in 1..N :
              /\ Chosen(q, k)
              /\ addressBus' = [event |-> "broadcast", controller |-> Turn(k)]
              /\ lastAccess' = ((lastAccess + k - 1) % N) + 1
    BY <1>3, Zenon
  <2>2. Turn(k) \in Controller
    BY <1>1, <1>2 DEF Turn, Controller
  <2> QED BY <1>1, <1>2, <2>1, <2>2, Zenon DEF Chosen
<1>4. CASE addressBus' = Arbitrate /\ lastAccess' = lastAccess
  BY <1>4, Zenon
<1> QED BY <1>3, <1>4, Zenon DEF broadcast_next

\* Arbitration, and giving up a broadcast, change the address bus only.
LEMMA ArbitrateKeeps ==
    ASSUME BusIInv, BusArbitrate \/ BroadcastPutOff
    PROVE  BusIInv'
<1> USE BusAssumption
<1>1. UNCHANGED <<queue, transactions, dataBus>>
  BY Zenon DEF BusArbitrate, BroadcastPutOff
<1>2. /\ lastAccess' \in DOMAIN ControllerOrder
      /\ \/ addressBus' = Arbitrate
         \/ \E c \in Controller :
               queue[c] # <<>> /\ addressBus' = [event |-> "broadcast", controller |-> c]
  BY ArbitrationChooses, Zenon DEF BusArbitrate, BroadcastPutOff, BusIInv, BusTypeOK
<1>3. addressBus'.event # "completed"
  BY <1>2 DEF Arbitrate
<1>4. BusTypeOK' /\ BroadcastQueued'
  BY <1>1, <1>2 DEF BusIInv, BusTypeOK, BroadcastQueued, Arbitrate
<1>5. ReadyServed' /\ RoomKept' /\ Unique'
  BY <1>1, <1>3 DEF BusIInv, ReadyServed, Ready, RoomKept, Unique, Waits
<1> QED BY <1>4, <1>5, Zenon DEF BusIInv

\* A broadcast starts only if there is room for its pending entry.
LEMMA BroadcastKeeps ==
    ASSUME BusIInv, NEW can_broadcast \in BOOLEAN, broadcast_cb(can_broadcast)
    PROVE  BusIInv'
<1> USE BusAssumption
<1>1. UNCHANGED <<queue, transactions, lastAccess, dataBus>>
  BY Zenon DEF broadcast_cb
<1>2. addressBus.controller \in Controller
  BY Zenon DEF broadcast_cb, BusIInv, BusTypeOK
<1>3. \/ addressBus' = Arbitrate
      \/ /\ addressBus' = [event |-> "completed", controller |-> addressBus.controller]
         /\ Broadcasting.type = "UPDATE" \/ Len(transactions) # TRANSACTIONS
  BY Zenon DEF broadcast_cb, Broadcasting
<1>4. BusTypeOK'
  BY <1>1, <1>2, <1>3 DEF BusIInv, BusTypeOK, Arbitrate
<1>5. BroadcastQueued'
  BY <1>1, <1>3, Zenon DEF broadcast_cb, BusIInv, BroadcastQueued, Arbitrate
<1>6. RoomKept'
  <2>1. addressBus'.event = "completed" =>
           /\ Broadcasting' = Broadcasting
           /\ Broadcasting.type = "UPDATE" \/ Len(transactions) # TRANSACTIONS
    BY <1>1, <1>3 DEF Arbitrate, Broadcasting
  <2>2. Len(transactions) \in Nat
    BY DEF BusIInv, BusTypeOK
  <2> QED BY <1>1, <2>1, <2>2 DEF BusIInv, RoomKept
<1>7. ReadyServed' /\ Unique'
  BY <1>1 DEF BusIInv, ReadyServed, Ready, Unique, Waits
<1> QED BY <1>4, <1>5, <1>6, <1>7, Zenon DEF BusIInv

\* The data bus that starts its broadcast keeps its request.
LEMMA DataBroadcastKeeps ==
    ASSUME BusIInv, NEW can_broadcast \in BOOLEAN, data_broadcast_cb(can_broadcast)
    PROVE  BusIInv'
<1>1. UNCHANGED <<queue, transactions, addressBus, lastAccess>>
  BY Zenon DEF data_broadcast_cb
<1>2. /\ dataBus # Idle /\ dataBus' # Idle /\ dataBus'.request = dataBus.request
      /\ dataBus' \in [event : {"broadcast", "completed"}, request : Request]
  BY DEF data_broadcast_cb, BusIInv, BusTypeOK, Idle
<1>3. BusTypeOK' /\ BroadcastQueued' /\ RoomKept' /\ Unique'
  BY <1>1, <1>2 DEF BusIInv, BusTypeOK, BroadcastQueued, RoomKept, Broadcasting,
                    Unique, Waits
<1>4. ReadyServed'
  BY <1>1, <1>2, Zenon DEF BusIInv, ReadyServed, Ready
<1> QED BY <1>3, <1>4, Zenon DEF BusIInv

\* A broadcast that ends moves its request from the queue to a pending entry,
\* for which there is room, and which waits for the other controllers.
LEMMA CompletedKeeps ==
    ASSUME BusIInv, NEW c \in Controller, queue[c] # <<>>,
           broadcast_completed_cb(c, Head(queue[c]))
    PROVE  BusIInv'
<1> USE BusAssumption
<1> DEFINE request == Head(queue[c])
           n == Len(transactions)
           new == [request |-> request, from |-> c, responded |-> {c},
                   supplier |-> {}, shared |-> FALSE]
<1>1. /\ addressBus = [event |-> "completed", controller |-> c]
      /\ queue' = [queue EXCEPT ![c] = Tail(queue[c])]
      /\ dataBus' = dataBus
      /\ transactions' = IF request.type \in {"READ", "WRITE"}
                         THEN Append(transactions, new) ELSE transactions
  BY Zenon DEF broadcast_completed_cb
<1>2. queue[c] \in Seq(Request) /\ transactions \in Seq(Transaction)
  BY Zenon DEF BusIInv, BusTypeOK
<1>3. /\ request \in Request /\ request = queue[c][1]
      /\ Len(queue'[c]) = Len(queue[c]) - 1
      /\ \A j \in DOMAIN queue'[c] : queue'[c][j] = queue[c][j + 1]
      /\ \A d \in Controller : d # c => queue'[d] = queue[d]
      /\ queue' \in [Controller -> Seq(Request)]
  BY <1>1, <1>2 DEF BusIInv, BusTypeOK
<1>4. /\ lastAccess' \in DOMAIN ControllerOrder
      /\ \/ addressBus' = Arbitrate
         \/ \E d \in Controller :
               queue'[d] # <<>> /\ addressBus' = [event |-> "broadcast", controller |-> d]
  BY ArbitrationChooses, Zenon DEF broadcast_completed_cb, BusIInv, BusTypeOK
<1>5. new \in Transaction /\ ~Ready(new)
  <2>1. {c} # Controller
    BY Zenon DEF Controller
  <2> QED BY <1>3, <2>1, Zenon DEF Transaction, Ready
<1>6. \/ transactions' = transactions
      \/ /\ request.type \in {"READ", "WRITE"}
         /\ transactions' \in Seq(Transaction) /\ Len(transactions') = n + 1
         /\ \A i \in 1..n : transactions'[i] = transactions[i]
         /\ transactions'[n + 1] = new
  BY <1>1, <1>2, <1>5
<1>7. ASSUME NEW d \in Controller, NEW k \in DOMAIN queue'[d]
      PROVE  /\ d = c => k + 1 \in DOMAIN queue[d] /\ queue'[d][k] = queue[d][k + 1]
             /\ d # c => k \in DOMAIN queue[d] /\ queue'[d][k] = queue[d][k]
             /\ k \in Nat \ {0}
  <2>1. queue[d] \in Seq(Request) /\ queue'[d] \in Seq(Request)
    BY <1>3, Zenon DEF BusIInv, BusTypeOK
  <2> QED BY <1>3, <2>1
<1>8. new.request = request
  BY Zenon
<1> HIDE DEF request, new
<1>9. BusTypeOK'
  BY <1>1, <1>2, <1>3, <1>4, <1>6 DEF BusIInv, BusTypeOK, Arbitrate
<1>10. BroadcastQueued'
  BY <1>4 DEF BroadcastQueued, Arbitrate
<1>11. RoomKept'
  <2>1. addressBus'.event # "completed"
    BY <1>4 DEF Arbitrate
  <2>2. Len(transactions') <= TRANSACTIONS
    <3>1. Broadcasting = request /\ addressBus.event = "completed"
      BY <1>1, Zenon DEF Broadcasting, request
    <3> QED BY <1>2, <1>6, <3>1 DEF BusIInv, RoomKept
  <2>3. ASSUME NEW d \in Controller PROVE Len(queue'[d]) <= QUEUE_SIZE
    <3>1. Len(queue[d]) <= QUEUE_SIZE
      BY Zenon DEF BusIInv, RoomKept
    <3>2. Len(queue[c]) \in Nat
      BY <1>2
    <3>3. CASE d = c
      BY <3>1, <3>2, <3>3, <1>3
    <3>4. CASE d # c
      BY <3>1, <3>4, <1>3, Zenon
    <3> QED BY <3>3, <3>4, Zenon
  <2> QED BY <2>1, <2>2, <2>3, Zenon DEF RoomKept
<1>12. ReadyServed'
  <2>1. CASE transactions' = transactions
    BY <2>1, <1>1, Zenon DEF BusIInv, ReadyServed, Ready
  <2>2. CASE transactions' # transactions
    <3>1. DOMAIN transactions = 1..n /\ DOMAIN transactions' = 1..(n + 1)
      BY <2>2, <1>2, <1>6
    <3>2. \A i \in 1..n : transactions'[i] = transactions[i]
      BY <2>2, <1>6, Zenon
    <3>3. ~Ready(transactions'[n + 1])
      BY <2>2, <1>5, <1>6, Zenon
    <3>4. n \in Nat
      BY <1>2
    <3> HIDE DEF n
    <3>5. dataBus # Idle => \E i \in 1..n :
             transactions'[i].request = dataBus.request /\ Ready(transactions'[i])
      BY <3>1, <3>2, Zenon DEF BusIInv, ReadyServed
    <3>6. dataBus = Idle => \A i \in 1..n : ~Ready(transactions'[i])
      BY <3>1, <3>2, Zenon DEF BusIInv, ReadyServed
    <3>7. \A i \in 1..(n + 1) : i \in 1..n \/ i = n + 1
      BY <3>4
    <3>8. 1..n \subseteq 1..(n + 1)
      BY <3>4
    <3> QED BY <1>1, <3>1, <3>3, <3>5, <3>6, <3>7, <3>8, Zenon DEF ReadyServed, Ready, Idle, Controller
  <2> QED BY <2>1, <2>2, Zenon
<1>13. Unique'
  <2>1. ASSUME NEW i \in DOMAIN transactions'
        PROVE  \/ i \in DOMAIN transactions /\ transactions'[i] = transactions[i]
               \/ /\ i = n + 1 /\ transactions'[i].request = request
                  /\ request.type \in {"READ", "WRITE"}
    BY <1>2, <1>6, <1>8
  <2>2. ASSUME NEW d \in Controller, NEW k \in DOMAIN queue'[d],
               request.type \in {"READ", "WRITE"}
        PROVE  queue'[d][k] # request
    <3>1. 1 \in DOMAIN queue[c] /\ queue[c][1] = request
      BY <1>2, <1>3
    <3>2. CASE d = c
      <4>1. k + 1 \in DOMAIN queue[c] /\ queue'[d][k] = queue[c][k + 1] /\ k + 1 # 1
        BY <3>2, <1>7
      <4> QED BY <4>1, <3>1, <2>2 DEF BusIInv, Unique
    <3>3. CASE d # c
      <4>1. k \in DOMAIN queue[d] /\ queue'[d][k] = queue[d][k]
        BY <3>3, <1>7, Zenon
      <4> QED BY <4>1, <3>1, <3>3, <2>2, Zenon DEF BusIInv, Unique
    <3> QED BY <3>2, <3>3, Zenon
  <2>3. ASSUME NEW d \in Controller, NEW k \in DOMAIN queue'[d]
        PROVE  queue'[d][k] \in Range(queue[d])
    BY <1>7, Zenon DEF Range
  <2>4. 1 \in DOMAIN queue[c] /\ request \in Range(queue[c])
    BY <1>2, <1>3 DEF Range
  <2>5. ASSUME NEW i \in DOMAIN transactions', NEW j \in DOMAIN transactions',
               transactions'[i].request = transactions'[j].request
        PROVE  i = j
    BY <2>1, <2>4, <2>5 DEF BusIInv, Unique, Waits
  <2>6. ASSUME NEW i \in DOMAIN transactions', NEW d \in Controller,
               NEW k \in DOMAIN queue'[d]
        PROVE  queue'[d][k] # transactions'[i].request
    BY <2>1, <2>2, <2>3 DEF BusIInv, Unique, Waits
  <2>7. \A i \in DOMAIN transactions' : ~Waits(transactions[i].request)'
    BY <2>6, Zenon DEF Waits, Range
  <2>8. \A i \in DOMAIN transactions' : transactions'[i].request.type \in {"READ", "WRITE"}
    BY <2>1, Zenon DEF BusIInv, Unique
  <2>9. ASSUME NEW d \in Controller, NEW e \in Controller,
               NEW j \in DOMAIN queue'[d], NEW k \in DOMAIN queue'[e],
               queue'[d][j] = queue'[e][k], queue'[d][j].type \in {"READ", "WRITE"}
        PROVE  d = e /\ j = k
    BY <1>7, <2>9 DEF BusIInv, Unique
  <2> QED BY <2>5, <2>7, <2>8, <2>9 DEF Unique
<1> QED BY <1>9, <1>10, <1>11, <1>12, <1>13, Zenon DEF BusIInv

\* A transaction that ends frees its entry, and the data bus takes the first of
\* the others that has its responses.
LEMMA DataCompletedKeeps ==
    ASSUME BusIInv, NEW i \in DOMAIN transactions, data_broadcast_completed_cb(i)
    PROVE  BusIInv'
<1> USE BusAssumption
<1> DEFINE n == Len(transactions)
<1>1. /\ UNCHANGED <<queue, addressBus, lastAccess>>
      /\ transactions' = RemoveAt(transactions, i)
      /\ dataBus' = set_data_bus(transactions')
  BY Zenon DEF data_broadcast_completed_cb
<1>2. transactions \in Seq(Transaction)
  BY Zenon DEF BusIInv, BusTypeOK
<1>3. /\ transactions' \in Seq(Transaction) /\ Len(transactions') = n - 1
      /\ \A j \in 1..(n - 1) :
            transactions'[j] = IF j < i THEN transactions[j] ELSE transactions[j + 1]
  BY <1>1, <1>2, RemoveAtShape, Zenon
<1>4. \/ /\ dataBus' = Idle
         /\ \A j \in DOMAIN transactions' : ~Ready(transactions'[j])
      \/ \E j \in DOMAIN transactions' :
            Ready(transactions'[j]) /\ dataBus' = DataBroadcastOf(transactions'[j].request)
  BY <1>1, <1>3, FirstReadyExists, Zenon DEF set_data_bus
<1>5. BusTypeOK'
  <2>1. ASSUME NEW j \in DOMAIN transactions' PROVE transactions'[j].request \in Request
    <3>1. transactions'[j] \in Transaction
      BY <1>3
    <3> QED BY <3>1, Zenon DEF Transaction
  <2> QED BY <1>1, <1>3, <1>4, <2>1 DEF BusIInv, BusTypeOK, DataBroadcastOf, Idle
<1>6. ReadyServed'
  BY <1>4 DEF ReadyServed, Ready, Controller, DataBroadcastOf, Idle
<1>7. BroadcastQueued' /\ RoomKept'
  BY <1>1, <1>2, <1>3 DEF BusIInv, BroadcastQueued, RoomKept, Broadcasting
<1>8. Unique'
  <2> DEFINE old(j) == IF j < i THEN j ELSE j + 1
  <2>1. ASSUME NEW j \in DOMAIN transactions'
        PROVE  /\ old(j) \in DOMAIN transactions
               /\ transactions'[j] = transactions[old(j)]
    BY <1>2, <1>3
  <2>2. \A j, k \in DOMAIN transactions' : old(j) = old(k) => j = k
    <3>1. DOMAIN transactions' \subseteq Nat /\ i \in Nat
      BY <1>2, <1>3
    <3>2. \A j, k \in Nat : old(j) = old(k) => j = k
      BY <3>1
    <3> QED BY <3>1, <3>2, Zenon
  <2> HIDE DEF old
  <2> QED BY <1>1, <2>1, <2>2 DEF BusIInv, Unique, Waits
<1> QED BY <1>5, <1>6, <1>7, <1>8, Zenon DEF BusIInv

\* The bus starts with nothing to do.
LEMMA InitKeeps == BusInit => BusIInv
  BY BusAssumption DEF BusInit, BusIInv, BusTypeOK, ReadyServed, Ready, BroadcastQueued,
     RoomKept, Unique, Waits, Range, Idle

\* Every step of the bus keeps the invariant.
LEMMA BusNextKeeps == BusIInv /\ [BusNext]_busvars => BusIInv'
<1> SUFFICES ASSUME BusIInv, [BusNext]_busvars PROVE BusIInv'
  BY Zenon
<1>1. CASE \E c \in Controller, request \in Request, data \in BOOLEAN, shared \in BOOLEAN :
              AskedOnce(request) /\ controller_request_cb(c, request, data, shared)
  BY <1>1, ResponseKeeps, RequestKeeps, Zenon
<1>2. CASE BusArbitrate \/ BroadcastPutOff
  BY <1>2, ArbitrateKeeps, Zenon
<1>3. CASE \E can_broadcast \in BOOLEAN : broadcast_cb(can_broadcast)
  BY <1>3, BroadcastKeeps, Zenon
<1>4. CASE \E c \in Controller :
              queue[c] # <<>> /\ broadcast_completed_cb(c, Head(queue[c]))
  BY <1>4, CompletedKeeps, Zenon
<1>5. CASE \E can_broadcast \in BOOLEAN : data_broadcast_cb(can_broadcast)
  BY <1>5, DataBroadcastKeeps
<1>6. CASE \E i \in DOMAIN transactions : data_broadcast_completed_cb(i)
  BY <1>6, DataCompletedKeeps, Zenon
<1>7. CASE UNCHANGED busvars
  BY <1>7 DEF busvars, BusIInv, BusTypeOK, ReadyServed, Ready, BroadcastQueued,
     RoomKept, Broadcasting, Unique, Waits
<1> QED BY <1>1, <1>2, <1>3, <1>4, <1>5, <1>6, <1>7, Zenon DEF BusNext

\* The data bus never forgets a request that has all its responses, in whatever
\* order the controllers respond and however many of them there are.
THEOREM DataBusServesAll == BusSpec => []ReadyServed
<1>1. BusIInv => ReadyServed
  BY Zenon DEF BusIInv
<1> QED BY <1>1, InitKeeps, BusNextKeeps, PTL DEF BusSpec

\* broadcast_completed_cb always gets its pending entry (its assertion holds),
\* and no queue holds more than it has room for.
THEOREM BusNeverOverflows == BusSpec => []RoomKept
<1>1. BusIInv => RoomKept
  BY Zenon DEF BusIInv
<1> QED BY <1>1, InitKeeps, BusNextKeeps, PTL DEF BusSpec
=============================================================================
