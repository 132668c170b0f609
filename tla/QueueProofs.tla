------------------------------ MODULE QueueProofs ------------------------------
(***************************************************************************)
(* What pop takes from the command queue: a command the controller's bank  *)
(* table allows, or none.                                                  *)
(***************************************************************************)
EXTENDS SchedulerView, WellFoundedInduction, TLAPS

-----------------------------------------------------------------------------
(* Sequences *)

LEMMA SeqElement ==
    ASSUME NEW S, NEW s \in Seq(S), NEW n \in 1 .. Len(s)
    PROVE  s[n] \in S
  OBVIOUS

LEMMA SeqDomain ==
    ASSUME NEW S, NEW s \in Seq(S)
    PROVE  Len(s) \in Nat /\ s \in [1 .. Len(s) -> S] /\ DOMAIN s = 1 .. Len(s)
  OBVIOUS

LEMMA SeqSame ==
    ASSUME NEW S, NEW s \in Seq(S), NEW t \in Seq(S),
           Len(s) = Len(t), \A i \in 1 .. Len(s) : s[i] = t[i]
    PROVE  s = t
  OBVIOUS

LEMMA SeqConcat ==
    ASSUME NEW S, NEW s \in Seq(S), NEW t \in Seq(S)
    PROVE  /\ s \o t \in Seq(S) /\ Len(s \o t) = Len(s) + Len(t)
           /\ \A i \in 1 .. Len(s) + Len(t) :
                 (s \o t)[i] = IF i <= Len(s) THEN s[i] ELSE t[i - Len(s)]
  OBVIOUS

LEMMA SeqPart ==
    ASSUME NEW S, NEW s, NEW m \in Int, NEW n \in Int, \A i \in m .. n : s[i] \in S
    PROVE  /\ SubSeq(s, m, n) \in Seq(S)
           /\ Len(SubSeq(s, m, n)) = IF m <= n THEN n - m + 1 ELSE 0
           /\ \A i \in 1 .. n - m + 1 : SubSeq(s, m, n)[i] = s[m + i - 1]
  OBVIOUS

LEMMA SeqAppend ==
    ASSUME NEW S, NEW s \in Seq(S), NEW e \in S
    PROVE  /\ Append(s, e) \in Seq(S) /\ Len(Append(s, e)) = Len(s) + 1
           /\ \A i \in 1 .. Len(s) : Append(s, e)[i] = s[i]
           /\ Append(s, e)[Len(s) + 1] = e
  OBVIOUS

LEMMA SeqTail ==
    ASSUME NEW S, NEW s \in Seq(S), s # <<>>
    PROVE  /\ Head(s) \in S /\ Tail(s) \in Seq(S) /\ Len(Tail(s)) = Len(s) - 1
           /\ \A i \in 1 .. Len(Tail(s)) : Tail(s)[i] = s[i + 1]
  OBVIOUS

-----------------------------------------------------------------------------
(* Numbers *)

\* A set of natural numbers has a least element.
LEMMA MinIn ==
    ASSUME NEW T \in SUBSET Nat, T # {}
    PROVE  Min(T) \in T /\ \A y \in T : Min(T) <= y
<1> DEFINE R == OpToRel(<, Nat)
<1>1. IsWellFoundedOn(R, Nat)
  BY NatLessThanWellFounded, Zenon
<1>2. \A x, y \in Nat : x < y => <<x, y>> \in R
  BY Zenon DEF OpToRel
<1> HIDE DEF R
<1>3. PICK x \in T : \A y \in T : ~ (<<y, x>> \in R)
  BY <1>1, WFMin, Zenon
<1>4. \A y \in T : x <= y
  <2> TAKE y \in T
  <2>1. x \in Nat /\ y \in Nat /\ ~ (y < x)
    BY <1>2, <1>3, Zenon
  <2> QED BY <2>1
<1> QED BY <1>4, Zenon DEF Min

-----------------------------------------------------------------------------
(* The record of the command queue *)

QueueOK(cq) ==
    cq \in CommandQueueStates /\ (cq.refreshWaiting => cq.refreshRank \in Ranks)

\* What the scheduling rules are about: the queues and the access counters.
Contents(cq) == [queues |-> cq.queues, counts |-> cq.rowAccessCounters]

\* c has the contents and the waiting refresh of cq.
SameQueues(cq, c) ==
    /\ c \in CommandQueueStates
    /\ c.queues = cq.queues /\ c.rowAccessCounters = cq.rowAccessCounters
    /\ c.refreshWaiting = cq.refreshWaiting /\ c.refreshRank = cq.refreshRank

LEMMA QueueFields ==
    ASSUME NEW cq \in CommandQueueStates
    PROVE  /\ cq.queues \in Queues
           /\ cq.rowAccessCounters \in Counters
           /\ cq.faw \in Windows
           /\ cq.next \in Pointers
           /\ cq.nextPRE \in Pointers
           /\ cq.sendAct \in BOOLEAN /\ cq.refreshWaiting \in BOOLEAN
           /\ cq.refreshRank \in Ranks \cup {NoRank}
           /\ cq.lastIssued \in {"READ", "WRITE"}
  BY Zenon DEF CommandQueueStates

LEMMA QueuesSet ==
    ASSUME NEW cq \in CommandQueueStates,
           NEW f \in Queues
    PROVE  LET c == [cq EXCEPT !.queues = f]
           IN  /\ c \in CommandQueueStates /\ c.queues = f
               /\ c.refreshWaiting = cq.refreshWaiting
               /\ c.refreshRank = cq.refreshRank
               /\ c.rowAccessCounters = cq.rowAccessCounters
<1>1. [cq EXCEPT !.queues = f] \in CommandQueueStates
  BY Zenon DEF CommandQueueStates
<1> QED BY <1>1, SMT DEF CommandQueueStates

\* c is cq with the counter of bank b in rank r set to n.
Recounted(cq, c, r, b, n) ==
    /\ c \in CommandQueueStates /\ c.queues = cq.queues
    /\ c.rowAccessCounters = [cq.rowAccessCounters EXCEPT ![r][b] = n]
    /\ c.refreshWaiting = cq.refreshWaiting /\ c.refreshRank = cq.refreshRank

-----------------------------------------------------------------------------
(* Taking a command out of a queue *)

\* Entries i to j of s are cut out.
LEMMA CutShape ==
    ASSUME NEW S, NEW s \in Seq(S), NEW i \in 1 .. Len(s), NEW j \in i .. Len(s)
    PROVE  /\ Cut(s, i, j) \in Seq(S)
           /\ Len(Cut(s, i, j)) = Len(s) - (j - i + 1)
           /\ \A k \in 1 .. Len(s) - (j - i + 1) :
                 Cut(s, i, j)[k] = IF k < i THEN s[k] ELSE s[k + (j - i + 1)]
<1>1. Len(s) \in Nat /\ \A k \in 1 .. Len(s) : s[k] \in S
  BY SeqDomain, SeqElement, Zenon
<1> DEFINE x == SubSeq(s, 1, i - 1)
           y == SubSeq(s, j + 1, Len(s))
<1>2. /\ x \in Seq(S) /\ Len(x) = i - 1
      /\ \A k \in 1 .. i - 1 : x[k] = s[k]
  <2>1. \A k \in 1 .. i - 1 : s[k] \in S
    BY <1>1
  <2>2. /\ SubSeq(s, 1, i - 1) \in Seq(S)
        /\ Len(SubSeq(s, 1, i - 1)) = IF 1 <= i - 1 THEN (i - 1) - 1 + 1 ELSE 0
        /\ \A k \in 1 .. (i - 1) - 1 + 1 : SubSeq(s, 1, i - 1)[k] = s[1 + k - 1]
    BY <1>1, <2>1, SeqPart
  <2> QED BY <1>1, <2>2
<1>3. /\ y \in Seq(S) /\ Len(y) = Len(s) - j
      /\ \A k \in 1 .. Len(s) - j : y[k] = s[j + k]
  <2>1. \A k \in j + 1 .. Len(s) : s[k] \in S
    BY <1>1
  <2>2. /\ SubSeq(s, j + 1, Len(s)) \in Seq(S)
        /\ Len(SubSeq(s, j + 1, Len(s)))
             = IF j + 1 <= Len(s) THEN Len(s) - (j + 1) + 1 ELSE 0
        /\ \A k \in 1 .. Len(s) - (j + 1) + 1 :
              SubSeq(s, j + 1, Len(s))[k] = s[(j + 1) + k - 1]
    BY <1>1, <2>1, SeqPart
  <2> QED BY <1>1, <2>2
<1> HIDE DEF x, y
<1>4. /\ x \o y \in Seq(S) /\ Len(x \o y) = Len(x) + Len(y)
      /\ \A k \in 1 .. Len(x) + Len(y) :
            (x \o y)[k] = IF k <= Len(x) THEN x[k] ELSE y[k - Len(x)]
  BY <1>2, <1>3, SeqConcat, Zenon
<1>5. Cut(s, i, j) = x \o y
  BY Zenon DEF Cut, x, y
<1> HIDE DEF Cut
<1>6. Len(x \o y) = Len(s) - (j - i + 1)
  BY <1>1, <1>2, <1>3, <1>4
<1>7. ASSUME NEW k \in 1 .. Len(s) - (j - i + 1)
      PROVE  (x \o y)[k] = IF k < i THEN s[k] ELSE s[k + (j - i + 1)]
  <2>1. CASE k < i
    BY <1>1, <1>2, <1>3, <1>4, <2>1
  <2>2. CASE k >= i
    <3>1. (x \o y)[k] = y[k - Len(x)]
      BY <1>1, <1>2, <1>3, <1>4, <2>2
    <3>2. k - Len(x) \in 1 .. Len(s) - j
      BY <1>1, <1>2, <2>2
    <3>3. y[k - Len(x)] = s[j + (k - Len(x))]
      BY <1>3, <3>2, Zenon
    <3>4. j + (k - Len(x)) = k + (j - i + 1)
      BY <1>1, <1>2
    <3> QED BY <1>1, <2>2, <3>1, <3>3, <3>4
  <2>3. k < i \/ k >= i
    BY <1>1
  <2> QED BY <2>1, <2>2, <2>3, Zenon
<1> QED BY <1>4, <1>5, <1>6, <1>7, Zenon

LEMMA QueueIndexType ==
    ASSUME NEW b \in Banks PROVE QueueIndex(b) \in Banks
  BY GeometryAssumption DEF QueueIndex, Banks

LEMMA GetQueue ==
    ASSUME NEW cq \in CommandQueueStates, NEW r \in Ranks, NEW b \in Banks
    PROVE  /\ getCommandQueue(cq, r, b) \in Seq(QueuedPackets)
           /\ \A i \in DOMAIN getCommandQueue(cq, r, b) :
                 getCommandQueue(cq, r, b)[i] \in QueuedPackets
<1>1. getCommandQueue(cq, r, b) \in Seq(QueuedPackets)
  BY QueueFields, QueueIndexType, Zenon DEF getCommandQueue, Queues
<1>2. DOMAIN getCommandQueue(cq, r, b) = 1 .. Len(getCommandQueue(cq, r, b))
  BY <1>1, SeqDomain, Zenon
<1> QED BY <1>1, <1>2, SeqElement, Zenon

\* c is cq without entries i to j of one queue.
Erased(cq, c, r, b, i, j) ==
    /\ c \in CommandQueueStates
    /\ c.queues = [cq.queues EXCEPT ![r][QueueIndex(b)] =
                      Cut(cq.queues[r][QueueIndex(b)], i, j)]
    /\ c.rowAccessCounters = cq.rowAccessCounters
    /\ c.refreshWaiting = cq.refreshWaiting /\ c.refreshRank = cq.refreshRank

-----------------------------------------------------------------------------
(* The rules pop follows, whatever the policy.  v is the contents of the      *)
(* command queue before, w after, p the command.                              *)

\* Entry j of a queue leaves as the command p, and the entries from i on
\* before it are dropped.
Left(v, w, p, r, b, i, j) ==
    /\ i \in DOMAIN v.queues[r][QueueIndex(b)]
    /\ j \in DOMAIN v.queues[r][QueueIndex(b)]
    /\ p = v.queues[r][QueueIndex(b)][j]
    /\ w.queues = [v.queues EXCEPT ![r][QueueIndex(b)] =
                      Cut(v.queues[r][QueueIndex(b)], i, j)]

\* The open page policy counts what goes to a row.
CountedFor(counts, p) ==
    IF ClosePage THEN counts
    ELSE [counts EXCEPT ![p.addr.rank][p.addr.bank] = counts[p.addr.rank][p.addr.bank] + 1]

\* No ACTIVATE of the same bank is in front of entry j.
FirstOfBank(q, j) ==
    \A i \in 1 .. j - 1 : ~ (q[i].type = "ACTIVATE" /\ SameBank(q[i], q[j]))

\* The ACTIVATE in front of entry j is for the same row.
Hit(q, j) == j > 1 /\ q[j - 1].type = "ACTIVATE" /\ SameRow(q[j - 1], q[j])

\* Entry j is the first one for the open row of bank b.
FirstForRow(bs, r, b, q, j) ==
    ForOpenRow(bs, r, b, q[j]) /\ \A i \in 1 .. j - 1 : ~ ForOpenRow(bs, r, b, q[i])

Activates(v, w, p, r, b, j) ==
    LET q == v.queues[r][QueueIndex(b)]
    IN  /\ Left(v, w, p, r, b, j, j) /\ p.type = "ACTIVATE"
        /\ w.counts = CountedFor(v.counts, p)
        /\ ClosePage => FirstOfBank(q, j)
        /\ ~ ClosePage => ~ Dependent(q, j)

AccessesRow(v, w, p, r, b, j) ==
    LET q == v.queues[r][QueueIndex(b)]
    IN  /\ Left(v, w, p, r, b, IF Hit(q, j) THEN j - 1 ELSE j, j)
        /\ p.type # "ACTIVATE"
        /\ v.counts[p.addr.rank][p.addr.bank] < TOTAL_ROW_ACCESSES
        /\ w.counts = CountedFor(v.counts, p)
        /\ ClosePage => ~ Hit(q, j)
        /\ ~ ClosePage => ~ Dependent(q, j)

Drains(v, bs, w, p, r, b, j) ==
    /\ Left(v, w, p, r, b, j, j) /\ p.type # "ACTIVATE"
    /\ w.counts = v.counts
    /\ FirstForRow(bs, r, b, v.queues[r][QueueIndex(b)], j)

\* Why a row may be closed: nobody wants it, it has been accessed often enough,
\* or a refresh waits and the row was not opened for anybody.
RowDone(v, bs, r, b) ==
    LET q == v.queues[r][QueueIndex(b)]
    IN  \/ \A i \in DOMAIN q : ~ ForOpenRow(bs, r, b, q[i])
        \/ v.counts[r][b] = TOTAL_ROW_ACCESSES
        \/ \A i \in DOMAIN q : FirstForRow(bs, r, b, q, i) => q[i].type = "ACTIVATE"

Closes(v, bs, w, p, r, b) ==
    /\ p = Unaddressed("PRECHARGE", r, b) /\ w.queues = v.queues
    /\ w.counts = [v.counts EXCEPT ![r][b] = 0]
    /\ RowDone(v, bs, r, b)

Rests(v, w, p) ==
    w = v /\ p.type \notin Columns \cup {"ACTIVATE", "PRECHARGE"}

FollowsAt(v, bs, w, p, r, b) ==
    \/ Closes(v, bs, w, p, r, b)
    \/ \E j \in Nat : \/ Activates(v, w, p, r, b, j)
                      \/ AccessesRow(v, w, p, r, b, j)
                      \/ Drains(v, bs, w, p, r, b, j)

Follows(v, bs, w, p) ==
    Rests(v, w, p) \/ \E r \in Ranks, b \in Banks : FollowsAt(v, bs, w, p, r, b)

\* What a search for a command comes back with.
PopOK(v, bs, x) ==
    /\ x = [cq |-> x.cq, packet |-> x.packet]
    /\ QueueOK(x.cq) /\ Follows(v, bs, Contents(x.cq), x.packet)
    /\ x.packet # None => x.packet \in Packets /\ Legal(bs, x.packet)

\* Every packet is in the queue of its bank, and an ACTIVATE is followed by the
\* column command of the same transaction.
InPlace(q, r, k) ==
    \A i \in DOMAIN q :
        /\ q[i].addr.rank = r /\ QueueIndex(q[i].addr.bank) = k
        /\ q[i].type = "ACTIVATE" =>
              /\ i + 1 \in DOMAIN q /\ q[i + 1].type # "ACTIVATE"
              /\ q[i + 1].addr = q[i].addr

\* No queue is longer than CMD_QUEUE_DEPTH: enqueue's overflow exit is not taken.
Orderly(qs) ==
    \A r \in Ranks, k \in Banks :
        Len(qs[r][k]) <= CMD_QUEUE_DEPTH /\ InPlace(qs[r][k], r, k)

\* All that isIssuable asks of an ACTIVATE.
MayActivateBank(cq, bs, r, b) ==
    /\ bs[r][b].state \in {"Idle", "Refreshing"} /\ bs[r][b].nextActivate = 0
    /\ Cardinality(cq.faw[r]) < FourActivates

\* Issuing takes the command out, and with the open page policy the ACTIVATE
\* of a hit too, and counts the access to the row.
IssuedFrom(cq, r, b, j, x) ==
    LET q == getCommandQueue(cq, r, b)
    IN  /\ QueueOK(x.cq) /\ x = Popped(x.cq, q[j])
        /\ Left(Contents(cq), Contents(x.cq), q[j], r, b,
                IF ~ ClosePage /\ Hit(q, j) THEN j - 1 ELSE j, j)
        /\ Contents(x.cq).counts = CountedFor(Contents(cq).counts, q[j])

LEMMA ActivateNotHit ==
    ASSUME NEW q, NEW r, NEW k, InPlace(q, r, k), NEW j \in Nat,
           NEW S, q \in Seq(S), j \in DOMAIN q, q[j].type = "ACTIVATE"
    PROVE  (j > 1 => q[j - 1].type # "ACTIVATE") /\ ~ Hit(q, j)
<1>1. DOMAIN q = 1 .. Len(q) /\ Len(q) \in Nat
  BY SeqDomain, Zenon
<1>2. j > 1 => j - 1 \in DOMAIN q /\ (j - 1) + 1 = j
  BY <1>1
<1> QED BY <1>2, Zenon DEF InPlace, Hit

\* The column command behind an ACTIVATE is its own.
LEMMA HitPaired ==
    ASSUME NEW q, NEW r, NEW k, InPlace(q, r, k), NEW j \in Nat,
           NEW S, q \in Seq(S), j \in DOMAIN q
    PROVE  /\ j > 1 /\ q[j - 1].type = "ACTIVATE" => Hit(q, j)
           /\ Hit(q, j) => Paired(q, j)
<1>1. DOMAIN q = 1 .. Len(q) /\ Len(q) \in Nat
  BY SeqDomain, Zenon
<1>2. j > 1 => j - 1 \in DOMAIN q /\ (j - 1) + 1 = j
  BY <1>1
<1> QED BY <1>2, Zenon DEF InPlace, Hit, Paired, SameRow, SameBank

-----------------------------------------------------------------------------
(* The searches of pop *)

Candidates(cq, bs) ==
    {c \in Ranks \X Banks \X (1 .. CMD_QUEUE_DEPTH) :
        c[2] = QueueIndex(c[2]) /\ c[3] \in Ready(cq, bs, c[1], c[2])}

\* The search for the first command of the open row.
FirstIs(bs, r, b, q, j) ==
    /\ j # 0 => j \in DOMAIN q /\ FirstForRow(bs, r, b, q, j)
    /\ \A i \in DOMAIN q : FirstForRow(bs, r, b, q, i) => i = j /\ j # 0

\* pop returns a command of the queues, or a PRECHARGE or REFRESH of its own,
\* that the controller's bank table allows; or none.
LEMMA popOK ==
    \A cq, bs :
       /\ QueueOK(cq) /\ Orderly(cq.queues) /\ bs \in Tables
       => PopOK(Contents(cq), bs, pop(cq, bs))
<1>nextRankAndBankType.
    \A n, k :
       /\ n \in Pointers /\ k \in Nat
       => nextRankAndBank(n, k) \in Pointers
\* A position in the round robin is a rank and a bank.
  <2>DivBounds.
      \A a, b, x :
         /\ a \in Nat \ {0} /\ b \in Nat \ {0} /\ x \in Nat
         => /\ (x % (a * b)) % a \in 0 .. a - 1
            /\ (x % (a * b)) \div a \in 0 .. b - 1
    <3>DivLess.
        ASSUME NEW a \in Nat \ {0}, NEW b \in Nat, NEW y \in Nat, y < a * b
        PROVE  (y \div a) \in Nat /\ (y \div a) < b
      <4> USE <3>DivLess
      <4>1. (y \div a) >= 0 /\ (y \div a) \in Int
        OBVIOUS
      <4>2. (y \div a) < b
        OBVIOUS
      <4> QED BY <4>1, <4>2

    <3> SUFFICES ASSUME NEW a \in Nat \ {0}, NEW b \in Nat \ {0}, NEW x \in Nat
                 PROVE  /\ (x % (a * b)) % a \in 0 .. a - 1
                        /\ (x % (a * b)) \div a \in 0 .. b - 1
      BY Zenon
    <3>1. PICK m : m = a * b /\ m \in Nat \ {0}
      OBVIOUS
    <3>2. x % m \in Nat /\ x % m < m
      BY <3>1
    <3>3. PICK y \in Nat : y = x % m /\ y < m
      BY <3>2, Zenon
    <3>4. y % a \in 0 .. a - 1
      OBVIOUS
    <3>5. (y \div a) \in Nat /\ (y \div a) < b
      BY <3>1, <3>3, <3>DivLess, Zenon
    <3>6. (y \div a) \in 0 .. b - 1
      BY <3>5
    <3>7. y = x % (a * b)
      BY <3>1, <3>3, Zenon
    <3> QED BY <3>4, <3>6, <3>7, Zenon

  <2> SUFFICES ASSUME NEW n \in Pointers, NEW k \in Nat
               PROVE  nextRankAndBank(n, k) \in Pointers
    BY Zenon
  <2>1. NUM_RANKS \in Nat \ {0} /\ NUM_BANKS \in Nat \ {0}
    BY GeometryAssumption, Zenon
  <2>2. n.rank \in Nat /\ n.bank \in Nat
    BY <2>1 DEF Pointers, Ranks, Banks
  <2>3. /\ n.bank * NUM_RANKS + n.rank + k \in Nat
        /\ n.rank * NUM_BANKS + n.bank + k \in Nat
    BY <2>1, <2>2
  <2>4. NUM_RANKS * NUM_BANKS = NUM_BANKS * NUM_RANKS
    BY <2>1
  <2>5. CASE SchedulingPolicy = "RankThenBankRoundRobin"
    <3> DEFINE pos == (n.bank * NUM_RANKS + n.rank + k) % (NUM_RANKS * NUM_BANKS)
    <3>1. pos % NUM_RANKS \in Ranks /\ pos \div NUM_RANKS \in Banks
      BY <2>1, <2>3, <2>DivBounds, Zenon DEF Ranks, Banks
    <3>2. nextRankAndBank(n, k) = [rank |-> pos % NUM_RANKS, bank |-> pos \div NUM_RANKS]
      BY <2>5, Zenon DEF nextRankAndBank
    <3> HIDE DEF pos
    <3> QED BY <3>1, <3>2 DEF Pointers
  <2>6. CASE SchedulingPolicy # "RankThenBankRoundRobin"
    <3> DEFINE pos == (n.rank * NUM_BANKS + n.bank + k) % (NUM_RANKS * NUM_BANKS)
    <3>1. pos % NUM_BANKS \in Banks /\ pos \div NUM_BANKS \in Ranks
      BY <2>1, <2>3, <2>4, <2>DivBounds, Zenon DEF Ranks, Banks
    <3>2. nextRankAndBank(n, k) = [rank |-> pos \div NUM_BANKS, bank |-> pos % NUM_BANKS]
      BY <2>6, Zenon DEF nextRankAndBank
    <3> HIDE DEF pos
    <3> QED BY <3>1, <3>2 DEF Pointers
  <2> QED BY <2>5, <2>6, Zenon

<1>SameKept.
    ASSUME NEW cq, QueueOK(cq), NEW c, SameQueues(cq, c)
    PROVE  QueueOK(c) /\ Contents(c) = Contents(cq) /\ c.queues = cq.queues
    BY <1>SameKept, Zenon DEF SameQueues, QueueOK, Contents

<1>PointersSet.
    ASSUME NEW cq \in CommandQueueStates, NEW n \in Pointers,
           NEW x \in BOOLEAN, NEW y \in {"READ", "WRITE"}
    PROVE  /\ SameQueues(cq, [cq EXCEPT !.next = n])
           /\ SameQueues(cq, [cq EXCEPT !.nextPRE = n])
           /\ SameQueues(cq, [cq EXCEPT !.sendAct = x])
           /\ SameQueues(cq, [cq EXCEPT !.sendAct = x, !.next = n])
           /\ SameQueues(cq, [cq EXCEPT !.lastIssued = y])
  <2> USE <1>PointersSet
  <2>1. SameQueues(cq, [cq EXCEPT !.next = n])
    <3>1. [cq EXCEPT !.next = n] \in CommandQueueStates
      BY Zenon DEF CommandQueueStates
    <3> QED BY <3>1, SMT DEF SameQueues, CommandQueueStates
  <2>2. SameQueues(cq, [cq EXCEPT !.nextPRE = n])
    <3>1. [cq EXCEPT !.nextPRE = n] \in CommandQueueStates
      BY Zenon DEF CommandQueueStates
    <3> QED BY <3>1, SMT DEF SameQueues, CommandQueueStates
  <2>3. SameQueues(cq, [cq EXCEPT !.sendAct = x])
    <3>1. [cq EXCEPT !.sendAct = x] \in CommandQueueStates
      BY Zenon DEF CommandQueueStates
    <3> QED BY <3>1, SMT DEF SameQueues, CommandQueueStates
  <2>4. SameQueues(cq, [cq EXCEPT !.sendAct = x, !.next = n])
    <3>1. [cq EXCEPT !.sendAct = x, !.next = n] \in CommandQueueStates
      BY Zenon DEF CommandQueueStates
    <3> QED BY <3>1, SMT DEF SameQueues, CommandQueueStates
  <2>5. SameQueues(cq, [cq EXCEPT !.lastIssued = y])
    <3>1. [cq EXCEPT !.lastIssued = y] \in CommandQueueStates
      BY Zenon DEF CommandQueueStates
    <3> QED BY <3>1, SMT DEF SameQueues, CommandQueueStates
  <2> QED BY <2>1, <2>2, <2>3, <2>4, <2>5, Zenon

<1>WindowsSet.
    ASSUME NEW cq \in CommandQueueStates, NEW g \in Windows
    PROVE  SameQueues(cq, [cq EXCEPT !.faw = g])
  <2> USE <1>WindowsSet
  <2>1. [cq EXCEPT !.faw = g] \in CommandQueueStates
    BY Zenon DEF CommandQueueStates
  <2> QED BY <2>1, SMT DEF SameQueues, CommandQueueStates

<1>CounterSet.
    ASSUME NEW cq \in CommandQueueStates, NEW r \in Ranks, NEW b \in Banks,
           NEW n \in Nat
    PROVE  Recounted(cq, [cq EXCEPT !.rowAccessCounters[r][b] = n], r, b, n)
  <2> USE <1>CounterSet
  <2>1. PICK f : f = [cq.rowAccessCounters EXCEPT ![r][b] = n]
    BY Zenon
  <2>2. f \in Counters
    BY <2>1, QueueFields, Zenon DEF Counters
  <2>3. PICK c : c = [cq EXCEPT !.rowAccessCounters = f]
    BY Zenon
  <2>4. c \in CommandQueueStates
    BY <2>2, <2>3, Zenon DEF CommandQueueStates
  <2>5. /\ c.queues = cq.queues /\ c.rowAccessCounters = f
        /\ c.refreshWaiting = cq.refreshWaiting /\ c.refreshRank = cq.refreshRank
    BY <2>2, <2>3, SMT DEF CommandQueueStates
  <2>6. [cq EXCEPT !.rowAccessCounters[r][b] = n] = c
    BY <2>1, <2>3, Zenon DEF CommandQueueStates
  <2> QED BY <2>1, <2>4, <2>5, <2>6, Zenon DEF Recounted

<1>EraseShape.
    ASSUME NEW cq \in CommandQueueStates, NEW r \in Ranks, NEW b \in Banks,
           NEW i \in DOMAIN getCommandQueue(cq, r, b),
           NEW j \in DOMAIN getCommandQueue(cq, r, b), i <= j
    PROVE  Erased(cq, Erase(cq, r, b, i, j), r, b, i, j)
  <2> USE <1>EraseShape
  <2> DEFINE q == getCommandQueue(cq, r, b)
             f == [cq.queues EXCEPT ![r][QueueIndex(b)] = Cut(q, i, j)]
  <2>1. q \in Seq(QueuedPackets) /\ q = cq.queues[r][QueueIndex(b)]
    BY GetQueue, Zenon DEF getCommandQueue
  <2>2. i \in 1 .. Len(q) /\ j \in i .. Len(q)
    BY <2>1, SeqDomain
  <2>3. Cut(q, i, j) \in Seq(QueuedPackets)
    BY <2>1, <2>2, CutShape, Zenon
  <2>4. cq.queues \in Queues /\ QueueIndex(b) \in Banks
    BY QueueFields, QueueIndexType, Zenon
  <2>5. f = [cq.queues EXCEPT ![r] = [cq.queues[r] EXCEPT ![QueueIndex(b)] = Cut(q, i, j)]]
    BY <2>1, <2>4, Zenon DEF Queues
  <2>6. Erase(cq, r, b, i, j) = [cq EXCEPT !.queues = f]
    BY <2>1, Zenon DEF Erase, Cut, CommandQueueStates
  <2> HIDE DEF q
  <2>7. f \in Queues
    BY <2>3, <2>4, <2>5, Zenon DEF Queues
  <2>8. f = [cq.queues EXCEPT ![r][QueueIndex(b)] = Cut(cq.queues[r][QueueIndex(b)], i, j)]
    BY <2>1, Zenon
  <2> HIDE DEF f
  <2> QED BY <2>6, <2>7, <2>8, QueuesSet DEF Erased

<1>NothingOK.
    ASSUME NEW cq, QueueOK(cq), NEW bs
    PROVE  PopOK(Contents(cq), bs, Nothing(cq))
  <2> USE <1>NothingOK
  <2>1. Nothing(cq) = [cq |-> cq, packet |-> None]
    BY Zenon DEF Nothing, Popped
  <2>2. Rests(Contents(cq), Contents(cq), None)
    BY Zenon DEF Rests, None, Columns, Reads, Writes
  <2>3. Nothing(cq).cq = cq /\ Nothing(cq).packet = None
    BY <2>1
  <2> QED BY <2>1, <2>2, <2>3, Zenon DEF PopOK, Follows

<1>PoppedOK.
    ASSUME NEW v, NEW bs, NEW c, QueueOK(c), NEW p \in Packets, Legal(bs, p),
           Follows(v, bs, Contents(c), p)
    PROVE  PopOK(v, bs, Popped(c, p))
  <2> USE <1>PoppedOK
  <2>1. /\ Popped(c, p) = [cq |-> c, packet |-> p]
        /\ Popped(c, p).cq = c /\ Popped(c, p).packet = p
    BY Zenon DEF Popped
  <2> QED BY <2>1, Zenon DEF PopOK

<1>QueuedType.
    ASSUME NEW p \in QueuedPackets
    PROVE  /\ p \in Packets
           /\ p.type \in Columns \cup {"ACTIVATE"}
           /\ p.type \in {"READ_P", "WRITE_P"} => ClosePage
    BY <1>QueuedType, Zenon DEF QueuedPackets, Packets, Commands, Columns, Reads, Writes

\* isIssuable looks at all that the table demands of a queued command.
<1>IssuableLegal.
    ASSUME NEW cq, NEW bs, NEW p \in QueuedPackets, isIssuable(cq, bs, p)
    PROVE  Legal(bs, p)
  <2> USE <1>IssuableLegal
  <2>1. /\ p.type \in Columns \cup {"ACTIVATE"}
        /\ p.type \in {"READ_P", "WRITE_P"} => ClosePage
    BY <1>QueuedType, Zenon
  <2>2. CASE p.type = "ACTIVATE"
    BY <2>2, Zenon DEF isIssuable, Legal, Columns, Reads, Writes
  <2>3. CASE p.type \in Writes
    <3>1. p.type # "ACTIVATE" /\ p.type \notin Reads /\ p.type # "PRECHARGE"
          /\ p.type # "REFRESH"
      BY <2>3, Zenon DEF Reads, Writes
    <3> QED BY <2>1, <2>3, <3>1, Zenon DEF isIssuable, Legal
  <2>4. CASE p.type \in Reads
    <3>1. p.type # "ACTIVATE" /\ p.type \notin Writes /\ p.type # "PRECHARGE"
          /\ p.type # "REFRESH"
      BY <2>4, Zenon DEF Reads, Writes
    <3> QED BY <2>1, <2>4, <3>1, Zenon DEF isIssuable, Legal
  <2> QED BY <2>1, <2>2, <2>3, <2>4, Zenon DEF Columns

<1>ReadyShape.
    ASSUME NEW cq \in CommandQueueStates, NEW bs, NEW r \in Ranks, NEW b \in Banks
    PROVE  /\ Ready(cq, bs, r, b) \subseteq DOMAIN getCommandQueue(cq, r, b)
           /\ Ready(cq, bs, r, b) \in SUBSET Nat
           /\ \A i \in Ready(cq, bs, r, b) :
                 /\ isIssuable(cq, bs, getCommandQueue(cq, r, b)[i])
                 /\ ClosePage => ~ Paired(getCommandQueue(cq, r, b), i)
                 /\ ~ ClosePage => ~ Dependent(getCommandQueue(cq, r, b), i)
  <2> USE <1>ReadyShape
  <2>0. PICK q : q = getCommandQueue(cq, r, b)
    BY Zenon
  <2>1. q \in Seq(QueuedPackets) /\ DOMAIN q = 1 .. Len(q) /\ Len(q) \in Nat
    BY <2>0, GetQueue, SeqDomain, Zenon
  <2>2. OpenPageReady(cq, bs, q) \subseteq DOMAIN q
        /\ \A i \in OpenPageReady(cq, bs, q) :
              isIssuable(cq, bs, q[i]) /\ ~ Dependent(q, i)
    BY Zenon DEF OpenPageReady
  <2>3. ClosePageReady(cq, bs, q) \subseteq DOMAIN q
        /\ \A i \in ClosePageReady(cq, bs, q) : isIssuable(cq, bs, q[i])
    BY Zenon DEF ClosePageReady
  <2>4. \A i \in ClosePageReady(cq, bs, q) : ~ Paired(q, i)
    BY DEF ClosePageReady, Paired
  <2>5. Ready(cq, bs, r, b) = IF Refreshing(cq, r) THEN {}
                              ELSE IF ClosePage THEN ClosePageReady(cq, bs, q)
                              ELSE OpenPageReady(cq, bs, q)
    BY <2>0, Zenon DEF Ready
  <2>6. /\ Ready(cq, bs, r, b) \subseteq DOMAIN q
        /\ \A i \in Ready(cq, bs, r, b) : /\ isIssuable(cq, bs, q[i])
                                          /\ ClosePage => ~ Paired(q, i)
                                          /\ ~ ClosePage => ~ Dependent(q, i)
    BY <2>2, <2>3, <2>4, <2>5, Zenon
  <2>7. DOMAIN q \in SUBSET Nat
    BY <2>1
  <2> QED BY <2>0, <2>6, <2>7, Zenon

<1>ErasedLeft.
    ASSUME NEW cq, NEW r \in Ranks, NEW b \in Banks,
           NEW i \in DOMAIN getCommandQueue(cq, r, b),
           NEW j \in DOMAIN getCommandQueue(cq, r, b),
           NEW e, Erased(cq, e, r, b, i, j), NEW c, c.queues = e.queues
    PROVE  Left(Contents(cq), Contents(c), getCommandQueue(cq, r, b)[j], r, b, i, j)
  <2> USE <1>ErasedLeft
  <2>1. Contents(cq).queues = cq.queues /\ Contents(c).queues = e.queues
    BY Zenon DEF Contents
  <2> QED BY <2>1, Zenon DEF Left, Erased, getCommandQueue

<1>FollowsBy.
    ASSUME NEW v, NEW bs, NEW w, NEW p, NEW r \in Ranks, NEW b \in Banks, NEW j \in Nat,
           \/ Activates(v, w, p, r, b, j)
           \/ AccessesRow(v, w, p, r, b, j)
           \/ Drains(v, bs, w, p, r, b, j)
    PROVE  Follows(v, bs, w, p)
    BY <1>FollowsBy, Zenon DEF Follows, FollowsAt

<1>IssueReady.
    \A cq, c, bs, r, b, j :
       /\ QueueOK(cq) /\ SameQueues(cq, c) /\ Orderly(cq.queues) /\ r \in Ranks
       /\ b \in Banks /\ j \in Ready(cq, bs, r, b)
       /\ (LET q == getCommandQueue(cq, r, b) IN  ClosePage /\ q[j].type = "ACTIVATE" => FirstOfBank(q, j))
       => PopOK(Contents(cq), bs, Issue(c, r, b, j))
  <2>IssueOK.
      ASSUME NEW cq, QueueOK(cq), NEW r \in Ranks, NEW b \in Banks,
             NEW j \in DOMAIN getCommandQueue(cq, r, b)
      PROVE  IssuedFrom(cq, r, b, j, Issue(cq, r, b, j))
    <3> USE <2>IssueOK
    <3>0. PICK q : q = getCommandQueue(cq, r, b)
      BY Zenon
    <3>1. cq \in CommandQueueStates
      BY Zenon DEF QueueOK
    <3>2. /\ q \in Seq(QueuedPackets) /\ DOMAIN q = 1 .. Len(q) /\ Len(q) \in Nat
          /\ q[j] \in QueuedPackets
      BY <3>0, <3>1, GetQueue, SeqDomain, Zenon
    <3>3. PICK p \in QueuedPackets : p = q[j]
      BY <3>2, Zenon
    <3>4. p.addr.rank \in Ranks /\ p.addr.bank \in Banks
      BY Zenon DEF QueuedPackets, Addresses
    <3>5. PICK i : i = IF ~ ClosePage /\ Hit(q, j) THEN j - 1 ELSE j
      BY Zenon
    <3>6. i \in DOMAIN q /\ i <= j
      BY <3>0, <3>2, <3>5 DEF Hit
    <3>7. PICK e : e = Erase(cq, r, b, i, j)
      BY Zenon
    <3>8. Erased(cq, e, r, b, i, j)
      BY <3>0, <3>1, <3>6, <3>7, <1>EraseShape, Zenon
    <3>9. e \in CommandQueueStates /\ e.rowAccessCounters = cq.rowAccessCounters
      BY <3>8, Zenon DEF Erased
    <3>10. cq.rowAccessCounters \in Counters
      BY <3>1, QueueFields, Zenon
    <3>11. PICK n \in Nat : n = cq.rowAccessCounters[p.addr.rank][p.addr.bank] + 1
      BY <3>4, <3>10 DEF Counters
    <3>12. PICK c : c = IF ClosePage THEN e
                        ELSE [e EXCEPT !.rowAccessCounters[p.addr.rank][p.addr.bank] = n]
      BY Zenon
    <3>13. Issue(cq, r, b, j) = Popped(c, p)
      <4>1. CASE ClosePage
        BY <3>0, <3>3, <3>5, <3>7, <3>12, <4>1, Zenon DEF Issue
      <4>2. CASE ~ ClosePage
        <5>1. c = [e EXCEPT !.rowAccessCounters[p.addr.rank][p.addr.bank] = @ + 1]
          BY <3>4, <3>9, <3>10, <3>11, <3>12, <4>2, Zenon DEF CommandQueueStates, Counters
        <5>2. i = IF j > 1 /\ q[j - 1].type = "ACTIVATE" /\ SameRow(q[j - 1], p)
                  THEN j - 1 ELSE j
          BY <3>3, <3>5, <4>2, Zenon DEF Hit
        <5> QED BY <3>0, <3>3, <3>7, <4>2, <5>1, <5>2, Zenon DEF Issue, IssueOpen
      <4> QED BY <4>1, <4>2, Zenon
    <3>14. /\ c \in CommandQueueStates /\ c.queues = e.queues
           /\ c.refreshWaiting = cq.refreshWaiting /\ c.refreshRank = cq.refreshRank
           /\ c.rowAccessCounters = CountedFor(cq.rowAccessCounters, p)
      <4>1. CASE ClosePage
        BY <3>8, <3>12, <4>1, Zenon DEF Erased, CountedFor
      <4>2. CASE ~ ClosePage
        <5>1. Recounted(e, c, p.addr.rank, p.addr.bank, n)
          BY <3>4, <3>9, <3>12, <4>2, <1>CounterSet, Zenon
        <5> QED BY <3>8, <3>11, <4>2, <5>1, Zenon DEF Erased, Recounted, CountedFor
      <4> QED BY <4>1, <4>2, Zenon
    <3>15. QueueOK(c)
      BY <3>14, Zenon DEF QueueOK
    <3>16. Left(Contents(cq), Contents(c), q[j], r, b, i, j)
      BY <3>0, <3>6, <3>8, <3>14, <1>ErasedLeft, Zenon
    <3>17. Contents(c).counts = CountedFor(Contents(cq).counts, p)
      BY <3>14, Zenon DEF Contents
    <3>18. Popped(c, p).cq = c
      BY Zenon DEF Popped
    <3> QED BY <3>0, <3>3, <3>5, <3>13, <3>15, <3>16, <3>17, <3>18, Zenon DEF IssuedFrom

  <2> SUFFICES ASSUME NEW cq, NEW c, NEW bs, NEW r \in Ranks, NEW b \in Banks,
                      NEW j \in Ready(cq, bs, r, b), QueueOK(cq), SameQueues(cq, c),
                      Orderly(cq.queues),
                      LET q == getCommandQueue(cq, r, b) IN  ClosePage /\ q[j].type = "ACTIVATE" => FirstOfBank(q, j)
               PROVE  PopOK(Contents(cq), bs, Issue(c, r, b, j))
    OBVIOUS
  <2>0. PICK q : q = getCommandQueue(cq, r, b)
    BY Zenon
  <2>1. /\ cq \in CommandQueueStates /\ QueueOK(c) /\ Contents(c) = Contents(cq)
        /\ q = getCommandQueue(c, r, b)
    BY <2>0, <1>SameKept, Zenon DEF QueueOK, getCommandQueue
  <2>2. /\ j \in DOMAIN q /\ isIssuable(cq, bs, q[j])
        /\ ClosePage => ~ Paired(q, j)
        /\ ~ ClosePage => ~ Dependent(q, j)
        /\ ClosePage /\ q[j].type = "ACTIVATE" => FirstOfBank(q, j)
    BY <2>0, <2>1, <1>ReadyShape, Zenon
  <2>3. PICK p \in QueuedPackets : p = q[j]
    BY <2>0, <2>1, <2>2, GetQueue, Zenon
  <2>4. p \in Packets /\ Legal(bs, p) /\ p.type \in Columns \cup {"ACTIVATE"}
    BY <2>2, <2>3, <1>QueuedType, <1>IssuableLegal, Zenon
  <2>5. PICK x : x = Issue(c, r, b, j)
    BY Zenon
  <2>6. IssuedFrom(c, r, b, j, x)
    BY <2>1, <2>2, <2>5, <2>IssueOK, Zenon
  <2>7. PICK v : v = Contents(cq)
    BY Zenon
  <2>8. PICK w : w = Contents(x.cq)
    BY Zenon
  <2>9. /\ QueueOK(x.cq) /\ x = Popped(x.cq, p)
        /\ Left(v, w, p, r, b, IF ~ ClosePage /\ Hit(q, j) THEN j - 1 ELSE j, j)
        /\ w.counts = CountedFor(v.counts, p)
    BY <2>1, <2>3, <2>6, <2>7, <2>8, Zenon DEF IssuedFrom
  <2>10. v.queues[r][QueueIndex(b)] = q /\ v.counts = cq.rowAccessCounters
    BY <2>0, <2>7, Zenon DEF Contents, getCommandQueue
  <2>11. j \in Nat
    BY <2>1, <1>ReadyShape, Zenon
  <2>12. InPlace(q, r, QueueIndex(b))
    BY <2>0, QueueIndexType, Zenon DEF Orderly, getCommandQueue
  <2> SUFFICES Follows(v, bs, w, p)
    BY <2>4, <2>5, <2>7, <2>8, <2>9, <1>PoppedOK, Zenon
  <2>13. CASE p.type = "ACTIVATE"
    <3>1. ~ Hit(q, j)
      BY <2>1, <2>0, <2>2, <2>3, <2>11, <2>12, <2>13, GetQueue, ActivateNotHit, Zenon
    <3>2. Left(v, w, p, r, b, j, j)
      BY <2>9, <3>1, Zenon
    <3>3. Activates(v, w, p, r, b, j)
      BY <2>2, <2>3, <2>9, <2>10, <2>13, <3>2, Zenon DEF Activates
    <3> QED BY <2>11, <3>3, <1>FollowsBy, Zenon
  <2>14. CASE p.type # "ACTIVATE"
    <3>1. ClosePage => ~ Hit(q, j)
      BY <2>0, <2>1, <2>2, <2>11, <2>12, GetQueue, HitPaired, Zenon
    <3>2. Left(v, w, p, r, b, IF Hit(q, j) THEN j - 1 ELSE j, j)
      BY <2>9, <3>1, Zenon
    <3>3. v.counts[p.addr.rank][p.addr.bank] < TOTAL_ROW_ACCESSES
      BY <2>2, <2>3, <2>4, <2>10, <2>14, Zenon DEF isIssuable, Columns
    <3>4. AccessesRow(v, w, p, r, b, j)
      BY <2>2, <2>9, <2>10, <2>14, <3>1, <3>2, <3>3, Zenon DEF AccessesRow
    <3> QED BY <2>11, <3>4, <1>FollowsBy, Zenon
  <2> QED BY <2>13, <2>14, Zenon

<1>TurnsNat. Turns \in SUBSET Nat /\ Positions \in SUBSET Nat
  <2>1. NUM_RANKS \in Nat \ {0} /\ NUM_BANKS \in Nat \ {0}
    BY GeometryAssumption, Zenon
  <2>2. NUM_RANKS * NUM_BANKS \in Nat
    BY <2>1
  <2> QED BY <2>1, <2>2 DEF Turns, Positions, Ranks

<1>IssueRoundRobinOK.
    \A cq, bs :
       /\ QueueOK(cq) /\ Orderly(cq.queues)
       => PopOK(Contents(cq), bs, IssueRoundRobin(cq, bs))
  <2>TurnType.
      ASSUME NEW n \in Pointers, NEW k \in Turns
      PROVE  Turn(n, k) \in Pointers
    <3> USE <2>TurnType
    <3>1. NUM_RANKS \in Nat \ {0} /\ NUM_BANKS \in Nat \ {0}
      BY GeometryAssumption, Zenon
    <3>2. NUM_RANKS * NUM_BANKS \in Nat
      BY <3>1
    <3>3. k \in Nat /\ n.rank \in Nat /\ n.bank \in Banks
      BY <3>1, <3>2 DEF Pointers, Turns, Ranks, Positions
    <3>4. CASE PerRank
      <4>1. (n.rank + k) % NUM_RANKS \in Ranks
        BY <3>1, <3>3 DEF Ranks
      <4>2. Turn(n, k) = [n EXCEPT !.rank = (n.rank + k) % NUM_RANKS]
        BY <3>4, Zenon DEF Turn
      <4> QED BY <4>1, <4>2, Zenon DEF Pointers
    <3>5. CASE ~ PerRank
      BY <3>3, <3>5, <1>nextRankAndBankType, Zenon DEF Turn
    <3> QED BY <3>4, <3>5, Zenon

  \* With the close page policy the first command that may be issued, if it is an
  \* ACTIVATE, is the first one of its bank: they are all as ready as each other.
  <2>FirstReady.
      \A cq, bs, r, b, q, j :
         /\ cq \in CommandQueueStates /\ Orderly(cq.queues) /\ r \in Ranks
         /\ b \in Banks /\ ClosePage /\ q = getCommandQueue(cq, r, b)
         /\ j \in Ready(cq, bs, r, b) /\ (\A i \in Ready(cq, bs, r, b) : j <= i)
         /\ q[j].type = "ACTIVATE"
         => FirstOfBank(q, j)
    <3>ActivateIssuable.
        ASSUME NEW cq, NEW bs, NEW p, p.type = "ACTIVATE"
        PROVE  isIssuable(cq, bs, p) <=> MayActivateBank(cq, bs, p.addr.rank, p.addr.bank)
        BY <3>ActivateIssuable, Zenon DEF isIssuable, MayActivateBank, Reads, Writes

    <3> SUFFICES ASSUME NEW cq \in CommandQueueStates, NEW bs, NEW r \in Ranks,
                        NEW b \in Banks, NEW q, NEW j \in Ready(cq, bs, r, b),
                        Orderly(cq.queues), ClosePage, q = getCommandQueue(cq, r, b),
                        \A i \in Ready(cq, bs, r, b) : j <= i, q[j].type = "ACTIVATE"
                 PROVE  FirstOfBank(q, j)
      OBVIOUS
    <3>1. /\ q \in Seq(QueuedPackets) /\ DOMAIN q = 1 .. Len(q) /\ Len(q) \in Nat
          /\ j \in DOMAIN q /\ isIssuable(cq, bs, q[j])
      BY GetQueue, <1>ReadyShape, SeqDomain, Zenon
    <3>2. InPlace(q, r, QueueIndex(b))
      BY QueueIndexType, Zenon DEF Orderly, getCommandQueue
    <3>3. Ready(cq, bs, r, b) = ClosePageReady(cq, bs, q)
      BY Zenon DEF Ready
    <3> SUFFICES ASSUME NEW i \in 1 .. j - 1, q[i].type = "ACTIVATE", SameBank(q[i], q[j])
                 PROVE  FALSE
      BY Zenon DEF FirstOfBank
    <3>4. i \in DOMAIN q /\ i < j
      BY <3>1
    <3>5. isIssuable(cq, bs, q[i])
      <4>1. MayActivateBank(cq, bs, q[j].addr.rank, q[j].addr.bank)
        BY <3>1, <3>ActivateIssuable, Zenon
      <4>2. q[j].addr.rank = q[i].addr.rank /\ q[j].addr.bank = q[i].addr.bank
        BY Zenon DEF SameBank
      <4> QED BY <4>1, <4>2, <3>ActivateIssuable, Zenon
    <3>6. ~ Paired(q, i)
      <4>1. i > 1 => i - 1 \in DOMAIN q /\ (i - 1) + 1 = i
        BY <3>1, <3>4
      <4> QED BY <3>2, <4>1, Zenon DEF InPlace, Paired
    <3>7. PerRank
      BY <3>1, <3>3, <3>4 DEF ClosePageReady
    <3>8. i \in Ready(cq, bs, r, b)
      BY <3>3, <3>4, <3>5, <3>6, <3>7, Zenon DEF ClosePageReady
    <3> QED BY <3>1, <3>4, <3>8

  <2> SUFFICES ASSUME NEW cq, NEW bs, QueueOK(cq), Orderly(cq.queues)
               PROVE  PopOK(Contents(cq), bs, IssueRoundRobin(cq, bs))
    BY Zenon
  <2> DEFINE Has(k) == Ready(cq, bs, Turn(cq.next, k).rank, Turn(cq.next, k).bank) # {}
             K == {k \in Turns : Has(k)}
             n == Turn(cq.next, Min(K))
             c == [cq EXCEPT !.next = n]
             i == Min(Ready(cq, bs, n.rank, n.bank))
  <2>1. cq \in CommandQueueStates /\ cq.next \in Pointers
    BY QueueFields, Zenon DEF QueueOK
  <2>2. CASE K = {}
    <3>1. IssueRoundRobin(cq, bs) = Nothing(cq)
      BY <2>2, Zenon DEF IssueRoundRobin
    <3> QED BY <3>1, <1>NothingOK, Zenon
  <2>3. CASE K # {}
    <3>1. IssueRoundRobin(cq, bs) = Issue(c, n.rank, n.bank, i)
      BY <2>3, Zenon DEF IssueRoundRobin
    <3>2. K \in SUBSET Nat
      BY <1>TurnsNat, Zenon
    <3>3. Min(K) \in K
      BY <2>3, <3>2, MinIn, Zenon
    <3>4. Min(K) \in Turns /\ Ready(cq, bs, n.rank, n.bank) # {}
      BY <3>3, Zenon
    <3> HIDE DEF K
    <3>5. n \in Pointers
      BY <2>1, <3>4, <2>TurnType, Zenon
    <3> HIDE DEF n
    <3>6. n.rank \in Ranks /\ n.bank \in Banks
      BY <3>5, Zenon DEF Pointers
    <3>7. Ready(cq, bs, n.rank, n.bank) \in SUBSET Nat
      BY <2>1, <3>6, <1>ReadyShape, Zenon
    <3>8. /\ i \in Ready(cq, bs, n.rank, n.bank)
          /\ \A j \in Ready(cq, bs, n.rank, n.bank) : i <= j
      BY <3>4, <3>7, MinIn, Zenon
    <3>9. SameQueues(cq, c)
      BY <2>1, <3>5, QueueFields, <1>PointersSet, Zenon
    <3> HIDE DEF i, c
    <3>10. ClosePage /\ getCommandQueue(cq, n.rank, n.bank)[i].type = "ACTIVATE"
             => FirstOfBank(getCommandQueue(cq, n.rank, n.bank), i)
      BY <2>1, <3>6, <3>8, <2>FirstReady, Zenon
    <3>11. PopOK(Contents(cq), bs, Issue(c, n.rank, n.bank, i))
      BY <3>6, <3>8, <3>9, <3>10, <1>IssueReady, Zenon
    <3> QED BY <3>1, <3>11, Zenon
  <2> QED BY <2>2, <2>3, Zenon

<1>PopOKSame.
    ASSUME NEW v, NEW bs, NEW x, PopOK(v, bs, x), NEW c, SameQueues(x.cq, c)
    PROVE  PopOK(v, bs, Popped(c, x.packet))
  <2> USE <1>PopOKSame
  <2>1. PICK y : y = Popped(c, x.packet)
    BY Zenon
  <2>2. /\ y = [cq |-> c, packet |-> x.packet] /\ y.cq = c /\ y.packet = x.packet
    BY <2>1, Zenon DEF Popped
  <2>3. QueueOK(c) /\ Contents(c) = Contents(x.cq)
    BY <1>SameKept, Zenon DEF PopOK
  <2>4. PopOK(v, bs, y)
    BY <2>2, <2>3, Zenon DEF PopOK
  <2> QED BY <2>1, <2>4, Zenon

<1>IssuePriorityOK.
    \A cq, bs :
       /\ QueueOK(cq) /\ Orderly(cq.queues) /\ ~ ClosePage
       => PopOK(Contents(cq), bs, IssuePriority(cq, bs))
  <2>BestIn.
      \A cq, bs :
         /\ Candidates(cq, bs) # {}
         => Best(cq, bs, Candidates(cq, bs)) \in Candidates(cq, bs)
    <3>LeastIn.
        ASSUME NEW S, S # {}, NEW f \in [S -> Nat]
        PROVE  \E c \in S : \A d \in S : f[c] <= f[d]
      <4> USE <3>LeastIn
      <4> DEFINE T == {f[c] : c \in S}
      <4>1. T \in SUBSET Nat /\ T # {}
        BY Zenon
      <4>2. Min(T) \in T /\ \A y \in T : Min(T) <= y
        BY <4>1, MinIn, Zenon
      <4>3. PICK c \in S : Min(T) = f[c]
        BY <4>2, Zenon
      <4>4. \A d \in S : f[d] \in T
        BY Zenon
      <4> HIDE DEF T
      <4> QED BY <4>2, <4>3, <4>4, Zenon

    <3>PriorityNat.
        ASSUME NEW cq, NEW bs, NEW p, NEW age \in Nat
        PROVE  calculatePriority(cq, bs, p, age) \in Nat
      <4> USE <3>PriorityNat
      <4> DEFINE b == bs[p.addr.rank][p.addr.bank]
                 x == IF p.type \notin {cq.lastIssued, "ACTIVATE", "PRECHARGE"}
                      THEN 10000 ELSE 0
                 y == IF p.addr.rank = cq.next.rank /\ p.addr.bank = cq.next.bank
                      THEN 1000 ELSE 0
                 z == IF b.state # "RowActive" \/ b.row # p.addr.row THEN 100 ELSE 0
      <4>1. x \in Nat
        OBVIOUS
      <4>2. y \in Nat
        OBVIOUS
      <4>3. z \in Nat
        BY ZenonT(40)
      <4>4. calculatePriority(cq, bs, p, age) = x + y + z + age
        BY Zenon DEF calculatePriority
      <4> HIDE DEF x, y, z
      <4> QED BY <4>1, <4>2, <4>3, <4>4

    <3> SUFFICES ASSUME NEW cq, NEW bs, Candidates(cq, bs) # {}
                 PROVE  Best(cq, bs, Candidates(cq, bs)) \in Candidates(cq, bs)
      BY Zenon
    <3> DEFINE S == Candidates(cq, bs)
               Packet(c) == getCommandQueue(cq, c[1], c[2])[c[3]]
               Value(c) == calculatePriority(cq, bs, Packet(c), c[3] - 1)
                             * NUM_RANKS * NUM_BANKS + c[1] * NUM_BANKS + c[2]
               f == [c \in S |-> Value(c)]
    <3>1. NUM_RANKS \in Nat /\ NUM_BANKS \in Nat /\ CMD_QUEUE_DEPTH \in Nat
      BY GeometryAssumption, Zenon
    <3>2. ASSUME NEW c \in S PROVE Value(c) \in Nat
      <4>1. c[1] \in Nat /\ c[2] \in Nat /\ c[3] - 1 \in Nat
        BY <3>1 DEF Candidates, Ranks, Banks
      <4>2. calculatePriority(cq, bs, Packet(c), c[3] - 1) \in Nat
        BY <4>1, <3>PriorityNat, Zenon
      <4>3. PICK v \in Nat : v = calculatePriority(cq, bs, Packet(c), c[3] - 1)
        BY <4>2, Zenon
      <4>4. v * NUM_RANKS \in Nat
        BY <3>1
      <4>5. v * NUM_RANKS * NUM_BANKS \in Nat
        BY <3>1, <4>4
      <4>6. c[1] * NUM_BANKS \in Nat
        BY <3>1, <4>1
      <4>7. v * NUM_RANKS * NUM_BANKS + c[1] * NUM_BANKS + c[2] \in Nat
        BY <4>1, <4>5, <4>6
      <4> QED BY <4>3, <4>7, Zenon
    <3>3. Best(cq, bs, S) = CHOOSE c \in S : \A d \in S : Value(c) <= Value(d)
      BY Zenon DEF Best
    <3> HIDE DEF Value, S
    <3>4. f \in [S -> Nat]
      BY <3>2, Zenon
    <3>5. S # {}
      BY Zenon DEF S
    <3>6. PICK c \in S : \A d \in S : f[c] <= f[d]
      BY <3>4, <3>5, <3>LeastIn, Zenon
    <3>7. \E e \in S : \A d \in S : Value(e) <= Value(d)
      BY <3>6, Zenon
    <3> HIDE DEF f
    <3>8. (CHOOSE e \in S : \A d \in S : Value(e) <= Value(d)) \in S
      BY <3>7, Zenon
    <3> QED BY <3>3, <3>8, Zenon DEF S

  <2>RememberedOK.
      ASSUME NEW v, NEW bs, NEW x, PopOK(v, bs, x)
      PROVE  PopOK(v, bs, Remembered(x))
    <3> USE <2>RememberedOK
    <3> DEFINE y == CASE x.packet.type \in Reads -> "READ"
                      [] x.packet.type \in Writes -> "WRITE"
                      [] OTHER -> x.cq.lastIssued
               c == [x.cq EXCEPT !.lastIssued = y]
    <3>1. x = [cq |-> x.cq, packet |-> x.packet] /\ x.cq \in CommandQueueStates
      BY Zenon DEF PopOK, QueueOK
    <3>2. y \in {"READ", "WRITE"}
      <4>1. x.cq.lastIssued \in {"READ", "WRITE"}
        BY <3>1, QueueFields, Zenon
      <4> QED BY <4>1, Zenon
    <3>3. Remembered(x) = Popped(c, x.packet)
      <4>1. Remembered(x) = [x EXCEPT !.cq = c]
        BY Zenon DEF Remembered
      <4> HIDE DEF c
      <4> QED BY <3>1, <4>1, Zenon DEF Popped
    <3> HIDE DEF y
    <3>4. SameQueues(x.cq, c)
      BY <3>1, <3>2, QueueFields, <1>PointersSet, Zenon
    <3> HIDE DEF c
    <3> QED BY <3>3, <3>4, <1>PopOKSame, Zenon

  <2> SUFFICES ASSUME NEW cq, NEW bs, QueueOK(cq), Orderly(cq.queues), ~ ClosePage
               PROVE  PopOK(Contents(cq), bs, IssuePriority(cq, bs))
    BY Zenon
  <2>1. IssuePriority(cq, bs) = IF Candidates(cq, bs) = {} THEN Nothing(cq)
                                ELSE IssueAt(cq, Best(cq, bs, Candidates(cq, bs)))
    BY Zenon DEF IssuePriority, Candidates
  <2>2. CASE Candidates(cq, bs) = {}
    BY <2>1, <2>2, <1>NothingOK, Zenon
  <2>3. CASE Candidates(cq, bs) # {}
    <3> DEFINE c == Best(cq, bs, Candidates(cq, bs))
    <3>1. c \in Candidates(cq, bs)
      BY <2>3, <2>BestIn, Zenon
    <3> HIDE DEF c
    <3>2. c[1] \in Ranks /\ c[2] \in Banks /\ c[3] \in Ready(cq, bs, c[1], c[2])
      BY <3>1, Zenon DEF Candidates
    <3>3. PopOK(Contents(cq), bs, Issue(cq, c[1], c[2], c[3]))
      <4>1. SameQueues(cq, cq)
        BY Zenon DEF SameQueues, QueueOK
      <4> QED BY <3>2, <4>1, <1>IssueReady, Zenon
    <3>4. PopOK(Contents(cq), bs, IssueAt(cq, c))
      BY <3>3, <2>RememberedOK, Zenon DEF IssueAt
    <3> QED BY <2>1, <2>3, <3>4, Zenon DEF c
  <2> QED BY <2>2, <2>3, Zenon

<1>UnaddressedType.
    ASSUME NEW type \in Commands, NEW r \in Ranks, NEW b \in Banks
    PROVE  /\ Unaddressed(type, r, b) \in Packets
           /\ Unaddressed(type, r, b).type = type
           /\ Unaddressed(type, r, b).addr.rank = r
           /\ Unaddressed(type, r, b).addr.bank = b
  <2> USE <1>UnaddressedType
  <2>1. 0 \in 0 .. NUM_ROWS - 1 /\ 0 \in 0 .. NUM_COLS - 1
    BY GeometryAssumption
  <2> QED BY <2>1, Zenon DEF Unaddressed, Packets, Addresses

<1>PrechargeOK.
    ASSUME NEW cq, QueueOK(cq), NEW c, SameQueues(cq, c), NEW bs,
           NEW r \in Ranks, NEW b \in Banks, ~ ClosePage,
           bs[r][b].state = "RowActive", bs[r][b].nextPrecharge = 0,
           RowDone(Contents(cq), bs, r, b)
    PROVE  PopOK(Contents(cq), bs, Precharge(c, r, b))
  <2> USE <1>PrechargeOK
  <2>1. PICK p : p = Unaddressed("PRECHARGE", r, b)
    BY Zenon
  <2>2. p \in Packets /\ p.type = "PRECHARGE" /\ p.addr.rank = r /\ p.addr.bank = b
    <3>1. "PRECHARGE" \in Commands
      BY Zenon DEF Commands
    <3>2. Unaddressed("PRECHARGE", r, b) \in Packets
      BY <3>1, <1>UnaddressedType, Zenon
    <3> QED BY <2>1, <3>2, Zenon DEF Unaddressed
  <2>3. PICK e : e = [c EXCEPT !.rowAccessCounters[r][b] = 0]
    BY Zenon
  <2>4. Precharge(c, r, b) = Popped(e, p)
    BY <2>1, <2>3, Zenon DEF Precharge
  <2>5. Recounted(c, e, r, b, 0)
    BY <2>3, <1>CounterSet DEF SameQueues
  <2>6. QueueOK(e)
    BY <2>5, Zenon DEF SameQueues, QueueOK, Recounted
  <2>7. /\ Contents(e).queues = Contents(cq).queues
        /\ Contents(e).counts = [Contents(cq).counts EXCEPT ![r][b] = 0]
    BY <2>5, Zenon DEF SameQueues, Recounted, Contents
  <2>8. Follows(Contents(cq), bs, Contents(e), p)
    BY <2>1, <2>7, Zenon DEF Follows, FollowsAt, Closes
  <2>9. Legal(bs, p)
    BY <2>2, Zenon DEF Legal, Columns, Reads, Writes
  <2> QED BY <2>2, <2>4, <2>6, <2>8, <2>9, <1>PoppedOK, Zenon

<1>IssuePrechargeOK.
    ASSUME NEW cq, QueueOK(cq), NEW bs, ~ ClosePage
    PROVE  PopOK(Contents(cq), bs, IssuePrecharge(cq, bs))
  <2> USE <1>IssuePrechargeOK
  <2> DEFINE At(k) == nextRankAndBank(cq.nextPRE, k)
             K == {k \in Positions : MayClose(cq, bs, At(k).rank, At(k).bank)}
             n == At(Min(K))
             c == [cq EXCEPT !.nextPRE = n]
  <2>1. cq \in CommandQueueStates /\ cq.nextPRE \in Pointers
    BY QueueFields, Zenon DEF QueueOK
  <2>2. CASE K = {}
    <3>1. IssuePrecharge(cq, bs) = Nothing(cq)
      BY <2>2, Zenon DEF IssuePrecharge
    <3> QED BY <3>1, <1>NothingOK, Zenon
  <2>3. CASE K # {}
    <3>1. IssuePrecharge(cq, bs) = Precharge(c, n.rank, n.bank)
      BY <2>3, Zenon DEF IssuePrecharge
    <3>2. K \in SUBSET Nat
      BY <1>TurnsNat, Zenon
    <3>3. Min(K) \in K
      BY <2>3, <3>2, MinIn, Zenon
    <3>4. Min(K) \in Nat /\ MayClose(cq, bs, n.rank, n.bank)
      BY <3>2, <3>3, Zenon
    <3> HIDE DEF K
    <3>5. n \in Pointers
      BY <2>1, <3>4, <1>nextRankAndBankType, Zenon
    <3> HIDE DEF n
    <3>6. n.rank \in Ranks /\ n.bank \in Banks
      BY <3>5, Zenon DEF Pointers
    <3>7. SameQueues(cq, c)
      BY <2>1, <3>5, QueueFields, <1>PointersSet, Zenon
    <3>8. bs[n.rank][n.bank].state = "RowActive"
          /\ bs[n.rank][n.bank].nextPrecharge = 0
      BY <3>4, Zenon DEF MayClose
    <3>9. RowDone(Contents(cq), bs, n.rank, n.bank)
      <4>1. /\ Contents(cq).queues = cq.queues
            /\ Contents(cq).counts = cq.rowAccessCounters
        BY Zenon DEF Contents
      <4> QED BY <3>4, <4>1, Zenon DEF MayClose, RowDone, getCommandQueue
    <3> HIDE DEF c
    <3>10. PopOK(Contents(cq), bs, Precharge(c, n.rank, n.bank))
      BY <3>6, <3>7, <3>8, <3>9, <1>PrechargeOK, Zenon
    <3> QED BY <3>1, <3>10, Zenon
  <2> QED BY <2>2, <2>3, Zenon

<1>IssueRefreshOK.
    \A cq, bs :
       /\ QueueOK(cq) /\ cq.refreshWaiting /\ bs \in Tables
       => PopOK(Contents(cq), bs, IssueRefresh(cq, bs))
  <2>RefreshSent.
      ASSUME NEW cq, QueueOK(cq), NEW bs, NEW r \in Ranks,
             \A b \in Banks : bs[r][b].state # "RowActive" /\ bs[r][b].nextActivate = 0,
             bs[r][0].state # "PowerDown"
      PROVE  PopOK(Contents(cq), bs,
                   Popped([cq EXCEPT !.refreshRank = NoRank, !.refreshWaiting = FALSE],
                          Unaddressed("REFRESH", r, 0)))
    <3> USE <2>RefreshSent
    <3>1. 0 \in Banks
      BY GeometryAssumption DEF Banks
    <3>2. PICK p : p = Unaddressed("REFRESH", r, 0)
      BY Zenon
    <3>3. p \in Packets /\ p.type = "REFRESH" /\ p.addr.rank = r
      BY <3>1, <3>2, <1>UnaddressedType DEF Commands
    <3>4. PICK c : c = [cq EXCEPT !.refreshRank = NoRank, !.refreshWaiting = FALSE]
      BY Zenon
    <3>5. cq \in CommandQueueStates
      BY Zenon DEF QueueOK
    <3>6. c \in CommandQueueStates
      BY <3>4, <3>5, Zenon DEF CommandQueueStates
    <3>7. /\ c.queues = cq.queues /\ c.refreshWaiting = FALSE
          /\ c.rowAccessCounters = cq.rowAccessCounters
      BY <3>4, <3>5, <3>6, SMT DEF CommandQueueStates
    <3>8. QueueOK(c) /\ Contents(c) = Contents(cq)
      BY <3>6, <3>7, Zenon DEF QueueOK, Contents
    <3>9. Rests(Contents(cq), Contents(c), p)
      BY <3>3, <3>8, Zenon DEF Rests, Columns, Reads, Writes
    <3>10. Legal(bs, p)
      BY <3>3, Zenon DEF Legal, Columns, Reads, Writes
    <3>11. PopOK(Contents(cq), bs, Popped(c, p))
      BY <3>3, <3>8, <3>9, <3>10, <1>PoppedOK, Zenon DEF Follows
    <3> QED BY <3>2, <3>4, <3>11, Zenon

  <2>FirstMatch.
      ASSUME NEW S, NEW q \in Seq(S), NEW bs, NEW r, NEW b,
             NEW J, J = {i \in DOMAIN q : ForOpenRow(bs, r, b, q[i])},
             NEW j, j = FirstOf(J)
      PROVE  FirstIs(bs, r, b, q, j)
    <3> USE <2>FirstMatch
    <3>1. DOMAIN q = 1 .. Len(q) /\ Len(q) \in Nat
      BY SeqDomain, Zenon
    <3>2. J \in SUBSET Nat
      BY <3>1
    <3>3. /\ J # {} => j \in J /\ \A i \in J : j <= i
          /\ J = {} => j = 0
      BY <3>2, MinIn, Zenon DEF FirstOf
    <3>4. ASSUME j # 0
          PROVE  j \in DOMAIN q /\ FirstForRow(bs, r, b, q, j)
      <4>1. j \in J /\ j \in DOMAIN q /\ ForOpenRow(bs, r, b, q[j])
        BY <3>1, <3>3, <3>4, Zenon
      <4>2. ASSUME NEW i \in 1 .. j - 1 PROVE ~ ForOpenRow(bs, r, b, q[i])
        <5>1. i \in 1 .. Len(q) /\ ~ (j <= i)
          BY <3>1, <4>1
        <5> QED BY <3>3, <4>1, <5>1
      <4> QED BY <4>1, <4>2, Zenon DEF FirstForRow
    <3>5. ASSUME NEW i \in DOMAIN q, FirstForRow(bs, r, b, q, i)
          PROVE  i = j /\ j # 0
      <4>1. i \in J /\ i \in Nat /\ i # 0
        BY <3>1, <3>5 DEF FirstForRow
      <4>2. j \in J /\ j \in Nat /\ j <= i /\ ForOpenRow(bs, r, b, q[j]) /\ j >= 1
        BY <3>1, <3>3, <4>1
      <4>3. j \in 1 .. i - 1 => FALSE
        BY <3>5, <4>2, Zenon DEF FirstForRow
      <4> QED BY <4>1, <4>2, <4>3
    <3> QED BY <3>4, <3>5, Zenon DEF FirstIs

  \* The access a row was opened for goes out before the refresh.
  <2>DrainOK.
      ASSUME NEW cq, QueueOK(cq), NEW bs, NEW r \in Ranks, NEW b \in Banks,
             NEW q, q = getCommandQueue(cq, r, b), NEW j \in DOMAIN q,
             FirstForRow(bs, r, b, q, j), q[j].type # "ACTIVATE",
             isIssuable(cq, bs, q[j])
      PROVE  PopOK(Contents(cq), bs, Popped(Erase(cq, r, b, j, j), q[j]))
    <3> USE <2>DrainOK
    <3>1. /\ cq \in CommandQueueStates /\ q[j] \in QueuedPackets
          /\ DOMAIN q = 1 .. Len(q) /\ Len(q) \in Nat
      BY GetQueue, SeqDomain, Zenon DEF QueueOK
    <3>2. PICK p \in QueuedPackets : p = q[j]
      BY <3>1, Zenon
    <3>3. p \in Packets /\ Legal(bs, p)
      BY <3>2, <1>QueuedType, <1>IssuableLegal, Zenon
    <3>4. PICK e : e = Erase(cq, r, b, j, j)
      BY Zenon
    <3>5. j <= j /\ j \in Nat
      BY <3>1
    <3>6. Erased(cq, e, r, b, j, j)
      BY <3>1, <3>4, <3>5, <1>EraseShape, Zenon
    <3>7. QueueOK(e) /\ Contents(e).counts = Contents(cq).counts
      BY <3>6, Zenon DEF QueueOK, Erased, Contents
    <3>8. Left(Contents(cq), Contents(e), p, r, b, j, j)
      BY <3>2, <3>6, <1>ErasedLeft, Zenon
    <3>9. Contents(cq).queues[r][QueueIndex(b)] = q
      BY Zenon DEF Contents, getCommandQueue
    <3>10. Drains(Contents(cq), bs, Contents(e), p, r, b, j)
      BY <3>2, <3>7, <3>8, <3>9, Zenon DEF Drains
    <3>11. Follows(Contents(cq), bs, Contents(e), p)
      BY <3>5, <3>10, <1>FollowsBy, Zenon
    <3> QED BY <3>2, <3>3, <3>4, <3>7, <3>11, <1>PoppedOK, Zenon

  <2> SUFFICES ASSUME NEW cq, NEW bs \in Tables, QueueOK(cq), cq.refreshWaiting
               PROVE  PopOK(Contents(cq), bs, IssueRefresh(cq, bs))
    BY Zenon
  <2> DEFINE r == cq.refreshRank
             W == {b \in Banks : \/ bs[r][b].state = "RowActive"
                                 \/ bs[r][b].nextActivate > 0}
             b == Min(W)
             q == getCommandQueue(cq, r, b)
             J == {i \in DOMAIN q : ForOpenRow(bs, r, b, q[i])}
             j == FirstOf(J)
             drain == j # 0 /\ q[j].type # "ACTIVATE"
  <2>1. cq \in CommandQueueStates /\ r \in Ranks
    BY Zenon DEF QueueOK
  <2>2. IssueRefresh(cq, bs) =
          IF W = {}
          THEN IF bs[r][0].state = "PowerDown" THEN Nothing(cq)
               ELSE Popped([cq EXCEPT !.refreshRank = NoRank, !.refreshWaiting = FALSE],
                           Unaddressed("REFRESH", r, 0))
          ELSE IF bs[r][b].state # "RowActive" THEN Nothing(cq)
          ELSE IF drain
            THEN IF isIssuable(cq, bs, q[j])
                 THEN Popped(Erase(cq, r, b, j, j), q[j]) ELSE Nothing(cq)
          ELSE IF ~ ClosePage /\ bs[r][b].nextPrecharge = 0
            THEN Precharge(cq, r, b)
          ELSE Nothing(cq)
    BY Zenon DEF IssueRefresh
  <2>3. PopOK(Contents(cq), bs, Nothing(cq))
    BY <1>NothingOK, Zenon
  <2>4. CASE W = {}
    <3>1. \A a \in Banks : bs[r][a].state # "RowActive" /\ bs[r][a].nextActivate = 0
      <4> TAKE a \in Banks
      <4>1. bs[r][a] \in BankStates
        BY <2>1, Zenon DEF Tables
      <4>2. bs[r][a].nextActivate \in Nat
        BY <4>1, Zenon DEF BankStates
      <4> QED BY <2>4, <4>2
    <3>2. CASE bs[r][0].state = "PowerDown"
      BY <2>2, <2>3, <2>4, <3>2, Zenon
    <3>3. CASE bs[r][0].state # "PowerDown"
      <4>1. PopOK(Contents(cq), bs,
                   Popped([cq EXCEPT !.refreshRank = NoRank, !.refreshWaiting = FALSE],
                          Unaddressed("REFRESH", r, 0)))
        BY <2>1, <3>1, <3>3, <2>RefreshSent, Zenon
      <4> QED BY <2>2, <2>4, <3>3, <4>1, Zenon
    <3> QED BY <3>2, <3>3, Zenon
  <2>5. CASE W # {}
    <3>1. W \in SUBSET Nat
      BY GeometryAssumption DEF Banks
    <3>2. b \in Banks
      BY <2>5, <3>1, MinIn, Zenon
    <3> HIDE DEF b, W, r
    <3>3. q \in Seq(QueuedPackets) /\ DOMAIN q = 1 .. Len(q) /\ Len(q) \in Nat
      BY <2>1, <3>2, GetQueue, SeqDomain, Zenon
    <3>4. /\ j # 0 => j \in DOMAIN q /\ FirstForRow(bs, r, b, q, j)
          /\ \A i \in DOMAIN q : FirstForRow(bs, r, b, q, i) => i = j /\ j # 0
      <4> HIDE DEF q
      <4>1. PICK T : T = J
        BY Zenon
      <4>2. T = {i \in DOMAIN q : ForOpenRow(bs, r, b, q[i])}
        BY <4>1, Zenon
      <4>3. PICK k : k = FirstOf(T)
        BY Zenon
      <4>4. FirstIs(bs, r, b, q, k)
        <5>1. q \in Seq(QueuedPackets)
          BY <3>3, Zenon
        <5> QED BY <4>2, <4>3, <5>1, <2>FirstMatch, Zenon
      <4> HIDE DEF J
      <4>5. k = j
        BY <4>1, <4>3, Zenon
      <4> QED BY <4>4, <4>5, Zenon DEF FirstIs
    <3> HIDE DEF j
    <3>5. CASE bs[r][b].state # "RowActive"
      BY <2>2, <2>3, <2>5, <3>5, Zenon
    <3>6. CASE bs[r][b].state = "RowActive" /\ drain /\ isIssuable(cq, bs, q[j])
      <4>1. PopOK(Contents(cq), bs, Popped(Erase(cq, r, b, j, j), q[j]))
        BY <2>1, <3>2, <3>4, <3>6, <2>DrainOK, Zenon
      <4>2. IssueRefresh(cq, bs) = Popped(Erase(cq, r, b, j, j), q[j])
        BY <2>2, <2>5, <3>6, Zenon
      <4> QED BY <4>1, <4>2, Zenon
    <3>7. CASE bs[r][b].state = "RowActive" /\ drain /\ ~ isIssuable(cq, bs, q[j])
      BY <2>2, <2>3, <2>5, <3>7, Zenon
    <3>8. CASE /\ bs[r][b].state = "RowActive" /\ ~ drain
               /\ ~ ClosePage /\ bs[r][b].nextPrecharge = 0
      <4>1. IssueRefresh(cq, bs) = Precharge(cq, r, b)
        BY <2>2, <2>5, <3>8, Zenon
      <4>2. SameQueues(cq, cq)
        BY <2>1, Zenon DEF SameQueues
      <4>3. RowDone(Contents(cq), bs, r, b)
        <5>1. Contents(cq).queues[r][QueueIndex(b)] = q
          BY Zenon DEF Contents, getCommandQueue
        <5>2. \A i \in DOMAIN q : FirstForRow(bs, r, b, q, i) => q[i].type = "ACTIVATE"
          BY <3>4, <3>8, Zenon
        <5> HIDE DEF q
        <5> QED BY <5>1, <5>2, Zenon DEF RowDone
      <4>4. PopOK(Contents(cq), bs, Precharge(cq, r, b))
        BY <2>1, <3>2, <3>8, <4>2, <4>3, <1>PrechargeOK, Zenon
      <4> QED BY <4>1, <4>4, Zenon
    <3>9. CASE /\ bs[r][b].state = "RowActive" /\ ~ drain
               /\ ~ (~ ClosePage /\ bs[r][b].nextPrecharge = 0)
      BY <2>2, <2>3, <2>5, <3>9, Zenon
    <3> QED BY <3>5, <3>6, <3>7, <3>8, <3>9, Zenon
  <2> QED BY <2>4, <2>5, Zenon

<1>SentOK.
    \A v, bs, x :
       /\ PopOK(v, bs, x)
       => PopOK(v, bs, Sent(x))
  <2>AdvanceOK.
      ASSUME NEW cq \in CommandQueueStates
      PROVE  SameQueues(cq, Advance(cq))
    <3> USE <2>AdvanceOK
    <3>1. cq.next \in Pointers
      BY QueueFields, Zenon
    <3>2. nextRankAndBank(cq.next, 1) \in Pointers
      BY <3>1, <1>nextRankAndBankType, Zenon
    <3>3. Advance(cq) = IF AL > 0 /\ cq.sendAct THEN [cq EXCEPT !.sendAct = FALSE]
                        ELSE [cq EXCEPT !.sendAct = TRUE,
                                        !.next = nextRankAndBank(cq.next, 1)]
      BY Zenon DEF Advance
    <3>4. CASE AL > 0 /\ cq.sendAct
      BY <3>1, <3>3, <3>4, <1>PointersSet, Zenon
    <3>5. CASE ~ (AL > 0 /\ cq.sendAct)
      BY <3>2, <3>3, <3>5, <1>PointersSet, Zenon
    <3> QED BY <3>4, <3>5, Zenon

  <2>ActivatedOK.
      ASSUME NEW cq \in CommandQueueStates, NEW p \in Packets
      PROVE  SameQueues(cq, Activated(cq, p))
    <3> USE <2>ActivatedOK
    <3> DEFINE g == [cq.faw EXCEPT ![p.addr.rank] = @ \cup {tFAW}]
    <3>1. cq.faw \in Windows /\ p.addr.rank \in Ranks
      BY QueueFields, Zenon DEF Packets, Addresses
    <3>2. tFAW \in Nat \ {0}
      BY TimingAssumption
    <3>3. g \in Windows
      BY <3>1, <3>2, Zenon DEF Windows
    <3>4. Activated(cq, p) = IF p.type = "ACTIVATE" /\ ~ isSmartMRAM
                             THEN [cq EXCEPT !.faw = g] ELSE cq
      BY Zenon DEF Activated
    <3> HIDE DEF g
    <3>5. SameQueues(cq, [cq EXCEPT !.faw = g])
      BY <3>3, QueueFields, <1>WindowsSet, Zenon
    <3>6. SameQueues(cq, cq)
      BY Zenon DEF SameQueues
    <3> QED BY <3>4, <3>5, <3>6, Zenon

  <2> SUFFICES ASSUME NEW v, NEW bs, NEW x, PopOK(v, bs, x)
               PROVE  PopOK(v, bs, Sent(x))
    BY Zenon
  <2>1. CASE x.packet = None
    BY <2>1, Zenon DEF Sent
  <2>2. CASE x.packet # None
    <3> DEFINE c == Activated(Advance(x.cq), x.packet)
    <3>1. /\ x.cq \in CommandQueueStates /\ x.packet \in Packets
          /\ x = [cq |-> x.cq, packet |-> x.packet]
      BY <2>2, Zenon DEF PopOK, QueueOK
    <3>2. SameQueues(x.cq, Advance(x.cq))
      BY <3>1, <2>AdvanceOK, Zenon
    <3>3. SameQueues(Advance(x.cq), c)
      BY <3>1, <3>2, <2>ActivatedOK, Zenon DEF SameQueues
    <3>4. SameQueues(x.cq, c)
      BY <3>2, <3>3, Zenon DEF SameQueues
    <3>5. Sent(x) = [x EXCEPT !.cq = c]
      BY <2>2, Zenon DEF Sent
    <3> HIDE DEF c
    <3>6. Sent(x) = Popped(c, x.packet)
      BY <3>1, <3>5, Zenon DEF Popped
    <3> QED BY <3>4, <3>6, <1>PopOKSame, Zenon
  <2> QED BY <2>1, <2>2, Zenon

<1>FawElapsedOK.
    ASSUME NEW cq \in CommandQueueStates
    PROVE  SameQueues(cq, FawElapsed(cq))
  <2> USE <1>FawElapsedOK
  <2> DEFINE g == [r \in Ranks |-> {n - 1 : n \in cq.faw[r]} \ {0}]
  <2>1. cq.faw \in Windows
    BY QueueFields, Zenon
  <2>2. \A r \in Ranks : {n - 1 : n \in cq.faw[r]} \ {0} \in SUBSET (Nat \ {0})
    BY <2>1 DEF Windows
  <2>3. g \in Windows
    BY <2>2, Zenon DEF Windows
  <2>4. FawElapsed(cq) = [cq EXCEPT !.faw = g]
    BY Zenon DEF FawElapsed
  <2> HIDE DEF g
  <2> QED BY <2>3, <2>4, QueueFields, <1>WindowsSet, Zenon

<1> SUFFICES ASSUME NEW cq, NEW bs \in Tables, QueueOK(cq), Orderly(cq.queues)
             PROVE  PopOK(Contents(cq), bs, pop(cq, bs))
  BY Zenon
<1> DEFINE c == FawElapsed(cq)
           x == IF c.refreshWaiting THEN IssueRefresh(c, bs) ELSE Nothing(c)
           y == IF ~ ClosePage /\ SchedulingPolicy = "PriorityBased"
                THEN IssuePriority(c, bs) ELSE IssueRoundRobin(c, bs)
           z == IF ClosePage THEN Nothing(c) ELSE IssuePrecharge(c, bs)
<1>1. SameQueues(cq, c)
  BY <1>FawElapsedOK, Zenon DEF QueueOK
<1>2. QueueOK(c) /\ Contents(c) = Contents(cq) /\ Orderly(c.queues)
  BY <1>1, <1>SameKept, Zenon
<1>3. pop(cq, bs) = Sent(OrElse(x, OrElse(y, z)))
  BY Zenon DEF pop, PopWith
<1> HIDE DEF c
<1>4. PopOK(Contents(cq), bs, Nothing(c))
  BY <1>2, <1>NothingOK, Zenon
<1>5. PopOK(Contents(cq), bs, x)
  BY <1>2, <1>4, <1>IssueRefreshOK, Zenon
<1>6. PopOK(Contents(cq), bs, y)
  BY <1>2, <1>IssuePriorityOK, <1>IssueRoundRobinOK, Zenon
<1>7. PopOK(Contents(cq), bs, z)
  BY <1>2, <1>4, <1>IssuePrechargeOK, Zenon
<1> HIDE DEF x, y, z
<1>8. PopOK(Contents(cq), bs, OrElse(x, OrElse(y, z)))
  BY <1>5, <1>6, <1>7, Zenon DEF OrElse
<1> QED BY <1>3, <1>8, <1>SentOK, Zenon

-----------------------------------------------------------------------------
(* The order of the queues *)

LEMMA QueueReplaced ==
    ASSUME NEW qs \in Queues, NEW r \in Ranks, NEW b \in Banks,
           NEW s \in Seq(QueuedPackets)
    PROVE  LET f == [qs EXCEPT ![r][b] = s]
           IN  /\ f \in Queues /\ f[r][b] = s
               /\ \A r1 \in Ranks, b1 \in Banks :
                     r1 # r \/ b1 # b => f[r1][b1] = qs[r1][b1]
  BY Zenon DEF Queues

LEMMA OrderlyReplaced ==
    ASSUME NEW qs \in Queues, Orderly(qs), NEW r \in Ranks, NEW k \in Banks,
           NEW s \in Seq(QueuedPackets), Len(s) <= CMD_QUEUE_DEPTH, InPlace(s, r, k)
    PROVE  Orderly([qs EXCEPT ![r][k] = s])
<1>1. PICK f : f = [qs EXCEPT ![r][k] = s]
  BY Zenon
<1>2. /\ f[r][k] = s
      /\ \A r1 \in Ranks, b1 \in Banks : r1 # r \/ b1 # k => f[r1][b1] = qs[r1][b1]
  BY <1>1, QueueReplaced
<1>3. Orderly(f)
  BY <1>2, Zenon DEF Orderly
<1> QED BY <1>1, <1>3, Zenon

LEMMA FollowsOrderly ==
    \A v, bs, w, p :
       /\ v.queues \in Queues /\ Orderly(v.queues) /\ Follows(v, bs, w, p)
       => Orderly(w.queues)
\* The first command of a row has no ACTIVATE of its own in front of it.
<1>DrainNotHit.
    ASSUME NEW q, NEW r, NEW k, InPlace(q, r, k), NEW j \in Nat,
           NEW S, q \in Seq(S), j \in DOMAIN q, NEW bs, NEW b,
           FirstForRow(bs, r, b, q, j)
    PROVE  (j > 1 => q[j - 1].type # "ACTIVATE") /\ ~ Hit(q, j)
  <2> USE <1>DrainNotHit
  <2>1. DOMAIN q = 1 .. Len(q) /\ Len(q) \in Nat
    BY SeqDomain, Zenon
  <2>2. j > 1 => j - 1 \in DOMAIN q /\ (j - 1) + 1 = j /\ j - 1 \in 1 .. j - 1
    BY <2>1
  <2> QED BY <2>2, Zenon DEF InPlace, Hit, FirstForRow, ForOpenRow

<1>LeftOrderly.
    \A v, w, p, r, b, i, j :
       /\ v.queues \in Queues /\ Orderly(v.queues) /\ r \in Ranks /\ b \in Banks
       /\ i \in Nat /\ j \in Nat /\ i <= j /\ Left(v, w, p, r, b, i, j)
       /\ (i > 1 => v.queues[r][QueueIndex(b)][i - 1].type # "ACTIVATE")
       => Orderly(w.queues)
\* A command may be cut out if no ACTIVATE in front of it is left alone.
  <2>CutInPlace.
      ASSUME NEW S, NEW s \in Seq(S), NEW r, NEW k, InPlace(s, r, k),
             NEW i \in 1 .. Len(s), NEW j \in i .. Len(s),
             i > 1 => s[i - 1].type # "ACTIVATE"
      PROVE  InPlace(Cut(s, i, j), r, k)
    <3> USE <2>CutInPlace
    <3>0. DOMAIN s = 1 .. Len(s) /\ Len(s) \in Nat
      BY SeqDomain, Zenon
    <3>1. PICK t : t = Cut(s, i, j)
      BY Zenon
    <3>2. PICK d \in Nat : d = j - i + 1
      BY <3>0
    <3>3. PICK n \in Nat : n = Len(s)
      BY <3>0, Zenon
    <3>4. /\ DOMAIN s = 1 .. n /\ i \in 1 .. n /\ d >= 1 /\ i + d <= n + 1
      BY <3>0, <3>2, <3>3
    <3>5. /\ t \in Seq(S) /\ Len(t) = n - d
          /\ \A m \in 1 .. n - d : t[m] = IF m < i THEN s[m] ELSE s[m + d]
      <4>1. /\ Cut(s, i, j) \in Seq(S)
            /\ Len(Cut(s, i, j)) = Len(s) - (j - i + 1)
            /\ \A m \in 1 .. Len(s) - (j - i + 1) :
                  Cut(s, i, j)[m] = IF m < i THEN s[m] ELSE s[m + (j - i + 1)]
        BY CutShape, Zenon
      <4> QED BY <3>1, <3>2, <3>3, <4>1, Zenon
    <3>6. DOMAIN t = 1 .. n - d
      BY <3>5, SeqDomain, Zenon
    <3>7. ASSUME NEW m \in DOMAIN t
          PROVE  /\ t[m].addr.rank = r /\ QueueIndex(t[m].addr.bank) = k
                 /\ t[m].type = "ACTIVATE" =>
                       /\ m + 1 \in DOMAIN t /\ t[m + 1].type # "ACTIVATE"
                       /\ t[m + 1].addr = t[m].addr
      <4>0. m \in 1 .. n - d
        BY <3>6, Zenon
      <4>1. CASE m < i
        <5>1. m \in DOMAIN s /\ t[m] = s[m]
          BY <3>4, <3>5, <4>0, <4>1
        <5>2. ASSUME s[m].type = "ACTIVATE"
              PROVE  m + 1 \in DOMAIN t /\ t[m + 1] = s[m + 1]
          <6>1. m + 1 # i /\ m + 1 \in DOMAIN s
            BY <3>4, <4>0, <4>1, <5>1, <5>2 DEF InPlace
          <6>2. m + 1 < i /\ m + 1 \in 1 .. n - d
            BY <3>4, <4>0, <4>1, <6>1
          <6> QED BY <3>5, <3>6, <6>2, Zenon
        <5> QED BY <5>1, <5>2, Zenon DEF InPlace
      <4>2. CASE m >= i
        <5>1. m + d \in DOMAIN s /\ t[m] = s[m + d]
          BY <3>4, <3>5, <4>0, <4>2
        <5>2. ASSUME (m + d) + 1 \in DOMAIN s
              PROVE  m + 1 \in DOMAIN t /\ t[m + 1] = s[(m + d) + 1]
          <6>1. m + 1 \in 1 .. n - d /\ ~ (m + 1 < i) /\ (m + 1) + d = (m + d) + 1
            BY <3>4, <4>0, <4>2, <5>2
          <6> QED BY <3>5, <3>6, <6>1, Zenon
        <5> QED BY <5>1, <5>2, Zenon DEF InPlace
      <4>3. m < i \/ m >= i
        BY <3>4, <4>0
      <4> QED BY <4>1, <4>2, <4>3, Zenon
    <3>8. InPlace(t, r, k)
      BY <3>7, Zenon DEF InPlace
    <3> QED BY <3>1, <3>8, Zenon

  <2> SUFFICES ASSUME NEW v, NEW w, NEW p, NEW r \in Ranks, NEW b \in Banks,
                      NEW i \in Nat, NEW j \in Nat, v.queues \in Queues,
                      Orderly(v.queues), i <= j, Left(v, w, p, r, b, i, j),
                      i > 1 => v.queues[r][QueueIndex(b)][i - 1].type # "ACTIVATE"
               PROVE  Orderly(w.queues)
    OBVIOUS
  <2>1. PICK s : s = v.queues[r][QueueIndex(b)]
    BY Zenon
  <2>2. PICK k \in Banks : k = QueueIndex(b)
    BY QueueIndexType, Zenon
  <2>3. s \in Seq(QueuedPackets) /\ DOMAIN s = 1 .. Len(s) /\ Len(s) \in Nat
    BY <2>1, <2>2, SeqDomain DEF Queues
  <2>4. i \in 1 .. Len(s) /\ j \in i .. Len(s)
    BY <2>1, <2>3 DEF Left
  <2>5. PICK t : t = Cut(s, i, j)
    BY Zenon
  <2>6. t \in Seq(QueuedPackets) /\ Len(t) = Len(s) - (j - i + 1)
    BY <2>3, <2>4, <2>5, CutShape, Zenon
  <2>7. Len(s) <= CMD_QUEUE_DEPTH /\ CMD_QUEUE_DEPTH \in Nat /\ InPlace(s, r, k)
    BY <2>1, <2>2, GeometryAssumption, Zenon DEF Orderly
  <2>8. Len(t) <= CMD_QUEUE_DEPTH
    BY <2>3, <2>4, <2>6, <2>7
  <2>9. InPlace(t, r, k)
    BY <2>1, <2>3, <2>4, <2>5, <2>7, <2>CutInPlace, Zenon
  <2>10. w.queues = [v.queues EXCEPT ![r][k] = t]
    BY <2>1, <2>2, <2>5, Zenon DEF Left
  <2> QED BY <2>6, <2>8, <2>9, <2>10, OrderlyReplaced

<1> SUFFICES ASSUME NEW v, NEW bs, NEW w, NEW p, v.queues \in Queues,
                    Orderly(v.queues), Follows(v, bs, w, p)
             PROVE  Orderly(w.queues)
  BY Zenon
<1>1. CASE Rests(v, w, p)
  BY <1>1, Zenon DEF Rests
<1>2. CASE ~ Rests(v, w, p)
  <2>1. PICK r \in Ranks, b \in Banks : FollowsAt(v, bs, w, p, r, b)
    BY <1>2, Zenon DEF Follows
  <2>2. PICK q : q = v.queues[r][QueueIndex(b)]
    BY Zenon
  <2>3. InPlace(q, r, QueueIndex(b)) /\ q \in Seq(QueuedPackets)
    BY <2>2, QueueIndexType, Zenon DEF Orderly, Queues
  <2>4. CASE Closes(v, bs, w, p, r, b)
    BY <2>4, Zenon DEF Closes
  <2>5. ASSUME NEW j \in Nat, Activates(v, w, p, r, b, j)
        PROVE  Orderly(w.queues)
    <3>1. Left(v, w, p, r, b, j, j) /\ p.type = "ACTIVATE"
      BY <2>5, Zenon DEF Activates
    <3>2. j \in DOMAIN q /\ q[j].type = "ACTIVATE" /\ j <= j
      BY <2>2, <3>1 DEF Left
    <3>3. j > 1 => q[j - 1].type # "ACTIVATE"
      BY <2>3, <3>2, ActivateNotHit, Zenon
    <3> QED BY <2>2, <3>1, <3>2, <3>3, <1>LeftOrderly, Zenon
  <2>6. ASSUME NEW j \in Nat, AccessesRow(v, w, p, r, b, j)
        PROVE  Orderly(w.queues)
    <3>1. Left(v, w, p, r, b, IF Hit(q, j) THEN j - 1 ELSE j, j)
      BY <2>2, <2>6, Zenon DEF AccessesRow
    <3>2. j \in DOMAIN q
      BY <2>2, <3>1, Zenon DEF Left
    <3>3. CASE Hit(q, j)
      <4>1. PICK i \in Nat : i = j - 1
        BY <3>3 DEF Hit
      <4>2. Left(v, w, p, r, b, i, j)
        BY <3>1, <3>3, <4>1, Zenon
      <4>3. i \in DOMAIN q /\ q[i].type = "ACTIVATE" /\ i <= j
        BY <2>2, <3>3, <4>1, <4>2 DEF Hit, Left
      <4>4. i > 1 => q[i - 1].type # "ACTIVATE"
        BY <2>3, <4>3, ActivateNotHit, Zenon
      <4> QED BY <2>2, <4>2, <4>3, <4>4, <1>LeftOrderly, Zenon
    <3>4. CASE ~ Hit(q, j)
      <4>1. Left(v, w, p, r, b, j, j) /\ j <= j
        BY <3>1, <3>4
      <4>2. j > 1 => q[j - 1].type # "ACTIVATE"
        BY <2>3, <3>2, <3>4, HitPaired, Zenon
      <4> QED BY <2>2, <4>1, <4>2, <1>LeftOrderly, Zenon
    <3> QED BY <3>3, <3>4, Zenon
  <2>7. ASSUME NEW j \in Nat, Drains(v, bs, w, p, r, b, j)
        PROVE  Orderly(w.queues)
    <3>1. Left(v, w, p, r, b, j, j) /\ FirstForRow(bs, r, b, q, j)
      BY <2>2, <2>7, Zenon DEF Drains
    <3>2. j \in DOMAIN q /\ j <= j
      BY <2>2, <3>1 DEF Left
    <3>3. j > 1 => q[j - 1].type # "ACTIVATE"
      BY <2>3, <3>1, <3>2, <1>DrainNotHit, Zenon
    <3> QED BY <2>2, <3>1, <3>2, <3>3, <1>LeftOrderly, Zenon
  <2> QED BY <2>1, <2>4, <2>5, <2>6, <2>7, Zenon DEF FollowsAt
<1> QED BY <1>1, <1>2, Zenon

\* c is cq with p at the end of one queue.
Enqueued(cq, p, r, i, c) ==
    /\ QueueOK(c) /\ c.rowAccessCounters = cq.rowAccessCounters
    /\ c.queues = [cq.queues EXCEPT ![r][i] = Append(cq.queues[r][i], p)]
    /\ c.queues[r][i] = Append(cq.queues[r][i], p)
    /\ Len(c.queues[r][i]) = Len(cq.queues[r][i]) + 1 /\ Len(cq.queues[r][i]) \in Nat
    /\ \A r1 \in Ranks, b1 \in Banks :
          r1 # r \/ b1 # i => c.queues[r1][b1] = cq.queues[r1][b1]

LEMMA needRefreshOK ==
    ASSUME NEW cq, QueueOK(cq), NEW r \in Ranks
    PROVE  /\ QueueOK(needRefresh(cq, r)) /\ needRefresh(cq, r).queues = cq.queues
           /\ Contents(needRefresh(cq, r)) = Contents(cq)
<1> DEFINE c == [cq EXCEPT !.refreshWaiting = TRUE, !.refreshRank = r]
<1>1. cq \in CommandQueueStates
  BY Zenon DEF QueueOK
<1>2. c \in CommandQueueStates
  BY <1>1, Zenon DEF CommandQueueStates
<1>3. /\ c.queues = cq.queues /\ c.refreshRank = r
      /\ c.rowAccessCounters = cq.rowAccessCounters
  BY <1>1, <1>2, SMT DEF CommandQueueStates
<1>4. needRefresh(cq, r) = c
  BY Zenon DEF needRefresh
<1> HIDE DEF c
<1> QED BY <1>2, <1>3, <1>4, Zenon DEF QueueOK, Contents

LEMMA InitQueue == QueueOK(InitCommandQueue) /\ Orderly(InitCommandQueue.queues)
<1> DEFINE f == [r \in Ranks |-> [b \in Banks |-> <<>>]]
           g == [r \in Ranks |-> [b \in Banks |-> 0]]
           h == [r \in Ranks |-> {}]
           n == [rank |-> 0, bank |-> 0]
<1>1. 0 \in Ranks /\ 0 \in Banks
  BY GeometryAssumption DEF Ranks, Banks
<1>2. f \in Queues
  BY DEF Queues
<1>3. g \in Counters
  BY Zenon DEF Counters
<1>4. h \in Windows
  BY Zenon DEF Windows
<1>5. n \in Pointers
  BY <1>1, Zenon DEF Pointers
<1>6. InitCommandQueue =
        [queues |-> f, rowAccessCounters |-> g, faw |-> h, refreshRank |-> 0,
         refreshWaiting |-> FALSE, next |-> n, nextPRE |-> n,
         sendAct |-> TRUE, lastIssued |-> "READ"]
  BY Zenon DEF InitCommandQueue
<1>7. Orderly(f)
  BY GeometryAssumption DEF Orderly, InPlace
<1> HIDE DEF f, g, h, n
<1>8. InitCommandQueue \in CommandQueueStates
  BY <1>1, <1>2, <1>3, <1>4, <1>5, <1>6, Zenon DEF CommandQueueStates
<1> QED BY <1>6, <1>7, <1>8, Zenon DEF QueueOK

LEMMA CutOneType ==
    ASSUME NEW S, NEW s \in Seq(S), NEW i \in DOMAIN s
    PROVE  Cut(s, i, i) \in Seq(S)
<1>1. DOMAIN s = 1 .. Len(s) /\ Len(s) \in Nat
  BY SeqDomain, Zenon
<1>2. i \in 1 .. Len(s) /\ i \in i .. Len(s)
  BY <1>1
<1> QED BY <1>2, CutShape, Zenon

\* w is v with the commands a and k of a new transaction.
Joins(v, w, a, k) ==
    LET r == a.addr.rank
        i == QueueIndex(a.addr.bank)
    IN  /\ Len(v.queues[r][i]) + 2 <= CMD_QUEUE_DEPTH
        /\ w.counts = v.counts
        /\ w.queues = [v.queues EXCEPT ![r][i] = Append(Append(v.queues[r][i], a), k)]

\* A transaction is an ACTIVATE and a column command to the same address.
Pair(a, k) == a.type = "ACTIVATE" /\ k.type # "ACTIVATE" /\ k.addr = a.addr

LEMMA EnqueueTwo ==
    \A c, x, a, k, e :
       /\ QueueOK(c) /\ Orderly(c.queues) /\ x \in Addresses
       /\ hasRoomFor(c, 2, x.rank, x.bank) /\ a \in QueuedPackets /\ a.addr = x
       /\ k \in QueuedPackets /\ Pair(a, k) /\ e = enqueue(enqueue(c, a), k)
       => QueueOK(e) /\ Orderly(e.queues) /\ Joins(Contents(c), Contents(e), a, k)
<1>ReplacedTwice.
    ASSUME NEW qs \in Queues, NEW r \in Ranks, NEW k \in Banks, NEW s, NEW t
    PROVE  [[qs EXCEPT ![r][k] = s] EXCEPT ![r][k] = t] = [qs EXCEPT ![r][k] = t]
  <2> USE <1>ReplacedTwice
  <2>1. [[qs EXCEPT ![r][k] = s] EXCEPT ![r][k] = t]
          = [qs EXCEPT ![r] = [[qs[r] EXCEPT ![k] = s] EXCEPT ![k] = t]]
    BY Zenon DEF Queues
  <2>2. [[qs[r] EXCEPT ![k] = s] EXCEPT ![k] = t] = [qs[r] EXCEPT ![k] = t]
    BY Zenon DEF Queues
  <2> QED BY <2>1, <2>2, Zenon

<1>enqueueOK.
    ASSUME NEW cq, QueueOK(cq), NEW p \in QueuedPackets, NEW a, a = p.addr
    PROVE  Enqueued(cq, p, a.rank, QueueIndex(a.bank), enqueue(cq, p))
  <2> USE <1>enqueueOK
  <2> DEFINE r == p.addr.rank
             k == QueueIndex(p.addr.bank)
             q == getCommandQueue(cq, r, p.addr.bank)
             f == [cq.queues EXCEPT ![r][k] = Append(q, p)]
             c == [cq EXCEPT !.queues = f]
  <2>1. cq \in CommandQueueStates /\ cq.queues \in Queues
    BY QueueFields, Zenon DEF QueueOK
  <2>2. r \in Ranks /\ p.addr.bank \in Banks
    BY Zenon DEF QueuedPackets, Addresses
  <2>3. k \in Banks
    BY <2>2, QueueIndexType, Zenon
  <2>4. q \in Seq(QueuedPackets) /\ q = cq.queues[r][k]
    BY <2>1, <2>2, GetQueue, Zenon DEF getCommandQueue
  <2>5. enqueue(cq, p) = c
    BY <2>1, <2>2, <2>3, <2>4, Zenon DEF enqueue, Queues, CommandQueueStates
  <2> HIDE DEF q, k, r
  <2>6. Append(q, p) \in Seq(QueuedPackets) /\ Len(Append(q, p)) = Len(q) + 1
        /\ Len(q) \in Nat
    BY <2>4
  <2>7. /\ f \in Queues /\ f[r][k] = Append(q, p)
        /\ \A r1 \in Ranks, b1 \in Banks :
              r1 # r \/ b1 # k => f[r1][b1] = cq.queues[r1][b1]
    <3>1. PICK s \in Seq(QueuedPackets) : s = Append(q, p)
      BY <2>6, Zenon
    <3>2. LET g == [cq.queues EXCEPT ![r][k] = s]
          IN  /\ g \in Queues /\ g[r][k] = s
              /\ \A r1 \in Ranks, b1 \in Banks :
                    r1 # r \/ b1 # k => g[r1][b1] = cq.queues[r1][b1]
      BY <2>1, <2>2, <2>3, QueueReplaced
    <3> QED BY <3>1, <3>2, Zenon
  <2>8. f = [cq.queues EXCEPT ![r][k] = Append(q, p)]
    BY Zenon
  <2> HIDE DEF f
  <2>9. /\ c \in CommandQueueStates /\ c.queues = f
        /\ c.refreshWaiting = cq.refreshWaiting /\ c.refreshRank = cq.refreshRank
        /\ c.rowAccessCounters = cq.rowAccessCounters
    BY <2>1, <2>7, QueuesSet, Zenon
  <2> HIDE DEF c
  <2>10. QueueOK(c)
    BY <2>9, Zenon DEF QueueOK
  <2>11. c.queues[r][k] = Append(q, p)
    BY <2>7, <2>9, Zenon
  <2>12. \A r1 \in Ranks, b1 \in Banks :
            r1 # r \/ b1 # k => c.queues[r1][b1] = cq.queues[r1][b1]
    BY <2>7, <2>9, Zenon
  <2>13. Enqueued(cq, p, r, k, c)
    BY <2>4, <2>6, <2>8, <2>9, <2>10, <2>11, <2>12, Zenon DEF Enqueued
  <2> QED BY <2>5, <2>13, Zenon DEF r, k

<1>AppendInPlace.
    ASSUME NEW s \in Seq(QueuedPackets), NEW a \in QueuedPackets,
           NEW k \in QueuedPackets, Pair(a, k), NEW r, NEW i, InPlace(s, r, i),
           a.addr.rank = r, QueueIndex(a.addr.bank) = i
    PROVE  InPlace(Append(Append(s, a), k), r, i)
  <2> USE <1>AppendInPlace
  <2>1. PICK n \in Nat : n = Len(s) /\ DOMAIN s = 1 .. n
    BY SeqDomain, Zenon
  <2>2. PICK t : t = Append(Append(s, a), k)
    BY Zenon
  <2>3. /\ DOMAIN t = 1 .. n + 2 /\ t[n + 1] = a /\ t[n + 2] = k
        /\ \A m \in 1 .. n : t[m] = s[m]
    <3>1. PICK u \in Seq(QueuedPackets) : u = Append(s, a)
      BY SeqAppend, Zenon
    <3>2. /\ Len(u) = n + 1 /\ u[n + 1] = a
          /\ \A m \in 1 .. n : u[m] = s[m]
      BY <2>1, <3>1, SeqAppend
    <3>3. /\ t \in Seq(QueuedPackets) /\ Len(t) = (n + 1) + 1 /\ t[(n + 1) + 1] = k
          /\ \A m \in 1 .. n + 1 : t[m] = u[m]
      BY <2>2, <3>1, <3>2, SeqAppend
    <3>4. DOMAIN t = 1 .. Len(t)
      BY <3>3, SeqDomain, Zenon
    <3> QED BY <3>2, <3>3, <3>4
  <2>4. ASSUME NEW m \in DOMAIN t
        PROVE  /\ t[m].addr.rank = r /\ QueueIndex(t[m].addr.bank) = i
               /\ t[m].type = "ACTIVATE" =>
                     /\ m + 1 \in DOMAIN t /\ t[m + 1].type # "ACTIVATE"
                     /\ t[m + 1].addr = t[m].addr
    <3>1. CASE m \in 1 .. n
      <4>1. m \in DOMAIN s /\ t[m] = s[m]
        BY <2>1, <2>3, <3>1, Zenon
      <4>2. ASSUME m + 1 \in DOMAIN s PROVE m + 1 \in DOMAIN t /\ t[m + 1] = s[m + 1]
        BY <2>1, <2>3, <3>1, <4>2
      <4> QED BY <4>1, <4>2, Zenon DEF InPlace
    <3>2. CASE m = n + 1
      <4>1. m + 1 = n + 2 /\ m + 1 \in DOMAIN t
        BY <2>3, <3>2
      <4> QED BY <2>3, <3>2, <4>1, Zenon DEF Pair
    <3>3. CASE m = n + 2
      BY <2>3, <3>3, Zenon DEF Pair
    <3>4. m \in 1 .. n \/ m = n + 1 \/ m = n + 2
      BY <2>3
    <3> QED BY <3>1, <3>2, <3>3, <3>4, Zenon
  <2>5. InPlace(t, r, i)
    BY <2>4, Zenon DEF InPlace
  <2> QED BY <2>2, <2>5, Zenon

<1> SUFFICES ASSUME NEW c, NEW x \in Addresses, NEW a \in QueuedPackets,
                    NEW k \in QueuedPackets, NEW e, QueueOK(c), Orderly(c.queues),
                    hasRoomFor(c, 2, x.rank, x.bank), a.addr = x, Pair(a, k),
                    e = enqueue(enqueue(c, a), k)
             PROVE  QueueOK(e) /\ Orderly(e.queues) /\ Joins(Contents(c), Contents(e), a, k)
  OBVIOUS
<1>1. PICK d : d = enqueue(c, a)
  BY Zenon
<1>2. PICK r \in Ranks, i \in Banks : r = x.rank /\ i = QueueIndex(x.bank)
  BY QueueIndexType, Zenon DEF Addresses
<1>3. Enqueued(c, a, r, i, d)
  BY <1>1, <1>2, <1>enqueueOK, Zenon
<1>4. QueueOK(d) /\ k.addr = x
  BY <1>3, Zenon DEF Enqueued, Pair
<1>5. Enqueued(d, k, r, i, e)
  BY <1>1, <1>2, <1>4, <1>enqueueOK, Zenon
<1>6. PICK s \in Seq(QueuedPackets) : s = c.queues[r][i]
  BY QueueFields, Zenon DEF QueueOK, Queues
<1>7. PICK n \in Nat : n = Len(s)
  BY SeqDomain, Zenon
<1>8. CMD_QUEUE_DEPTH \in Nat /\ n <= CMD_QUEUE_DEPTH /\ InPlace(s, r, i)
  BY <1>6, <1>7, GeometryAssumption, Zenon DEF Orderly
<1>9. n + 2 <= CMD_QUEUE_DEPTH
  BY <1>2, <1>6, <1>7, <1>8 DEF hasRoomFor, getCommandQueue
<1>10. PICK t : t = Append(Append(s, a), k)
  BY Zenon
<1>11. t \in Seq(QueuedPackets) /\ Len(t) = n + 2
  BY <1>7, <1>10
<1>12. Len(t) <= CMD_QUEUE_DEPTH /\ InPlace(t, r, i)
  BY <1>2, <1>8, <1>9, <1>10, <1>11, <1>AppendInPlace, Zenon
<1>13. c.queues \in Queues
  BY QueueFields, Zenon DEF QueueOK
<1>14. e.queues = [c.queues EXCEPT ![r][i] = t]
  <2>1. d.queues = [c.queues EXCEPT ![r][i] = Append(s, a)]
        /\ d.queues[r][i] = Append(s, a)
    BY <1>3, <1>6, Zenon DEF Enqueued
  <2>2. e.queues = [d.queues EXCEPT ![r][i] = t]
    BY <1>5, <1>10, <2>1, Zenon DEF Enqueued
  <2> QED BY <1>13, <2>1, <2>2, <1>ReplacedTwice
<1>15. Orderly(e.queues)
  BY <1>11, <1>12, <1>13, <1>14, OrderlyReplaced
<1>16. QueueOK(e) /\ e.rowAccessCounters = c.rowAccessCounters
  BY <1>3, <1>5, Zenon DEF Enqueued
<1>17. /\ Contents(e).queues = e.queues /\ Contents(e).counts = e.rowAccessCounters
       /\ Contents(c).queues = c.queues /\ Contents(c).counts = c.rowAccessCounters
  BY Zenon DEF Contents
<1>18. Joins(Contents(c), Contents(e), a, k)
  BY <1>2, <1>6, <1>7, <1>9, <1>10, <1>14, <1>16, <1>17, Zenon DEF Joins
<1> QED BY <1>15, <1>16, <1>18, Zenon

-----------------------------------------------------------------------------
(* What the scheduler sees of all this *)

LEMMA SeenShape ==
    ASSUME NEW s \in Seq(QueuedPackets)
    PROVE  /\ SeenQueue(s) \in Seq({Seen(p) : p \in QueuedPackets})
           /\ Len(SeenQueue(s)) = Len(s) /\ DOMAIN SeenQueue(s) = 1 .. Len(s)
           /\ \A i \in 1 .. Len(s) : SeenQueue(s)[i] = Seen(s[i])
<1>1. Len(s) \in Nat /\ DOMAIN s = 1 .. Len(s)
  BY SeqDomain, Zenon
<1>2. \A i \in 1 .. Len(s) : s[i] \in QueuedPackets
  BY SeqElement, Zenon
<1>3. PICK T : T = {Seen(p) : p \in QueuedPackets}
  BY Zenon
<1>4. \A i \in 1 .. Len(s) : Seen(s[i]) \in T
  BY <1>2, <1>3, Zenon
<1>5. SeenQueue(s) = [i \in 1 .. Len(s) |-> Seen(s[i])]
  BY <1>1, Zenon DEF SeenQueue
<1>6. SeenQueue(s) \in [1 .. Len(s) -> T]
  BY <1>4, <1>5, Zenon
<1>7. SeenQueue(s) \in Seq(T)
  BY <1>1, <1>6
<1>8. Len(SeenQueue(s)) = Len(s)
  BY <1>1, <1>6, <1>7, SeqDomain
<1> QED BY <1>3, <1>5, <1>7, <1>8, Zenon

\* Entries i to j leave a queue the scheduler sees.
CutOut(s, i, j) == [m \in 1 .. Len(s) - (j - i + 1) |->
                      IF m < i THEN s[m] ELSE s[m + (j - i + 1)]]

\* f is g with x for bank b of rank r, and y is x with z for k.
Sets(f, g, r, b, x) == f = [g EXCEPT ![r][b] = x]
SetsAt(y, x, k, z) == y = [x EXCEPT ![k] = z]

LEMMA SeenReplaced ==
    ASSUME NEW qs \in Queues, NEW r \in Ranks, NEW k \in Banks,
           NEW s \in Seq(QueuedPackets), NEW f, Sets(f, qs, r, k, s)
    PROVE  SetsAt(SeenQueues(f), SeenQueues(qs), <<r, k>>, SeenQueue(s))
<1>1. ASSUME NEW x \in BankIds
      PROVE  SeenQueue(f[x[1]][x[2]]) = IF x = <<r, k>> THEN SeenQueue(s)
                                        ELSE SeenQueue(qs[x[1]][x[2]])
  BY DEF BankIds, Queues, Sets
<1> QED BY <1>1, Zenon DEF SeenQueues, SetsAt

-----------------------------------------------------------------------------
(* The steps the scheduler sees: from the queues q, the open rows o and the   *)
(* counters c to q1, o1 and c1.                                               *)

SeenSameRow(x, y) == x.bank = y.bank /\ x.row = y.row

SeenFirst(s, i) == \A j \in 1 .. i - 1 : s[j].act \/ ~ SeenSameRow(s[j], s[i])

SeenPaired(s, i) == i > 1 /\ s[i - 1].act /\ SeenSameRow(s[i - 1], s[i])

SeenFirstForRow(s, i, b, row) ==
    /\ s[i].bank = b /\ s[i].row = row
    /\ \A j \in 1 .. i - 1 : ~ (s[j].bank = b /\ s[j].row = row)

\* A column command whose ACTIVATE has gone finds its row open.
SeenOrphans(q, o) ==
    \A k \in BankIds : \A i \in DOMAIN q[k] :
        ~ q[k][i].act /\ (i = 1 \/ ~ q[k][i - 1].act) => o[q[k][i].bank] = q[k][i].row

SeenCount(c, b) == IF ClosePage THEN c ELSE [c EXCEPT ![b] = c[b] + 1]
SeenAccessed(o, b) == IF ClosePage THEN [o EXCEPT ![b] = NoRow] ELSE o

SeesActivate(q, o, c, q1, o1, c1, k, i) ==
    /\ q[k][i].act /\ o[q[k][i].bank] = NoRow /\ SeenFirst(q[k], i)
    /\ q1 = [q EXCEPT ![k] = CutOut(q[k], i, i)]
    /\ o1 = [o EXCEPT ![q[k][i].bank] = q[k][i].row]
    /\ c1 = SeenCount(c, q[k][i].bank)

SeesAccess(q, o, c, q1, o1, c1, k, i) ==
    /\ ~ q[k][i].act /\ o[q[k][i].bank] = q[k][i].row
    /\ c[q[k][i].bank] < TOTAL_ROW_ACCESSES
    /\ IF ClosePage THEN ~ SeenPaired(q[k], i) ELSE SeenFirst(q[k], i)
    /\ q1 = [q EXCEPT ![k] = CutOut(q[k], IF SeenPaired(q[k], i) THEN i - 1 ELSE i, i)]
    /\ o1 = SeenAccessed(o, q[k][i].bank)
    /\ c1 = SeenCount(c, q[k][i].bank)

SeesDrain(q, o, c, q1, o1, c1, k, i) ==
    /\ ~ q[k][i].act /\ o[q[k][i].bank] = q[k][i].row
    /\ SeenFirstForRow(q[k], i, q[k][i].bank, o[q[k][i].bank])
    /\ q1 = [q EXCEPT ![k] = CutOut(q[k], i, i)]
    /\ o1 = SeenAccessed(o, q[k][i].bank)
    /\ c1 = c

SeesClose(q, o, c, q1, o1, c1, b) ==
    LET s == q[QueueOfBank[b]]
    IN  /\ ~ ClosePage /\ o[b] # NoRow
        /\ \/ \A i \in DOMAIN s : ~ (s[i].bank = b /\ s[i].row = o[b])
           \/ c[b] = TOTAL_ROW_ACCESSES
           \/ \A i \in DOMAIN s : SeenFirstForRow(s, i, b, o[b]) => s[i].act
        /\ q1 = q /\ o1 = [o EXCEPT ![b] = NoRow] /\ c1 = [c EXCEPT ![b] = 0]

SeesStep(q, o, c, q1, o1, c1) ==
    \/ q1 = q /\ o1 = o /\ c1 = c
    \/ \E b \in BankIds : SeesClose(q, o, c, q1, o1, c1, b)
    \/ \E k \in BankIds : \E i \in DOMAIN q[k] :
          \/ SeesActivate(q, o, c, q1, o1, c1, k, i)
          \/ SeesAccess(q, o, c, q1, o1, c1, k, i)
          \/ SeesDrain(q, o, c, q1, o1, c1, k, i)

\* A cycle with the command p changes the open rows from o to o1.
RowsAfter(p, o, o1) ==
    o1 = [k \in BankIds |->
            RowAfter(p, p # None /\ k = <<p.addr.rank, p.addr.bank>>, o[k])]

\* A command that accesses or closes a row finds it open.
FindsOpen(bs, p) ==
    p.type \in Columns \cup {"PRECHARGE"} => Open(bs[p.addr.rank][p.addr.bank])

\* Entry i of t goes to the open row row of bank B as entry i of s does.
SameFor(t, i, B, row, bs, r, b, s) ==
    /\ t[i].bank = B /\ t[i].row = row <=> ForOpenRow(bs, r, b, s[i])
    /\ SeenFirstForRow(t, i, B, row) <=> FirstForRow(bs, r, b, s, i)

\* Contents v and the table bs as the scheduler sees them.
ViewOf(v, bs, q, o, c) ==
    /\ v.queues \in Queues /\ v.counts \in Counters /\ Orderly(v.queues) /\ bs \in Tables
    /\ q = SeenQueues(v.queues) /\ o = OpenRows(bs) /\ c = AccessCounts(v.counts)

\* The entry j of a queue, its place k and its bank B.
EntryAt(v, q, p, r, b, j, s, k, B) ==
    /\ s \in Seq(QueuedPackets) /\ j \in 1 .. Len(s) /\ s = v.queues[r][QueueIndex(b)]
    /\ InPlace(s, r, QueueIndex(b))
    /\ k = <<r, QueueIndex(b)>> /\ k \in BankIds
    /\ B = <<p.addr.rank, p.addr.bank>> /\ B \in BankIds
    /\ q[k] = SeenQueue(s) /\ j \in DOMAIN q[k] /\ q[k][j] = Seen(p) /\ q[k][j].bank = B
    /\ q[k][j].row = p.addr.row /\ (q[k][j].act <=> p.type = "ACTIVATE")
    /\ p = s[j] /\ p \in QueuedPackets /\ p.addr \in Addresses /\ p # None
    /\ p.addr.rank = r

\* A column command of the queue finds its row open, and closes it if the policy
\* is close page.
OpenFor(bs, p, o, o1, B) ==
    /\ Open(bs[p.addr.rank][p.addr.bank])
    /\ o[B] = p.addr.row /\ o[B] = OpenRow(bs[p.addr.rank][p.addr.bank])
    /\ o1 = SeenAccessed(o, B)

\* Whatever pop does is a step of the scheduler.
LEMMA FollowsSeen ==
    \A v, bs, q, o, c, w, p, o1 :
       /\ ViewOf(v, bs, q, o, c) /\ SeenOrphans(q, o) /\ Follows(v, bs, w, p)
       /\ (p # None => Legal(bs, p)) /\ FindsOpen(bs, p) /\ RowsAfter(p, o, o1)
       => SeesStep(q, o, c, SeenQueues(w.queues), o1, AccessCounts(w.counts))
<1>CountReplaced.
    ASSUME NEW c \in Counters, NEW r \in Ranks, NEW b \in Banks, NEW n,
           NEW f, Sets(f, c, r, b, n)
    PROVE  SetsAt(AccessCounts(f), AccessCounts(c), <<r, b>>, n)
  <2> USE <1>CountReplaced
  <2>1. ASSUME NEW x \in BankIds
        PROVE  f[x[1]][x[2]] = IF x = <<r, b>> THEN n ELSE c[x[1]][x[2]]
    BY DEF BankIds, Counters, Sets
  <2> QED BY <2>1, Zenon DEF AccessCounts, SetsAt

\* A command that leaves is seen to leave.
<1>SeenLeft.
    \A v, w, p, r, b, i, j, k, q :
       /\ v.queues \in Queues /\ Orderly(v.queues) /\ r \in Ranks /\ b \in Banks
       /\ i \in Nat /\ j \in Nat /\ i <= j /\ Left(v, w, p, r, b, i, j)
       /\ k = <<r, QueueIndex(b)>> /\ q = SeenQueues(v.queues)
       => SetsAt(SeenQueues(w.queues), q, k, CutOut(q[k], i, j))
  <2>SeenCut.
      ASSUME NEW s \in Seq(QueuedPackets), NEW i \in 1 .. Len(s), NEW j \in i .. Len(s)
      PROVE  SeenQueue(Cut(s, i, j)) = CutOut(SeenQueue(s), i, j)
    <3> USE <2>SeenCut
    <3>1. PICK n \in Nat : n = Len(s)
      BY SeqDomain, Zenon
    <3>2. PICK d \in Nat : d = j - i + 1 /\ d <= n
      BY <3>1
    <3>3. PICK t : t = Cut(s, i, j)
      BY Zenon
    <3>4. /\ t \in Seq(QueuedPackets) /\ Len(t) = n - d
          /\ \A k \in 1 .. n - d : t[k] = IF k < i THEN s[k] ELSE s[k + d]
      <4>1. /\ t \in Seq(QueuedPackets) /\ Len(t) = n - (j - i + 1)
            /\ \A k \in 1 .. n - (j - i + 1) :
                  t[k] = IF k < i THEN s[k] ELSE s[k + (j - i + 1)]
        BY <3>1, <3>3, CutShape, Zenon
      <4> QED BY <3>2, <4>1, Zenon
    <3>5. DOMAIN t = 1 .. n - d
      BY <3>4, SeqDomain, Zenon
    <3>6. Len(SeenQueue(s)) = n /\ \A k \in 1 .. n : SeenQueue(s)[k] = Seen(s[k])
      BY <3>1, SeenShape, Zenon
    <3>7. SeenQueue(t) = [k \in 1 .. n - d |-> Seen(t[k])]
      BY <3>5, Zenon DEF SeenQueue
    <3>8. CutOut(SeenQueue(s), i, j) = [k \in 1 .. n - d |->
                                          IF k < i THEN SeenQueue(s)[k]
                                          ELSE SeenQueue(s)[k + d]]
      BY <3>2, <3>6, Zenon DEF CutOut
    <3>9. ASSUME NEW k \in 1 .. n - d
          PROVE  Seen(t[k]) = IF k < i THEN SeenQueue(s)[k] ELSE SeenQueue(s)[k + d]
      <4>1. k \in 1 .. n /\ k + d \in 1 .. n
        BY <3>2
      <4> QED BY <3>4, <3>6, <4>1, Zenon
    <3> QED BY <3>3, <3>7, <3>8, <3>9, Zenon

  <2> SUFFICES ASSUME NEW v, NEW w, NEW p, NEW r \in Ranks, NEW b \in Banks,
                      NEW i \in Nat, NEW j \in Nat, NEW k, NEW q,
                      v.queues \in Queues, Orderly(v.queues), i <= j,
                      Left(v, w, p, r, b, i, j), k = <<r, QueueIndex(b)>>,
                      q = SeenQueues(v.queues)
               PROVE  SetsAt(SeenQueues(w.queues), q, k, CutOut(q[k], i, j))
    OBVIOUS
  <2>1. PICK x \in Banks : x = QueueIndex(b)
    BY QueueIndexType, Zenon
  <2>2. PICK s \in Seq(QueuedPackets) : s = v.queues[r][x]
    BY Zenon DEF Queues
  <2>3. /\ i \in DOMAIN s /\ j \in DOMAIN s
        /\ w.queues = [v.queues EXCEPT ![r][x] = Cut(s, i, j)]
    BY <2>1, <2>2, Zenon DEF Left
  <2>4. i \in 1 .. Len(s) /\ j \in i .. Len(s)
    BY <2>3, SeqDomain
  <2>5. PICK t \in Seq(QueuedPackets) : t = Cut(s, i, j)
    BY <2>4, CutShape, Zenon
  <2>6. SeenQueues(w.queues) = [q EXCEPT ![<<r, x>>] = SeenQueue(t)]
    <3>1. Sets(w.queues, v.queues, r, x, t)
      BY <2>3, <2>5, Zenon DEF Sets
    <3>2. SetsAt(SeenQueues(w.queues), SeenQueues(v.queues), <<r, x>>, SeenQueue(t))
      BY <3>1, SeenReplaced, Zenon
    <3> QED BY <3>2, Zenon DEF SetsAt
  <2>7. SeenQueue(Cut(s, i, j)) = CutOut(SeenQueue(s), i, j)
    BY <2>4, <2>SeenCut, Zenon
  <2>8. q[<<r, x>>] = SeenQueue(s)
    BY <2>1, <2>2, Zenon DEF SeenQueues, BankIds
  <2> QED BY <2>1, <2>5, <2>6, <2>7, <2>8, Zenon DEF SetsAt

<1>SeenAct.
    ASSUME NEW x
    PROVE  Seen(x).act <=> x.type = "ACTIVATE"
    BY <1>SeenAct, Zenon DEF Seen

<1>SeenRow.
    ASSUME NEW x, NEW y
    PROVE  SeenSameRow(Seen(x), Seen(y)) <=> SameRow(x, y)
  <2> USE <1>SeenRow
  <2>1. /\ Seen(x).bank = <<x.addr.rank, x.addr.bank>> /\ Seen(x).row = x.addr.row
        /\ Seen(y).bank = <<y.addr.rank, y.addr.bank>> /\ Seen(y).row = y.addr.row
    BY Zenon DEF Seen
  <2>2. <<x.addr.rank, x.addr.bank>> = <<y.addr.rank, y.addr.bank>> <=> SameBank(x, y)
    BY Zenon DEF SameBank
  <2> QED BY <2>1, <2>2, Zenon DEF SeenSameRow, SameRow

\* The rules say the same of a queue and of what is seen of it.
<1>SeenHit.
    ASSUME NEW s \in Seq(QueuedPackets), NEW j \in 1 .. Len(s)
    PROVE  /\ SeenPaired(SeenQueue(s), j) <=> Hit(s, j)
           /\ SeenFirst(SeenQueue(s), j) <=> ~ Dependent(s, j)
  <2> USE <1>SeenHit
  <2>1. PICK n \in Nat : n = Len(s)
    BY SeqDomain, Zenon
  <2>2. PICK t : t = SeenQueue(s)
    BY Zenon
  <2>3. \A i \in 1 .. n : t[i] = Seen(s[i]) /\ (t[i].act <=> s[i].type = "ACTIVATE")
    <3>1. \A i \in 1 .. n : t[i] = Seen(s[i])
      BY <2>1, <2>2, SeenShape, Zenon
    <3> QED BY <3>1, <1>SeenAct, Zenon
  <2>4. \A i \in 1 .. n : SeenSameRow(t[i], t[j]) <=> SameRow(s[i], s[j])
    BY <2>1, <2>3, <1>SeenRow, Zenon
  <2>5. j \in 1 .. n
    BY <2>1, Zenon
  <2>6. SeenPaired(t, j) <=> Hit(s, j)
    <3>1. j > 1 => j - 1 \in 1 .. n
      BY <2>5
    <3> QED BY <2>3, <2>4, <3>1, Zenon DEF SeenPaired, Hit
  <2>7. SeenFirst(t, j) <=> ~ Dependent(s, j)
    <3>1. \A i \in 1 .. j - 1 : i \in 1 .. n
      BY <2>5
    <3> QED BY <2>3, <2>4, <3>1, Zenon DEF SeenFirst, Dependent
  <2> QED BY <2>2, <2>6, <2>7, Zenon

<1>SeenFor.
    ASSUME NEW s \in Seq(QueuedPackets), NEW r, NEW x, InPlace(s, r, x),
           NEW bs, NEW b, Open(bs[r][b]), NEW row, row = OpenRow(bs[r][b]),
           NEW t, t = SeenQueue(s), NEW i \in 1 .. Len(s), NEW B, B = <<r, b>>
    PROVE  SameFor(t, i, B, row, bs, r, b, s)
  <2> USE <1>SeenFor
  <2>1. PICK n \in Nat : n = Len(s) /\ DOMAIN s = 1 .. n
    BY SeqDomain, Zenon
  <2>2. i \in 1 .. n /\ row = bs[r][b].row
    BY <2>1, Zenon DEF OpenRow
  <2>3. ASSUME NEW m \in 1 .. n
        PROVE  t[m].bank = <<r, b>> /\ t[m].row = row <=> ForOpenRow(bs, r, b, s[m])
    <3>1. s[m].addr.rank = r
      BY <2>1, Zenon DEF InPlace
    <3>2. t[m] = Seen(s[m])
      BY <2>1, SeenShape, Zenon
    <3> QED BY <2>2, <3>1, <3>2 DEF Seen, ForOpenRow
  <2>4. \A m \in 1 .. i - 1 : m \in 1 .. n
    BY <2>2
  <2>5. SeenFirstForRow(t, i, <<r, b>>, row) <=> FirstForRow(bs, r, b, s, i)
    BY <2>2, <2>3, <2>4, Zenon DEF SeenFirstForRow, FirstForRow
  <2> QED BY <2>2, <2>3, <2>5, Zenon DEF SameFor

<1>SeenCounted.
    ASSUME NEW counts \in Counters, NEW p, p.addr \in Addresses,
           NEW k, k = <<p.addr.rank, p.addr.bank>>
    PROVE  AccessCounts(CountedFor(counts, p)) = SeenCount(AccessCounts(counts), k)
  <2> USE <1>SeenCounted
  <2>1. CASE ClosePage
    BY <2>1, Zenon DEF CountedFor, SeenCount
  <2>2. CASE ~ ClosePage
    <3>1. PICK r \in Ranks : r = p.addr.rank
      BY Zenon DEF Addresses
    <3>2. PICK b \in Banks : b = p.addr.bank
      BY Zenon DEF Addresses
    <3>3. PICK n : n = counts[r][b] + 1
      BY Zenon
    <3>4. Sets(CountedFor(counts, p), counts, r, b, n)
      BY <2>2, <3>1, <3>2, <3>3, Zenon DEF CountedFor, Sets
    <3>5. SetsAt(AccessCounts(CountedFor(counts, p)), AccessCounts(counts), <<r, b>>, n)
      BY <3>4, <1>CountReplaced, Zenon
    <3>6. AccessCounts(counts)[k] = counts[r][b]
      BY <3>1, <3>2, Zenon DEF AccessCounts, BankIds
    <3> QED BY <2>2, <3>1, <3>2, <3>3, <3>5, <3>6, Zenon DEF SetsAt, SeenCount
  <2> QED BY <2>1, <2>2, Zenon

\* Only the bank of the command changes.
<1>RowChanged.
    ASSUME NEW p, p # None, NEW bs, NEW o, o = OpenRows(bs), NEW o1, RowsAfter(p, o, o1),
           NEW k \in BankIds, k = <<p.addr.rank, p.addr.bank>>
    PROVE  SetsAt(o1, o, k, RowAfter(p, TRUE, o[k]))
  <2> USE <1>RowChanged
  <2>1. o1 = [x \in BankIds |-> RowAfter(p, x = k, o[x])]
    BY Zenon DEF RowsAfter
  <2>2. \A x \in BankIds : x # k => RowAfter(p, x = k, o[x]) = o[x]
    BY Zenon DEF RowAfter
  <2>3. RowAfter(p, k = k, o[k]) = RowAfter(p, TRUE, o[k])
    BY Zenon DEF RowAfter
  <2>4. o = [x \in BankIds |-> o[x]]
    BY Zenon DEF OpenRows
  <2> QED BY <2>1, <2>2, <2>3, <2>4, Zenon DEF SetsAt

<1>EntrySeen.
    \A v, bs, q, o, c, w, p, r, b, i, j :
       /\ ViewOf(v, bs, q, o, c) /\ r \in Ranks /\ b \in Banks
       /\ Left(v, w, p, r, b, i, j)
       => \E s, k, B : EntryAt(v, q, p, r, b, j, s, k, B)
\* What entry j of a queue looks like.
  <2>SeenEntry.
      ASSUME NEW qs \in Queues, Orderly(qs), NEW r \in Ranks, NEW b \in Banks,
             NEW j \in DOMAIN qs[r][QueueIndex(b)]
      PROVE  LET k == <<r, QueueIndex(b)>>
                 p == qs[r][QueueIndex(b)][j]
             IN  /\ k \in BankIds /\ p \in QueuedPackets
                 /\ j \in 1 .. Len(qs[r][QueueIndex(b)])
                 /\ SeenQueues(qs)[k] = SeenQueue(qs[r][QueueIndex(b)])
                 /\ j \in DOMAIN SeenQueues(qs)[k]
                 /\ SeenQueues(qs)[k][j] = Seen(p)
                 /\ p.addr.rank = r /\ QueueIndex(p.addr.bank) = QueueIndex(b)
    <3> USE <2>SeenEntry
    <3>1. PICK x \in Banks : x = QueueIndex(b)
      BY QueueIndexType, Zenon
    <3>2. PICK s \in Seq(QueuedPackets) : s = qs[r][x]
      BY Zenon DEF Queues
    <3>3. j \in 1 .. Len(s) /\ s[j] \in QueuedPackets
      BY <3>1, <3>2, SeqDomain, SeqElement, Zenon
    <3>4. PICK k : k = <<r, x>>
      BY Zenon
    <3>5. k \in BankIds /\ SeenQueues(qs)[k] = SeenQueue(s)
      BY <3>1, <3>2, <3>4, Zenon DEF BankIds, SeenQueues
    <3>6. j \in DOMAIN SeenQueue(s) /\ SeenQueue(s)[j] = Seen(s[j])
      BY <3>3, SeenShape, Zenon
    <3>7. InPlace(s, r, x)
      BY <3>1, <3>2, Zenon DEF Orderly
    <3>8. s[j].addr.rank = r /\ QueueIndex(s[j].addr.bank) = x
      BY <3>1, <3>2, <3>7, Zenon DEF InPlace
    <3> QED BY <3>1, <3>2, <3>3, <3>4, <3>5, <3>6, <3>8, Zenon

  <2> SUFFICES ASSUME NEW v, NEW bs, NEW q, NEW o, NEW c, NEW w, NEW p,
                      NEW r \in Ranks, NEW b \in Banks, NEW i, NEW j,
                      ViewOf(v, bs, q, o, c), Left(v, w, p, r, b, i, j)
               PROVE  \E s, k, B : EntryAt(v, q, p, r, b, j, s, k, B)
    OBVIOUS
  <2>1. PICK s : s = v.queues[r][QueueIndex(b)]
    BY Zenon
  <2>2. j \in DOMAIN s /\ p = s[j] /\ v.queues \in Queues /\ Orderly(v.queues)
        /\ q = SeenQueues(v.queues)
    BY <2>1, Zenon DEF Left, ViewOf
  <2>3. s \in Seq(QueuedPackets) /\ InPlace(s, r, QueueIndex(b))
    BY <2>1, <2>2, QueueIndexType, Zenon DEF Queues, Orderly
  <2>4. PICK k : k = <<r, QueueIndex(b)>>
    BY Zenon
  <2>5. /\ k \in BankIds /\ p \in QueuedPackets /\ j \in 1 .. Len(s)
        /\ q[k] = SeenQueue(s) /\ j \in DOMAIN q[k] /\ q[k][j] = Seen(p)
        /\ p.addr.rank = r
    BY <2>1, <2>2, <2>4, <2>SeenEntry, Zenon
  <2>6. p.addr \in Addresses /\ p.type # "none"
    BY <2>5, Zenon DEF QueuedPackets
  <2>7. p # None
    BY <2>6 DEF None
  <2>8. PICK B : B = <<p.addr.rank, p.addr.bank>>
    BY Zenon
  <2>9. B \in BankIds
    BY <2>6, <2>8, Zenon DEF BankIds, Addresses
  <2>10. q[k][j].bank = B /\ q[k][j].row = p.addr.row
    BY <2>5, <2>8 DEF Seen
  <2>11. q[k][j].act <=> p.type = "ACTIVATE"
    BY <2>5, <1>SeenAct, Zenon
  <2>12. EntryAt(v, q, p, r, b, j, s, k, B)
    BY <2>1, <2>2, <2>3, <2>4, <2>5, <2>6, <2>7, <2>8, <2>9, <2>10, <2>11, Zenon
    DEF EntryAt
  <2> QED BY <2>12, Zenon

<1>ActivateSeen.
    \A v, bs, q, o, c, w, p, r, b, j, o1 :
       /\ ViewOf(v, bs, q, o, c) /\ SeenOrphans(q, o) /\ Legal(bs, p)
       /\ r \in Ranks /\ b \in Banks /\ j \in Nat /\ Activates(v, w, p, r, b, j)
       /\ RowsAfter(p, o, o1)
       => SeesStep(q, o, c, SeenQueues(w.queues), o1, AccessCounts(w.counts))
\* Close page: the access in front of an ACTIVATE to the same row has had its
\* own, and would find the row open.
  <2>ActivateFirst.
      ASSUME NEW v, NEW bs, NEW q, NEW o, NEW c, ViewOf(v, bs, q, o, c), SeenOrphans(q, o),
             NEW p, NEW r, NEW b, NEW j, NEW s, NEW k, NEW B,
             EntryAt(v, q, p, r, b, j, s, k, B), o[B] = NoRow, FirstOfBank(s, j)
      PROVE  SeenFirst(q[k], j)
    <3> USE <2>ActivateFirst
    <3>1. PICK n \in Nat : n = Len(s) /\ DOMAIN s = 1 .. n /\ j \in 1 .. n
      BY SeqDomain, Zenon DEF EntryAt
    <3>2. s \in Seq(QueuedPackets) /\ q[k] = SeenQueue(s) /\ k \in BankIds
      BY Zenon DEF EntryAt
    <3>3. DOMAIN q[k] = 1 .. n /\ \A i \in 1 .. n : q[k][i] = Seen(s[i])
      BY <3>1, <3>2, SeenShape, Zenon
    <3>4. SUFFICES ASSUME NEW i \in 1 .. j - 1, ~ q[k][i].act, SeenSameRow(q[k][i], q[k][j])
                   PROVE  FALSE
      BY Zenon DEF SeenFirst
    <3>5. i \in 1 .. n /\ s[i] \in QueuedPackets
      BY <3>1, <3>2, SeqElement
    <3>6. SameRow(s[i], s[j])
      BY <3>1, <3>3, <3>4, <3>5, <1>SeenRow, Zenon
    <3>7. CASE i > 1 /\ s[i - 1].type = "ACTIVATE"
      <4>1. i - 1 \in 1 .. n /\ i - 1 \in 1 .. j - 1 /\ i - 1 + 1 = i
        BY <3>1, <3>5, <3>7
      <4>2. s[i].addr = s[i - 1].addr
        BY <3>1, <3>7, <4>1, Zenon DEF EntryAt, InPlace
      <4>3. SameBank(s[i - 1], s[j])
        BY <3>6, <4>2, Zenon DEF SameRow, SameBank
      <4> QED BY <3>7, <4>1, <4>3, Zenon DEF FirstOfBank
    <3>8. CASE ~ (i > 1 /\ s[i - 1].type = "ACTIVATE")
      <4>1. i = 1 \/ ~ q[k][i - 1].act
        <5>1. i = 1 \/ (i > 1 /\ i - 1 \in 1 .. n)
          BY <3>5
        <5> QED BY <3>3, <3>8, <5>1, <1>SeenAct, Zenon
      <4>2. o[q[k][i].bank] = q[k][i].row
        BY <3>2, <3>3, <3>4, <3>5, <4>1, Zenon DEF SeenOrphans
      <4>3. q[k][i].bank = B
        BY <3>4, Zenon DEF SeenSameRow, EntryAt
      <4>4. q[k][i].row = s[i].addr.row
        <5>1. Seen(s[i]).row = s[i].addr.row
          BY Zenon DEF Seen
        <5> QED BY <3>3, <3>5, <5>1, Zenon
      <4>5. s[i].addr.row \in Nat
        BY <3>5 DEF QueuedPackets, Addresses
      <4> QED BY <4>2, <4>3, <4>4, <4>5 DEF NoRow
    <3> QED BY <3>7, <3>8, Zenon

  <2> SUFFICES ASSUME NEW v, NEW bs, NEW q, NEW o, NEW c, NEW w, NEW p,
                      NEW r \in Ranks, NEW b \in Banks, NEW j \in Nat, NEW o1,
                      ViewOf(v, bs, q, o, c), SeenOrphans(q, o), Legal(bs, p),
                      Activates(v, w, p, r, b, j), RowsAfter(p, o, o1)
               PROVE  SeesStep(q, o, c, SeenQueues(w.queues), o1, AccessCounts(w.counts))
    OBVIOUS
  <2>1. /\ Left(v, w, p, r, b, j, j) /\ p.type = "ACTIVATE"
        /\ w.counts = CountedFor(v.counts, p)
        /\ ClosePage => FirstOfBank(v.queues[r][QueueIndex(b)], j)
        /\ ~ ClosePage => ~ Dependent(v.queues[r][QueueIndex(b)], j)
    BY Zenon DEF Activates
  <2>2. PICK s, k, B : EntryAt(v, q, p, r, b, j, s, k, B)
    BY <2>1, <1>EntrySeen, Zenon
  <2>3. /\ k \in BankIds /\ j \in DOMAIN q[k] /\ q[k][j].act /\ q[k][j].bank = B
        /\ q[k][j].row = p.addr.row /\ B \in BankIds /\ B = <<p.addr.rank, p.addr.bank>>
        /\ p.addr \in Addresses /\ p # None /\ k = <<r, QueueIndex(b)>>
        /\ s = v.queues[r][QueueIndex(b)]
    BY <2>1, <2>2, Zenon DEF EntryAt
  <2>4. o[B] = NoRow
    <3>1. o[B] = OpenRow(bs[p.addr.rank][p.addr.bank])
      BY <2>3 DEF ViewOf, OpenRows
    <3>2. bs[p.addr.rank][p.addr.bank].state \in {"Idle", "Refreshing"}
      BY <2>1, Zenon DEF Legal
    <3> QED BY <3>1, <3>2, Zenon DEF OpenRow, Open
  <2>5. SeenFirst(q[k], j)
    <3>1. CASE ClosePage
      BY <2>1, <2>2, <2>3, <2>4, <3>1, <2>ActivateFirst, Zenon
    <3>2. CASE ~ ClosePage
      BY <2>1, <2>2, <3>2, <1>SeenHit, Zenon DEF EntryAt
    <3> QED BY <3>1, <3>2, Zenon
  <2>6. SeenQueues(w.queues) = [q EXCEPT ![k] = CutOut(q[k], j, j)]
    <3>1. v.queues \in Queues /\ Orderly(v.queues) /\ q = SeenQueues(v.queues)
      BY Zenon DEF ViewOf
    <3>2. j <= j
      OBVIOUS
    <3>3. SetsAt(SeenQueues(w.queues), q, k, CutOut(q[k], j, j))
      BY <2>1, <2>3, <3>1, <3>2, <1>SeenLeft, Zenon
    <3> QED BY <3>3, Zenon DEF SetsAt
  <2>7. o1 = [o EXCEPT ![B] = p.addr.row]
    <3>1. o1 = [o EXCEPT ![B] = RowAfter(p, TRUE, o[B])]
      <4>1. o = OpenRows(bs)
        BY Zenon DEF ViewOf
      <4>2. SetsAt(o1, o, B, RowAfter(p, TRUE, o[B]))
        BY <2>3, <4>1, <1>RowChanged, Zenon
      <4> QED BY <4>2, Zenon DEF SetsAt
    <3>2. RowAfter(p, TRUE, o[B]) = p.addr.row
      BY <2>1, Zenon DEF RowAfter
    <3> QED BY <3>1, <3>2, Zenon
  <2>8. AccessCounts(w.counts) = SeenCount(c, B)
    <3>1. v.counts \in Counters /\ c = AccessCounts(v.counts)
      BY Zenon DEF ViewOf
    <3> QED BY <2>1, <2>3, <3>1, <1>SeenCounted
  <2>9. SeesActivate(q, o, c, SeenQueues(w.queues), o1, AccessCounts(w.counts), k, j)
    BY <2>3, <2>4, <2>5, <2>6, <2>7, <2>8, Zenon DEF SeesActivate
  <2> QED BY <2>3, <2>9, Zenon DEF SeesStep

<1>ColumnSeen.
    ASSUME NEW v, NEW bs, NEW q, NEW o, NEW c, ViewOf(v, bs, q, o, c),
           NEW p, Legal(bs, p), FindsOpen(bs, p), p.type # "ACTIVATE",
           NEW r, NEW b, NEW j, NEW s, NEW k, NEW B,
           EntryAt(v, q, p, r, b, j, s, k, B), NEW o1, RowsAfter(p, o, o1)
    PROVE  OpenFor(bs, p, o, o1, B)
  <2> USE <1>ColumnSeen
  <2>1. /\ p \in QueuedPackets /\ B \in BankIds /\ B = <<p.addr.rank, p.addr.bank>>
        /\ p # None
    BY Zenon DEF EntryAt
  <2>2. p.type \in IF ClosePage THEN {"READ_P", "WRITE_P"} ELSE {"READ", "WRITE"}
    BY <2>1, Zenon DEF QueuedPackets
  <2>3. p.type \in Columns
    BY <2>2, Zenon DEF Columns, Reads, Writes
  <2>4. Open(bs[p.addr.rank][p.addr.bank])
    BY <2>3, Zenon DEF FindsOpen
  <2>5. o[B] = OpenRow(bs[p.addr.rank][p.addr.bank])
    BY <2>1, Zenon DEF ViewOf, OpenRows
  <2>6. bs[p.addr.rank][p.addr.bank].row = p.addr.row
    BY <2>3, Zenon DEF Legal
  <2>7. o1 = [o EXCEPT ![B] = RowAfter(p, TRUE, o[B])]
    <3>1. o = OpenRows(bs)
      BY Zenon DEF ViewOf
    <3>2. SetsAt(o1, o, B, RowAfter(p, TRUE, o[B]))
      BY <2>1, <3>1, <1>RowChanged, Zenon
    <3> QED BY <3>2, Zenon DEF SetsAt
  <2>8. RowAfter(p, TRUE, o[B]) = IF ClosePage THEN NoRow ELSE o[B]
    BY <2>2, Zenon DEF RowAfter
  <2>9. o = [x \in BankIds |-> o[x]]
    BY Zenon DEF ViewOf, OpenRows
  <2>10. o1 = SeenAccessed(o, B)
    BY <2>1, <2>7, <2>8, <2>9, Zenon DEF SeenAccessed
  <2> QED BY <2>4, <2>5, <2>6, <2>10, Zenon DEF OpenRow, OpenFor

<1>AccessSeen.
    ASSUME NEW v, NEW bs, NEW q, NEW o, NEW c, ViewOf(v, bs, q, o, c),
           NEW w, NEW p, Legal(bs, p), FindsOpen(bs, p),
           NEW r \in Ranks, NEW b \in Banks, NEW j \in Nat,
           AccessesRow(v, w, p, r, b, j), NEW o1, RowsAfter(p, o, o1)
    PROVE  SeesStep(q, o, c, SeenQueues(w.queues), o1, AccessCounts(w.counts))
  <2> USE <1>AccessSeen
  <2>1. PICK x : x = v.queues[r][QueueIndex(b)]
    BY Zenon
  <2>2. PICK i : i = IF Hit(x, j) THEN j - 1 ELSE j
    BY Zenon
  <2>3. /\ Left(v, w, p, r, b, i, j) /\ p.type # "ACTIVATE"
        /\ v.counts[p.addr.rank][p.addr.bank] < TOTAL_ROW_ACCESSES
        /\ w.counts = CountedFor(v.counts, p)
        /\ ClosePage => ~ Hit(x, j)
        /\ ~ ClosePage => ~ Dependent(x, j)
    BY <2>1, <2>2, Zenon DEF AccessesRow
  <2>4. PICK s, k, B : EntryAt(v, q, p, r, b, j, s, k, B)
    BY <2>3, <1>EntrySeen, Zenon
  <2>5. /\ k \in BankIds /\ j \in DOMAIN q[k] /\ ~ q[k][j].act /\ q[k][j].bank = B
        /\ q[k][j].row = p.addr.row /\ B \in BankIds /\ B = <<p.addr.rank, p.addr.bank>>
        /\ p.addr \in Addresses /\ k = <<r, QueueIndex(b)>>
        /\ s = x /\ q[k] = SeenQueue(s) /\ s \in Seq(QueuedPackets) /\ j \in 1 .. Len(s)
    BY <2>1, <2>3, <2>4, Zenon DEF EntryAt
  <2>6. o[B] = p.addr.row /\ o1 = SeenAccessed(o, B)
    <3>1. OpenFor(bs, p, o, o1, B)
      BY <2>3, <2>4, <1>ColumnSeen, Zenon
    <3> QED BY <3>1, Zenon DEF OpenFor
  <2>7. c[B] < TOTAL_ROW_ACCESSES
    <3>1. c[B] = v.counts[p.addr.rank][p.addr.bank]
      BY <2>5 DEF ViewOf, AccessCounts
    <3> QED BY <2>3, <3>1, Zenon
  <2>8. /\ SeenPaired(q[k], j) <=> Hit(x, j)
        /\ SeenFirst(q[k], j) <=> ~ Dependent(x, j)
    BY <2>5, <1>SeenHit, Zenon
  <2>9. IF ClosePage THEN ~ SeenPaired(q[k], j) ELSE SeenFirst(q[k], j)
    BY <2>3, <2>8, Zenon
  <2>10. SeenQueues(w.queues)
           = [q EXCEPT ![k] = CutOut(q[k], IF SeenPaired(q[k], j) THEN j - 1 ELSE j, j)]
    <3>1. v.queues \in Queues /\ Orderly(v.queues) /\ q = SeenQueues(v.queues)
      BY Zenon DEF ViewOf
    <3>2. i \in Nat /\ i <= j
      BY <2>2 DEF Hit
    <3>3. SetsAt(SeenQueues(w.queues), q, k, CutOut(q[k], i, j))
      BY <2>3, <2>5, <3>1, <3>2, <1>SeenLeft, Zenon
    <3>4. i = IF SeenPaired(q[k], j) THEN j - 1 ELSE j
      BY <2>2, <2>8, Zenon
    <3> QED BY <3>3, <3>4, Zenon DEF SetsAt
  <2>11. AccessCounts(w.counts) = SeenCount(c, B)
    <3>1. v.counts \in Counters /\ c = AccessCounts(v.counts)
      BY Zenon DEF ViewOf
    <3> QED BY <2>3, <2>5, <3>1, <1>SeenCounted, Zenon
  <2>12. SeesAccess(q, o, c, SeenQueues(w.queues), o1, AccessCounts(w.counts), k, j)
    BY <2>5, <2>6, <2>7, <2>9, <2>10, <2>11, Zenon DEF SeesAccess
  <2> QED BY <2>5, <2>12, Zenon DEF SeesStep

<1>DrainSeen.
    ASSUME NEW v, NEW bs, NEW q, NEW o, NEW c, ViewOf(v, bs, q, o, c),
           NEW w, NEW p, Legal(bs, p), FindsOpen(bs, p),
           NEW r \in Ranks, NEW b \in Banks, NEW j \in Nat,
           Drains(v, bs, w, p, r, b, j), NEW o1, RowsAfter(p, o, o1)
    PROVE  SeesStep(q, o, c, SeenQueues(w.queues), o1, AccessCounts(w.counts))
  <2> USE <1>DrainSeen
  <2>1. /\ Left(v, w, p, r, b, j, j) /\ p.type # "ACTIVATE" /\ w.counts = v.counts
        /\ FirstForRow(bs, r, b, v.queues[r][QueueIndex(b)], j)
    BY Zenon DEF Drains
  <2>2. PICK s, k, B : EntryAt(v, q, p, r, b, j, s, k, B)
    BY <2>1, <1>EntrySeen, Zenon
  <2>3. /\ k \in BankIds /\ j \in DOMAIN q[k] /\ ~ q[k][j].act /\ q[k][j].bank = B
        /\ q[k][j].row = p.addr.row /\ B \in BankIds /\ B = <<p.addr.rank, p.addr.bank>>
        /\ k = <<r, QueueIndex(b)>> /\ InPlace(s, r, QueueIndex(b)) /\ p = s[j]
        /\ s = v.queues[r][QueueIndex(b)] /\ q[k] = SeenQueue(s)
        /\ s \in Seq(QueuedPackets) /\ j \in 1 .. Len(s) /\ p.addr.rank = r
    BY <2>1, <2>2, Zenon DEF EntryAt
  <2>4. /\ Open(bs[p.addr.rank][p.addr.bank])
        /\ o[B] = p.addr.row /\ o[B] = OpenRow(bs[p.addr.rank][p.addr.bank])
        /\ o1 = SeenAccessed(o, B)
    <3>1. OpenFor(bs, p, o, o1, B)
      BY <2>1, <2>2, <1>ColumnSeen, Zenon
    <3> QED BY <3>1, Zenon DEF OpenFor
  <2>5. p.addr.bank = b /\ B = <<r, b>>
    BY <2>1, <2>3, Zenon DEF FirstForRow, ForOpenRow
  <2>6. SeenFirstForRow(q[k], j, B, o[B])
    <3>1. SameFor(q[k], j, B, o[B], bs, r, b, s)
      BY <2>3, <2>4, <2>5, <1>SeenFor, Zenon
    <3> QED BY <2>1, <2>3, <3>1, Zenon DEF SameFor
  <2>7. SeenQueues(w.queues) = [q EXCEPT ![k] = CutOut(q[k], j, j)]
    <3>1. v.queues \in Queues /\ Orderly(v.queues) /\ q = SeenQueues(v.queues)
      BY Zenon DEF ViewOf
    <3>2. j <= j
      OBVIOUS
    <3>3. SetsAt(SeenQueues(w.queues), q, k, CutOut(q[k], j, j))
      BY <2>1, <2>3, <3>1, <3>2, <1>SeenLeft, Zenon
    <3> QED BY <3>3, Zenon DEF SetsAt
  <2>8. AccessCounts(w.counts) = c
    BY <2>1, Zenon DEF ViewOf
  <2>9. SeesDrain(q, o, c, SeenQueues(w.queues), o1, AccessCounts(w.counts), k, j)
    BY <2>3, <2>4, <2>6, <2>7, <2>8, Zenon DEF SeesDrain
  <2> QED BY <2>3, <2>9, Zenon DEF SeesStep

<1>CloseSeen.
    ASSUME NEW v, NEW bs, NEW q, NEW o, NEW c, ViewOf(v, bs, q, o, c),
           NEW w, NEW p, Legal(bs, p), FindsOpen(bs, p),
           NEW r \in Ranks, NEW b \in Banks,
           Closes(v, bs, w, p, r, b), NEW o1, RowsAfter(p, o, o1)
    PROVE  SeesStep(q, o, c, SeenQueues(w.queues), o1, AccessCounts(w.counts))
  <2> USE <1>CloseSeen
  <2>1. /\ p = Unaddressed("PRECHARGE", r, b) /\ w.queues = v.queues
        /\ w.counts = [v.counts EXCEPT ![r][b] = 0]
        /\ RowDone(v, bs, r, b)
    BY Zenon DEF Closes
  <2>2. p.type = "PRECHARGE" /\ p.addr.rank = r /\ p.addr.bank = b
    BY <2>1, Zenon DEF Unaddressed
  <2>3. PICK B \in BankIds : B = <<r, b>>
    BY Zenon DEF BankIds
  <2>4. PICK k : k = <<r, QueueIndex(b)>> /\ k \in BankIds /\ k = QueueOfBank[B]
    BY <2>3, QueueIndexType, Zenon DEF BankIds, QueueOfBank
  <2>5. PICK m \in BankStates : m = bs[r][b]
    BY Zenon DEF ViewOf, Tables
  <2>6. ~ ClosePage /\ Open(m)
    BY <2>2, <2>5, Zenon DEF Legal, FindsOpen
  <2>7. o[B] = OpenRow(m) /\ o[B] # NoRow
    <3>1. o[B] = OpenRow(m)
      BY <2>3, <2>5, Zenon DEF ViewOf, OpenRows
    <3>2. m.row \in Nat
      BY DEF BankStates
    <3> QED BY <2>6, <3>1, <3>2 DEF OpenRow, NoRow
  <2>8. PICK s : s = v.queues[r][QueueIndex(b)]
    BY Zenon
  <2>9. /\ s \in Seq(QueuedPackets) /\ InPlace(s, r, QueueIndex(b)) /\ q[k] = SeenQueue(s)
    BY <2>4, <2>8, QueueIndexType DEF ViewOf, Queues, Orderly, SeenQueues
  <2>10. DOMAIN q[k] = 1 .. Len(s) /\ DOMAIN s = 1 .. Len(s)
    BY <2>9, SeenShape, SeqDomain, Zenon
  <2>11. \A i \in 1 .. Len(s) :
            /\ q[k][i].bank = B /\ q[k][i].row = o[B] <=> ForOpenRow(bs, r, b, s[i])
            /\ SeenFirstForRow(q[k], i, B, o[B]) <=> FirstForRow(bs, r, b, s, i)
            /\ q[k][i].act <=> s[i].type = "ACTIVATE"
    <3> TAKE i \in 1 .. Len(s)
    <3>1. /\ q[k][i].bank = B /\ q[k][i].row = o[B] <=> ForOpenRow(bs, r, b, s[i])
          /\ SeenFirstForRow(q[k], i, B, o[B]) <=> FirstForRow(bs, r, b, s, i)
      <4>1. SameFor(q[k], i, B, o[B], bs, r, b, s)
        BY <2>3, <2>5, <2>6, <2>7, <2>9, <1>SeenFor, Zenon
      <4> QED BY <4>1, Zenon DEF SameFor
    <3>2. q[k][i] = Seen(s[i])
      BY <2>9, SeenShape, Zenon
    <3>3. q[k][i].act <=> s[i].type = "ACTIVATE"
      BY <3>2, <1>SeenAct, Zenon
    <3> QED BY <3>1, <3>3, Zenon
  <2>12. c[B] = v.counts[r][b]
    BY <2>3, Zenon DEF ViewOf, AccessCounts
  <2>13. \/ \A i \in DOMAIN q[k] : ~ (q[k][i].bank = B /\ q[k][i].row = o[B])
         \/ c[B] = TOTAL_ROW_ACCESSES
         \/ \A i \in DOMAIN q[k] : SeenFirstForRow(q[k], i, B, o[B]) => q[k][i].act
    BY <2>1, <2>8, <2>10, <2>11, <2>12, Zenon DEF RowDone
  <2>14. o1 = [o EXCEPT ![B] = NoRow]
    <3>1. o = OpenRows(bs) /\ p # None /\ B = <<p.addr.rank, p.addr.bank>>
      BY <2>2, <2>3 DEF ViewOf, None
    <3>2. SetsAt(o1, o, B, RowAfter(p, TRUE, o[B]))
      BY <2>3, <3>1, <1>RowChanged, Zenon
    <3>3. RowAfter(p, TRUE, o[B]) = NoRow
      BY <2>2, Zenon DEF RowAfter
    <3> QED BY <3>2, <3>3, Zenon DEF SetsAt
  <2>15. AccessCounts(w.counts) = [c EXCEPT ![B] = 0]
    <3>1. Sets(w.counts, v.counts, r, b, 0)
      BY <2>1, Zenon DEF Sets
    <3>2. v.counts \in Counters /\ c = AccessCounts(v.counts)
      BY Zenon DEF ViewOf
    <3>3. SetsAt(AccessCounts(w.counts), AccessCounts(v.counts), <<r, b>>, 0)
      BY <3>1, <3>2, <1>CountReplaced, Zenon
    <3> QED BY <2>3, <3>2, <3>3, Zenon DEF SetsAt
  <2>16. SeenQueues(w.queues) = q
    BY <2>1, Zenon DEF ViewOf
  <2>17. SeesClose(q, o, c, SeenQueues(w.queues), o1, AccessCounts(w.counts), B)
    BY <2>4, <2>6, <2>7, <2>13, <2>14, <2>15, <2>16, Zenon DEF SeesClose
  <2> QED BY <2>3, <2>17, Zenon DEF SeesStep

<1>RestSeen.
    ASSUME NEW v, NEW bs, NEW q, NEW o, NEW c, ViewOf(v, bs, q, o, c),
           NEW w, NEW p, Rests(v, w, p), NEW o1, RowsAfter(p, o, o1)
    PROVE  SeesStep(q, o, c, SeenQueues(w.queues), o1, AccessCounts(w.counts))
  <2> USE <1>RestSeen
  <2>1. w = v /\ p.type \notin {"READ_P", "WRITE_P", "PRECHARGE", "ACTIVATE"}
    BY Zenon DEF Rests, Columns, Reads, Writes
  <2>2. \A own, row : RowAfter(p, own, row) = row
    BY <2>1, Zenon DEF RowAfter
  <2>3. o1 = o
    BY <2>2, Zenon DEF RowsAfter, ViewOf, OpenRows
  <2>4. SeenQueues(w.queues) = q /\ AccessCounts(w.counts) = c
    BY <2>1, Zenon DEF ViewOf
  <2> QED BY <2>3, <2>4, Zenon DEF SeesStep

<1> SUFFICES ASSUME NEW v, NEW bs, NEW q, NEW o, NEW c, NEW w, NEW p, NEW o1,
                    ViewOf(v, bs, q, o, c), SeenOrphans(q, o),
                    Follows(v, bs, w, p), p # None => Legal(bs, p),
                    FindsOpen(bs, p), RowsAfter(p, o, o1)
             PROVE  SeesStep(q, o, c, SeenQueues(w.queues), o1, AccessCounts(w.counts))
  OBVIOUS
<1>1. CASE Rests(v, w, p)
  BY <1>1, <1>RestSeen, Zenon
<1>2. ASSUME NEW r \in Ranks, NEW b \in Banks, FollowsAt(v, bs, w, p, r, b)
      PROVE  SeesStep(q, o, c, SeenQueues(w.queues), o1, AccessCounts(w.counts))
  <2>1. CASE Closes(v, bs, w, p, r, b)
    <3>1. p.type = "PRECHARGE"
      BY <2>1, Zenon DEF Closes, Unaddressed
    <3>2. p # None
      BY <3>1 DEF None
    <3> QED BY <2>1, <3>2, <1>CloseSeen, Zenon
  <2>2. ASSUME NEW j \in Nat,
               \/ Activates(v, w, p, r, b, j)
               \/ AccessesRow(v, w, p, r, b, j)
               \/ Drains(v, bs, w, p, r, b, j)
        PROVE  SeesStep(q, o, c, SeenQueues(w.queues), o1, AccessCounts(w.counts))
    <3>1. PICK i : Left(v, w, p, r, b, i, j)
      BY <2>2, Zenon DEF Activates, AccessesRow, Drains
    <3>2. PICK s, k, B : EntryAt(v, q, p, r, b, j, s, k, B)
      BY <3>1, <1>EntrySeen, Zenon
    <3>3. p # None
      BY <3>2, Zenon DEF EntryAt
    <3> QED BY <2>2, <3>3, <1>ActivateSeen, <1>AccessSeen, <1>DrainSeen, Zenon
  <2> QED BY <1>2, <2>1, <2>2, Zenon DEF FollowsAt
<1> QED BY <1>1, <1>2, Zenon DEF Follows

\* The two commands of a transaction to bank b, row row join the queues.
SeesJoin(q, q1, b, row) ==
    LET k == QueueOfBank[b]
    IN  /\ Len(q[k]) + 2 <= CMD_QUEUE_DEPTH
        /\ q1 = [q EXCEPT ![k] = q[k] \o << [act |-> TRUE, bank |-> b, row |-> row],
                                            [act |-> FALSE, bank |-> b, row |-> row] >>]

LEMMA JoinSeen ==
    \A v, w, a, k :
       /\ v.queues \in Queues /\ a \in QueuedPackets /\ k \in QueuedPackets
       /\ Pair(a, k) /\ Joins(v, w, a, k)
       => \E b \in BankIds, row \in Rows :
             SeesJoin(SeenQueues(v.queues), SeenQueues(w.queues), b, row)
<1>SeenAppended.
    ASSUME NEW s \in Seq(QueuedPackets), NEW a \in QueuedPackets, NEW k \in QueuedPackets
    PROVE  SeenQueue(Append(Append(s, a), k)) = SeenQueue(s) \o <<Seen(a), Seen(k)>>
  <2> USE <1>SeenAppended
  <2>1. PICK n \in Nat : n = Len(s)
    BY SeqDomain, Zenon
  <2>2. PICK t : t = Append(Append(s, a), k)
    BY Zenon
  <2>3. /\ t \in Seq(QueuedPackets) /\ Len(t) = n + 2
        /\ t[n + 1] = a /\ t[n + 2] = k /\ \A i \in 1 .. n : t[i] = s[i]
    BY <2>1, <2>2
  <2>4. PICK T : T = {Seen(p) : p \in QueuedPackets}
    BY Zenon
  <2>5. Seen(a) \in T /\ Seen(k) \in T
    BY <2>4, Zenon
  <2>6. PICK u \in Seq(T) : u = SeenQueue(s) /\ Len(u) = n /\ \A i \in 1 .. n : u[i] = Seen(s[i])
    BY <2>1, <2>4, SeenShape, Zenon
  <2>7. PICK y \in T : y = Seen(a)
    BY <2>5, Zenon
  <2>8. PICK z \in T : z = Seen(k)
    BY <2>5, Zenon
  <2>9. PICK x : x = u \o <<y, z>>
    BY Zenon
  <2>10. /\ x \in Seq(T) /\ Len(x) = n + 2
         /\ x[n + 1] = y /\ x[n + 2] = z /\ \A i \in 1 .. n : x[i] = u[i]
    <3>1. PICK e : e = <<y, z>>
      BY Zenon
    <3>2. e \in Seq(T) /\ Len(e) = 2 /\ e[1] = y /\ e[2] = z
      BY <3>1
    <3>3. /\ x \in Seq(T) /\ Len(x) = n + 2
          /\ \A i \in 1 .. n + 2 : x[i] = IF i <= n THEN u[i] ELSE e[i - n]
      BY <2>6, <2>9, <3>1, <3>2, SeqConcat
    <3>4. \A i \in 1 .. n : i \in 1 .. n + 2 /\ i <= n
      BY <2>1
    <3>5. /\ n + 1 \in 1 .. n + 2 /\ ~ (n + 1 <= n) /\ (n + 1) - n = 1
          /\ n + 2 \in 1 .. n + 2 /\ ~ (n + 2 <= n) /\ (n + 2) - n = 2
      BY <2>1
    <3>6. x[n + 1] = e[(n + 1) - n] /\ x[n + 2] = e[(n + 2) - n]
      BY <3>3, <3>5, Zenon
    <3>7. \A i \in 1 .. n : x[i] = u[i]
      BY <3>3, <3>4, Zenon
    <3> QED BY <3>2, <3>3, <3>5, <3>6, <3>7, Zenon
  <2>11. PICK w : w = SeenQueue(t)
    BY Zenon
  <2>12. w \in Seq(T) /\ Len(w) = n + 2 /\ \A i \in 1 .. n + 2 : w[i] = Seen(t[i])
    BY <2>3, <2>4, <2>11, SeenShape, Zenon
  <2>13. ASSUME NEW i \in 1 .. n + 2
         PROVE  w[i] = x[i]
    <3>1. i \in 1 .. n \/ i = n + 1 \/ i = n + 2
      OBVIOUS
    <3>2. CASE i \in 1 .. n
      BY <2>3, <2>6, <2>10, <2>12, <3>2
    <3>3. CASE i = n + 1
      BY <2>3, <2>7, <2>10, <2>12, <3>3, Zenon
    <3>4. CASE i = n + 2
      BY <2>3, <2>8, <2>10, <2>12, <3>4, Zenon
    <3> QED BY <3>1, <3>2, <3>3, <3>4, Zenon
  <2>14. w = x
    BY <2>10, <2>12, <2>13, SeqSame, Zenon
  <2> QED BY <2>2, <2>6, <2>7, <2>8, <2>9, <2>11, <2>14, Zenon

<1> SUFFICES ASSUME NEW v, NEW w, NEW a \in QueuedPackets,
                    NEW k \in QueuedPackets, v.queues \in Queues, Pair(a, k),
                    Joins(v, w, a, k)
             PROVE  \E b \in BankIds, row \in Rows :
                       SeesJoin(SeenQueues(v.queues), SeenQueues(w.queues), b, row)
  BY Zenon
<1>1. a.type = "ACTIVATE" /\ k.type # "ACTIVATE" /\ k.addr = a.addr
  BY Zenon DEF Pair
<1>2. PICK x \in Addresses : x = a.addr
  BY Zenon DEF QueuedPackets
<1>3. x.rank \in Ranks /\ x.bank \in Banks /\ x.row \in Rows
  BY Zenon DEF Addresses, Rows
<1>4. PICK r \in Ranks : r = x.rank
  BY <1>3, Zenon
<1>5. PICK i \in Banks : i = QueueIndex(x.bank)
  BY <1>3, QueueIndexType, Zenon
<1>6. PICK b \in BankIds : b = <<x.rank, x.bank>>
  BY <1>3, Zenon DEF BankIds
<1>7. PICK row \in Rows : row = x.row
  BY <1>3, Zenon
<1>8. PICK s \in Seq(QueuedPackets) : s = v.queues[r][i]
  BY Zenon DEF Queues
<1>9. PICK e : e = Append(Append(s, a), k)
  BY Zenon
<1>10. Len(s) + 2 <= CMD_QUEUE_DEPTH /\ Sets(w.queues, v.queues, r, i, e)
  BY <1>2, <1>4, <1>5, <1>8, <1>9, Zenon DEF Joins, Sets
<1>11. e \in Seq(QueuedPackets)
  BY <1>9
<1>12. PICK q : q = SeenQueues(v.queues)
  BY Zenon
<1>13. SetsAt(SeenQueues(w.queues), q, <<r, i>>, SeenQueue(e))
  BY <1>10, <1>11, <1>12, SeenReplaced, Zenon
<1>14. SeenQueue(e) = SeenQueue(s) \o <<Seen(a), Seen(k)>>
  BY <1>9, <1>SeenAppended, Zenon
<1>15. Seen(a) = [act |-> TRUE, bank |-> b, row |-> row]
  <2>1. (a.type = "ACTIVATE") = TRUE
    BY <1>1, Zenon
  <2> QED BY <1>2, <1>6, <1>7, <2>1, Zenon DEF Seen
<1>16. Seen(k) = [act |-> FALSE, bank |-> b, row |-> row]
  <2>1. (k.type = "ACTIVATE") = FALSE
    BY <1>1, Zenon
  <2> QED BY <1>1, <1>2, <1>6, <1>7, <2>1, Zenon DEF Seen
<1>17. QueueOfBank[b] = <<r, i>> /\ q[<<r, i>>] = SeenQueue(s)
  BY <1>3, <1>4, <1>5, <1>6, <1>8, <1>12, Zenon DEF QueueOfBank, SeenQueues, BankIds
<1>18. Len(SeenQueue(s)) = Len(s)
  BY SeenShape, Zenon
<1>19. SeesJoin(q, SeenQueues(w.queues), b, row)
  BY <1>10, <1>13, <1>14, <1>15, <1>16, <1>17, <1>18, Zenon DEF SeesJoin, SetsAt
<1> QED BY <1>12, <1>19, Zenon

=============================================================================
