------------------------ MODULE CommandSchedulingProofs ------------------------
(***************************************************************************)
(* Proofs about CommandScheduling, for any number of banks, rows, queues   *)
(* and commands.                                                           *)
(***************************************************************************)
EXTENDS CommandScheduling, WellFoundedInduction, TLAPS

-----------------------------------------------------------------------------
(* Sequences *)

LEMMA SeqElement ==
    ASSUME NEW S, NEW s \in Seq(S), NEW n \in 1 .. Len(s)
    PROVE  s[n] \in S
  OBVIOUS

LEMMA SeqDomain ==
    ASSUME NEW S, NEW s \in Seq(S)
    PROVE  Len(s) \in Nat /\ s \in [1 .. Len(s) -> S] /\ DOMAIN s = 1 .. Len(s)
  OBVIOUS

LEMMA SeqEmpty ==
    ASSUME NEW S
    PROVE  /\ <<>> \in Seq(S) /\ Len(<<>>) = 0
           /\ \A s \in Seq(S) : s # <<>> => Len(s) \in Nat \ {0}
  OBVIOUS

-----------------------------------------------------------------------------
(* Queues: what removing and adding commands does to them. *)

\* ActivatesPaired for queue k, were it s.
PairedIn(k, s) ==
    \A i \in DOMAIN s :
        /\ QueueOf[s[i].bank] = k
        /\ s[i].act => /\ i + 1 \in DOMAIN s
                       /\ ~ s[i + 1].act
                       /\ SameRow(s[i], s[i + 1])

\* OrphanRowOpen and OrphanNext for a queue s, open rows o and counters c.
ServedIn(s, o, c) ==
    \A i \in DOMAIN s :
        Orphan(s, i) => /\ o[s[i].bank] = s[i].row
                        /\ First(s, i)
                        /\ c[s[i].bank] <= 1

\* What pop takes from a queue: an ACTIVATE, a column command whose ACTIVATE has
\* gone, or an ACTIVATE together with its column command.
Takes(s, first, last) ==
    \/ first = last /\ (s[first].act \/ Orphan(s, first))
    \/ last = first + 1 /\ s[first].act

\* Where command j of the queue that is left was before.
Old(first, last, j) == IF j < first THEN j ELSE j + (last - first + 1)

\* Taking commands keeps the others paired, keeps the oldest access to a row
\* the oldest, and makes no new orphan but the access of a taken ACTIVATE.
LeavesGood(k, s, first, last, t) ==
    /\ PairedIn(k, t)
    /\ \A j \in DOMAIN t :
          LET i == Old(first, last, j)
          IN  /\ i \in DOMAIN s /\ t[j] = s[i] /\ i \notin first .. last
              /\ First(s, i) => First(t, j)
              /\ Orphan(t, j) => \/ Orphan(s, i)
                                 \/ first = last /\ s[first].act /\ i = first + 1

-----------------------------------------------------------------------------
(* All queues at once: the parts of IInv about queues q, open rows o and       *)
(* counters c.  A step first takes commands, then possibly adds a pair.        *)

QueuesGood(q, o, c) ==
    /\ q \in [Queue -> Seq(Command)]
    /\ \A k \in Queue : /\ Len(q[k]) <= Depth
                         /\ PairedIn(k, q[k])
                         /\ ServedIn(q[k], o, c)

\* OpenForAccess for queues q and open rows o.
UsedIn(q, o) ==
    AutoPrecharge =>
        \A b \in Bank : o[b] # Closed =>
            \E i \in DOMAIN q[QueueOf[b]] :
                Orphan(q[QueueOf[b]], i) /\ q[QueueOf[b]][i].bank = b

\* The invariant, restated of the queues, the open rows and the counters.
LEMMA IInvQueuesGood ==
    IInv <=> /\ QueuesGood(queue, open, counter)
             /\ open \in [Bank -> Row \cup {Closed}]
             /\ counter \in [Bank -> Nat]
             /\ CounterOfOpenRow
             /\ UsedIn(queue, open)
BY DEF IInv, TypeOK, WithinDepth, ActivatesPaired, OrphanRowOpen, OrphanNext,
       OpenForAccess, QueuesGood, PairedIn, ServedIn, UsedIn

\* A column command whose ACTIVATE is not in front of it is an orphan.
LEMMA UnpairedOrphan ==
    ASSUME QueuesGood(queue, open, counter),
           NEW k \in Queue, NEW i \in DOMAIN queue[k],
           ~ queue[k][i].act, ~ Paired(queue[k], i)
    PROVE  Orphan(queue[k], i)
<1>1. DOMAIN queue[k] = 1 .. Len(queue[k]) /\ Len(queue[k]) \in Nat
  BY SeqDomain, Zenon DEF QueuesGood
<1>2. CASE i = 1
  BY <1>2, Zenon DEF Orphan
<1>3. CASE i > 1
  <2>1. i - 1 \in DOMAIN queue[k] /\ (i - 1) + 1 = i
    BY <1>1, <1>3
  <2>2. ~ queue[k][i - 1].act
    BY <1>3, <2>1, Zenon DEF QueuesGood, PairedIn, Paired
  <2> QED
    BY <2>2, Zenon DEF Orphan
<1> QED
  BY <1>1, <1>2, <1>3
-----------------------------------------------------------------------------
(* Every step keeps the invariant: one lemma per command. *)

-----------------------------------------------------------------------------
(* The theorems *)

\* The invariant holds when the queues are empty and every row is closed.
LEMMA InitGood == Init => IInv
<1> SUFFICES ASSUME Init PROVE IInv
  BY Zenon
<1>1. \A k \in Queue : queue[k] = <<>>
  BY Zenon DEF Init
<1>2. queue \in [Queue -> Seq(Command)]
  BY SeqEmpty, Zenon DEF Init
<1>3. \A k \in Queue : Len(queue[k]) = 0 /\ DOMAIN queue[k] = {}
  BY <1>1
<1>4. QueuesGood(queue, open, counter)
  BY <1>2, <1>3, QueueAssumption DEF QueuesGood, PairedIn, ServedIn
<1>5. CounterOfOpenRow
  <2>1. \A b \in Bank : counter[b] = 0
    BY Zenon DEF Init
  <2>2. 0 <= Accesses
    BY AccessAssumption
  <2> QED
    BY <2>1, <2>2, Zenon DEF CounterOfOpenRow
<1>6. UsedIn(queue, open)
  BY Zenon DEF Init, UsedIn
<1> QED
  BY <1>4, <1>5, <1>6, IInvQueuesGood, Zenon DEF Init

\* Every step of the scheduler keeps the invariant.
LEMMA NextKeeps ==
    IInv /\ [Next]_vars => IInv'
<1>SeqConcat.
    ASSUME NEW S, NEW s \in Seq(S), NEW t \in Seq(S)
    PROVE  /\ s \o t \in Seq(S) /\ Len(s \o t) = Len(s) + Len(t)
           /\ \A i \in 1 .. Len(s) + Len(t) :
                 (s \o t)[i] = IF i <= Len(s) THEN s[i] ELSE t[i - Len(s)]
    BY <1>SeqConcat

\* Cut removes the commands first .. last and keeps the order of the others.
<1>CutShape.
    ASSUME NEW s \in Seq(Command),
           NEW first \in DOMAIN s, NEW last \in DOMAIN s, first <= last
    PROVE  /\ Cut(s, first, last) \in Seq(Command)
           /\ Len(Cut(s, first, last)) = Len(s) - (last - first + 1)
           /\ DOMAIN Cut(s, first, last) = 1 .. Len(s) - (last - first + 1)
           /\ \A j \in 1 .. Len(s) - (last - first + 1) :
                 Cut(s, first, last)[j] =
                   IF j < first THEN s[j] ELSE s[j + (last - first + 1)]
  <2> USE <1>CutShape
  <2> DEFINE n == Len(s) - (last - first + 1)
  <2>1. /\ Len(s) \in Nat /\ DOMAIN s = 1 .. Len(s)
        /\ \A j \in 1 .. Len(s) : s[j] \in Command
    BY SeqDomain, SeqElement, Zenon
  <2>2. n \in Nat
    BY <2>1
  <2>3. \A j \in 1 .. n : Cut(s, first, last)[j] =
                            IF j < first THEN s[j] ELSE s[j + (last - first + 1)]
    BY Zenon DEF Cut
  <2>4. \A j \in 1 .. n : Cut(s, first, last)[j] \in Command
    <3>1. \A j \in 1 .. n : /\ j \in 1 .. Len(s)
                            /\ j >= first => j + (last - first + 1) \in 1 .. Len(s)
                            /\ j < first \/ j >= first
      BY <2>1, <2>2
    <3> HIDE DEF n
    <3> QED BY <2>1, <2>3, <3>1, Zenon
  <2>5. Cut(s, first, last) \in [1 .. n -> Command]
    BY <2>4, Zenon DEF Cut
  <2>6. PICK m : m = n
    BY Zenon
  <2>7. PICK t : t = Cut(s, first, last)
    BY Zenon
  <2>8. m \in Nat /\ t \in [1 .. m -> Command]
    BY <2>2, <2>5, <2>6, <2>7, Zenon
  <2>9. t \in Seq(Command) /\ Len(t) = m /\ DOMAIN t = 1 .. m
    <3> HIDE <2>1, <2>2, <2>3, <2>4, <2>5, <2>6, <2>7 DEF n
    <3> QED BY <2>8
  <2> QED
    BY <2>3, <2>6, <2>7, <2>9, Zenon

\* The command in front of what is taken is not an ACTIVATE.
<1>NotBehindActivate.
    ASSUME NEW k \in Queue, NEW s \in Seq(Command), PairedIn(k, s),
           NEW first \in DOMAIN s, NEW last \in DOMAIN s, Takes(s, first, last),
           first > 1
    PROVE  ~ s[first - 1].act
  <2> USE <1>NotBehindActivate
  <2> SUFFICES ASSUME s[first - 1].act PROVE FALSE
    BY Zenon
  <2>1. Len(s) \in Nat /\ DOMAIN s = 1 .. Len(s)
    BY SeqDomain, Zenon
  <2>2. first - 1 \in DOMAIN s /\ (first - 1) + 1 = first /\ first # 1
    BY <2>1
  <2>3. ~ s[first].act
    BY <2>2, Zenon DEF PairedIn
  <2> QED
    BY <2>2, <2>3, Zenon DEF Takes, Orphan

\* Taking a command, or a hit with its ACTIVATE, leaves a well-paired queue.
<1>CutKeeps.
    ASSUME NEW k \in Queue, NEW s \in Seq(Command), PairedIn(k, s),
           NEW first \in DOMAIN s, NEW last \in DOMAIN s, Takes(s, first, last)
    PROVE  LeavesGood(k, s, first, last, Cut(s, first, last))
  <2> USE <1>CutKeeps
  <2> DEFINE w == last - first + 1
             t == Cut(s, first, last)
             old(j) == IF j < first THEN j ELSE j + w
  <2>1. Len(s) \in Nat /\ DOMAIN s = 1 .. Len(s)
    BY SeqDomain, Zenon
  <2>2. /\ first \in Int /\ last \in Int /\ first <= last /\ w \in {1, 2}
        /\ 1 <= first /\ last = first + w - 1 /\ last <= Len(s)
    BY <2>1 DEF Takes
  <2>3. /\ DOMAIN t = 1 .. Len(s) - w
        /\ \A j \in DOMAIN t : t[j] = s[old(j)]
    BY <2>2, <1>CutShape, ZenonT(30)
  <2> HIDE DEF w, t
  <2>4. \A j \in DOMAIN t : /\ j \in Int /\ 1 <= j /\ old(j) \in DOMAIN s
                            /\ old(j) \notin first .. last
    BY <2>1, <2>2, <2>3
  <2>5. first > 1 => ~ s[first - 1].act
    BY <1>NotBehindActivate, Zenon
  <2>6. PairedIn(k, t)
    <3> SUFFICES ASSUME NEW j \in DOMAIN t
                 PROVE  /\ QueueOf[t[j].bank] = k
                        /\ t[j].act => /\ j + 1 \in DOMAIN t
                                       /\ ~ t[j + 1].act
                                       /\ SameRow(t[j], t[j + 1])
      BY Zenon DEF PairedIn
    <3>1. old(j) \in DOMAIN s /\ t[j] = s[old(j)]
      BY <2>3, <2>4, Zenon
    <3>2. QueueOf[t[j].bank] = k
      BY <3>1, Zenon DEF PairedIn
    <3>3. ASSUME t[j].act
          PROVE  /\ j + 1 \in DOMAIN t /\ ~ t[j + 1].act
                 /\ SameRow(t[j], t[j + 1])
      <4>1. /\ old(j) + 1 \in DOMAIN s /\ ~ s[old(j) + 1].act
            /\ SameRow(s[old(j)], s[old(j) + 1])
        BY <3>1, <3>3, Zenon DEF PairedIn
      <4>2. j # first - 1
        BY <2>2, <2>4, <2>5, <3>1, <3>3
      <4>3. old(j + 1) = old(j) + 1 /\ j + 1 \in DOMAIN t
        <5>1. j \in Int /\ 1 <= j
          BY <2>4, Zenon
        <5>2. old(j + 1) = old(j) + 1
          BY <2>2, <4>2, <5>1
        <5>3. old(j) + 1 <= Len(s)
          BY <2>1, <4>1
        <5>4. j + 1 <= Len(s) - w
          BY <2>1, <2>2, <4>2, <5>1, <5>3
        <5> QED BY <2>1, <2>2, <2>3, <5>1, <5>2, <5>4
      <4>4. t[j + 1] = s[old(j + 1)]
        BY <2>3, <4>3, Zenon
      <4>5. t[j + 1] = s[old(j) + 1]
        BY <4>3, <4>4
      <4> QED
        BY <3>1, <4>1, <4>3, <4>5, Zenon
    <3> QED
      BY <3>2, <3>3, Zenon
  <2>7. ASSUME NEW j \in DOMAIN t, First(s, old(j))
        PROVE  First(t, j)
    <3> SUFFICES ASSUME NEW i \in 1 .. j - 1
                 PROVE  t[i].act \/ ~ SameRow(t[i], t[j])
      BY Zenon DEF First
    <3>1. i \in DOMAIN t /\ old(i) \in 1 .. old(j) - 1
      BY <2>1, <2>2, <2>3, <2>4
    <3>2. t[i] = s[old(i)] /\ t[j] = s[old(j)]
      BY <2>3, <3>1, Zenon
    <3> QED
      BY <2>7, <3>1, <3>2, Zenon DEF First
  <2>8. ASSUME NEW j \in DOMAIN t, Orphan(t, j)
        PROVE  \/ Orphan(s, old(j))
               \/ first = last /\ s[first].act /\ old(j) = first + 1
    <3>1. ~ s[old(j)].act /\ (j = 1 \/ ~ t[j - 1].act)
      BY <2>3, <2>8, Zenon DEF Orphan
    <3>2. CASE j # first
      <4>1. j > 1 => j - 1 \in DOMAIN t /\ old(j - 1) = old(j) - 1
        BY <2>1, <2>2, <2>3, <2>4, <3>2
      <4>2. j = 1 => old(j) = 1
        BY <2>2, <3>2
      <4> QED
        BY <2>3, <2>4, <3>1, <4>1, <4>2 DEF Orphan
    <3>3. CASE j = first
      <4>1. old(j) - 1 = last /\ old(j) = last + 1
        BY <2>2, <3>3
      <4>2. CASE ~ s[last].act
        BY <3>1, <4>1, <4>2, Zenon DEF Orphan
      <4>3. CASE s[last].act
        <5>1. first = last
          BY <2>1, <2>2, <4>3, Zenon DEF Takes, PairedIn
        <5> QED
          BY <4>1, <4>3, <5>1, Zenon
      <4> QED
        BY <4>2, <4>3, Zenon
    <3> QED
      BY <3>2, <3>3, Zenon
  <2> QED
    BY <2>3, <2>4, <2>6, <2>7, <2>8, Zenon DEF LeavesGood, Old, w, t

\* An orphan that is not taken stays an orphan; the access of an ACTIVATE that
\* is taken becomes one.
<1>CutKeepsOrphans.
    ASSUME NEW k \in Queue, NEW s \in Seq(Command), PairedIn(k, s),
           NEW first \in DOMAIN s, NEW last \in DOMAIN s, Takes(s, first, last),
           NEW j \in DOMAIN s, j \notin first .. last,
           Orphan(s, j) \/ (first = last /\ s[first].act /\ j = first + 1)
    PROVE  \E i \in DOMAIN Cut(s, first, last) :
              /\ Orphan(Cut(s, first, last), i)
              /\ Cut(s, first, last)[i] = s[j]
  <2> USE <1>CutKeepsOrphans
  <2> DEFINE w == last - first + 1
             t == Cut(s, first, last)
  <2> SUFFICES \E i \in DOMAIN t : Orphan(t, i) /\ t[i] = s[j]
    BY Zenon
  <2>1. Len(s) \in Nat /\ DOMAIN s = 1 .. Len(s)
    BY SeqDomain, Zenon
  <2>2. /\ first \in Int /\ last \in Int /\ first <= last /\ w \in {1, 2}
        /\ 1 <= first /\ last = first + w - 1 /\ last <= Len(s)
        /\ j \in Int /\ 1 <= j /\ j <= Len(s)
    BY <2>1 DEF Takes
  <2>3. /\ DOMAIN t = 1 .. Len(s) - w
        /\ \A i \in 1 .. Len(s) - w : t[i] = IF i < first THEN s[i] ELSE s[i + w]
    BY <2>2, <1>CutShape, ZenonT(30)
  <2>4. first > 1 => ~ s[first - 1].act
    BY <1>NotBehindActivate, Zenon
  <2> HIDE DEF w, t
  <2>5. ~ s[j].act
    BY Zenon DEF Orphan, PairedIn
  <2>6. CASE j < first
    <3>1. j \in DOMAIN t /\ t[j] = s[j] /\ (j > 1 => t[j - 1] = s[j - 1])
      <4>1. /\ j \in 1 .. Len(s) - w
            /\ j > 1 => j - 1 \in 1 .. Len(s) - w /\ j - 1 < first
        BY <2>1, <2>2, <2>6
      <4> QED BY <2>3, <2>6, <4>1, Zenon
    <3>2. j = 1 \/ ~ s[j - 1].act
      BY <2>2, <2>6 DEF Orphan
    <3>3. j = 1 \/ j > 1
      BY <2>2
    <3>4. Orphan(t, j)
      BY <2>5, <3>1, <3>2, <3>3, Zenon DEF Orphan
    <3> QED
      BY <3>1, <3>4, Zenon
  <2>7. CASE j > last
    <3> DEFINE i == j - w
    <3>1. i \in DOMAIN t /\ t[i] = s[j] /\ i >= first /\ i \in Int
      <4>1. /\ i \in 1 .. Len(s) - w /\ i >= first /\ ~ (i < first) /\ i \in Int
            /\ i + w = j
        BY <2>1, <2>2, <2>7
      <4> HIDE DEF i
      <4> QED
        BY <2>3, <4>1, Zenon
    <3>2. CASE i > first
      <4>1. t[i - 1] = s[j - 1] /\ j # 1
        <5>1. /\ i - 1 \in 1 .. Len(s) - w /\ ~ (i - 1 < first) /\ i - 1 + w = j - 1
              /\ j # 1
          BY <2>1, <2>2, <2>7, <3>2
        <5> HIDE DEF i
        <5> QED BY <2>3, <5>1, Zenon
      <4>2. ~ s[j - 1].act
        BY <2>2, <3>2, <4>1 DEF Orphan
      <4> QED
        BY <2>5, <3>1, <4>1, <4>2, Zenon DEF Orphan
    <3>3. CASE i = first
      <4>1. first > 1 => t[i - 1] = s[first - 1]
        <5>1. first > 1 => first - 1 \in 1 .. Len(s) - w /\ first - 1 < first
          BY <2>1, <2>2
        <5> QED
          BY <2>3, <3>3, <5>1, Zenon
      <4>2. first = 1 \/ first > 1
        BY <2>2
      <4> HIDE DEF i
      <4>3. i = 1 \/ ~ t[i - 1].act
        BY <2>4, <3>3, <4>1, <4>2, Zenon
      <4>4. Orphan(t, i)
        BY <2>5, <3>1, <4>3, Zenon DEF Orphan
      <4> QED
        BY <3>1, <4>4, Zenon
    <3>4. i > first \/ i = first
      BY <2>2, <3>1
    <3> QED
      BY <3>2, <3>3, <3>4, Zenon
  <2>8. j < first \/ j > last
    BY <2>2
  <2> QED
    BY <2>6, <2>7, <2>8, Zenon

\* A transaction joins a queue as a pair; it makes no orphan and is younger than
\* every command in the queue.
<1>AppendKeeps.
    ASSUME NEW k \in Queue, NEW s \in Seq(Command), PairedIn(k, s),
           NEW o, NEW c, ServedIn(s, o, c),
           NEW b \in Bank, NEW r \in Row, QueueOf[b] = k
    PROVE  LET t == s \o << [act |-> TRUE, bank |-> b, row |-> r],
                            [act |-> FALSE, bank |-> b, row |-> r] >>
           IN  /\ t \in Seq(Command) /\ Len(t) = Len(s) + 2
               /\ PairedIn(k, t) /\ ServedIn(t, o, c)
  <2> USE <1>AppendKeeps
  <2> DEFINE a == [act |-> TRUE, bank |-> b, row |-> r]
             d == [act |-> FALSE, bank |-> b, row |-> r]
             t == s \o <<a, d>>
  <2>1. a \in Command /\ d \in Command
    BY Zenon DEF Command
  <2>2. <<a, d>> \in Seq(Command) /\ Len(<<a, d>>) = 2
    BY <2>1
  <2>3. Len(s) \in Nat /\ DOMAIN s = 1 .. Len(s)
    BY SeqDomain, Zenon
  <2>4. /\ t \in Seq(Command) /\ Len(t) = Len(s) + 2
        /\ \A i \in 1 .. Len(s) + 2 :
              t[i] = IF i <= Len(s) THEN s[i] ELSE <<a, d>>[i - Len(s)]
    BY <2>2, <1>SeqConcat, Zenon
  <2>5. /\ DOMAIN t = 1 .. Len(s) + 2
        /\ \A i \in DOMAIN s : i \in DOMAIN t /\ t[i] = s[i]
        /\ t[Len(s) + 1] = a /\ t[Len(s) + 2] = d
        /\ \A i \in DOMAIN t : i \in DOMAIN s \/ i = Len(s) + 1 \/ i = Len(s) + 2
    BY <2>2, <2>3, <2>4, SeqDomain
  <2>6. /\ a.act = TRUE /\ d.act = FALSE /\ a.bank = b /\ d.bank = b
        /\ SameRow(a, d)
    BY Zenon DEF SameRow
  <2> HIDE DEF t, a, d
  <2>7. PairedIn(k, t)
    <3> SUFFICES ASSUME NEW i \in DOMAIN t
                 PROVE  /\ QueueOf[t[i].bank] = k
                        /\ t[i].act => /\ i + 1 \in DOMAIN t
                                       /\ ~ t[i + 1].act
                                       /\ SameRow(t[i], t[i + 1])
      BY Zenon DEF PairedIn
    <3>1. CASE i \in DOMAIN s
      BY <2>5, <3>1, Zenon DEF PairedIn
    <3>2. CASE i = Len(s) + 1
      <4>1. i + 1 = Len(s) + 2 /\ i + 1 \in DOMAIN t
        BY <2>3, <2>5, <3>2
      <4> QED
        BY <2>5, <2>6, <3>2, <4>1, Zenon
    <3>3. CASE i = Len(s) + 2
      BY <2>5, <2>6, <3>3, Zenon
    <3> QED
      BY <2>5, <3>1, <3>2, <3>3, Zenon
  <2>8. ServedIn(t, o, c)
    <3> SUFFICES ASSUME NEW i \in DOMAIN t, Orphan(t, i)
                 PROVE  /\ o[t[i].bank] = t[i].row /\ First(t, i)
                        /\ c[t[i].bank] <= 1
      BY Zenon DEF ServedIn
    <3>1. CASE i \in DOMAIN s
      <4>1. i \in Int /\ \A j \in 1 .. i - 1 : j \in DOMAIN s
        BY <2>3, <3>1
      <4>2. i > 1 => i - 1 \in DOMAIN s
        BY <2>3, <3>1
      <4>3. i = 1 \/ i > 1
        BY <2>3, <3>1
      <4>4. Orphan(s, i)
        BY <2>5, <3>1, <4>2, <4>3, Zenon DEF Orphan
      <4>5. First(t, i)
        BY <2>5, <3>1, <4>1, <4>4, Zenon DEF ServedIn, First
      <4> QED
        BY <2>5, <3>1, <4>4, <4>5, Zenon DEF ServedIn
    <3>2. CASE i = Len(s) + 1
      BY <2>5, <2>6, <3>2, Zenon DEF Orphan
    <3>3. CASE i = Len(s) + 2
      <4>1. i # 1 /\ i - 1 = Len(s) + 1
        BY <2>3, <3>3
      <4> QED
        BY <2>5, <2>6, <4>1, Zenon DEF Orphan
    <3> QED
      BY <2>5, <3>1, <3>2, <3>3, Zenon
  <2> QED
    BY <2>4, <2>7, <2>8, Zenon DEF t, a, d

\* The restatement, after a step, gives the invariant back.
<1>IInvAfter.
    ASSUME QueuesGood(queue', open', counter'),
           open' \in [Bank -> Row \cup {Closed}],
           counter' \in [Bank -> Nat],
           CounterOfOpenRow', UsedIn(queue', open')
    PROVE  IInv'
  BY <1>IInvAfter DEF IInv, TypeOK, WithinDepth, ActivatesPaired, OrphanRowOpen, OrphanNext,
         OpenForAccess, QueuesGood, PairedIn, ServedIn, UsedIn

\* Splitting a transaction into commands keeps the queues good.
<1>EnqueueKeeps.
    ASSUME NEW q, NEW o, NEW c, QueuesGood(q, o, c), Enqueue(q)
    PROVE  QueuesGood(queue', o, c)
  <2> USE <1>EnqueueKeeps
  <2>1. CASE queue' = q
    BY <2>1, Zenon
  <2>2. ASSUME NEW b \in Bank, NEW r \in Row,
               Len(q[QueueOf[b]]) + 2 <= Depth, queue' = Enqueued(q, b, r)
        PROVE  QueuesGood(queue', o, c)
    <3> DEFINE k == QueueOf[b]
               t == q[k] \o << [act |-> TRUE, bank |-> b, row |-> r],
                               [act |-> FALSE, bank |-> b, row |-> r] >>
    <3>1. k \in Queue /\ q[k] \in Seq(Command)
      BY QueueAssumption, Zenon DEF QueuesGood
    <3>2. PairedIn(k, q[k]) /\ ServedIn(q[k], o, c)
      BY <3>1, Zenon DEF QueuesGood
    <3>3. /\ t \in Seq(Command) /\ Len(t) = Len(q[k]) + 2
          /\ PairedIn(k, t) /\ ServedIn(t, o, c)
      BY <3>1, <3>2, <1>AppendKeeps, Zenon
    <3>4. queue' = [q EXCEPT ![k] = t]
      BY <2>2, Zenon DEF Enqueued
    <3> HIDE DEF k, t
    <3>5. Len(q[k]) + 2 <= Depth
      BY <2>2, Zenon DEF k
    <3>6. queue' \in [Queue -> Seq(Command)]
      BY <3>1, <3>3, <3>4, Zenon DEF QueuesGood
    <3>7. queue'[k] = t /\ \A l \in Queue : l # k => queue'[l] = q[l]
      BY <3>1, <3>4, Zenon DEF QueuesGood
    <3> QED
      BY <3>3, <3>5, <3>6, <3>7, Zenon DEF QueuesGood
  <2> QED
    BY <2>1, <2>2, Zenon DEF Enqueue

\* A transaction that joins a queue leaves its orphans where they are.
<1>EnqueueKeepsUsed.
    ASSUME NEW q, NEW o, NEW c, QueuesGood(q, o, c), UsedIn(q, o), Enqueue(q)
    PROVE  UsedIn(queue', o)
  <2> USE <1>EnqueueKeepsUsed
  <2>1. CASE queue' = q
    BY <2>1, Zenon
  <2>2. ASSUME NEW b \in Bank, NEW r \in Row, queue' = Enqueued(q, b, r),
               AutoPrecharge, NEW d \in Bank, o[d] # Closed
        PROVE  \E i \in DOMAIN queue'[QueueOf[d]] :
                  Orphan(queue'[QueueOf[d]], i) /\ queue'[QueueOf[d]][i].bank = d
    <3> DEFINE k == QueueOf[b]
               l == QueueOf[d]
               pair == << [act |-> TRUE, bank |-> b, row |-> r],
                          [act |-> FALSE, bank |-> b, row |-> r] >>
    <3>1. /\ k \in Queue /\ l \in Queue /\ q \in [Queue -> Seq(Command)]
          /\ queue' = [q EXCEPT ![k] = q[k] \o pair]
      BY <2>2, QueueAssumption, Zenon DEF QueuesGood, Enqueued
    <3>2. pair \in Seq(Command) /\ Len(pair) = 2
      BY DEF Command
    <3>3. PICK i \in DOMAIN q[l] : Orphan(q[l], i) /\ q[l][i].bank = d
      BY <2>2, Zenon DEF UsedIn
    <3> HIDE DEF pair, k, l
    <3>4. q[l] \in Seq(Command) /\ Len(q[l]) \in Nat /\ DOMAIN q[l] = 1 .. Len(q[l])
      BY <3>1, SeqDomain, Zenon
    <3>5. \A j \in DOMAIN q[l] : j \in DOMAIN queue'[l] /\ queue'[l][j] = q[l][j]
      <4>1. CASE l # k
        BY <3>1, <4>1, Zenon
      <4>2. CASE l = k
        <5>1. queue'[l] = q[l] \o pair
          BY <3>1, <4>2, Zenon
        <5> QED
          BY <3>2, <3>4, <5>1, <1>SeqConcat, SeqDomain
      <4> QED
        BY <4>1, <4>2, Zenon
    <3>6. i = 1 \/ i - 1 \in DOMAIN q[l]
      BY <3>4
    <3>7. Orphan(queue'[l], i) /\ queue'[l][i].bank = d /\ i \in DOMAIN queue'[l]
      BY <3>3, <3>5, <3>6, Zenon DEF Orphan
    <3> QED
      BY <3>7, Zenon DEF l
  <2> QED
    BY <2>1, <2>2, Zenon DEF Enqueue, UsedIn

\* Taking commands from queue k keeps the queues good for new open rows o and
\* counters c, if these still serve the orphans that stay behind and serve the
\* access of a taken ACTIVATE.
<1>TakeKeeps.
    ASSUME QueuesGood(queue, open, counter),
           NEW k \in Queue,
           NEW first \in DOMAIN queue[k], NEW last \in DOMAIN queue[k],
           Takes(queue[k], first, last), NEW o, NEW c,
           \A l \in Queue : \A j \in DOMAIN queue[l] :
              Orphan(queue[l], j) /\ ~ (l = k /\ j \in first .. last) =>
                 /\ o[queue[l][j].bank] = queue[l][j].row
                 /\ c[queue[l][j].bank] <= 1,
           first = last /\ queue[k][first].act =>
              /\ o[queue[k][first].bank] = queue[k][first].row
              /\ c[queue[k][first].bank] <= 1
              /\ First(queue[k], first)
    PROVE  QueuesGood([queue EXCEPT ![k] = Cut(queue[k], first, last)], o, c)
  <2> USE <1>TakeKeeps
  <2> DEFINE s == queue[k]
             t == Cut(s, first, last)
  <2>1. s \in Seq(Command) /\ PairedIn(k, s) /\ Len(s) <= Depth
    BY Zenon DEF QueuesGood
  <2>2. Len(s) \in Nat /\ DOMAIN s = 1 .. Len(s)
    BY <2>1, SeqDomain, Zenon
  <2>3. first \in Int /\ last \in Int /\ first <= last
    BY <2>2 DEF Takes
  <2>4. t \in Seq(Command) /\ Len(t) <= Depth
    <3>1. t \in Seq(Command) /\ Len(t) = Len(s) - (last - first + 1)
      BY <2>1, <2>3, <1>CutShape, Zenon
    <3> HIDE DEF s, t
    <3> QED BY <2>1, <2>2, <2>3, <3>1, QueueAssumption
  <2>5. LeavesGood(k, s, first, last, t)
    BY <2>1, <1>CutKeeps, Zenon
  <2> HIDE DEF t
  <2>6. ServedIn(t, o, c)
    <3> SUFFICES ASSUME NEW j \in DOMAIN t, Orphan(t, j)
                 PROVE  /\ o[t[j].bank] = t[j].row /\ First(t, j)
                        /\ c[t[j].bank] <= 1
      BY Zenon DEF ServedIn
    <3>1. CASE Orphan(s, Old(first, last, j))
      <4>1. First(s, Old(first, last, j))
        BY <2>5, <3>1, Zenon DEF LeavesGood, QueuesGood, ServedIn
      <4> QED
        BY <2>5, <3>1, <4>1, Zenon DEF LeavesGood
    <3>2. CASE first = last /\ s[first].act /\ Old(first, last, j) = first + 1
      <4>1. /\ SameRow(s[first], s[first + 1]) /\ ~ s[first + 1].act
            /\ t[j] = s[first + 1]
        BY <2>1, <2>5, <3>2, Zenon DEF LeavesGood, PairedIn
      <4>2. First(s, first + 1)
        <5> SUFFICES ASSUME NEW i \in 1 .. first
                     PROVE  s[i].act \/ ~ SameRow(s[i], s[first + 1])
          BY <2>3 DEF First
        <5>1. CASE i = first
          BY <3>2, <5>1, Zenon
        <5>2. CASE i # first
          <6>1. i \in 1 .. first - 1
            BY <2>3, <5>2
          <6> QED
            BY <3>2, <4>1, <6>1, Zenon DEF First, SameRow
        <5> QED
          BY <5>1, <5>2, Zenon
      <4>3. First(t, j)
        BY <2>5, <3>2, <4>2, Zenon DEF LeavesGood
      <4> QED
        BY <3>2, <4>1, <4>3, Zenon DEF SameRow
    <3> QED
      BY <2>5, <3>1, <3>2, Zenon DEF LeavesGood
  <2>7. ASSUME NEW l \in Queue, l # k
        PROVE  ServedIn(queue[l], o, c)
    BY <2>7, Zenon DEF QueuesGood, ServedIn
  <2> QED
    BY <2>1, <2>4, <2>5, <2>6, <2>7, Zenon DEF LeavesGood, QueuesGood, t

\* Taking commands leaves an orphan for every bank that stays open, if it had
\* one that is not taken or is opened by the ACTIVATE that is taken.
<1>TakeKeepsUsed.
    ASSUME QueuesGood(queue, open, counter),
           NEW k \in Queue,
           NEW first \in DOMAIN queue[k], NEW last \in DOMAIN queue[k],
           Takes(queue[k], first, last), NEW o,
           AutoPrecharge => \A b \in Bank : o[b] # Closed =>
              \/ first = last /\ queue[k][first].act /\ queue[k][first].bank = b
              \/ \E j \in DOMAIN queue[QueueOf[b]] :
                    /\ Orphan(queue[QueueOf[b]], j)
                    /\ queue[QueueOf[b]][j].bank = b
                    /\ ~ (QueueOf[b] = k /\ j \in first .. last)
    PROVE  UsedIn([queue EXCEPT ![k] = Cut(queue[k], first, last)], o)
  <2> USE <1>TakeKeepsUsed
  <2> DEFINE s == queue[k]
             t == Cut(s, first, last)
             q == [queue EXCEPT ![k] = t]
  <2> SUFFICES ASSUME AutoPrecharge, NEW b \in Bank, o[b] # Closed
               PROVE  \E i \in DOMAIN q[QueueOf[b]] :
                         Orphan(q[QueueOf[b]], i) /\ q[QueueOf[b]][i].bank = b
    BY Zenon DEF UsedIn
  <2>1. s \in Seq(Command) /\ PairedIn(k, s) /\ QueueOf[b] \in Queue
    BY QueueAssumption, Zenon DEF QueuesGood
  <2>2. Len(s) \in Nat /\ DOMAIN s = 1 .. Len(s)
    BY <2>1, SeqDomain, Zenon
  <2>3. q[k] = t /\ \A l \in Queue : l # k => q[l] = queue[l]
    BY Zenon DEF QueuesGood
  <2> HIDE DEF t, q
  <2>4. CASE QueueOf[b] # k
    <3>1. k # QueueOf[b] /\ ~ (s[first].bank = b)
      BY <2>4, <2>1, Zenon DEF PairedIn
    <3> QED
      BY <2>1, <2>3, <2>4, <3>1, Zenon
  <2>5. ASSUME QueueOf[b] = k, NEW j \in DOMAIN s, j \notin first .. last,
               s[j].bank = b,
               Orphan(s, j) \/ (first = last /\ s[first].act /\ j = first + 1)
        PROVE  \E i \in DOMAIN q[QueueOf[b]] :
                  Orphan(q[QueueOf[b]], i) /\ q[QueueOf[b]][i].bank = b
    <3>1. \E i \in DOMAIN t : Orphan(t, i) /\ t[i] = s[j]
      BY <2>1, <2>5, <1>CutKeepsOrphans DEF t
    <3> QED
      BY <2>3, <2>5, <3>1
  <2>6. CASE QueueOf[b] = k /\ first = last /\ s[first].act /\ s[first].bank = b
    <3>1. first + 1 \in DOMAIN s /\ s[first + 1].bank = b
      BY <2>1, <2>6, Zenon DEF PairedIn, SameRow
    <3>2. first + 1 \notin first .. last
      BY <2>2, <2>6
    <3> QED
      BY <2>5, <2>6, <3>1, <3>2, Zenon
  <2> QED
    BY <2>4, <2>5, <2>6, Zenon

\* The oldest access to the open row of a bank is the only orphan that bank can
\* have.
<1>OnlyOrphan.
    ASSUME QueuesGood(queue, open, counter),
           NEW k \in Queue, NEW i \in DOMAIN queue[k],
           ~ queue[k][i].act, First(queue[k], i),
           open[queue[k][i].bank] = queue[k][i].row,
           NEW l \in Queue, NEW j \in DOMAIN queue[l], Orphan(queue[l], j),
           queue[l][j].bank = queue[k][i].bank
    PROVE  l = k /\ j = i
  <2> USE <1>OnlyOrphan
  <2>1. l = k
    BY DEF QueuesGood, PairedIn
  <2>2. SameRow(queue[k][i], queue[l][j]) /\ SameRow(queue[l][j], queue[k][i])
    BY Zenon DEF QueuesGood, ServedIn, SameRow
  <2>3. First(queue[l], j) /\ ~ queue[l][j].act
    BY Zenon DEF QueuesGood, ServedIn, Orphan
  <2>4. DOMAIN queue[k] = 1 .. Len(queue[k]) /\ Len(queue[k]) \in Nat
    BY SeqDomain, Zenon DEF QueuesGood
  <2>5. i \in 1 .. j - 1 \/ j \in 1 .. i - 1 \/ i = j
    BY <2>1, <2>4
  <2> QED
    BY <2>1, <2>2, <2>3, <2>5, Zenon DEF First

\* Sending an ACTIVATE keeps the invariant: its access becomes the orphan of the
\* row it opens.
<1>ActivateKeeps.
    ASSUME IInv, NEW k \in Queue, NEW i \in DOMAIN queue[k], Activate(k, i)
    PROVE  IInv'
  <2> USE <1>ActivateKeeps
  <2> DEFINE b == queue[k][i].bank
             r == queue[k][i].row
  <2>1. QueuesGood(queue, open, counter)
    BY IInvQueuesGood, Zenon
  <2>2. queue[k][i] \in Command
    BY <2>1, SeqElement, SeqDomain, Zenon DEF QueuesGood
  <2>3. b \in Bank /\ r \in Row
    BY <2>2, Zenon DEF Command
  <2>4. /\ queue[k][i].act /\ open[b] = Closed /\ First(queue[k], i)
        /\ open' = [open EXCEPT ![b] = r]
        /\ counter' = IF AutoPrecharge THEN counter
                      ELSE [counter EXCEPT ![b] = @ + 1]
        /\ Enqueue([queue EXCEPT ![k] = Cut(queue[k], i, i)])
    BY Zenon DEF Activate, MayActivate, Counted
  <2>5. /\ open \in [Bank -> Row \cup {Closed}] /\ counter \in [Bank -> Nat]
        /\ CounterOfOpenRow
    BY IInvQueuesGood, Zenon
  <2> HIDE DEF b, r
  <2>6. counter[b] = 0 /\ open'[b] = r
    BY <2>3, <2>4, <2>5, Zenon DEF CounterOfOpenRow
  <2>7. counter'[b] \in {0, 1} /\ \A d \in Bank : d # b => counter'[d] = counter[d]
    BY <2>3, <2>4, <2>5, <2>6
  <2>8. /\ open' \in [Bank -> Row \cup {Closed}] /\ counter' \in [Bank -> Nat]
        /\ CounterOfOpenRow'
    <3>1. open' \in [Bank -> Row \cup {Closed}] /\ counter' \in [Bank -> Nat]
      BY <2>3, <2>4, <2>5
    <3>2. \A d \in Bank : d # b => open'[d] = open[d]
      BY <2>3, <2>4, <2>5, Zenon
    <3>3. AutoPrecharge => counter'[b] = 0
      BY <2>4, <2>6, Zenon
    <3> QED
      BY <2>3, <2>5, <2>6, <2>7, <3>1, <3>2, <3>3, QueueAssumption, AccessAssumption
      DEF CounterOfOpenRow
  \* The row of an orphan is open, so its bank is not the one activated.
  <2>9. ASSUME NEW l \in Queue, NEW j \in DOMAIN queue[l], Orphan(queue[l], j)
        PROVE  /\ open'[queue[l][j].bank] = queue[l][j].row
               /\ counter'[queue[l][j].bank] <= 1
    <3>1. queue[l][j] \in Command
      BY <2>1, SeqElement, SeqDomain, Zenon DEF QueuesGood
    <3>2. queue[l][j].bank \in Bank /\ queue[l][j].row \in Row
      BY <3>1, Zenon DEF Command
    <3>3. open[queue[l][j].bank] = queue[l][j].row /\ counter[queue[l][j].bank] <= 1
      BY <2>1, <2>9, Zenon DEF QueuesGood, ServedIn
    <3>4. queue[l][j].bank # b
      BY <2>4, <3>2, <3>3, QueueAssumption, Zenon
    <3> QED
      BY <2>4, <2>5, <2>7, <3>2, <3>3, <3>4, Zenon
  <2>10. Takes(queue[k], i, i)
    BY <2>4, Zenon DEF Takes
  <2>11. /\ open'[queue[k][i].bank] = queue[k][i].row
         /\ counter'[queue[k][i].bank] <= 1
    BY <2>6, <2>7 DEF b, r
  <2>12. QueuesGood([queue EXCEPT ![k] = Cut(queue[k], i, i)], open', counter')
    BY <2>1, <2>4, <2>9, <2>10, <2>11, <1>TakeKeeps, ZenonT(30)
  <2>13. QueuesGood(queue', open', counter')
    BY <2>4, <2>12, <1>EnqueueKeeps, Zenon
  <2>14. UsedIn([queue EXCEPT ![k] = Cut(queue[k], i, i)], open')
    <3>1. ASSUME AutoPrecharge, NEW d \in Bank, open'[d] # Closed, d # b
          PROVE  \E j \in DOMAIN queue[QueueOf[d]] :
                    /\ Orphan(queue[QueueOf[d]], j)
                    /\ queue[QueueOf[d]][j].bank = d
                    /\ ~ (QueueOf[d] = k /\ j \in i .. i)
      <4>1. open[d] # Closed
        BY <2>4, <2>5, <3>1, Zenon
      <4>2. PICK j \in DOMAIN queue[QueueOf[d]] :
                   Orphan(queue[QueueOf[d]], j) /\ queue[QueueOf[d]][j].bank = d
        BY <3>1, <4>1, IInvQueuesGood, Zenon DEF UsedIn
      <4>3. DOMAIN queue[k] = 1 .. Len(queue[k]) /\ Len(queue[k]) \in Nat
        BY <2>1, SeqDomain, Zenon DEF QueuesGood
      <4>4. j \in i .. i => j = i
        BY <4>3
      <4> QED
        BY <2>4, <4>2, <4>4, Zenon DEF Orphan
    <3>2. AutoPrecharge => \A d \in Bank : open'[d] # Closed =>
             \/ i = i /\ queue[k][i].act /\ queue[k][i].bank = d
             \/ \E j \in DOMAIN queue[QueueOf[d]] :
                   /\ Orphan(queue[QueueOf[d]], j)
                   /\ queue[QueueOf[d]][j].bank = d
                   /\ ~ (QueueOf[d] = k /\ j \in i .. i)
      BY <2>4, <3>1, Zenon DEF b
    <3> QED
      BY <2>1, <2>10, <3>2, <1>TakeKeepsUsed, ZenonT(30)
  <2>15. UsedIn(queue', open')
    BY <2>4, <2>12, <2>14, <1>EnqueueKeepsUsed, Zenon
  <2> QED
    BY <2>8, <2>13, <2>15, <1>IInvAfter, Zenon

\* Access and Drain: the oldest access to an open row leaves, counted or not.
<1>ColumnKeeps.
    ASSUME IInv, NEW k \in Queue, NEW i \in DOMAIN queue[k],
           NEW first \in DOMAIN queue[k], Takes(queue[k], first, i),
           ~ queue[k][i].act, First(queue[k], i),
           open[queue[k][i].bank] = queue[k][i].row,
           Enqueue([queue EXCEPT ![k] = Cut(queue[k], first, i)]),
           AfterAccess(queue[k][i].bank),
           \/ counter' = counter
           \/ /\ Counted(queue[k][i].bank)
              /\ counter[queue[k][i].bank] < Accesses
    PROVE  IInv'
  <2> USE <1>ColumnKeeps
  <2> DEFINE b == queue[k][i].bank
  <2>1. QueuesGood(queue, open, counter)
    BY IInvQueuesGood, Zenon
  <2>2. queue[k][i] \in Command
    BY <2>1, SeqElement, SeqDomain, Zenon DEF QueuesGood
  <2>3. b \in Bank /\ queue[k][i].row \in Row
    BY <2>2, Zenon DEF Command
  <2>4. /\ open \in [Bank -> Row \cup {Closed}] /\ counter \in [Bank -> Nat]
        /\ CounterOfOpenRow
    BY IInvQueuesGood, Zenon
  <2>5. /\ open[b] # Closed
        /\ open' = IF AutoPrecharge THEN [open EXCEPT ![b] = Closed] ELSE open
        /\ \/ counter' = counter
           \/ /\ ~ AutoPrecharge /\ counter[b] < Accesses
              /\ counter' = [counter EXCEPT ![b] = @ + 1]
    BY <2>3, QueueAssumption, Zenon DEF AfterAccess, Counted
  <2> HIDE DEF b
  <2>6. \A d \in Bank : d # b => counter'[d] = counter[d] /\ open'[d] = open[d]
    BY <2>3, <2>4, <2>5, Zenon
  <2>7. /\ open' \in [Bank -> Row \cup {Closed}] /\ counter' \in [Bank -> Nat]
        /\ CounterOfOpenRow'
    <3>1. open' \in [Bank -> Row \cup {Closed}] /\ counter' \in [Bank -> Nat]
      BY <2>3, <2>4, <2>5
    <3>2. counter'[b] <= Accesses
      BY <2>3, <2>4, <2>5, AccessAssumption DEF CounterOfOpenRow
    <3>3. open'[b] = Closed \/ AutoPrecharge => counter'[b] = 0
      BY <2>3, <2>4, <2>5, Zenon DEF CounterOfOpenRow
    <3> QED
      BY <2>3, <2>4, <2>6, <3>1, <3>2, <3>3, Zenon DEF CounterOfOpenRow
  \* The orphans that stay behind belong to other banks.
  <2>8. ASSUME NEW l \in Queue, NEW j \in DOMAIN queue[l], Orphan(queue[l], j),
               ~ (l = k /\ j \in first .. i)
        PROVE  /\ open'[queue[l][j].bank] = queue[l][j].row
               /\ counter'[queue[l][j].bank] <= 1
    <3>1. queue[l][j] \in Command
      BY <2>1, SeqElement, SeqDomain, Zenon DEF QueuesGood
    <3>2. queue[l][j].bank \in Bank
      BY <3>1, Zenon DEF Command
    <3>3. open[queue[l][j].bank] = queue[l][j].row /\ counter[queue[l][j].bank] <= 1
      BY <2>1, <2>8, Zenon DEF QueuesGood, ServedIn
    <3>4. i \in first .. i
      <4>1. DOMAIN queue[k] = 1 .. Len(queue[k]) /\ Len(queue[k]) \in Nat
        BY <2>1, SeqDomain, Zenon DEF QueuesGood
      <4> QED
        BY <4>1 DEF Takes
    <3>5. queue[l][j].bank # b
      BY <2>1, <2>8, <3>4, <1>OnlyOrphan, Zenon DEF b
    <3> QED
      BY <2>6, <3>2, <3>3, <3>5, Zenon
  <2>9. QueuesGood([queue EXCEPT ![k] = Cut(queue[k], first, i)], open', counter')
    BY <2>1, <2>8, <1>TakeKeeps, Zenon
  <2>10. QueuesGood(queue', open', counter')
    BY <2>9, <1>EnqueueKeeps, Zenon
  <2>11. UsedIn([queue EXCEPT ![k] = Cut(queue[k], first, i)], open')
    <3> SUFFICES ASSUME AutoPrecharge, NEW d \in Bank, open'[d] # Closed
                 PROVE  \E j \in DOMAIN queue[QueueOf[d]] :
                           /\ Orphan(queue[QueueOf[d]], j)
                           /\ queue[QueueOf[d]][j].bank = d
                           /\ ~ (QueueOf[d] = k /\ j \in first .. i)
      BY <2>1, <1>TakeKeepsUsed
    <3>1. d # b /\ open[d] # Closed
      BY <2>3, <2>4, <2>5, <2>6, Zenon
    <3>2. PICK j \in DOMAIN queue[QueueOf[d]] :
                 Orphan(queue[QueueOf[d]], j) /\ queue[QueueOf[d]][j].bank = d
      BY <3>1, IInvQueuesGood, Zenon DEF UsedIn
    <3>3. DOMAIN queue[k] = 1 .. Len(queue[k]) /\ Len(queue[k]) \in Nat
      BY <2>1, SeqDomain, Zenon DEF QueuesGood
    <3>4. j \in first .. i => j = i \/ (j = first /\ i = first + 1)
      BY <3>3 DEF Takes
    <3>5. i = first + 1 => queue[k][first].act
      BY <3>3 DEF Takes
    <3> QED
      BY <3>1, <3>2, <3>4, <3>5, Zenon DEF Orphan, b
  <2>12. UsedIn(queue', open')
    BY <2>9, <2>11, <1>EnqueueKeepsUsed, Zenon
  <2> QED
    BY <2>7, <2>10, <2>12, <1>IInvAfter, Zenon

\* Sending a column command, with the ACTIVATE of a hit, keeps the invariant.
<1>AccessKeeps.
    ASSUME IInv, NEW k \in Queue, NEW i \in DOMAIN queue[k], Access(k, i)
    PROVE  IInv'
  <2> USE <1>AccessKeeps
  <2> DEFINE first == IF Paired(queue[k], i) THEN i - 1 ELSE i
  <2>1. QueuesGood(queue, open, counter)
    BY IInvQueuesGood
  <2>2. /\ ~ queue[k][i].act /\ open[queue[k][i].bank] = queue[k][i].row
        /\ counter[queue[k][i].bank] < Accesses
        /\ IF AutoPrecharge THEN ~ Paired(queue[k], i) ELSE First(queue[k], i)
        /\ Enqueue([queue EXCEPT ![k] = Cut(queue[k], first, i)])
        /\ AfterAccess(queue[k][i].bank) /\ Counted(queue[k][i].bank)
    BY Zenon DEF Access, MayAccess
  <2>3. ~ Paired(queue[k], i) => Orphan(queue[k], i)
    BY <2>1, <2>2, UnpairedOrphan, Zenon
  <2>4. First(queue[k], i)
    BY <2>1, <2>2, <2>3, Zenon DEF QueuesGood, ServedIn
  <2>5. DOMAIN queue[k] = 1 .. Len(queue[k]) /\ Len(queue[k]) \in Nat
    BY <2>1, SeqDomain, Zenon DEF QueuesGood
  <2>6. first \in DOMAIN queue[k] /\ Takes(queue[k], first, i)
    BY <2>3, <2>5 DEF Paired, Takes
  <2> QED
    BY <2>2, <2>4, <2>6, <1>ColumnKeeps, Zenon

\* Sending the access a row was opened for, before a refresh, keeps the
\* invariant.
<1>DrainKeeps.
    ASSUME IInv, NEW k \in Queue, NEW i \in DOMAIN queue[k], Drain(k, i)
    PROVE  IInv'
  <2> USE <1>DrainKeeps
  <2>1. QueuesGood(queue, open, counter)
    BY IInvQueuesGood
  <2>2. /\ ~ queue[k][i].act /\ open[queue[k][i].bank] = queue[k][i].row
        /\ \A j \in 1 .. i - 1 : ~ SameRow(queue[k][j], queue[k][i])
        /\ Enqueue([queue EXCEPT ![k] = Cut(queue[k], i, i)])
        /\ AfterAccess(queue[k][i].bank) /\ counter' = counter
    BY Zenon DEF Drain, MayDrain, FirstForOpenRow, SameRow
  <2>3. DOMAIN queue[k] = 1 .. Len(queue[k]) /\ Len(queue[k]) \in Nat
    BY <2>1, SeqDomain DEF QueuesGood
  <2>4. ~ Paired(queue[k], i)
    BY <2>2, <2>3 DEF Paired
  <2>5. Orphan(queue[k], i)
    BY <2>1, <2>2, <2>4, UnpairedOrphan, Zenon
  <2>6. Takes(queue[k], i, i) /\ First(queue[k], i)
    BY <2>2, <2>5, Zenon DEF Takes, First
  <2> QED
    BY <2>2, <2>6, <1>ColumnKeeps, Zenon

\* The orphan of an open row is the first command in line for that row.
<1>OrphanFirstForRow.
    ASSUME QueuesGood(queue, open, counter),
           NEW k \in Queue, NEW j \in DOMAIN queue[k], Orphan(queue[k], j)
    PROVE  FirstForOpenRow(queue[k], j, queue[k][j].bank)
  <2> USE <1>OrphanFirstForRow
  <2>1. DOMAIN queue[k] = 1 .. Len(queue[k]) /\ Len(queue[k]) \in Nat
    BY SeqDomain, Zenon DEF QueuesGood
  <2>2. First(queue[k], j) /\ open[queue[k][j].bank] = queue[k][j].row
    BY Zenon DEF QueuesGood, ServedIn
  <2>3. ASSUME NEW i \in 1 .. j - 1, SameRow(queue[k][i], queue[k][j])
        PROVE  FALSE
    <3>1. queue[k][i].act
      BY <2>2, <2>3, Zenon DEF First
    <3>2. i \in DOMAIN queue[k]
      BY <2>1
    <3>3. ~ queue[k][i + 1].act /\ SameRow(queue[k][i], queue[k][i + 1])
      BY <3>1, <3>2, Zenon DEF QueuesGood, PairedIn
    <3>4. i + 1 # j
      <4> SUFFICES ASSUME i + 1 = j PROVE FALSE
        BY Zenon
      <4>1. i = j - 1 /\ j # 1
        BY <2>1
      <4> QED
        BY <3>1, <4>1, Zenon DEF Orphan
    <3>5. i + 1 \in 1 .. j - 1
      BY <2>1, <3>4
    <3> QED
      BY <2>2, <2>3, <3>3, <3>5, Zenon DEF First, SameRow
  <2> QED
    BY <2>2, <2>3, Zenon DEF FirstForOpenRow, SameRow

\* Closing a row keeps the invariant: no orphan waits for a row that may be
\* closed.
<1>CloseKeeps.
    ASSUME IInv, NEW b \in Bank, Close(b)
    PROVE  IInv'
  <2> USE <1>CloseKeeps
  <2>1. QueuesGood(queue, open, counter)
    BY IInvQueuesGood, Zenon
  <2>2. /\ open \in [Bank -> Row \cup {Closed}] /\ counter \in [Bank -> Nat]
        /\ CounterOfOpenRow
    BY IInvQueuesGood, Zenon
  <2>3. /\ MayClose(b) \/ MayCloseForRefresh(b)
        /\ Enqueue(queue)
        /\ open' = [open EXCEPT ![b] = Closed]
        /\ counter' = [counter EXCEPT ![b] = 0]
    BY Zenon DEF Close
  <2>4. /\ open' \in [Bank -> Row \cup {Closed}] /\ counter' \in [Bank -> Nat]
        /\ CounterOfOpenRow'
    <3>1. open' \in [Bank -> Row \cup {Closed}] /\ counter' \in [Bank -> Nat]
      BY <2>2, <2>3, Zenon
    <3>2. \A d \in Bank : d # b => counter'[d] = counter[d] /\ open'[d] = open[d]
      BY <2>2, <2>3, Zenon
    <3>3. counter'[b] = 0
      BY <2>2, <2>3, Zenon
    <3> QED
      BY <2>2, <3>1, <3>2, <3>3, AccessAssumption DEF CounterOfOpenRow
  \* An orphan keeps its row from being closed: the row is wanted, it has been
  \* accessed once at most, and a refresh lets the orphan go first.
  <2>5. ASSUME NEW k \in Queue, NEW j \in DOMAIN queue[k], Orphan(queue[k], j)
        PROVE  queue[k][j].bank # b
    <3> SUFFICES ASSUME queue[k][j].bank = b PROVE FALSE
      BY Zenon
    <3>1. /\ QueueOf[b] = k /\ ~ queue[k][j].act
          /\ open[b] = queue[k][j].row /\ counter[b] <= 1
      BY <2>1, <2>5, Zenon DEF QueuesGood, PairedIn, ServedIn, Orphan
    <3>2. Wanted(b)
      BY <3>1, Zenon DEF Wanted
    <3>3. counter[b] # Accesses
      BY <2>2, <3>1, AccessAssumption
    <3>4. FirstForOpenRow(queue[k], j, b)
      BY <2>1, <2>5, <1>OrphanFirstForRow, Zenon
    <3> QED
      BY <2>3, <3>1, <3>2, <3>3, <3>4, Zenon DEF MayClose, MayCloseForRefresh
  <2>6. ASSUME NEW k \in Queue, NEW j \in DOMAIN queue[k], Orphan(queue[k], j)
        PROVE  /\ open'[queue[k][j].bank] = queue[k][j].row
               /\ counter'[queue[k][j].bank] <= 1
    <3>1. queue[k][j] \in Command
      BY <2>1, SeqElement, SeqDomain, Zenon DEF QueuesGood
    <3>2. queue[k][j].bank \in Bank
      BY <3>1, Zenon DEF Command
    <3>3. open[queue[k][j].bank] = queue[k][j].row /\ counter[queue[k][j].bank] <= 1
      BY <2>1, <2>6, Zenon DEF QueuesGood, ServedIn
    <3> QED
      BY <2>2, <2>3, <2>5, <2>6, <3>2, <3>3, Zenon
  <2>7. QueuesGood(queue, open', counter')
    BY <2>1, <2>6, Zenon DEF QueuesGood, ServedIn
  <2>8. QueuesGood(queue', open', counter')
    BY <2>3, <2>7, <1>EnqueueKeeps, Zenon
  <2>9. UsedIn(queue', open')
    BY <2>3, Zenon DEF MayClose, MayCloseForRefresh, UsedIn
  <2> QED
    BY <2>4, <2>8, <2>9, <1>IInvAfter, Zenon

\* A cycle without a command keeps the invariant.
<1>NoCommandKeeps.
    ASSUME IInv, NoCommand
    PROVE  IInv'
  <2> USE <1>NoCommandKeeps
  <2>1. /\ QueuesGood(queue, open, counter)
        /\ open \in [Bank -> Row \cup {Closed}] /\ counter \in [Bank -> Nat]
        /\ CounterOfOpenRow /\ UsedIn(queue, open)
    BY IInvQueuesGood, Zenon
  <2>2. Enqueue(queue) /\ open' = open /\ counter' = counter
    BY Zenon DEF NoCommand
  <2>3. QueuesGood(queue', open', counter') /\ UsedIn(queue', open')
    BY <2>1, <2>2, <1>EnqueueKeeps, <1>EnqueueKeepsUsed, Zenon
  <2> QED
    BY <2>1, <2>2, <2>3, <1>IInvAfter, Zenon DEF CounterOfOpenRow

<1>Main.
    ASSUME IInv, [Next]_vars
    PROVE  IInv'
  <2> USE <1>Main
  <2>1. ASSUME NEW k \in Queue, NEW i \in DOMAIN queue[k],
               Activate(k, i) \/ Access(k, i) \/ Drain(k, i)
        PROVE  IInv'
    BY <2>1, <1>ActivateKeeps, <1>AccessKeeps, <1>DrainKeeps, Zenon
  <2>2. ASSUME NEW b \in Bank, Close(b) PROVE IInv'
    BY <2>2, <1>CloseKeeps, Zenon
  <2>3. CASE NoCommand
    BY <2>3, <1>NoCommandKeeps, Zenon
  <2>4. CASE UNCHANGED vars
    BY <2>4 DEF vars, IInv, TypeOK, WithinDepth, ActivatesPaired, OrphanRowOpen,
                OrphanNext, CounterOfOpenRow, OpenForAccess, First, Orphan
  <2> QED
    BY <2>1, <2>2, <2>3, <2>4, Zenon DEF Next
<1> QED BY <1>Main, Zenon

\* The scheduler keeps its invariant, for every number of banks, rows and
\* queues, every queue depth and every access limit of two or more: queues stay
\* within their depth, every ACTIVATE keeps its column command behind it, and
\* an access whose ACTIVATE has been sent finds its row open.
THEOREM SchedulingInvariant == Spec => []IInv
<1>1. IInv /\ [Next]_vars => IInv'
  BY NextKeeps, Zenon
<1> QED
  BY <1>1, InitGood, PTL DEF Spec

\* No command queue ever holds more than CMD_QUEUE_DEPTH commands: enqueue never
\* exits, and the unsigned subtraction of hasRoomFor never wraps around.
THEOREM QueuesWithinDepth == Spec => []WithinDepth
<1>1. IInv => WithinDepth
  BY Zenon DEF IInv
<1> QED
  BY <1>1, SchedulingInvariant, PTL

\* An ACTIVATE is always followed by its own column command, which is what pop
\* relies on when a hit deletes the command in front of it.
THEOREM ActivatesStayPaired == Spec => []ActivatesPaired
<1>1. IInv => ActivatesPaired
  BY Zenon DEF IInv
<1> QED
  BY <1>1, SchedulingInvariant, PTL

\* A row is never closed, by the access limit, a refresh or another bank's
\* traffic, under an access whose ACTIVATE has already been sent.
THEOREM OrphansKeepTheirRow == Spec => []OrphanRowOpen
<1>1. IInv => OrphanRowOpen
  BY Zenon DEF IInv
<1> QED
  BY <1>1, SchedulingInvariant, PTL

\* The row access counters are zero for closed rows and never pass
\* TOTAL_ROW_ACCESSES.
THEOREM CountersFollowRows == Spec => []CounterOfOpenRow
<1>1. IInv => CounterOfOpenRow
  BY Zenon DEF IInv
<1> QED
  BY <1>1, SchedulingInvariant, PTL

\* Accesses to one row are issued in the order in which they were queued, with
\* either row policy and also when a refresh drains them.
THEOREM AccessesInOrder == Spec => RowOrder
<1>1. ASSUME IInv, NEW k \in Queue, NEW i \in DOMAIN queue[k],
             Access(k, i) \/ Drain(k, i)
      PROVE  First(queue[k], i)
  <2>1. QueuesGood(queue, open, counter)
    BY <1>1, IInvQueuesGood, Zenon
  <2>2. ASSUME ~ queue[k][i].act, ~ Paired(queue[k], i)
        PROVE  First(queue[k], i)
    BY <2>1, <2>2, UnpairedOrphan, Zenon DEF QueuesGood, ServedIn
  <2>3. CASE Access(k, i)
    BY <2>2, <2>3, Zenon DEF Access, MayAccess
  <2>4. CASE Drain(k, i)
    BY <2>4, Zenon DEF Drain, MayDrain, FirstForOpenRow, First, SameRow
  <2> QED
    BY <1>1, <2>3, <2>4, Zenon
<1>2. IInv => [\A k \in Queue : \A i \in DOMAIN queue[k] :
                 (Access(k, i) \/ Drain(k, i)) => First(queue[k], i)]_vars
  BY <1>1, Zenon
<1> QED
  BY <1>2, SchedulingInvariant, PTL DEF RowOrder

\* A non-empty set of positions in a queue has a smallest one.
LEMMA SmallestPosition ==
    ASSUME NEW T, T \subseteq Nat, T # {}
    PROVE  \E i \in T : \A j \in T : ~ (j < i)
<1>1. \E i \in T : \A j \in T : ~ (<<j, i>> \in OpToRel(<, Nat))
  BY NatLessThanWellFounded, WFMin, Zenon
<1> QED
  BY <1>1, Zenon DEF OpToRel

\* Whatever is queued, some command may be issued or some row closed: the
\* scheduling rules alone never block a queue, with either row policy.
THEOREM SchedulerNeverStuck == Spec => []NeverStuck
<1>1. IInv => NeverStuck
  <2> SUFFICES ASSUME IInv, NEW k \in Queue, queue[k] # <<>>
               PROVE  \/ \E i \in DOMAIN queue[k] :
                            MayActivate(k, i) \/ MayAccess(k, i)
                      \/ \E b \in Bank : QueueOf[b] = k /\ MayClose(b)
    BY Zenon DEF NeverStuck
  <2> DEFINE s == queue[k]
             b == s[1].bank
  <2>1. QueuesGood(queue, open, counter)
    BY IInvQueuesGood, Zenon
  <2>2. /\ s \in Seq(Command) /\ Len(s) \in Nat /\ DOMAIN s = 1 .. Len(s)
        /\ PairedIn(k, s) /\ ServedIn(s, open, counter)
    BY <2>1, SeqDomain, Zenon DEF QueuesGood
  <2>3. 1 \in DOMAIN s
    BY <2>2, SeqEmpty
  <2>4. s[1] \in Command
    BY <2>2, <2>3, SeqElement, Zenon
  <2>5. b \in Bank /\ s[1].row \in Row /\ QueueOf[b] = k
    BY <2>2, <2>3, <2>4, Zenon DEF Command, PairedIn
  <2>6. /\ counter \in [Bank -> Nat] /\ CounterOfOpenRow /\ UsedIn(queue, open)
    BY IInvQueuesGood, Zenon
  <2>7. CASE open[b] = Closed
    <3>1. s[1].act
      BY <2>2, <2>3, <2>5, <2>7, QueueAssumption, Zenon DEF ServedIn, Orphan
    <3>2. First(s, 1)
      BY DEF First
    <3> QED
      BY <2>3, <2>7, <3>1, <3>2, Zenon DEF MayActivate
  <2>8. CASE open[b] # Closed /\ AutoPrecharge
    <3>1. PICK i \in DOMAIN s : Orphan(s, i) /\ s[i].bank = b
      BY <2>5, <2>6, <2>8 DEF UsedIn
    <3>2. counter[b] = 0 /\ 0 < Accesses
      BY <2>5, <2>6, <2>8, AccessAssumption DEF CounterOfOpenRow
    <3>3. open[b] = s[i].row /\ ~ s[i].act /\ ~ Paired(s, i)
      BY <2>2, <3>1 DEF ServedIn, Orphan, Paired
    <3> QED
      BY <2>8, <3>1, <3>2, <3>3, Zenon DEF MayAccess
  <2>9. CASE open[b] # Closed /\ ~ AutoPrecharge /\ MayClose(b)
    BY <2>5, <2>9, Zenon
  <2>10. CASE open[b] # Closed /\ ~ AutoPrecharge /\ ~ MayClose(b)
    <3> DEFINE T == {i \in DOMAIN s : ~ s[i].act /\ s[i].bank = b
                                       /\ s[i].row = open[b]}
    <3>1. Wanted(b) /\ counter[b] # Accesses
      BY <2>10, Zenon DEF MayClose
    <3>2. counter[b] < Accesses
      BY <2>5, <2>6, <3>1, AccessAssumption DEF CounterOfOpenRow
    <3>3. PICK w \in DOMAIN s : s[w].bank = b /\ s[w].row = open[b]
      BY <2>5, <3>1, Zenon DEF Wanted
    <3>4. w \in T \/ w + 1 \in T
      BY <2>2, <3>3, Zenon DEF PairedIn, SameRow
    <3>5. T \subseteq Nat /\ T # {}
      BY <2>2, <3>4
    <3>6. PICK i \in T : \A j \in T : ~ (j < i)
      BY <3>5, SmallestPosition, Zenon
    <3>7. First(s, i)
      <4> SUFFICES ASSUME NEW j \in 1 .. i - 1, ~ s[j].act, SameRow(s[j], s[i])
                   PROVE  FALSE
        BY Zenon DEF First
      <4>1. j \in DOMAIN s /\ j < i
        BY <2>2
      <4>2. j \in T
        BY <4>1, Zenon DEF SameRow
      <4> QED
        BY <3>6, <4>1, <4>2, Zenon
    <3> QED
      BY <2>10, <3>2, <3>6, <3>7, Zenon DEF MayAccess
  <2> QED
    BY <2>7, <2>8, <2>9, <2>10, Zenon
<1> QED
  BY <1>1, SchedulingInvariant, PTL
=============================================================================
