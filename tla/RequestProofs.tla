---------------------------- MODULE RequestProofs ----------------------------
(***************************************************************************)
(* What becomes of requests.  Every read that the controller has accepted  *)
(* is carried by exactly one packet until its data is back, so that, with  *)
(* what ChannelProofs shows of the tables and of the data bus, the         *)
(* controller never aborts.  And the channel keeps the rules of the        *)
(* policy-free scheduler, so that what is proved of that holds of it.      *)
(***************************************************************************)
EXTENDS ChannelProofs

-----------------------------------------------------------------------------
(* Reads *)

\* Taking command j out of a queue, with its ACTIVATE or alone, takes at most
\* one read of a away.
TakesOut(s, i, j) == /\ i \in DOMAIN s /\ j \in DOMAIN s
                     /\ i = j \/ (i = j - 1 /\ s[i].type = "ACTIVATE")

LEMMA CutReads ==
    ASSUME NEW s \in Seq(QueuedPackets), NEW i, NEW j, TakesOut(s, i, j), NEW a
    PROVE  /\ Cut(s, i, j) \in Seq(QueuedPackets)
           /\ NumberIn(s, ReadsOf(a))
                = NumberIn(Cut(s, i, j), ReadsOf(a)) + Bit(s[j] \in ReadsOf(a))
<1>1. PICK T : T = ReadsOf(a)
  BY Zenon
<1>2. PICK n \in Nat : n = Len(s) /\ DOMAIN s = 1 .. n
  BY SeqDomain, Zenon
<1>3. i \in 1 .. n /\ j \in i .. n /\ \A k \in i .. j - 1 : k = i /\ i # j
  BY <1>2 DEF TakesOut
<1>4. s[i].type = "ACTIVATE" => s[i] \notin T
  BY <1>1, Zenon DEF ReadsOf, Reads
<1>5. \A k \in i .. j - 1 : s[k] \notin T
  BY <1>3, <1>4, Zenon DEF TakesOut
<1>6. PICK d : d = j - i + 1
  BY Zenon
<1>7. PICK t : t = Cut(s, i, j)
  BY Zenon
<1>8. /\ t \in Seq(QueuedPackets) /\ Len(t) = n - d
      /\ \A k \in 1 .. n - d : t[k] = IF k < i THEN s[k] ELSE s[k + d]
  <2>1. i \in 1 .. Len(s) /\ j \in i .. Len(s)
    BY <1>2, <1>3, Zenon
  <2>2. /\ Cut(s, i, j) \in Seq(QueuedPackets)
        /\ Len(Cut(s, i, j)) = Len(s) - (j - i + 1)
        /\ \A k \in 1 .. Len(s) - (j - i + 1) :
              Cut(s, i, j)[k] = IF k < i THEN s[k] ELSE s[k + (j - i + 1)]
    BY ONLY <2>1, s \in Seq(QueuedPackets), CutShape, Zenon
  <2> QED BY <1>2, <1>6, <1>7, <2>2, Zenon
<1>9. \A k \in 1 .. n - d : t[k] \in T <=> s[IF k < i THEN k ELSE k + d] \in T
  BY <1>8, Zenon
<1>10. CutsOut(s, t, T, i, j, d)
  BY <1>2, <1>3, <1>5, <1>6, <1>8, <1>9, Zenon DEF CutsOut
<1>11. t \in Seq(QueuedPackets)
  BY <1>8, Zenon
<1>12. NumberIn(s, T) = NumberIn(t, T) + Bit(s[j] \in T)
  BY ONLY s \in Seq(QueuedPackets), <1>10, <1>11, NumberCut, Zenon
<1> QED BY <1>1, <1>7, <1>11, <1>12, Zenon

\* The reads of a after one queue has been replaced.
LEMMA ReadsReplaced ==
    ASSUME NEW qs \in Queues, NEW r \in Ranks, NEW k \in Banks,
           NEW c \in Seq(QueuedPackets), NEW f, Sets(f, qs, r, k, c),
           NEW a \in Addresses
    PROVE  /\ a.rank = r /\ QueueIndex(a.bank) = k =>
                 QueuedReads(f, a) = NumberIn(c, ReadsOf(a))
           /\ a.rank # r \/ QueueIndex(a.bank) # k =>
                 QueuedReads(f, a) = QueuedReads(qs, a)
<1>1. a.rank \in Ranks /\ QueueIndex(a.bank) \in Banks
  BY QueueIndexType, Zenon DEF Addresses
<1>2. f[r][k] = c
  BY Zenon DEF Queues, Sets
<1>3. \A r1 \in Ranks, b1 \in Banks : r1 # r \/ b1 # k => f[r1][b1] = qs[r1][b1]
  BY Zenon DEF Queues, Sets
<1> QED BY <1>1, <1>2, <1>3, Zenon DEF QueuedReads

\* A read joins the command queue when its transaction is split.
LEMMA JoinReads ==
    ASSUME NEW v, NEW w, NEW x \in QueuedPackets, NEW k \in QueuedPackets,
           NEW a \in Addresses, v.queues \in Queues, Pair(x, k), Joins(v, w, x, k)
    PROVE  QueuedReads(w.queues, a)
             = QueuedReads(v.queues, a) + Bit(k.type \in Reads /\ k.addr = a)
<1>1. PICK r \in Ranks, i \in Banks : r = x.addr.rank /\ i = QueueIndex(x.addr.bank)
  <2>1. x.addr.rank \in Ranks /\ x.addr.bank \in Banks
    BY Zenon DEF QueuedPackets, Addresses
  <2> QED BY <2>1, QueueIndexType, Zenon
<1>2. PICK qs \in Queues : qs = v.queues
  BY Zenon
<1>3. PICK s \in Seq(QueuedPackets) : s = qs[r][i]
  BY Zenon DEF Queues
<1>4. PICK s1 : s1 = Append(s, x)
  BY Zenon
<1>5. PICK s2 : s2 = Append(s1, k)
  BY Zenon
<1>6. s1 \in Seq(QueuedPackets) /\ s2 \in Seq(QueuedPackets)
  BY <1>4, <1>5
<1>7. Sets(w.queues, qs, r, i, s2)
  BY <1>1, <1>2, <1>3, <1>4, <1>5, Zenon DEF Joins, Sets
<1>8. x.type \notin Reads /\ k.addr = x.addr
  BY Zenon DEF Pair, Reads
<1>9. /\ a.rank = r /\ QueueIndex(a.bank) = i =>
            QueuedReads(w.queues, a) = NumberIn(s2, ReadsOf(a))
      /\ a.rank # r \/ QueueIndex(a.bank) # i =>
            QueuedReads(w.queues, a) = QueuedReads(qs, a)
  <2>1. PICK f : f = w.queues
    BY Zenon
  <2>2. /\ qs \in Queues /\ r \in Ranks /\ i \in Banks /\ s2 \in Seq(QueuedPackets)
        /\ Sets(f, qs, r, i, s2) /\ a \in Addresses
    BY <1>6, <1>7, <2>1, Zenon
  <2>3. /\ a.rank = r /\ QueueIndex(a.bank) = i =>
              QueuedReads(f, a) = NumberIn(s2, ReadsOf(a))
        /\ a.rank # r \/ QueueIndex(a.bank) # i =>
              QueuedReads(f, a) = QueuedReads(qs, a)
    BY ONLY <2>2, ReadsReplaced, SMT
  <2> QED BY <2>1, <2>3, Zenon
<1>10. QueuedReads(qs, a) \in Nat
  <2>1. a.rank \in Ranks /\ QueueIndex(a.bank) \in Banks
    BY QueueIndexType, Zenon DEF Addresses
  <2>2. qs[a.rank][QueueIndex(a.bank)] \in Seq(QueuedPackets)
    BY <2>1, Zenon DEF Queues
  <2> QED BY <2>2, NumberNat, Zenon DEF QueuedReads
<1>11. \A n \in Nat : n = n + 0
  BY SMT
<1>12. CASE a.rank = r /\ QueueIndex(a.bank) = i
  <2>1. PICK T : T = ReadsOf(a)
    BY Zenon
  <2>2. NumberIn(s, T) \in Nat /\ QueuedReads(qs, a) = NumberIn(s, T)
    BY <1>3, <1>10, <1>12, <2>1, Zenon DEF QueuedReads
  <2>3. x \notin T /\ (k \in T <=> k.type \in Reads /\ k.addr = a)
    BY <1>8, <2>1, Zenon DEF ReadsOf
  <2>4. /\ NumberIn(s1, T) = NumberIn(s, T) + Bit(x \in T)
        /\ NumberIn(s2, T) = NumberIn(s1, T) + Bit(k \in T)
    BY <1>4, <1>5, <1>6, NumberAppend, Zenon
  <2>5. NumberIn(s1, T) = NumberIn(s, T)
    BY <1>11, <2>2, <2>3, <2>4, Zenon DEF Bit
  <2>6. QueuedReads(w.queues, a) = NumberIn(s2, T)
    BY <1>9, <1>12, <2>1, Zenon
  <2> QED BY <1>2, <2>2, <2>3, <2>4, <2>5, <2>6, Zenon DEF Bit
<1>13. CASE a.rank # r \/ QueueIndex(a.bank) # i
  <2>1. k.addr # a
    BY <1>1, <1>8, <1>13, Zenon
  <2>2. QueuedReads(w.queues, a) = QueuedReads(qs, a)
    BY <1>9, <1>13, Zenon
  <2> QED BY <1>2, <1>10, <1>11, <2>1, <2>2, Zenon DEF Bit
<1> QED BY <1>12, <1>13, Zenon

\* A read leaves the command queue as the command of the cycle, in no other way.
LEMMA FollowsReads ==
    ASSUME NEW v, NEW bs, NEW w, NEW p, NEW a \in Addresses,
           v.queues \in Queues, Orderly(v.queues), Follows(v, bs, w, p)
    PROVE  QueuedReads(v.queues, a)
             = QueuedReads(w.queues, a) + Bit(p.type \in Reads /\ p.addr = a)
<1>1. a.rank \in Ranks /\ QueueIndex(a.bank) \in Banks
  BY QueueIndexType, Zenon DEF Addresses
<1>2. QueuedReads(v.queues, a) \in Nat
  <2>1. v.queues[a.rank][QueueIndex(a.bank)] \in Seq(QueuedPackets)
    BY <1>1, Zenon DEF Queues
  <2> QED BY <2>1, NumberNat, Zenon DEF QueuedReads
<1>3. \A n \in Nat : n = n + 0
  BY SMT
<1>4. ASSUME w.queues = v.queues, p.type \notin Reads
      PROVE  QueuedReads(v.queues, a)
               = QueuedReads(w.queues, a) + Bit(p.type \in Reads /\ p.addr = a)
  BY <1>2, <1>3, <1>4, Zenon DEF Bit
<1>5. ASSUME NEW r \in Ranks, NEW b \in Banks, NEW i, NEW j, Left(v, w, p, r, b, i, j),
             i = j \/ (i = j - 1 /\ v.queues[r][QueueIndex(b)][i].type = "ACTIVATE")
      PROVE  QueuedReads(v.queues, a)
               = QueuedReads(w.queues, a) + Bit(p.type \in Reads /\ p.addr = a)
  <2>1. PICK k \in Banks : k = QueueIndex(b)
    BY QueueIndexType, Zenon
  <2>2. PICK s : s = v.queues[r][k]
    BY Zenon
  <2>3. s \in Seq(QueuedPackets) /\ InPlace(s, r, k)
    BY <2>2, Zenon DEF Queues, Orderly
  <2>4. /\ i \in DOMAIN s /\ j \in DOMAIN s /\ p = s[j]
        /\ w.queues = [v.queues EXCEPT ![r][k] = Cut(s, i, j)]
    BY <1>5, <2>1, <2>2, Zenon DEF Left
  <2>5. /\ Cut(s, i, j) \in Seq(QueuedPackets)
        /\ NumberIn(s, ReadsOf(a))
             = NumberIn(Cut(s, i, j), ReadsOf(a)) + Bit(s[j] \in ReadsOf(a))
    <3>1. TakesOut(s, i, j)
      BY <1>5, <2>1, <2>2, <2>4, Zenon DEF TakesOut
    <3>2. s \in Seq(QueuedPackets)
      BY <2>3, Zenon
    <3> QED BY ONLY <3>1, <3>2, CutReads, Zenon
  <2>6. /\ a.rank = r /\ QueueIndex(a.bank) = k =>
              QueuedReads(w.queues, a) = NumberIn(Cut(s, i, j), ReadsOf(a))
        /\ a.rank # r \/ QueueIndex(a.bank) # k =>
              QueuedReads(w.queues, a) = QueuedReads(v.queues, a)
    <3>1. PICK c \in Seq(QueuedPackets) : c = Cut(s, i, j)
      BY <2>5, Zenon
    <3>2. PICK f, qs : f = w.queues /\ qs = v.queues
      BY Zenon
    <3>3. /\ qs \in Queues /\ r \in Ranks /\ k \in Banks /\ c \in Seq(QueuedPackets)
          /\ Sets(f, qs, r, k, c) /\ a \in Addresses
      BY <2>4, <3>1, <3>2, Zenon DEF Sets
    <3>4. /\ a.rank = r /\ QueueIndex(a.bank) = k =>
                QueuedReads(f, a) = NumberIn(c, ReadsOf(a))
          /\ a.rank # r \/ QueueIndex(a.bank) # k =>
                QueuedReads(f, a) = QueuedReads(qs, a)
      BY ONLY <3>3, ReadsReplaced, SMT
    <3> QED BY <3>1, <3>2, <3>4, Zenon
  <2>7. p \in QueuedPackets /\ p.addr.rank = r /\ QueueIndex(p.addr.bank) = k
    <3>1. DOMAIN s = 1 .. Len(s)
      BY <2>3, SeqDomain, Zenon
    <3>2. s[j] \in QueuedPackets
      BY <2>3, <2>4, <3>1, SeqElement, Zenon
    <3> QED BY <2>3, <2>4, <3>2, Zenon DEF InPlace
  <2>8. CASE a.rank = r /\ QueueIndex(a.bank) = k
    <3>1. s[j] \in ReadsOf(a) <=> p.type \in Reads /\ p.addr = a
      BY <2>4, <2>7, Zenon DEF ReadsOf
    <3>2. /\ QueuedReads(v.queues, a) = NumberIn(s, ReadsOf(a))
          /\ QueuedReads(w.queues, a) = NumberIn(Cut(s, i, j), ReadsOf(a))
      BY <2>2, <2>6, <2>8, Zenon DEF QueuedReads
    <3> QED BY <2>5, <3>1, <3>2, Zenon DEF Bit
  <2>9. CASE a.rank # r \/ QueueIndex(a.bank) # k
    <3>1. p.addr # a
      BY <2>7, <2>9, Zenon
    <3>2. QueuedReads(w.queues, a) = QueuedReads(v.queues, a)
      BY <2>6, <2>9, Zenon
    <3> QED BY <1>2, <1>3, <3>1, <3>2, Zenon DEF Bit
  <2> QED BY <2>8, <2>9, Zenon
<1>6. CASE Rests(v, w, p)
  BY <1>4, <1>6, Zenon DEF Rests, Columns
<1>7. CASE ~ Rests(v, w, p)
  <2>1. PICK r \in Ranks, b \in Banks : FollowsAt(v, bs, w, p, r, b)
    BY <1>7, Zenon DEF Follows
  <2>2. CASE Closes(v, bs, w, p, r, b)
    <3>1. p.type = "PRECHARGE" /\ w.queues = v.queues
      BY <2>2, Zenon DEF Closes, Unaddressed
    <3> QED BY <1>4, <3>1, Zenon DEF Reads
  <2>3. ASSUME NEW j \in Nat, Left(v, w, p, r, b, j, j)
        PROVE  QueuedReads(v.queues, a)
                 = QueuedReads(w.queues, a) + Bit(p.type \in Reads /\ p.addr = a)
    BY <1>5, <2>3, Zenon
  <2>4. ASSUME NEW j \in Nat, AccessesRow(v, w, p, r, b, j)
        PROVE  QueuedReads(v.queues, a)
                 = QueuedReads(w.queues, a) + Bit(p.type \in Reads /\ p.addr = a)
    <3>1. PICK i : i = IF Hit(v.queues[r][QueueIndex(b)], j) THEN j - 1 ELSE j
      BY Zenon
    <3>2. Left(v, w, p, r, b, i, j)
      BY <2>4, <3>1, Zenon DEF AccessesRow
    <3>3. i = j \/ (i = j - 1 /\ v.queues[r][QueueIndex(b)][i].type = "ACTIVATE")
      BY <3>1, Zenon DEF Hit
    <3> QED BY <1>5, <3>2, <3>3, Zenon
  <2> QED BY <2>1, <2>2, <2>3, <2>4, Zenon DEF FollowsAt, Activates, Drains
<1> QED BY <1>6, <1>7, Zenon

\* A read joins the pending reads and the command queue in the same cycle.
LEMMA ReadsJoin ==
    ASSUME ChannelInv, Update, pendingReads \in Seq(Addresses)
    PROVE  \E reads \in Seq(Addresses) :
              /\ Return(PoppedNow.packet, QueueNow, reads, Returns,
                        IF Returns = <<>> THEN 0 ELSE ReadMatch(reads, Returns[1]))
              /\ \A a \in Addresses : \E n \in Nat :
                    /\ NumberIn(reads, {a}) = NumberIn(pendingReads, {a}) + n
                    /\ QueuedReads(QueueNow.queues, a)
                         = QueuedReads(PoppedNow.cq.queues, a) + n
<1>1. Work(PoppedNow, BanksCountedDown, RanksNow, Admitted, Returns)
  BY Zenon DEF Update, PoppedNow, RanksNow
<1>2. PICK c : c = PoppedNow.cq
  BY Zenon
<1>3. QueueOK(c) /\ Orderly(c.queues) /\ c.queues \in Queues
  BY <1>2, PoppedNowOK, QueueFields, Zenon DEF PopOK, QueueOK
<1>4. PICK tq \in Seq(Transactions) : tq = Admitted
  BY AdmittedType, Zenon DEF ChannelInv
<1>5. PICK split : split = Splittable(tq, c)
  BY Zenon
<1>6. PICK t : t = tq[Min(split)]
  BY Zenon
<1>7. PICK reads : reads = IF split # {} /\ t.type = "DATA_READ"
                           THEN Append(pendingReads, t.addr) ELSE pendingReads
  BY Zenon
<1>8. QueueNow = IF split = {} THEN c ELSE Split(c, t)
  BY <1>2, <1>4, <1>5, <1>6, Zenon DEF QueueNow
<1>9. Return(PoppedNow.packet, QueueNow, reads, Returns,
             IF Returns = <<>> THEN 0 ELSE ReadMatch(reads, Returns[1]))
  BY <1>1, <1>2, <1>4, <1>5, <1>6, <1>7, <1>8, Zenon DEF Work, Finish
<1>10. \A n \in Nat : n = n + 0
  BY SMT
<1>11. \A a : NumberIn(pendingReads, {a}) \in Nat
  BY NumberNat, Zenon
<1>12. \A a \in Addresses : QueuedReads(c.queues, a) \in Nat
  <2>1. \A a \in Addresses : a.rank \in Ranks /\ QueueIndex(a.bank) \in Banks
    BY QueueIndexType, Zenon DEF Addresses
  <2>2. \A a \in Addresses :
          c.queues[a.rank][QueueIndex(a.bank)] \in Seq(QueuedPackets)
    BY <1>3, <2>1, Zenon DEF Queues
  <2> QED BY <2>2, NumberNat, Zenon DEF QueuedReads
<1>13. CASE split = {}
  <2>1. reads = pendingReads /\ QueueNow = c
    BY <1>7, <1>8, <1>13, Zenon
  <2>2. \A a \in Addresses :
          /\ NumberIn(reads, {a}) = NumberIn(pendingReads, {a}) + 0
          /\ QueuedReads(QueueNow.queues, a) = QueuedReads(c.queues, a) + 0
    BY <1>10, <1>11, <1>12, <2>1, Zenon
  <2>3. 0 \in Nat
    BY SMT
  <2> QED BY <1>2, <1>9, <2>1, <2>2, <2>3, Zenon
<1>14. CASE split # {}
  <2>1. t \in Transactions /\ hasRoomFor(c, 2, t.addr.rank, t.addr.bank)
    BY <1>5, <1>6, <1>14, SplitFirst, Zenon
  <2>2. QueueNow = Split(c, t) /\ SplitsInto(c, t, QueueNow)
    BY <1>3, <1>8, <1>14, <2>1, SplitOK, Zenon
  <2>3. PICK x, k \in QueuedPackets :
          /\ Pair(x, k) /\ Joins(Contents(c), Contents(QueueNow), x, k)
          /\ k.addr = t.addr /\ (k.type \in Reads <=> t.type = "DATA_READ")
    BY <2>2, Zenon DEF SplitsInto
  <2>4. t.addr \in Addresses
    BY <2>1, Zenon DEF Transactions
  <2>5. reads \in Seq(Addresses)
    <3>1. Append(pendingReads, t.addr) \in Seq(Addresses)
      BY <2>4
    <3> QED BY <1>7, <3>1, Zenon
  <2>6. ASSUME NEW a \in Addresses
        PROVE  \E n \in Nat :
                  /\ NumberIn(reads, {a}) = NumberIn(pendingReads, {a}) + n
                  /\ QueuedReads(QueueNow.queues, a) = QueuedReads(c.queues, a) + n
    <3>1. PICK n \in Nat : n = Bit(t.type = "DATA_READ" /\ t.addr = a)
      BY Zenon DEF Bit
    <3>2. Contents(c).queues = c.queues /\ Contents(QueueNow).queues = QueueNow.queues
      BY Zenon DEF Contents
    <3>3. QueuedReads(Contents(QueueNow).queues, a)
            = QueuedReads(Contents(c).queues, a) + Bit(k.type \in Reads /\ k.addr = a)
      <4>1. PICK v, w : v = Contents(c) /\ w = Contents(QueueNow)
        BY Zenon
      <4>2. /\ x \in QueuedPackets /\ k \in QueuedPackets /\ a \in Addresses
            /\ v.queues \in Queues /\ Pair(x, k) /\ Joins(v, w, x, k)
        BY <1>3, <2>3, <3>2, <4>1, Zenon
      <4>3. QueuedReads(w.queues, a)
              = QueuedReads(v.queues, a) + Bit(k.type \in Reads /\ k.addr = a)
        BY ONLY <4>2, JoinReads, Zenon
      <4> QED BY <4>1, <4>3, Zenon
    <3>4. k.type \in Reads /\ k.addr = a <=> t.type = "DATA_READ" /\ t.addr = a
      BY <2>3, Zenon
    <3>5. QueuedReads(QueueNow.queues, a) = QueuedReads(c.queues, a) + n
      BY <3>1, <3>2, <3>3, <3>4, Zenon DEF Bit
    <3>6. NumberIn(reads, {a}) = NumberIn(pendingReads, {a}) + n
      <4>1. NumberIn(Append(pendingReads, t.addr), {a})
              = NumberIn(pendingReads, {a}) + Bit(t.addr \in {a})
        BY <2>4, NumberAppend, Zenon
      <4>2. CASE t.type = "DATA_READ"
        BY <1>7, <1>14, <3>1, <4>1, <4>2, Zenon DEF Bit
      <4>3. CASE t.type # "DATA_READ"
        BY <1>7, <1>10, <1>11, <3>1, <4>3, Zenon DEF Bit
      <4> QED BY <4>2, <4>3, Zenon
    <3> QED BY <3>5, <3>6, Zenon
  <2> QED BY <1>2, <1>9, <2>5, <2>6, Zenon
<1> QED BY <1>13, <1>14, Zenon

\* One rank at most has sent the last of its data, and only that is returned.
LEMMA ReturnsNow ==
    ASSUME DataBusInv, returnTransaction = <<>>
    PROVE  \/ Returns = <<>> /\ \A r \in Ranks : ~ Ends(Buses[r])
           \/ \E r \in Ranks : /\ Ends(Buses[r]) /\ Returns = <<Buses[r][1].addr>>
                               /\ \A s \in Ranks : s # r => ~ Ends(Buses[s])
<1>1. \A r \in Ranks : r \in Drivers /\ Buses[r] = ranks[r].outgoing
  BY DEF Drivers, Ranks, Controller, Buses
<1>2. \A r, s \in Ranks : Ends(Buses[r]) /\ Ends(Buses[s]) => r = s
  <2>1. \A x, y \in Drivers : Buses[x] # <<>> /\ Buses[y] # <<>> => x = y
    BY OneSends, Zenon DEF DataBusInv
  <2> QED BY <1>1, <2>1, Zenon DEF Ends
<1>3. \A r \in Ranks : Returned(ranks[r]) = IF Ends(Buses[r]) THEN <<Buses[r][1].addr>>
                                            ELSE <<>>
  BY <1>1, Zenon DEF Returned, Ends
<1>4. \A r \in Ranks : Returned(ranks[r]) # <<>> <=> Ends(Buses[r])
  <2>1. \A x : <<x>> # <<>>
    BY SMT
  <2> QED BY <1>3, <2>1, Zenon
<1> DEFINE R == {r \in Ranks : Returned(ranks[r]) # <<>>}
           Nth(i) == CHOOSE r \in R : Cardinality({s \in R : s < r}) = i - 1
<1>5. Returns = returnTransaction
                  \o [i \in 1 .. Cardinality(R) |-> Returned(ranks[Nth(i)])[1]]
  BY Zenon DEF Returns
<1>6. \A r : r \in R <=> r \in Ranks /\ Ends(Buses[r])
  BY <1>4, Zenon
<1> HIDE DEF R
<1>7. CASE R = {}
  <2>1. Cardinality(R) = 0
    BY <1>7, FS_EmptySet, Zenon
  <2>2. Returns = <<>>
    BY <1>5, <2>1
  <2> QED BY <1>6, <1>7, <2>2, Zenon
<1>8. CASE R # {}
  <2>1. PICK r \in R : r \in Ranks /\ Ends(Buses[r])
    BY <1>6, <1>8, Zenon
  <2>2. R = {r}
    <3>1. \A s : s \in R <=> s = r
      BY <1>2, <1>6, <2>1, Zenon
    <3> QED BY <3>1, Zenon
  <2>3. Cardinality(R) = 1
    BY <2>2, FS_Singleton, Zenon
  <2>4. {s \in R : s < r} = {}
    BY <2>1, <2>2 DEF Ranks
  <2>5. Nth(1) = r
    BY <2>2, <2>4, FS_EmptySet
  <2> HIDE DEF Nth
  <2>6. PICK x : x = Buses[r][1].addr
    BY Zenon
  <2>7. Returned(ranks[r]) = <<x>>
    BY <1>3, <2>1, <2>6, Zenon
  <2>8. Returned(ranks[Nth(1)])[1] = x
    BY <2>5, <2>7
  <2>9. Returns = <<x>>
    BY <1>5, <2>3, <2>8
  <2> QED BY <1>2, <2>1, <2>6, <2>9, Zenon
<1> QED BY <1>7, <1>8, Zenon

\* Rank r has sent the last of the data of a read of a; the command p has rank r
\* send data of a.
Delivers(r, a) == Ends(Buses[r]) /\ Buses[r][1].addr = a
Asks(p, r, a) == p.type \in Reads /\ p.addr.rank = r /\ p.addr = a

\* The data under way: a burst that ends leaves, the read of the cycle joins.
LEMMA UnderWayStep ==
    ASSUME ChannelInv, DataBusInv, Update, NEW p, p = PoppedNow.packet,
           NEW r \in Ranks, NEW a \in Addresses
    PROVE  \E n \in Nat :
              /\ UnderWay(r, a) = n + Bit(Delivers(r, a))
              /\ UnderWay(r, a)' = n + Bit(Asks(p, r, a))
<1>1. PICK T : T = DataOf(a)
  BY Zenon
<1>2. r \in Drivers /\ r # Controller
  BY DEF Drivers, Ranks, Controller
<1>3. PICK bus, queue : bus = Buses[r] /\ queue = Lanes[r]
  BY Zenon
<1>4. Train(bus, queue)
  BY <1>2, <1>3, Zenon DEF DataBusInv, Scheduled
<1>5. PICK bus1, queue1 : bus1 = BusAfter(bus, queue) /\ queue1 = QueueAfter(queue)
  BY Zenon
<1>6. bus \in Seq(DataPackets) /\ queue \in Seq(DataPackets)
      /\ bus1 \in Seq(DataPackets) /\ queue1 \in Seq(DataPackets)
  BY <1>4, <1>5, TrainStep, Zenon DEF Train
<1>7. PICK x, y \in Nat : x = NumberIn(bus, T) /\ y = NumberIn(queue, T)
  BY <1>6, NumberNat, Zenon
<1>8. PICK x1, y1 \in Nat : x1 = NumberIn(bus1, T) /\ y1 = NumberIn(queue1, T)
  BY <1>6, NumberNat, Zenon
<1>9. PICK e \in Nat : e = Bit(Ends(bus) /\ bus[1].addr = a)
  BY Zenon DEF Bit
<1>10. x + y = x1 + y1 + e
  <2>1. NumberIn(bus, DataOf(a)) + NumberIn(queue, DataOf(a))
          = NumberIn(BusAfter(bus, queue), DataOf(a))
              + NumberIn(QueueAfter(queue), DataOf(a))
              + Bit(Ends(bus) /\ bus[1].addr = a)
    BY ONLY <1>4, BusNumbers, SMT
  <2> QED BY <1>1, <1>5, <1>7, <1>8, <1>9, <2>1, Zenon
<1>11. PICK q : q = [addr |-> p.addr, left |-> Slot(p)]
  BY Zenon
<1>12. /\ Buses'[r] = bus1
       /\ Lanes'[r] = IF Uses(p, r) THEN Append(queue1, q) ELSE queue1
  BY <1>2, <1>3, <1>5, <1>11, DataNow, Zenon
<1>13. Uses(p, r) <=> p.type \in Reads /\ p.addr.rank = r
  BY <1>2, Zenon DEF Uses
<1>14. PICK u \in Nat : u = Bit(p.type \in Reads /\ p.addr.rank = r /\ p.addr = a)
  BY Zenon DEF Bit
<1>15. NumberIn(Lanes'[r], T) = y1 + u
  <2>1. CASE Uses(p, r)
    <3>1. p.addr \in Addresses
      <4>1. p # None
        <5>1. p.type # "none" /\ None.type = "none"
          BY <1>13, <2>1, Zenon DEF Reads, None
        <5> QED BY <5>1, Zenon
      <4>2. p \in Packets
        BY <4>1, PoppedNowOK, Zenon DEF Issued
      <4> QED BY <4>2, Zenon DEF Packets
    <3>2. Slot(p) \in Nat
      <4>1. RL + 1 \in Nat /\ WL \in Nat
        BY DelaysNat
      <4> QED BY <4>1, Zenon DEF Slot
    <3>3. q \in DataPackets /\ q.addr = p.addr
      BY <1>11, <3>1, <3>2, Zenon DEF DataPackets
    <3>4. q \in T <=> p.addr = a
      BY <1>1, <3>3, Zenon DEF DataOf
    <3>5. NumberIn(Append(queue1, q), T) = NumberIn(queue1, T) + Bit(q \in T)
      BY <1>6, <3>3, NumberAppend, Zenon
    <3>6. Bit(q \in T) = u
      BY <1>13, <1>14, <2>1, <3>4, Zenon DEF Bit
    <3> QED BY <1>8, <1>12, <2>1, <3>5, <3>6, Zenon
  <2>2. CASE ~ Uses(p, r)
    <3>1. u = 0
      BY <1>13, <1>14, <2>2, Zenon DEF Bit
    <3>2. y1 = y1 + u
      BY <3>1, SMT
    <3> QED BY <1>8, <1>12, <2>2, <3>2, Zenon
  <2> QED BY <2>1, <2>2, Zenon
<1>16. UnderWay(r, a) = y + x /\ UnderWay(r, a)' = (y1 + u) + x1
  BY <1>1, <1>3, <1>7, <1>8, <1>12, <1>15, Zenon DEF UnderWay
<1>17. PICK n \in Nat : n = x1 + y1
  BY SMT
<1>18. UnderWay(r, a) = n + e /\ UnderWay(r, a)' = n + u
  <2>1. y + x = n + e /\ (y1 + u) + x1 = n + u
    BY <1>10, <1>17, SMT
  <2> QED BY <1>16, <2>1, Zenon
<1> QED BY <1>3, <1>9, <1>14, <1>18, Zenon DEF Delivers, Asks

\* A read goes back: the oldest pending read of that address is taken off.
LosesOne(s, t, x) == \A a : NumberIn(s, {a}) = NumberIn(t, {a}) + Bit(x = a)

LEMMA ReadTaken ==
    ASSUME NEW reads \in Seq(Addresses), NEW x, NumberIn(reads, {x}) # 0,
           NEW m, m = ReadMatch(reads, x), NEW t, t = Cut(reads, m, m)
    PROVE  m # 0 /\ t \in Seq(Addresses) /\ LosesOne(reads, t, x)
<1>1. PICK n \in Nat : n = Len(reads) /\ DOMAIN reads = 1 .. n
  BY SeqDomain, Zenon
<1>2. PICK I : I = {i \in DOMAIN reads : reads[i] = x}
  BY Zenon
<1>3. I # {}
  <2>1. I = {i \in DOMAIN reads : reads[i] \in {x}}
    BY <1>2, Zenon
  <2> QED BY <2>1, FS_EmptySet, Zenon DEF NumberIn
<1>4. I \in SUBSET Nat
  BY <1>1, <1>2
<1>5. m = Min(I)
  BY <1>2, <1>3, Zenon DEF ReadMatch, FirstOf
<1>6. m \in DOMAIN reads /\ reads[m] = x
  BY <1>2, <1>3, <1>4, <1>5, MinIn, Zenon
<1>7. m \in 1 .. n /\ m # 0 /\ m \in m .. n
  BY <1>1, <1>6
<1>8. PICK d : d = m - m + 1
  BY Zenon
<1>9. /\ t \in Seq(Addresses) /\ Len(t) = n - d
      /\ \A k \in 1 .. n - d : t[k] = IF k < m THEN reads[k] ELSE reads[k + d]
  <2>1. reads \in Seq(Addresses) /\ m \in 1 .. Len(reads) /\ m \in m .. Len(reads)
    BY <1>1, <1>7, Zenon
  <2>2. /\ Cut(reads, m, m) \in Seq(Addresses)
        /\ Len(Cut(reads, m, m)) = Len(reads) - (m - m + 1)
        /\ \A k \in 1 .. Len(reads) - (m - m + 1) :
              Cut(reads, m, m)[k] = IF k < m THEN reads[k] ELSE reads[k + (m - m + 1)]
    BY ONLY <2>1, CutShape, Zenon
  <2> QED BY <1>1, <1>8, <2>2, Zenon
<1>10. ASSUME NEW a
       PROVE  NumberIn(reads, {a}) = NumberIn(t, {a}) + Bit(x = a)
  <2>1. PICK T : T = {a}
    BY Zenon
  <2>2. \A k \in 1 .. n - d : t[k] \in T <=> reads[IF k < m THEN k ELSE k + d] \in T
    BY <1>9, Zenon
  <2>3. \A k \in m .. m - 1 : reads[k] \notin T
    BY <1>7
  <2>4. CutsOut(reads, t, T, m, m, d)
    BY <1>1, <1>7, <1>8, <1>9, <2>2, <2>3, Zenon DEF CutsOut
  <2>5. reads \in Seq(Addresses) /\ t \in Seq(Addresses)
    BY <1>9, Zenon
  <2>6. NumberIn(reads, T) = NumberIn(t, T) + Bit(reads[m] \in T)
    BY ONLY <2>4, <2>5, NumberCut, Zenon
  <2>7. reads[m] \in T <=> x = a
    BY <1>6, <2>1, Zenon
  <2> QED BY <2>1, <2>6, <2>7, Zenon DEF Bit
<1> QED BY <1>7, <1>9, <1>10, Zenon DEF LosesOne

\* A read is counted in one place before and after a cycle.
LEMMA ReadsMove ==
    ASSUME ChannelInv, DataBusInv, ReadsInv, Update, NEW reads, NEW a \in Addresses,
           \E n \in Nat : /\ NumberIn(reads, {a}) = NumberIn(pendingReads, {a}) + n
                          /\ QueuedReads(QueueNow.queues, a)
                               = QueuedReads(PoppedNow.cq.queues, a) + n,
           NEW m \in Nat, NumberIn(reads, {a}) = m + Bit(Delivers(a.rank, a))
    PROVE  m = QueuedReads(cq.queues, a)' + UnderWay(a.rank, a)'
<1>1. PICK p : p = PoppedNow.packet
  BY Zenon
<1>2. a.rank \in Ranks /\ QueueIndex(a.bank) \in Banks
  BY QueueIndexType, Zenon DEF Addresses
<1>3. PICK z \in Nat : z = NumberIn(pendingReads, {a})
  BY NumberNat, Zenon DEF ReadsInv
<1>4. PICK n \in Nat : /\ NumberIn(reads, {a}) = z + n
                       /\ QueuedReads(QueueNow.queues, a)
                            = QueuedReads(PoppedNow.cq.queues, a) + n
  BY <1>3, Zenon
<1>5. PICK u \in Nat : /\ UnderWay(a.rank, a) = u + Bit(Delivers(a.rank, a))
                       /\ UnderWay(a.rank, a)' = u + Bit(Asks(p, a.rank, a))
  BY <1>1, <1>2, UnderWayStep, Zenon
<1>6. QueuedReads(cq.queues, a) = QueuedReads(PoppedNow.cq.queues, a)
                                    + Bit(p.type \in Reads /\ p.addr = a)
  <2>1. PICK v, w : v = Contents(cq) /\ w = Contents(PoppedNow.cq)
    BY Zenon
  <2>2. v.queues = cq.queues /\ w.queues = PoppedNow.cq.queues
    BY <2>1, Zenon DEF Contents
  <2>3. QueueOK(cq) /\ Orderly(cq.queues)
    BY Zenon DEF ChannelInv
  <2>4. v.queues \in Queues /\ Orderly(v.queues)
    BY <2>2, <2>3, QueueFields, Zenon DEF QueueOK
  <2>5. Follows(v, BanksCountedDown, w, p) /\ a \in Addresses
    BY <1>1, <2>1, PoppedNowOK, Zenon DEF PopOK
  <2>6. QueuedReads(v.queues, a)
          = QueuedReads(w.queues, a) + Bit(p.type \in Reads /\ p.addr = a)
    BY ONLY <2>4, <2>5, FollowsReads, SMT
  <2> QED BY <2>2, <2>6, Zenon
<1>7. PICK h \in Nat : h = QueuedReads(PoppedNow.cq.queues, a)
  <2>1. PoppedNow.cq.queues \in Queues
    BY PoppedNowOK, QueueFields, Zenon DEF PopOK, QueueOK
  <2>2. PoppedNow.cq.queues[a.rank][QueueIndex(a.bank)] \in Seq(QueuedPackets)
    BY <1>2, <2>1, Zenon DEF Queues
  <2> QED BY <2>2, NumberNat, Zenon DEF QueuedReads
<1>8. PICK e \in Nat : e = Bit(Delivers(a.rank, a))
  BY Zenon DEF Bit
<1>9. PICK s \in Nat : s = Bit(p.type \in Reads /\ p.addr = a)
  BY Zenon DEF Bit
<1>10. UnderWay(a.rank, a) = u + e /\ UnderWay(a.rank, a)' = u + s
  <2>1. Bit(Asks(p, a.rank, a)) = s
    BY <1>9, Zenon DEF Bit, Asks
  <2> QED BY <1>5, <1>8, <2>1, Zenon
<1>11. QueuedReads(cq.queues, a) = h + s /\ QueuedReads(QueueNow.queues, a) = h + n
  BY <1>4, <1>6, <1>7, <1>9, Zenon
<1>12. z = (h + s) + (u + e) /\ z + n = m + e
  BY <1>3, <1>4, <1>8, <1>10, <1>11, Zenon DEF ReadsInv
<1>13. m = (h + n) + (u + s)
  BY <1>12, SMT
<1>14. QueuedReads(cq.queues, a)' = h + n
  <2>1. cq' = QueueNow
    BY UpdateParts, Zenon
  <2> QED BY <1>11, <2>1, Zenon DEF QueuedReads
<1> QED BY <1>10, <1>13, <1>14, Zenon

\* Data that comes back finds a pending read, and ReadsInv is kept.
LEMMA UpdateReads ==
    ASSUME ChannelInv, DataBusInv, ReadsInv, Update
    PROVE  ReadsInv' /\ "NoMatchingRead" \notin errors'
<1>1. PICK p : p = PoppedNow.packet
  BY Zenon
<1>2. pendingReads \in Seq(Addresses) /\ returnTransaction = <<>>
  BY Zenon DEF ReadsInv
<1>3. PICK reads \in Seq(Addresses) :
        /\ Return(PoppedNow.packet, QueueNow, reads, Returns,
                  IF Returns = <<>> THEN 0 ELSE ReadMatch(reads, Returns[1]))
        /\ \A a \in Addresses : \E n \in Nat :
              /\ NumberIn(reads, {a}) = NumberIn(pendingReads, {a}) + n
              /\ QueuedReads(QueueNow.queues, a)
                   = QueuedReads(PoppedNow.cq.queues, a) + n
  BY <1>2, ReadsJoin, Zenon
<1>4. ASSUME NEW r \in Ranks, NEW a \in Addresses, r # a.rank
      PROVE  ~ Delivers(r, a) /\ UnderWay(r, a)' = 0
  <2>1. PICK n \in Nat : /\ UnderWay(r, a) = n + Bit(Delivers(r, a))
                         /\ UnderWay(r, a)' = n + Bit(Asks(p, r, a))
    BY <1>1, UnderWayStep, Zenon
  <2>2. UnderWay(r, a) = 0
    BY <1>4, Zenon DEF ReadsInv
  <2>3. n + 1 # 0 /\ n + 0 = n
    BY SMT
  <2>4. ~ Delivers(r, a)
    BY <2>1, <2>2, <2>3, Zenon DEF Bit
  <2>5. ~ Asks(p, r, a)
    BY <1>4, Zenon DEF Asks
  <2> QED BY <2>1, <2>2, <2>3, <2>4, <2>5, Zenon DEF Bit
<1>5. ASSUME NEW t \in Seq(Addresses),
             \A a \in Addresses : NumberIn(reads, {a})
                                    = NumberIn(t, {a}) + Bit(Delivers(a.rank, a)),
             pendingReads' = t, returnTransaction' = <<>>
      PROVE  ReadsInv'
  <2>1. ASSUME NEW a \in Addresses
        PROVE  NumberIn(pendingReads, {a})' = QueuedReads(cq.queues, a)' + UnderWay(a.rank, a)'
    <3>1. PICK m \in Nat : m = NumberIn(t, {a})
      BY NumberNat, Zenon
    <3>2. NumberIn(reads, {a}) = m + Bit(Delivers(a.rank, a))
      BY <1>5, <3>1, Zenon
    <3>3. m = QueuedReads(cq.queues, a)' + UnderWay(a.rank, a)'
      BY <1>3, <3>2, ReadsMove, Zenon
    <3> QED BY <1>5, <3>1, <3>3, Zenon
  <2> QED BY <1>4, <1>5, <2>1, Zenon DEF ReadsInv
<1>6. CASE Returns = <<>> /\ \A r \in Ranks : ~ Ends(Buses[r])
  <2>1. pendingReads' = reads /\ returnTransaction' = <<>>
    BY <1>3, <1>6, Zenon DEF Return
  <2>2. "NoMatchingRead" \notin errors'
    BY <1>3, <1>6, Zenon DEF Return
  <2>3. ASSUME NEW a \in Addresses
        PROVE  NumberIn(reads, {a}) = NumberIn(reads, {a}) + Bit(Delivers(a.rank, a))
    <3>1. PICK m \in Nat : m = NumberIn(reads, {a})
      BY NumberNat, Zenon
    <3>2. m = m + 0
      BY SMT
    <3>3. ~ Delivers(a.rank, a)
      BY <1>6, Zenon DEF Delivers, Addresses
    <3> QED BY <3>1, <3>2, <3>3, Zenon DEF Bit
  <2> QED BY <1>5, <2>1, <2>2, <2>3, Zenon
<1>7. ASSUME NEW r \in Ranks, Ends(Buses[r]), Returns = <<Buses[r][1].addr>>,
             \A s \in Ranks : s # r => ~ Ends(Buses[s])
      PROVE  ReadsInv' /\ "NoMatchingRead" \notin errors'
  <2>1. PICK x : x = Buses[r][1].addr
    BY Zenon
  <2>2. x \in Addresses
    <3>1. Train(Buses[r], Lanes[r])
      BY Zenon DEF DataBusInv, Scheduled, Drivers
    <3>2. Buses[r] \in Seq(DataPackets) /\ Len(Buses[r]) = 1
      BY <1>7, <3>1, Zenon DEF Train, Ends
    <3>3. Buses[r][1] \in DataPackets
      BY <3>2
    <3> QED BY <2>1, <3>3, Zenon DEF DataPackets
  <2>3. Delivers(r, x) /\ r = x.rank
    BY <1>4, <1>7, <2>1, <2>2, Zenon DEF Delivers
  <2>4. NumberIn(reads, {x}) # 0
    <3>1. PICK n \in Nat : UnderWay(r, x) = n + Bit(Delivers(r, x))
      BY <2>2, UnderWayStep, Zenon
    <3>2. UnderWay(r, x) = n + 1
      BY <2>3, <3>1, Zenon DEF Bit
    <3>3. PICK h \in Nat : h = QueuedReads(cq.queues, x)
      <4>1. QueueIndex(x.bank) \in Banks /\ cq.queues \in Queues
        BY <2>2, QueueIndexType, QueueFields, Zenon DEF Addresses, ChannelInv, QueueOK
      <4>2. cq.queues[x.rank][QueueIndex(x.bank)] \in Seq(QueuedPackets)
        BY <2>3, <4>1, Zenon DEF Queues
      <4> QED BY <4>2, NumberNat, Zenon DEF QueuedReads
    <3>4. NumberIn(pendingReads, {x}) = h + (n + 1)
      BY <2>2, <2>3, <3>2, <3>3, Zenon DEF ReadsInv
    <3>5. PICK j \in Nat : NumberIn(reads, {x}) = NumberIn(pendingReads, {x}) + j
      BY <1>3, <2>2, Zenon
    <3>6. (h + (n + 1)) + j # 0
      BY SMT
    <3> QED BY <3>4, <3>5, <3>6, Zenon
  <2>5. PICK m : m = ReadMatch(reads, x)
    BY Zenon
  <2>6. PICK t : t = Cut(reads, m, m)
    BY Zenon
  <2>7. /\ m # 0 /\ t \in Seq(Addresses)
        /\ \A a : NumberIn(reads, {a}) = NumberIn(t, {a}) + Bit(x = a)
    <3>1. reads \in Seq(Addresses)
      BY <1>3, Zenon
    <3>2. m # 0 /\ t \in Seq(Addresses) /\ LosesOne(reads, t, x)
      BY ONLY <2>4, <2>5, <2>6, <3>1, ReadTaken, Zenon
    <3> QED BY <3>2, Zenon DEF LosesOne
  <2>8. Returns = <<x>> /\ Returns # <<>> /\ Returns[1] = x /\ Tail(Returns) = <<>>
    <3>1. <<x>> # <<>> /\ <<x>>[1] = x /\ Tail(<<x>>) = <<>>
      BY SMT
    <3> QED BY <1>7, <2>1, <3>1, Zenon
  <2>9. Return(PoppedNow.packet, QueueNow, reads, Returns, m)
    BY <1>3, <2>5, <2>8, Zenon
  <2>10. pendingReads' = t /\ returnTransaction' = <<>> /\ "NoMatchingRead" \notin errors'
    <3>1. m # 0
      BY <2>7, Zenon
    <3>2. pendingReads' = t
      BY <2>6, <2>9, <3>1, Zenon DEF Return
    <3>3. returnTransaction' = <<>>
      BY <2>8, <2>9, Zenon DEF Return
    <3>4. "NoMatchingRead" \notin errors'
      BY <2>9, <3>1, Zenon DEF Return
    <3> QED BY <3>2, <3>3, <3>4, Zenon
  <2>11. ASSUME NEW a \in Addresses
         PROVE  NumberIn(reads, {a}) = NumberIn(t, {a}) + Bit(Delivers(a.rank, a))
    <3>1. x = a <=> Delivers(a.rank, a)
      BY <1>7, <2>1, <2>3, Zenon DEF Delivers, Addresses
    <3> QED BY <2>7, <3>1, Zenon DEF Bit
  <2> QED BY <1>5, <2>7, <2>10, <2>11, Zenon
<1> QED BY <1>2, <1>6, <1>7, ReturnsNow, Zenon

LEMMA InitReads == Init => ReadsInv
<1> SUFFICES ASSUME Init PROVE ReadsInv
  BY Zenon
<1>1. \A r \in Ranks : /\ ranks[r].outgoing = <<>> /\ ranks[r].returning = <<>>
                       /\ Arriving(r) = None
  BY Zenon DEF Init, InitRank, Arriving, InFlight
<1>2. None.type \notin Reads
  BY Zenon DEF None, Reads
<1>3. \A r \in Ranks : r \in Drivers /\ r # Controller
  BY DEF Drivers, Ranks, Controller
<1>4. \A r \in Ranks : Buses[r] = <<>> /\ Lanes[r] = <<>>
  BY <1>1, <1>2, <1>3, Zenon DEF Buses, Lanes, Incoming
<1>5. \A r \in Ranks : \A a : UnderWay(r, a) = 0 + 0
  BY <1>4, NumberEmpty, Zenon DEF UnderWay
<1>6. 0 = 0 + 0 /\ <<>> \in Seq(Addresses)
  BY SMT
<1>7. \A a \in Addresses : a.rank \in Ranks /\ QueueIndex(a.bank) \in Banks
  BY QueueIndexType, Zenon DEF Addresses
<1>8. \A a \in Addresses : QueuedReads(cq.queues, a) = 0
  <2>1. \A r \in Ranks, b \in Banks : cq.queues[r][b] = <<>>
    BY Zenon DEF Init, InitCommandQueue
  <2> QED BY <1>7, <2>1, NumberEmpty, Zenon DEF QueuedReads
<1>9. \A a : NumberIn(pendingReads, {a}) = 0
  BY NumberEmpty, Zenon DEF Init
<1>10. pendingReads = <<>> /\ returnTransaction = <<>>
  BY Zenon DEF Init
<1> QED BY <1>5, <1>6, <1>7, <1>8, <1>9, <1>10, Zenon DEF ReadsInv

LEMMA NextReads ==
    /\ ChannelInv /\ DataBusInv /\ ReadsInv /\ [Next]_vars
    => ReadsInv'
<1> SUFFICES ASSUME ChannelInv, DataBusInv, ReadsInv, [Next]_vars
             PROVE  ReadsInv'
  BY Zenon
<1>1. ASSUME UNCHANGED <<cq, ranks, cmdBus, dataBus, writeData, pendingReads,
                         returnTransaction>>
      PROVE  ReadsInv'
  <2>1. Buses' = Buses /\ Lanes' = Lanes
    BY <1>1 DEF Buses, Lanes, Arriving, InFlight
  <2> QED BY <1>1, <2>1, Zenon DEF ReadsInv, UnderWay, QueuedReads
<1>2. CASE Update
  BY <1>2, UpdateReads, Zenon
<1>3. ASSUME NEW t \in Transactions, AddTransaction(t)
      PROVE  ReadsInv'
  BY <1>1, <1>3, Zenon DEF AddTransaction
<1>4. CASE UNCHANGED vars
  BY <1>1, <1>4, Zenon DEF vars
<1> QED BY <1>2, <1>3, <1>4, Zenon DEF Next

\* The inductive form: for every address, as many packets of the command queue,
\* of the rank and of its bus carry a read as reads are pending.
THEOREM ReadsInvariant ==
    ASSUME BusSpaced
    PROVE  Spec => []ReadsInv
<1>1. ChannelInv /\ DataBusInv /\ ReadsInv /\ [Next]_vars => ReadsInv'
  BY NextReads, Zenon
<1> QED BY <1>1, InitReads, ChannelInvariant, DataBusInvariant, PTL DEF Spec

\* The controller never ends the program: none of the exits of
\* MemoryController::update and CommandQueue::enqueue is ever taken, and data
\* that comes back always finds a pending read (returnReadData).
THEOREM NeverAborts ==
    ASSUME BusSpaced
    PROVE  Spec => []ControllerNeverAborts
<1>1. Init => "NoMatchingRead" \notin errors /\ errors \subseteq ErrorKinds
  BY Zenon DEF Init
<1>2. ASSUME ChannelInv, DataBusInv, ReadsInv, Update
      PROVE  ("NoMatchingRead" \notin errors /\ errors \subseteq ErrorKinds)'
  <2>1. "NoMatchingRead" \notin errors'
    BY <1>2, UpdateReads, Zenon
  <2>2. PICK reads, match : Return(PoppedNow.packet, QueueNow, reads, Returns, match)
    BY <1>2, UpdateReturns, Zenon
  <2>3. errors' \subseteq ErrorKinds
    BY <2>2, Zenon DEF Return, ErrorKinds
  <2> QED BY <2>1, <2>3, Zenon
<1>3. ChannelInv /\ DataBusInv /\ ReadsInv /\ [Next]_vars
      /\ "NoMatchingRead" \notin errors /\ errors \subseteq ErrorKinds
        => ("NoMatchingRead" \notin errors /\ errors \subseteq ErrorKinds)'
  BY <1>2, Zenon DEF Next, AddTransaction, vars
<1>4. /\ "NoMatchingRead" \notin errors /\ errors \subseteq ErrorKinds
      /\ "DataBusCollision" \notin errors /\ errors \cap CommandErrors = {}
      => ControllerNeverAborts
  BY Zenon DEF ErrorKinds, CommandErrors, ControllerNeverAborts
<1> QED BY <1>1, <1>3, <1>4, ChannelInvariant, DataBusInvariant, ReadsInvariant,
           WritesNeverCollide, CommandsAlwaysFit, PTL DEF Spec

\* The places that ReadsCarriedOnce counts are those of ReadsInv.
LEMMA CarriersCounted ==
    ASSUME ChannelInv, DataBusInv, ReadsInv, NEW a \in Addresses
    PROVE  ReadCarriers(a) = QueuedReads(cq.queues, a) + UnderWay(a.rank, a)
<1>1. PICK r \in Ranks : r = a.rank
  BY Zenon DEF Addresses
<1>2. PICK q : q = cq.queues[r][QueueIndex(a.bank)]
  BY Zenon
<1>3. PICK T : T = DataOf(a)
  BY Zenon
<1>4. ReadCarriers(a) =
        Cardinality({i \in DOMAIN q : q[i].type \in Reads /\ q[i].addr = a})
        + Cardinality({i \in DOMAIN cmdBus : /\ cmdBus[i].packet.type \in Reads
                                             /\ cmdBus[i].packet.addr = a})
        + Cardinality({i \in DOMAIN ranks[r].returning : ranks[r].returning[i].addr = a})
        + Cardinality({i \in DOMAIN ranks[r].outgoing : ranks[r].outgoing[i].addr = a})
        + Cardinality({i \in DOMAIN returnTransaction : returnTransaction[i] = a})
  BY <1>1, <1>2, Zenon DEF ReadCarriers, Count
<1>5. q \in Seq(QueuedPackets)
  <2>1. QueueIndex(a.bank) \in Banks /\ cq.queues \in Queues
    BY QueueIndexType, QueueFields, Zenon DEF Addresses, ChannelInv, QueueOK
  <2> QED BY <1>2, <2>1, Zenon DEF Queues
<1>6. PICK n1 \in Nat :
        /\ n1 = Cardinality({i \in DOMAIN q : q[i].type \in Reads /\ q[i].addr = a})
        /\ n1 = QueuedReads(cq.queues, a)
  <2>1. \A i \in DOMAIN q : q[i] \in QueuedPackets
    BY <1>5
  <2>2. {i \in DOMAIN q : q[i].type \in Reads /\ q[i].addr = a}
          = {i \in DOMAIN q : q[i] \in ReadsOf(a)}
    BY <2>1, Zenon DEF ReadsOf
  <2>3. QueuedReads(cq.queues, a) = NumberIn(q, ReadsOf(a))
    BY <1>1, <1>2, Zenon DEF QueuedReads
  <2>4. NumberIn(q, ReadsOf(a)) \in Nat
    BY <1>5, NumberNat, Zenon
  <2>5. NumberIn(q, ReadsOf(a)) = Cardinality({i \in DOMAIN q : q[i] \in ReadsOf(a)})
    BY Zenon DEF NumberIn
  <2> QED BY <2>2, <2>3, <2>4, <2>5, Zenon
<1>7. /\ r \in Drivers /\ Buses[r] = ranks[r].outgoing
      /\ Lanes[r] = Incoming(ranks[r], Arriving(r))
  BY DEF Drivers, Ranks, Controller, Buses, Lanes
<1>8. PICK back, out : back = ranks[r].returning /\ out = ranks[r].outgoing
  BY Zenon
<1>9. back \in Seq(DataPackets) /\ out \in Seq(DataPackets)
  <2>1. Train(Buses[r], Lanes[r])
    BY <1>7, Zenon DEF DataBusInv, Scheduled
  <2> QED BY <1>7, <1>8, <2>1, Zenon DEF DataBusInv, Train
<1>10. ASSUME NEW s \in Seq(DataPackets)
       PROVE  NumberIn(s, T) = Cardinality({i \in DOMAIN s : s[i].addr = a})
  <2>1. \A i \in DOMAIN s : s[i] \in DataPackets
    OBVIOUS
  <2>2. {i \in DOMAIN s : s[i].addr = a} = {i \in DOMAIN s : s[i] \in T}
    BY <1>3, <2>1, Zenon DEF DataOf
  <2> QED BY <2>2, Zenon DEF NumberIn
<1>11. PICK n3, n4 \in Nat :
         /\ n3 = NumberIn(back, T) /\ n4 = NumberIn(out, T)
         /\ n3 = Cardinality({i \in DOMAIN ranks[r].returning :
                                 ranks[r].returning[i].addr = a})
         /\ n4 = Cardinality({i \in DOMAIN ranks[r].outgoing :
                                 ranks[r].outgoing[i].addr = a})
  BY <1>8, <1>9, <1>10, NumberNat, Zenon
<1>12. Cardinality({i \in DOMAIN returnTransaction : returnTransaction[i] = a}) = 0
  <2>1. returnTransaction = <<>>
    BY Zenon DEF ReadsInv
  <2>2. {i \in DOMAIN returnTransaction : returnTransaction[i] = a} = {}
    BY <2>1
  <2> QED BY <2>2, FS_EmptySet, Zenon
<1>13. PICK n2 \in Nat :
         /\ n2 = Cardinality({i \in DOMAIN cmdBus : /\ cmdBus[i].packet.type \in Reads
                                                    /\ cmdBus[i].packet.addr = a})
         /\ NumberIn(Lanes[r], T) = n3 + n2
  <2>1. PICK C : C = {i \in DOMAIN cmdBus : /\ cmdBus[i].packet.type \in Reads
                                            /\ cmdBus[i].packet.addr = a}
    BY Zenon
  <2>2. ASSUME C = {}, Arriving(r).type \in Reads => Arriving(r).addr # a,
               Arriving(r) \in Packets \cup {None}
        PROVE  Cardinality(C) = 0 /\ NumberIn(Lanes[r], T) = n3 + 0
    <3>1. Cardinality(C) = 0
      BY <2>2, FS_EmptySet, Zenon
    <3>2. n3 = n3 + 0 /\ RL + 1 \in Nat
      BY DelaysNat
    <3>3. CASE Arriving(r).type \in Reads
      <4>1. PICK d : d = [addr |-> Arriving(r).addr, left |-> RL + 1]
        BY Zenon
      <4>2. Arriving(r).addr \in Addresses
        <5>1. None.type \notin Reads
          BY Zenon DEF None, Reads
        <5> QED BY <2>2, <3>3, <5>1, Zenon DEF Packets
      <4>3. d \in DataPackets /\ d \notin T
        BY <1>3, <2>2, <3>2, <3>3, <4>1, <4>2, Zenon DEF DataPackets, DataOf
      <4>4. Lanes[r] = Append(back, d)
        BY <1>7, <1>8, <3>3, <4>1, Zenon DEF Incoming
      <4>5. NumberIn(Append(back, d), T) = NumberIn(back, T) + Bit(d \in T)
        BY <1>9, <4>3, NumberAppend, Zenon
      <4> QED BY <1>11, <3>1, <4>3, <4>4, <4>5, Zenon DEF Bit
    <3>4. CASE Arriving(r).type \notin Reads
      <4>1. Lanes[r] = back
        BY <1>7, <1>8, <3>4, Zenon DEF Incoming
      <4> QED BY <1>11, <3>1, <3>2, <4>1, Zenon
    <3> QED BY <3>3, <3>4, Zenon
  <2>3. CASE cmdBus = <<>>
    <3>1. C = {}
      BY <2>1, <2>3
    <3>2. Arriving(r) = None /\ None.type \notin Reads
      BY <2>3, Zenon DEF Arriving, InFlight, None, Reads
    <3>3. 0 \in Nat
      BY SMT
    <3> QED BY <2>1, <2>2, <3>1, <3>2, <3>3, Zenon
  <2>4. ASSUME NEW p \in Packets, cmdBus = <<[packet |-> p, left |-> 1]>>
        PROVE  \E n \in Nat : n = Cardinality(C) /\ NumberIn(Lanes[r], T) = n3 + n
    <3>1. DOMAIN cmdBus = {1} /\ cmdBus # <<>>
      BY <2>4
    <3>2. cmdBus[1].packet = p
      BY <2>4, Zenon
    <3>3. p.addr \in Addresses
      BY Zenon DEF Packets
    <3>4. CASE p.type \in Reads /\ p.addr = a
      <4>1. C = {1}
        BY <2>1, <3>1, <3>2, <3>4, Zenon
      <4>2. Cardinality(C) = 1 /\ 1 \in Nat
        <5>1. 1 \in Nat
          BY SMT
        <5> QED BY <4>1, <5>1, FS_Singleton, Zenon
      <4>3. Arriving(r) = p
        BY <1>1, <3>1, <3>2, <3>4, Zenon DEF Arriving, InFlight
      <4>4. PICK d : d = [addr |-> p.addr, left |-> RL + 1]
        BY Zenon
      <4>5. RL + 1 \in Nat
        BY DelaysNat
      <4>6. d \in DataPackets /\ d \in T
        BY <1>3, <3>3, <3>4, <4>4, <4>5, Zenon DEF DataPackets, DataOf
      <4>7. Lanes[r] = Append(back, d)
        BY <1>7, <1>8, <3>4, <4>3, <4>4, Zenon DEF Incoming
      <4>8. NumberIn(Append(back, d), T) = NumberIn(back, T) + Bit(d \in T)
        <5>1. back \in Seq(DataPackets) /\ d \in DataPackets
          BY <1>9, <4>6, Zenon
        <5> QED BY ONLY <5>1, NumberAppend, Zenon
      <4>9. Bit(d \in T) = 1
        BY <4>6, Zenon DEF Bit
      <4>10. NumberIn(Lanes[r], T) = n3 + 1
        BY <1>11, <4>7, <4>8, <4>9, Zenon
      <4> QED BY <4>2, <4>10, Zenon
    <3>5. CASE ~ (p.type \in Reads /\ p.addr = a)
      <4>1. C = {}
        BY <2>1, <3>1, <3>2, <3>5, Zenon
      <4>2. Arriving(r) = p \/ Arriving(r) = None
        BY <3>2, Zenon DEF Arriving
      <4>3. None.type \notin Reads /\ 0 \in Nat
        <5>1. 0 \in Nat
          BY SMT
        <5> QED BY <5>1, Zenon DEF None, Reads
      <4> QED BY <2>2, <3>5, <4>1, <4>2, <4>3, Zenon
    <3> QED BY <3>4, <3>5, Zenon
  <2> QED BY <2>1, <2>3, <2>4, Zenon DEF ChannelInv, BusOK
<1>14. ReadCarriers(a) = n1 + n2 + n3 + n4 + 0
  BY <1>4, <1>6, <1>11, <1>12, <1>13, Zenon
<1>15. UnderWay(a.rank, a) = (n3 + n2) + n4
  BY <1>1, <1>3, <1>7, <1>8, <1>11, <1>13, Zenon DEF UnderWay
<1>16. n1 + n2 + n3 + n4 + 0 = n1 + ((n3 + n2) + n4)
  BY SMT
<1> QED BY <1>6, <1>14, <1>15, <1>16, Zenon

\* A read is never lost and never answered twice: every pending read of the
\* controller is carried by one packet, queued, on a bus, in its rank or on
\* the way back.
THEOREM NoReadLost ==
    ASSUME BusSpaced
    PROVE  Spec => []ReadsCarriedOnce
<1>1. ASSUME ChannelInv, DataBusInv, ReadsInv PROVE ReadsCarriedOnce
  <2>1. ASSUME NEW a \in Addresses
        PROVE  Cardinality({i \in DOMAIN pendingReads : pendingReads[i] = a})
                 = ReadCarriers(a)
    <3>1. {i \in DOMAIN pendingReads : pendingReads[i] = a}
            = {i \in DOMAIN pendingReads : pendingReads[i] \in {a}}
      BY Zenon
    <3>2. NumberIn(pendingReads, {a}) = ReadCarriers(a)
      BY <1>1, CarriersCounted, Zenon DEF ReadsInv
    <3> QED BY <3>1, <3>2, Zenon DEF NumberIn
  <2> QED BY <2>1, Zenon DEF ReadsCarriedOnce, Count
<1>2. ChannelInv /\ DataBusInv /\ ReadsInv => ReadsCarriedOnce
  BY <1>1, Zenon
<1> QED BY <1>2, ChannelInvariant, DataBusInvariant, ReadsInvariant, PTL

-----------------------------------------------------------------------------
(* The rules of the policy-free scheduler *)

\* The theorems about the scheduler, read for the channel's state.
Rules == INSTANCE CommandSchedulingProofs WITH
    Bank <- BankIds, Row <- Rows, Queue <- BankIds, QueueOf <- QueueOfBank,
    Closed <- NoRow, Depth <- CMD_QUEUE_DEPTH, Accesses <- TOTAL_ROW_ACCESSES,
    AutoPrecharge <- ClosePage,
    queue <- seenQueue, open <- openRows, counter <- accessCounts

\* What the scheduler assumes of its constants holds of the channel's.
LEMMA RulesQueue == Rules!QueueAssumption
<1>1. QueueOfBank \in [BankIds -> BankIds]
  <2>1. ASSUME NEW k \in BankIds PROVE <<k[1], QueueIndex(k[2])>> \in BankIds
    BY GeometryAssumption DEF BankIds, QueueIndex, Banks
  <2> QED BY <2>1, Zenon DEF QueueOfBank
<1>2. NoRow \notin Rows
  BY GeometryAssumption DEF NoRow, Rows
<1>3. CMD_QUEUE_DEPTH \in Nat
  BY GeometryAssumption, Zenon
<1> QED BY <1>1, <1>2, <1>3, Zenon DEF Rules!QueueAssumption

LEMMA RulesAccess == Rules!AccessAssumption
BY GeometryAssumption, RowAccessAssumption, Zenon DEF Rules!AccessAssumption

LEMMA RulesPolicy == Rules!PolicyAssumption
BY GeometryAssumption, Zenon DEF Rules!PolicyAssumption

\* A step of the channel is a step of the scheduler or none at all.
LEMMA StepMaps ==
    /\ ChannelInv /\ Rules!OrphanRowOpen /\ [Next]_vars
    => [Rules!Next]_(Rules!vars)
<1>UpdateMaps.
    /\ ChannelInv /\ Rules!OrphanRowOpen /\ Update
    => Rules!Next
\* One transaction at most joins the queues in a cycle.
  <2>EnqueueMaps.
      ASSUME NEW q1,
             \/ seenQueue' = q1
             \/ \E b \in BankIds, row \in Rows : SeesJoin(q1, seenQueue', b, row)
      PROVE  Rules!Enqueue(q1)
    <3> USE <2>EnqueueMaps
    <3>1. ASSUME NEW b \in BankIds, NEW row \in Rows, SeesJoin(q1, seenQueue', b, row)
          PROVE  /\ Len(q1[QueueOfBank[b]]) + 2 <= CMD_QUEUE_DEPTH
                 /\ seenQueue' = Rules!Enqueued(q1, b, row)
      BY <3>1, Zenon DEF SeesJoin, Rules!Enqueued
    <3> QED BY <3>1, Zenon DEF Rules!Enqueue

  \* What QueueProofs says of one command, in the scheduler's own words.
  <2>ActivateMaps.
      ASSUME NEW q1, Rules!Enqueue(q1), NEW k, NEW i,
             SeesActivate(seenQueue, openRows, accessCounts,
                          q1, openRows', accessCounts', k, i)
      PROVE  Rules!Activate(k, i)
    <3> USE <2>ActivateMaps
    <3>1. Rules!MayActivate(k, i)
      BY Zenon DEF SeesActivate, SeenFirst, SeenSameRow,
                   Rules!MayActivate, Rules!First, Rules!SameRow
    <3>2. q1 = [seenQueue EXCEPT ![k] = Rules!Cut(seenQueue[k], i, i)]
      BY Zenon DEF SeesActivate, CutOut, Rules!Cut
    <3>3. Rules!Counted(seenQueue[k][i].bank)
      BY Zenon DEF SeesActivate, SeenCount, Rules!Counted
    <3>4. openRows' = [openRows EXCEPT ![seenQueue[k][i].bank] = seenQueue[k][i].row]
      BY Zenon DEF SeesActivate
    <3> QED BY <3>1, <3>2, <3>3, <3>4, Zenon DEF Rules!Activate

  <2>AccessMaps.
      ASSUME NEW q1, Rules!Enqueue(q1), NEW k, NEW i,
             SeesAccess(seenQueue, openRows, accessCounts,
                        q1, openRows', accessCounts', k, i)
      PROVE  Rules!Access(k, i)
    <3> USE <2>AccessMaps
    <3>1. SeenPaired(seenQueue[k], i) <=> Rules!Paired(seenQueue[k], i)
      BY Zenon DEF SeenPaired, SeenSameRow, Rules!Paired, Rules!SameRow
    <3>2. SeenFirst(seenQueue[k], i) <=> Rules!First(seenQueue[k], i)
      BY Zenon DEF SeenFirst, SeenSameRow, Rules!First, Rules!SameRow
    <3>3. Rules!MayAccess(k, i)
      BY <3>1, <3>2, Zenon DEF SeesAccess, Rules!MayAccess
    <3>4. q1 = [seenQueue EXCEPT ![k] =
                  Rules!Cut(seenQueue[k],
                            IF Rules!Paired(seenQueue[k], i) THEN i - 1 ELSE i, i)]
      BY <3>1, Zenon DEF SeesAccess, CutOut, Rules!Cut
    <3>5. Rules!Counted(seenQueue[k][i].bank) /\ Rules!AfterAccess(seenQueue[k][i].bank)
      BY Zenon DEF SeesAccess, SeenCount, SeenAccessed, Rules!Counted, Rules!AfterAccess
    <3> QED BY <3>3, <3>4, <3>5, Zenon DEF Rules!Access

  <2>DrainMaps.
      ASSUME NEW q1, Rules!Enqueue(q1), NEW k, NEW i,
             SeesDrain(seenQueue, openRows, accessCounts,
                       q1, openRows', accessCounts', k, i)
      PROVE  Rules!Drain(k, i)
    <3> USE <2>DrainMaps
    <3>1. Rules!MayDrain(k, i)
      BY Zenon DEF SeesDrain, SeenFirstForRow, Rules!MayDrain, Rules!FirstForOpenRow
    <3>2. q1 = [seenQueue EXCEPT ![k] = Rules!Cut(seenQueue[k], i, i)]
      BY Zenon DEF SeesDrain, CutOut, Rules!Cut
    <3>3. Rules!AfterAccess(seenQueue[k][i].bank) /\ accessCounts' = accessCounts
      BY Zenon DEF SeesDrain, SeenAccessed, Rules!AfterAccess
    <3> QED BY <3>1, <3>2, <3>3, Zenon DEF Rules!Drain

  <2>CloseMaps.
      ASSUME NEW q1, Rules!Enqueue(q1), NEW b,
             SeesClose(seenQueue, openRows, accessCounts,
                       q1, openRows', accessCounts', b)
      PROVE  Rules!Close(b)
    <3> USE <2>CloseMaps
    <3>1. PICK s : s = seenQueue[QueueOfBank[b]]
      BY Zenon
    <3>2. CASE \A i \in DOMAIN s : ~ (s[i].bank = b /\ s[i].row = openRows[b])
      BY <3>1, <3>2, Zenon DEF SeesClose, Rules!Close, Rules!MayClose, Rules!Wanted
    <3>3. CASE accessCounts[b] = TOTAL_ROW_ACCESSES
      BY <3>3, Zenon DEF SeesClose, Rules!Close, Rules!MayClose
    <3>4. CASE \A i \in DOMAIN s : SeenFirstForRow(s, i, b, openRows[b]) => s[i].act
      BY <3>1, <3>4, Zenon DEF SeesClose, SeenFirstForRow, Rules!Close,
                               Rules!MayCloseForRefresh, Rules!FirstForOpenRow
    <3> QED BY <3>1, <3>2, <3>3, <3>4, Zenon DEF SeesClose

  <2> SUFFICES ASSUME ChannelInv, Rules!OrphanRowOpen, Update
               PROVE  Rules!Next
    BY Zenon
  <2>1. SeenOrphans(seenQueue, openRows)
    BY Zenon DEF SeenOrphans, Rules!OrphanRowOpen, Rules!Orphan
  <2>2. PICK q1 : /\ SeesStep(seenQueue, openRows, accessCounts,
                              q1, openRows', accessCounts')
                  /\ \/ seenQueue' = q1
                     \/ \E b \in BankIds, row \in Rows : SeesJoin(q1, seenQueue', b, row)
    BY <2>1, UpdateSeen, Zenon DEF seenQueue, openRows, accessCounts
  <2>3. Rules!Enqueue(q1)
    BY <2>2, <2>EnqueueMaps, Zenon
  <2>4. CASE q1 = seenQueue /\ openRows' = openRows /\ accessCounts' = accessCounts
    BY <2>3, <2>4, Zenon DEF Rules!NoCommand, Rules!Next
  <2>5. CASE \E b \in BankIds : SeesClose(seenQueue, openRows, accessCounts,
                                          q1, openRows', accessCounts', b)
    BY <2>3, <2>5, <2>CloseMaps, Zenon DEF Rules!Next
  <2>6. ASSUME NEW k \in BankIds, NEW i \in DOMAIN seenQueue[k],
               \/ SeesActivate(seenQueue, openRows, accessCounts,
                               q1, openRows', accessCounts', k, i)
               \/ SeesAccess(seenQueue, openRows, accessCounts,
                             q1, openRows', accessCounts', k, i)
               \/ SeesDrain(seenQueue, openRows, accessCounts,
                            q1, openRows', accessCounts', k, i)
        PROVE  Rules!Activate(k, i) \/ Rules!Access(k, i) \/ Rules!Drain(k, i)
    BY <2>3, <2>6, <2>ActivateMaps, <2>AccessMaps, <2>DrainMaps, Zenon
  <2> QED BY <2>2, <2>4, <2>5, <2>6, Zenon DEF SeesStep, Rules!Next

<1> SUFFICES ASSUME ChannelInv, Rules!OrphanRowOpen, [Next]_vars
             PROVE  [Rules!Next]_(Rules!vars)
  BY Zenon
<1>1. ASSUME NEW t \in Transactions, AddTransaction(t)
      PROVE  UNCHANGED Rules!vars
  BY <1>1, Zenon DEF AddTransaction, Rules!vars, seenQueue, openRows, accessCounts
<1>2. CASE UNCHANGED vars
  BY <1>2, Zenon DEF vars, Rules!vars, seenQueue, openRows, accessCounts
<1>3. CASE Update
  BY <1>3, <1>UpdateMaps, Zenon
<1> QED BY <1>1, <1>2, <1>3, Zenon DEF Next

\* The channel starts as the scheduler does: queues empty, rows closed.
LEMMA InitMaps == Init => Rules!Init
<1> SUFFICES ASSUME Init PROVE Rules!Init
  OBVIOUS
<1>1. seenQueue = [k \in BankIds |-> <<>>]
  <2>1. ASSUME NEW k \in BankIds PROVE SeenQueue(cq.queues[k[1]][k[2]]) = <<>>
    <3>1. cq.queues[k[1]][k[2]] = <<>>
      BY Zenon DEF Init, InitCommandQueue, BankIds
    <3>2. SeenQueue(<<>>) = <<>>
      BY DEF SeenQueue
    <3> QED BY <3>1, <3>2, Zenon
  <2> QED BY <2>1, Zenon DEF seenQueue, SeenQueues
<1>2. openRows = [k \in BankIds |-> NoRow]
  <2>1. ASSUME NEW k \in BankIds PROVE OpenRow(bankStates[k[1]][k[2]]) = NoRow
    <3>1. bankStates[k[1]][k[2]] = InitBank
      BY Zenon DEF Init, BankIds
    <3> QED BY <3>1 DEF OpenRow, Open, InitBank
  <2> QED BY <2>1, Zenon DEF openRows, OpenRows
<1>3. accessCounts = [k \in BankIds |-> 0]
  BY Zenon DEF Init, InitCommandQueue, BankIds, accessCounts, AccessCounts
<1> QED BY <1>1, <1>2, <1>3, Zenon DEF Rules!Init
-----------------------------------------------------------------------------
(* The theorems *)

LEMMA RulesKept ==
    ASSUME ChannelInv, Rules!IInv, [Next]_vars
    PROVE  [Rules!Next]_(Rules!vars) /\ Rules!IInv'
<1>1. [Rules!Next]_(Rules!vars)
  BY StepMaps, Zenon DEF Rules!IInv
<1>2. Rules!IInv'
  BY <1>1, RulesQueue, RulesAccess, RulesPolicy, Rules!NextKeeps, Zenon
<1> QED BY <1>1, <1>2, Zenon

\* The channel's invariant and the scheduler's hold together: the rules keep a
\* row open under an access that waits for it, which is what lets the channel
\* keep to the rules.
THEOREM ChannelRules == Spec => [](ChannelInv /\ Rules!IInv)
<1>RulesStart. Init => Rules!IInv
  BY InitMaps, RulesQueue, RulesAccess, RulesPolicy, Rules!InitGood, Zenon

<1>1. Init => ChannelInv /\ Rules!IInv
  BY InitChannel, <1>RulesStart, Zenon
<1>2. ChannelInv /\ Rules!IInv /\ [Next]_vars => ChannelInv' /\ Rules!IInv'
  BY RulesKept, NextKeeps, Zenon
<1> QED BY <1>1, <1>2, PTL DEF Spec

LEMMA SameNext == Rules!Next => Sched!Next
\* Sched and Rules are the same specification.
<1>SameGuards.
    /\ \A k, i : /\ Rules!MayActivate(k, i) <=> Sched!MayActivate(k, i)
                 /\ Rules!MayAccess(k, i) <=> Sched!MayAccess(k, i)
                 /\ Rules!MayDrain(k, i) <=> Sched!MayDrain(k, i)
    /\ \A b : /\ Rules!MayClose(b) <=> Sched!MayClose(b)
              /\ Rules!MayCloseForRefresh(b) <=> Sched!MayCloseForRefresh(b)
  BY Zenon DEF Rules!MayActivate, Rules!MayAccess, Rules!MayDrain, Rules!MayClose,
               Rules!MayCloseForRefresh, Rules!First, Rules!Paired, Rules!SameRow,
               Rules!FirstForOpenRow, Rules!Wanted,
               Sched!MayActivate, Sched!MayAccess, Sched!MayDrain, Sched!MayClose,
               Sched!MayCloseForRefresh, Sched!First, Sched!Paired, Sched!SameRow,
               Sched!FirstForOpenRow, Sched!Wanted

<1>1. /\ \A q : Rules!Enqueue(q) <=> Sched!Enqueue(q)
      /\ \A b : /\ Rules!Counted(b) <=> Sched!Counted(b)
                /\ Rules!AfterAccess(b) <=> Sched!AfterAccess(b)
  BY Zenon DEF Rules!Enqueue, Rules!Enqueued, Rules!Counted, Rules!AfterAccess,
               Sched!Enqueue, Sched!Enqueued, Sched!Counted, Sched!AfterAccess
<1>2. /\ \A s, i, j : Rules!Cut(s, i, j) = Sched!Cut(s, i, j)
      /\ \A s, i : Rules!Paired(s, i) <=> Sched!Paired(s, i)
  BY Zenon DEF Rules!Cut, Sched!Cut, Rules!Paired, Sched!Paired,
               Rules!SameRow, Sched!SameRow
<1>3. ASSUME NEW k, NEW i PROVE Rules!Activate(k, i) => Sched!Activate(k, i)
  BY <1>1, <1>2, <1>SameGuards, Zenon DEF Rules!Activate, Sched!Activate
<1>4. ASSUME NEW k, NEW i PROVE Rules!Access(k, i) => Sched!Access(k, i)
  <2>1. CASE Sched!Paired(seenQueue[k], i)
    BY <1>1, <1>2, <2>1, <1>SameGuards, Zenon DEF Rules!Access, Sched!Access
  <2>2. CASE ~ Sched!Paired(seenQueue[k], i)
    BY <1>1, <1>2, <2>2, <1>SameGuards, Zenon DEF Rules!Access, Sched!Access
  <2> QED BY <2>1, <2>2, Zenon
<1>5. ASSUME NEW k, NEW i PROVE Rules!Drain(k, i) => Sched!Drain(k, i)
  BY <1>1, <1>2, <1>SameGuards, Zenon DEF Rules!Drain, Sched!Drain
<1>6. ASSUME NEW b PROVE Rules!Close(b) => Sched!Close(b)
  BY <1>1, <1>SameGuards, Zenon DEF Rules!Close, Sched!Close
<1>7. Rules!NoCommand => Sched!NoCommand
  BY <1>1, Zenon DEF Rules!NoCommand, Sched!NoCommand
<1> QED BY <1>3, <1>4, <1>5, <1>6, <1>7, Zenon DEF Rules!Next, Sched!Next

\* MemoryController::update with CommandQueue::pop and enqueue implements the
\* policy-free scheduler: every command sent, row closed and transaction queued
\* is one its rules allow, with either row policy, queuing structure, scheduling
\* policy and device, and also while a refresh waits.
THEOREM ChannelFollowsRules == Spec => ImplementsScheduling
<1>1. Init => Sched!Init
  <2>1. Rules!Init <=> Sched!Init
    BY Zenon DEF Rules!Init, Sched!Init
  <2> QED BY <2>1, InitMaps, Zenon
<1>2. [Rules!Next]_(Rules!vars) => [Sched!Next]_(Sched!vars)
  BY SameNext, Zenon DEF Rules!vars, Sched!vars
<1>3. ChannelInv /\ Rules!IInv /\ [Next]_vars => [Sched!Next]_(Sched!vars)
  BY <1>2, RulesKept, Zenon
<1> QED BY <1>1, <1>3, ChannelRules, PTL DEF Spec, ImplementsScheduling, Sched!Spec

\* What is proved of the scheduler is so proved of the channel.
LEMMA ChannelScheduler == Spec => Rules!Spec
<1>1. ChannelInv /\ Rules!IInv /\ [Next]_vars => [Rules!Next]_(Rules!vars)
  BY RulesKept, Zenon
<1> QED BY <1>1, InitMaps, ChannelRules, PTL DEF Spec, Rules!Spec

\* In the channel a row is never closed under a column command whose ACTIVATE
\* has been sent: not by TOTAL_ROW_ACCESSES, a refresh or another queue's turn.
THEOREM RowsStayForAccesses == Spec => []Rules!OrphanRowOpen
<1>1. Rules!IInv => Rules!OrphanRowOpen
  BY Zenon DEF Rules!IInv
<1> QED BY <1>1, ChannelRules, PTL

\* In the channel whatever is queued can be served: some queued command may be
\* sent, or a row of the queue's banks be closed, as far as the rules go.
THEOREM ChannelNeverStuck == Spec => []Rules!NeverStuck
<1>1. Rules!Spec => []Rules!NeverStuck
  BY RulesQueue, RulesAccess, RulesPolicy, Rules!SchedulerNeverStuck, Zenon
<1> QED BY <1>1, ChannelScheduler, PTL

\* Accesses to one row reach the rank in the order in which their transactions
\* were split into commands.
THEOREM ChannelKeepsOrder == Spec => Rules!RowOrder
<1>1. Rules!Spec => Rules!RowOrder
  BY RulesQueue, RulesAccess, RulesPolicy, Rules!AccessesInOrder, Zenon
<1> QED BY <1>1, ChannelScheduler, PTL

=============================================================================
