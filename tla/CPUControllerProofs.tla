-------------------------- MODULE CPUControllerProofs --------------------------
(***************************************************************************)
(* That the chains of CPUController stay whole and no access loses its     *)
(* wake-up, for every number of requests and every size.                   *)
(***************************************************************************)
EXTENDS CPUController, WellFoundedInduction, TLAPS

\* A set of numbers has a least one.
LEMMA LeastNat ==
    ASSUME NEW T, T \subseteq Nat, T # {}
    PROVE  \E x \in T : \A y \in T : x <= y
<1> DEFINE R == OpToRel(<, Nat)
<1>1. IsWellFoundedOn(R, Nat)
  BY NatLessThanWellFounded, Zenon
<1>2. \A x, y \in Nat : x < y => <<x, y>> \in R
  BY Zenon DEF OpToRel
<1> HIDE DEF R
<1>3. PICK x \in T : \A y \in T : ~ (<<y, x>> \in R)
  BY <1>1, WFMin, Zenon
<1>4. ASSUME NEW y \in T PROVE x <= y
  <2>1. ~ (y < x)
    BY <1>2, <1>3, Zenon
  <2> QED BY <2>1
<1> QED BY <1>4, Zenon

\* All of a chain is for the line of its first entry.
LEMMA ChainOfLine ==
    ASSUME TypeOK, ChainIntact,
           NEW first \in Pending, NEW C \in SUBSET Pending,
           Closure({first}, C), NEW end \in C
    PROVE  line[end] = line[first]
<1> SUFFICES ASSUME line[end] # line[first] PROVE FALSE
  BY Zenon
<1> DEFINE Bad == {r \in C : line[r] # line[first]}
           T == {ticket[r] : r \in Bad}
<1>1. T \subseteq Nat /\ T # {}
  BY DEF TypeOK, Pending
<1> HIDE DEF T
<1>2. PICK t \in T : \A u \in T : t <= u
  BY <1>1, LeastNat, Zenon
<1>3. PICK r \in Bad : t = ticket[r]
  BY Zenon DEF T
<1>4. r \in C \ {first}
  BY Zenon
<1>5. PICK q \in C : depends[q] = r
  BY <1>4, Zenon DEF Closure
<1>6. r # None
  BY <1>4, CPUAssumption, Zenon DEF Pending
<1>7. ticket[q] < ticket[r] /\ line[q] = line[r]
  BY <1>5, <1>6, Zenon DEF ChainIntact
<1>8. q \in Bad
  BY <1>7, Zenon
<1>9. ticket[q] \in T /\ ticket[q] \in Nat /\ ticket[r] \in Nat
  BY <1>1, <1>8, <1>3, Zenon DEF T
<1> QED BY <1>2, <1>3, <1>7, <1>9

\* The entry a new access is put behind is the end of a chain for its line.
LEMMA EndOfChain ==
    ASSUME TypeOK, ChainIntact, NEW l, NEW end \in Pending,
           find_dependency(l, end)
    PROVE  depends[end] = None /\ line[end] = l
<1>1. end # None
  BY CPUAssumption, Zenon DEF Pending
<1>2. PICK first \in Pending : line[first] = l /\
          \E C \in SUBSET Pending :
                Closure({first}, C) /\ end \in C /\ depends[end] = None
  BY <1>1, Zenon DEF find_dependency
<1>3. PICK C \in SUBSET Pending :
          Closure({first}, C) /\ end \in C /\ depends[end] = None
  BY <1>2, Zenon
<1> QED BY <1>2, <1>3, ChainOfLine, Zenon

\* A new entry preserves the invariant.
LEMMA EnterIInv ==
    ASSUME IInv, NEW r \in Request, NEW l \in Line, NEW k \in Kind,
           NEW lat \in {-1, LATENCY},
           status[r] \in {"new", "queued"}, Enter(r, l, k, lat),
           line' = [line EXCEPT ![r] = l], kind' = [kind EXCEPT ![r] = k]
    PROVE  IInv'
<1> USE CPUAssumption DEF IInv
<1>1. PICK end \in Pending \cup {None} :
        /\ find_dependency(l, end)
        /\ status' = [status EXCEPT ![r] = "pending"]
        /\ allocs' = allocs + 1
        /\ ticket' = [ticket EXCEPT ![r] = allocs + 1]
        /\ IF end # None /\ SameType(kind[end], k)
           THEN /\ depends' = [depends EXCEPT ![end] = r]
                /\ waitFor' = [waitFor EXCEPT ![r] = end]
                /\ UNCHANGED <<cycles, asked, retry>>
           ELSE /\ IF lat > 0
                   THEN /\ cycles' = [cycles EXCEPT ![r] = lat]
                        /\ UNCHANGED <<asked, retry>>
                   ELSE cache_access_cb(r) /\ UNCHANGED cycles
                /\ UNCHANGED <<depends, waitFor>>
        /\ UNCHANGED <<core, icacheBuffer>>
  BY Zenon DEF Enter
<1>2. /\ r \notin Pending /\ r # None
      /\ cycles[r] = -1 /\ depends[r] = None /\ waitFor[r] = None
      /\ r \notin asked /\ r \notin retry
  BY Zenon DEF Pending, Unused
<1>3. Pending' = Pending \cup {r}
  BY <1>1 DEF Pending, TypeOK
<1>4. TypeOK'
  <2>1. /\ asked' = asked \/ asked' = asked \cup {r}
        /\ retry' = retry \/ retry' = retry \ {r} \/ retry' = retry \cup {r}
    BY <1>1, Zenon DEF cache_access_cb
  <2>2. asked' \subseteq Request /\ retry' \subseteq Request
    BY <2>1, Zenon DEF TypeOK
  <2>3. cycles' = cycles \/ cycles' = [cycles EXCEPT ![r] = lat]
    BY <1>1, Zenon
  <2> DEFINE Counts == -1..LATENCY
  <2>4. cycles \in [Request -> Counts] /\ lat \in Counts
    BY DEF TypeOK
  <2> HIDE DEF Counts
  <2>5. cycles' \in [Request -> Counts]
    BY <2>3, <2>4, Zenon
  <2>6. cycles' \in [Request -> -1..LATENCY]
    BY <2>5, Zenon DEF Counts
  <2>7. /\ depends' \in [Request -> Request \cup {None}]
        /\ waitFor' \in [Request -> Request \cup {None}]
    BY <1>1 DEF TypeOK, Pending
  <2>8. ticket' \in [Request -> 0..allocs'] /\ allocs' \in Nat
    BY <1>1 DEF TypeOK
  <2> QED BY <1>1, <2>2, <2>6, <2>7, <2>8, Zenon DEF TypeOK
<1>5. \A s \in Pending : s # r /\ ticket'[s] = ticket[s] /\ line'[s] = line[s]
                         /\ kind'[s] = kind[s] /\ ticket[s] < allocs + 1
  BY <1>1, <1>2 DEF TypeOK, Pending
<1>6. ticket'[r] = allocs + 1 /\ line'[r] = l /\ kind'[r] = k
  BY <1>1, Zenon DEF TypeOK
<1>7. CASE end # None /\ SameType(kind[end], k)
  <2>1. /\ depends' = [depends EXCEPT ![end] = r]
        /\ waitFor' = [waitFor EXCEPT ![r] = end]
        /\ UNCHANGED <<cycles, asked, retry>>
    BY <1>1, <1>7, Zenon
  <2>2. end \in Pending /\ end # r /\ depends[end] = None /\ line[end] = l
    BY <1>1, <1>2, <1>7, EndOfChain, Zenon
  <2>3. Unused'
    BY <1>1, <1>2, <1>3, <2>1, <2>2 DEF Unused, TypeOK, Pending
  <2>4. ChainIntact'
    <3>1. ASSUME NEW s \in Pending', depends'[s] # None
          PROVE  /\ depends'[s] \in Pending' /\ waitFor'[depends'[s]] = s
                 /\ ticket'[s] < ticket'[depends'[s]]
                 /\ line'[s] = line'[depends'[s]]
                 /\ SameType(kind'[s], kind'[depends'[s]])
      <4>1. CASE s = end
        BY <4>1, <2>1, <2>2, <1>3, <1>5, <1>6, <1>7 DEF TypeOK, Pending
      <4>2. CASE s # end
        <5>1. s \in Pending /\ depends'[s] = depends[s]
          BY <4>2, <3>1, <1>2, <1>3, <2>1, <2>2, Zenon DEF TypeOK, Pending
        <5>2. /\ depends[s] \in Pending /\ waitFor[depends[s]] = s
              /\ ticket[s] < ticket[depends[s]]
              /\ line[s] = line[depends[s]]
              /\ SameType(kind[s], kind[depends[s]])
          BY <5>1, <3>1, Zenon DEF ChainIntact
        <5>3. waitFor'[depends[s]] = waitFor[depends[s]]
          BY <5>2, <1>2, <2>1, Zenon DEF TypeOK, Pending
        <5> QED BY <5>1, <5>2, <5>3, <1>3, <1>5
      <4> QED BY <4>1, <4>2, Zenon
    <3>2. ASSUME NEW s \in Pending', waitFor'[s] # None
          PROVE  waitFor'[s] \in Pending' /\ depends'[waitFor'[s]] = s
      BY <3>2, <1>2, <1>3, <2>1, <2>2 DEF ChainIntact, TypeOK, Pending
    <3> QED BY <3>1, <3>2, Zenon DEF ChainIntact
  <2>5. NoLostWakeup'
    BY <1>2, <1>3, <2>1, <2>2 DEF NoLostWakeup, TypeOK, Pending
  <2> QED BY <1>4, <2>3, <2>4, <2>5, Zenon
<1>8. CASE ~ (end # None /\ SameType(kind[end], k))
  <2>1. /\ IF lat > 0
           THEN /\ cycles' = [cycles EXCEPT ![r] = lat]
                /\ UNCHANGED <<asked, retry>>
           ELSE cache_access_cb(r) /\ UNCHANGED cycles
        /\ UNCHANGED <<depends, waitFor>>
    BY <1>1, <1>8, Zenon
  <2>2. \/ /\ cycles' = [cycles EXCEPT ![r] = lat] /\ lat > 0
           /\ UNCHANGED <<asked, retry>>
        \/ /\ asked' = asked \cup {r} /\ retry' = retry \ {r} /\ cycles' = cycles
        \/ /\ asked' = asked /\ retry' = retry \cup {r} /\ cycles' = cycles
    BY <2>1, <1>2 DEF cache_access_cb
  <2>3. Unused'
    BY <1>1, <1>2, <1>3, <2>1, <2>2, ZenonT(40) DEF Unused, TypeOK, Pending
  <2>4. ChainIntact'
    BY <1>2, <1>3, <1>5, <2>1 DEF ChainIntact
  <2>5. NoLostWakeup'
    BY <1>2, <1>3, <2>1, <2>2 DEF NoLostWakeup, TypeOK, Pending
  <2> QED BY <1>4, <2>3, <2>4, <2>5
<1> QED BY <1>7, <1>8, Zenon

\* An access of the core preserves the invariant.
LEMMA AccessIInv ==
    ASSUME IInv, NEW r \in Request, NEW a \in Access,
           access_fast_path(r, a[1], a[2])
    PROVE  IInv'
<1> USE CPUAssumption
<1>1. a[1] \in Line /\ a[2] \in Kind
  BY Zenon
<1> DEFINE l == a[1]
           k == a[2]
<1>2. /\ status[r] = "new"
      /\ line' = [line EXCEPT ![r] = l] /\ kind' = [kind EXCEPT ![r] = k]
  BY Zenon DEF access_fast_path
<1>3. CASE \E lat \in FastPath(l, k) : Enter(r, l, k, lat)
  <2>1. FastPath(l, k) \subseteq {-1, LATENCY}
    BY Zenon DEF FastPath
  <2> QED BY <1>1, <1>2, <1>3, <2>1, EnterIInv, Zenon
<1>4. CASE /\ UNCHANGED <<core, cycles, depends, waitFor, ticket, allocs, asked,
                          retry, icacheBuffer>>
           /\ \E st \in {"woken", "queued"} : status' = [status EXCEPT ![r] = st]
  <2>1. PICK st \in {"woken", "queued"} : status' = [status EXCEPT ![r] = st]
    BY <1>4, Zenon
  <2>2. Pending' = Pending /\ r \notin Pending
    BY <1>2, <2>1, Zenon DEF IInv, TypeOK, Pending
  <2>3. TypeOK'
    BY <1>1, <1>2, <1>4, <2>1, Zenon DEF IInv, TypeOK
  <2>4. Unused'
    BY <1>1, <1>2, <1>4, <2>1, <2>2, Zenon DEF IInv, TypeOK, Unused
  <2>5. \A s \in Pending : line'[s] = line[s] /\ kind'[s] = kind[s]
    BY <1>2, <2>2, Zenon DEF IInv, TypeOK, Pending
  <2>6. ChainIntact' /\ NoLostWakeup'
    BY <1>4, <2>2, <2>5 DEF IInv, ChainIntact, NoLostWakeup
  <2> QED BY <2>3, <2>4, <2>6, Zenon DEF IInv
<1> QED BY <1>3, <1>4, Zenon DEF access_fast_path

\* So does the entry of a request that had found the list full.
LEMMA QueueIInv ==
    ASSUME IInv, NEW r \in Request, queue_access_cb(r)
    PROVE  IInv'
<1>1. /\ status[r] = "queued" /\ Enter(r, line[r], kind[r], -1)
      /\ line' = line /\ kind' = kind
  BY Zenon DEF queue_access_cb
<1>2. line[r] \in Line /\ kind[r] \in Kind
  BY <1>1, Zenon DEF IInv, Unused
<1>3. line' = [line EXCEPT ![r] = line[r]] /\ kind' = [kind EXCEPT ![r] = kind[r]]
  BY <1>1, Zenon DEF IInv, TypeOK
<1> QED BY <1>1, <1>2, <1>3, EnterIInv, Zenon

\* Trying again to reach L1 preserves the invariant.
LEMMA RetryIInv ==
    ASSUME IInv, NEW r \in Request, RetryAccess(r)
    PROVE  IInv'
<1>1. /\ r \in retry /\ Pending' = Pending
      /\ UNCHANGED <<core, status, line, kind, cycles, depends, waitFor, ticket,
                     allocs>>
  BY Zenon DEF RetryAccess, Pending
<1>2. \/ /\ status[r] = "annulled" \/ cycles[r] > 0
         /\ asked' = asked /\ retry' = retry \ {r}
      \/ asked' = asked \cup {r} /\ retry' = retry \ {r}
      \/ asked' = asked /\ retry' = retry \cup {r}
  BY Zenon DEF RetryAccess, cache_access_cb
<1>3. TypeOK' /\ Unused'
  BY <1>1, <1>2, Zenon DEF IInv, TypeOK, Unused
<1>4. ChainIntact'
  BY <1>1, Zenon DEF IInv, ChainIntact
<1>5. NoLostWakeup'
  <2> SUFFICES ASSUME NEW s \in Pending
               PROVE  /\ waitFor[s] = None <=> (s \in asked' \/ s \in retry' \/ cycles[s] > 0)
                      /\ s \in asked' => s \notin retry' /\ cycles[s] <= 0
                      /\ s \in retry' => cycles[s] <= 0
    BY <1>1, Zenon DEF NoLostWakeup
  <2>1. /\ waitFor[s] = None <=> (s \in asked \/ s \in retry \/ cycles[s] > 0)
        /\ s \in asked => s \notin retry /\ cycles[s] <= 0
        /\ s \in retry => cycles[s] <= 0
        /\ status[s] = "pending" /\ cycles[s] \in Int
    BY DEF IInv, NoLostWakeup, Pending, TypeOK
  <2> QED BY <1>1, <1>2, <2>1, Zenon
<1> QED BY <1>3, <1>4, <1>5, Zenon DEF IInv

\* What the types say of a pending entry.
LEMMA PendingFacts ==
    ASSUME TypeOK, NEW r \in Pending
    PROVE  /\ r \in Request /\ r # None /\ status[r] = "pending"
           /\ ticket[r] \in Nat /\ cycles[r] \in Int
BY CPUAssumption DEF TypeOK, Pending

\* The neighbours of a pending entry in its chain.
LEMMA Neighbours ==
    ASSUME TypeOK, ChainIntact, NEW r \in Pending
    PROVE  /\ depends[r] # None =>
                  depends[r] \in Pending \ {r} /\ waitFor[depends[r]] = r
           /\ waitFor[r] # None =>
                  waitFor[r] \in Pending \ {r} /\ depends[waitFor[r]] = r
<1>1. depends[r] # None => depends[r] # r
  BY PendingFacts DEF ChainIntact
<1>2. waitFor[r] # None => depends[waitFor[r]] = r /\ waitFor[r] \in Pending
  BY Zenon DEF ChainIntact
<1>3. waitFor[r] # None => waitFor[r] # r
  BY <1>1, <1>2, PendingFacts, Zenon
<1> QED BY <1>1, <1>2, <1>3, Zenon DEF ChainIntact

\* Taking an entry out of its chain preserves the invariant.
LEMMA AnnulIInv ==
    ASSUME IInv, NEW r \in Request, annul_request(r)
    PROVE  IInv'
<1> USE CPUAssumption
<1>1. /\ r \in Pending
      /\ status' = [status EXCEPT ![r] = "annulled"]
      /\ depends' = Reset([s \in Request |-> IF s = waitFor[r] THEN depends[r]
                                             ELSE depends[s]], {r}, None)
      /\ waitFor' = Reset([s \in Request |-> IF s = depends[r] THEN waitFor[r]
                                             ELSE waitFor[s]], {r}, None)
      /\ cycles' = Reset(cycles, {r}, -1)
      /\ ticket' = Reset(ticket, {r}, 0)
      /\ UNCHANGED <<core, line, kind, allocs>>
  BY Zenon DEF annul_request
<1>2. Pending' = Pending \ {r}
  BY <1>1, Zenon DEF IInv, TypeOK, Pending
<1>3. \A s \in Pending' : cycles'[s] = cycles[s] /\ ticket'[s] = ticket[s]
  BY <1>1, <1>2, Zenon DEF Reset, Pending
<1>4. \A s \in Pending' :
        /\ depends'[s] = IF s = waitFor[r] THEN depends[r] ELSE depends[s]
        /\ waitFor'[s] = IF s = depends[r] THEN waitFor[r] ELSE waitFor[s]
  BY <1>1, <1>2, Zenon DEF Reset, Pending
<1>5. /\ depends[r] # None =>
             depends[r] \in Pending' /\ depends[r] \in Pending /\ waitFor[depends[r]] = r
      /\ waitFor[r] # None =>
             waitFor[r] \in Pending' /\ waitFor[r] \in Pending /\ depends[waitFor[r]] = r
  BY <1>1, <1>2, Neighbours, Zenon DEF IInv
<1>0. line' = line /\ kind' = kind /\ allocs' = allocs /\ core' = core
  BY <1>1, Zenon
<1>6. \/ /\ ~ (depends[r] # None /\ waitFor[r] = None)
         /\ asked' = asked /\ retry' = retry
      \/ /\ depends[r] # None /\ waitFor[r] = None
         /\ depends[r] \notin retry
         /\ \/ asked' = asked \cup {depends[r]} /\ retry' = retry \ {depends[r]}
            \/ asked' = asked /\ retry' = retry \cup {depends[r]}
  <2>1. depends[r] # None =>
          /\ status[depends[r]] = "pending" /\ cycles[depends[r]] <= 0
          /\ depends[r] \notin retry
    <3> SUFFICES ASSUME depends[r] # None
                 PROVE  /\ status[depends[r]] = "pending" /\ cycles[depends[r]] <= 0
                        /\ depends[r] \notin retry
      BY Zenon
    <3>1. waitFor[depends[r]] # None /\ depends[r] \in Pending
      BY <1>1, <1>5, PendingFacts, Zenon DEF IInv
    <3>2. status[depends[r]] = "pending" /\ cycles[depends[r]] \in Int
      BY <3>1, PendingFacts, Zenon DEF IInv
    <3> QED BY <3>1, <3>2 DEF IInv, NoLostWakeup
  <2>2. IF depends[r] # None /\ waitFor[r] = None
        THEN cache_access_cb(depends[r]) ELSE UNCHANGED <<asked, retry>>
    BY Zenon DEF annul_request
  <2>3. CASE depends[r] # None /\ waitFor[r] = None
    <3> DEFINE d == depends[r]
    <3>1. cycles[d] \in Int
      BY <2>3, <1>5, PendingFacts, Zenon DEF IInv
    <3>2. cache_access_cb(d) /\ status[d] # "annulled" /\ ~ (cycles[d] > 0)
          /\ d \notin retry
      BY <2>1, <2>2, <2>3, <3>1
    <3> HIDE DEF d
    <3>3. \/ asked' = asked \cup {d} /\ retry' = retry \ {d}
          \/ asked' = asked /\ retry' = retry \cup {d}
      BY <3>2, Zenon DEF cache_access_cb
    <3> QED BY <2>3, <3>2, <3>3, Zenon DEF d
  <2> QED BY <2>2, <2>3, Zenon
<1>7. TypeOK'
  <2>1. /\ depends' \in [Request -> Request \cup {None}]
        /\ waitFor' \in [Request -> Request \cup {None}]
    BY <1>1, Zenon DEF IInv, TypeOK, Reset
  <2>2. cycles' \in [Request -> -1..LATENCY] /\ ticket' \in [Request -> 0..allocs]
    BY <1>1 DEF IInv, TypeOK, Reset
  <2>3. asked' \subseteq Request /\ retry' \subseteq Request
    BY <1>5, <1>2, <1>6, ZenonT(40) DEF IInv, TypeOK, Pending
  <2> QED BY <1>1, <2>1, <2>2, <2>3, Zenon DEF IInv, TypeOK
<1>8. Unused'
  <2>1. ASSUME NEW s \in Request \ Pending'
        PROVE  cycles'[s] = -1 /\ depends'[s] = None /\ waitFor'[s] = None
    BY <1>1, <1>2, <1>5 DEF IInv, Unused, Reset, TypeOK
  <2>2. \A s \in asked \cup retry : s \in Request /\ status'[s] \in {"pending", "annulled"}
    BY <1>1, Zenon DEF IInv, Unused, TypeOK
  <2>3. depends[r] # None => status'[depends[r]] = "pending"
    BY <1>5, Zenon DEF Pending
  <2>4. \A s \in asked' \cup retry' : status'[s] \in {"pending", "annulled"}
    BY <1>6, <2>2, <2>3, Zenon
  <2> QED BY <1>1, <2>1, <2>4, ZenonT(40) DEF IInv, Unused, TypeOK
<1>9. ChainIntact'
  <2>1. ASSUME NEW s \in Pending', depends'[s] # None
        PROVE  /\ depends'[s] \in Pending' /\ waitFor'[depends'[s]] = s
               /\ ticket'[s] < ticket'[depends'[s]]
               /\ line'[s] = line'[depends'[s]]
               /\ SameType(kind'[s], kind'[depends'[s]])
    <3>1. CASE s = waitFor[r]
      <4> DEFINE d == depends[r]
      <4>1. depends'[s] = d /\ d # None /\ waitFor[r] # None
        BY <3>1, <2>1, <1>2, <1>4, PendingFacts, Zenon DEF IInv
      <4>2. d \in Pending /\ d \in Pending' /\ depends[s] = r /\ s \in Pending
        BY <3>1, <4>1, <1>5, Zenon
      <4>3. waitFor'[d] = s
        BY <3>1, <4>2, <1>4, Zenon
      <4>4. /\ ticket[r] < ticket[d] /\ line[r] = line[d]
            /\ SameType(kind[r], kind[d])
        BY <1>1, <4>1, Zenon DEF IInv, ChainIntact
      <4>5. /\ ticket[s] < ticket[r] /\ line[s] = line[r]
            /\ SameType(kind[s], kind[r])
        BY <1>1, <4>2, PendingFacts, Zenon DEF IInv, ChainIntact
      <4>6. ticket[s] \in Nat /\ ticket[r] \in Nat /\ ticket[d] \in Nat
        BY <1>1, <4>2, PendingFacts, Zenon DEF IInv
      <4>7. ticket[s] < ticket[d]
        BY <4>4, <4>5, <4>6
      <4>8. SameType(kind[s], kind[d])
        BY <4>4, <4>5, Zenon DEF SameType
      <4> HIDE DEF d
      <4> QED BY <4>1, <4>2, <4>3, <4>4, <4>5, <4>7, <4>8, <1>0, <1>3, Zenon
    <3>2. CASE s # waitFor[r]
      <4>1. depends'[s] = depends[s] /\ s \in Pending /\ s # r
        BY <3>2, <1>4, <1>2, Zenon
      <4>2. /\ depends[s] \in Pending /\ waitFor[depends[s]] = s
            /\ ticket[s] < ticket[depends[s]]
            /\ line[s] = line[depends[s]]
            /\ SameType(kind[s], kind[depends[s]])
        BY <4>1, <2>1, Zenon DEF IInv, ChainIntact
      <4>3. depends[s] # r /\ depends[s] # depends[r]
        BY <3>2, <4>1, <4>2, <1>5, <2>1, Zenon
      <4>4. depends[s] \in Pending' /\ waitFor'[depends[s]] = s
        BY <4>2, <4>3, <1>2, <1>4, Zenon
      <4> QED BY <4>1, <4>2, <4>4, <1>0, <1>3
    <3> QED BY <3>1, <3>2, Zenon
  <2>2. ASSUME NEW s \in Pending', waitFor'[s] # None
        PROVE  waitFor'[s] \in Pending' /\ depends'[waitFor'[s]] = s
    <3>1. CASE s = depends[r]
      <4>1. waitFor'[s] = waitFor[r] /\ waitFor[r] # None
        BY <3>1, <2>2, <1>4, Zenon
      <4> QED BY <3>1, <4>1, <1>4, <1>5, Zenon
    <3>2. CASE s # depends[r]
      <4>1. waitFor'[s] = waitFor[s] /\ s \in Pending
        BY <3>2, <1>4, <1>2, Zenon
      <4>2. waitFor[s] \in Pending /\ depends[waitFor[s]] = s
        BY <4>1, <2>2, Zenon DEF IInv, ChainIntact
      <4>3. waitFor[s] # r /\ waitFor[s] # waitFor[r]
        BY <3>2, <4>1, <4>2, <1>2, <1>5, <2>2, Zenon
      <4> QED BY <4>1, <4>2, <4>3, <1>2, <1>4, Zenon
    <3> QED BY <3>1, <3>2, Zenon
  <2> QED BY <2>1, <2>2, Zenon DEF ChainIntact
<1>10. NoLostWakeup'
  <2> SUFFICES ASSUME NEW s \in Pending'
               PROVE  /\ waitFor'[s] = None
                           <=> (s \in asked' \/ s \in retry' \/ cycles'[s] > 0)
                      /\ s \in asked' => s \notin retry' /\ cycles'[s] <= 0
                      /\ s \in retry' => cycles'[s] <= 0
    BY Zenon DEF NoLostWakeup
  <2>1. /\ waitFor[s] = None <=> (s \in asked \/ s \in retry \/ cycles[s] > 0)
        /\ s \in asked => s \notin retry /\ cycles[s] <= 0
        /\ s \in retry => cycles[s] <= 0
        /\ cycles[s] \in Int
    BY <1>2 DEF IInv, NoLostWakeup, Pending, TypeOK
  <2>2. s # None
    BY <1>2, Zenon DEF Pending
  <2>3. CASE s = depends[r]
    <3>1. waitFor[s] = r /\ r # None /\ waitFor'[s] = waitFor[r]
      BY <2>2, <2>3, <1>5, <1>1, <1>4, Zenon DEF Pending
    <3> QED BY <2>1, <2>2, <2>3, <3>1, <1>3, <1>6
  <2>4. CASE s # depends[r]
    <3>1. waitFor'[s] = waitFor[s]
      BY <2>4, <1>4, Zenon
    <3> QED BY <2>1, <2>4, <3>1, <1>3, <1>6, Zenon
  <2> QED BY <2>3, <2>4, Zenon
<1> QED BY <1>7, <1>8, <1>9, <1>10, Zenon DEF IInv

\* An answer of L1 preserves the invariant.
LEMMA AnswerIInv ==
    ASSUME IInv, NEW r \in Request, handle_interconnect_cb(r)
    PROVE  IInv'
<1> USE CPUAssumption
<1>1. r \in asked /\ asked' = asked \ {r} /\ retry' = retry
      /\ core' = core /\ allocs' = allocs
  BY Zenon DEF handle_interconnect_cb
<1>2. CASE r \notin Pending
  <2>1. UNCHANGED <<status, line, kind, cycles, depends, waitFor, ticket>>
    BY <1>2, Zenon DEF handle_interconnect_cb
  <2>2. Pending' = Pending
    BY <2>1, Zenon DEF Pending
  <2>3. TypeOK' /\ Unused'
    BY <1>1, <2>1, <2>2, Zenon DEF IInv, TypeOK, Unused
  <2>4. ChainIntact' /\ NoLostWakeup'
    BY <1>1, <1>2, <2>1, <2>2, Zenon DEF IInv, ChainIntact, NoLostWakeup
  <2> QED BY <2>3, <2>4, Zenon DEF IInv
<1>3. CASE r \in Pending
  <2> DEFINE d == depends[r]
  <2>1. /\ cycles' = Reset([s \in Request |-> IF s = d THEN 1 ELSE cycles[s]], {r}, -1)
        /\ waitFor' = [s \in Request |-> IF s = d THEN None ELSE waitFor[s]]
        /\ status' = Reset(status, {r}, "woken")
        /\ line' = Reset(line, {r}, None) /\ kind' = Reset(kind, {r}, None)
        /\ depends' = Reset(depends, {r}, None) /\ ticket' = Reset(ticket, {r}, 0)
    BY <1>3, Zenon DEF handle_interconnect_cb, finalize_request
  <2>2. Pending' = Pending \ {r}
    BY <2>1, Zenon DEF IInv, TypeOK, Pending, Reset
  <2>3. waitFor[r] = None /\ r \notin retry
    BY <1>1, <1>3, Zenon DEF IInv, NoLostWakeup
  <2>4. d # None => d \in Pending \ {r} /\ waitFor[d] = r
    BY <1>3, Neighbours, Zenon DEF IInv
  <2>5. TypeOK'
    <3>1. cycles' \in [Request -> -1..LATENCY]
      BY <2>1 DEF IInv, TypeOK, Reset
    <3> QED BY <1>1, <2>1, <3>1 DEF IInv, TypeOK, Reset
  <2>6. \A s \in Pending' : /\ s # r /\ s \in Pending /\ s \in Request
                            /\ depends'[s] = depends[s] /\ ticket'[s] = ticket[s]
                            /\ line'[s] = line[s] /\ kind'[s] = kind[s]
                            /\ waitFor'[s] = IF s = d THEN None ELSE waitFor[s]
                            /\ cycles'[s] = IF s = d THEN 1 ELSE cycles[s]
    BY <2>1, <2>2, Zenon DEF Reset, Pending
  <2>7. Unused'
    <3>1. ASSUME NEW s \in Request \ Pending'
          PROVE  cycles'[s] = -1 /\ depends'[s] = None /\ waitFor'[s] = None
      BY <2>1, <2>2, <2>3, <2>4, Zenon DEF IInv, Unused, Reset
    <3>2. \A s \in asked' \cup retry' : status'[s] \in {"pending", "annulled"}
      BY <1>1, <2>1, <2>3, Zenon DEF IInv, Unused, TypeOK, Reset
    <3>3. \A s \in Request : status'[s] = "queued" =>
              line'[s] \in Line /\ kind'[s] \in Kind
      BY <2>1, Zenon DEF IInv, Unused, Reset
    <3> QED BY <3>1, <3>2, <3>3, Zenon DEF Unused
  <2> HIDE DEF d
  <2>8. ChainIntact'
    <3>1. ASSUME NEW s \in Pending', depends[s] # None
          PROVE  /\ depends[s] \in Pending' /\ depends[s] # d
                 /\ waitFor[depends[s]] = s /\ ticket[s] < ticket[depends[s]]
                 /\ line[s] = line[depends[s]]
                 /\ SameType(kind[s], kind[depends[s]])
      <4>1. /\ depends[s] \in Pending
            /\ waitFor[depends[s]] = s /\ ticket[s] < ticket[depends[s]]
            /\ line[s] = line[depends[s]]
            /\ SameType(kind[s], kind[depends[s]])
        BY <3>1, <2>6, Zenon DEF IInv, ChainIntact
      <4>2. s # None
        BY <2>6, Zenon
      <4> QED BY <4>1, <4>2, <2>2, <2>3, <2>4, <2>6, <3>1
    <3>2. ASSUME NEW s \in Pending', waitFor'[s] # None
          PROVE  waitFor'[s] \in Pending' /\ depends'[waitFor'[s]] = s
      <4>1. s # d /\ waitFor'[s] = waitFor[s] /\ s \in Pending
        BY <3>2, <2>6, Zenon
      <4>2. waitFor[s] \in Pending /\ depends[waitFor[s]] = s
        BY <3>2, <4>1, Zenon DEF IInv, ChainIntact
      <4>3. waitFor[s] # r
        BY <4>1, <4>2, Zenon DEF d
      <4> QED BY <4>1, <4>2, <4>3, <2>2, <2>6, Zenon
    <3> QED BY <3>1, <3>2, <2>6 DEF ChainIntact
  <2>9. NoLostWakeup'
    <3> SUFFICES ASSUME NEW s \in Pending'
                 PROVE  /\ waitFor'[s] = None
                             <=> (s \in asked' \/ s \in retry' \/ cycles'[s] > 0)
                        /\ s \in asked' => s \notin retry' /\ cycles'[s] <= 0
                        /\ s \in retry' => cycles'[s] <= 0
      BY DEF NoLostWakeup
    <3>1. /\ waitFor[s] = None <=> (s \in asked \/ s \in retry \/ cycles[s] > 0)
          /\ s \in asked => s \notin retry /\ cycles[s] <= 0
          /\ s \in retry => cycles[s] <= 0
      BY <2>6, Zenon DEF IInv, NoLostWakeup
    <3>2. s # None /\ s # r /\ r # None
      BY <2>6, Zenon
    <3>3. CASE s = d
      <4>1. waitFor'[s] = None /\ cycles'[s] = 1 /\ waitFor[s] # None
        BY <3>2, <3>3, <2>4, <2>6, Zenon
      <4>2. s \notin asked /\ s \notin retry
        BY <4>1, <3>1, Zenon
      <4> QED BY <4>1, <4>2, <1>1
    <3>4. CASE s # d
      <4>1. waitFor'[s] = waitFor[s] /\ cycles'[s] = cycles[s]
        BY <3>4, <2>6, Zenon
      <4> QED BY <4>1, <3>1, <3>2, <1>1, Zenon
    <3> QED BY <3>3, <3>4, Zenon
  <2> QED BY <2>5, <2>7, <2>8, <2>9 DEF IInv
<1> QED BY <1>2, <1>3, Zenon

\* A tick of the clock preserves the invariant.
LEMMA ClockIInv ==
    ASSUME IInv, clock
    PROVE  IInv'
<1> USE CPUAssumption
<1>1. PICK R \in SUBSET Pending :
        /\ Closure({r \in Pending : cycles[r] = 1}, R)
        /\ cycles' = [r \in Request |-> IF r \in R \/ cycles[r] < 0 THEN -1
                                        ELSE cycles[r] - 1]
        /\ waitFor' = Reset(waitFor, R, None)
        /\ finalize_request(R)
        /\ UNCHANGED <<core, allocs, asked, retry>>
  BY Zenon DEF clock
<1>2. /\ status' = Reset(status, R, "woken")
      /\ line' = Reset(line, R, None) /\ kind' = Reset(kind, R, None)
      /\ depends' = Reset(depends, R, None) /\ ticket' = Reset(ticket, R, 0)
  BY <1>1, Zenon DEF finalize_request
<1>3. Pending' = Pending \ R
  BY <1>2, Zenon DEF Pending, Reset
<1>4. \A r \in R : r \in asked \cup retry => FALSE
  <2> SUFFICES ASSUME NEW r \in R, r \in asked \cup retry PROVE FALSE
    BY Zenon
  <2>1. waitFor[r] = None /\ cycles[r] <= 0 /\ r # None
    BY PendingFacts, Zenon DEF IInv, NoLostWakeup
  <2>2. cycles[r] # 1
    BY <2>1
  <2>3. PICK q \in R : depends[q] = r
    BY <1>1, <2>2, Zenon DEF Closure
  <2>4. waitFor[r] = q /\ q # None
    BY <2>1, <2>3, PendingFacts, Zenon DEF IInv, ChainIntact
  <2> QED BY <2>1, <2>4, Zenon
<1>5. TypeOK'
  <2>1. cycles' \in [Request -> -1..LATENCY]
    BY <1>1 DEF IInv, TypeOK
  <2> QED BY <1>1, <1>2, <2>1 DEF IInv, TypeOK, Reset
<1>6. \A s \in Pending' : /\ s \in Pending /\ s \notin R /\ s # None
                          /\ depends'[s] = depends[s] /\ waitFor'[s] = waitFor[s]
                          /\ ticket'[s] = ticket[s]
                          /\ line'[s] = line[s] /\ kind'[s] = kind[s]
                          /\ cycles'[s] = IF cycles[s] < 0 THEN -1 ELSE cycles[s] - 1
  BY <1>1, <1>2, <1>3, Zenon DEF Reset, Pending
<1>7. Unused'
  <2>1. ASSUME NEW s \in Request \ Pending'
        PROVE  cycles'[s] = -1 /\ depends'[s] = None /\ waitFor'[s] = None
    BY <1>1, <1>2, <1>3 DEF IInv, Unused, Reset
  <2>2. \A s \in asked' \cup retry' : status'[s] \in {"pending", "annulled"}
    BY <1>1, <1>2, <1>4, Zenon DEF IInv, Unused, TypeOK, Reset
  <2>3. \A s \in Request : status'[s] = "queued" => line'[s] \in Line /\ kind'[s] \in Kind
    BY <1>2, Zenon DEF IInv, Unused, Reset
  <2> QED BY <2>1, <2>2, <2>3, Zenon DEF Unused
<1>8. ASSUME NEW s \in Pending'
      PROVE  /\ depends[s] # None => depends[s] \notin R
             /\ waitFor[s] # None => waitFor[s] \notin R
  <2>1. ASSUME depends[s] # None, depends[s] \in R PROVE FALSE
    <3>1. waitFor[depends[s]] = s /\ s # None
      BY <1>6, <2>1, Zenon DEF IInv, ChainIntact
    <3>2. cycles[depends[s]] # 1
      BY <2>1, <3>1 DEF IInv, NoLostWakeup
    <3>3. PICK q \in R : depends[q] = depends[s]
      BY <1>1, <2>1, <3>2, Zenon DEF Closure
    <3>4. waitFor[depends[s]] = q
      BY <2>1, <3>3, Zenon DEF IInv, ChainIntact
    <3> QED BY <1>6, <3>1, <3>3, <3>4, Zenon
  <2>2. ASSUME waitFor[s] # None, waitFor[s] \in R PROVE FALSE
    <3>1. depends[waitFor[s]] = s /\ s # None
      BY <1>6, <2>2, Zenon DEF IInv, ChainIntact
    <3> QED BY <1>1, <1>6, <2>2, <3>1 DEF Closure
  <2> QED BY <2>1, <2>2, Zenon
<1>9. ChainIntact'
  <2>1. ASSUME NEW s \in Pending', depends'[s] # None
        PROVE  /\ depends'[s] \in Pending' /\ waitFor'[depends'[s]] = s
               /\ ticket'[s] < ticket'[depends'[s]]
               /\ line'[s] = line'[depends'[s]]
               /\ SameType(kind'[s], kind'[depends'[s]])
    <3>1. /\ depends[s] # None /\ depends'[s] = depends[s]
          /\ depends[s] \in Pending /\ waitFor[depends[s]] = s
          /\ ticket[s] < ticket[depends[s]]
          /\ line[s] = line[depends[s]]
          /\ SameType(kind[s], kind[depends[s]])
      BY <1>6, <2>1, Zenon DEF IInv, ChainIntact
    <3>2. depends[s] \in Pending'
      BY <1>3, <1>8, <3>1, Zenon
    <3> QED BY <1>6, <3>1, <3>2
  <2>2. ASSUME NEW s \in Pending', waitFor'[s] # None
        PROVE  waitFor'[s] \in Pending' /\ depends'[waitFor'[s]] = s
    <3>1. /\ waitFor[s] # None /\ waitFor'[s] = waitFor[s]
          /\ waitFor[s] \in Pending /\ depends[waitFor[s]] = s
      BY <1>6, <2>2, Zenon DEF IInv, ChainIntact
    <3>2. waitFor[s] \in Pending'
      BY <1>3, <1>8, <3>1, Zenon
    <3> QED BY <1>6, <3>1, <3>2, Zenon
  <2> QED BY <2>1, <2>2, Zenon DEF ChainIntact
<1>10. NoLostWakeup'
  <2> SUFFICES ASSUME NEW s \in Pending'
               PROVE  /\ waitFor'[s] = None
                           <=> (s \in asked' \/ s \in retry' \/ cycles'[s] > 0)
                      /\ s \in asked' => s \notin retry' /\ cycles'[s] <= 0
                      /\ s \in retry' => cycles'[s] <= 0
    BY Zenon DEF NoLostWakeup
  <2>1. /\ waitFor[s] = None <=> (s \in asked \/ s \in retry \/ cycles[s] > 0)
        /\ s \in asked => s \notin retry /\ cycles[s] <= 0
        /\ s \in retry => cycles[s] <= 0
        /\ cycles[s] \in Int
    BY <1>6, PendingFacts, Zenon DEF IInv, NoLostWakeup
  <2>2. cycles[s] # 1
    BY <1>1, <1>6, Zenon DEF Closure
  <2>3. cycles'[s] > 0 <=> cycles[s] > 0
    BY <1>6, <2>1, <2>2
  <2>4. cycles[s] <= 0 => cycles'[s] <= 0
    BY <1>6, <2>1
  <2> QED BY <1>1, <1>6, <2>1, <2>3, <2>4, Zenon
<1> QED BY <1>5, <1>7, <1>9, <1>10, Zenon DEF IInv

\* Every step of the controller preserves the invariant.
LEMMA NextIInv ==
    ASSUME IInv, [Next]_vars
    PROVE  IInv'
<1>1. CASE clock
  BY <1>1, ClockIInv, Zenon
<1>2. ASSUME NEW r \in Request, NEW a \in Access, access_fast_path(r, a[1], a[2])
      PROVE  IInv'
  BY <1>2, AccessIInv, Zenon
<1>3. ASSUME NEW r \in Request,
             \/ queue_access_cb(r) \/ RetryAccess(r) \/ annul_request(r)
             \/ handle_interconnect_cb(r)
      PROVE  IInv'
  BY <1>3, QueueIInv, RetryIInv, AnnulIInv, AnswerIInv, Zenon
<1>4. CASE UNCHANGED vars
  BY <1>4, Zenon DEF vars, IInv, TypeOK, Unused, ChainIntact, NoLostWakeup, Pending
<1> QED BY <1>1, <1>2, <1>3, <1>4, Zenon DEF Next

\* At the start nothing is pending.
LEMMA InitIInv == Init => IInv
<1> SUFFICES ASSUME Init PROVE IInv
  BY Zenon
<1>1. Pending = {}
  BY Zenon DEF Init, Pending
<1>2. TypeOK
  BY CPUAssumption DEF Init, TypeOK
<1> QED BY <1>1, <1>2, Zenon DEF Init, IInv, Unused, ChainIntact, NoLostWakeup

\* The chains of pendingRequests_ stay whole, for any number of accesses and
\* any size of the list: however accesses are chained, annulled, answered and
\* counted down, depends and waitFor agree and lead along one line and type.
THEOREM ChainsStayIntact == Spec => []ChainIntact
<1>1. IInv => ChainIntact
  BY Zenon DEF IInv
<1> QED BY <1>1, InitIInv, NextIInv, PTL DEF Spec

\* No pending access is ever left without what will wake it, and none is
\* woken twice over: first of a chain, it is with L1, or tried again, or
\* counting down, and only one of them.
THEOREM WakeupsNeverLost == Spec => []NoLostWakeup
<1>1. IInv => NoLostWakeup
  BY Zenon DEF IInv
<1> QED BY <1>1, InitIInv, NextIInv, PTL DEF Spec

\* "All the dependents are wakeup one after another in sequence in which they
\* were requested": whatever the sizes, no entry is done before the one it
\* waits for.
THEOREM DependentsWokenInSequence == Spec => WokenInSequence
<1>1. ASSUME IInv, [Next]_vars
      PROVE  [\A r \in Pending : waitFor[r] # None /\ status'[r] = "woken"
                 => status'[waitFor[r]] = "woken"]_vars
  <2> USE CPUAssumption
  <2> SUFFICES ASSUME Next, NEW r \in Pending, waitFor[r] # None,
                      status'[r] = "woken"
               PROVE  status'[waitFor[r]] = "woken"
    BY <1>1, Zenon
  <2>1. status[r] = "pending" /\ r \in Request /\ waitFor[r] \in Request
        /\ r \notin asked
    BY <1>1, PendingFacts, Zenon DEF IInv, TypeOK, NoLostWakeup
  <2>2. CASE clock
    <3>1. PICK R \in SUBSET Pending :
            /\ Closure({s \in Pending : cycles[s] = 1}, R)
            /\ finalize_request(R)
      BY <2>2, Zenon DEF clock
    <3>2. status' = Reset(status, R, "woken")
      BY <3>1, Zenon DEF finalize_request
    <3>3. r \in R
      BY <2>1, <3>2, Zenon DEF Reset
    <3>4. cycles[r] # 1
      BY <1>1 DEF IInv, NoLostWakeup
    <3>5. PICK q \in R : depends[q] = r
      BY <3>1, <3>3, <3>4, Zenon DEF Closure
    <3>6. q \in Pending /\ r # None
      BY <1>1, <3>5, PendingFacts, Zenon DEF IInv
    <3>7. waitFor[r] = q
      BY <1>1, <3>5, <3>6, Zenon DEF IInv, ChainIntact
    <3> QED BY <2>1, <3>2, <3>5, <3>7, Zenon DEF Reset
  <2>3. ASSUME NEW s \in Request, NEW a \in Access, access_fast_path(s, a[1], a[2])
        PROVE  status'[r] # "woken"
    <3>1. s # r /\ \E st : status' = [status EXCEPT ![s] = st]
      BY <2>1, <2>3, Zenon DEF access_fast_path, Enter
    <3> QED BY <1>1, <2>1, <3>1, Zenon DEF IInv, TypeOK
  <2>4. ASSUME NEW s \in Request, queue_access_cb(s) PROVE status'[r] # "woken"
    <3>1. s # r /\ \E st : status' = [status EXCEPT ![s] = st]
      BY <2>1, <2>4, Zenon DEF queue_access_cb, Enter
    <3> QED BY <1>1, <2>1, <3>1, Zenon DEF IInv, TypeOK
  <2>5. ASSUME NEW s \in Request, RetryAccess(s) \/ annul_request(s)
        PROVE  status'[r] # "woken"
    BY <1>1, <2>1, <2>5, Zenon DEF RetryAccess, annul_request, IInv, TypeOK
  <2>6. ASSUME NEW s \in Request, handle_interconnect_cb(s)
        PROVE  status'[r] # "woken"
    <3>1. s # r
      BY <2>1, <2>6, Zenon DEF handle_interconnect_cb
    <3>2. status' = status \/ status' = Reset(status, {s}, "woken")
      BY <2>6, Zenon DEF handle_interconnect_cb, finalize_request
    <3> QED BY <2>1, <3>1, <3>2, Zenon DEF Reset
  <2> QED BY <2>2, <2>3, <2>4, <2>5, <2>6, Zenon DEF Next
<1>2. Spec => []IInv
  BY InitIInv, NextIInv, PTL DEF Spec
<1> QED BY <1>1, <1>2, PTL DEF Spec, WokenInSequence
=============================================================================
