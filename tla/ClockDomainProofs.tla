--------------------------- MODULE ClockDomainProofs ---------------------------
(***************************************************************************)
(* Proofs about ClockDomain, for all frequencies.                          *)
(***************************************************************************)
EXTENDS ClockDomain, TLAPS

\* The products a step of the crosser adds to both sides.
LEMMA Distribute ==
    ASSUME NEW a \in Int, NEW b \in Int, NEW c \in Int
    PROVE  /\ (a + b) * c = a * c + b * c
           /\ (a - b) * c = a * c - b * c
           /\ a * c \in Int /\ a * b = b * a
  OBVIOUS

\* Multiplication by a frequency keeps the order of the factors.
LEMMA Monotone ==
    ASSUME NEW a \in Int, NEW b \in Int, NEW c \in Nat \ {0}
    PROVE  a < b <=> a * c < b * c
  OBVIOUS

\* A product is zero when a factor is.
LEMMA FromZero ==
    ASSUME NEW f \in Nat \ {0}, NEW g \in Nat \ {0}
    PROVE  /\ 0 * g - 0 * f = 0 - 0 /\ 0 <= 0 /\ 0 < 0 + g
           /\ 0 = 0 * f /\ 0 \in 0 .. f - 1 /\ 0 \in 0 .. f
  OBVIOUS

\* A crossing of unequal clocks keeps the difference of the counters equal to
\* what is owed, and the counters multiples of the frequencies.
LEMMA CrossKeeps ==
    ASSUME IInv, NEW n \in Nat, Cross(n), updates' = updates + 1,
           clock1' = clock1, clock2' = clock2
    PROVE  IInv'
<1> DEFINE c1 == counter1 + clock1
           c2 == counter2 + n * clock2
<1>1. /\ clock1 \in Nat \ {0} /\ clock2 \in Nat \ {0} /\ counter1 \in Nat
      /\ counter2 \in Nat /\ updates \in Nat /\ cycles \in Nat
      /\ cycles * clock2 - updates * clock1 = counter2 - counter1
      /\ counter1 <= counter2 /\ counter2 < counter1 + clock2
  BY DEF IInv, TypeOK, Owed
<1>2. /\ c1 \in Nat /\ n * clock2 \in Nat /\ c2 \in Nat
      /\ cycles * clock2 \in Int /\ updates * clock1 \in Int
  BY <1>1
<1>3. /\ c2 >= c1 /\ (n > 0 => counter2 + (n - 1) * clock2 < c1)
      /\ counter1' = (IF c1 = c2 THEN 0 ELSE c1)
      /\ counter2' = (IF c1 = c2 THEN 0 ELSE c2)
      /\ cycles' = cycles + n
  BY DEF Cross, Loops
<1>4. c1 <= c2 /\ c2 < c1 + clock2
  <2>1. CASE n = 0
    BY <1>1, <1>3, <2>1
  <2>2. CASE n > 0
    <3>1. (n - 1) * clock2 = n * clock2 - clock2
      BY <1>1, Distribute
    <3> QED
      BY <1>1, <1>2, <1>3, <2>2, <3>1
  <2> QED
    BY <2>1, <2>2
<1>5. cycles' * clock2 - updates' * clock1 = c2 - c1
  <2>1. (cycles + n) * clock2 = cycles * clock2 + n * clock2
    BY <1>1, Distribute
  <2>2. (updates + 1) * clock1 = updates * clock1 + clock1
    BY <1>1, Distribute
  <2> QED
    BY <1>1, <1>2, <1>3, <2>1, <2>2
<1>6. PICK m \in 0 .. clock2 - 1 : counter1 = m * clock1
  BY DEF IInv, Multiples
<1>7. PICK j \in 0 .. clock1 : counter2 = j * clock2
  BY DEF IInv, Multiples
<1>8. /\ m + 1 \in Nat /\ m + 1 <= clock2 /\ j + n \in Nat
      /\ c1 = (m + 1) * clock1 /\ c2 = (j + n) * clock2
  <2>1. (m + 1) * clock1 = m * clock1 + clock1 /\ (j + n) * clock2 = j * clock2 + n * clock2
    BY <1>1, <1>6, <1>7, Distribute
  <2> QED
    BY <1>1, <1>6, <1>7, <2>1
<1> HIDE DEF c1, c2
\* counter2 has grown by at most clock1 steps of clock2.
<1>9. j + n <= clock1
  <2> SUFFICES ASSUME clock1 + 1 <= j + n PROVE FALSE
    BY <1>1, <1>8
  <2>1. (clock1 + 1) * clock2 = clock1 * clock2 + clock2 /\ clock1 * clock2 \in Int
    BY <1>1, Distribute
  <2>2. (clock1 + 1) * clock2 <= (j + n) * clock2
    BY <1>1, <1>8, Monotone
  <2>3. (m + 1) * clock1 <= clock2 * clock1
    BY <1>1, <1>8, Monotone
  <2>4. clock2 * clock1 = clock1 * clock2
    BY <1>1, Distribute
  <2> QED
    BY <1>1, <1>2, <1>4, <1>8, <2>1, <2>2, <2>3, <2>4
\* After clock2 steps of clock1 the counters have met.
<1>10. c1 # c2 => m + 1 <= clock2 - 1
  <2> SUFFICES ASSUME m + 1 = clock2 PROVE c1 = c2
    BY <1>1, <1>8
  <2>1. c1 = clock1 * clock2 /\ clock1 * clock2 \in Int
    BY <1>1, <1>8, Distribute
  <2>2. (j + n) * clock2 <= clock1 * clock2
    BY <1>1, <1>8, <1>9, Monotone
  <2> QED
    BY <1>2, <1>4, <1>8, <2>1, <2>2
<1>11. TypeOK'
  BY <1>1, <1>2, <1>3 DEF TypeOK
<1>12. Owed'
  BY <1>1, <1>2, <1>3, <1>4, <1>5 DEF Owed
<1>13. Multiples'
  <2>1. CASE c1 = c2
    <3>1. 0 * clock1 = 0 /\ 0 * clock2 = 0
      BY <1>1
    <3>2. counter1' = 0 /\ counter2' = 0 /\ 0 \in 0 .. clock2 - 1 /\ 0 \in 0 .. clock1
      BY <1>1, <1>3, <2>1
    <3> QED
      BY <3>1, <3>2 DEF Multiples
  <2>2. CASE c1 # c2
    <3>1. /\ counter1' = (m + 1) * clock1 /\ counter2' = (j + n) * clock2
          /\ m + 1 \in 0 .. clock2 - 1 /\ j + n \in 0 .. clock1
      BY <1>1, <1>3, <1>8, <1>9, <1>10, <2>2
    <3> QED
      BY <3>1 DEF Multiples
  <2> QED
    BY <2>1, <2>2
<1>14. AtStart'
  BY <1>1 DEF AtStart
<1> QED
  BY <1>11, <1>12, <1>13, <1>14 DEF IInv

\* An update of equal clocks, one memory cycle per call, keeps the invariant.
LEMMA EqualKeeps ==
    ASSUME IInv, clock1 = clock2, cycles' = cycles + 1, updates' = updates + 1,
           UNCHANGED <<clock1, clock2, counter1, counter2>>
    PROVE  IInv'
<1>1. /\ clock1 \in Nat \ {0} /\ clock2 \in Nat \ {0} /\ counter1 \in Nat
      /\ counter2 \in Nat /\ updates \in Nat /\ cycles \in Nat
      /\ cycles * clock2 - updates * clock1 = counter2 - counter1
  BY DEF IInv, TypeOK, Owed
<1>2. (cycles + 1) * clock2 - (updates + 1) * clock1 = counter2 - counter1
  <2>1. /\ (cycles + 1) * clock2 = cycles * clock2 + clock2
        /\ (updates + 1) * clock1 = updates * clock1 + clock1
        /\ cycles * clock2 \in Int /\ updates * clock1 \in Int
    BY <1>1, Distribute
  <2> QED
    BY <1>1, <2>1
<1>3. TypeOK' /\ Owed'
  BY <1>1, <1>2 DEF IInv, TypeOK, Owed
<1>4. Multiples' /\ AtStart'
  BY <1>1 DEF IInv, Multiples, AtStart
<1> QED
  BY <1>3, <1>4 DEF IInv

\* Setting the speeds before the first update keeps the invariant.
LEMMA SetSpeedKeeps ==
    ASSUME IInv, updates = 0, UNCHANGED <<counter1, counter2, updates, cycles>>,
           clock1' \in Nat \ {0}, clock2' \in Nat \ {0}
    PROVE  IInv'
<1>1. /\ updates' = 0 /\ counter1' = 0 /\ counter2' = 0 /\ cycles' = 0
  BY DEF IInv, AtStart
<1>2. TypeOK'
  BY <1>1 DEF TypeOK
<1>3. Owed'
  BY <1>1, FromZero DEF Owed
<1>4. Multiples' /\ AtStart'
  BY <1>1, FromZero DEF Multiples, AtStart
<1> QED
  BY <1>2, <1>3, <1>4 DEF IInv
-----------------------------------------------------------------------------
\* The crosser keeps its invariant for all frequencies.
THEOREM CrosserInvariant == Spec => []IInv
<1>1. Init => IInv
  <2> SUFFICES ASSUME Init PROVE IInv
    OBVIOUS
  <2>1. TypeOK /\ Owed /\ AtStart
    BY DEF Init, TypeOK, Owed, AtStart
  <2>2. Multiples
    <3>1. 0 \in 0 .. 1 - 1 /\ 0 \in 0 .. 1 /\ 0 * 1 = 0
      OBVIOUS
    <3> QED
      BY <3>1 DEF Init, Multiples
  <2> QED
    BY <2>1, <2>2 DEF IInv
<1>2. IInv /\ [Next]_vars => IInv'
  <2> SUFFICES ASSUME IInv, [Next]_vars PROVE IInv'
    OBVIOUS
  <2>1. ASSUME NEW memory \in Frequencies, NEW cpu \in Frequencies \cup {0},
               setCPUClockSpeed(memory, cpu)
        PROVE  IInv'
    <3>1. clock1' \in Nat \ {0} /\ clock2' \in Nat \ {0}
      BY <2>1, FrequencyAssumption DEF setCPUClockSpeed
    <3> QED
      BY <2>1, <3>1, SetSpeedKeeps DEF setCPUClockSpeed
  <2>2. CASE update
    <3>1. CASE clock1 = clock2
      BY <2>2, <3>1, EqualKeeps DEF update
    <3>2. CASE clock1 # clock2
      <4>1. PICK n \in 0 .. counter1 + clock1 : Cross(n)
        BY <2>2, <3>2 DEF update
      <4>2. n \in Nat
        OBVIOUS
      <4> QED
        BY <2>2, <4>1, <4>2, CrossKeeps DEF update
    <3> QED
      BY <3>1, <3>2
  <2>3. CASE UNCHANGED vars
    BY <2>3 DEF vars, IInv, TypeOK, Owed, Multiples, AtStart
  <2> QED
    BY <2>1, <2>2, <2>3 DEF Next
<1> QED
  BY <1>1, <1>2, PTL DEF Spec

\* The memory clock never drifts from the CPU clock, whatever their ratio.
THEOREM ClocksNeverDrift == Spec => []NoDrift
<1>1. IInv => NoDrift
  <2> SUFFICES ASSUME IInv PROVE NoDrift
    OBVIOUS
  <2>1. /\ clock1 \in Int /\ clock2 \in Int /\ counter1 \in Int
        /\ counter2 \in Int /\ updates \in Int /\ cycles \in Int
    BY DEF IInv, TypeOK
  <2>2. cycles * clock2 \in Int /\ updates * clock1 \in Int
    BY <2>1
  <2> QED
    BY <2>1, <2>2 DEF IInv, Owed, NoDrift
<1> QED
  BY <1>1, CrosserInvariant, PTL

\* The counters of the crosser never pass the product of the frequencies.
THEOREM CrosserCountersBounded == Spec => []CountersBounded
<1>1. IInv => CountersBounded
  <2> SUFFICES ASSUME IInv PROVE CountersBounded
    OBVIOUS
  <2>1. clock1 \in Nat \ {0} /\ clock2 \in Nat \ {0}
    BY DEF IInv, TypeOK
  <2>2. PICK m \in 0 .. clock2 - 1 : counter1 = m * clock1
    BY DEF IInv, Multiples
  <2>3. PICK n \in 0 .. clock1 : counter2 = n * clock2
    BY DEF IInv, Multiples
  <2>4. m * clock1 <= clock2 * clock1 /\ n * clock2 <= clock1 * clock2
    BY <2>1, <2>2, <2>3, Monotone
  <2>5. clock2 * clock1 = clock1 * clock2
    BY <2>1, Distribute
  <2> QED
    BY <2>2, <2>3, <2>4, <2>5 DEF CountersBounded
<1> QED
  BY <1>1, CrosserInvariant, PTL
=============================================================================
