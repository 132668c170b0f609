------------------------------ MODULE ClockDomain ------------------------------
(***************************************************************************)
(* The clock domain crosser (ClockDomain.cpp) between the CPU, which calls *)
(* MultiChannelMemorySystem::update once per CPU cycle, and the channels,  *)
(* which run at the memory's own frequency.  Two history variables count   *)
(* the calls since the speeds were set and the memory cycles they caused.  *)
(***************************************************************************)
EXTENDS Integers

CONSTANT Frequencies      \* in Hz, of either clock

ASSUME FrequencyAssumption == Frequencies \subseteq Nat \ {0}

VARIABLES clock1,         \* the memory's frequency
          clock2,         \* the CPU's frequency
          counter1, counter2,
          updates, cycles

vars == <<clock1, clock2, counter1, counter2, updates, cycles>>

\* The default crosser has ratio 1:1.
Init ==
    /\ clock1 = 1 /\ clock2 = 1 /\ counter1 = 0 /\ counter2 = 0
    /\ updates = 0 /\ cycles = 0

\* Fault: the speeds may be changed between two updates.
setCPUClockSpeedLate(memory, cpu) ==
    /\ clock1' = memory /\ clock2' = IF cpu = 0 THEN memory ELSE cpu
    /\ UNCHANGED <<counter1, counter2, updates, cycles>>

\* Both simulators set the speed before their first update; a CPU frequency of
\* 0 stands for the memory's own.
setCPUClockSpeed(memory, cpu) ==
    /\ updates = 0
    /\ clock1' = memory /\ clock2' = IF cpu = 0 THEN memory ELSE cpu
    /\ UNCHANGED <<counter1, counter2, updates, cycles>>

\* Fault: the loop runs until counter2 has passed c1.
LoopsPast(c1, n) ==
    /\ counter2 + n * clock2 > c1
    /\ n > 0 => counter2 + (n - 1) * clock2 <= c1

\* The loop adds clock2 to counter2, and makes a callback, n times: until
\* counter2 is no longer below c1.
Loops(c1, n) ==
    /\ counter2 + n * clock2 >= c1
    /\ n > 0 => counter2 + (n - 1) * clock2 < c1

\* Fault: the counters are not reset when they meet.
CrossWithoutReset(n) ==
    /\ Loops(counter1 + clock1, n)
    /\ counter1' = counter1 + clock1
    /\ counter2' = counter2 + n * clock2
    /\ cycles' = cycles + n

Cross(n) ==
    LET c1 == counter1 + clock1
        c2 == counter2 + n * clock2
    IN  /\ Loops(c1, n)
        /\ counter1' = IF c1 = c2 THEN 0 ELSE c1
        /\ counter2' = IF c1 = c2 THEN 0 ELSE c2
        /\ cycles' = cycles + n

update ==
    /\ IF clock1 = clock2
       THEN cycles' = cycles + 1 /\ UNCHANGED <<counter1, counter2>>
       ELSE \E n \in 0 .. counter1 + clock1 : Cross(n)
    /\ updates' = updates + 1
    /\ UNCHANGED <<clock1, clock2>>

Next ==
    \/ \E memory \in Frequencies, cpu \in Frequencies \cup {0} :
          setCPUClockSpeed(memory, cpu)
    \/ update

Spec == Init /\ [][Next]_vars
-----------------------------------------------------------------------------
TypeOK ==
    /\ clock1 \in Nat \ {0} /\ clock2 \in Nat \ {0}
    /\ counter1 \in Nat /\ counter2 \in Nat /\ updates \in Nat /\ cycles \in Nat

\* The memory clock never drifts: after any number of CPU cycles the number of
\* memory cycles is updates * clock1 / clock2, rounded up.
NoDrift ==
    /\ cycles * clock2 >= updates * clock1
    /\ cycles * clock2 < updates * clock1 + clock2

\* The counters, which are reset only when they meet, never pass the product of
\* the frequencies: 64 bits are enough whenever that product fits.
CountersBounded ==
    counter1 <= clock1 * clock2 /\ counter2 <= clock1 * clock2
-----------------------------------------------------------------------------
(* The inductive invariant: what is owed is the difference of the counters,   *)
(* and the counters are multiples of the frequencies.                         *)

Owed ==
    /\ cycles * clock2 - updates * clock1 = counter2 - counter1
    /\ counter1 <= counter2 /\ counter2 < counter1 + clock2

Multiples ==
    /\ \E m \in 0 .. clock2 - 1 : counter1 = m * clock1
    /\ \E n \in 0 .. clock1 : counter2 = n * clock2

AtStart == updates = 0 => counter1 = 0 /\ counter2 = 0 /\ cycles = 0

IInv == TypeOK /\ Owed /\ Multiples /\ AtStart
=============================================================================
