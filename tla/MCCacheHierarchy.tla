---------------------------- MODULE MCCacheHierarchy ---------------------------
(***************************************************************************)
(* A small instance of CacheHierarchy for TLC.                             *)
(***************************************************************************)
EXTENDS CacheHierarchy

CONSTANTS c1, c2, c3

\* The order of the machine definition: the caches, then the memory.
MCCache == {c1, c2, c3}
MCOrder == <<c1, c2, c3, MEM>>

\* Nothing is cached; two caches share line 1; one cache has modified it.
Holding(C, state) ==
    [c \in MCCache |-> IF c \in C THEN [tag |-> tagOf(1), state |-> state] ELSE EmptyLine]
MCWarm == {Holding({}, "I"), Holding({c1, c2}, "S"), Holding({c1}, "M")}

\* c1 pushes out the line that all three caches want.
Asks(c, n, type, line) == [core |-> c, n |-> n, type |-> type, line |-> line]
MCAccess ==
    UNION {{Asks(c1, n, "WRITE", 1), Asks(c1, n, "WRITE", 2),
            Asks(c2, n, "WRITE", 1), Asks(c3, n, "READ", 1)} : n \in 1..MAX_ACCESSES}
MCRequest == MCAccess \cup [type : {"UPDATE", "EVICT"}, line : Line]
=============================================================================
