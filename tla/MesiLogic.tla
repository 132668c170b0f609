------------------------------- MODULE MesiLogic -------------------------------
(***************************************************************************)
(* The MESI rules of a lowest private cache of MARSS: what a hit of its    *)
(* own core, a hit of another cache's request and the arrival of data do   *)
(* to a line.  The caches above it are not modelled, so it gets no UPDATE  *)
(* or EVICT from them.                                                     *)
(***************************************************************************)
MesiState == {"I", "S", "E", "M"}

\* handle_local_hit.  A line that is not valid is treated as a miss; a write
\* to a shared line tells the other caches to give theirs up.
LocalHit(state, type) ==
    [miss  |-> state = "I",
     state |-> IF type = "WRITE" /\ state # "I" THEN "M" ELSE state,
     evict |-> type = "WRITE" /\ state = "S"]

\* handle_interconn_hit.  A valid line is given away, shared with a read and
\* given up to a write or an evict; a modified one is also written back, but
\* not for an evict.  The caches above hear of what changes for them.
SnoopHit(state, type) ==
    [state  |-> IF type = "READ" /\ state # "I" THEN "S" ELSE "I",
     shared |-> type = "READ" /\ state # "I",
     data   |-> type # "EVICT" /\ state # "I",
     update |-> type # "EVICT" /\ state = "M",
     evictAbove  |-> type = "EVICT" \/ (type = "WRITE" /\ state # "I"),
     updateAbove |-> type = "READ" /\ state = "E"]

\* handle_interconn_miss
SnoopMiss(state) ==
    [state |-> state, shared |-> FALSE, data |-> FALSE, update |-> FALSE,
     evictAbove |-> FALSE, updateAbove |-> FALSE]

\* handle_cache_insert: the messages for the line that is pushed out.
InsertOver(state) ==
    [update |-> state = "M", evict |-> state # "I"]

\* get_new_state when the data comes.  A write is never told that the line is
\* shared (SnoopHit says so of reads only); the code, which gives the line up
\* or stops at assert(0) then, is the "I" below.
NewState(state, type, shared) ==
    IF shared THEN IF type = "READ" THEN "S" ELSE "I"
    ELSE IF type = "WRITE" THEN "M"
    ELSE IF state = "I" THEN "E" ELSE state
=============================================================================
