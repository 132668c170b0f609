----------------------------- MODULE CPUController -----------------------------
(***************************************************************************)
(* The controller between a core of MARSS and its L1 caches.  An access    *)
(* that is not answered at once gets an entry of pendingRequests_.         *)
(* Entries for the same line and type form a chain: only the first of a    *)
(* chain goes to L1, the others are woken one by one when the one before   *)
(* them is done.  A squashed instruction takes its entry out of its chain. *)
(*                                                                         *)
(* A request has at most one entry, so entries go by their request, and    *)
(* the order of the list is the order of their tickets.  All cycles below  *)
(* zero, which count nothing, are -1.                                      *)
(***************************************************************************)
EXTENDS Integers, FiniteSets, SequencesExt

CONSTANTS Request,        \* the accesses of a core, numbered as it makes them
          Line,           \* cache lines
          Access,         \* the lines and kinds of the accesses it makes
          None,           \* no entry: index -1 in the code
          PENDING_SIZE,   \* CPU_CONT_PENDING_REQ_SIZE
          BUFFER_SIZE,    \* CPU_CONT_ICACHE_BUF_SIZE
          LATENCY         \* of a hit in L1

Kind == {"load", "store", "fetch"}

ASSUME CPUAssumption ==
    /\ Access \subseteq Line \X Kind
    /\ Request \subseteq Nat /\ IsFiniteSet(Request)
    /\ None \notin Request
    /\ PENDING_SIZE \in Nat \ {0}
    /\ BUFFER_SIZE \in Nat \ {0}
    /\ LATENCY \in Nat \ {0}

VARIABLES core,           \* the core model in front: "ooo" or "atom"
          status,         \* what has become of each request
          line, kind,     \* the line and the kind of access of a request
          cycles, depends, waitFor, ticket,   \* its entry
          allocs,         \* entries handed out so far
          asked,          \* requests L1 has taken and not yet answered
          retry,          \* requests with a pending cacheAccess_ event
          icacheBuffer    \* lines of the latest instruction fetches

vars == <<core, status, line, kind, cycles, depends, waitFor, ticket, allocs,
          asked, retry, icacheBuffer>>

Pending == {r \in Request : status[r] = "pending"}
isFull == Cardinality(Pending) >= PENDING_SIZE
SameType(k, l) == (k = "store") <=> (l = "store")

\* The two L1 caches: fetches go to the one, loads and stores to the other.
SameCache(k, l) == (k = "fetch") <=> (l = "fetch")

\* C is S and all that hangs on it by depends.
Closure(S, C) ==
    /\ S \subseteq C
    /\ \A r \in C : depends[r] # None => depends[r] \in C
    /\ \A s \in C \ S : \E r \in C : depends[r] = s

\* The end of the chain that starts at the oldest entry for line l.
find_dependency(l, end) ==
    \/ /\ end = None
       /\ \A r \in Pending : line[r] # l
    \/ \E first \in Pending :
          /\ line[first] = l
          /\ \A r \in Pending : ticket[r] < ticket[first] => line[r] # l
          /\ \E C \in SUBSET Pending :
                Closure({first}, C) /\ end \in C /\ depends[end] = None

Init ==
    /\ core \in {"ooo", "atom"}
    /\ status = [r \in Request |-> "new"]
    /\ line = [r \in Request |-> None]
    /\ kind = [r \in Request |-> None]
    /\ cycles = [r \in Request |-> -1]
    /\ depends = [r \in Request |-> None]
    /\ waitFor = [r \in Request |-> None]
    /\ ticket = [r \in Request |-> 0]
    /\ allocs = 0
    /\ asked = {} /\ retry = {}
    /\ icacheBuffer = <<>>
-----------------------------------------------------------------------------
\* Fault: a refused access is not tried again.
CacheAccessOnce(r) ==
    /\ asked' \in {asked, asked \cup {r}}
    /\ retry' = retry \ {r}

\* Request r goes to L1, which takes it or refuses it: then an event tries
\* again.  An entry that is annulled or counting down is left alone.
cache_access_cb(r) ==
    \/ /\ status[r] = "annulled" \/ cycles[r] > 0
       /\ asked' = asked /\ retry' = retry \ {r}
    \/ /\ status[r] # "annulled" /\ cycles[r] <= 0
       /\ \/ asked' = asked \cup {r} /\ retry' = retry \ {r}
          \/ asked' = asked /\ retry' = retry \cup {r}

\* What L1's fast path may say to an access of kind k to line l: a hit after
\* LATENCY cycles, or -1.  It has no hit for a store, nor on a line it is
\* still working on.
FastPath(l, k) ==
    IF \/ k = "store"
       \/ \E s \in asked : line[s] = l /\ SameCache(kind[s], k)
    THEN {-1} ELSE {-1, LATENCY}

\* Fault: an entry behind another one counts down the fast path's latency.
EnterCounting(r, l, k, lat) ==
    \E end \in Pending \cup {None} :
        /\ find_dependency(l, end)
        /\ status' = [status EXCEPT ![r] = "pending"]
        /\ allocs' = allocs + 1
        /\ ticket' = [ticket EXCEPT ![r] = allocs + 1]
        /\ IF end # None /\ SameType(kind[end], k)
           THEN /\ depends' = [depends EXCEPT ![end] = r]
                /\ waitFor' = [waitFor EXCEPT ![r] = end]
           ELSE UNCHANGED <<depends, waitFor>>
        /\ IF lat > 0
           THEN cycles' = [cycles EXCEPT ![r] = lat] /\ UNCHANGED <<asked, retry>>
           ELSE cache_access_cb(r) /\ UNCHANGED cycles
        /\ UNCHANGED <<core, icacheBuffer>>

\* A new entry for r goes behind the end of the chain if that is of its type;
\* otherwise it counts down the fast path's latency or goes to L1.
Enter(r, l, k, lat) ==
    \E end \in Pending \cup {None} :
        /\ find_dependency(l, end)
        /\ status' = [status EXCEPT ![r] = "pending"]
        /\ allocs' = allocs + 1
        /\ ticket' = [ticket EXCEPT ![r] = allocs + 1]
        /\ IF end # None /\ SameType(kind[end], k)
           THEN /\ depends' = [depends EXCEPT ![end] = r]
                /\ waitFor' = [waitFor EXCEPT ![r] = end]
                /\ UNCHANGED <<cycles, asked, retry>>
           ELSE /\ IF lat > 0
                   THEN /\ cycles' = [cycles EXCEPT ![r] = lat]
                        /\ UNCHANGED <<asked, retry>>
                   ELSE cache_access_cb(r) /\ UNCHANGED cycles
                /\ UNCHANGED <<depends, waitFor>>
        /\ UNCHANGED <<core, icacheBuffer>>

\* The next access of the core.  A fetch of a line in the buffer is answered
\* at once.  Every access but a committing store of the Atom core is made
\* only while the list has room.
access_fast_path(r, l, k) ==
    /\ status[r] = "new"
    /\ \A s \in Request : s < r => status[s] # "new"
    /\ ~isFull \/ (core = "atom" /\ k = "store")
    /\ line' = [line EXCEPT ![r] = l]
    /\ kind' = [kind EXCEPT ![r] = k]
    /\ \/ /\ k = "fetch" /\ Contains(icacheBuffer, l)
          /\ status' = [status EXCEPT ![r] = "woken"]
          /\ UNCHANGED <<core, cycles, depends, waitFor, ticket, allocs, asked,
                         retry, icacheBuffer>>
       \/ /\ ~(k = "fetch" /\ Contains(icacheBuffer, l))
          /\ ~isFull
          /\ \E lat \in FastPath(l, k) : Enter(r, l, k, lat)
       \/ /\ isFull
          /\ status' = [status EXCEPT ![r] = "queued"]
          /\ UNCHANGED <<core, cycles, depends, waitFor, ticket, allocs, asked,
                         retry, icacheBuffer>>

\* The event of a request that found the list full.
queue_access_cb(r) ==
    /\ status[r] = "queued"
    /\ ~isFull
    /\ Enter(r, line[r], kind[r], -1)
    /\ UNCHANGED <<line, kind>>

\* The event of an entry that L1 refused.
RetryAccess(r) ==
    /\ r \in retry
    /\ cache_access_cb(r)
    /\ UNCHANGED <<core, status, line, kind, cycles, depends, waitFor, ticket,
                   allocs, icacheBuffer>>

\* f with the value of a fresh entry for the requests R, whose entries are
\* freed: init() sets it again before the entry is next used.
Reset(f, R, fresh) == [r \in Request |-> IF r \in R THEN fresh ELSE f[r]]

\* Fault: the entry behind an annulled one is not told whom it waits for now.
AnnulKeepsWaitFor(r) ==
    /\ core = "ooo" /\ kind[r] # "fetch" /\ r \in Pending
    /\ status' = [status EXCEPT ![r] = "annulled"]
    /\ depends' = Reset([s \in Request |-> IF s = waitFor[r] THEN depends[r]
                                           ELSE depends[s]], {r}, None)
    /\ waitFor' = Reset([s \in Request |-> IF s = depends[r] /\ waitFor[r] = None
                                           THEN None ELSE waitFor[s]], {r}, None)
    /\ cycles' = Reset(cycles, {r}, -1)
    /\ ticket' = Reset(ticket, {r}, 0)
    /\ IF depends[r] # None /\ waitFor[r] = None
       THEN cache_access_cb(depends[r]) ELSE UNCHANGED <<asked, retry>>
    /\ UNCHANGED <<core, line, kind, allocs, icacheBuffer>>

\* Fault: annulling the first of a chain does not send the next one to L1.
AnnulSendsNone(r) ==
    /\ core = "ooo" /\ kind[r] # "fetch" /\ r \in Pending
    /\ status' = [status EXCEPT ![r] = "annulled"]
    /\ depends' = Reset([s \in Request |-> IF s = waitFor[r] THEN depends[r]
                                           ELSE depends[s]], {r}, None)
    /\ waitFor' = Reset([s \in Request |-> IF s = depends[r] THEN waitFor[r]
                                           ELSE waitFor[s]], {r}, None)
    /\ cycles' = Reset(cycles, {r}, -1)
    /\ ticket' = Reset(ticket, {r}, 0)
    /\ UNCHANGED <<core, line, kind, allocs, asked, retry, icacheBuffer>>

\* The core squashes a load or a store: its entry leaves its chain, and an
\* entry that is now the first of its chain goes to L1.
annul_request(r) ==
    /\ core = "ooo" /\ kind[r] # "fetch" /\ r \in Pending
    /\ status' = [status EXCEPT ![r] = "annulled"]
    /\ depends' = Reset([s \in Request |-> IF s = waitFor[r] THEN depends[r]
                                           ELSE depends[s]], {r}, None)
    /\ waitFor' = Reset([s \in Request |-> IF s = depends[r] THEN waitFor[r]
                                           ELSE waitFor[s]], {r}, None)
    /\ cycles' = Reset(cycles, {r}, -1)
    /\ ticket' = Reset(ticket, {r}, 0)
    /\ IF depends[r] # None /\ waitFor[r] = None
       THEN cache_access_cb(depends[r]) ELSE UNCHANGED <<asked, retry>>
    /\ UNCHANGED <<core, line, kind, allocs, icacheBuffer>>

\* The buffer after the lines of the fetches among R went in, in the order of
\* the list, each pushing out the oldest line when the buffer is full.
Buffered(R) ==
    FoldLeft(LAMBDA buffer, r :
                Append(IF Len(buffer) = BUFFER_SIZE THEN Tail(buffer) ELSE buffer,
                       line[r]),
             icacheBuffer,
             SetToSortSeq({r \in R : kind[r] = "fetch"},
                          LAMBDA r, s : ticket[r] < ticket[s]))

\* The entries R are done: the core is woken and the entries are freed.
finalize_request(R) ==
    /\ icacheBuffer' = Buffered(R)
    /\ status' = Reset(status, R, "woken")
    /\ line' = Reset(line, R, None)
    /\ kind' = Reset(kind, R, None)
    /\ depends' = Reset(depends, R, None)
    /\ ticket' = Reset(ticket, R, 0)

\* L1 answers r: the entry that waits for r will be done in the next cycle.
\* There is no entry any more if r is annulled.
handle_interconnect_cb(r) ==
    /\ r \in asked
    /\ asked' = asked \ {r}
    /\ IF r \in Pending
       THEN /\ cycles' = Reset([s \in Request |-> IF s = depends[r] THEN 1
                                                  ELSE cycles[s]], {r}, -1)
            /\ waitFor' = [s \in Request |-> IF s = depends[r] THEN None
                                             ELSE waitFor[s]]
            /\ finalize_request({r})
       ELSE UNCHANGED <<status, line, kind, cycles, depends, waitFor, ticket,
                        icacheBuffer>>
    /\ UNCHANGED <<core, allocs, retry>>

\* The entries whose count ends now are done, and with them those that wait
\* for them: each is woken with a count of 1 and is further down the list, so
\* the same walk of the list counts it down too.
clock ==
    \E R \in SUBSET Pending :
        /\ Closure({r \in Pending : cycles[r] = 1}, R)
        /\ cycles' = [r \in Request |-> IF r \in R \/ cycles[r] < 0 THEN -1
                                        ELSE cycles[r] - 1]
        /\ waitFor' = Reset(waitFor, R, None)
        /\ finalize_request(R)
        /\ UNCHANGED <<core, allocs, asked, retry>>

Next ==
    \/ clock
    \/ \E r \in Request :
          \/ \E a \in Access : access_fast_path(r, a[1], a[2])
          \/ queue_access_cb(r)
          \/ RetryAccess(r)
          \/ annul_request(r)
          \/ handle_interconnect_cb(r)

Spec == Init /\ [][Next]_vars

(***************************************************************************)
(* The machine clocks the controller every cycle and runs the events that  *)
(* are due.  L1 answers what it takes, and does not refuse for ever.       *)
(***************************************************************************)
Fairness ==
    /\ WF_vars(clock)
    /\ \A r \in Request :
          /\ WF_vars(queue_access_cb(r))
          /\ WF_vars(RetryAccess(r) /\ r \notin retry')
          /\ WF_vars(handle_interconnect_cb(r))

FairSpec == Spec /\ Fairness
-----------------------------------------------------------------------------
\* The type of the state.
TypeOK ==
    /\ core \in {"ooo", "atom"}
    /\ status \in [Request -> {"new", "queued", "pending", "woken", "annulled"}]
    /\ line \in [Request -> Line \cup {None}]
    /\ kind \in [Request -> Kind \cup {None}]
    /\ cycles \in [Request -> -1..LATENCY]
    /\ depends \in [Request -> Request \cup {None}]
    /\ waitFor \in [Request -> Request \cup {None}]
    /\ ticket \in [Request -> 0..allocs]
    /\ allocs \in Nat
    /\ asked \subseteq Request /\ retry \subseteq Request

\* The chains stay whole whatever is annulled, answered or counted down in
\* whatever order: depends and waitFor of pending entries are each other's
\* inverse, and lead from an entry to a later one of its line and type.
ChainIntact ==
    /\ \A r \in Pending : depends[r] # None =>
          /\ depends[r] \in Pending /\ waitFor[depends[r]] = r
          /\ ticket[r] < ticket[depends[r]]
          /\ line[r] = line[depends[r]]
          /\ SameType(kind[r], kind[depends[r]])
    /\ \A r \in Pending : waitFor[r] # None =>
          waitFor[r] \in Pending /\ depends[waitFor[r]] = r

\* No pending access is left without anything that will wake it: the first
\* of a chain is with L1, or will be tried again, or counts down, exactly one
\* of the three; the others of a chain wait, and do none of it.
NoLostWakeup ==
    \A r \in Pending :
        /\ waitFor[r] = None <=> (r \in asked \/ r \in retry \/ cycles[r] > 0)
        /\ r \in asked => r \notin retry /\ cycles[r] <= 0
        /\ r \in retry => cycles[r] <= 0

\* "All the dependents are wakeup one after another in sequence in which they
\* were requested" (wakeup_dependents): no entry is done before the one it
\* waits for.  It may be done in the same cycle; see WakeupTakesACycle.
WokenInSequence ==
    [][\A r \in Pending : waitFor[r] # None /\ status'[r] = "woken"
          => status'[waitFor[r]] = "woken"]_vars

\* The same comment goes on: "The delay for each entry to wakeup is 1 cycle. At
\* first wakeup only next dependent in next cycle."  No entry is done in the
\* step in which the one it waits for is done.  The code does not do this:
\* clock finishes a chain in one walk of the list.
WakeupTakesACycle ==
    [][\A r \in Pending : waitFor[r] # None => status'[r] # "woken"]_vars

\* An entry that is not in use is as init() leaves it, and only requests that
\* are pending, or were annulled, are with L1 or tried again.  A request that
\* found the list full keeps its line and kind.
Unused ==
    /\ \A r \in Request \ Pending :
          cycles[r] = -1 /\ depends[r] = None /\ waitFor[r] = None
    /\ \A r \in asked \cup retry : status[r] \in {"pending", "annulled"}
    /\ \A r \in Request : status[r] = "queued" => line[r] \in Line /\ kind[r] \in Kind

IInv == TypeOK /\ Unused /\ ChainIntact /\ NoLostWakeup

\* Every access a core has made is answered in the end, or annulled.
EveryAccessEnds ==
    \A r \in Request :
        status[r] \in {"queued", "pending"} ~> status[r] \in {"woken", "annulled"}
=============================================================================
