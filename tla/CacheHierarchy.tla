----------------------------- MODULE CacheHierarchy ----------------------------
(***************************************************************************)
(* The coherent part of the memory hierarchy of MARSS: the lowest private  *)
(* caches of the cores and the memory controller on the split-phase bus,   *)
(* with the DRAM behind it, which keeps the promise of MemoryService.      *)
(***************************************************************************)
EXTENDS SplitPhaseBus, CoherentCache

CONSTANTS Line, Access,    \* the requests the cores may make
          Warm,            \* the lines the caches may hold at the start
          MAX_ACCESSES,    \* bound: accesses of all cores together
          MEM_SIZE         \* entries of the memory controller

ASSUME HierarchyAssumption ==
    /\ Line \subseteq Nat \ {0}
    /\ Access \subseteq [core : Cache, n : Nat, type : {"READ", "WRITE"}, line : Line]
    /\ Request = Access \cup [type : {"UPDATE", "EVICT"}, line : Line]
    /\ Warm \subseteq [Cache -> [tag : {NoTag} \cup {tagOf(l) : l \in Line}, state : MesiState]]
    /\ MEM_SIZE \in Nat \ {0} /\ LINE_SIZE \in Nat \ {0} /\ MAX_ACCESSES \in Nat
    /\ Range(ControllerOrder) = Controller

VARIABLES slot,      \* per cache, its line
          entries,   \* per cache, its pendingRequests_
          mem,       \* pendingRequests_ of the memory controller
          dram,      \* per line, the transactions DRAMSim2 has not answered
          waiting,   \* requests whose cores have no answer yet
          issued     \* per core, its accesses so far

vars == <<busvars, slot, entries, mem, dram, waiting, issued>>

\* Only the operators on outstanding transactions are used.  Their order is not
\* relied on: several cores may fill the channel.
Memory == INSTANCE MemoryService
             WITH Address <- Line, outstanding <- dram, ordered <- FALSE, done <- dram

Init ==
    /\ BusInit
    /\ slot \in Warm
    /\ entries = [c \in Cache |-> <<>>]
    /\ mem = <<>>
    /\ dram = [l \in Line |-> <<>>]
    /\ waiting = {}
    /\ issued = [c \in Cache |-> 0]

IsMessage(request) == request.type \in {"UPDATE", "EVICT"}
-----------------------------------------------------------------------------
\* A core asks its cache.
Issue(c, request) ==
    /\ SumFunction(issued) < MAX_ACCESSES
    /\ issued' = [issued EXCEPT ![c] = @ + 1]
    /\ waiting' = waiting \cup {request}
    /\ entries' = [entries EXCEPT ![c] = handle_upper_interconnect(@, request)]
    /\ UNCHANGED <<busvars, slot, mem, dram>>

\* cache_access_cb, once it gets a port.  A line that is not valid is a hit.
CacheAccess(c, e) ==
    /\ e.pc = "access"
    /\ entries' = [entries EXCEPT ![c] =
          IF slot[c].tag = tagOf(e.request.line)
          THEN Put(@, [e EXCEPT !.pc = "hit", !.hasLine = TRUE])
          ELSE Put(@, [e EXCEPT !.pc = "miss", !.hasLine = FALSE])]
    /\ UNCHANGED <<busvars, slot, mem, dram, waiting, issued>>

\* cache_hit_cb for the core: e.line may hold another line by now.
CacheHit(c, e) ==
    /\ e.pc = "hit" /\ ~e.isSnoop
    /\ ~LocalHit(slot[c].state, e.request.type).miss
    /\ slot' = [slot EXCEPT ![c].state = LocalHit(@, e.request.type).state]
    /\ entries' = [entries EXCEPT ![c] =
          clear_entry_cb(send_message(@, LocalHit(slot[c].state, e.request.type).evict,
                                      "EVICT", e.request.line, "lower"), e)]
    /\ waiting' = waiting \ {e.request}
    /\ UNCHANGED <<busvars, mem, dram, issued>>

\* Fault: a request the bus refuses is not sent again.
SendLowerOnce(c, e) ==
    /\ ~e.isSnoop
    /\ \/ e.pc \in {"miss", "lower"}
       \/ e.pc = "hit" /\ LocalHit(slot[c].state, e.request.type).miss
    /\ controller_request_cb(c, e.request, e.request.type = "UPDATE", FALSE)
    /\ entries' = [entries EXCEPT ![c] =
          IF IsMessage(e.request) THEN clear_entry_cb(@, e)
          ELSE Put(@, [e EXCEPT !.pc = "sent"])]
    /\ UNCHANGED <<slot, mem, dram, waiting, issued>>

\* cache_miss_cb for the core, and wait_interconnect_cb to the bus.
SendLower(c, e) ==
    /\ ~e.isSnoop
    /\ \/ e.pc \in {"miss", "lower"}
       \/ e.pc = "hit" /\ LocalHit(slot[c].state, e.request.type).miss
    /\ controller_request_cb(c, e.request, e.request.type = "UPDATE", FALSE)
    /\ entries' = [entries EXCEPT ![c] =
          IF Refuses(c, e.request) THEN Put(@, [e EXCEPT !.pc = "lower"])
          ELSE IF IsMessage(e.request) THEN clear_entry_cb(@, e)
          ELSE Put(@, [e EXCEPT !.pc = "sent"])]
    /\ UNCHANGED <<slot, mem, dram, waiting, issued>>

\* The controllers in R drop the request.  The entry of the memory controller
\* stays until DRAMSim2 has answered it.
annul_entries(R, request, es) ==
    [x \in Cache |-> IF x \in R THEN annul_request(es[x], request) ELSE es[x]]

\* Fault: the entry is freed at once.
AnnulFreesMem(R, request) ==
    SelectSeq(mem, LAMBDA m : ~(MEM \in R /\ m.request = request))

annul_mem(R, request) ==
    [i \in DOMAIN mem |->
        IF MEM \in R /\ mem[i].request = request
        THEN [mem[i] EXCEPT !.annuled = TRUE] ELSE mem[i]]

\* handle_interconn_hit, or _miss, with outcome s.
Messages(es, s, line) ==
    send_message(send_message(send_message(es,
        s.update, "UPDATE", line, "lower"),
        s.updateAbove, "UPDATE", line, "upper"),
        s.evictAbove, "EVICT", line, "upper")

Reply(c, e, s) ==
    /\ slot' = [slot EXCEPT ![c].state = s.state]
    /\ entries' = annul_entries(AnnulledBy(c, e.request, s.data), e.request,
          [entries EXCEPT ![c] = clear_entry_cb(Messages(@, s, e.request.line), e)])
    /\ IF IsMessage(e.request) THEN UNCHANGED <<busvars, mem>>
       ELSE /\ mem' = annul_mem(AnnulledBy(c, e.request, s.data), e.request)
            /\ controller_request_cb(c, e.request, s.data, s.shared)
    /\ UNCHANGED <<dram, waiting, issued>>

\* cache_hit_cb and cache_miss_cb for a snoop.
Snoop(c, e) ==
    /\ e.isSnoop
    /\ \/ e.pc = "hit" /\ Reply(c, e, SnoopHit(slot[c].state, e.request.type))
       \/ e.pc = "miss" /\ Reply(c, e, SnoopMiss(slot[c].state))

\* wait_interconnect_cb to the core, which takes the data.
AnswerCore(c, e) ==
    /\ e.pc = "respond"
    /\ waiting' = waiting \ {e.request}
    /\ entries' = [entries EXCEPT ![c] = Put(@, [e EXCEPT !.pc = "insert"])]
    /\ UNCHANGED <<busvars, slot, mem, dram, issued>>

\* cache_insert_complete_cb, and a message for the caches above going out.
ClearEntry(c, e) ==
    /\ e.pc \in {"insert", "upper"}
    /\ entries' = [entries EXCEPT ![c] = clear_entry_cb(@, e)]
    /\ UNCHANGED <<busvars, slot, mem, dram, waiting, issued>>
-----------------------------------------------------------------------------
\* MemoryController::is_full: no entry left, or DRAMSim2 does not take more,
\* which it does when it is empty.
MemFull(full) ==
    /\ Len(mem) = MEM_SIZE => full
    /\ full => Len(mem) = MEM_SIZE \/ \E l \in Line : dram[l] # <<>>

\* can_broadcast: the queues of the caches never fill up.
AddressBroadcast == \E full \in BOOLEAN : MemFull(full) /\ broadcast_cb(~full)
    /\ UNCHANGED <<slot, entries, mem, dram, waiting, issued>>

AddressPutOff ==
    /\ MemFull(TRUE) /\ BroadcastPutOff
    /\ UNCHANGED <<slot, entries, mem, dram, waiting, issued>>

AddressArbitrate == BusArbitrate /\ UNCHANGED <<slot, entries, mem, dram, waiting, issued>>

\* handle_interconnect_cb of the memory controller: evicts are ignored, write
\* misses read; an update is never merged, as all entries are in use.
DramKind(request) == IF request.type = "UPDATE" THEN "DATA_WRITE" ELSE "DATA_READ"
mem_handle_interconnect_cb(request) ==
    IF request.type = "EVICT" THEN UNCHANGED <<mem, dram>>
    ELSE /\ mem' = Append(mem, [request |-> request, annuled |-> FALSE])
         /\ dram' = [dram EXCEPT ![request.line] = Append(@, DramKind(request))]

\* The request reaches the other controllers; caches ignore an update.
AddressCompleted(c, request) ==
    /\ MemFull(FALSE)
    /\ broadcast_completed_cb(c, request)
    /\ entries' = [x \in Cache |->
          IF x = c \/ request.type = "UPDATE" THEN entries[x]
          ELSE Alloc(entries[x], request, TRUE, "access")]
    /\ mem_handle_interconnect_cb(request)
    /\ UNCHANGED <<slot, waiting, issued>>

DataBroadcast ==
    /\ \E full \in BOOLEAN : MemFull(full) /\ data_broadcast_cb(~full)
    /\ UNCHANGED <<slot, entries, mem, dram, waiting, issued>>

\* complete_request.  If the line is not there it goes over the old one, for
\* which the others are told; in use, the messages name the new line instead.
StillThere(c, e) == e.hasLine /\ slot[c].tag = tagOf(e.request.line)
OldLine(c, e) ==
    IF is_line_in_use(entries[c], slot[c].tag) THEN e.request.line
    ELSE slot[c].tag \div LINE_SIZE
InsertMessages(es, m, line) ==
    send_message(send_message(es, m.update, "UPDATE", line, "lower"),
                 m.evict, "EVICT", line, "upper")

complete_request(c, e, shared) ==
    /\ slot' = [slot EXCEPT ![c] =
          [tag |-> tagOf(e.request.line),
           state |-> NewState(IF StillThere(c, e) THEN @.state ELSE "I",
                              e.request.type, shared)]]
    /\ entries' = [entries EXCEPT ![c] =
          Put(IF StillThere(c, e) THEN @
              ELSE InsertMessages(@, InsertOver(slot[c].state), OldLine(c, e)),
              [e EXCEPT !.pc = "respond", !.hasLine = TRUE])]

\* The data reaches the cache that asked; the other controllers ignore it.
DataCompleted(i) ==
    /\ data_broadcast_completed_cb(i)
    /\ \E e \in Range(entries[transactions[i].from]) :
          /\ ~e.isSnoop /\ e.request = transactions[i].request
          /\ complete_request(transactions[i].from, e, transactions[i].shared)
    /\ UNCHANGED <<mem, dram, waiting, issued>>

\* read_return_cb and write_return_cb: the first entry for the line is taken
\* for the one that is answered.  An update gets no response.
access_completed_cb(entry) ==
    IF entry.annuled \/ entry.request.type = "UPDATE" THEN UNCHANGED busvars
    ELSE controller_request_cb(MEM, entry.request, TRUE, FALSE)

DramReturns(l, kind) ==
    /\ dram[l] # <<>> /\ Memory!Answers(dram, <<l>>, kind)
    /\ dram' = Memory!Answered(dram, <<l>>, kind)
    /\ \E i \in DOMAIN mem :
          /\ mem[i].request.line = l
          /\ \A j \in 1..(i - 1) : mem[j].request.line # l
          /\ mem' = RemoveAt(mem, i)
          /\ access_completed_cb(mem[i])
    /\ UNCHANGED <<slot, entries, waiting, issued>>
-----------------------------------------------------------------------------
CoreStep(c) ==
    \E request \in Access :
        /\ request.core = c /\ request.n = issued[c] + 1
        /\ Issue(c, request)

CacheStep(c) ==
    \E e \in Range(entries[c]) :
        \/ CacheAccess(c, e) \/ CacheHit(c, e) \/ SendLower(c, e)
        \/ Snoop(c, e) \/ AnswerCore(c, e) \/ ClearEntry(c, e)

AddressBus ==
    \/ AddressArbitrate \/ AddressBroadcast \/ AddressPutOff
    \/ \E c \in Cache : queue[c] # <<>> /\ AddressCompleted(c, Head(queue[c]))

DataBus == DataBroadcast \/ \E i \in DOMAIN transactions : DataCompleted(i)

DramStep == \E l \in Line, kind \in {"DATA_READ", "DATA_WRITE"} : DramReturns(l, kind)

Next == (\E c \in Cache : CoreStep(c) \/ CacheStep(c)) \/ AddressBus \/ DataBus \/ DramStep

Spec == Init /\ [][Next]_vars

\* Events are processed when their time comes, and DRAMSim2 answers.  The
\* address bus arbitrates for ever, so it does not count for the others, of
\* which one at a time is enough.
Responder == (\E c \in Cache : CacheStep(c)) \/ DataBus \/ DramStep
Fairness == WF_vars(Responder) /\ WF_vars(AddressBus)
FairSpec == Spec /\ Fairness
-----------------------------------------------------------------------------
SnoopOf(e, request) == e.isSnoop /\ e.request = request
Live(m, request) == ~m.annuled /\ m.request = request

\* A request pending on the bus can always end: a controller has not responded
\* exactly while it works on the request, and once all have, somebody has
\* supplied the data.  controller_request_cb marks the responses and annuls
\* the other controllers, whose own responses race with it.
ResponsesOwed ==
    \A t \in Range(transactions) :
        /\ \A x \in Cache :
              x \notin t.responded <=> \E e \in Range(entries[x]) : SnoopOf(e, t.request)
        /\ MEM \notin t.responded <=> \E m \in Range(mem) : Live(m, t.request)
        /\ Ready(t) => t.supplier # {}

\* No response is ever left over: every snoop and every memory entry that will
\* respond belongs to a pending request.  controller_request_cb takes a late
\* response for a new request of the responder and broadcasts it.
ResponsesMatched ==
    /\ \A c \in Controller : \A r \in Range(queue[c]) : ~IsMessage(r) => r.core = c
    /\ \A c \in Cache : \A e \in Range(entries[c]) :
          e.isSnoop /\ ~IsMessage(e.request) => ~IsNew(e.request)
    /\ \A m \in Range(mem) : ~m.annuled /\ ~IsMessage(m.request) => ~IsNew(m.request)

\* The memory controller has as many entries for a line as DRAMSim2 has
\* transactions: read_return_cb and write_return_cb, which look for any entry
\* of the line, never reach their assert(0), even for annulled entries.
CallbacksFindEntry ==
    \A l \in Line : Len(SelectSeq(mem, LAMBDA m : m.request.line = l)) = Len(dram[l])

\* A request of the core that waits in a cache for an earlier entry of its line
\* is the dependent of exactly one entry that is still there, whether that
\* entry is cleared, answered or annulled by the bus.
NoLostWakeup ==
    \A c \in Cache : \A e \in Range(entries[c]) :
        Cardinality({d \in Range(entries[c]) : d.depends = e.id}) =
            IF e.pc = "waiting" THEN 1 ELSE 0

\* A core that waits has exactly one entry in its cache that will answer it,
\* and no entry answers a core that does not wait.  An entry that has been
\* sent is on its way: in the queue of the cache or pending on the bus, once.
OnTheBus(c, request) ==
    Len(SelectSeq(queue[c], LAMBDA r : r = request))
        + Len(SelectSeq(transactions, LAMBDA t : t.request = request))
RequestsTracked ==
    \A c \in Cache :
        /\ {r \in waiting : r.core = c} =
              {e.request : e \in {d \in Range(entries[c]) :
                    ~d.isSnoop /\ ~IsMessage(d.request) /\ d.pc # "insert"}}
        /\ \A e \in Range(entries[c]) :
              ~e.isSnoop /\ ~IsMessage(e.request) =>
                 OnTheBus(c, e.request) = (IF e.pc = "sent" THEN 1 ELSE 0)

\* Every access of every core is answered, whatever the other caches do, and so
\* all of them are, the number of accesses being bounded.
EveryAccessAnswered == waiting # {} ~> waiting = {}
=============================================================================
