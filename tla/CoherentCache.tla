----------------------------- MODULE CoherentCache -----------------------------
(***************************************************************************)
(* The queue of a coherent cache controller of MARSS, for the lowest       *)
(* private cache of each core.  An entry is a request of the core, a       *)
(* request of another cache that is snooped, or a message the cache sends. *)
(* Requests of the core for a line that an entry already works on wait in  *)
(* a chain for that entry to be cleared.                                   *)
(*                                                                         *)
(* pc is the next event of an entry: "waiting" for its predecessor; the    *)
(* cache "access"; the "hit" or "miss" it finds; sending to the "lower" or *)
(* "upper" interconnect; "sent", until the data comes; the response to the *)
(* core ("respond") and then the end of the insertion ("insert").  A cache *)
(* has one line (lines compete for it), and its queue never fills up.      *)
(***************************************************************************)
EXTENDS MesiLogic, Integers, SequencesExt

CONSTANT LINE_SIZE

\* A message that the cache itself sends.
Message(type, line) == [type |-> type, line |-> line]

\* tagOf: a tag is the address of a line, a line its number.
tagOf(line) == line * LINE_SIZE
NoTag == -1
EmptyLine == [tag |-> NoTag, state |-> "I"]
-----------------------------------------------------------------------------
FreshId(entries) ==
    CHOOSE i \in 1..(Len(entries) + 1) :
        /\ \A j \in DOMAIN entries : entries[j].id # i
        /\ \A k \in 1..(i - 1) : \E j \in DOMAIN entries : entries[j].id = k

\* alloc: a new entry, at the end of the list.  depends is 0 for -1.
Alloc(entries, request, isSnoop, pc) ==
    Append(entries, [id |-> FreshId(entries), request |-> request,
                     isSnoop |-> isSnoop, pc |-> pc, hasLine |-> FALSE,
                     depends |-> 0])

Put(entries, entry) ==
    [j \in DOMAIN entries |-> IF entries[j].id = entry.id THEN entry ELSE entries[j]]

\* find_dependency: the end of the chain of the first entry for the line.
SameLine(entries, line) == SelectSeq(entries, LAMBDA e : e.request.line = line)
ById(entries, id) == SelectSeq(entries, LAMBDA e : e.id = id)[1]
RECURSIVE EndOfChain(_, _)
EndOfChain(entries, e) ==
    IF e.depends = 0 THEN e ELSE EndOfChain(entries, ById(entries, e.depends))
find_dependency(entries, line) ==
    IF SameLine(entries, line) = <<>> THEN {}
    ELSE {EndOfChain(entries, SameLine(entries, line)[1])}

\* handle_upper_interconnect: a request of the core.
Chained(entries, predecessor, request) ==
    Alloc(Put(entries, [predecessor EXCEPT !.depends = FreshId(entries)]),
          request, FALSE, "waiting")
handle_upper_interconnect(entries, request) ==
    IF find_dependency(entries, request.line) = {}
    THEN Alloc(entries, request, FALSE, "access")
    ELSE Chained(entries, CHOOSE e \in find_dependency(entries, request.line) : TRUE,
                 request)

\* clear_entry_cb of an entry without events: free it, wake its dependent.
Wake(entries, id) ==
    [j \in DOMAIN entries |->
        IF entries[j].id = id THEN [entries[j] EXCEPT !.pc = "access"] ELSE entries[j]]
clear_entry_cb(entries, entry) ==
    Wake(SelectSeq(entries, LAMBDA e : e.id # entry.id), entry.depends)

\* Fault: the snoop goes on; its dependent is not woken.
AnnulNothing(entries, request) == entries
AnnulWakesNone(entries, request) ==
    SelectSeq(entries, LAMBDA e : e.request # request)

\* annul_request frees the snoop of the request; a snoop never waits itself.
annul_request(entries, request) ==
    IF \E j \in DOMAIN entries : entries[j].request = request
    THEN clear_entry_cb(entries,
                        SelectSeq(entries, LAMBDA e : e.request = request)[1])
    ELSE entries

\* send_message, if it is needed: an entry of its own, to go out in a cycle.  A
\* second interconnect above, which would get a copy, is left out, as are the
\* caches above: messages up are taken by whoever is there.
send_message(entries, needed, type, line, pc) ==
    IF needed THEN Alloc(entries, Message(type, line), FALSE, pc) ELSE entries

\* is_line_in_use compares the line number of every request with a tag.
is_line_in_use(entries, tag) ==
    \E j \in DOMAIN entries : entries[j].request.line = tag
=============================================================================
