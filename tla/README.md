# A verification of the memory system of Kill-Llama

Kill-Llama runs the MARSSx86 full-system simulator on a DRAMSim2 that has been
changed to model SMART, an STT-MRAM main memory whose banks open and close
without delay.  Verified here are that memory model, `src/DRAMSim2`, and the way
of an access through MARSS to it: the CPU controller, the lowest private caches
with their MESI rules, the split-phase bus and the memory controller, all in
`src/marss.dramsim/ptlsim/cache`.

DRAMSim2 is one thread.  A front end (a trace reader, or MARSS) calls
`addTransaction` any number of times and `update` once per CPU cycle.  What makes
it hard is inside: a controller that keeps a table of deadlines, ranks that keep
tables of their own and see every command a bus delay later, commands that
overtake each other, row limits, refreshes and power-down that interfere with
all of it, and two copies of the timing (DDR and SMART) for most steps.  A
mistake ends the simulation with an `exit`, or worse, silently loses a request
or a constraint.

The MARSS side is one thread too, but a set of controllers that post events to
each other with delays, and so interleave: a request is broadcast while other
caches work on the same line, responses and annulments cross, entries are freed
while something still waits for them, and whoever finds a queue full tries again.

## The system and what is modelled

| part | source (`src/DRAMSim2/`, below the line `ptlsim/cache/`) | module |
|---|---|---|
| configuration, delays, packets, bank state | `SystemConfiguration.h`, `BusPacket.h`, `Transaction.h`, `BankState.*` | `DramTiming` |
| the controller's bank table | `MemoryController.cpp` 162-206, 310-524, 650-666 | `BankTable` |
| a rank | `Rank.cpp` | `Rank` |
| command queue, `pop` | `CommandQueue.cpp` | `CommandQueue` |
| a channel: controller, queue, ranks, overflow list, clock | `MemoryController.cpp`, `MemorySystem.cpp` | `MemorySystem` |
| properties of a channel | | `ChannelProperties`, `ChannelProofs`, `RequestProofs` |
| how the two bank tables are related | `MemoryController.cpp`, `Rank.cpp` | `TableAgreement`, `TableProofs` |
| when data moves on the data bus | `Rank.cpp`, `MemoryController.cpp` | `DataBus`, `TableProofs` |
| the channel as the policy-free scheduler sees it | `CommandQueue.cpp` | `SchedulerView`, `ChannelScheduling`, `QueueProofs` |
| what the scheduler promises, whatever its policy | `CommandQueue.cpp` without time | `CommandScheduling`, `CommandSchedulingProofs` |
| what a channel promises its front end | callbacks of `MemorySystem` | `MemoryService` |
| clock domain crosser | `ClockDomain.cpp`, `setCPUClockSpeed` | `ClockDomain`, `ClockDomainProofs` |
| channels, address mapping, ini files and overrides | `MultiChannelMemorySystem.cpp`, `AddressMapping.cpp`, `IniReader.cpp` | `MultiChannel` |
| --- | | |
| between a core and its L1 caches | `cpuController.cpp` | `CPUController`, `CPUControllerProofs` |
| MESI rules | `mesiLogic.cpp` | `MesiLogic` |
| queue of a coherent cache | `coherentCache.cpp` | `CoherentCache` |
| split-phase bus | `splitPhaseBus.cpp` | `SplitPhaseBus`, `SplitPhaseBusProofs` |
| caches, memory controller and bus together, DRAM as `MemoryService` | `coherentCache.cpp`, `memoryController.cpp` | `CacheHierarchy` |

`MCMemorySystem`, `MCTiming`, `MCService`, `MCCommandScheduling`, `MCClockDomain`,
`MCMultiChannel`, `MCCPUController` and `MCCacheHierarchy` instantiate these for TLC.  The full inventory, with what is
left out and why, is in `PROJECT.json` under "components"; the line ranges behind
every definition are under "map".

### How state and actions correspond to the code

*Time.*  The program stores absolute cycles (`nextRead` and so on) and only
compares them with the current one or takes `max` with a sum.  The model stores
the distance to now, at least 0; `BankStep` and `Rank!RankStep` take one off
at the end of a cycle.

*A cycle is one action.*  `Update` is the whole of `MemorySystem::update`: ranks,
overflow list, then `MemoryController::update` in source order.  Its steps are
operators on what the earlier ones leave behind, so that each can be read next to its lines:
`pop` in `CommandQueue`, `OnCommand` in `BankTable`, `receiveFromBus` in `Rank`.

*Data.*  An address is its rank, bank, row and column, no payload (the simulator
has none).  `MultiChannel` is the place where addresses are numbers.

*Ends of the program.*  Where a rank exits, `ranks[r].error` is set; where the
controller exits or aborts, a kind joins `errors`; after that nothing moves.

*Refresh.*  `REFRESH_CYCLES` is `REFRESH_PERIOD/tCK`; 0 stands for a refresh
further away than the behaviour is long.

*`CommandScheduling`* drops time and the order of the search: any command the
code could find issuable may be issued, any row it could close may be closed.
Every policy is then a special case, and the invariants hold for any number of
banks, rows and queues.  The refinement mapping (`Sched` in `ChannelScheduling`)
reads a bank as closed as soon as its auto-precharge command is out.

*`MultiChannel`* keeps the two orders apart that matter: the counts (`num`) set
line by line from device ini, system ini and overrides, and the widths (`width`)
computed at the end of each ini file.

*Events.*  In `CPUController` and `CacheHierarchy` an event that an entry has posted
is part of the entry (`pc`, `retry`, `cycles`), and the action that takes it is the
callback.  Delays are left out: events are taken in any order, which includes the
orders that the configured latencies give.  An entry is named by its request, or
by the smallest free number, so an event left behind by a freed entry does not
meet the next user of its slot.

*`CPUController`.*  A chain is `depends` and `waitFor`, as in the code; the order of
the list is kept as tickets.  `clock` is one walk over the list: an entry woken
in the walk is counted down by it, since it is further down the list, so a chain
whose first entry ends is done within one call.  L1 is the environment: it takes
or refuses an access, and answers what it has taken, also when that has been
annulled meanwhile.

*`CacheHierarchy`.*  Each core has one cache with one line, for which lines compete;
the point is contention, not capacity.  A response of a cache or of the memory
controller and the annulments it causes are one action, as they are one chain of
calls.  The annulled entry of the memory controller stays until DRAMSim2 calls
back, and a callback is given to the first entry of its line, whatever its kind.
DRAMSim2 is `MemoryService` without order between requests, which is what the
channel is shown to implement.

*`SplitPhaseBus`* is also a specification of its own, `BusSpec`: the bus among
controllers of any number that respond as they like.  It assumes one thing, that
a read or write is asked for once (`AskedOnce`).  `RequestsTracked` shows that of
the caches: while a request is in a queue of the bus or pending, its entry is
past sending, and it is there once.

Definitions whose comment begins with "Fault:" are deliberate mistakes.  No
specification uses them; each replaces a definition to show that a property
notices.

## What the runs check

| run | instance | what it shows |
|---|---|---|
| `scheduling` | 3 banks, two of them on one queue, 2 rows, depth 4, limit 3 | the inductive invariant, from which the other scheduler properties are proved; no stuck queue |
| `ddr_open` | DDR, open page, 2 ranks x 2 banks, queue per rank | no abort of the controller, one driver of the data bus, tables agree, every pending read has one carrier, device timing rules |
| `ddr_close` | DDR, close page, queue per bank, 2 ranks x 2 banks, low power, refresh every 36 cycles | timing rules, no exit of a rank, a rank wakes in time and no refresh is overwritten by the next, refinement of `CommandScheduling` (and so, by its invariant, every open row has an access that closes it) |
| `smart` | SMART, priority scheduling, posted CAS, low power, 1 rank | power-down agrees in its four places, nothing refused, timing rules, refinement |
| `service` | transaction queue of 1, overflow list of 1, refresh every 20 cycles, low power, fair clock | refinement of `MemoryService`, with order per address until a request goes through the list; every request is answered, through refreshes and power-down |
| `clock` | frequencies 1 to 8, 40 CPU cycles | no drift, bounded counters, the inductive invariant |
| `channels` | 1 or 2 channels, 1 to 4 ranks, 1 or 2 banks, 7 schemes; also the refused inputs | the mapping is one to one onto the memory, fields in the order of the scheme's comment, routing |
| `cpu` | 4 accesses of an out-of-order or an in-order core, list of 3 entries | chains stay whole, no lost wake-up, wake-ups in sequence, every access ends |
| `coherence` | 3 caches, memory controller with 2 entries, bus queues of 1, 2 lines, 2 accesses, caches cold, sharing or holding a modified line | every response owed is under way and every response under way is owed, no request forgotten by the data bus, callbacks find their entry, no lost wake-up, requests on the bus once, every access answered |
| `smart_two_ranks` | SMART, 2 ranks, burst of 8 as in `ini/SMART.ini` | **violated**, see below |
| `wakeup_delay` | as `cpu` | **violated** |
| `overrides` | an override of the number of channels | **violated** |

`MCTiming` deserves a word: it is an observer that remembers how long ago each
kind of command went to each bank and judges every new command by the rules of
the device.  It never looks at a deadline, so it notices when `max`, a plain
assignment or a missing branch loses one.

### Bounds

Timing constants are small, but differ from each other and are ordered as in the
device files (tRC = tRAS + tRP, tRCD < tRAS).  Two banks and two rows are
needed for a row conflict next to independent traffic, two ranks for bus
turnaround between ranks.  Three accepted transactions reach a conflict, a hit
and a bystander at once; `smart`, whose single rank makes the space smaller, takes
four, and `ddr_close`, with two ranks and refreshes, two.  In `service` refreshes and
power-down take up the space that one rank leaves, and three
transactions reach the access limit of a row.  `OFFERED` names the transactions of
the front end: both rows of bank 0 and the first row of the others (`RowConflicts`),
as banks are interchangeable up to round-robin order; in `service` reads and writes
of one line, reads of the next row of its bank and writes of another bank
(`SharedLine`).  Command queues hold two transactions and the transaction queue
one or two, so all of them fill up.  `MAX_PENDING` bounds the
overflow list, a list in the code; `MAX_ACCEPTED` and `MAX_UPDATES` bound the length
of a behaviour.  Deadlock is checked in all channel runs: only an exit of the
program stops the clock.  It is not checked where the model ends at its bound
(`clock`, `coherence`) or at a refused configuration (`channels`, `overrides`).

Two limits of these bounds are known.  The four-activate window (tFAW) is
modelled but no instance has five ACTIVATEs of one rank within it.  And `smart`
has tRRD = 2: a SMART PRECHARGE overwrites `nextActivate` and forgets a running
tRRD, which is harmless up to 2 because the PRECHARGE takes a bus cycle itself
(the SMART device files have 1); with tRRD = 4 TLC finds the rule broken.

`RefreshInTime` depends on the period: with the small constants above, in which a
bank needs a good part of 12 cycles to finish and close, a period of 24 for two
ranks of two banks lets the refresh of one rank be overwritten by the next; 36
does not.  Real periods are thousands of cycles.

In `coherence` two accesses are enough for two requests of the same line, of one
core or of two, to overlap in every way, with the messages they cause and, in
the warm states, with a third cache that has the line; queues of one entry make
the bus refuse.  `MAX_ACCESSES` bounds them.  The invariants have also been
checked with three accesses (31.8 million states), too long for a regular run.
In `cpu` four accesses make chains of three with an annulment in any place, and
a list of fewer entries than accesses is full at times.

### Fairness

In the channel runs the only fairness is that `update` is called again and again,
which both front ends do in their main loops.  It is written as weak fairness of
flipping a clock bit (`tick`), which every update and nothing else does.  Nothing
is assumed of the front end's requests, except that in `service` they end after
three; refreshes and power-down never end.  Under endless traffic the code
gives no bound of its own: each READ pushes the next WRITE of the whole rank back
by the turnaround (`MemoryController.cpp` 367), so that a write whose row is open
may wait until the next refresh stops the reads and drains it.

In `cpu` the machine clocks the controller and runs the events that are due (weak
fairness of `clock` and of each event); L1 answers what it takes and does not
refuse the same access for ever, which is the business of the other model.  In
`coherence` weak fairness of the events of caches, data bus and DRAM taken together, and of
the address bus, is enough; the address bus is apart because once started it
arbitrates for ever, also with nothing to send.  That DRAMSim2 answers is what
`service` shows.  The accesses are bounded: under endless traffic a controller
whose broadcast is put off loses its turn in the round robin, and the code gives
no bound on how often.

### Disagreements found

1. `smart_two_ranks`: the delay that separates two ranks on the data bus goes only
   to banks whose row is open at that moment (`MemoryController.cpp` 357, 413).
   DDR parts are saved by tRCD.  A SMART bank opened a cycle later has no delay,
   and two writes to different ranks end the program with "Data Bus Collision".
2. `wakeup_delay`: the comment in `wakeup_dependents` says that "the delay for each
   entry to wakeup is 1 cycle" and that the next dependent is woken "in next
   cycle" (`cpuController.cpp` 275-281).  The walk of `clock` that ends an access
   then meets the one it has just woken, counts its one cycle down and ends
   it too, and so on down the chain.  The order is kept (`WokenInSequence`), the
   delay is not.
3. `overrides`: `README.txt` says that `-o` overwrites "any ini file option".  The
   address widths are computed before the overrides are applied, so a changed
   number of channels, banks, rows or columns is not what the mapping uses.

## What is proved

`CommandSchedulingProofs`, for every set of banks, rows and queues, every depth,
every access limit of at least 2 and both row policies:

- `SchedulingInvariant`: `Spec => []IInv`;
- `QueuesWithinDepth`, `ActivatesStayPaired`, `OrphansKeepTheirRow`,
  `CountersFollowRows`: the safety properties, from `IInv`;
- `AccessesInOrder`: the action property `RowOrder` (with auto-precharge, where
  the code does not look for older accesses, it follows from `OrphanNext`);
- `SchedulerNeverStuck`: `NeverStuck`.

The argument.  Call a column command whose ACTIVATE has gone an *orphan*.  That an
orphan's row stays open (`OrphanRowOpen`) is not inductive: a row is also closed
when its access count reaches the limit, wanted or not.  The missing fact is
`OrphanNext`: an orphan is the oldest access to its row and its row has been
accessed at most once, by the ACTIVATE itself; so the limit, being at least 2,
has not been reached.  For that to survive, the counter must belong to the open
row (`CounterOfOpenRow`), every ACTIVATE must still be next to its access
(`ActivatesPaired`), and under auto-precharge a row must be open only for an orphan
(`OpenForAccess`).  Taking commands out of a queue (`CutKeeps`,
`CutKeepsOrphans`) and adding a pair (`AppendKeeps`) are lemmas about sequences;
each command then has a lemma of its own.  The assumptions are `QueueAssumption`,
`AccessAssumption` and `PolicyAssumption`; the second is needed: with a limit of 1
the ACTIVATE uses up the only access.

`ClockDomainProofs`, for all frequencies: `CrosserInvariant`, `ClocksNeverDrift`
(memory cycles are CPU cycles times the ratio, rounded up) and
`CrosserCountersBounded`.  The invariant says that what is owed is the difference
of the counters and that each counter is a multiple of its frequency; the
multiples bound the counters, because they meet, and are reset, at the latest at
the product of the frequencies.

`CPUControllerProofs`, for any finite set of accesses, any lines, list size, buffer and
latency: `ChainsStayIntact`, `WakeupsNeverLost` and the action property
`DependentsWokenInSequence`.  The two invariants need each other: an answer
wakes the entry behind the answered one because `depends` is right, and it is
right after an annulment because the neighbours are joined from both sides.  The
invariant adds that entries not in use are as `init` leaves them (`Unused`).  That
a new access goes behind the end of a chain of its own line is `ChainOfLine`:
tickets grow along a chain, so among the entries of another line there would be
a first one, whose predecessor has that line too.  The walk of `clock` is the
closure of the entries that end under `depends` (`ClockIInv`).

`SplitPhaseBusProofs`, for any controllers, requests, queue size and pending table:
`DataBusServesAll` (`ReadyServed`) and `BusNeverOverflows` (`RoomKept`: the pending
entry that `broadcast_completed_cb` asserts is there).  The first needs that a
request is pending once (`Unique`), or else a response might be counted for the
wrong entry, and `Unique` needs `AskedOnce`.  The second needs that the request on
the address bus is still the first of its queue (`BroadcastQueued`) and that
nobody else takes a pending entry between the check and the assertion.  The
assumption `BusAssumption` asks for at least one cache besides the memory.

### The channel

`ChannelProofs` is about the timed channel, `MemorySystem`, for any number of ranks,
banks, rows and columns, any depths, either row policy, queuing structure,
scheduling policy and device, with refresh and power-down or without:

- `ChannelInvariant`: the inductive invariant `ChannelInv`;
- `NeverRefused` (`RanksNeverRefuse`), `PowerDownOneState` (`PowerDownAgreed`) and
  `TablesInStep` (`TablesAgree`), from it;
- `CommandsAlwaysFit`: no command bus collision, no overfull command queue;
- under the condition `BusSpaced`, `DataBusInvariant` (`DataBusInv`), and from it
  `OneDriver` (`OneDataBusDriver`) and `WritesNeverCollide`.

`RequestProofs` goes on from there:

- under `BusSpaced`, `ReadsInvariant` (`ReadsInv`), and from it `NoReadLost`
  (`ReadsCarriedOnce`) and `NeverAborts` (`ControllerNeverAborts`, all of it);
- `ChannelFollowsRules` (`ImplementsScheduling`): the channel implements
  `CommandScheduling`, and so `RowsStayForAccesses`, `ChannelNeverStuck` and
  `ChannelKeepsOrder`: what is proved of the scheduler is proved of the channel.

The argument.  The controller's table is written when a command is issued, the
rank's when it arrives, a cycle later.  So `TablesInv` compares the controller's
entry with what the rank's entry *will be* when the command on the bus has arrived
(`Arrived`); `Agrees` says of two entries which state and row must be equal
and which deadlines may differ, and by how much.  Two corners make it more than
a comparison.  With auto-precharge the rank closes its row at once while the
controller shows it open until a countdown ends (`Closing`); nothing may reach the
bank meanwhile, which needs the countdown to end before the deadlines do.  And a
powered-down SMART rank may still have a PRECHARGE on its way.  `TableProofs` shows that
`Agrees` survives everything that happens to one bank in one cycle: the
command on the bus arrives, countdowns run, a legal command is issued and booked in
the table, the rank goes down or comes up, the clock advances (`CycleRow`).  `QueueProofs` shows
that whatever `pop` returns is legal (`Legal`: what the table must show for the
command not to be refused later), along every path of it: refresh, round robin,
priority, precharge.

The data bus.  Nobody looks whether it is free: read data leaves the rank, and write
data the controller, when a countdown ends.  `DataBus` describes each driver by
the cycles in which its bursts start, those of the command on its way included.
`DataBusInv` says that the bursts of one driver follow each other (`Train`), that
those of two do not overlap (`Apart`) and, which makes it inductive, that every
burst is over before the data of any command that the deadlines of the
controller's table allow next (`Clear`).  The last is claimed only of banks whose row is
open (`Guarded`), since a closed bank of another rank gets no deadline; it has to
be opened first, and tRCD must then outlast the bursts.  This is `BusSpaced`:
tRTRS >= 1, and either tRCD - AL >= BL/2 + 1 without SMART, or one rank only, whose
closed banks get the deadlines too.  Every DDR device file satisfies it, and a
SMART part with one rank; a SMART part with two ranks does not, and there the run
`smart_two_ranks` shows the collision.  So it is a hypothesis of these theorems
and not an assumption of the module.

The reads.  `ReadsInv` counts, for every address, the reads pending in the
controller and the packets that carry one: in the queue, on the command bus,
waiting in the rank, on the data bus.  They are equal, and a rank holds data of its
own addresses only.  A burst overwritten in `Rank::update` would break the count,
so this needs `DataBusInv`; data that returns then finds its pending read, which
rules out the last of the controller's aborts.

The refinement.  Seen by the scheduler, a bank's open row is the one the controller's
table shows unless an auto-precharge is closing it (`OpenRow`), and the queues and
counters are those of the command queue.  `QueueProofs` shows that taking a command
from a queue is one of the scheduler's steps or none, `RequestProofs` joins that with
what the command does to the open rows.  Invariant and refinement need each
other: that a close-page queue takes only commands without an ACTIVATE in front is a
matter of the channel, that such a command finds its row open is the scheduler's
`OrphanRowOpen`.  So they are proved together (`ChannelRules`).

The assumptions are those that TLC evaluates in the runs: `GeometryAssumption`,
`TimingAssumption`, `RefreshAssumption`, `PendingAssumption`, and three that the proof
brought up and every device file satisfies.  `CommandAssumption`, tCMD = 1: a
command that took longer would meet the next one on the bus.
`AutoprechargeAssumption`, READ_TO_PRE_DELAY <= READ_AUTOPRE_DELAY: otherwise a bank would seem
accessible before its row is closed.  `RowAccessAssumption`, TOTAL_ROW_ACCESSES >= 2, as for
the scheduler.

### How the proofs are laid out

Every component has its proofs in a module of its own.  A lemma with a long proof
has its helpers as named steps in front of it, so that they are visible only
where they are needed.  Arithmetic goes to the SMT solver, everything else to
Zenon, and the two are kept in separate steps.

## What is only model-checked

Of the channel: `TypeOK`, `RefreshInTime` (which depends on the period being long
enough), the device's timing rules (`MCTiming`, an observer with a memory of its
own), and that it implements `MemoryService`.  `MultiChannel`; the caches and the
memory controller of `CacheHierarchy`, whose `find_dependency` is recursive; and all
liveness, which is beyond the proof system.

## What is not modelled

Of DRAMSim2: payload storage (`Bank.cpp`, compiled out), energy sums, statistics, CSV
and log output, the parsing of ini and trace files, the floating-point
constructor of the clock crosser.  Unsigned arithmetic that would wrap (WL = 0,
AL > tRCD, a refresh period shorter than the number of ranks) is excluded by
named assumptions.

Of the MARSS memory hierarchy: the caches above the lowest private one, which
always take what is sent up (one message, where the code sends a second one to
a second interconnect above); the read fast path of the caches in
`CacheHierarchy`, which answers without an entry; the cache queues at their limit
(`complete_request` then refuses, and the bus asserts that it does not); the
fixed-latency memory of the build without DRAMSim2; switches, directory, MOESI.

The rest of MARSS, its cores and decoders, and the QEMU it is built on are vendored
full-system emulation of several hundred thousand lines.  They are sequential
interpretation of x86 code and device emulation, with no protocol that a model
checker could explore, and the memory work does not touch them.  So the part of
the repository's lines that the modules cover is small, and stays small; of
`src/DRAMSim2` and of the files of `ptlsim/cache` named above it is the
larger part of what changes state.

### What the code does that no property forbids

The model has these behaviours, and but for one no comment or test of the
repository says otherwise; they change the timing of a simulation, not its results, as the
caches hold no data:

- two caches that miss a line at the same time both get it exclusive, or both
  modified: each has snooped the other before the data came;
- a cache that supplies data annuls the snoops of the others, so that a third
  cache keeps its shared copy although the line is written;
- an EVICT that finds a modified line drops it without writing it back;
- `is_line_in_use` compares line numbers with a tag, which is an address, so
  it does not find the line it is asked about (here a comment does say otherwise,
  `coherentCache.cpp` 372: "If line is in use then don't evict it"; whom the
  eviction would hurt are the caches above, which are not modelled);
- the CPU controller looks for the end of a chain only from the oldest entry of
  the line, so that after a load two stores to its line go to L1 side by side;
- while reads of other banks keep coming, a write waits for the turnaround, until
  a refresh is due.

Outside the model is what happens when an event that a freed entry of the CPU
controller has left behind (a retry of an access that was annulled) meets the next
user of the same slot.

Two things that look dangerous turn out to be impossible: the memory controller never
has to repeat a response (`ResponsesMatched`: the bus refuses only new
requests), and an UPDATE never merges with another in the build with DRAMSim2.
