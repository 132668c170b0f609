----------------------------- MODULE MultiChannel -----------------------------
(***************************************************************************)
(* The front of the simulator (MultiChannelMemorySystem.cpp): how the ini  *)
(* files and the command line's overrides become a geometry (IniReader.cpp,*)
(* MemorySystem.cpp), how an address is taken apart (AddressMapping.cpp),  *)
(* and which channel a transaction is sent to.                             *)
(*                                                                         *)
(* num holds the NUM_* globals, the bus width in bytes and BL; width holds *)
(* the bit widths derived from them, which the code keeps as globals of    *)
(* their own (the *_LOG values).                                           *)
(***************************************************************************)
EXTENDS Integers, FiniteSets, SequencesExt

CONSTANTS DeviceIni,      \* possible contents of the device ini file
          SystemIni,      \* possible contents of the system ini file
          Overrides,      \* possible options on the command line
          Memory,         \* possible values of megsOfMemory
          MEG             \* bytes in a megabyte: 2^20, smaller in an instance

VARIABLES phase, megsOfMemory, num, width, scheme,
          chosen          \* the address of the last transaction and its channel

vars == <<phase, megsOfMemory, num, width, scheme, chosen>>

Fields == {"chan", "rank", "bank", "row", "col"}
Schemes == 1 .. 7
NothingChosen == [address |-> -1, chan |-> -1]
-----------------------------------------------------------------------------
\* The largest power of two that is not above the value, rounded up when the
\* value is not itself that power.
dramsim_log2(value) ==
    LET floor == IF value = 0 THEN 0
                 ELSE CHOOSE k \in 0 .. 31 : 2^k <= value /\ value < 2^(k + 1)
    IN  IF 2^floor < value THEN floor + 1 ELSE floor

isPowerOfTwo(x) == 2^dramsim_log2(x) = x

\* The values ReadIniFile computes after its last line; the rank's width is
\* set by the MemorySystem constructor.
Precomputed(n, w) ==
    [w EXCEPT !.bank   = dramsim_log2(n.bank),
              !.chan   = dramsim_log2(n.chan),
              !.row    = dramsim_log2(n.row),
              !.col    = dramsim_log2(n.col),
              !.offset = dramsim_log2(n.bus),
              !.colLow = dramsim_log2(n.bus * n.BL) - dramsim_log2(n.bus)]

\* Fault: scheme 6 takes the bank before the rank.
OrderSwapped ==
    << <<"bank", "col", "row", "rank", "chan">>,
       <<"rank", "bank", "col", "row", "chan">>,
       <<"row", "col", "bank", "rank", "chan">>,
       <<"col", "row", "bank", "rank", "chan">>,
       <<"bank", "rank", "col", "row", "chan">>,
       <<"col", "bank", "rank", "row", "chan">>,
       <<"chan", "bank", "rank", "col", "row">> >>

\* The fields of each scheme, in the order in which the code takes them off
\* the low end of the address.
Order ==
    << <<"bank", "col", "row", "rank", "chan">>,
       <<"rank", "bank", "col", "row", "chan">>,
       <<"row", "col", "bank", "rank", "chan">>,
       <<"col", "row", "bank", "rank", "chan">>,
       <<"bank", "rank", "col", "row", "chan">>,
       <<"col", "rank", "bank", "row", "chan">>,
       <<"chan", "bank", "rank", "col", "row">> >>

\* Fault: the low bits of the column are counted twice.
FieldWidthWhole(w, field) == w[field]

\* colHighBitWidth for a column, the whole width for any other field.
FieldWidth(w, field) ==
    IF field = "col" THEN w.col - w.colLow ELSE w[field]

\* Shift the field off the address and keep the bits that were lost.
TakeField(w, mapped, field) ==
    LET size == 2^FieldWidth(w, field)
    IN  [rest  |-> mapped.rest \div size,
         place |-> [mapped.place EXCEPT ![field] = mapped.rest % size]]

addressMapping(w, s, address) ==
    FoldLeft(LAMBDA mapped, field : TakeField(w, mapped, field),
             [rest  |-> address \div 2^(w.offset + w.colLow),
              place |-> [f \in Fields |-> 0]],
             Order[s]).place

\* The NUM_RANKS that the MemorySystem constructor computes from its share of
\* the memory.
RanksFor(n, megs) ==
    megs \div ((n.row * n.col * n.bank * n.bus) \div MEG)
-----------------------------------------------------------------------------
\* Zero-initialised globals; the scheme is one of the seven the reader knows.
Init ==
    /\ phase = "start"
    /\ megsOfMemory \in Memory
    /\ num = [f \in Fields \cup {"bus", "BL"} |-> 0]
    /\ width = [f \in Fields \cup {"offset", "colLow"} |-> 0]
    /\ scheme \in Schemes
    /\ chosen = NothingChosen

ReadIniFile(contents) ==
    /\ num' = contents @@ num
    /\ width' = Precomputed(num', width)

OverrideKeys(options) ==
    /\ num' = options @@ num
    /\ UNCHANGED width

\* The constructor, step by step.
RefuseMemory ==
    /\ phase = "start" /\ ~ isPowerOfTwo(megsOfMemory)
    /\ phase' = "aborted"
    /\ UNCHANGED <<megsOfMemory, num, width, scheme, chosen>>

ReadDeviceIni ==
    /\ phase = "start" /\ isPowerOfTwo(megsOfMemory)
    /\ phase' = "device"
    /\ \E contents \in DeviceIni : ReadIniFile(contents)
    /\ UNCHANGED <<megsOfMemory, scheme, chosen>>

ReadSystemIni ==
    /\ phase = "device" /\ phase' = "system"
    /\ \E contents \in SystemIni : ReadIniFile(contents)
    /\ UNCHANGED <<megsOfMemory, scheme, chosen>>

ApplyOverrides ==
    /\ phase = "system" /\ phase' = "configured"
    /\ \E options \in Overrides : OverrideKeys(options)
    /\ UNCHANGED <<megsOfMemory, scheme, chosen>>

\* Every channel's constructor computes the same number of ranks; a share too
\* small for one rank makes it one rank, and a share of nothing leaves it as
\* it is.
CreateChannels ==
    /\ phase = "configured"
    /\ IF num.chan = 0
       THEN phase' = "aborted" /\ UNCHANGED <<num, width>>
       ELSE LET share == megsOfMemory \div num.chan
                ranks == RanksFor(num, share)
            IN  /\ phase' = "running"
                /\ IF share = 0
                   THEN UNCHANGED <<num, width>>
                   ELSE /\ num' = [num EXCEPT !.rank = IF ranks = 0 THEN 1 ELSE ranks]
                        /\ width' = [width EXCEPT !.rank = dramsim_log2(ranks)]
    /\ UNCHANGED <<megsOfMemory, scheme, chosen>>

Capacity == num.chan * num.rank * num.bank * num.row * num.col * num.bus

\* findChannelNumber and the abort in it.
NoSuchChannel(address) ==
    /\ num.chan # 1
    /\ \/ ~ isPowerOfTwo(num.chan)
       \/ addressMapping(width, scheme, address).chan >= num.chan

\* Fault: the shortcut for one channel is taken for two.
findFirstChannel(address) ==
    IF num.chan <= 2 THEN 0 ELSE addressMapping(width, scheme, address).chan

findChannelNumber(address) ==
    IF num.chan = 1 THEN 0 ELSE addressMapping(width, scheme, address).chan

\* Later transactions differ from the first only in their address.
addTransaction(address) ==
    /\ phase = "running"
    /\ IF NoSuchChannel(address)
       THEN phase' = "aborted" /\ UNCHANGED chosen
       ELSE /\ chosen' = [address |-> address, chan |-> findChannelNumber(address)]
            /\ UNCHANGED phase
    /\ UNCHANGED <<megsOfMemory, num, width, scheme>>

Next ==
    \/ RefuseMemory
    \/ ReadDeviceIni
    \/ ReadSystemIni
    \/ ApplyOverrides
    \/ CreateChannels
    \/ \E address \in 0 .. Capacity - 1 : addTransaction(address)

Spec == Init /\ [][Next]_vars
-----------------------------------------------------------------------------
(***************************************************************************)
(* Properties                                                              *)
(***************************************************************************)

\* The locations the channels have room for: one per transaction-sized group
\* of columns.
Places ==
    [chan : 0 .. num.chan - 1, rank : 0 .. num.rank - 1, bank : 0 .. num.bank - 1,
     row : 0 .. num.row - 1, col : 0 .. (num.col \div num.BL) - 1]

\* The addresses of whole transactions, below the memory's capacity.
Lines == {n * num.bus * num.BL : n \in 0 .. (Capacity \div (num.bus * num.BL)) - 1}

\* The address mapping is one to one between the lines of the memory and the
\* places in its channels, whatever the scheme: no two lines share a place, no
\* place outside the geometry is addressed and none is left unused.  It is what
\* makes the widths (colHighBitWidth, the rank width set by another
\* constructor) right together.
LinesFillTheMemory ==
    phase = "running" /\ isPowerOfTwo(num.chan) =>
       /\ {addressMapping(width, scheme, a) : a \in Lines} = Places
       /\ Cardinality(Lines) = Cardinality(Places)

\* The comment above each scheme lists its fields from the most significant.
Commented ==
    << <<"chan", "rank", "row", "col", "bank">>,
       <<"chan", "row", "col", "bank", "rank">>,
       <<"chan", "rank", "bank", "col", "row">>,
       <<"chan", "rank", "bank", "row", "col">>,
       <<"chan", "row", "col", "rank", "bank">>,
       <<"chan", "row", "bank", "rank", "col">>,
       <<"row", "col", "rank", "bank", "chan">> >>

FieldCount(field) == IF field = "col" THEN num.col \div num.BL ELSE num[field]

\* Reading the five fields of a line's place as the digits of one number, in
\* the order of the scheme's comment in AddressMapping.cpp, gives the line's
\* number back: the seven hand-written decompositions are the ones the comments
\* name.
MapsAsCommented ==
    phase = "running" /\ isPowerOfTwo(num.chan) =>
       \A a \in Lines :
          LET place == addressMapping(width, scheme, a)
          IN  FoldLeft(LAMBDA n, field : n * FieldCount(field) + place[field],
                       0, Commented[scheme])
                 = a \div (num.bus * num.BL)

\* A transaction goes to the channel whose readiness willAcceptTransaction
\* reports for its address: findChannelNumber's shortcut for one channel and
\* the address mapping agree, and the channel exists.
SentWhereAsked ==
    chosen # NothingChosen =>
       /\ chosen.chan = addressMapping(width, scheme, chosen.address).chan
       /\ chosen.chan < num.chan

\* A value given on the command line acts as the same value in the ini file:
\* README.txt says that -o overwrites "any ini file option".
OverridesActAsIni ==
    phase = "running" =>
       \A a \in Lines : addressMapping(width, scheme, a)
                           = addressMapping(Precomputed(num, width), scheme, a)
=============================================================================
