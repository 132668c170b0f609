------------------------------- MODULE MCTiming -------------------------------
(***************************************************************************)
(* An observer of the command bus.  It remembers how many cycles ago each  *)
(* kind of command was issued to each bank and judges a new command by the *)
(* timing rules of the device, without looking at any deadline the         *)
(* controller or the ranks keep.                                           *)
(***************************************************************************)
EXTENDS MCMemorySystem

VARIABLES since,    \* since[r][b][k]: cycles since a command of kind k
          legal     \* the last command obeyed the rules

Kinds == {"READ", "WRITE", "ACTIVATE", "PRECHARGE", "REFRESH"}
Kind(p) == IF p.type \in Reads THEN "READ"
           ELSE IF p.type \in Writes THEN "WRITE" ELSE p.type

\* Ages are counted up to the longest time a rule asks for.
LONG_AGO == Max({tRC, tRFC, READ_TO_WRITE_DELAY, Burst + tRTRS,
                 WRITE_TO_READ_DELAY_B, WRITE_TO_PRE_DELAY + tRP,
                 READ_TO_PRE_DELAY, READ_AUTOPRE_DELAY, tRRD, tCCD})

Age(k, rs, bs) == Min({since[r][b][k] : r \in rs, b \in bs})

\* The rules for command p; SMART banks need no tRCD, tRAS, tRP or tRC.
Obeys(p) ==
    LET r == {p.addr.rank}
        b == {p.addr.bank}
        others == Ranks \ r
        Bus(read, write, readR, writeR) ==   \* data bus, within and across ranks
            /\ Age("READ", r, Banks) >= read
            /\ Age("WRITE", r, Banks) >= write
            /\ others # {} => /\ Age("READ", others, Banks) >= readR
                              /\ Age("WRITE", others, Banks) >= writeR
        open == isSmartMRAM \/ Age("ACTIVATE", r, b) >= tRCD - AL
    IN  CASE Kind(p) = "READ" ->
               open /\ Bus(Later(tCCD, Burst), WL + Burst + tWTR,
                           Burst + tRTRS, WL + Burst + tRTRS - RL)
          [] Kind(p) = "WRITE" ->
               open /\ Bus(RL + Burst + tRTRS - WL, Later(tCCD, Burst),
                           RL + Burst + tRTRS - WL, Burst + tRTRS)
          [] Kind(p) = "PRECHARGE" ->
               /\ isSmartMRAM \/ Age("ACTIVATE", r, b) >= tRAS
               /\ Age("READ", r, b) >= READ_TO_PRE_DELAY
               /\ Age("WRITE", r, b) >= WL + Burst + tWR
          [] Kind(p) = "ACTIVATE" ->
               /\ Banks \ b # {} => Age("ACTIVATE", r, Banks \ b) >= tRRD
               /\ Age("REFRESH", r, Banks) >= tRFC
               /\ isSmartMRAM \/ /\ Age("ACTIVATE", r, b) >= tRC
                                 /\ Age("PRECHARGE", r, b) >= tRP
               /\ ClosePage => /\ Age("READ", r, b) >= AL + tRTP + tRP
                               /\ Age("WRITE", r, b) >= WL + Burst + tWR + tRP
          [] Kind(p) = "REFRESH" ->
               /\ Age("REFRESH", r, Banks) >= tRFC
               /\ isSmartMRAM \/ Age("PRECHARGE", r, Banks) >= tRP

Noted(issued, p) ==
    [r \in Ranks |-> [b \in Banks |-> [k \in Kinds |->
        IF /\ issued /\ k = Kind(p) /\ r = p.addr.rank
           /\ k = "REFRESH" \/ b = p.addr.bank
        THEN 1 ELSE Min({since[r][b][k] + 1, LONG_AGO})]]]

TimedInit ==
    /\ MCInit /\ legal = TRUE
    /\ since = [r \in Ranks |-> [b \in Banks |-> [k \in Kinds |-> LONG_AGO]]]

TimedUpdate ==
    /\ MCUpdate
    /\ LET issued == cmdBus' # <<>> /\ cmdBus'[1].left = tCMD
           p == cmdBus'[1].packet
       IN  /\ since' = Noted(issued, p)
           /\ legal' = (issued => Obeys(p))

TimedAdd(t) == MCAdd(t) /\ UNCHANGED <<since, legal>>

TimedNext == TimedUpdate \/ \E t \in OFFERED : TimedAdd(t)
TimedSpec == TimedInit /\ [][TimedNext]_<<mcvars, since, legal>>

\* Every command the controller issues obeys the device's timing rules, as
\* recomputed from the commands issued before: the deadlines the controller
\* keeps by max() and by plain assignment never lose a constraint.
TimingRulesObeyed == legal
=============================================================================
