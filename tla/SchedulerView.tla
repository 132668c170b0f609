----------------------------- MODULE SchedulerView -----------------------------
(***************************************************************************)
(* What the policy-free scheduler (CommandScheduling) sees of the command  *)
(* queue and of the controller's bank table.                               *)
(***************************************************************************)
EXTENDS CommandQueue, TableAgreement

\* A bank is known by its rank and its number, a queue by the position the
\* code keeps it at.
BankIds == Ranks \X Banks
QueueOfBank == [k \in BankIds |-> <<k[1], QueueIndex(k[2])>>]
Rows == 0 .. NUM_ROWS - 1

\* Column and data play no part.
Seen(p) == [act |-> p.type = "ACTIVATE",
            bank |-> <<p.addr.rank, p.addr.bank>>, row |-> p.addr.row]
SeenQueue(s) == [i \in DOMAIN s |-> Seen(s[i])]
SeenQueues(qs) == [k \in BankIds |-> SeenQueue(qs[k[1]][k[2]])]

OpenRows(bs) == [k \in BankIds |-> OpenRow(bs[k[1]][k[2]])]
AccessCounts(counters) == [k \in BankIds |-> counters[k[1]][k[2]]]
=============================================================================
