--------------------------- MODULE ChannelScheduling ---------------------------
(***************************************************************************)
(* The command queue of a channel implements the policy-free scheduler.    *)
(***************************************************************************)
EXTENDS ChannelProperties, SchedulerView

\* At least 4 in every system.ini.  The ACTIVATE counts as an access, so
\* one would leave none for the column command the row was opened for.
ASSUME RowAccessAssumption == TOTAL_ROW_ACCESSES >= 2

seenQueue == SeenQueues(cq.queues)
openRows == OpenRows(bankStates)
accessCounts == AccessCounts(cq.rowAccessCounters)

Sched == INSTANCE CommandScheduling WITH
    Bank <- BankIds, Row <- Rows, Queue <- BankIds, QueueOf <- QueueOfBank,
    Closed <- NoRow, Depth <- CMD_QUEUE_DEPTH, Accesses <- TOTAL_ROW_ACCESSES,
    AutoPrecharge <- ClosePage,
    queue <- seenQueue, open <- openRows, counter <- accessCounts

\* Whatever the policy, timing and refreshes, the commands the controller
\* sends follow the rules of CommandScheduling, and so keep its invariants.
ImplementsScheduling == Sched!Spec
=============================================================================
