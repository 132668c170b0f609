------------------------------- MODULE MCService -------------------------------
(***************************************************************************)
(* A channel seen by its front end: the requests it has accepted, per      *)
(* address, and the callbacks it makes.                                    *)
(***************************************************************************)
EXTENDS MCMemorySystem, SequencesExt

VARIABLES history,   \* per address, the requests accepted and not called back
          ordered    \* none of them went through pendingTransactions

NoRequests == [a \in Addresses |-> <<>>]
ServiceInit == MCInit /\ history = NoRequests /\ ordered = TRUE

ServiceAdd(t) ==
    /\ MCAdd(t)
    /\ history' = [history EXCEPT ![t.addr] = Append(@, t.type)]
    /\ ordered' = (ordered /\ pendingTransactions' = pendingTransactions)

\* A callback stands for the oldest request of its kind for the address.
Without(s, called, a, kind) ==
    IF called = <<a>> THEN RemoveFirst(s, kind) ELSE s

ServiceUpdate ==
    /\ MCUpdate
    /\ history' = [a \in Addresses |->
          Without(Without(history[a], done'.writes, a, "DATA_WRITE"),
                  done'.reads, a, "DATA_READ")]
    /\ ordered' = (ordered \/ history' = NoRequests)

ServiceNext == ServiceUpdate \/ \E t \in OFFERED : ServiceAdd(t)
ServiceSpec == ServiceInit /\ [][ServiceNext]_<<mcvars, history, ordered>>

\* The front end calls update for ever.  Every update, and nothing else, flips
\* the clock bit, so this is weak fairness of ServiceUpdate.
ServiceFairSpec == ServiceSpec /\ WF_tick(tick' = 1 - tick)

Service == INSTANCE MemoryService WITH
    Address <- Addresses, outstanding <- history

\* The channel implements MemoryService: exactly one answer per request, in
\* order for each address as long as no request had to go through
\* pendingTransactions, which later requests overtake.
ImplementsService == Service!Spec

\* Once the front end has nothing more to ask, every request it made has been
\* answered: no queue, bus, refresh or power-down holds one back for ever.
EveryRequestAnswered == Service!EveryRequestAnswered
=============================================================================
