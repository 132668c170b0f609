----------------------------- MODULE MemoryService -----------------------------
(***************************************************************************)
(* What a channel promises its front end, seen from the outside: a request *)
(* once accepted is answered exactly once, by ReturnReadData or            *)
(* WriteDataDone, and, unless a request found the channel full, those for  *)
(* one address are answered in the order in which they were accepted.      *)
(***************************************************************************)
EXTENDS Integers, SequencesExt

CONSTANT Address

VARIABLES outstanding,   \* per address, the kinds of request not yet answered
          ordered,       \* no unanswered request found the channel full
          done           \* the callbacks made by the last step

vars == <<outstanding, ordered, done>>

NoCallback == [reads |-> <<>>, writes |-> <<>>]
AtMostOne == {<<>>} \cup {<<a>> : a \in Address}

Nothing == [a \in Address |-> <<>>]

Init == outstanding = Nothing /\ ordered = TRUE /\ done = NoCallback

Accept(a, kind) ==
    /\ outstanding' = [outstanding EXCEPT ![a] = Append(@, kind)]
    /\ ordered' \in {ordered, FALSE}
    /\ done' = NoCallback

\* Answering takes the oldest request of its kind for the address.
Answers(out, answered, kind) ==
    answered # <<>> =>
        /\ Contains(out[answered[1]], kind)
        /\ ordered => Head(out[answered[1]]) = kind
Answered(out, answered, kind) ==
    IF answered = <<>> THEN out
    ELSE [out EXCEPT ![answered[1]] = RemoveFirst(@, kind)]

\* One cycle makes at most one callback of each kind, the write's first.
Cycle(rd, wr) ==
    /\ Answers(outstanding, wr, "DATA_WRITE")
    /\ Answers(Answered(outstanding, wr, "DATA_WRITE"), rd, "DATA_READ")
    /\ outstanding' = Answered(Answered(outstanding, wr, "DATA_WRITE"), rd,
                               "DATA_READ")
    /\ ordered' = (ordered \/ outstanding' = Nothing)
    /\ done' = [reads |-> rd, writes |-> wr]

Next ==
    \/ \E a \in Address, kind \in {"DATA_READ", "DATA_WRITE"} : Accept(a, kind)
    \/ \E rd \in AtMostOne, wr \in AtMostOne : Cycle(rd, wr)

Spec == Init /\ [][Next]_vars

\* No accepted request is forgotten: its address is answered again, and again,
\* until nothing is outstanding.
EveryRequestAnswered ==
    \A a \in Address :
        outstanding[a] # <<>> ~> (<<a>> \in {done.reads, done.writes})
=============================================================================
