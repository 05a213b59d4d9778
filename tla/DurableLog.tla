------------------------------ MODULE DurableLog ------------------------------
(***************************************************************************)
(* What a shard writer promises about the records it is given: they become *)
(* durable in the order in which they came, each at most once; only the    *)
(* newest, not yet durable, may be lost.  What is durable stays.           *)
(***************************************************************************)
EXTENDS Naturals, Sequences

VARIABLES
    stable,     \* the records that are in the file system, in order
    tail,       \* accepted records that are not
    next        \* the number of the next record

logVars == <<stable, tail, next>>

Init == stable = <<>> /\ tail = <<>> /\ next = 1

Accept ==
    /\ tail' = Append(tail, next)
    /\ next' = next + 1
    /\ UNCHANGED stable

Persist ==
    \E k \in 1..Len(tail) :
        /\ stable' = stable \o SubSeq(tail, 1, k)
        /\ tail' = SubSeq(tail, k + 1, Len(tail))
        /\ UNCHANGED next

Lose ==
    /\ tail # <<>>
    /\ tail' = <<>>
    /\ UNCHANGED <<stable, next>>

Next == Accept \/ Persist \/ Lose

Spec == Init /\ [][Next]_logVars
=============================================================================
