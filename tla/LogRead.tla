------------------------------- MODULE LogRead -------------------------------
(***************************************************************************)
(* What the sentinel needs of a log walk: the caller names an inclusive    *)
(* block range and is given either the logs of every block of that range   *)
(* or an exception, never a part of it.  RangeScan implements this one     *)
(* window at a time against a provider that throttles.                     *)
(*                                                                         *)
(* A block's logs are represented by the block number.                     *)
(***************************************************************************)
EXTENDS Integers

CONSTANT MaxBlock      \* highest block of the chain (bound of the model)

VARIABLES
    phase,             \* "idle" | "asked" | "answered" | "failed"
    from, to,          \* the range asked for
    got                \* blocks whose logs were handed to the caller

vars == <<phase, from, to, got>>

Init == phase = "idle" /\ from = 1 /\ to = 0 /\ got = {}

Ask(f, t) ==
    /\ phase = "idle"
    /\ phase' = "asked"
    /\ from' = f /\ to' = t
    /\ UNCHANGED got

\* An empty range needs no call: it may be answered as it is asked.
AskEmpty(f, t) ==
    /\ phase = "idle" /\ f > t
    /\ phase' = "answered"
    /\ from' = f /\ to' = t
    /\ UNCHANGED got

Answer ==
    /\ phase = "asked"
    /\ phase' = "answered"
    /\ got' = from..to
    /\ UNCHANGED <<from, to>>

Fail ==
    /\ phase = "asked"
    /\ phase' = "failed"
    /\ UNCHANGED <<from, to, got>>

Next == \/ \E f \in 1..MaxBlock, t \in 0..MaxBlock : Ask(f, t) \/ AskEmpty(f, t)
        \/ Answer
        \/ Fail

SafeSpec == Init /\ [][Next]_vars
Spec == SafeSpec /\ WF_vars(Answer \/ Fail)
=============================================================================
