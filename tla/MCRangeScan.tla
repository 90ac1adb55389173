---------------------------- MODULE MCRangeScan ----------------------------
(* The repository's two ways to walk a range of blocks; a process takes one *)
(* of them.  The sentinel's walks windows of three over a chain of nine     *)
(* blocks, which divide some ranges and leave a short window in others; the *)
(* scanner's has two workers, three nodes and any of them dead.  And the    *)
(* owner's withdrawal, in two terminals, while neither walks.               *)
EXTENDS RangeScan, WorkerPool, Withdrawal

MCInit == Init /\ PoolInit /\ WithdrawalInit

MCNext ==
    \/ phase = "idle" /\ ~portal.covered /\ Next /\ UNCHANGED <<poolVars, withdrawalVars>>
    \/ pc = "idle" /\ ~portal.covered /\ PoolNext /\ UNCHANGED <<vars, withdrawalVars>>
    \/ phase = "idle" /\ pc = "idle" /\ WithdrawalNext /\ UNCHANGED <<vars, poolVars>>

MCSpec ==
    /\ MCInit /\ [][MCNext]_<<vars, poolVars, withdrawalVars>>
    /\ Fairness /\ PoolFairness /\ WithdrawalFairness
=============================================================================
