----------------------------- MODULE Withdrawal -----------------------------
(***************************************************************************)
(* A withdrawal from Base to L1 and l2l1-withdrawal.mjs, which reads where *)
(* it stands and prints the command that takes it on, for the owner to     *)
(* sign on the device whenever.  The script may run in several terminals,  *)
(* and the portal moves between what one reads and what is signed: a game  *)
(* that a proof relies on is found wrong, or a second proof takes the      *)
(* place of the first and starts its hours again.                          *)
(***************************************************************************)
EXTENDS Naturals

CONSTANTS
    Terminals,       \* scripts that run at once
    Maturity,        \* hours from a proof until the portal pays
    MaxFaults        \* games found wrong (bound of the model)

ASSUME WithdrawalAssumption == Maturity \in Nat /\ MaxFaults \in Nat

VARIABLES
    portal,          \* the withdrawal on L1: whether a game covers it, the hours
                     \* its proof has left, whether it was paid out
    proving,         \* terminals where a proof is being built
    printed,         \* commands printed and not signed: what, and where
    faults           \* games found wrong so far

withdrawalVars == <<portal, proving, printed, faults>>

NoProof == Maturity + 1

WithdrawalInit ==
    /\ portal = [covered |-> FALSE, left |-> NoProof, paid |-> FALSE]
    /\ proving = {} /\ printed = {} /\ faults = 0

\* getWithdrawalStatus.
Status ==
    CASE portal.paid           -> "finalized"
      [] ~portal.covered       -> "waiting-to-prove"
      [] portal.left = NoProof -> "ready-to-prove"
      [] portal.left > 0       -> "waiting-to-finalize"
      [] OTHER                 -> "ready-to-finalize"

-----------------------------------------------------------------------------
(* The portal *)

\* A game covers the withdrawal; there will be others.
Cover ==
    /\ ~portal.covered
    /\ portal' = [portal EXCEPT !.covered = TRUE]
    /\ UNCHANGED <<proving, printed, faults>>

\* The game a proof relies on is found wrong: the proof is void, and so are
\* those that were printed.
GameWrong ==
    /\ portal.covered /\ ~portal.paid /\ faults < MaxFaults
    /\ faults' = faults + 1
    /\ portal' = [portal EXCEPT !.left = NoProof]
    /\ printed' = {command \in printed : command.kind # "prove"}
    /\ UNCHANGED proving

HourPasses ==
    /\ portal.left \in 1..Maturity
    /\ portal' = [portal EXCEPT !.left = @ - 1]
    /\ UNCHANGED <<proving, printed, faults>>

-----------------------------------------------------------------------------
(* l2l1-withdrawal.mjs *)


\* `prove' goes on if the withdrawal is ready for it.
ReadToProve(d) ==
    /\ d \notin proving /\ Status = "ready-to-prove"
    /\ proving' = proving \cup {d}
    /\ UNCHANGED <<portal, printed, faults>>

\* The proof is built, which takes its time, and its command printed ...
PrintProve(d) ==
    /\ d \in proving
    /\ proving' = proving \ {d}
    /\ printed' = printed \cup {[kind |-> "prove", by |-> d]}
    /\ UNCHANGED <<portal, faults>>

\* ... or an RPC call fails.
ProveFails(d) ==
    /\ d \in proving
    /\ proving' = proving \ {d}
    /\ UNCHANGED <<portal, printed, faults>>

\* `finalize' prints its command at once.
PrintFinalize(d) ==
    /\ d \notin proving /\ Status = "ready-to-finalize"
    /\ printed' = printed \cup {[kind |-> "finalize", by |-> d]}
    /\ UNCHANGED <<portal, proving, faults>>

-----------------------------------------------------------------------------
(* The owner *)

\* The portal takes a proof of what a game covers, also in another's place.
PortalTakes(command) ==
    IF command.kind = "prove" THEN portal.covered /\ ~portal.paid
                              ELSE Status = "ready-to-finalize"

\* A command is signed and taken ...
Submit(command) ==
    /\ command \in printed /\ PortalTakes(command)
    /\ portal' = IF command.kind = "prove" THEN [portal EXCEPT !.left = Maturity]
                                           ELSE [portal EXCEPT !.paid = TRUE]
    /\ printed' = printed \ {command}
    /\ UNCHANGED <<proving, faults>>

\* ... or refused, by the device, the fee or the portal.
SigningFails(command) ==
    /\ command \in printed
    /\ printed' = printed \ {command}
    /\ UNCHANGED <<portal, proving, faults>>

-----------------------------------------------------------------------------

Commands == [kind : {"prove", "finalize"}, by : Terminals]

WithdrawalNext ==
    \/ Cover \/ GameWrong \/ HourPasses
    \/ \E d \in Terminals :
         ReadToProve(d) \/ PrintProve(d) \/ ProveFails(d) \/ PrintFinalize(d)
    \/ \E command \in printed : Submit(command) \/ SigningFails(command)

(* Hours pass.  The owner runs the script again later, as it says itself,   *)
(* and signs what it prints; what fails does not fail for ever.  Nothing is *)
(* assumed of the games, nor of when the owner signs.                       *)
WithdrawalFairness ==
    /\ WF_withdrawalVars(HourPasses)
    /\ \A d \in Terminals :
         /\ SF_withdrawalVars(ReadToProve(d))
         /\ SF_withdrawalVars(PrintProve(d))
         /\ SF_withdrawalVars(PrintFinalize(d))
    /\ \A command \in Commands : SF_withdrawalVars(Submit(command))

WithdrawalSpec == WithdrawalInit /\ [][WithdrawalNext]_withdrawalVars /\ WithdrawalFairness

-----------------------------------------------------------------------------

=============================================================================
