--------------------------- MODULE MCApprovalScan ---------------------------
(* One Permit2 pair, which has every kind of grant an ERC-20 pair has, and  *)
(* one process, restarted after each failure.                               *)
EXTENDS ApprovalScan
=============================================================================
