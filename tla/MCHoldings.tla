----------------------------- MODULE MCHoldings -----------------------------
(* Two callers: the one that starts a walk and one that joins it, or comes  *)
(* when it has ended.  Three walks: a success, a failure and a refill.      *)
(* ERC-721 lists two items, of which the second's collection is also met    *)
(* under ERC-1155, whose three pages are one more than the cap.             *)
EXTENDS Holdings
CONSTANTS a, b
MCPages == << <<a, b>>, <<b, b, a>> >>
=============================================================================
