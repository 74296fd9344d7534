--------------------------- MODULE MCMemberPayment ---------------------------
(***************************************************************************)
(* A small instance of MemberPayment.                                      *)
(***************************************************************************)
EXTENDS MemberPayment

CONSTANTS t1
=============================================================================
