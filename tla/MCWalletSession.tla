---------------------------- MODULE MCWalletSession ----------------------------
(***************************************************************************)
(* Small instances of WalletSession.                                       *)
(***************************************************************************)
EXTENDS WalletSession

CONSTANTS alice, bob, c1, c2, p1, p2
=============================================================================
