--------------------------- MODULE MCLeagueEscrow ---------------------------
(***************************************************************************)
(* A small instance of LeagueEscrow: two leagues; three members, one of    *)
(* whom has lost the association with the token.                            *)
(***************************************************************************)
EXTENDS LeagueEscrow
=============================================================================
