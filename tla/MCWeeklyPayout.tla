--------------------------- MODULE MCWeeklyPayout ---------------------------
(***************************************************************************)
(* Small instances of WeeklyPayout.                                        *)
(***************************************************************************)
EXTENDS WeeklyPayout

CONSTANTS r1, r2, alice, bob
=============================================================================
