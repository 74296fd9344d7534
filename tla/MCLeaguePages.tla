---------------------------- MODULE MCLeaguePages ----------------------------
(***************************************************************************)
(* A small instance of LeaguePages: one league of this year, which two     *)
(* users are in.                                                           *)
(***************************************************************************)
EXTENDS LeaguePages, TLC

CONSTANTS me, other, mine, theirs, l1, f1, f2

OneLeague == [l \in {l1} |-> {mine, theirs}]
ThisYear == [l \in {l1} |-> 2026]
EnteredNames == [u \in {me, other} |-> IF u = me THEN {mine} ELSE {theirs}]
FetchSymmetry == Permutations({f1, f2})
=============================================================================
