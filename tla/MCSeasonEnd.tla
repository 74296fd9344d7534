---------------------------- MODULE MCSeasonEnd ----------------------------
(***************************************************************************)
(* Small instances of SeasonEnd.                                           *)
(***************************************************************************)
EXTENDS SeasonEnd, FiniteSetsExt, TLC

CONSTANTS r1, r2, first, second

OnePlace == {first}
TwoPlaces == {first, second}

\* One unit for each place.
UnitPrizes == [S \in SUBSET Places |-> MapThenSumSet(LAMBDA p : 1, S)]

\* The league is imported while its season runs.
SpecFromMidSeason == Init /\ platform = "in_season" /\ [][Next]_vars
=============================================================================
