--------------------------- MODULE MCSeasonBudget ---------------------------
(***************************************************************************)
(* Small instances of SeasonBudget.  Amounts are in units of the smallest  *)
(* bonus; the pool is two fees.                                            *)
(***************************************************************************)
EXTENDS SeasonBudget

CONSTANTS alice, bob

Place(p, n) == [type |-> "placement", place |-> p, amount |-> n]
Weekly(b, n, w) == [type |-> "weekly", bonus |-> b, amount |-> n, weeks |-> w, threshold |-> 1]

\* Everything is promised away, with two rows for one place.
TwoPrizes == <<Place(1, 0), Weekly("score_threshold", 1, 2), Place(1, 3), Place(2, 1)>>
\* Two rows of one bonus type, and a bonus the weekly job does not know.
TwoRows == <<Place(1, 2), Weekly("score_threshold", 2, 1), Weekly("score_threshold", 1, 1),
             Weekly("highest_weekly_score", 1, 0)>>
\* The prize takes what one week of the bonus leaves.
HighScore == <<Place(1, 5), Weekly("weekly_high_score", 1, 1)>>

AllStructures == {TwoPrizes, TwoRows}
OneStructure == {HighScore}
=============================================================================
