\* Nothing is left to do once the league is deleted and the last week is over.
SPECIFICATION LiveSpec
CONSTANTS
  r1 = r1
  r2 = r2
  alice = alice
  bob = bob
  Runs = {r1}
  Rosters = {alice}
  Bonuses = {"weekly_high_score", "score_threshold"}
  LastWeek = 2
  MaxDeposits = 3
INVARIANTS TypeOK EventsMatchChain
PROPERTIES MarkedIsNeverRepaid OwedBonusIsPaid
CHECK_DEADLOCK FALSE
