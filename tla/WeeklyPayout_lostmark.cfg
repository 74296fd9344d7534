\* Nothing is left to do once the league is deleted and the last week is over.
SPECIFICATION Spec
CONSTANTS
  r1 = r1
  r2 = r2
  alice = alice
  bob = bob
  Runs = {r1}
  Rosters = {alice}
  Bonuses = {"score_threshold"}
  LastWeek = 1
  MaxDeposits = 2
INVARIANT NoDoublePay
CHECK_DEADLOCK FALSE
