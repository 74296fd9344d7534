SPECIFICATION LiveSpec
CONSTANTS
  alice = alice
  bob = bob
  Members = {alice, bob}
  Fees = {3}
  Structures <- AllStructures
  LastWeek = 2
  Points = {0, 1}
  MaxFees = 3
INVARIANTS TypeOK BudgetHolds
PROPERTIES BalancedLeagueIsSettled
