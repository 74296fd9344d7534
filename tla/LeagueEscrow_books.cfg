\* A run may end with every wallet and the pot empty: nothing is enabled then.
SPECIFICATION Spec
CONSTANTS
  Leagues = {l1, l2}
  Accounts = {alice, bob, carol}
  Associated = {alice, bob}
  Funds = 2
  MaxPaidOut = 2
  MaxPayouts = 2
INVARIANTS TypeOK PotBacksEveryLeague TotalsAreNetOfPayouts RefundsAreCovered
CHECK_DEADLOCK FALSE
