SPECIFICATION LiveSpec
CONSTANTS
  None = None
  alice = alice
  bob = bob
  c1 = c1
  c2 = c2
  p1 = p1
  p2 = p2
  Accounts = {alice, bob}
  Attempts = {c1, c2}
  Presses = {p1}
INVARIANTS TypeOK OneIdentity RetryIsPossible
PROPERTIES ConnectEnds SignInCompletes
