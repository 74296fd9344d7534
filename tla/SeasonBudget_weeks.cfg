SPECIFICATION Spec
CONSTANTS
  alice = alice
  bob = bob
  Members = {alice, bob}
  Fees = {3}
  Structures <- OneStructure
  LastWeek = 2
  Points = {0, 1}
  MaxFees = 2
INVARIANT OccurrencesAsAnnounced
