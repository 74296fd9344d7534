SPECIFICATION SpecFromMidSeason
CONSTANTS
  r1 = r1
  r2 = r2
  first = first
  second = second
  Runs = {r1}
  Places <- OnePlace
  Due <- UnitPrizes
  MaxEscrow = 1
INVARIANT CompleteOnlyWithExecuted
