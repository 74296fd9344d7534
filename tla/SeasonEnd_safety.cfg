SPECIFICATION Spec
CONSTANTS
  r1 = r1
  r2 = r2
  first = first
  second = second
  Runs = {r1, r2}
  Places <- OnePlace
  Due <- UnitPrizes
  MaxEscrow = 2
INVARIANTS TypeOK PrizeAtMostOnce OneExecutor PendingMeansUntouched BooksMatchChain
PROPERTIES SettledIsFinal ImplementsPayoutOnce
