SPECIFICATION LiveSpec
CONSTANTS
  t1 = t1
  Tabs = {t1}
  Fees = {1, 2}
  LookupMayFail = FALSE
  MaxDeposits = 2
INVARIANTS TypeOK PaidWasPaid RefundedMeansReturned NobodyIsStuckRefunded NobodyPaysTwice
PROPERTY PaymentIsRecorded
