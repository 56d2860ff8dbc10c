SPECIFICATION MeteringFairSpec
CONSTANTS
  RunIds = {}
  Period = 1
  Month = 1
  HistoryDays = 1
  JobAttempts = 4
  MaxDay = 4
  Seeded <- EachJob
PROPERTY JobFiresAgain
CHECK_DEADLOCK FALSE
