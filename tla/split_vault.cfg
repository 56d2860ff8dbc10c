SPECIFICATION StartupSpec
CONSTANTS
  Servers = {"s1"}
  Workers = {"w"}
  Migrations <- TwoFiles
  Examples <- NoExamples
  SeedsDemo = FALSE
  MaxBoots = 2
  MaxMishaps = 0
INVARIANT OneVaultKey
CHECK_DEADLOCK FALSE
