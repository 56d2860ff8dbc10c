SPECIFICATION FairSpec
CONSTANTS
  w1 = w1
  Runs = {r1}
  Workflows = {w1}
  WorkflowOf <- OneWorkflow
  Serialized = {w1}
  Versions <- DelayOnly
  MaxSteps = 1
  JobIds = {1, 2}
  ConsumerSlots = {s1}
  InlineSlots = {}
  Requests = {q1}
  Ticker = ticker
  Procs = {p1}
  ProcOf <- OneProcess
  Attempts = 2
  RecoveryLimit = 2
  MaxFaults = 1
  None = none
PROPERTY EveryRunSettles
CHECK_DEADLOCK FALSE
