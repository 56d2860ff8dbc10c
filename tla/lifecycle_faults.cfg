SPECIFICATION Spec
CONSTANTS
  w1 = w1
  Runs = {r1}
  Workflows = {w1}
  WorkflowOf <- OneWorkflow
  Serialized = {}
  Versions <- WorkOnly
  MaxSteps = 1
  JobIds = {1, 2}
  ConsumerSlots = {s1}
  InlineSlots = {i1}
  Requests = {q1}
  Ticker = ticker
  Procs = {p1}
  ProcOf <- OneProcess
  Attempts = 2
  RecoveryLimit = 2
  MaxFaults = 2
  None = none
INVARIANT TypeOK OneExecutor BillsMatchFeed
SYMMETRY Interchangeable
CHECK_DEADLOCK FALSE
