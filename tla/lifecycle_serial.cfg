SPECIFICATION Spec
CONSTANTS
  w1 = w1
  Runs = {r1, r2}
  Workflows = {w1}
  WorkflowOf <- OneWorkflow
  Serialized = {w1}
  Versions <- WorkOnly
  MaxSteps = 1
  JobIds = {1, 2}
  ConsumerSlots = {s1, s2}
  InlineSlots = {}
  Requests = {q1, q2}
  Ticker = ticker
  Procs = {p1}
  ProcOf <- OneProcess
  Attempts = 2
  RecoveryLimit = 2
  MaxFaults = 0
  None = none
INVARIANT QueueLocksHold
SYMMETRY Interchangeable
CHECK_DEADLOCK FALSE
