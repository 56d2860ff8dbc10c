SPECIFICATION Spec
CONSTANTS
  w1 = w1
  Runs = {r1}
  Workflows = {w1}
  WorkflowOf <- OneWorkflow
  Serialized = {}
  Versions <- WorkOnly
  MaxSteps = 1
  JobIds = {1, 2}
  ConsumerSlots = {s1}
  InlineSlots = {}
  Requests = {q1, q2}
  Ticker = ticker
  Procs = {p1}
  ProcOf <- OneProcess
  Attempts = 5
  RecoveryLimit = 2
  MaxFaults = 0
  None = none
INVARIANT OneBillPerRun
CHECK_DEADLOCK FALSE
