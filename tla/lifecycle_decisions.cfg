SPECIFICATION Spec
CONSTANTS
  w1 = w1
  Runs = {r1}
  Workflows = {w1}
  WorkflowOf <- OneWorkflow
  Serialized = {}
  Versions <- ApprovalBothWays
  MaxSteps = 2
  JobIds = {1, 2}
  ConsumerSlots = {s1}
  InlineSlots = {}
  Requests = {q1, q2}
  Ticker = ticker
  Procs = {p1}
  ProcOf <- OneProcess
  Attempts = 2
  RecoveryLimit = 2
  MaxFaults = 1
  None = none
INVARIANT NoGateSkipped SuccessIsComplete
PROPERTY SettledIsFinal
SYMMETRY Interchangeable
CHECK_DEADLOCK FALSE
