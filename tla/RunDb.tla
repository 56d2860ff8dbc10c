------------------------------- MODULE RunDb -------------------------------
(***************************************************************************)
(* The state shared by everything that touches a run: the Postgres rows    *)
(* (runs, run_events, usage_events, approval_tasks, run_steps, run_locks), *)
(* the Redis keys (the per-workflow lock and the BullMQ jobs) and the      *)
(* control state of the processes that work on them.  The                  *)
(* modules RunExecutor, RunRequests and RunTicker hold the actions of the  *)
(* three kinds of actors, RunLifecycle composes them.                      *)
(*                                                                         *)
(* Every `await` of the source is a point where other actors may run, so   *)
(* each actor has a program counter and takes one action per awaited       *)
(* statement (or per run of statements nobody can observe apart).          *)
(***************************************************************************)
EXTENDS Naturals, Sequences, FiniteSets

CONSTANTS
  Runs,           \* run ids that may be created
  Workflows,      \* workflow ids
  WorkflowOf,     \* the workflow each run belongs to
  Serialized,     \* workflows whose manifest does not say allow_concurrent
  Versions,       \* manifests a run may be pinned to at creation
  MaxSteps,       \* bound: length of the longest manifest in Versions
  JobIds,         \* bound: BullMQ job ids alive or remembered at one time
  ConsumerSlots,  \* concurrent executions of the BullMQ consumers
  InlineSlots,    \* executions started by a sync webhook inside its request
  Requests,       \* bound: the HTTP requests of a behaviour
  Ticker,         \* the scheduler tick that holds ff:scheduler:tick
  Procs,          \* operating system processes (locked_by is worker-<pid>)
  ProcOf,         \* the process each slot, request and the ticker runs in
  Attempts,       \* BullMQ attempts of a run job (5 in the code)
  RecoveryLimit,  \* stale recoveries before recovery_exhausted (3 in the code)
  MaxFaults,      \* bound: crashes, thrown errors and late heartbeats
  None

Slots == ConsumerSlots \cup InlineSlots
Callers == Requests \cup {Ticker}

StepKinds == {"work", "delay", "approval"}
VersionType == [steps : Seq(StepKinds), onError : {"abort", "continue"},
                onTimeout : {"abort", "skip"}]

ASSUME ConstantsAssumption ==
  /\ WorkflowOf \in [Runs -> Workflows]
  /\ Serialized \subseteq Workflows
  /\ JobIds \subseteq Nat
  /\ ConsumerSlots \cap InlineSlots = {}
  /\ Slots \cap Callers = {}
  /\ ProcOf \in [Slots \cup Callers -> Procs]
  /\ None \notin Procs \cup JobIds \cup Runs
  /\ MaxSteps \in Nat /\ Attempts \in Nat \ {0} /\ RecoveryLimit \in Nat /\ MaxFaults \in Nat
  /\ Versions # {}
  /\ \A v \in Versions : v \in VersionType /\ Len(v.steps) <= MaxSteps

(* Bound: task, due and pausedRows are kept by run and not by step path, so   *)
(* that a manifest of the model has one delay and one approval at most.       *)
ASSUME OneOfAKind ==
  \A v \in Versions : \A k, l \in DOMAIN v.steps :
    v.steps[k] = v.steps[l] /\ v.steps[k] # "work" => k = l

VARIABLES
  run,         \* runs: status, job_id, started_at, recovery_count, state
  version,     \* the workflow version pinned at creation
  events,      \* run_events: the terminal event types of each run
  usage,       \* usage_events: unique on (run_id, event_type)
  task,        \* approval_tasks: status of the latest task of the run
  pausedRows,  \* runs with a run_steps row in status paused
  due,         \* timers of the run that have run out: resume_at, timeout_at
  runLock,     \* run_locks.locked_by
  wfLock,      \* Redis ff:run:wf:<workflow>
  jobs,        \* BullMQ jobs of the forge-run queue
  slot,        \* the executions of executeWorkflowRun
  caller,      \* the HTTP requests and the scheduler tick
  faults,      \* faults so far (bounded by MaxFaults)
  history      \* history variable: was a run lock abandoned, which workflow locks lapsed

dbVars == <<run, version, events, usage, task, pausedRows, due, runLock>>
redisVars == <<wfLock, jobs>>
vars == <<dbVars, redisVars, slot, caller, faults, history>>

----------------------------------------------------------------------------
(* Rows and records *)

Terminal == {"succeeded", "failed", "canceled"}
Active == {"queued", "running", "waiting", "paused"}
Status == {"absent"} \cup Active \cup Terminal
TaskStatus == {"none", "pending", "approved", "rejected", "timeout", "canceled"}
BillTypes == {"run.succeeded", "run.failed", "run.canceled"}

(* runs.state: the _done map, _pendingDelay.path, _pendingApproval.path and *)
(* _runFailed; a step is named by its position in the manifest, 0 is none.  *)
StateType == [done : SUBSET (1 .. MaxSteps), delayAt : 0 .. MaxSteps,
              approvalAt : 0 .. MaxSteps, failed : BOOLEAN]
FreshState == [done |-> {}, delayAt |-> 0, approvalAt |-> 0, failed |-> FALSE]

RunType == [status : Status, job : JobIds \cup {None}, started : BOOLEAN,
            recovery : Nat, state : StateType]
NoRun == [status |-> "absent", job |-> None, started |-> FALSE,
          recovery |-> 0, state |-> FreshState]

JobType == [state : {"gone", "waiting", "active"}, run : Runs \cup {None},
            tries : Nat, stalled : BOOLEAN]
NoJob == [state |-> "gone", run |-> None, tries |-> 0, stalled |-> FALSE]

LockedPcs == {"load", "start", "steps", "park", "finish", "bill", "audit",
              "rescue", "rescueBill", "rescueAudit", "unlockRun"}
SlotPcs == {"idle", "lockWf", "lockRun", "requeue", "end"} \cup LockedPcs
SlotType == [pc : SlotPcs, run : Runs \cup {None}, job : JobIds \cup {None},
             serial : BOOLEAN, at : 0 .. MaxSteps, state : StateType, threw : BOOLEAN,
             result : {"none", "waiting", "paused", "succeeded", "failed"}]
IdleSlot == [pc |-> "idle", run |-> None, job |-> None, serial |-> FALSE, at |-> 0,
             state |-> FreshState, threw |-> FALSE, result |-> "none"]

CallerPcs == {"idle", "done", "add", "record", "tidy", "decide", "move", "approve", "moveAll",
              "resume", "timeoutRun", "timeoutBill", "exhaust", "exhaustBill"}
CallerType == [pc : CallerPcs, run : Runs \cup {None}, job : JobIds \cup {None},
               verdict : {"none", "approved", "rejected"}]
IdleCaller == [pc |-> "idle", run |-> None, job |-> None, verdict |-> "none"]

(* A request is answered once, the ticker goes on to its next sweep. *)
Finished(c) == IF c = Ticker THEN IdleCaller ELSE [IdleCaller EXCEPT !.pc = "done"]

IsTerminal(r) == run[r].status \in Terminal

(* recordBillingForTerminalRun: nothing for a run that never started, and   *)
(* the unique index of usage_events swallows a repeated (run, event type).  *)
BilledFor(r, type) ==
  IF run[r].started THEN [usage EXCEPT ![r] = @ \cup {type}] ELSE usage

Init ==
  /\ run = [r \in Runs |-> NoRun]
  /\ version \in [Runs -> Versions]
  /\ events = [r \in Runs |-> {}]
  /\ usage = [r \in Runs |-> {}]
  /\ task = [r \in Runs |-> "none"]
  /\ pausedRows = {}
  /\ due = [r \in Runs |-> {}]
  /\ runLock = [r \in Runs |-> None]
  /\ wfLock = [w \in Workflows |-> None]
  /\ jobs = [j \in JobIds |-> NoJob]
  /\ slot = [s \in Slots |-> IdleSlot]
  /\ caller = [c \in Callers |-> IdleCaller]
  /\ faults = 0
  /\ history = [abandoned |-> FALSE, lapsed |-> {}]

----------------------------------------------------------------------------
(* enqueueRunJob: add the BullMQ job, then record its id in runs.job_id *)

(* A job id nobody can mistake for an older job: BullMQ numbers jobs, the   *)
(* model takes the least id that no job, run or caller still mentions.      *)
FreshJobs ==
  {j \in JobIds : /\ jobs[j].state = "gone"
                  /\ \A r \in Runs : run[r].job # j
                  /\ \A c \in Callers : caller[c].job # j}

AddJob(c) ==
  /\ caller[c].pc = "add"
  /\ \E j \in FreshJobs :
       /\ \A k \in FreshJobs : j <= k
       /\ jobs' = [jobs EXCEPT ![j] = [state |-> "waiting", run |-> caller[c].run,
                                       tries |-> 0, stalled |-> FALSE]]
       /\ caller' = [caller EXCEPT ![c].pc = "record", ![c].job = j]
  /\ UNCHANGED <<dbVars, wfLock, slot, faults, history>>

(* Mutation: the run's id is recorded for the job's. *)
RecordRunAsJob(c) ==
  /\ caller[c].pc = "record"
  /\ run' = [run EXCEPT ![caller[c].run].job = caller[c].run]
  /\ caller' = [caller EXCEPT ![c] = Finished(c)]
  /\ UNCHANGED <<version, events, usage, task, pausedRows, due, runLock,
                 redisVars, slot, faults, history>>

RecordJob(c) ==
  /\ caller[c].pc = "record"
  /\ run' = [run EXCEPT ![caller[c].run].job = caller[c].job]
  /\ caller' = [caller EXCEPT ![c] = Finished(c)]
  /\ UNCHANGED <<version, events, usage, task, pausedRows, due, runLock,
                 redisVars, slot, faults, history>>

=============================================================================
