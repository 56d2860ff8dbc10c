------------------------- MODULE RunLifecycleProofs -------------------------
(***************************************************************************)
(* Theorems of RunLifecycle, for every value of its constants.             *)
(***************************************************************************)
EXTENDS RunLifecycle, TLAPS

----------------------------------------------------------------------------
(* The inductive invariant behind TypeOK: an actor off its idle state works  *)
(* on a run, and its program counter agrees with the rest of its record.     *)

GoodSlots ==
  {x \in SlotType : /\ x.pc # "idle" => x.run \in Runs
                    /\ x.pc = "steps" => x.at # 0
                    /\ x.pc = "park" => x.result \in {"waiting", "paused"}
                    /\ x.pc \in {"finish", "bill", "audit"} =>
                         x.result \in {"succeeded", "failed"}}
GoodCallers ==
  {x \in CallerType : /\ x.pc \notin {"idle", "done"} => x.run \in Runs
                      /\ x.pc = "decide" => x.verdict # "none"}
GoodJobs == {x \in JobType : x.state # "gone" => x.run \in Runs}

RowsOK ==
  /\ version \in [Runs -> Versions]
  /\ events \in [Runs -> SUBSET BillTypes]
  /\ usage \in [Runs -> SUBSET BillTypes]
  /\ task \in [Runs -> TaskStatus]
  /\ pausedRows \subseteq Runs
  /\ due \in [Runs -> SUBSET {"delay", "approval"}]
LocksOK ==
  /\ runLock \in [Runs -> Procs \cup {None}]
  /\ wfLock \in [Workflows -> Procs \cup {None}]
ActorsOK ==
  /\ jobs \in [JobIds -> GoodJobs]
  /\ slot \in [Slots -> GoodSlots]
  /\ caller \in [Callers -> GoodCallers]
FaultsOK ==
  /\ faults \in 0 .. MaxFaults
  /\ history \in [abandoned : BOOLEAN, lapsed : SUBSET Workflows]

(* A job in execution is active and has one execution. *)
JobsHeld ==
  \A s \in Slots : slot[s].job # None =>
    /\ jobs[slot[s].job].state = "active"
    /\ \A t \in Slots : slot[t].job = slot[s].job => t = s

TypeInv == run \in [Runs -> RunType] /\ RowsOK /\ LocksOK /\ ActorsOK /\ FaultsOK /\ JobsHeld

LEMMA TypeInvImpliesTypeOK == TypeInv => TypeOK
  BY DEF TypeInv, TypeOK, RowsOK, LocksOK, ActorsOK, FaultsOK, GoodJobs, GoodSlots, GoodCallers

----------------------------------------------------------------------------
(* The records the actions write. *)

LEMMA IdleSlotGood == IdleSlot \in GoodSlots
  BY ConstantsAssumption
  DEF IdleSlot, GoodSlots, SlotType, SlotPcs, LockedPcs, FreshState, StateType

LEMMA IdleCallerGood == \A c \in Callers : IdleCaller \in GoodCallers /\ Finished(c) \in GoodCallers
  BY DEF IdleCaller, Finished, GoodCallers, CallerType, CallerPcs

LEMMA NoJobGood == NoJob \in GoodJobs
  BY DEF NoJob, GoodJobs, JobType

LEMMA NoRunType == NoRun \in RunType
  BY ConstantsAssumption DEF NoRun, RunType, FreshState, StateType, Status

LEMMA TypeInit == Init => TypeInv
  BY ConstantsAssumption, IdleSlotGood, IdleCallerGood, NoJobGood, NoRunType
  DEF Init, TypeInv, RowsOK, LocksOK, ActorsOK, FaultsOK, TaskStatus, JobsHeld, IdleSlot

(* A step of an execution keeps its job or lets go of it. *)
SlotsKept ==
  /\ slot' \in [Slots -> GoodSlots]
  /\ \A t \in Slots : slot'[t].job \in {slot[t].job, None}

LEMMA SlotsKeptByUpdate ==
  ASSUME slot \in [Slots -> GoodSlots], NEW s \in Slots, NEW x \in GoodSlots,
         x.job \in {slot[s].job, None}, slot' = [slot EXCEPT ![s] = x]
  PROVE  SlotsKept
  BY DEF SlotsKept

LEMMA JobsHeldKept ==
  ASSUME JobsHeld, SlotsKept, UNCHANGED jobs
  PROVE  JobsHeld'
  BY DEF JobsHeld, SlotsKept

(* Free program counters: those that GoodSlots asks nothing more of. *)
FreePcs == SlotPcs \ {"idle", "steps", "park", "finish", "bill", "audit"}

LEMMA GotoGood ==
  ASSUME slot \in [Slots -> GoodSlots], NEW s \in Slots, slot[s].pc # "idle",
         NEW pc \in FreePcs, Goto(s, pc)
  PROVE  SlotsKept
  <1>1. [slot[s] EXCEPT !.pc = pc] \in GoodSlots
    BY DEF GoodSlots, SlotType, FreePcs
  <1>2. [slot[s] EXCEPT !.pc = pc].job = slot[s].job
    BY DEF GoodSlots, SlotType
  <1>. QED  BY <1>1, <1>2, SlotsKeptByUpdate DEF Goto

LEMMA LeaveGood ==
  ASSUME slot \in [Slots -> GoodSlots], NEW s \in Slots, slot[s].pc # "idle",
         NEW pc \in FreePcs, NEW threw \in BOOLEAN, LeaveTo(s, pc, threw)
  PROVE  SlotsKept
  <1>. DEFINE new == [IdleSlot EXCEPT !.pc = pc, !.run = slot[s].run,
                                     !.job = slot[s].job, !.serial = slot[s].serial,
                                     !.threw = threw]
  <1>1. new \in GoodSlots
    BY IdleSlotGood DEF GoodSlots, SlotType, FreePcs
  <1>2. new.job = slot[s].job
    BY IdleSlotGood DEF GoodSlots, SlotType
  <1>. QED  BY <1>1, <1>2, SlotsKeptByUpdate DEF LeaveTo

LEMMA ReturnGood ==
  ASSUME slot \in [Slots -> GoodSlots], NEW s \in Slots, slot[s].pc # "idle",
         NEW threw \in BOOLEAN, Return(s, threw)
  PROVE  SlotsKept
  <1>1. CASE slot[s].job = None
    <2>1. IdleSlot.job = None
      BY DEF IdleSlot
    <2>. QED  BY <1>1, <2>1, IdleSlotGood, SlotsKeptByUpdate DEF Return
  <1>2. CASE slot[s].job # None
    <2>1. (IF threw THEN "requeue" ELSE "end") \in FreePcs
      BY DEF FreePcs, SlotPcs
    <2>. QED  BY <1>2, <2>1, LeaveGood DEF Return
  <1>. QED  BY <1>1, <1>2

(* The end of a walk, with an outcome that fits its program counter. *)
LEMMA StopGood ==
  ASSUME slot \in [Slots -> GoodSlots], NEW s \in Slots, slot[s].run \in Runs,
         NEW st \in StateType, NEW pc, NEW result,
         \/ pc = "finish" /\ result \in {"succeeded", "failed"}
         \/ pc = "park" /\ result \in {"waiting", "paused"}
  PROVE  [slot[s] EXCEPT !.pc = pc, !.at = 0, !.state = st, !.result = result] \in GoodSlots
  <1>. DEFINE new == [slot[s] EXCEPT !.pc = pc, !.at = 0, !.state = st, !.result = result]
  <1>1. new \in SlotType
    <2>1. 0 \in 0 .. MaxSteps
      BY ConstantsAssumption
    <2>2. pc \in SlotPcs
      BY DEF SlotPcs, LockedPcs
    <2>3. result \in {"none", "waiting", "paused", "succeeded", "failed"}
      OBVIOUS
    <2>. QED  BY <2>1, <2>2, <2>3 DEF GoodSlots, SlotType
  <1>2. new.pc = pc /\ new.result = result /\ new.run \in Runs
    BY DEF GoodSlots, SlotType
  <1>. QED  BY <1>1, <1>2 DEF GoodSlots

LEMMA WalkOnGood ==
  ASSUME slot \in [Slots -> GoodSlots], version \in [Runs -> Versions],
         NEW s \in Slots, slot[s].run \in Runs,
         NEW st \in StateType, NEW i \in Nat \ {0}, WalkOn(s, st, i)
  PROVE  SlotsKept
  <1>. DEFINE open == (i .. Len(Manifest(s).steps)) \ st.done
              res == IF st.failed THEN "failed" ELSE "succeeded"
              over == [slot[s] EXCEPT !.pc = "finish", !.at = 0, !.state = st, !.result = res]
              next(k) == [slot[s] EXCEPT !.pc = "steps", !.at = k, !.state = st]
  <1>1. over \in GoodSlots
    <2>1. res \in {"succeeded", "failed"}
      OBVIOUS
    <2>. HIDE DEF res
    <2>. QED  BY <2>1, StopGood
  <1>3. over.job = slot[s].job
    BY DEF GoodSlots, SlotType
  <1>2. ASSUME NEW k \in open PROVE next(k) \in GoodSlots /\ next(k).job = slot[s].job
    <2>1. /\ Len(Manifest(s).steps) \in Nat
          /\ Len(Manifest(s).steps) <= MaxSteps
          /\ MaxSteps \in Nat
      BY ConstantsAssumption DEF Manifest, VersionType
    <2>2. k \in 0 .. MaxSteps /\ k # 0
      BY <2>1
    <2>3. slot[s] \in GoodSlots
      OBVIOUS
    <2>. HIDE DEF open
    <2>. QED  BY <2>2, <2>3 DEF GoodSlots, SlotType, SlotPcs, LockedPcs
  <1>. QED  BY <1>1, <1>2, <1>3, SlotsKeptByUpdate DEF WalkOn

LEMMA EndsFailedGood ==
  ASSUME slot \in [Slots -> GoodSlots], NEW s \in Slots, slot[s].run \in Runs,
         NEW st \in StateType, EndsFailed(s, st)
  PROVE  SlotsKept
  <1>1. [slot[s] EXCEPT !.pc = "finish", !.at = 0, !.state = st, !.result = "failed"] \in GoodSlots
    BY StopGood
  <1>2. [slot[s] EXCEPT !.pc = "finish", !.at = 0, !.state = st, !.result = "failed"].job
          = slot[s].job
    BY DEF GoodSlots, SlotType
  <1>. QED  BY <1>1, <1>2, SlotsKeptByUpdate DEF EndsFailed

LEMMA ParkedGood ==
  ASSUME slot \in [Slots -> GoodSlots], NEW s \in Slots, slot[s].run \in Runs,
         NEW st \in StateType, NEW result \in {"waiting", "paused"}, Parked(s, st, result)
  PROVE  SlotsKept
  <1>1. [slot[s] EXCEPT !.pc = "park", !.at = 0, !.state = st, !.result = result] \in GoodSlots
    BY StopGood
  <1>2. [slot[s] EXCEPT !.pc = "park", !.at = 0, !.state = st, !.result = result].job
          = slot[s].job
    BY DEF GoodSlots, SlotType
  <1>. QED  BY <1>1, <1>2, SlotsKeptByUpdate DEF Parked

LEMMA StepFailedGood ==
  ASSUME slot \in [Slots -> GoodSlots], version \in [Runs -> Versions],
         NEW s \in Slots, slot[s].pc = "steps", NEW st \in StateType,
         Completed(s, st) \/ StepFailed(s, st)
  PROVE  SlotsKept
  <1>1. /\ slot[s].run \in Runs
        /\ slot[s].at \in 1 .. MaxSteps
        /\ slot[s].at + 1 \in Nat \ {0}
    BY ConstantsAssumption DEF GoodSlots, SlotType
  <1>2. CASE Completed(s, st)
    <2>1. [st EXCEPT !.done = @ \cup {slot[s].at}] \in StateType
      BY <1>1 DEF StateType
    <2>. QED  BY <1>1, <1>2, <2>1, WalkOnGood DEF Completed
  <1>3. CASE StepFailed(s, st)
    <2>. DEFINE failed == [st EXCEPT !.failed = TRUE]
    <2>1. failed \in StateType
      BY DEF StateType
    <2>2. CASE Manifest(s).onError = "continue"
      <3>1. WalkOn(s, failed, slot[s].at + 1)
        BY <1>3, <2>2 DEF StepFailed
      <3>. HIDE DEF failed
      <3>. QED  BY <1>1, <2>1, <3>1, WalkOnGood
    <2>3. CASE Manifest(s).onError # "continue"
      BY <1>1, <1>3, <2>3, EndsFailedGood DEF StepFailed
    <2>. QED  BY <2>2, <2>3
  <1>. QED  BY <1>2, <1>3

----------------------------------------------------------------------------
(* Every action keeps the invariant. *)

(* What most steps of an execution leave to show. *)
LEMMA TypeKept ==
  ASSUME TypeInv, run' \in [Runs -> RunType], RowsOK', LocksOK', SlotsKept,
         UNCHANGED <<jobs, caller, faults, history>>
  PROVE  TypeInv'
  BY JobsHeldKept DEF TypeInv, ActorsOK, FaultsOK, SlotsKept

LEMMA TypeSlotOnly ==
  ASSUME TypeInv, SlotsKept, UNCHANGED <<dbVars, redisVars, caller, faults, history>>
  PROVE  TypeInv'
  BY TypeKept DEF TypeInv, RowsOK, LocksOK, dbVars, redisVars

LEMMA BusySlot ==
  ASSUME TypeInv, NEW s \in Slots, slot[s].pc # "idle"
  PROVE  /\ slot[s] \in GoodSlots
         /\ slot[s].run \in Runs
         /\ slot[s].state \in StateType
         /\ ProcOf[s] \in Procs
  BY ConstantsAssumption DEF TypeInv, ActorsOK, GoodSlots, SlotType

LEMMA TypeFetchJob == ASSUME TypeInv, NEW s \in Slots, FetchJob(s) PROVE TypeInv'
  <1>. SUFFICES ActorsOK' /\ JobsHeld'
    BY DEF FetchJob, TypeInv, RowsOK, LocksOK, FaultsOK, dbVars
  <1>1. PICK j \in JobIds :
          /\ jobs[j].state = "waiting"
          /\ LET r == jobs[j].run IN
               IF IsTerminal(r)
               THEN jobs' = [jobs EXCEPT ![j] = NoJob] /\ slot' = slot
               ELSE /\ jobs' = [jobs EXCEPT ![j].state = "active"]
                    /\ slot' = [slot EXCEPT ![s] =
                         [IdleSlot EXCEPT !.pc = IF NeedsLock(r) THEN "lockWf" ELSE "lockRun",
                                          !.run = r, !.job = j, !.serial = NeedsLock(r)]]
    BY DEF FetchJob
  <1>2. jobs[j].run \in Runs
    BY <1>1 DEF TypeInv, ActorsOK, GoodJobs
  <1>3. \A t \in Slots : slot[t].job # j
    BY <1>1, ConstantsAssumption DEF TypeInv, JobsHeld
  <1>4. CASE IsTerminal(jobs[j].run)
    <2>1. jobs' = [jobs EXCEPT ![j] = NoJob] /\ slot' = slot
      BY <1>1, <1>4
    <2>. QED  BY <2>1, <1>3, NoJobGood DEF FetchJob, TypeInv, ActorsOK, JobsHeld
  <1>5. CASE ~IsTerminal(jobs[j].run)
    <2>. DEFINE pc == IF NeedsLock(jobs[j].run) THEN "lockWf" ELSE "lockRun"
                new == [IdleSlot EXCEPT !.pc = pc, !.run = jobs[j].run, !.job = j,
                                        !.serial = NeedsLock(jobs[j].run)]
    <2>1. /\ jobs' = [jobs EXCEPT ![j].state = "active"]
          /\ slot' = [slot EXCEPT ![s] = new]
      BY <1>1, <1>5
    <2>2. [jobs[j] EXCEPT !.state = "active"] \in GoodJobs
      BY <1>2 DEF TypeInv, ActorsOK, GoodJobs, JobType
    <2>3. new \in GoodSlots /\ new.job = j
      <3>1. pc \in {"lockWf", "lockRun"} /\ NeedsLock(jobs[j].run) \in BOOLEAN
        BY DEF NeedsLock
      <3>. HIDE DEF pc
      <3>. QED  BY <3>1, <1>2, IdleSlotGood DEF GoodSlots, SlotType, SlotPcs
    <2>. HIDE DEF new
    <2>4. ActorsOK'
      BY <2>1, <2>2, <2>3 DEF FetchJob, TypeInv, ActorsOK
    <2>5. JobsHeld'
      <3>1. jobs'[j].state = "active" /\ \A k \in JobIds \ {j} : jobs'[k] = jobs[k]
        BY <2>1 DEF TypeInv, ActorsOK, GoodJobs, JobType
      <3>2. slot'[s].job = j /\ \A t \in Slots \ {s} : slot'[t] = slot[t]
        BY <2>1, <2>3 DEF TypeInv, ActorsOK
      <3>3. \A t \in Slots : slot[t].job \in JobIds \cup {None}
        BY DEF TypeInv, ActorsOK, GoodSlots, SlotType
      <3>. QED  BY <3>1, <3>2, <3>3, <1>3 DEF TypeInv, JobsHeld
    <2>. QED  BY <2>4, <2>5
  <1>. QED  BY <1>4, <1>5

(* An attempt that failed gives its job back to BullMQ, and the slot is free. *)
LEMMA RetriedGood ==
  ASSUME NEW job \in JobType, job.run \in Runs
  PROVE  Retried(job) \in GoodJobs
  <1>. DEFINE again == [job EXCEPT !.state = "waiting", !.tries = job.tries + 1]
  <1>1. job.tries + 1 \in Nat
    BY DEF JobType
  <1>2. again \in JobType
    BY <1>1 DEF JobType
  <1>3. again.run = job.run
    BY DEF JobType
  <1>. QED  BY <1>2, <1>3, NoJobGood DEF Retried, GoodJobs

LEMMA JobReleased ==
  ASSUME TypeInv, NEW s \in Slots, slot[s].pc # "idle",
         slot' = [slot EXCEPT ![s] = IdleSlot],
         \/ jobs' = FailedAttempt(slot[s].job)
         \/ jobs' = [jobs EXCEPT ![slot[s].job] = NoJob]
  PROVE  jobs' \in [JobIds -> GoodJobs] /\ SlotsKept /\ JobsHeld'
  <1>. DEFINE j == slot[s].job
  <1>1. ASSUME j \in JobIds PROVE Retried(jobs[j]) \in GoodJobs
    <2>1. jobs[j].state = "active"
      BY <1>1, ConstantsAssumption DEF TypeInv, JobsHeld
    <2>2. jobs[j] \in JobType /\ jobs[j].run \in Runs
      BY <1>1, <2>1 DEF TypeInv, ActorsOK, GoodJobs
    <2>. QED  BY <2>2, RetriedGood
  <1>2. /\ jobs' \in [JobIds -> GoodJobs]
        /\ \A k \in JobIds \ {j} : jobs'[k] = jobs[k]
    <2>. HIDE DEF j
    <2>1. CASE jobs' = FailedAttempt(j)
      BY <1>1, <2>1 DEF FailedAttempt, TypeInv, ActorsOK
    <2>2. CASE jobs' = [jobs EXCEPT ![j] = NoJob]
      BY <2>2, NoJobGood DEF TypeInv, ActorsOK
    <2>. QED  BY <2>1, <2>2 DEF j
  <1>3. IdleSlot.job = None /\ slot[s].job \in JobIds \cup {None}
    BY DEF IdleSlot, TypeInv, ActorsOK, GoodSlots, SlotType
  <1>4. SlotsKept
    BY <1>3, IdleSlotGood, SlotsKeptByUpdate DEF TypeInv, ActorsOK
  <1>5. slot'[s].job = None /\ \A t \in Slots \ {s} : slot'[t] = slot[t]
    BY <1>3 DEF TypeInv, ActorsOK
  <1>6. \A t \in Slots : slot[t].job \in JobIds \cup {None}
    BY DEF TypeInv, ActorsOK, GoodSlots, SlotType
  <1>7. JobsHeld'
    BY <1>2, <1>5, <1>6 DEF TypeInv, JobsHeld
  <1>. QED  BY <1>2, <1>4, <1>7

LEMMA TypeLockWorkflow == ASSUME TypeInv, NEW s \in Slots, LockWorkflow(s) PROVE TypeInv'
  <1>. DEFINE w == WorkflowOf[slot[s].run]
  <1>1. slot[s].pc = "lockWf"
    BY DEF LockWorkflow
  <1>2. RowsOK' /\ run' \in [Runs -> RunType] /\ FaultsOK' /\ caller' \in [Callers -> GoodCallers]
    BY DEF LockWorkflow, TypeInv, RowsOK, FaultsOK, ActorsOK, dbVars
  <1>3. LocksOK'
    BY <1>1, BusySlot DEF LockWorkflow, TypeInv, LocksOK, dbVars
  <1>4. CASE Goto(s, "lockRun") /\ jobs' = jobs
    <2>1. SlotsKept
      BY <1>1, <1>4, GotoGood DEF FreePcs, SlotPcs, TypeInv, ActorsOK
    <2>. QED  BY <1>2, <1>3, <1>4, <2>1, TypeKept DEF LockWorkflow
  <1>5. CASE jobs' = FailedAttempt(slot[s].job) /\ slot' = [slot EXCEPT ![s] = IdleSlot]
    BY <1>1, <1>2, <1>3, <1>5, JobReleased DEF TypeInv, ActorsOK, SlotsKept
  <1>. QED  BY <1>4, <1>5 DEF LockWorkflow

LEMMA TypeLockRun == ASSUME TypeInv, NEW s \in Slots, LockRun(s) PROVE TypeInv'
  <1>1. slot[s].pc = "lockRun"
    BY DEF LockRun
  <1>2. RowsOK' /\ run' \in [Runs -> RunType] /\ UNCHANGED <<jobs, caller, faults, history>>
    BY DEF LockRun, TypeInv, RowsOK, redisVars
  <1>3. LocksOK'
    BY <1>1, BusySlot DEF LockRun, TypeInv, LocksOK, redisVars
  <1>4. SlotsKept
    BY <1>1, GotoGood, ReturnGood DEF LockRun, FreePcs, SlotPcs, LockedPcs, TypeInv, ActorsOK
  <1>. QED  BY <1>2, <1>3, <1>4, TypeKept

LEMMA TypeLoadRun == ASSUME TypeInv, NEW s \in Slots, LoadRun(s) PROVE TypeInv'
  <1>1. slot[s].pc = "load"
    BY DEF LoadRun
  <1>2. CASE IsTerminal(slot[s].run)
    <2>1. SlotsKept
      BY <1>1, <1>2, LeaveGood DEF LoadRun, FreePcs, SlotPcs, LockedPcs, TypeInv, ActorsOK
    <2>. QED  BY <2>1, TypeSlotOnly DEF LoadRun
  <1>3. CASE ~IsTerminal(slot[s].run)
    <2>. DEFINE new == [slot[s] EXCEPT !.pc = "start", !.state = run[slot[s].run].state]
    <2>1. run[slot[s].run].state \in StateType
      BY <1>1, BusySlot DEF TypeInv, RunType
    <2>2. new \in GoodSlots
      BY <1>1, <2>1, BusySlot, ZenonT(30) DEF GoodSlots, SlotType, SlotPcs, LockedPcs
    <2>3. new.job = slot[s].job
      BY <1>1, BusySlot DEF GoodSlots, SlotType
    <2>4. slot' = [slot EXCEPT ![s] = new]
      BY <1>3 DEF LoadRun
    <2>5. SlotsKept
      BY <2>2, <2>3, <2>4, SlotsKeptByUpdate DEF TypeInv, ActorsOK
    <2>. QED  BY <2>5, TypeSlotOnly DEF LoadRun
  <1>. QED  BY <1>2, <1>3

LEMMA StartedType ==
  ASSUME TypeInv, NEW r
  PROVE  Started(r) \in [Runs -> RunType]
  BY DEF Started, TypeInv, RunType, Status, Active

LEMMA TypeStartRun == ASSUME TypeInv, NEW s \in Slots, StartRun(s) PROVE TypeInv'
  <1>1. slot[s].pc = "start"
    BY DEF StartRun
  <1>2. RowsOK' /\ LocksOK' /\ UNCHANGED <<jobs, caller, faults, history>>
    BY DEF StartRun, TypeInv, RowsOK, LocksOK, redisVars
  <1>3. run' \in [Runs -> RunType]
    BY StartedType DEF StartRun
  <1>4. WalkOn(s, slot[s].state, 1)
    BY DEF StartRun
  <1>5. SlotsKept
    BY <1>1, <1>4, BusySlot, WalkOnGood DEF TypeInv, ActorsOK, RowsOK
  <1>. QED  BY <1>2, <1>3, <1>5, TypeKept

LEMMA StateUpdates ==
  ASSUME NEW st \in StateType, NEW k \in 0 .. MaxSteps
  PROVE  /\ [st EXCEPT !.delayAt = k] \in StateType
         /\ [st EXCEPT !.approvalAt = k] \in StateType
         /\ [st EXCEPT !.failed = TRUE] \in StateType
  BY DEF StateType

LEMMA TypeWalkStep == ASSUME TypeInv, NEW s \in Slots, WalkStep(s) PROVE TypeInv'
  <1>. DEFINE r == slot[s].run
              st == slot[s].state
              at == slot[s].at
  <1>1. slot[s].pc = "steps"
    BY DEF WalkStep, StopWalk, FailStep, WorkStep, DelayStep, OpenApproval, ResumeApproval, AtStep
  <1>2. r \in Runs /\ st \in StateType /\ at \in 0 .. MaxSteps /\ 0 \in 0 .. MaxSteps
    BY <1>1, BusySlot, ConstantsAssumption DEF GoodSlots, SlotType
  <1>3. /\ slot \in [Slots -> GoodSlots]
        /\ version \in [Runs -> Versions]
    BY DEF TypeInv, ActorsOK, RowsOK
  <1>4. /\ [st EXCEPT !.delayAt = at] \in StateType
        /\ [st EXCEPT !.approvalAt = at] \in StateType
        /\ [st EXCEPT !.delayAt = 0] \in StateType
        /\ [st EXCEPT !.approvalAt = 0] \in StateType
    BY <1>2, StateUpdates
  <1>5. CASE StopWalk(s)
    <2>1. SlotsKept
      BY <1>2, <1>3, <1>5, EndsFailedGood DEF StopWalk
    <2>. QED  BY <1>5, <2>1, TypeSlotOnly DEF StopWalk
  <1>6. CASE WorkStep(s)
    <2>1. SlotsKept
      BY <1>1, <1>2, <1>3, <1>6, StepFailedGood DEF WorkStep
    <2>. QED  BY <1>6, <2>1, TypeSlotOnly DEF WorkStep
  <1>7. CASE DelayStep(s)
    <2>1. \/ Parked(s, [st EXCEPT !.delayAt = at], "waiting")
          \/ Parked(s, st, "waiting")
          \/ Completed(s, [st EXCEPT !.delayAt = 0])
      BY <1>7 DEF DelayStep
    <2>. HIDE DEF r, st, at
    <2>2. SlotsKept
      <3>1. CASE Parked(s, [st EXCEPT !.delayAt = at], "waiting")
        BY <1>2, <1>3, <1>4, <3>1, ParkedGood DEF r
      <3>2. CASE Parked(s, st, "waiting")
        BY <1>2, <1>3, <3>2, ParkedGood DEF r
      <3>3. CASE Completed(s, [st EXCEPT !.delayAt = 0])
        BY <1>1, <1>3, <1>4, <3>3, StepFailedGood
      <3>. QED  BY <2>1, <3>1, <3>2, <3>3
    <2>3. /\ run' \in [Runs -> RunType] /\ RowsOK' /\ LocksOK'
          /\ UNCHANGED <<jobs, caller, faults, history>>
      BY <1>7 DEF DelayStep, TypeInv, RowsOK, LocksOK, redisVars
    <2>. QED  BY <2>2, <2>3, TypeKept
  <1>8. CASE OpenApproval(s)
    <2>1. \/ Parked(s, [st EXCEPT !.approvalAt = at], "paused")
          \/ StepFailed(s, [st EXCEPT !.approvalAt = at])
      BY <1>8 DEF OpenApproval
    <2>2. /\ run' \in [Runs -> RunType] /\ RowsOK' /\ LocksOK'
          /\ UNCHANGED <<jobs, caller, history>>
      BY <1>2, <1>8 DEF OpenApproval, TypeInv, RowsOK, LocksOK, TaskStatus, redisVars
    <2>3. faults' \in 0 .. MaxFaults
      BY <1>8, ConstantsAssumption DEF OpenApproval, TypeInv, FaultsOK
    <2>. HIDE DEF st, at
    <2>4. SlotsKept
      <3>1. CASE Parked(s, [st EXCEPT !.approvalAt = at], "paused")
        BY <1>2, <1>3, <1>4, <3>1, ParkedGood
      <3>2. CASE StepFailed(s, [st EXCEPT !.approvalAt = at])
        BY <1>1, <1>3, <1>4, <3>2, StepFailedGood
      <3>. QED  BY <2>1, <3>1, <3>2
    <2>. QED  BY <2>2, <2>3, <2>4, JobsHeldKept DEF TypeInv, ActorsOK, FaultsOK, SlotsKept
  <1>9. CASE ResumeApproval(s)
    <2>1. \/ Parked(s, st, "paused")
          \/ Completed(s, [st EXCEPT !.approvalAt = 0])
          \/ StepFailed(s, [st EXCEPT !.approvalAt = 0])
          \/ StepFailed(s, st)
      BY <1>9 DEF ResumeApproval
    <2>. HIDE DEF st, at
    <2>2. SlotsKept
      <3>1. CASE Parked(s, st, "paused")
        BY <1>2, <1>3, <3>1, ParkedGood
      <3>2. CASE \/ Completed(s, [st EXCEPT !.approvalAt = 0])
                 \/ StepFailed(s, [st EXCEPT !.approvalAt = 0])
        BY <1>1, <1>3, <1>4, <3>2, StepFailedGood
      <3>3. CASE StepFailed(s, st)
        BY <1>1, <1>2, <1>3, <3>3, StepFailedGood
      <3>. QED  BY <2>1, <3>1, <3>2, <3>3
    <2>3. /\ run' \in [Runs -> RunType] /\ RowsOK' /\ LocksOK'
          /\ UNCHANGED <<jobs, caller, faults, history>>
      BY <1>2, <1>9 DEF ResumeApproval, TypeInv, RowsOK, LocksOK, redisVars
    <2>. QED  BY <2>2, <2>3, TypeKept
  <1>10. CASE FailStep(s)
    <2>1. SlotsKept
      BY <1>1, <1>2, <1>3, <1>10, StepFailedGood DEF FailStep
    <2>2. /\ run' \in [Runs -> RunType] /\ RowsOK' /\ LocksOK'
          /\ UNCHANGED <<jobs, caller, faults, history>>
      BY <1>10 DEF FailStep, TypeInv, RowsOK, LocksOK, redisVars
    <2>. QED  BY <2>1, <2>2, TypeKept
  <1>. QED  BY <1>5, <1>6, <1>7, <1>8, <1>9, <1>10 DEF WalkStep

(* The updates of a runs row keep its type. *)
LEMMA RowUpdates ==
  ASSUME TypeInv, NEW r, NEW status \in Status \ {"absent"}, NEW st \in StateType,
         NEW job \in JobIds \cup {None}
  PROVE  /\ [run EXCEPT ![r].status = status] \in [Runs -> RunType]
         /\ [run EXCEPT ![r].status = status, ![r].state = st] \in [Runs -> RunType]
         /\ [run EXCEPT ![r].status = status, ![r].job = job] \in [Runs -> RunType]
         /\ [run EXCEPT ![r].job = job] \in [Runs -> RunType]
  BY DEF TypeInv, RunType

LEMMA TypeParkRun == ASSUME TypeInv, NEW s \in Slots, ParkRun(s) PROVE TypeInv'
  <1>1. slot[s].pc = "park"
    BY DEF ParkRun
  <1>2. slot[s].result \in Status \ {"absent"} /\ slot[s].state \in StateType
    BY <1>1, BusySlot DEF GoodSlots, Status, Active
  <1>3. run' \in [Runs -> RunType]
    BY <1>2, RowUpdates DEF ParkRun
  <1>4. SlotsKept
    BY <1>1, LeaveGood DEF ParkRun, FreePcs, SlotPcs, LockedPcs, TypeInv, ActorsOK
  <1>5. RowsOK' /\ LocksOK' /\ UNCHANGED <<jobs, caller, faults, history>>
    BY DEF ParkRun, TypeInv, RowsOK, LocksOK, redisVars
  <1>. QED  BY <1>3, <1>4, <1>5, TypeKept

LEMMA BilledForType ==
  ASSUME TypeInv, NEW r, NEW type \in BillTypes
  PROVE  BilledFor(r, type) \in [Runs -> SUBSET BillTypes]
  BY DEF BilledFor, TypeInv, RowsOK

LEMMA ToBillGood ==
  ASSUME TypeInv, NEW s \in Slots, slot[s].pc \in {"finish", "bill"},
         NEW pc \in {"bill", "audit"}, Goto(s, pc)
  PROVE  SlotsKept
  <1>. DEFINE new == [slot[s] EXCEPT !.pc = pc]
  <1>1. slot[s] \in GoodSlots /\ slot[s].run \in Runs
    BY BusySlot
  <1>2. new \in GoodSlots
    BY <1>1 DEF GoodSlots, SlotType, SlotPcs, LockedPcs
  <1>3. new.job = slot[s].job
    BY <1>1 DEF GoodSlots, SlotType
  <1>4. slot' = [slot EXCEPT ![s] = new]
    BY DEF Goto
  <1>. HIDE DEF new
  <1>. QED  BY <1>2, <1>3, <1>4, SlotsKeptByUpdate DEF TypeInv, ActorsOK

LEMMA TypeFinishRun == ASSUME TypeInv, NEW s \in Slots, FinishRun(s) PROVE TypeInv'
  <1>1. slot[s].pc = "finish"
    BY DEF FinishRun
  <1>2. slot[s].result \in Status \ {"absent"} /\ slot[s].state \in StateType
    BY <1>1, BusySlot DEF GoodSlots, Status, Terminal
  <1>3. run' \in [Runs -> RunType]
    BY <1>2, RowUpdates DEF FinishRun
  <1>4. SlotsKept
    BY <1>1, ToBillGood DEF FinishRun
  <1>5. Outcome(s) \in BillTypes
    BY DEF Outcome, BillTypes
  <1>6. RowsOK' /\ LocksOK' /\ UNCHANGED <<jobs, caller, faults, history>>
    BY <1>5 DEF FinishRun, TypeInv, RowsOK, LocksOK, redisVars
  <1>. QED  BY <1>3, <1>4, <1>6, TypeKept

LEMMA TypeBillRun == ASSUME TypeInv, NEW s \in Slots, BillRun(s) PROVE TypeInv'
  <1>1. slot[s].pc = "bill"
    BY DEF BillRun
  <1>2. SlotsKept
    BY <1>1, ToBillGood DEF BillRun
  <1>3. usage' \in [Runs -> SUBSET BillTypes]
    BY BilledForType DEF BillRun, Outcome, BillTypes
  <1>4. /\ run' \in [Runs -> RunType] /\ RowsOK' /\ LocksOK'
        /\ UNCHANGED <<jobs, caller, faults, history>>
    BY <1>3 DEF BillRun, TypeInv, RowsOK, LocksOK, redisVars
  <1>. QED  BY <1>2, <1>4, TypeKept

LEMMA TypeRescueRun == ASSUME TypeInv, NEW s \in Slots, RescueRun(s) PROVE TypeInv'
  <1>1. slot[s].pc = "rescue"
    BY DEF RescueRun
  <1>2. SlotsKept
    BY <1>1, GotoGood DEF RescueRun, FreePcs, SlotPcs, LockedPcs, TypeInv, ActorsOK
  <1>3. run' \in [Runs -> RunType]
    BY <1>1, BusySlot, RowUpdates DEF RescueRun, Status, Terminal
  <1>4. RowsOK' /\ LocksOK' /\ UNCHANGED <<jobs, caller, faults, history>>
    BY DEF RescueRun, TypeInv, RowsOK, LocksOK, redisVars, BillTypes
  <1>. QED  BY <1>2, <1>3, <1>4, TypeKept

LEMMA TypeRescueBill == ASSUME TypeInv, NEW s \in Slots, RescueBill(s) PROVE TypeInv'
  <1>1. slot[s].pc = "rescueBill"
    BY DEF RescueBill
  <1>2. SlotsKept
    BY <1>1, GotoGood DEF RescueBill, FreePcs, SlotPcs, LockedPcs, TypeInv, ActorsOK
  <1>3. usage' \in [Runs -> SUBSET BillTypes]
    BY BilledForType DEF RescueBill, BillTypes
  <1>4. /\ run' \in [Runs -> RunType] /\ RowsOK' /\ LocksOK'
        /\ UNCHANGED <<jobs, caller, faults, history>>
    BY <1>3 DEF RescueBill, TypeInv, RowsOK, LocksOK, redisVars
  <1>. QED  BY <1>2, <1>4, TypeKept

LEMMA TypeUnlockRun == ASSUME TypeInv, NEW s \in Slots, UnlockRun(s) PROVE TypeInv'
  <1>1. slot[s].pc \in {"audit", "rescueAudit", "unlockRun"}
    BY DEF UnlockRun
  <1>2. slot[s].threw \in BOOLEAN
    BY <1>1, BusySlot DEF GoodSlots, SlotType
  <1>3. SlotsKept
    BY <1>1, <1>2, ReturnGood DEF UnlockRun, TypeInv, ActorsOK
  <1>4. /\ run' \in [Runs -> RunType] /\ RowsOK' /\ LocksOK'
        /\ UNCHANGED <<jobs, caller, faults, history>>
    BY DEF UnlockRun, TypeInv, RowsOK, LocksOK, redisVars
  <1>. QED  BY <1>3, <1>4, TypeKept

LEMMA TypeRequeue == ASSUME TypeInv, NEW s \in Slots, Requeue(s) PROVE TypeInv'
  <1>1. slot[s].pc = "requeue"
    BY DEF Requeue
  <1>2. SlotsKept
    BY <1>1, GotoGood DEF Requeue, FreePcs, SlotPcs, LockedPcs, TypeInv, ActorsOK
  <1>3. run' \in [Runs -> RunType]
    BY <1>1, BusySlot, RowUpdates DEF Requeue, Status, Active, TypeInv
  <1>4. RowsOK' /\ LocksOK' /\ UNCHANGED <<jobs, caller, faults, history>>
    BY DEF Requeue, TypeInv, RowsOK, LocksOK, redisVars
  <1>. QED  BY <1>2, <1>3, <1>4, TypeKept

LEMMA TypeEndJob == ASSUME TypeInv, NEW s \in Slots, EndJob(s) PROVE TypeInv'
  <1>1. slot[s].pc = "end"
    BY DEF EndJob
  <1>2. /\ slot' = [slot EXCEPT ![s] = IdleSlot]
        /\ \/ jobs' = FailedAttempt(slot[s].job)
           \/ jobs' = [jobs EXCEPT ![slot[s].job] = NoJob]
    BY DEF EndJob
  <1>3. jobs' \in [JobIds -> GoodJobs] /\ SlotsKept /\ JobsHeld'
    BY <1>1, <1>2, JobReleased
  <1>4. /\ run' \in [Runs -> RunType] /\ RowsOK' /\ LocksOK'
        /\ UNCHANGED <<caller, faults, history>>
    BY DEF EndJob, TypeInv, RowsOK, LocksOK, dbVars
  <1>. QED  BY <1>3, <1>4 DEF TypeInv, ActorsOK, FaultsOK, SlotsKept

LEMMA TypeThrow == ASSUME TypeInv, NEW s \in Slots, Throw(s) PROVE TypeInv'
  <1>1. slot[s].pc # "idle"
    BY DEF Throw
  <1>2. run' \in [Runs -> RunType]
    BY StartedType DEF Throw, TypeInv
  <1>3. SlotsKept
    <2>1. CASE /\ slot[s].pc \in {"steps", "park", "finish", "bill", "audit"}
               /\ slot' = [slot EXCEPT ![s] =
                             [@ EXCEPT !.pc = "rescue", !.at = 0, !.result = "none"]]
      <3>. DEFINE new == [slot[s] EXCEPT !.pc = "rescue", !.at = 0, !.result = "none"]
      <3>1. new \in GoodSlots
        <4>1. slot[s] \in GoodSlots /\ slot[s].run \in Runs
          BY <1>1, BusySlot
        <4>2. 0 \in 0 .. MaxSteps /\ "rescue" \in SlotPcs
          BY ConstantsAssumption DEF SlotPcs, LockedPcs
        <4>3. new \in SlotType
          BY <4>1, <4>2 DEF GoodSlots, SlotType
        <4>4. new.pc = "rescue" /\ new.run = slot[s].run
          BY <4>1 DEF GoodSlots, SlotType
        <4>. QED  BY <4>1, <4>3, <4>4 DEF GoodSlots
      <3>2. new.job = slot[s].job
        BY <1>1, BusySlot DEF GoodSlots, SlotType
      <3>3. slot' = [slot EXCEPT ![s] = new]
        BY <2>1
      <3>. HIDE DEF new
      <3>. QED  BY <3>1, <3>2, <3>3, SlotsKeptByUpdate DEF TypeInv, ActorsOK
    <2>2. CASE Goto(s, "rescueAudit")
      BY <1>1, <2>2, GotoGood DEF FreePcs, SlotPcs, LockedPcs, TypeInv, ActorsOK
    <2>3. CASE LeaveTo(s, "unlockRun", TRUE)
      BY <1>1, <2>3, LeaveGood DEF FreePcs, SlotPcs, LockedPcs, TypeInv, ActorsOK
    <2>4. CASE Return(s, TRUE)
      BY <1>1, <2>4, ReturnGood DEF TypeInv, ActorsOK
    <2>. QED  BY <2>1, <2>2, <2>3, <2>4 DEF Throw
  <1>4. RowsOK' /\ LocksOK' /\ FaultsOK'
    <2>1. RowsOK' /\ LocksOK'
      BY DEF Throw, TypeInv, RowsOK, LocksOK, redisVars
    <2>2. faults' \in 0 .. MaxFaults
      BY ConstantsAssumption DEF Throw, TypeInv, FaultsOK
    <2>3. history' = history \/ history' = [history EXCEPT !.abandoned = TRUE]
      BY DEF Throw
    <2>4. history' \in [abandoned : BOOLEAN, lapsed : SUBSET Workflows]
      BY <2>3 DEF TypeInv, FaultsOK
    <2>. QED  BY <2>1, <2>2, <2>4 DEF FaultsOK
  <1>5. JobsHeld'
    BY <1>3, JobsHeldKept DEF Throw, TypeInv, redisVars
  <1>. QED  BY <1>2, <1>3, <1>4, <1>5 DEF Throw, TypeInv, ActorsOK, SlotsKept, redisVars

LEMMA TypeProcessorThrows ==
  ASSUME TypeInv, NEW s \in Slots, ProcessorThrows(s)
  PROVE  TypeInv'
  <1>1. slot[s].pc # "idle"
    BY DEF ProcessorThrows
  <1>2. /\ run' \in [Runs -> RunType] /\ RowsOK' /\ LocksOK'
        /\ UNCHANGED <<caller, history>>
    BY DEF ProcessorThrows, TypeInv, RowsOK, LocksOK, dbVars
  <1>3. faults' \in 0 .. MaxFaults
    BY ConstantsAssumption DEF ProcessorThrows, TypeInv, FaultsOK
  <1>4. CASE SlotsKept /\ jobs' = jobs
    BY <1>2, <1>3, <1>4, JobsHeldKept DEF TypeInv, ActorsOK, FaultsOK, SlotsKept
  <1>5. CASE jobs' = FailedAttempt(slot[s].job) /\ slot' = [slot EXCEPT ![s] = IdleSlot]
    <2>1. jobs' \in [JobIds -> GoodJobs] /\ SlotsKept /\ JobsHeld'
      BY <1>1, <1>5, JobReleased
    <2>. QED  BY <1>2, <1>3, <2>1 DEF TypeInv, ActorsOK, FaultsOK, SlotsKept
  <1>6. CASE slot[s].pc = "requeue" /\ Goto(s, "end") /\ jobs' = jobs
    <2>1. SlotsKept
      BY <1>1, <1>6, GotoGood DEF FreePcs, SlotPcs, TypeInv, ActorsOK
    <2>. QED  BY <1>4, <1>6, <2>1
  <1>7. CASE /\ slot' = [slot EXCEPT ![s].pc = "lockRun", ![s].serial = FALSE]
             /\ jobs' = jobs
    <2>. DEFINE new == [slot[s] EXCEPT !.pc = "lockRun", !.serial = FALSE]
    <2>1. slot[s] \in GoodSlots /\ slot[s].run \in Runs
      BY <1>1, BusySlot
    <2>2. new \in GoodSlots /\ new.job = slot[s].job
      BY <2>1 DEF GoodSlots, SlotType, SlotPcs
    <2>3. slot' = [slot EXCEPT ![s] = new]
      BY <1>7
    <2>. HIDE DEF new
    <2>4. SlotsKept
      BY <2>2, <2>3, SlotsKeptByUpdate DEF TypeInv, ActorsOK
    <2>. QED  BY <1>4, <1>7, <2>4
  <1>. QED  BY <1>5, <1>6, <1>7 DEF ProcessorThrows

LEMMA TypeSlotStep == ASSUME TypeInv, NEW s \in Slots, SlotStep(s) PROVE TypeInv'
  BY TypeLockWorkflow, TypeLockRun, TypeLoadRun, TypeStartRun, TypeWalkStep, TypeParkRun,
     TypeFinishRun, TypeBillRun, TypeRescueRun, TypeRescueBill, TypeUnlockRun, TypeRequeue,
     TypeEndJob
  DEF SlotStep

----------------------------------------------------------------------------
(* Requests and the ticker leave the slots alone. *)

LEMMA TypeKeptByCaller ==
  ASSUME TypeInv, run' \in [Runs -> RunType], RowsOK', LocksOK',
         caller' \in [Callers -> GoodCallers], UNCHANGED <<jobs, slot, faults, history>>
  PROVE  TypeInv'
  BY DEF TypeInv, ActorsOK, FaultsOK, JobsHeld

(* The records a caller goes on with. *)
LEMMA CallerMoves ==
  ASSUME TypeInv, NEW c \in Callers
  PROVE  /\ [caller EXCEPT ![c] = Finished(c)] \in [Callers -> GoodCallers]
         /\ caller[c].pc \notin {"idle", "done"} =>
              \A pc \in CallerPcs \ {"decide"} :
                [caller EXCEPT ![c].pc = pc] \in [Callers -> GoodCallers]
         /\ \A pc \in CallerPcs \ {"decide"}, r \in Runs :
              [caller EXCEPT ![c] = [IdleCaller EXCEPT !.pc = pc, !.run = r]]
                \in [Callers -> GoodCallers]
  <1>1. caller[c] \in GoodCallers /\ IdleCaller \in GoodCallers /\ Finished(c) \in GoodCallers
    BY IdleCallerGood DEF TypeInv, ActorsOK
  <1>2. ASSUME caller[c].pc \notin {"idle", "done"}, NEW pc \in CallerPcs \ {"decide"}
        PROVE  [caller[c] EXCEPT !.pc = pc] \in GoodCallers
    BY <1>1, <1>2 DEF GoodCallers, CallerType
  <1>3. ASSUME NEW pc \in CallerPcs \ {"decide"}, NEW r \in Runs
        PROVE  [IdleCaller EXCEPT !.pc = pc, !.run = r] \in GoodCallers
    BY <1>1 DEF GoodCallers, CallerType
  <1>. QED  BY <1>1, <1>2, <1>3 DEF TypeInv, ActorsOK

LEMMA BusyCaller ==
  ASSUME TypeInv, NEW c \in Callers, caller[c].pc \notin {"idle", "done"}
  PROVE  /\ caller[c].run \in Runs
         /\ caller[c].job \in JobIds \cup {None}
         /\ caller[c].verdict \in {"none", "approved", "rejected"}
         /\ caller[c].pc = "decide" => caller[c].verdict \in {"approved", "rejected"}
  BY DEF TypeInv, ActorsOK, GoodCallers, CallerType

LEMMA BeginGood ==
  ASSUME TypeInv, NEW c, NEW pc \in CallerPcs, NEW r \in Runs, NEW job \in JobIds \cup {None},
         NEW verdict \in {"none", "approved", "rejected"}, pc = "decide" => verdict # "none",
         Begin(c, pc, r, job, verdict)
  PROVE  c \in Callers /\ caller' \in [Callers -> GoodCallers]
  <1>1. [pc |-> pc, run |-> r, job |-> job, verdict |-> verdict] \in GoodCallers
    BY DEF GoodCallers, CallerType
  <1>. QED  BY <1>1 DEF Begin, TypeInv, ActorsOK, Callers

LEMMA TypeAddJob == ASSUME TypeInv, NEW c \in Callers, AddJob(c) PROVE TypeInv'
  <1>1. PICK j \in FreshJobs :
          /\ jobs' = [jobs EXCEPT ![j] = [state |-> "waiting", run |-> caller[c].run,
                                          tries |-> 0, stalled |-> FALSE]]
          /\ caller' = [caller EXCEPT ![c].pc = "record", ![c].job = j]
    BY DEF AddJob
  <1>2. caller[c].pc = "add" /\ caller[c].run \in Runs /\ j \in JobIds
    BY BusyCaller DEF AddJob, FreshJobs
  <1>3. [state |-> "waiting", run |-> caller[c].run, tries |-> 0, stalled |-> FALSE] \in GoodJobs
    BY <1>2 DEF GoodJobs, JobType
  <1>4. [caller[c] EXCEPT !.pc = "record", !.job = j] \in GoodCallers
    BY <1>2 DEF TypeInv, ActorsOK, GoodCallers, CallerType, CallerPcs
  <1>5. ActorsOK'
    BY <1>1, <1>3, <1>4 DEF AddJob, TypeInv, ActorsOK
  <1>6. JobsHeld'
    <2>1. jobs[j].state = "gone" /\ \A k \in JobIds \ {j} : jobs'[k] = jobs[k]
      BY <1>1 DEF FreshJobs, TypeInv, ActorsOK
    <2>2. \A t \in Slots : slot[t].job \in JobIds \cup {None}
      BY DEF TypeInv, ActorsOK, GoodSlots, SlotType
    <2>3. slot' = slot
      BY DEF AddJob
    <2>. QED  BY <2>1, <2>2, <2>3 DEF TypeInv, JobsHeld
  <1>. QED  BY <1>5, <1>6 DEF AddJob, TypeInv, RowsOK, LocksOK, FaultsOK, dbVars

LEMMA TypeRecordJob == ASSUME TypeInv, NEW c \in Callers, RecordJob(c) PROVE TypeInv'
  <1>1. caller[c].job \in JobIds \cup {None}
    BY BusyCaller DEF RecordJob
  <1>2. run' \in [Runs -> RunType]
    BY <1>1 DEF RecordJob, TypeInv, RunType
  <1>3. caller' \in [Callers -> GoodCallers]
    BY CallerMoves DEF RecordJob
  <1>. QED  BY <1>2, <1>3, TypeKeptByCaller DEF RecordJob, TypeInv, RowsOK, LocksOK, redisVars

LEMMA TypeSubmit == ASSUME TypeInv, NEW c, NEW r \in Runs, Submit(c, r) PROVE TypeInv'
  <1>1. Created(r) \in RunType
    BY NoRunType DEF Created, RunType, Status, Active
  <1>2. caller' \in [Callers -> GoodCallers]
    BY BeginGood DEF Submit, CallerPcs
  <1>3. run' \in [Runs -> RunType]
    BY <1>1 DEF Submit, TypeInv
  <1>. QED  BY <1>2, <1>3, TypeKeptByCaller DEF Submit, TypeInv, RowsOK, LocksOK, redisVars

LEMMA TypeSubmitSync ==
  ASSUME TypeInv, NEW s \in Slots, NEW r \in Runs, SubmitSync(s, r) PROVE TypeInv'
  <1>. DEFINE new == [IdleSlot EXCEPT !.pc = "lockRun", !.run = r]
  <1>1. Created(r) \in RunType
    BY NoRunType DEF Created, RunType, Status, Active
  <1>2. run' \in [Runs -> RunType]
    BY <1>1 DEF SubmitSync, TypeInv
  <1>3. new \in GoodSlots
    BY IdleSlotGood DEF GoodSlots, SlotType, SlotPcs
  <1>4. new.job = None
    BY DEF IdleSlot
  <1>5. SlotsKept
    BY <1>3, <1>4, SlotsKeptByUpdate DEF SubmitSync, TypeInv, ActorsOK
  <1>. QED  BY <1>2, <1>5, TypeKept DEF SubmitSync, TypeInv, RowsOK, LocksOK, redisVars

LEMMA CancelRowTypes ==
  ASSUME TypeInv, NEW r, CancelRow(r)
  PROVE  /\ run' \in [Runs -> RunType]
         /\ events' \in [Runs -> SUBSET BillTypes]
         /\ usage' \in [Runs -> SUBSET BillTypes]
         /\ runLock' \in [Runs -> Procs \cup {None}]
  <1>1. "run.canceled" \in BillTypes /\ "canceled" \in Status \ {"absent"}
    BY DEF BillTypes, Status, Terminal
  <1>2. run' \in [Runs -> RunType]
    BY <1>1 DEF CancelRow, TypeInv, RunType
  <1>. QED  BY <1>1, <1>2, BilledForType DEF CancelRow, TypeInv, RowsOK, LocksOK

LEMMA TypeCancel == ASSUME TypeInv, NEW c, NEW r \in Runs, Cancel(c, r) PROVE TypeInv'
  <1>1. run[r].job \in JobIds \cup {None}
    BY DEF TypeInv, RunType
  <1>2. caller' \in [Callers -> GoodCallers]
    BY <1>1, BeginGood DEF Cancel, CallerPcs
  <1>3. task' \in [Runs -> TaskStatus]
    BY DEF Cancel, TypeInv, RowsOK, TaskStatus
  <1>. QED  BY <1>2, <1>3, CancelRowTypes, TypeKeptByCaller
            DEF Cancel, TypeInv, RowsOK, LocksOK, redisVars

LEMMA TypeTidy == ASSUME TypeInv, NEW c \in Callers, TidyCanceled(c) PROVE TypeInv'
  <1>. DEFINE j == caller[c].job
  <1>1. \/ jobs' = jobs
        \/ jobs[j].state = "waiting" /\ j # None /\ jobs' = [jobs EXCEPT ![j] = NoJob]
    BY DEF TidyCanceled
  <1>2. j \in JobIds \cup {None}
    BY BusyCaller DEF TidyCanceled
  <1>3. caller' \in [Callers -> GoodCallers]
    BY CallerMoves DEF TidyCanceled, Answer
  <1>. HIDE DEF j
  <1>4. jobs' \in [JobIds -> GoodJobs]
    BY <1>1, NoJobGood DEF TypeInv, ActorsOK
  <1>5. JobsHeld'
    <2>1. \A k \in JobIds : jobs'[k] = jobs[k] \/ jobs[k].state = "waiting"
      BY <1>1, <1>2 DEF TypeInv, ActorsOK
    <2>2. \A t \in Slots : slot[t].job \in JobIds \cup {None}
      BY DEF TypeInv, ActorsOK, GoodSlots, SlotType
    <2>3. slot' = slot
      BY DEF TidyCanceled
    <2>. QED  BY <2>1, <2>2, <2>3 DEF TypeInv, JobsHeld
  <1>. QED  BY <1>3, <1>4, <1>5
            DEF TidyCanceled, TypeInv, RowsOK, LocksOK, ActorsOK, FaultsOK, dbVars

LEMMA TypeDecide ==
  ASSUME TypeInv, NEW c, NEW r \in Runs, NEW v \in {"approved", "rejected"}, Decide(c, r, v)
  PROVE  TypeInv'
  <1>1. caller' \in [Callers -> GoodCallers]
    BY BeginGood DEF Decide, CallerPcs
  <1>. QED  BY <1>1, TypeKeptByCaller DEF Decide, TypeInv, RowsOK, LocksOK, dbVars, redisVars

LEMMA TypeDecideTask == ASSUME TypeInv, NEW c \in Callers, DecideTask(c) PROVE TypeInv'
  <1>1. caller[c].verdict \in {"approved", "rejected"}
    BY BusyCaller DEF DecideTask
  <1>2. task' \in [Runs -> TaskStatus]
    BY <1>1 DEF DecideTask, TypeInv, RowsOK, TaskStatus
  <1>3. caller' \in [Callers -> GoodCallers]
    BY CallerMoves DEF DecideTask, Proceed, CallerPcs
  <1>. QED  BY <1>2, <1>3, TypeKeptByCaller DEF DecideTask, TypeInv, RowsOK, LocksOK, redisVars

LEMMA RequeuedTypes ==
  ASSUME TypeInv, NEW c \in Callers, NEW r, caller[c].pc \notin {"idle", "done"}, Requeued(c, r)
  PROVE  /\ run' \in [Runs -> RunType]
         /\ caller' \in [Callers -> GoodCallers]
         /\ UNCHANGED <<events, usage, runLock>>
  <1>1. run' \in [Runs -> RunType]
    BY DEF Requeued, TypeInv, RunType, Status, Active
  <1>2. caller' \in [Callers -> GoodCallers]
    BY CallerMoves DEF Requeued, Proceed, CallerPcs
  <1>. QED  BY <1>1, <1>2 DEF Requeued

LEMMA TypeMoveRun == ASSUME TypeInv, NEW c \in Callers, MoveRun(c) PROVE TypeInv'
  <1>. DEFINE r == caller[c].run
  <1>1. caller[c].pc = "move"
    BY DEF MoveRun
  <1>2. CASE CancelRow(r) /\ Answer(c)
    <2>1. caller' \in [Callers -> GoodCallers]
      BY <1>2, CallerMoves DEF Answer
    <2>. QED  BY <1>2, <2>1, CancelRowTypes, TypeKeptByCaller
              DEF MoveRun, TypeInv, RowsOK, LocksOK, redisVars
  <1>3. CASE Requeued(c, r)
    BY <1>1, <1>3, RequeuedTypes, TypeKeptByCaller
    DEF MoveRun, TypeInv, RowsOK, LocksOK, redisVars
  <1>. QED  BY <1>2, <1>3 DEF MoveRun

LEMMA TypeApproveAll == ASSUME TypeInv, NEW c, NEW r \in Runs, ApproveAll(c, r) PROVE TypeInv'
  <1>. DEFINE v == IF run[r].status = "paused" THEN "approved" ELSE "none"
  <1>1. v \in {"none", "approved", "rejected"} /\ Begin(c, "approve", r, None, v)
    BY DEF ApproveAll
  <1>. HIDE DEF v
  <1>2. caller' \in [Callers -> GoodCallers]
    BY <1>1, BeginGood DEF CallerPcs
  <1>. QED  BY <1>2, TypeKeptByCaller DEF ApproveAll, TypeInv, RowsOK, LocksOK, dbVars, redisVars

LEMMA TypeApproveTask == ASSUME TypeInv, NEW c \in Callers, ApproveTask(c) PROVE TypeInv'
  <1>1. task' \in [Runs -> TaskStatus]
    BY DEF ApproveTask, TypeInv, RowsOK, TaskStatus
  <1>2. caller' \in [Callers -> GoodCallers]
    <2>1. Proceed(c, "moveAll") \/ Answer(c)
      BY DEF ApproveTask
    <2>2. caller[c].pc \notin {"idle", "done"} /\ "moveAll" \in CallerPcs \ {"decide"}
      BY DEF ApproveTask, CallerPcs
    <2>3. CASE Proceed(c, "moveAll")
      BY <2>2, <2>3, CallerMoves DEF Proceed
    <2>4. CASE Answer(c)
      BY <2>4, CallerMoves DEF Answer
    <2>. QED  BY <2>1, <2>3, <2>4
  <1>. QED  BY <1>1, <1>2, TypeKeptByCaller DEF ApproveTask, TypeInv, RowsOK, LocksOK, redisVars

LEMMA TypeMoveAll == ASSUME TypeInv, NEW c \in Callers, MoveAll(c) PROVE TypeInv'
  BY RequeuedTypes, TypeKeptByCaller DEF MoveAll, TypeInv, RowsOK, LocksOK, redisVars

----------------------------------------------------------------------------

LEMMA TickToGood ==
  ASSUME TypeInv, NEW pc \in CallerPcs \ {"decide"}, NEW r \in Runs, TickTo(pc, r)
  PROVE  caller' \in [Callers -> GoodCallers]
  BY CallerMoves DEF TickTo, Callers

LEMMA TickToIdle ==
  ASSUME TypeInv, TickTo("idle", None)
  PROVE  caller' \in [Callers -> GoodCallers]
  <1>1. [IdleCaller EXCEPT !.pc = "idle", !.run = None] \in GoodCallers
    BY DEF IdleCaller, GoodCallers, CallerType, CallerPcs
  <1>. QED  BY <1>1 DEF TickTo, Callers, TypeInv, ActorsOK

LEMMA TypeBeginSweep == ASSUME TypeInv, NEW r \in Runs, BeginSweep(r) PROVE TypeInv'
  <1>1. CASE LeaseResume(r)
    BY <1>1, TickToGood, TypeKeptByCaller
    DEF LeaseResume, CallerPcs, TypeInv, RowsOK, LocksOK, dbVars, redisVars
  <1>2. CASE TimeOutTask(r)
    <2>1. task' \in [Runs -> TaskStatus]
      BY <1>2 DEF TimeOutTask, TypeInv, RowsOK, TaskStatus
    <2>. QED  BY <1>2, <2>1, TickToGood, TypeKeptByCaller
              DEF TimeOutTask, CallerPcs, TypeInv, RowsOK, LocksOK, redisVars
  <1>3. CASE SweepStale(r)
    <2>1. run' \in [Runs -> RunType]
      <3>1. /\ run[r] \in RunType /\ run[r].recovery + 1 \in Nat
        BY DEF TypeInv, RunType
      <3>2. [run[r] EXCEPT !.status = "queued", !.job = None, !.recovery = @ + 1] \in RunType
        BY <3>1 DEF RunType, Status, Active
      <3>. QED  BY <1>3, <3>2 DEF SweepStale, TypeInv
    <2>2. faults' \in 0 .. MaxFaults
      BY <1>3, ConstantsAssumption DEF SweepStale, TypeInv, FaultsOK
    <2>3. caller' \in [Callers -> GoodCallers]
      <3>. DEFINE pc == IF run[r].recovery + 1 >= RecoveryLimit THEN "exhaust" ELSE "add"
      <3>1. pc \in CallerPcs \ {"decide"} /\ TickTo(pc, r)
        BY <1>3 DEF SweepStale, CallerPcs
      <3>. HIDE DEF pc
      <3>. QED  BY <3>1, TickToGood
    <2>. QED  BY <1>3, <2>1, <2>2, <2>3
              DEF SweepStale, TypeInv, RowsOK, LocksOK, ActorsOK, FaultsOK, JobsHeld, redisVars
  <1>4. CASE SweepStuck(r)
    BY <1>4, TickToGood, TypeKeptByCaller
    DEF SweepStuck, CallerPcs, TypeInv, RowsOK, LocksOK, dbVars, redisVars
  <1>5. CASE QueueTimeout(r)
    <2>1. run' \in [Runs -> RunType]
      BY <1>5, RowUpdates DEF QueueTimeout, Status, Terminal, TypeInv, RunType
    <2>. QED  BY <1>5, <2>1
              DEF QueueTimeout, TypeInv, RowsOK, LocksOK, ActorsOK, FaultsOK, JobsHeld,
                  redisVars, BillTypes
  <1>. QED  BY <1>1, <1>2, <1>3, <1>4, <1>5 DEF BeginSweep

LEMMA TypeTickerStep == ASSUME TypeInv, TickerStep PROVE TypeInv'
  <1>. DEFINE r == caller[Ticker].run
  <1>1. Ticker \in Callers
    BY DEF Callers
  <1>2. CASE ResumeRun
    <2>1. r \in Runs
      BY <1>1, <1>2, BusyCaller DEF ResumeRun
    <2>2. run' \in [Runs -> RunType]
      BY <1>2, <2>1 DEF ResumeRun, TypeInv, RunType, Status, Active
    <2>. QED  BY <1>2, <2>1, <2>2, TickToGood, TypeKeptByCaller
              DEF ResumeRun, CallerPcs, TypeInv, RowsOK, LocksOK, redisVars
  <1>3. CASE TimeOutRun
    <2>1. r \in Runs
      BY <1>1, <1>3, BusyCaller DEF TimeOutRun
    <2>2. caller' \in [Callers -> GoodCallers]
      BY <1>3, <2>1, TickToGood, TickToIdle DEF TimeOutRun, CallerPcs
    <2>3. run' \in [Runs -> RunType]
      BY <1>3, <2>1 DEF TimeOutRun, TypeInv, RunType, Status, Active, Terminal
    <2>4. events' \in [Runs -> SUBSET BillTypes]
      BY <1>3 DEF TimeOutRun, TypeInv, RowsOK, BillTypes
    <2>. QED  BY <1>3, <2>2, <2>3, <2>4, TypeKeptByCaller
              DEF TimeOutRun, TypeInv, RowsOK, LocksOK, redisVars
  <1>4. CASE BillFailure
    <2>1. usage' \in [Runs -> SUBSET BillTypes]
      BY <1>4, BilledForType DEF BillFailure, BillTypes
    <2>2. caller' \in [Callers -> GoodCallers]
      BY <1>4, TickToIdle DEF BillFailure
    <2>. QED  BY <1>4, <2>1, <2>2, TypeKeptByCaller
              DEF BillFailure, TypeInv, RowsOK, LocksOK, redisVars
  <1>5. CASE Exhaust
    <2>1. r \in Runs
      BY <1>1, <1>5, BusyCaller DEF Exhaust
    <2>2. run' \in [Runs -> RunType]
      BY <1>5, <2>1 DEF Exhaust, TypeInv, RunType, Status, Terminal
    <2>3. caller' \in [Callers -> GoodCallers]
      BY <1>5, <2>1, TickToGood DEF Exhaust, CallerPcs
    <2>. QED  BY <1>5, <2>2, <2>3, TypeKeptByCaller
              DEF Exhaust, TypeInv, RowsOK, LocksOK, redisVars, BillTypes
  <1>6. CASE AddJob(Ticker) \/ RecordJob(Ticker)
    BY <1>1, <1>6, TypeAddJob, TypeRecordJob
  <1>. QED  BY <1>2, <1>3, <1>4, <1>5, <1>6 DEF TickerStep
----------------------------------------------------------------------------
(* The environment. *)

LEMMA FaultCounted ==
  ASSUME TypeInv, faults < MaxFaults
  PROVE  faults + 1 \in 0 .. MaxFaults
  BY ConstantsAssumption DEF TypeInv, FaultsOK

LEMMA TypeStalledJob == ASSUME TypeInv, NEW j \in JobIds, StalledJob(j) PROVE TypeInv'
  <1>. DEFINE again == [jobs[j] EXCEPT !.state = "waiting", !.stalled = TRUE]
  <1>1. again \in GoodJobs
    <2>1. jobs[j] \in JobType /\ jobs[j].run \in Runs
      BY DEF StalledJob, TypeInv, ActorsOK, GoodJobs
    <2>. QED  BY <2>1 DEF GoodJobs, JobType
  <1>2. jobs' \in [JobIds -> GoodJobs] /\ \A k \in JobIds \ {j} : jobs'[k] = jobs[k]
    BY <1>1, NoJobGood DEF StalledJob, TypeInv, ActorsOK
  <1>3. JobsHeld'
    <2>1. \A t \in Slots : slot[t].job \in JobIds \cup {None} /\ slot[t].job # j
      BY DEF StalledJob, TypeInv, ActorsOK, GoodSlots, SlotType
    <2>2. slot' = slot
      BY DEF StalledJob
    <2>. QED  BY <1>2, <2>1, <2>2 DEF TypeInv, JobsHeld
  <1>. QED  BY <1>2, <1>3 DEF StalledJob, TypeInv, RowsOK, LocksOK, ActorsOK, FaultsOK, dbVars

LEMMA TypeCrash == ASSUME TypeInv, NEW p \in Procs, Crash(p) PROVE TypeInv'
  <1>1. slot' \in [Slots -> GoodSlots]
    BY IdleSlotGood DEF Crash, TypeInv, ActorsOK
  <1>2. caller' \in [Callers -> GoodCallers]
    BY IdleCallerGood DEF Crash, TypeInv, ActorsOK
  <1>3. FaultsOK'
    <2>1. faults' \in 0 .. MaxFaults
      BY FaultCounted DEF Crash
    <2>. QED  BY <2>1 DEF Crash, TypeInv, FaultsOK
  <1>4. JobsHeld'
    <2>1. IdleSlot.job = None /\ jobs' = jobs
      BY DEF IdleSlot, Crash, redisVars
    <2>2. \A t \in Slots : slot'[t].job \in {slot[t].job, None}
      BY <2>1 DEF Crash
    <2>. QED  BY <2>1, <2>2 DEF TypeInv, JobsHeld
  <1>. QED  BY <1>1, <1>2, <1>3, <1>4
            DEF Crash, TypeInv, RowsOK, LocksOK, ActorsOK, dbVars, redisVars

LEMMA TypeEnvironment == ASSUME TypeInv, Environment PROVE TypeInv'
  <1>1. ASSUME NEW r \in Runs, DelayElapses(r) \/ ApprovalExpires(r) PROVE TypeInv'
    BY <1>1 DEF DelayElapses, ApprovalExpires, TypeInv, RowsOK, LocksOK, ActorsOK, FaultsOK,
                JobsHeld, redisVars
  <1>2. ASSUME NEW w \in Workflows, WorkflowLockLapses(w) PROVE TypeInv'
    BY <1>2 DEF WorkflowLockLapses, TypeInv, RowsOK, LocksOK, ActorsOK, FaultsOK, JobsHeld, dbVars
  <1>3. ASSUME NEW c \in Callers, CallerFails(c) PROVE TypeInv'
    <2>1. caller' \in [Callers -> GoodCallers]
      BY <1>3, CallerMoves DEF CallerFails
    <2>2. faults' \in 0 .. MaxFaults
      BY <1>3, FaultCounted DEF CallerFails
    <2>. QED  BY <1>3, <2>1, <2>2
              DEF CallerFails, TypeInv, RowsOK, LocksOK, ActorsOK, FaultsOK, JobsHeld,
                  dbVars, redisVars
  <1>. QED  BY <1>1, <1>2, <1>3, TypeStalledJob, TypeCrash, TypeThrow,
        TypeProcessorThrows
    DEF Environment

LEMMA TypeRequests ==
  ASSUME TypeInv, NEW c \in Requests, BeginRequest(c) \/ RequestStep(c)
  PROVE  TypeInv'
  <1>1. c \in Callers
    BY DEF Callers
  <1>. QED  BY <1>1, TypeSubmit, TypeCancel, TypeApproveAll, TypeDecide, TypeTidy, TypeDecideTask,
               TypeMoveRun, TypeApproveTask, TypeMoveAll, TypeAddJob, TypeRecordJob
            DEF BeginRequest, RequestStep

LEMMA TypeStep == TypeInv /\ [Next]_vars => TypeInv'
  <1>. SUFFICES ASSUME TypeInv, [Next]_vars PROVE TypeInv'
    OBVIOUS
  <1>1. CASE UNCHANGED vars
    BY <1>1 DEF vars, dbVars, redisVars, TypeInv, RowsOK, LocksOK, ActorsOK, FaultsOK, JobsHeld
  <1>2. CASE Next
    BY <1>2, TypeFetchJob, TypeSlotStep, TypeSubmitSync, TypeRequests, TypeBeginSweep,
       TypeTickerStep, TypeEnvironment
    DEF Next
  <1>. QED  BY <1>1, <1>2

(* Whatever the numbers of runs, slots, requests and processes, every row,   *)
(* lock, job and program counter keeps to its type.                         *)
THEOREM TypeCorrect == Spec => []TypeOK
  <1>1. Init => TypeInv
    BY TypeInit
  <1>2. TypeInv /\ [Next]_vars => TypeInv'
    BY TypeStep
  <1>3. TypeInv => TypeOK
    BY TypeInvImpliesTypeOK
  <1>. QED  BY <1>1, <1>2, <1>3, PTL DEF Spec
----------------------------------------------------------------------------
(* OneExecutor needs the lock: an execution of a run that was not canceled   *)
(* finds the run_locks row taken for as long as it is inside, so that no     *)
(* second LockRun gets past it.                                             *)

Exclusive ==
  \A s \in Slots, r \in Runs :
    Executes(s, r) /\ ~WasCanceled(r) =>
      /\ runLock[r] # None
      /\ \A t \in Slots : Executes(t, r) => t = s

LEMMA ExclusiveImpliesOneExecutor == Exclusive => OneExecutor
  BY DEF Exclusive, OneExecutor

(* No slot enters the locked section, or changes runs inside it. *)
NoEntry ==
  \A t \in Slots : slot'[t].pc \in LockedPcs =>
    slot[t].pc \in LockedPcs /\ slot'[t].run = slot[t].run

CancelsRemembered == \A r \in Runs : WasCanceled(r) => WasCanceled(r)'

LEMMA ExclusiveKept ==
  ASSUME Exclusive, NoEntry, CancelsRemembered,
         \A r \in Runs : runLock'[r] = runLock[r] \/ WasCanceled(r)'
  PROVE  Exclusive'
  BY DEF Exclusive, Executes, NoEntry, CancelsRemembered

LEMMA SlotsAlone == ASSUME UNCHANGED slot PROVE NoEntry
  BY DEF NoEntry

LEMMA NoEntryByUpdate ==
  ASSUME TypeInv, NEW s \in Slots, NEW x, slot' = [slot EXCEPT ![s] = x],
         x.pc \in LockedPcs => slot[s].pc \in LockedPcs /\ x.run = slot[s].run
  PROVE  NoEntry
  BY DEF NoEntry, TypeInv, ActorsOK

LEMMA NoEntryByReturn ==
  ASSUME TypeInv, NEW s \in Slots, NEW threw, Return(s, threw)
  PROVE  NoEntry
  <1>1. IdleSlot.pc \notin LockedPcs
    BY DEF IdleSlot, LockedPcs
  <1>2. CASE slot' = [slot EXCEPT ![s] = IdleSlot]
    BY <1>1, <1>2, NoEntryByUpdate
  <1>3. CASE LeaveTo(s, IF threw THEN "requeue" ELSE "end", threw)
    <2>. DEFINE pc == IF threw THEN "requeue" ELSE "end"
                new == [IdleSlot EXCEPT !.pc = pc, !.run = slot[s].run, !.job = slot[s].job,
                                        !.serial = slot[s].serial, !.threw = threw]
    <2>1. new.pc \notin LockedPcs
      BY DEF IdleSlot, LockedPcs
    <2>2. slot' = [slot EXCEPT ![s] = new]
      BY <1>3 DEF LeaveTo
    <2>. HIDE DEF new
    <2>. QED  BY <2>1, <2>2, NoEntryByUpdate
  <1>. QED  BY <1>2, <1>3 DEF Return

LEMMA NoEntryByStep ==
  ASSUME TypeInv, NEW s \in Slots, slot[s].pc \in LockedPcs,
         \/ \E pc : Goto(s, pc)
         \/ \E pc, threw : LeaveTo(s, pc, threw)
         \/ \E threw : Return(s, threw)
         \/ \E st, i : WalkOn(s, st, i)
         \/ \E st : EndsFailed(s, st)
         \/ \E st, result : Parked(s, st, result)
  PROVE  NoEntry
  <1>1. slot[s] \in SlotType
    BY DEF TypeInv, ActorsOK, GoodSlots
  <1>2. ASSUME NEW pc, Goto(s, pc) PROVE NoEntry
    <2>1. [slot[s] EXCEPT !.pc = pc].run = slot[s].run
      BY <1>1 DEF SlotType
    <2>. QED  BY <1>2, <2>1, NoEntryByUpdate DEF Goto
  <1>3. ASSUME NEW pc, NEW threw, LeaveTo(s, pc, threw) PROVE NoEntry
    <2>1. [IdleSlot EXCEPT !.pc = pc, !.run = slot[s].run, !.job = slot[s].job,
                           !.serial = slot[s].serial, !.threw = threw].run = slot[s].run
      BY DEF IdleSlot
    <2>. QED  BY <1>3, <2>1, NoEntryByUpdate DEF LeaveTo
  <1>4. ASSUME NEW threw, Return(s, threw) PROVE NoEntry
    BY <1>4, NoEntryByReturn
  <1>5. ASSUME NEW st, NEW i, WalkOn(s, st, i) PROVE NoEntry
    <2>. DEFINE res == IF st.failed THEN "failed" ELSE "succeeded"
                over == [slot[s] EXCEPT !.pc = "finish", !.at = 0, !.state = st, !.result = res]
                next(k) == [slot[s] EXCEPT !.pc = "steps", !.at = k, !.state = st]
    <2>1. over.run = slot[s].run /\ \A k : next(k).run = slot[s].run
      BY <1>1 DEF SlotType
    <2>2. slot' = [slot EXCEPT ![s] = over] \/ \E k : slot' = [slot EXCEPT ![s] = next(k)]
      BY <1>5 DEF WalkOn
    <2>. HIDE DEF over, next
    <2>. QED  BY <2>1, <2>2, NoEntryByUpdate
  <1>6. ASSUME NEW st, EndsFailed(s, st) PROVE NoEntry
    <2>1. [slot[s] EXCEPT !.pc = "finish", !.at = 0, !.state = st, !.result = "failed"].run
            = slot[s].run
      BY <1>1 DEF SlotType
    <2>. QED  BY <1>6, <2>1, NoEntryByUpdate DEF EndsFailed
  <1>7. ASSUME NEW st, NEW result, Parked(s, st, result) PROVE NoEntry
    <2>1. [slot[s] EXCEPT !.pc = "park", !.at = 0, !.state = st, !.result = result].run
            = slot[s].run
      BY <1>1 DEF SlotType
    <2>. QED  BY <1>7, <2>1, NoEntryByUpdate DEF Parked
  <1>. QED  BY <1>2, <1>3, <1>4, <1>5, <1>6, <1>7

LEMMA ExclusiveLockRun ==
  ASSUME TypeInv, Exclusive, NEW s \in Slots, LockRun(s)
  PROVE  Exclusive'
  <1>. DEFINE r == slot[s].run
  <1>1. /\ slot[s].pc = "lockRun" /\ "lockRun" \notin LockedPcs
        /\ UNCHANGED events
        /\ r \in Runs /\ ProcOf[s] # None
    BY BusySlot, ConstantsAssumption DEF LockRun, LockedPcs
  <1>2. CASE /\ runLock[r] = None
             /\ runLock' = [runLock EXCEPT ![r] = ProcOf[s]]
             /\ Goto(s, "load")
    <2>1. /\ slot'[s].run = r
          /\ \A t \in Slots : t # s => slot'[t] = slot[t]
      BY <1>2 DEF Goto, TypeInv, ActorsOK, GoodSlots, SlotType
    <2>2. runLock'[r] # None /\ \A q \in Runs : q # r => runLock'[q] = runLock[q]
      BY <1>1, <1>2 DEF TypeInv, LocksOK
    <2>3. \A t \in Slots : Executes(t, r) => WasCanceled(r)
      BY <1>1, <1>2 DEF Exclusive
    <2>. QED  BY <1>1, <2>1, <2>2, <2>3 DEF Exclusive, Executes, WasCanceled
  <1>3. CASE Return(s, FALSE) /\ runLock' = runLock
    <2>1. NoEntry
      BY <1>3, NoEntryByReturn
    <2>2. CancelsRemembered
      BY <1>1 DEF CancelsRemembered, WasCanceled
    <2>. QED  BY <1>3, <2>1, <2>2, ExclusiveKept
  <1>. QED  BY <1>2, <1>3 DEF LockRun

LEMMA ExclusiveUnlockRun ==
  ASSUME TypeInv, Exclusive, NEW s \in Slots, UnlockRun(s)
  PROVE  Exclusive'
  <1>. PICK r \in Runs : r = slot[s].run
    BY BusySlot DEF UnlockRun
  <1>1. /\ slot[s].pc \in LockedPcs
        /\ Return(s, slot[s].threw)
        /\ UNCHANGED events
    BY DEF UnlockRun, LockedPcs
  <1>2. NoEntry
    BY <1>1, NoEntryByStep
  <1>3. slot'[s].pc \notin LockedPcs
    <2>. DEFINE pc == IF slot[s].threw THEN "requeue" ELSE "end"
    <2>1. pc \notin LockedPcs /\ IdleSlot.pc \notin LockedPcs
      BY DEF IdleSlot, LockedPcs
    <2>2. slot' = [slot EXCEPT ![s] = IdleSlot] \/ LeaveTo(s, pc, slot[s].threw)
      BY <1>1 DEF Return
    <2>. HIDE DEF pc
    <2>3. CASE slot' = [slot EXCEPT ![s] = IdleSlot]
      BY <2>1, <2>3 DEF TypeInv, ActorsOK
    <2>4. CASE LeaveTo(s, pc, slot[s].threw)
      BY <2>1, <2>4 DEF LeaveTo, IdleSlot, TypeInv, ActorsOK
    <2>. QED  BY <2>2, <2>3, <2>4
  <1>4. \A q \in Runs : q # r => runLock'[q] = runLock[q]
    BY DEF UnlockRun, TypeInv, LocksOK
  <1>5. \A t \in Slots : Executes(t, r)' => t # s /\ Executes(t, r)
    BY <1>2, <1>3 DEF NoEntry, Executes
  <1>6. Executes(s, r)
    BY <1>1 DEF Executes
  <1>7. ASSUME NEW t \in Slots, NEW q \in Runs, Executes(t, q)', ~WasCanceled(q)'
        PROVE  runLock'[q] # None /\ \A u \in Slots : Executes(u, q)' => u = t
    <2>1. Executes(t, q) /\ ~WasCanceled(q) /\ \A u \in Slots : Executes(u, q)' => Executes(u, q)
      BY <1>1, <1>2, <1>7 DEF NoEntry, Executes, WasCanceled
    <2>2. q # r
      BY <1>1, <1>5, <1>6, <1>7, <2>1 DEF Exclusive
    <2>. QED  BY <1>4, <2>1, <2>2 DEF Exclusive
  <1>. QED  BY <1>7 DEF Exclusive

(* The other steps of an execution take no lock and enter no section. *)
LEMMA ExclusiveSlotStep ==
  ASSUME TypeInv, Exclusive, NEW s \in Slots, FetchJob(s) \/ SlotStep(s) \/ Throw(s) \/ ProcessorThrows(s)
  PROVE  Exclusive'
  <1>1. CASE LockRun(s)
    BY <1>1, ExclusiveLockRun
  <1>2. CASE UnlockRun(s)
    BY <1>2, ExclusiveUnlockRun
  <1>3. CASE WalkStep(s)
    <2>1. slot[s].pc \in LockedPcs
      BY <1>3 DEF WalkStep, StopWalk, FailStep, WorkStep, DelayStep, OpenApproval, ResumeApproval,
                  AtStep, LockedPcs
    <2>2. /\ \/ \E st, i : WalkOn(s, st, i)
             \/ \E st : EndsFailed(s, st)
             \/ \E st, result : Parked(s, st, result)
          /\ UNCHANGED <<events, runLock>>
      <3>1. CASE StopWalk(s)
        BY <3>1 DEF StopWalk, dbVars
      <3>2. CASE WorkStep(s) \/ FailStep(s)
        BY <3>2 DEF WorkStep, FailStep, Completed, StepFailed, dbVars
      <3>3. CASE DelayStep(s)
        BY <3>3 DEF DelayStep, Completed
      <3>4. CASE OpenApproval(s)
        <4>. DEFINE st == [slot[s].state EXCEPT !.approvalAt = slot[s].at]
        <4>1. /\ Parked(s, st, "paused") \/ StepFailed(s, st)
              /\ UNCHANGED <<events, runLock>>
          BY <3>4 DEF OpenApproval
        <4>. HIDE DEF st
        <4>. QED  BY <4>1 DEF StepFailed
      <3>5. CASE ResumeApproval(s)
        BY <3>5 DEF ResumeApproval, Completed, StepFailed
      <3>. QED  BY <1>3, <3>1, <3>2, <3>3, <3>4, <3>5 DEF WalkStep
    <2>3. NoEntry
      BY <2>1, <2>2, NoEntryByStep
    <2>. QED  BY <2>2, <2>3, ExclusiveKept DEF CancelsRemembered, WasCanceled
  <1>4. CASE ParkRun(s) \/ Throw(s) \/ LoadRun(s) \/ StartRun(s)
    <2>1. UNCHANGED <<events, runLock>>
      BY <1>4 DEF ParkRun, Throw, LoadRun, StartRun, dbVars
    <2>2. /\ slot[s].pc \in LockedPcs \cup {"lockRun"}
          /\ ParkRun(s) \/ LoadRun(s) \/ StartRun(s) => slot[s].pc \in LockedPcs
      BY <1>4 DEF ParkRun, Throw, LoadRun, StartRun, LockedPcs
    <2>3. NoEntry
      <3>1. CASE ParkRun(s)
        BY <2>2, <3>1, NoEntryByStep DEF ParkRun
      <3>2. CASE Throw(s)
        <4>. DEFINE new == [slot[s] EXCEPT !.pc = "rescue", !.at = 0, !.result = "none"]
        <4>1. \/ slot' = [slot EXCEPT ![s] = new]
              \/ Goto(s, "rescueAudit")
              \/ LeaveTo(s, "unlockRun", TRUE)
              \/ Return(s, TRUE)
          BY <3>2 DEF Throw
        <4>2. new.run = slot[s].run
          BY DEF TypeInv, ActorsOK, GoodSlots, SlotType
        <4>. HIDE DEF new
        <4>3. slot[s].pc = "lockRun" => Return(s, TRUE)
          BY <3>2 DEF Throw
        <4>4. CASE slot' = [slot EXCEPT ![s] = new] /\ slot[s].pc \in LockedPcs
          BY <4>2, <4>4, NoEntryByUpdate
        <4>5. CASE (Goto(s, "rescueAudit") \/ LeaveTo(s, "unlockRun", TRUE))
                   /\ slot[s].pc \in LockedPcs
          BY <4>5, NoEntryByStep
        <4>6. CASE Return(s, TRUE)
          BY <4>6, NoEntryByReturn
        <4>. QED  BY <2>2, <4>1, <4>3, <4>4, <4>5, <4>6
      <3>3. CASE LoadRun(s)
        <4>. DEFINE new == [slot[s] EXCEPT !.pc = "start", !.state = run[slot[s].run].state]
        <4>1. LeaveTo(s, "unlockRun", FALSE) \/ slot' = [slot EXCEPT ![s] = new]
          BY <3>3 DEF LoadRun
        <4>2. new.run = slot[s].run
          BY DEF TypeInv, ActorsOK, GoodSlots, SlotType
        <4>. HIDE DEF new
        <4>3. CASE slot' = [slot EXCEPT ![s] = new]
          BY <2>2, <3>3, <4>2, <4>3, NoEntryByUpdate
        <4>4. CASE LeaveTo(s, "unlockRun", FALSE)
          BY <2>2, <3>3, <4>4, NoEntryByStep
        <4>. QED  BY <4>1, <4>3, <4>4
      <3>4. CASE StartRun(s)
        BY <2>2, <3>4, NoEntryByStep DEF StartRun
      <3>. QED  BY <1>4, <3>1, <3>2, <3>3, <3>4
    <2>. QED  BY <2>1, <2>3, ExclusiveKept DEF CancelsRemembered, WasCanceled
  <1>5. CASE FinishRun(s) \/ BillRun(s) \/ RescueRun(s) \/ RescueBill(s)
    <2>1. runLock' = runLock /\ CancelsRemembered
      BY <1>5 DEF FinishRun, BillRun, RescueRun, RescueBill, CancelsRemembered, WasCanceled,
                  TypeInv, RowsOK
    <2>2. slot[s].pc \in LockedPcs /\ \E pc : Goto(s, pc)
      BY <1>5 DEF FinishRun, BillRun, RescueRun, RescueBill, LockedPcs
    <2>3. NoEntry
      BY <2>2, NoEntryByStep
    <2>. QED  BY <2>1, <2>3, ExclusiveKept
  <1>6. CASE FetchJob(s) \/ LockWorkflow(s) \/ Requeue(s) \/ EndJob(s) \/ ProcessorThrows(s)
    <2>1. UNCHANGED <<events, runLock>>
      BY <1>6 DEF FetchJob, LockWorkflow, Requeue, EndJob, ProcessorThrows, dbVars
    <2>2. \/ slot' = slot
          \/ \E x : slot' = [slot EXCEPT ![s] = x] /\ x.pc \notin LockedPcs
      <3>1. CASE FetchJob(s)
        <4>. DEFINE new(j) == [IdleSlot EXCEPT
                      !.pc = IF NeedsLock(jobs[j].run) THEN "lockWf" ELSE "lockRun",
                      !.run = jobs[j].run, !.job = j, !.serial = NeedsLock(jobs[j].run)]
        <4>1. slot' = slot \/ \E j \in JobIds : slot' = [slot EXCEPT ![s] = new(j)]
          BY <3>1 DEF FetchJob
        <4>2. \A j : new(j).pc \notin LockedPcs
          BY DEF IdleSlot, LockedPcs
        <4>. HIDE DEF new
        <4>. QED  BY <4>1, <4>2
      <3>2. CASE LockWorkflow(s) \/ Requeue(s) \/ EndJob(s) \/ ProcessorThrows(s)
        <4>1. \/ Goto(s, "lockRun")
              \/ Goto(s, "end")
              \/ slot' = [slot EXCEPT ![s] = [@ EXCEPT !.pc = "lockRun", !.serial = FALSE]]
              \/ slot' = [slot EXCEPT ![s] = IdleSlot]
          BY <3>2 DEF LockWorkflow, Requeue, EndJob, ProcessorThrows
        <4>2. /\ [slot[s] EXCEPT !.pc = "lockRun"].pc \notin LockedPcs
              /\ [slot[s] EXCEPT !.pc = "lockRun", !.serial = FALSE].pc \notin LockedPcs
              /\ [slot[s] EXCEPT !.pc = "end"].pc \notin LockedPcs
              /\ IdleSlot.pc \notin LockedPcs
          BY DEF IdleSlot, LockedPcs, TypeInv, ActorsOK, GoodSlots, SlotType
        <4>. QED  BY <4>1, <4>2 DEF Goto
      <3>. QED  BY <1>6, <3>1, <3>2
    <2>3. NoEntry
      BY <2>2, NoEntryByUpdate, SlotsAlone
    <2>. QED  BY <2>1, <2>3, ExclusiveKept DEF CancelsRemembered, WasCanceled
  <1>. QED  BY <1>1, <1>2, <1>3, <1>4, <1>5, <1>6 DEF SlotStep

LEMMA ExclusiveCancelRow ==
  ASSUME TypeInv, Exclusive, UNCHANGED slot, NEW r \in Runs, CancelRow(r)
  PROVE  Exclusive'
  <1>1. CancelsRemembered
    BY DEF CancelRow, CancelsRemembered, WasCanceled, TypeInv, RowsOK
  <1>2. \A q \in Runs : runLock'[q] = runLock[q] \/ WasCanceled(q)'
    BY DEF CancelRow, WasCanceled, TypeInv, RowsOK, LocksOK
  <1>. QED  BY <1>1, <1>2, SlotsAlone, ExclusiveKept

LEMMA ExclusiveRequests ==
  ASSUME TypeInv, Exclusive, NEW c \in Requests, BeginRequest(c) \/ RequestStep(c)
  PROVE  Exclusive'
  <1>1. c \in Callers
    BY DEF Callers
  <1>2. CASE \E r \in Runs : Cancel(c, r)
    BY <1>2, ExclusiveCancelRow DEF Cancel
  <1>3. CASE MoveRun(c)
    <2>1. caller[c].run \in Runs
      BY <1>1, <1>3, BusyCaller DEF MoveRun
    <2>2. CASE CancelRow(caller[c].run)
      BY <1>3, <2>1, <2>2, ExclusiveCancelRow DEF MoveRun
    <2>3. CASE Requeued(c, caller[c].run)
      BY <1>3, <2>3, SlotsAlone, ExclusiveKept
      DEF MoveRun, Requeued, CancelsRemembered, WasCanceled
    <2>. QED  BY <1>3, <2>2, <2>3 DEF MoveRun
  <1>4. CASE \E r \in Runs : \/ Submit(c, r) \/ ApproveAll(c, r)
                             \/ \E v \in {"approved", "rejected"} : Decide(c, r, v)
    BY <1>4, SlotsAlone, ExclusiveKept
    DEF Submit, ApproveAll, Decide, CancelsRemembered, WasCanceled, dbVars
  <1>5. CASE TidyCanceled(c) \/ DecideTask(c) \/ ApproveTask(c) \/ AddJob(c) \/ RecordJob(c)
    BY <1>5, SlotsAlone, ExclusiveKept
    DEF TidyCanceled, DecideTask, ApproveTask, AddJob, RecordJob, CancelsRemembered,
        WasCanceled, dbVars
  <1>6. CASE MoveAll(c)
    BY <1>6, SlotsAlone, ExclusiveKept DEF MoveAll, Requeued, CancelsRemembered, WasCanceled
  <1>. QED  BY <1>2, <1>3, <1>4, <1>5, <1>6 DEF BeginRequest, RequestStep

LEMMA ExclusiveTicker ==
  ASSUME TypeInv, Exclusive, TickerStep \/ \E r \in Runs : BeginSweep(r)
  PROVE  Exclusive'
  <1>1. UNCHANGED <<slot, runLock>>
    BY DEF TickerStep, BeginSweep, ResumeRun, TimeOutRun, BillFailure, Exhaust, AddJob, RecordJob,
           LeaseResume, TimeOutTask, SweepStale, SweepStuck, QueueTimeout, dbVars
  <1>2. CancelsRemembered
    <2>1. CASE TickerStep
      BY <2>1, SMTT(30) DEF TickerStep, ResumeRun, TimeOutRun, BillFailure, Exhaust, AddJob, RecordJob,
                  CancelsRemembered, WasCanceled, TypeInv, RowsOK, dbVars
    <2>2. ASSUME NEW r \in Runs, BeginSweep(r) PROVE CancelsRemembered
      <3>1. CASE QueueTimeout(r)
        BY <3>1 DEF QueueTimeout, CancelsRemembered, WasCanceled, TypeInv, RowsOK
      <3>2. CASE ~QueueTimeout(r)
        BY <2>2, <3>2 DEF BeginSweep, LeaseResume, TimeOutTask, SweepStale, SweepStuck,
                          CancelsRemembered, WasCanceled, dbVars
      <3>. QED  BY <3>1, <3>2
    <2>. QED  BY <2>1, <2>2
  <1>. QED  BY <1>1, <1>2, SlotsAlone, ExclusiveKept

LEMMA ExclusiveStep ==
  ASSUME TypeInv, Exclusive, [Next]_vars
  PROVE  Exclusive'
  <1>1. CASE UNCHANGED vars
    BY <1>1 DEF vars, dbVars, Exclusive, Executes, WasCanceled
  <1>2. ASSUME NEW s \in Slots, NEW r \in Runs, SubmitSync(s, r) PROVE Exclusive'
    <2>1. [IdleSlot EXCEPT !.pc = "lockRun", !.run = r].pc \notin LockedPcs
      BY DEF IdleSlot, LockedPcs
    <2>2. NoEntry
      BY <1>2, <2>1, NoEntryByUpdate DEF SubmitSync
    <2>. QED  BY <1>2, <2>2, ExclusiveKept DEF SubmitSync, CancelsRemembered, WasCanceled
  <1>3. ASSUME NEW p \in Procs, Crash(p) PROVE Exclusive'
    <2>1. NoEntry
      BY <1>3 DEF Crash, NoEntry, IdleSlot, LockedPcs
    <2>. QED  BY <1>3, <2>1, ExclusiveKept DEF Crash, CancelsRemembered, WasCanceled, dbVars
  <1>4. CASE \/ \E r \in Runs : DelayElapses(r) \/ ApprovalExpires(r)
             \/ \E w \in Workflows : WorkflowLockLapses(w)
             \/ \E j \in JobIds : StalledJob(j)
             \/ \E c \in Callers : CallerFails(c)
    BY <1>4, SlotsAlone, ExclusiveKept
    DEF DelayElapses, ApprovalExpires, WorkflowLockLapses, StalledJob, CallerFails,
        CancelsRemembered, WasCanceled, dbVars
  <1>. QED  BY <1>1, <1>2, <1>3, <1>4, ExclusiveSlotStep, ExclusiveRequests, ExclusiveTicker
            DEF Next, Environment

(* For any number of slots, processes, jobs and requests, crashes included:  *)
(* a run that was not canceled is walked by one execution at a time.         *)
THEOREM OneExecutorAtATime == Spec => []OneExecutor
  <1>1. Init => TypeInv /\ Exclusive
    BY TypeInit DEF Init, Exclusive, Executes, IdleSlot, LockedPcs
  <1>2. TypeInv /\ Exclusive /\ [Next]_vars => (TypeInv /\ Exclusive)'
    BY TypeStep, ExclusiveStep
  <1>3. Exclusive => OneExecutor
    BY ExclusiveImpliesOneExecutor
  <1>. QED  BY <1>1, <1>2, <1>3, PTL DEF Spec
=============================================================================
