---------------------------- MODULE RunLifecycle ----------------------------
(***************************************************************************)
(* The life of a run: executors, requests and the scheduler tick acting on *)
(* the same rows, jobs and locks, and the environment's part - time,       *)
(* BullMQ's redelivery, crashes and errors.                                *)
(***************************************************************************)
EXTENDS RunExecutor, RunRequests, RunTicker

----------------------------------------------------------------------------
(* The environment *)

(* resume_at passes for a run parked at a delay. *)
DelayElapses(r) ==
  /\ run[r].state.delayAt # 0
  /\ "delay" \notin due[r]
  /\ due' = [due EXCEPT ![r] = @ \cup {"delay"}]
  /\ UNCHANGED <<run, version, events, usage, task, pausedRows, runLock,
                 redisVars, slot, caller, faults, history>>

(* timeout_at passes for a pending approval. *)
ApprovalExpires(r) ==
  /\ task[r] = "pending"
  /\ "approval" \notin due[r]
  /\ due' = [due EXCEPT ![r] = @ \cup {"approval"}]
  /\ UNCHANGED <<run, version, events, usage, task, pausedRows, runLock,
                 redisVars, slot, caller, faults, history>>

ExecutesIn(s, w) ==
  /\ slot[s].serial
  /\ WorkflowOf[slot[s].run] = w
  /\ slot[s].pc \in LockedPcs \cup {"lockRun", "requeue", "end"}

(* The 300 second TTL of the workflow lock runs out; nothing renews it. *)
WorkflowLockLapses(w) ==
  /\ wfLock[w] # None
  /\ wfLock' = [wfLock EXCEPT ![w] = None]
  /\ history' = [history EXCEPT !.lapsed =
                   IF \E s \in Slots : ExecutesIn(s, w) THEN @ \cup {w} ELSE @]
  /\ UNCHANGED <<dbVars, jobs, slot, caller, faults>>

(* BullMQ finds an active job whose worker is gone: it redelivers it once    *)
(* (maxStalledCount 1), then gives it up.                                   *)
StalledJob(j) ==
  /\ jobs[j].state = "active"
  /\ \A s \in Slots : slot[s].job # j
  /\ jobs' = [jobs EXCEPT ![j] = IF @.stalled THEN NoJob
                                 ELSE [@ EXCEPT !.state = "waiting", !.stalled = TRUE]]
  /\ UNCHANGED <<dbVars, wfLock, slot, caller, faults, history>>

(* A process dies: everything it was doing stops where it stood. *)
Crash(p) ==
  /\ faults < MaxFaults
  /\ faults' = faults + 1
  /\ history' = [history EXCEPT !.abandoned = TRUE]
  /\ slot' = [s \in Slots |-> IF ProcOf[s] = p THEN IdleSlot ELSE slot[s]]
  /\ caller' = [c \in Callers |-> IF ProcOf[c] = p /\ caller[c].pc # "idle" THEN Finished(c)
                              ELSE caller[c]]
  /\ UNCHANGED <<dbVars, redisVars>>

(* A request or the tick stops at a call that throws: Redis or Postgres      *)
(* unreachable, or emitAuditEvent losing the race for a sequence number.     *)
CallerFails(c) ==
  /\ caller[c].pc \notin {"idle", "done"}
  /\ faults < MaxFaults
  /\ faults' = faults + 1
  /\ caller' = [caller EXCEPT ![c] = Finished(c)]
  /\ UNCHANGED <<dbVars, redisVars, slot, history>>

Environment ==
  \/ \E r \in Runs : DelayElapses(r) \/ ApprovalExpires(r)
  \/ \E w \in Workflows : WorkflowLockLapses(w)
  \/ \E j \in JobIds : StalledJob(j)
  \/ \E p \in Procs : Crash(p)
  \/ \E s \in Slots : Throw(s) \/ ProcessorThrows(s)
  \/ \E c \in Callers : CallerFails(c)

Next ==
  \/ \E s \in Slots : FetchJob(s) \/ SlotStep(s)
  \/ \E s \in Slots, r \in Runs : SubmitSync(s, r)
  \/ \E c \in Requests : BeginRequest(c) \/ RequestStep(c)
  \/ \E r \in Runs : BeginSweep(r)
  \/ TickerStep
  \/ Environment

Spec == Init /\ [][Next]_vars

(* Event loops run, BullMQ delivers, time passes, and every tick makes every *)
(* sweep: a sweep whose row keeps coming back is reached by some tick.       *)
Fairness ==
  /\ \A s \in Slots : WF_vars(SlotStep(s)) /\ SF_vars(FetchJob(s))
  /\ \A c \in Requests : WF_vars(RequestStep(c))
  /\ WF_vars(TickerStep)
  /\ \A r \in Runs : /\ SF_vars(LeaseResume(r))
                     /\ SF_vars(SweepStale(r)) /\ SF_vars(SweepStuck(r))
                     /\ SF_vars(QueueTimeout(r))
                     /\ WF_vars(DelayElapses(r))
  /\ \A j \in JobIds : WF_vars(StalledJob(j))

FairSpec == Spec /\ Fairness

----------------------------------------------------------------------------
(* Properties *)

(* Every row, key and program counter keeps to its type. *)
TypeOK ==
  /\ run \in [Runs -> RunType]
  /\ version \in [Runs -> Versions]
  /\ events \in [Runs -> SUBSET BillTypes]
  /\ usage \in [Runs -> SUBSET BillTypes]
  /\ task \in [Runs -> TaskStatus]
  /\ pausedRows \subseteq Runs
  /\ due \in [Runs -> SUBSET {"delay", "approval"}]
  /\ runLock \in [Runs -> Procs \cup {None}]
  /\ wfLock \in [Workflows -> Procs \cup {None}]
  /\ jobs \in [JobIds -> JobType]
  /\ slot \in [Slots -> SlotType]
  /\ caller \in [Callers -> CallerType]
  /\ faults \in 0 .. MaxFaults
  /\ history \in [abandoned : BOOLEAN, lapsed : SUBSET Workflows]

WasCanceled(r) == "run.canceled" \in events[r]
Executes(s, r) == slot[s].run = r /\ slot[s].pc \in LockedPcs

(* No run is walked by two executions at once, however many jobs the submit, *)
(* the sweeps and BullMQ's redelivery have made of it: the run_locks row     *)
(* keeps them apart.  A cancel (or an aborting reject) deletes that row      *)
(* under the feet of the execution in flight, so a run that was canceled is  *)
(* excepted.                                                                *)
OneExecutor ==
  \A s, t \in Slots, r \in Runs :
    Executes(s, r) /\ Executes(t, r) /\ ~WasCanceled(r) => s = t

(* Every way out of executeWorkflowRun gives the run_locks row back: as long *)
(* as no process has crashed, a locked run has an execution in the process   *)
(* that locked it.  (Nothing else deletes the row of a live run, so a leaked *)
(* one would strand it.)                                                    *)
RunLockHeld ==
  \A r \in Runs : runLock[r] # None /\ ~history.abandoned =>
    \E s \in Slots : Executes(s, r) /\ ProcOf[s] = runLock[r]

(* What was billed is what happened: each usage_events row has the run_events *)
(* row of the same terminal transition, whichever of executor, cancel route   *)
(* and ticker wrote it, also when another one wrote in between.               *)
BillsMatchFeed == \A r \in Runs : usage[r] \subseteq events[r]

(* The workflow lock serializes the queue's executions of a workflow that    *)
(* does not allow concurrency, except that the lock of one that outlasts the *)
(* 300 seconds lapses and that a cancel deletes it whoever holds it.         *)
WorkflowSerialized ==
  \A s, t \in Slots, w \in Serialized :
    /\ ExecutesIn(s, w) /\ ExecutesIn(t, w) /\ s # t
    => w \in history.lapsed \/ \E r \in Runs : WorkflowOf[r] = w /\ WasCanceled(r)

(* Both locks of the queue's consumers do what they are taken for, over every  *)
(* way in and out of an execution.                                           *)
QueueLocksHold == RunLockHeld /\ WorkflowSerialized

(* The steps of a run that count as completed: in the persisted state, or in  *)
(* an execution that has not written it yet.                                 *)
CompletedSteps(r) ==
  run[r].state.done \cup UNION {slot[s].state.done : s \in {t \in Slots : slot[t].run = r}}

(* What lets a run go on behind an approval or a delay. *)
GatePassed(r, k) ==
  /\ version[r].steps[k] = "approval" =>
       task[r] = "approved" \/ (task[r] = "timeout" /\ version[r].onTimeout = "skip")
  /\ version[r].steps[k] = "delay" => "delay" \in due[r]

(* No execution takes an approval for completed that nobody approved (or that *)
(* timed out and may be skipped), nor a delay that has not run out: not the  *)
(* first one, nor one that a duplicate job or a sweep starts on a parked run, *)
(* nor one that finds the refusal and the timeout racing the approval.  As    *)
(* for OneExecutor a run that was canceled is excepted: an execution the      *)
(* cancel has deprived of its run_locks row may open the gate again that      *)
(* another one has taken for skipped.                                        *)
NoGateSkipped ==
  \A r \in Runs : ~WasCanceled(r) => \A k \in CompletedSteps(r) : GatePassed(r, k)

(* A run that succeeded has completed every step of its manifest, also the   *)
(* ones that earlier executions left in the persisted state, and on_error    *)
(* continue does not turn a failed step into success.                       *)
SuccessIsComplete ==
  \A r \in Runs : run[r].status = "succeeded" =>
    run[r].state.done = 1 .. Len(version[r].steps)

WriterPcs == {"decide", "move", "moveAll", "add", "record", "resume",
              "timeoutBill", "exhaust", "exhaustBill"}
MayStillWrite(r) ==
  \/ \E s \in Slots : slot[s].run = r /\ slot[s].pc \in LockedPcs \ {"load", "unlockRun"}
  \/ \E c \in Callers :
       /\ caller[c].run = r
       /\ \/ caller[c].pc \in WriterPcs
          \/ caller[c].pc = "approve" /\ caller[c].verdict = "approved"
Settled(r) == IsTerminal(r) /\ ~MayStillWrite(r)

(* Once a run is terminal and whoever had read it before has written, it     *)
(* stays as it is and is billed no more: late jobs, redeliveries, sweeps and *)
(* requests all find it terminal.  (Before that, the writers in flight do    *)
(* overwrite it: their UPDATEs say WHERE id only.)                           *)
SettledIsFinal ==
  [][\A r \in Runs : Settled(r) => Settled(r)' /\ UNCHANGED <<run[r], usage[r]>>]_vars

(* Every run that was created ends up terminal, or paused for a person,      *)
(* whatever crashed or threw on the way.                                    *)
EveryRunSettles ==
  \A r \in Runs : <>[](run[r].status \in Terminal \cup {"absent", "paused"})

(* docs/OPERATIONS.md: usage_events has one row per billed run. *)
OneBillPerRun == \A r \in Runs : Cardinality(usage[r]) <= 1

(* services/queue.ts: after its last attempt failed, a run is queued with    *)
(* job_id NULL, so that reconciliation enqueues it again.  Hence a queued    *)
(* run with a job_id has that job, or a caller still at work on it.          *)
NoStrandedRun ==
  \A r \in Runs : run[r].status = "queued" /\ run[r].job # None =>
    \/ \E j \in JobIds : jobs[j].run = r /\ jobs[j].state # "gone"
    \/ \E c \in Callers : caller[c].run = r

=============================================================================
