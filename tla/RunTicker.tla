----------------------------- MODULE RunTicker -----------------------------
(***************************************************************************)
(* The scheduler tick (services/scheduler.ts): delay resume, approval      *)
(* timeouts and the reconciliation sweeps.  The model lets the tick take   *)
(* its sweeps in any order and row by row; the code runs them in a fixed   *)
(* order every ten seconds.                                                *)
(***************************************************************************)
EXTENDS RunDb

TickIdle == caller[Ticker].pc = "idle"
TickTo(pc, r) ==
  caller' = [caller EXCEPT ![Ticker] = [IdleCaller EXCEPT !.pc = pc, !.run = r]]

----------------------------------------------------------------------------
(* resumeDelays *)

(* A waiting run past resume_at; its lease (run, resume_at) keeps other      *)
(* ticks away until the row has moved.                                      *)
LeaseResume(r) ==
  /\ TickIdle
  /\ run[r].status = "waiting"
  /\ "delay" \in due[r]
  /\ TickTo("resume", r)
  /\ UNCHANGED <<dbVars, redisVars, slot, faults, history>>

(* UPDATE ... AND status = 'waiting'; the job is added whatever it matched. *)
ResumeRun ==
  /\ caller[Ticker].pc = "resume"
  /\ LET r == caller[Ticker].run IN
       /\ run' = [run EXCEPT ![r].status = IF @ = "waiting" THEN "queued" ELSE @]
       /\ TickTo("add", r)
  /\ UNCHANGED <<version, events, usage, task, pausedRows, due, runLock,
                 redisVars, slot, faults, history>>

----------------------------------------------------------------------------
(* checkApprovalTimeouts *)

(* The guarded task update, and the paused step row. *)
TimeOutTask(r) ==
  /\ TickIdle
  /\ task[r] = "pending"
  /\ "approval" \in due[r]
  /\ task' = [task EXCEPT ![r] = "timeout"]
  /\ pausedRows' = pausedRows \ {r}
  /\ TickTo("timeoutRun", r)
  /\ UNCHANGED <<run, version, events, usage, due, runLock,
                 redisVars, slot, faults, history>>

(* After the audit event: abort fails the run, skip resumes it, and a run    *)
(* that is not paused any more is left alone.                               *)
TimeOutRun ==
  /\ caller[Ticker].pc = "timeoutRun"
  /\ LET r == caller[Ticker].run IN
       \/ /\ run[r].status = "paused"
          /\ version[r].onTimeout = "abort"
          /\ run' = [run EXCEPT ![r].status = "failed"]
          /\ events' = [events EXCEPT ![r] = @ \cup {"run.failed"}]
          /\ TickTo("timeoutBill", r)
       \/ /\ run[r].status = "paused"
          /\ version[r].onTimeout = "skip"
          /\ run' = [run EXCEPT ![r].status = "queued"]
          /\ TickTo("add", r)
          /\ events' = events
       \/ /\ run[r].status # "paused"
          /\ TickTo("idle", None)
          /\ UNCHANGED <<run, events>>
  /\ UNCHANGED <<version, usage, task, pausedRows, due, runLock,
                 redisVars, slot, faults, history>>

(* recordBillingForTerminalRun('run.failed'), after a timeout or an exhausted *)
(* recovery.                                                                 *)
BillFailure ==
  /\ caller[Ticker].pc \in {"timeoutBill", "exhaustBill"}
  /\ usage' = BilledFor(caller[Ticker].run, "run.failed")
  /\ TickTo("idle", None)
  /\ UNCHANGED <<run, version, events, task, pausedRows, due, runLock,
                 redisVars, slot, faults, history>>

----------------------------------------------------------------------------
(* reconcile *)

(* The heartbeat timer of doExecuteRun runs from the try block to its finally. *)
BeatingPcs == {"steps", "park", "finish", "bill", "audit",
               "rescue", "rescueBill", "rescueAudit"}
Beating(r) == \E s \in Slots : slot[s].run = r /\ slot[s].pc \in BeatingPcs

(* Stale sweep: running and no heartbeat for 90 seconds.  With an executor   *)
(* alive that takes a heartbeat that cannot be written, a fault.             *)
SweepStale(r) ==
  /\ TickIdle
  /\ run[r].status = "running"
  /\ IF Beating(r) THEN faults < MaxFaults /\ faults' = faults + 1 ELSE faults' = faults
  /\ run' = [run EXCEPT ![r].status = "queued", ![r].job = None, ![r].recovery = @ + 1]
  /\ TickTo(IF run[r].recovery + 1 >= RecoveryLimit THEN "exhaust" ELSE "add", r)
  /\ UNCHANGED <<version, events, usage, task, pausedRows, due, runLock,
                 redisVars, slot, history>>

(* recovery_exhausted: UPDATE runs SET status = 'failed': WHERE id. *)
Exhaust ==
  /\ caller[Ticker].pc = "exhaust"
  /\ LET r == caller[Ticker].run IN
       /\ run' = [run EXCEPT ![r].status = "failed", ![r].job = None]
       /\ events' = [events EXCEPT ![r] = @ \cup {"run.failed"}]
       /\ TickTo("exhaustBill", r)
  /\ UNCHANGED <<version, usage, task, pausedRows, due, runLock,
                 redisVars, slot, faults, history>>

(* Stuck queued: no job recorded, so it is enqueued (again). *)
SweepStuck(r) ==
  /\ TickIdle
  /\ run[r].status = "queued"
  /\ run[r].job = None
  /\ TickTo("add", r)
  /\ UNCHANGED <<dbVars, redisVars, slot, faults, history>>

(* Mutation: queue_timeout only for the runs that no job is recorded for. *)
JoblessTimeout(r) ==
  /\ TickIdle
  /\ run[r].status = "queued"
  /\ run[r].job = None
  /\ run' = [run EXCEPT ![r].status = "failed"]
  /\ events' = [events EXCEPT ![r] = @ \cup {"run.failed"}]
  /\ UNCHANGED <<version, usage, task, pausedRows, due, runLock,
                 redisVars, slot, caller, faults, history>>

(* queue_timeout: queued and created more than 24 hours ago, which the model *)
(* lets any queued run be (a delay or an approval can take days).           *)
QueueTimeout(r) ==
  /\ TickIdle
  /\ run[r].status = "queued"
  /\ run' = [run EXCEPT ![r].status = "failed", ![r].job = None]
  /\ events' = [events EXCEPT ![r] = @ \cup {"run.failed"}]
  /\ UNCHANGED <<version, usage, task, pausedRows, due, runLock,
                 redisVars, slot, caller, faults, history>>

BeginSweep(r) ==
  \/ LeaseResume(r) \/ TimeOutTask(r)
  \/ SweepStale(r) \/ SweepStuck(r) \/ QueueTimeout(r)

TickerStep ==
  ResumeRun \/ TimeOutRun \/ BillFailure \/ Exhaust \/ AddJob(Ticker) \/ RecordJob(Ticker)

=============================================================================
