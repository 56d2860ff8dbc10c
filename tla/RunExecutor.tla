---------------------------- MODULE RunExecutor ----------------------------
(***************************************************************************)
(* The consumer of the forge-run queue (createRunProcessor) and the run    *)
(* executor it calls (executeWorkflowRun, doExecuteRun, executeSteps).     *)
(* A slot is one execution in flight; a sync webhook executes its run in   *)
(* an inline slot, without a job and without the workflow lock.            *)
(***************************************************************************)
EXTENDS RunDb

Goto(s, pc) == slot' = [slot EXCEPT ![s].pc = pc]

(* On the way out only the locks and the job are still to be handled. *)
LeaveTo(s, pc, threw) ==
  slot' = [slot EXCEPT ![s] = [IdleSlot EXCEPT !.pc = pc, !.run = slot[s].run,
                                               !.job = slot[s].job, !.serial = slot[s].serial,
                                               !.threw = threw]]

(* What follows executeWorkflowRun: an inline execution answers its request, *)
(* a job's execution runs the processor's catch and finally.                 *)
Return(s, threw) ==
  IF slot[s].job = None THEN slot' = [slot EXCEPT ![s] = IdleSlot]
  ELSE LeaveTo(s, IF threw THEN "requeue" ELSE "end", threw)

----------------------------------------------------------------------------
(* createRunProcessor *)

NeedsLock(r) == WorkflowOf[r] \in Serialized

(* BullMQ hands a waiting job to a free slot, which reads the run's status   *)
(* and skips a terminal run: the job is done with.                           *)
FetchJob(s) ==
  /\ s \in ConsumerSlots
  /\ slot[s].pc = "idle"
  /\ \E j \in JobIds :
       /\ jobs[j].state = "waiting"
       /\ LET r == jobs[j].run IN
            IF IsTerminal(r)
            THEN jobs' = [jobs EXCEPT ![j] = NoJob] /\ slot' = slot
            ELSE /\ jobs' = [jobs EXCEPT ![j].state = "active"]
                 /\ slot' = [slot EXCEPT ![s] =
                      [IdleSlot EXCEPT !.pc = IF NeedsLock(r) THEN "lockWf" ELSE "lockRun",
                                       !.run = r, !.job = j, !.serial = NeedsLock(r)]]
  /\ UNCHANGED <<dbVars, wfLock, caller, faults, history>>

(* BullMQ's side of a thrown attempt: retry until the attempts are used up. *)
Retried(job) ==
  IF job.tries + 1 >= Attempts THEN NoJob
  ELSE [job EXCEPT !.state = "waiting", !.tries = job.tries + 1]
FailedAttempt(j) == [jobs EXCEPT ![j] = Retried(@)]

(* SET ff:run:wf:<id> <pid> PX 300000 NX; "busy" is thrown before the try,  *)
(* so nothing touches the run row and the attempt fails.                    *)
LockWorkflow(s) ==
  /\ slot[s].pc = "lockWf"
  /\ LET w == WorkflowOf[slot[s].run] IN
       \/ /\ wfLock[w] = None
          /\ wfLock' = [wfLock EXCEPT ![w] = ProcOf[s]]
          /\ Goto(s, "lockRun")
          /\ jobs' = jobs
       \/ /\ wfLock[w] # None
          /\ jobs' = FailedAttempt(slot[s].job)
          /\ slot' = [slot EXCEPT ![s] = IdleSlot]
          /\ wfLock' = wfLock
  /\ UNCHANGED <<dbVars, caller, faults, history>>

(* Mutation: ON CONFLICT DO UPDATE, so that the insert always returns a row. *)
LockRunByUpsert(s) ==
  /\ slot[s].pc = "lockRun"
  /\ runLock' = [runLock EXCEPT ![slot[s].run] = ProcOf[s]]
  /\ Goto(s, "load")
  /\ UNCHANGED <<run, version, events, usage, task, pausedRows, due,
                 redisVars, caller, faults, history>>

(* INSERT INTO run_locks ... ON CONFLICT DO NOTHING; a taken lock makes     *)
(* executeWorkflowRun return "running", which completes the job.            *)
LockRun(s) ==
  /\ slot[s].pc = "lockRun"
  /\ LET r == slot[s].run IN
       \/ /\ runLock[r] = None
          /\ runLock' = [runLock EXCEPT ![r] = ProcOf[s]]
          /\ Goto(s, "load")
       \/ /\ runLock[r] # None
          /\ Return(s, FALSE)
          /\ runLock' = runLock
  /\ UNCHANGED <<run, version, events, usage, task, pausedRows, due,
                 redisVars, caller, faults, history>>

----------------------------------------------------------------------------
(* doExecuteRun *)

(* Mutation: no early return for a terminal run. *)
LoadAnyRun(s) ==
  /\ slot[s].pc = "load"
  /\ slot' = [slot EXCEPT ![s].pc = "start", ![s].state = run[slot[s].run].state]
  /\ UNCHANGED <<dbVars, redisVars, caller, faults, history>>

(* SELECT ... FROM runs: a run that is terminal by now is left alone. *)
LoadRun(s) ==
  /\ slot[s].pc = "load"
  /\ IF IsTerminal(slot[s].run) THEN LeaveTo(s, "unlockRun", FALSE)
     ELSE slot' = [slot EXCEPT ![s].pc = "start", ![s].state = run[slot[s].run].state]
  /\ UNCHANGED <<dbVars, redisVars, caller, faults, history>>

Manifest(s) == version[slot[s].run]

(* The walk goes on at the first step from position i on that is not in     *)
(* _done; past the last one _runFailed decides the outcome.                  *)
WalkOn(s, st, i) ==
  LET open == (i .. Len(Manifest(s).steps)) \ st.done
  IN \/ /\ open = {}
        /\ slot' = [slot EXCEPT ![s] =
             [@ EXCEPT !.pc = "finish", !.at = 0, !.state = st,
                       !.result = IF st.failed THEN "failed" ELSE "succeeded"]]
     \/ \E k \in open :
          /\ \A l \in open : k <= l
          /\ slot' = [slot EXCEPT ![s] = [@ EXCEPT !.pc = "steps", !.at = k, !.state = st]]

(* UPDATE runs SET status = 'running', started_at = COALESCE(...): WHERE id. *)
Started(r) == [run EXCEPT ![r].status = "running", ![r].started = TRUE]

StartRun(s) ==
  /\ slot[s].pc = "start"
  /\ run' = Started(slot[s].run)
  /\ WalkOn(s, slot[s].state, 1)
  /\ UNCHANGED <<version, events, usage, task, pausedRows, due, runLock,
                 redisVars, caller, faults, history>>

----------------------------------------------------------------------------
(* executeSteps: slot[s].at is the step it has come to *)

AtStep(s, kind) == slot[s].pc = "steps" /\ Manifest(s).steps[slot[s].at] = kind

(* A completed step enters _done. *)
Completed(s, st) == WalkOn(s, [st EXCEPT !.done = @ \cup {slot[s].at}], slot[s].at + 1)

(* A failed step: on_error continue walks on WITHOUT entering _done, abort   *)
(* ends the run.                                                            *)
EndsFailed(s, st) ==
  slot' = [slot EXCEPT ![s] = [@ EXCEPT !.pc = "finish", !.at = 0, !.state = st,
                                        !.result = "failed"]]
(* Mutation: on_error continue forgets _runFailed. *)
StepForgiven(s, st) ==
  IF Manifest(s).onError = "continue" THEN WalkOn(s, st, slot[s].at + 1) ELSE EndsFailed(s, st)
StepFailed(s, st) ==
  IF Manifest(s).onError = "continue"
  THEN WalkOn(s, [st EXCEPT !.failed = TRUE], slot[s].at + 1)
  ELSE EndsFailed(s, st)

Parked(s, st, result) ==
  slot' = [slot EXCEPT ![s] = [@ EXCEPT !.pc = "park", !.at = 0, !.state = st,
                                        !.result = result]]

(* total_running_seconds is past the plan's workflow timeout, or the step's *)
(* `if` cannot be evaluated: the run fails, whatever on_error says.          *)
StopWalk(s) ==
  /\ slot[s].pc = "steps"
  /\ EndsFailed(s, slot[s].state)
  /\ UNCHANGED <<dbVars, redisVars, caller, faults, history>>

(* A step of any kind fails: by itself, for a plan without the feature, or    *)
(* because executeStepRecord caught what it threw.                           *)
FailStep(s) ==
  /\ slot[s].pc = "steps"
  /\ StepFailed(s, slot[s].state)
  /\ pausedRows' = IF AtStep(s, "approval") THEN pausedRows \ {slot[s].run} ELSE pausedRows
  /\ UNCHANGED <<run, version, events, usage, task, due, runLock,
                 redisVars, caller, faults, history>>

(* http, notify, transform, log, reply... completes; so does what `if` skips *)
(* (bound: the delay and the approval of the model have no `if`).            *)
WorkStep(s) ==
  /\ AtStep(s, "work")
  /\ Completed(s, slot[s].state)
  /\ UNCHANGED <<dbVars, redisVars, caller, faults, history>>

(* The first encounter sets _pendingDelay and parks; a resumed one goes on   *)
(* once resume_at has passed.                                               *)
DelayStep(s) ==
  /\ AtStep(s, "delay")
  /\ LET st == slot[s].state
         r == slot[s].run
     IN \/ /\ st.delayAt # slot[s].at
           /\ Parked(s, [st EXCEPT !.delayAt = slot[s].at], "waiting")
           /\ due' = [due EXCEPT ![r] = @ \ {"delay"}]
        \/ /\ st.delayAt = slot[s].at
           /\ IF "delay" \in due[r] THEN Completed(s, [st EXCEPT !.delayAt = 0])
              ELSE Parked(s, st, "waiting")
           /\ due' = due
  /\ UNCHANGED <<run, version, events, usage, task, pausedRows, runLock,
                 redisVars, caller, faults, history>>

(* executeApprovalStep: the first encounter creates the task, or adopts the  *)
(* latest one unless that timed out or was canceled, and parks; a step that   *)
(* throws after that has failed, and leaves its task pending.                *)
OpenApproval(s) ==
  /\ AtStep(s, "approval")
  /\ slot[s].state.approvalAt # slot[s].at
  /\ LET r == slot[s].run
         st == [slot[s].state EXCEPT !.approvalAt = slot[s].at]
     IN /\ \/ /\ task[r] \in {"none", "timeout", "canceled"}
              /\ task' = [task EXCEPT ![r] = "pending"]
              /\ due' = [due EXCEPT ![r] = @ \ {"approval"}]
           \/ /\ task[r] \notin {"none", "timeout", "canceled"}
              /\ UNCHANGED <<task, due>>
        /\ \/ /\ Parked(s, st, "paused")
              /\ pausedRows' = pausedRows \cup {r}
              /\ faults' = faults
           \/ /\ faults < MaxFaults
              /\ StepFailed(s, st)
              /\ pausedRows' = pausedRows \ {r}
              /\ faults' = faults + 1
  /\ UNCHANGED <<run, version, events, usage, runLock, redisVars, caller, history>>

(* Mutation: a resumed approval takes its resumption for the approval. *)
ResumeAsApproved(s) ==
  /\ AtStep(s, "approval")
  /\ slot[s].state.approvalAt = slot[s].at
  /\ Completed(s, [slot[s].state EXCEPT !.approvalAt = 0])
  /\ pausedRows' = pausedRows \ {slot[s].run}
  /\ UNCHANGED <<run, version, events, usage, task, due, runLock,
                 redisVars, caller, faults, history>>

(* ... and a resumed one acts on the decision it finds. *)
ResumeApproval(s) ==
  /\ AtStep(s, "approval")
  /\ slot[s].state.approvalAt = slot[s].at
  /\ LET r == slot[s].run
         st == slot[s].state
         decided == [st EXCEPT !.approvalAt = 0]
     IN /\ pausedRows' = IF task[r] = "pending" THEN pausedRows \cup {r} ELSE pausedRows \ {r}
        /\ \/ task[r] = "pending" /\ Parked(s, st, "paused")
           \/ task[r] = "approved" /\ Completed(s, decided)
           \/ task[r] \in {"rejected", "canceled"} /\ StepFailed(s, decided)
           \/ /\ task[r] = "timeout"
              /\ IF Manifest(s).onTimeout = "skip" THEN Completed(s, decided)
                 ELSE StepFailed(s, st)
  /\ UNCHANGED <<run, version, events, usage, task, due, runLock,
                 redisVars, caller, faults, history>>

WalkStep(s) ==
  \/ StopWalk(s) \/ FailStep(s)
  \/ WorkStep(s) \/ DelayStep(s) \/ OpenApproval(s) \/ ResumeApproval(s)

----------------------------------------------------------------------------
(* The end of an execution *)

(* UPDATE runs SET status = 'waiting' | 'paused', state: WHERE id. *)
ParkRun(s) ==
  /\ slot[s].pc = "park"
  /\ run' = [run EXCEPT ![slot[s].run].status = slot[s].result,
                        ![slot[s].run].state = slot[s].state]
  /\ LeaveTo(s, "unlockRun", FALSE)
  /\ UNCHANGED <<version, events, usage, task, pausedRows, due, runLock,
                 redisVars, caller, faults, history>>

Outcome(s) == IF slot[s].result = "succeeded" THEN "run.succeeded" ELSE "run.failed"

(* UPDATE runs SET status = 'succeeded' | 'failed': WHERE id, then its event. *)
FinishRun(s) ==
  /\ slot[s].pc = "finish"
  /\ LET r == slot[s].run IN
       /\ run' = [run EXCEPT ![r].status = slot[s].result, ![r].state = slot[s].state]
       /\ events' = [events EXCEPT ![r] = @ \cup {Outcome(s)}]
  /\ Goto(s, "bill")
  /\ UNCHANGED <<version, usage, task, pausedRows, due, runLock,
                 redisVars, caller, faults, history>>

(* Mutation: every terminal run is billed as succeeded. *)
BillAsSucceeded(s) ==
  /\ slot[s].pc = "bill"
  /\ usage' = BilledFor(slot[s].run, "run.succeeded")
  /\ Goto(s, "audit")
  /\ UNCHANGED <<run, version, events, task, pausedRows, due, runLock,
                 redisVars, caller, faults, history>>

(* Its billing; the audit event is then the last statement of the try block. *)
BillRun(s) ==
  /\ slot[s].pc = "bill"
  /\ usage' = BilledFor(slot[s].run, Outcome(s))
  /\ Goto(s, "audit")
  /\ UNCHANGED <<run, version, events, task, pausedRows, due, runLock,
                 redisVars, caller, faults, history>>

(* The catch block: UPDATE runs SET status = 'failed': WHERE id, its event. *)
RescueRun(s) ==
  /\ slot[s].pc = "rescue"
  /\ LET r == slot[s].run IN
       /\ run' = [run EXCEPT ![r].status = "failed", ![r].state = slot[s].state]
       /\ events' = [events EXCEPT ![r] = @ \cup {"run.failed"}]
  /\ Goto(s, "rescueBill")
  /\ UNCHANGED <<version, usage, task, pausedRows, due, runLock,
                 redisVars, caller, faults, history>>

RescueBill(s) ==
  /\ slot[s].pc = "rescueBill"
  /\ usage' = BilledFor(slot[s].run, "run.failed")
  /\ Goto(s, "rescueAudit")
  /\ UNCHANGED <<run, version, events, task, pausedRows, due, runLock,
                 redisVars, caller, faults, history>>

(* An awaited call that throws: a database error, or emitAuditEvent losing   *)
(* the race for a sequence number.  In the try block it leads to the catch   *)
(* block, whose own billing error is swallowed; before the try block, and in *)
(* the rest of the catch block, it leaves doExecuteRun; outside of that, at  *)
(* the INSERT or the DELETE of the run_locks row, it leaves                  *)
(* executeWorkflowRun, and a DELETE that failed leaves the row behind.       *)
Throw(s) ==
  /\ faults < MaxFaults
  /\ faults' = faults + 1
  /\ \/ /\ slot[s].pc \in {"steps", "park", "finish", "bill", "audit"}
        /\ slot' = [slot EXCEPT ![s] = [@ EXCEPT !.pc = "rescue", !.at = 0, !.result = "none"]]
        /\ UNCHANGED <<run, history>>
     \/ /\ slot[s].pc = "rescueBill"
        /\ Goto(s, "rescueAudit")
        /\ UNCHANGED <<run, history>>
     \/ /\ slot[s].pc \in {"load", "start", "rescue", "rescueAudit"}
        /\ LeaveTo(s, "unlockRun", TRUE)
        /\ \/ run' = run
           \/ slot[s].pc = "start" /\ run' = Started(slot[s].run)
        /\ history' = history
     \/ /\ slot[s].pc = "lockRun"
        /\ Return(s, TRUE)
        /\ UNCHANGED <<run, history>>
     \/ /\ slot[s].pc \in {"audit", "rescueAudit", "unlockRun"}
        /\ Return(s, TRUE)
        /\ run' = run
        /\ history' = [history EXCEPT !.abandoned = TRUE]
  /\ UNCHANGED <<version, events, usage, task, pausedRows, due, runLock, redisVars, caller>>

(* Mutation: the early return of a terminal run skips the finally. *)
UnlockUnlessSkipped(s) ==
  /\ slot[s].pc \in {"audit", "rescueAudit", "unlockRun"}
  /\ runLock' = IF slot[s].pc = "unlockRun" THEN runLock
                ELSE [runLock EXCEPT ![slot[s].run] = IF @ = ProcOf[s] THEN None ELSE @]
  /\ Return(s, slot[s].threw)
  /\ UNCHANGED <<run, version, events, usage, task, pausedRows, due,
                 redisVars, caller, faults, history>>

(* finally: DELETE FROM run_locks WHERE run_id AND locked_by = worker-<pid>, *)
(* here with the audit event that precedes it after a terminal write.        *)
UnlockRun(s) ==
  /\ slot[s].pc \in {"audit", "rescueAudit", "unlockRun"}
  /\ runLock' = [runLock EXCEPT ![slot[s].run] = IF @ = ProcOf[s] THEN None ELSE @]
  /\ Return(s, slot[s].threw)
  /\ UNCHANGED <<run, version, events, usage, task, pausedRows, due,
                 redisVars, caller, faults, history>>

(* The processor's catch: back to queued with job_id NULL, unless settled. *)
Requeue(s) ==
  /\ slot[s].pc = "requeue"
  /\ LET r == slot[s].run IN
       run' = IF run[r].status \in {"queued", "running"}
              THEN [run EXCEPT ![r].status = "queued", ![r].job = None] ELSE run
  /\ Goto(s, "end")
  /\ UNCHANGED <<version, events, usage, task, pausedRows, due, runLock,
                 redisVars, caller, faults, history>>

(* The processor's finally, DEL ff:run:wf:<id> whoever holds the key, and    *)
(* the end of the job (removeOnComplete) or of its attempt.                  *)
EndJob(s) ==
  /\ slot[s].pc = "end"
  /\ wfLock' = IF slot[s].serial
               THEN [wfLock EXCEPT ![WorkflowOf[slot[s].run]] = None] ELSE wfLock
  /\ jobs' = IF slot[s].threw THEN FailedAttempt(slot[s].job)
             ELSE [jobs EXCEPT ![slot[s].job] = NoJob]
  /\ slot' = [slot EXCEPT ![s] = IdleSlot]
  /\ UNCHANGED <<dbVars, caller, faults, history>>

(* An awaited call of the processor itself that throws.  An unreadable        *)
(* manifest counts as allow_concurrent, an unreachable Redis fails the        *)
(* attempt as "busy" does; the catch block's UPDATE is given up; a DEL that    *)
(* failed leaves the workflow lock to its TTL.                               *)
ProcessorThrows(s) ==
  /\ faults < MaxFaults
  /\ faults' = faults + 1
  /\ \/ /\ slot[s].pc = "lockWf"
        /\ slot' = [slot EXCEPT ![s].pc = "lockRun", ![s].serial = FALSE]
        /\ jobs' = jobs
     \/ /\ slot[s].pc = "requeue"
        /\ Goto(s, "end")
        /\ jobs' = jobs
     \/ /\ slot[s].pc \in {"lockWf", "end"}
        /\ slot' = [slot EXCEPT ![s] = IdleSlot]
        /\ jobs' = FailedAttempt(slot[s].job)
  /\ UNCHANGED <<dbVars, wfLock, caller, history>>

(* What a live process goes on doing with a job it has fetched. *)
SlotStep(s) ==
  \/ LockWorkflow(s) \/ LockRun(s) \/ LoadRun(s) \/ StartRun(s) \/ WalkStep(s)
  \/ ParkRun(s) \/ FinishRun(s) \/ BillRun(s) \/ RescueRun(s) \/ RescueBill(s)
  \/ UnlockRun(s) \/ Requeue(s) \/ EndJob(s)

=============================================================================
