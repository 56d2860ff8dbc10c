---------------------------- MODULE RunRequests ----------------------------
(***************************************************************************)
(* The HTTP requests that create, cancel and decide runs (routes/runs.ts,  *)
(* routes/webhooks.ts).  Admission control is a component of its own; here *)
(* a request that was admitted has inserted its run.                       *)
(***************************************************************************)
EXTENDS RunDb

Begin(c, pc, r, job, verdict) ==
  /\ c \in Requests
  /\ caller[c] = IdleCaller
  /\ caller' = [caller EXCEPT ![c] = [pc |-> pc, run |-> r, job |-> job, verdict |-> verdict]]

Proceed(c, pc) == caller' = [caller EXCEPT ![c].pc = pc]
Answer(c) == caller' = [caller EXCEPT ![c] = Finished(c)]

Created(r) == [NoRun EXCEPT !.status = "queued"]

(* Manual trigger or asynchronous webhook: the row commits, the job follows. *)
Submit(c, r) ==
  /\ run[r].status = "absent"
  /\ run' = [run EXCEPT ![r] = Created(r)]
  /\ Begin(c, "add", r, None, "none")
  /\ UNCHANGED <<version, events, usage, task, pausedRows, due, runLock,
                 redisVars, slot, faults, history>>

(* A sync webhook executes the run it inserted inside its own request. *)
SubmitSync(s, r) ==
  /\ s \in InlineSlots
  /\ slot[s].pc = "idle"
  /\ run[r].status = "absent"
  /\ run' = [run EXCEPT ![r] = Created(r)]
  /\ slot' = [slot EXCEPT ![s] = [IdleSlot EXCEPT !.pc = "lockRun", !.run = r]]
  /\ UNCHANGED <<version, events, usage, task, pausedRows, due, runLock,
                 redisVars, caller, faults, history>>

(* The terminal transaction that cancel and reject-with-abort share. *)
CancelRow(r) ==
  /\ run' = [run EXCEPT ![r].status = "canceled", ![r].job = None]
  /\ events' = [events EXCEPT ![r] = @ \cup {"run.canceled"}]
  /\ runLock' = [runLock EXCEPT ![r] = None]
  /\ usage' = BilledFor(r, "run.canceled")

(* POST /runs/:id/cancel, its transaction. *)
Cancel(c, r) ==
  /\ run[r].status \in Active
  /\ CancelRow(r)
  /\ task' = [task EXCEPT ![r] = IF @ = "pending" THEN "canceled" ELSE @]
  /\ Begin(c, "tidy", r, run[r].job, "none")
  /\ UNCHANGED <<version, pausedRows, due, redisVars, slot, faults, history>>

(* ... and its best-effort cleanup: a waiting job is removed (an active one   *)
(* cannot be), and the workflow lock goes, whoever holds it.                 *)
TidyCanceled(c) ==
  /\ caller[c].pc = "tidy"
  /\ LET j == caller[c].job IN
       jobs' = IF j # None /\ jobs[j].state = "waiting"
               THEN [jobs EXCEPT ![j] = NoJob] ELSE jobs
  /\ wfLock' = [wfLock EXCEPT ![WorkflowOf[caller[c].run]] = None]
  /\ Answer(c)
  /\ UNCHANGED <<dbVars, slot, faults, history>>

----------------------------------------------------------------------------
(* decideApproval *)

(* Its reads: the task is pending and not past timeout_at, the run is        *)
(* paused; anything else is a 409.                                          *)
Decide(c, r, verdict) ==
  /\ task[r] = "pending" /\ "approval" \notin due[r]
  /\ run[r].status = "paused"
  /\ Begin(c, "decide", r, None, verdict)
  /\ UNCHANGED <<dbVars, redisVars, slot, faults, history>>

(* UPDATE approval_tasks ... AND status = 'pending'; rowCount is not read. *)
DecideTask(c) ==
  /\ caller[c].pc = "decide"
  /\ LET r == caller[c].run IN
       task' = [task EXCEPT ![r] = IF @ = "pending" THEN caller[c].verdict ELSE @]
  /\ Proceed(c, "move")
  /\ UNCHANGED <<run, version, events, usage, pausedRows, due, runLock,
                 redisVars, slot, faults, history>>

(* on_error is read from the paused run_steps row; a reject that finds no    *)
(* such row means abort.                                                    *)
RejectAborts(r) == r \notin pausedRows \/ version[r].onError = "abort"

(* Close the step row, then UPDATE runs SET status = 'queued': WHERE id. *)
Requeued(c, r) ==
  /\ run' = [run EXCEPT ![r].status = "queued"]
  /\ Proceed(c, "add")
  /\ UNCHANGED <<events, usage, runLock>>

MoveRun(c) ==
  /\ caller[c].pc = "move"
  /\ LET r == caller[c].run IN
       /\ IF caller[c].verdict = "rejected" /\ RejectAborts(r)
          THEN CancelRow(r) /\ Answer(c) ELSE Requeued(c, r)
       /\ pausedRows' = pausedRows \ {r}
  /\ UNCHANGED <<version, task, due, redisVars, slot, faults, history>>

----------------------------------------------------------------------------
(* POST /runs/:id/approve-all *)

(* Its reads: the run's status, remembered to the end, and a pending task. *)
ApproveAll(c, r) ==
  /\ run[r].status # "absent"
  /\ task[r] = "pending"
  /\ Begin(c, "approve", r, None, IF run[r].status = "paused" THEN "approved" ELSE "none")
  /\ UNCHANGED <<dbVars, redisVars, slot, faults, history>>

(* UPDATE approval_tasks SET status = 'approved': WHERE id. *)
ApproveTask(c) ==
  /\ caller[c].pc = "approve"
  /\ task' = [task EXCEPT ![caller[c].run] = "approved"]
  /\ IF caller[c].verdict = "approved" THEN Proceed(c, "moveAll") ELSE Answer(c)
  /\ UNCHANGED <<run, version, events, usage, pausedRows, due, runLock,
                 redisVars, slot, faults, history>>

(* UPDATE runs SET status = 'queued': WHERE id; the step row stays paused. *)
MoveAll(c) ==
  /\ caller[c].pc = "moveAll"
  /\ Requeued(c, caller[c].run)
  /\ UNCHANGED <<version, task, pausedRows, due, redisVars, slot, faults, history>>

BeginRequest(c) ==
  \E r \in Runs :
    \/ Submit(c, r) \/ Cancel(c, r) \/ ApproveAll(c, r)
    \/ \E v \in {"approved", "rejected"} : Decide(c, r, v)

RequestStep(c) ==
  \/ TidyCanceled(c) \/ DecideTask(c) \/ MoveRun(c) \/ ApproveTask(c) \/ MoveAll(c)
  \/ c \in Requests /\ (AddJob(c) \/ RecordJob(c))

=============================================================================
