-------------------------- MODULE RunOutcomeProofs --------------------------
(***************************************************************************)
(* What the end of a run is worth, for every value of the constants of     *)
(* RunLifecycle: its bill, the steps it says it completed, the gates it    *)
(* went through, and that nobody changes it any more.                      *)
(***************************************************************************)
EXTENDS RunLocksProofs

----------------------------------------------------------------------------
(* Bills.  Each writer of usage_events has written the run_events row of the *)
(* same transition before, and events are only added.                        *)

BillDue ==
  /\ \A s \in Slots : /\ slot[s].pc = "bill" => Outcome(s) \in events[slot[s].run]
                      /\ slot[s].pc = "rescueBill" => "run.failed" \in events[slot[s].run]
  /\ caller[Ticker].pc \in {"timeoutBill", "exhaustBill"} =>
       "run.failed" \in events[caller[Ticker].run]

BillsInv == BillsMatchFeed /\ BillDue

LEMMA BilledForAdds ==
  ASSUME TypeInv, NEW r \in Runs, NEW type, usage' = BilledFor(r, type), type \in events[r],
         BillsMatchFeed, \A q \in Runs : events[q] \subseteq events'[q]
  PROVE  BillsMatchFeed'
  BY DEF BilledFor, BillsMatchFeed, TypeInv, RowsOK

LEMMA BillsKept ==
  ASSUME BillsMatchFeed, \A q \in Runs : events[q] \subseteq events'[q], usage' = usage
  PROVE  BillsMatchFeed'
  BY DEF BillsMatchFeed

(* Where one step of an execution leaves it. *)
OuterPcs == {"idle", "lockWf", "lockRun", "requeue", "end", "unlockRun"}

StaysOut(s) ==
  /\ slot'[s].pc \in OuterPcs
  /\ \/ slot'[s].state = FreshState
     \/ slot[s].pc \in OuterPcs /\ slot'[s].state = slot[s].state

GoesIn(s) ==
  LockRun(s) /\ Keeps(s) /\ slot'[s].pc = "load" /\ slot'[s].state = slot[s].state

Loads(s) ==
  LoadRun(s) /\ Keeps(s) /\ slot'[s].pc = "start" /\ slot'[s].state = run[slot[s].run].state

GoesToRescue(s) ==
  /\ Throw(s) /\ Keeps(s) /\ UNCHANGED run
  /\ slot[s].pc \in {"steps", "park", "finish", "bill", "audit", "rescueBill"}
  /\ slot'[s].pc \in {"rescue", "rescueAudit"} /\ slot'[s].state = slot[s].state

GoesAlong(s) == WalkStep(s) \/ FinishRun(s) \/ BillRun(s) \/ RescueRun(s) \/ RescueBill(s)

LEMMA SlotGoes ==
  ASSUME TypeInv, NEW s \in Slots,
         FetchJob(s) \/ SlotStep(s) \/ Throw(s) \/ ProcessorThrows(s)
  PROVE  \/ slot' = slot
         \/ /\ Others(s)
            /\ \/ StaysOut(s) \/ GoesIn(s) \/ Loads(s) \/ StartRun(s)
               \/ GoesAlong(s) \/ GoesToRescue(s)
  <1>0. IdleSlot.pc \in OuterPcs /\ IdleSlot.state = FreshState
    BY DEF IdleSlot, OuterPcs
  <1>1. ASSUME NEW threw, Return(s, threw) PROVE Others(s) /\ StaysOut(s)
    <2>1. /\ Others(s)
          /\ \/ slot'[s] = IdleSlot
             \/ slot'[s].pc \in {"requeue", "end"} /\ slot'[s].state = FreshState
      BY <1>1, AfterReturn
    <2>. QED  BY <1>0, <2>1 DEF StaysOut, OuterPcs
  <1>2. ASSUME NEW threw, LeaveTo(s, "unlockRun", threw) PROVE Others(s) /\ StaysOut(s)
    BY <1>2, AfterLeave DEF StaysOut, OuterPcs
  <1>3. ASSUME NEW x, slot' = [slot EXCEPT ![s] = x], x.pc \in OuterPcs, x.state = FreshState
        PROVE  Others(s) /\ StaysOut(s)
    BY <1>3, OnlyOne DEF StaysOut
  <1>4. ASSUME NEW pc \in OuterPcs, Goto(s, pc), slot[s].pc \in OuterPcs
        PROVE  Others(s) /\ StaysOut(s)
    BY <1>4, AfterGoto DEF StaysOut
  <1>5. CASE FetchJob(s)
    <2>. DEFINE new(j) == [IdleSlot EXCEPT
                  !.pc = IF NeedsLock(jobs[j].run) THEN "lockWf" ELSE "lockRun",
                  !.run = jobs[j].run, !.job = j, !.serial = NeedsLock(jobs[j].run)]
    <2>1. slot' = slot \/ \E j \in JobIds : slot' = [slot EXCEPT ![s] = new(j)]
      BY <1>5 DEF FetchJob
    <2>2. \A j : new(j).pc \in OuterPcs /\ new(j).state = FreshState
      BY DEF IdleSlot, OuterPcs
    <2>. HIDE DEF new
    <2>3. CASE slot' = slot
      BY <2>3
    <2>. QED  BY <1>3, <2>1, <2>2, <2>3
  <1>6. CASE LockWorkflow(s) \/ Requeue(s) \/ EndJob(s)
    <2>1. \/ slot[s].pc = "lockWf" /\ Goto(s, "lockRun")
          \/ slot[s].pc = "requeue" /\ Goto(s, "end")
          \/ slot' = [slot EXCEPT ![s] = IdleSlot]
      BY <1>6 DEF LockWorkflow, Requeue, EndJob
    <2>. QED  BY <1>0, <1>3, <1>4, <2>1 DEF OuterPcs
  <1>7. CASE LockRun(s)
    <2>1. CASE Goto(s, "load")
      BY <1>7, <2>1, AfterGoto DEF GoesIn
    <2>. QED  BY <1>1, <1>7, <2>1 DEF LockRun
  <1>8. CASE LoadRun(s)
    <2>1. CASE slot'[s].pc = "start"
      BY <1>8, <2>1, LoadWithin DEF Within, Loads
    <2>2. CASE slot'[s].pc # "start"
      BY <1>8, <2>2, LoadWithin DEF Within, StaysOut, OuterPcs
    <2>. QED  BY <2>1, <2>2
  <1>9. CASE StartRun(s) \/ WalkStep(s) \/ FinishRun(s) \/ BillRun(s) \/ RescueRun(s) \/ RescueBill(s)
    BY <1>9, StepWithin DEF Within, GoesAlong
  <1>10. CASE ParkRun(s)
    BY <1>2, <1>10 DEF ParkRun
  <1>11. CASE UnlockRun(s)
    BY <1>1, <1>11 DEF UnlockRun
  <1>12. CASE ProcessorThrows(s)
    <2>. DEFINE new == [slot[s] EXCEPT !.pc = "lockRun", !.serial = FALSE]
    <2>1. \/ slot[s].pc = "lockWf" /\ slot' = [slot EXCEPT ![s] = new]
          \/ slot[s].pc = "requeue" /\ Goto(s, "end")
          \/ slot' = [slot EXCEPT ![s] = IdleSlot]
      BY <1>12 DEF ProcessorThrows
    <2>2. new.pc = "lockRun" /\ new.state = slot[s].state
      BY SlotFields DEF SlotType
    <2>. HIDE DEF new
    <2>3. CASE slot[s].pc = "lockWf" /\ slot' = [slot EXCEPT ![s] = new]
      BY <2>2, <2>3, OnlyOne DEF StaysOut, OuterPcs
    <2>. QED  BY <1>0, <1>3, <1>4, <2>1, <2>3 DEF OuterPcs
  <1>13. CASE Throw(s)
    <2>. DEFINE new == [slot[s] EXCEPT !.pc = "rescue", !.at = 0, !.result = "none"]
    <2>1. \/ /\ slot[s].pc \in {"steps", "park", "finish", "bill", "audit"} /\ run' = run
             /\ slot' = [slot EXCEPT ![s] = new]
          \/ slot[s].pc = "rescueBill" /\ Goto(s, "rescueAudit") /\ run' = run
          \/ LeaveTo(s, "unlockRun", TRUE)
          \/ Return(s, TRUE)
      BY <1>13 DEF Throw
    <2>2. /\ new.pc = "rescue" /\ new.run = slot[s].run /\ new.job = slot[s].job
          /\ new.serial = slot[s].serial /\ new.state = slot[s].state
      BY SlotFields DEF SlotType
    <2>. HIDE DEF new
    <2>3. CASE /\ slot[s].pc \in {"steps", "park", "finish", "bill", "audit"} /\ run' = run
               /\ slot' = [slot EXCEPT ![s] = new]
      BY <1>13, <2>2, <2>3, OnlyOne DEF Keeps, GoesToRescue
    <2>4. CASE slot[s].pc = "rescueBill" /\ Goto(s, "rescueAudit") /\ run' = run
      BY <1>13, <2>4, AfterGoto DEF GoesToRescue
    <2>. QED  BY <1>1, <1>2, <2>1, <2>3, <2>4
  <1>. QED  BY <1>5, <1>6, <1>7, <1>8, <1>9, <1>10, <1>11, <1>12, <1>13 DEF SlotStep

(* Where one step leaves a request or the tick: it begins to write a run only *)
(* while that is not terminal.                                               *)
Writer(x) == x.pc \in WriterPcs \/ (x.pc = "approve" /\ x.verdict = "approved")
BillPcs == {"timeoutBill", "exhaustBill"}

Onward(c, x) ==
  \/ ~Writer(x)
  \/ /\ x.pc \notin BillPcs
     /\ ~IsTerminal(x.run) \/ (Writer(caller[c]) /\ x.run = caller[c].run)
  \/ /\ TimeOutRun /\ c = Ticker /\ x.run = caller[c].run /\ ~IsTerminal(x.run)
     /\ "run.failed" \in events'[x.run]
  \/ Exhaust /\ c = Ticker /\ x.run = caller[c].run /\ "run.failed" \in events'[x.run]

CallerMove(c) == \E x : caller' = [caller EXCEPT ![c] = x] /\ Onward(c, x)

LEMMA MovedBy ==
  ASSUME NEW c, NEW x, caller' = [caller EXCEPT ![c] = x], Onward(c, x)
  PROVE  CallerMove(c)
  BY DEF CallerMove

LEMMA CallerFields ==
  ASSUME TypeInv, NEW c \in Callers, NEW pc
  PROVE  /\ [caller[c] EXCEPT !.pc = pc].pc = pc
         /\ [caller[c] EXCEPT !.pc = pc].run = caller[c].run
         /\ [caller[c] EXCEPT !.pc = pc].verdict = caller[c].verdict
  BY DEF TypeInv, ActorsOK, GoodCallers, CallerType

LEMMA FinishedMoves ==
  ASSUME NEW c, caller' = [caller EXCEPT ![c] = Finished(c)]
  PROVE  CallerMove(c)
  <1>1. ~Writer(Finished(c))
    BY DEF Writer, WriterPcs, Finished, IdleCaller
  <1>. QED  BY <1>1, MovedBy DEF Onward

LEMMA ProceedMoves ==
  ASSUME TypeInv, NEW c \in Callers, NEW pc, Proceed(c, pc), Writer(caller[c]), pc \notin BillPcs
  PROVE  CallerMove(c)
  <1>. DEFINE new == [caller[c] EXCEPT !.pc = pc]
  <1>1. new.pc = pc /\ new.run = caller[c].run
    BY CallerFields
  <1>2. caller' = [caller EXCEPT ![c] = new]
    BY DEF Proceed
  <1>. HIDE DEF new
  <1>. QED  BY <1>1, <1>2, MovedBy DEF Onward

LEMMA AddJobMoves ==
  ASSUME TypeInv, NEW c \in Callers, AddJob(c)
  PROVE  CallerMove(c)
  <1>. DEFINE new(j) == [caller[c] EXCEPT !.pc = "record", !.job = j]
  <1>1. caller[c].pc = "add" /\ \E j : caller' = [caller EXCEPT ![c] = new(j)]
    BY DEF AddJob
  <1>2. \A j : new(j).pc = "record" /\ new(j).run = caller[c].run
    BY DEF TypeInv, ActorsOK, GoodCallers, CallerType
  <1>. HIDE DEF new
  <1>3. Writer(caller[c]) /\ "record" \notin BillPcs
    BY <1>1 DEF Writer, WriterPcs, BillPcs
  <1>. QED  BY <1>1, <1>2, <1>3, MovedBy DEF Onward

LEMMA RequestMoves ==
  ASSUME TypeInv, NEW c \in Requests, BeginRequest(c) \/ RequestStep(c)
  PROVE  c \in Callers /\ CallerMove(c)
  <1>0. c \in Callers
    BY DEF Callers
  <1>1. ASSUME NEW pc, NEW r \in Runs, NEW job, NEW verdict, Begin(c, pc, r, job, verdict),
               \/ pc \notin BillPcs /\ ~IsTerminal(r)
               \/ pc \notin WriterPcs /\ (pc = "approve" => verdict = "none")
        PROVE  CallerMove(c)
    <2>. DEFINE new == [pc |-> pc, run |-> r, job |-> job, verdict |-> verdict]
    <2>1. new.pc = pc /\ new.run = r /\ new.verdict = verdict
      OBVIOUS
    <2>2. caller' = [caller EXCEPT ![c] = new]
      BY <1>1 DEF Begin
    <2>. HIDE DEF new
    <2>3. Onward(c, new)
      BY <1>1, <2>1 DEF Onward, Writer
    <2>. QED  BY <2>2, <2>3, MovedBy
  <1>2. ASSUME NEW r \in Runs, Submit(c, r) PROVE CallerMove(c)
    BY <1>1, <1>2 DEF Submit, BillPcs, IsTerminal, Terminal
  <1>3. ASSUME NEW r \in Runs, Cancel(c, r) PROVE CallerMove(c)
    BY <1>1, <1>3 DEF Cancel, WriterPcs
  <1>4. ASSUME NEW r \in Runs, ApproveAll(c, r) PROVE CallerMove(c)
    <2>. DEFINE v == IF run[r].status = "paused" THEN "approved" ELSE "none"
    <2>1. Begin(c, "approve", r, None, v)
      BY <1>4 DEF ApproveAll
    <2>2. v = "none" \/ ~IsTerminal(r)
      BY DEF IsTerminal, Terminal
    <2>. HIDE DEF v
    <2>. QED  BY <1>1, <2>1, <2>2 DEF BillPcs, WriterPcs
  <1>5. ASSUME NEW r \in Runs, NEW v, Decide(c, r, v) PROVE CallerMove(c)
    BY <1>1, <1>5 DEF Decide, BillPcs, IsTerminal, Terminal
  <1>6. CASE Answer(c)
    BY <1>0, <1>6, FinishedMoves DEF Answer
  <1>7. CASE TidyCanceled(c) \/ DecideTask(c) \/ ApproveTask(c) \/ MoveRun(c) \/ MoveAll(c)
    <2>1. \/ Answer(c)
          \/ caller[c].pc = "decide" /\ Proceed(c, "move")
          \/ caller[c].pc = "approve" /\ caller[c].verdict = "approved" /\ Proceed(c, "moveAll")
          \/ caller[c].pc \in {"move", "moveAll"} /\ Proceed(c, "add")
      BY <1>7 DEF TidyCanceled, DecideTask, ApproveTask, MoveRun, MoveAll, Requeued
    <2>. QED  BY <1>0, <1>6, <2>1, ProceedMoves DEF Writer, WriterPcs, BillPcs
  <1>8. CASE RecordJob(c)
    BY <1>0, <1>8, FinishedMoves DEF RecordJob
  <1>. QED  BY <1>0, <1>2, <1>3, <1>4, <1>5, <1>7, <1>8, AddJobMoves DEF BeginRequest, RequestStep

LEMMA TickMoves ==
  ASSUME TypeInv, TickerStep \/ \E r \in Runs : BeginSweep(r)
  PROVE  caller' = caller \/ CallerMove(Ticker)
  <1>0. Ticker \in Callers
    BY DEF Callers
  <1>1. ASSUME NEW pc, NEW r, TickTo(pc, r)
        PROVE  \E x : /\ caller' = [caller EXCEPT ![Ticker] = x]
                      /\ x.pc = pc /\ x.run = r /\ x.verdict = "none"
    <2>. DEFINE new == [IdleCaller EXCEPT !.pc = pc, !.run = r]
    <2>1. new.pc = pc /\ new.run = r /\ new.verdict = "none"
      BY DEF IdleCaller
    <2>2. caller' = [caller EXCEPT ![Ticker] = new]
      BY <1>1 DEF TickTo
    <2>. HIDE DEF new
    <2>. QED  BY <2>1, <2>2
  <1>2. ASSUME NEW pc, NEW r, TickTo(pc, r),
               \/ pc \in {"idle", "timeoutRun"}
               \/ /\ pc \notin BillPcs
                  /\ ~IsTerminal(r) \/ (Writer(caller[Ticker]) /\ r = caller[Ticker].run)
        PROVE  CallerMove(Ticker)
    <2>1. PICK x : /\ caller' = [caller EXCEPT ![Ticker] = x]
                   /\ x.pc = pc /\ x.run = r /\ x.verdict = "none"
      BY <1>1, <1>2
    <2>2. pc \in {"idle", "timeoutRun"} => ~Writer(x)
      BY <2>1 DEF Writer, WriterPcs
    <2>3. Onward(Ticker, x)
      BY <1>2, <2>1, <2>2 DEF Onward
    <2>. QED  BY <2>1, <2>3, MovedBy
  <1>3. CASE AddJob(Ticker)
    BY <1>0, <1>3, AddJobMoves
  <1>4. CASE RecordJob(Ticker)
    BY <1>4, FinishedMoves DEF RecordJob
  <1>5. CASE ResumeRun
    BY <1>2, <1>5 DEF ResumeRun, Writer, WriterPcs, BillPcs
  <1>6. CASE TimeOutRun
    <2>. PICK r \in Runs : r = caller[Ticker].run
      BY <1>0, <1>6, BusyCaller DEF TimeOutRun
    <2>1. CASE TickTo("timeoutBill", r) /\ run[r].status = "paused" /\ "run.failed" \in events'[r]
      <3>1. PICK x : caller' = [caller EXCEPT ![Ticker] = x] /\ x.run = r
        BY <1>1, <2>1
      <3>2. Onward(Ticker, x)
        BY <1>6, <2>1, <3>1 DEF Onward, IsTerminal, Terminal
      <3>. QED  BY <3>1, <3>2, MovedBy
    <2>2. CASE TickTo("add", r) /\ run[r].status = "paused"
      BY <1>2, <2>2 DEF BillPcs, IsTerminal, Terminal
    <2>3. CASE TickTo("idle", None)
      BY <1>2, <2>3
    <2>4. events' = [events EXCEPT ![r] = @ \cup {"run.failed"}] => "run.failed" \in events'[r]
      BY DEF TypeInv, RowsOK
    <2>. QED  BY <1>6, <2>1, <2>2, <2>3, <2>4 DEF TimeOutRun
  <1>7. CASE BillFailure
    BY <1>2, <1>7 DEF BillFailure
  <1>8. CASE Exhaust
    <2>. PICK r \in Runs : r = caller[Ticker].run
      BY <1>0, <1>8, BusyCaller DEF Exhaust
    <2>1. TickTo("exhaustBill", r) /\ "run.failed" \in events'[r]
      BY <1>8 DEF Exhaust, TypeInv, RowsOK
    <2>2. PICK x : caller' = [caller EXCEPT ![Ticker] = x] /\ x.run = r
      BY <1>1, <2>1
    <2>3. Onward(Ticker, x)
      BY <1>8, <2>1, <2>2 DEF Onward
    <2>. QED  BY <2>2, <2>3, MovedBy
  <1>9. ASSUME NEW r \in Runs, BeginSweep(r) PROVE caller' = caller \/ CallerMove(Ticker)
    <2>1. CASE LeaseResume(r) \/ SweepStuck(r)
      BY <1>2, <2>1 DEF LeaseResume, SweepStuck, BillPcs, IsTerminal, Terminal
    <2>2. CASE TimeOutTask(r)
      BY <1>2, <2>2 DEF TimeOutTask
    <2>3. CASE SweepStale(r)
      <3>. DEFINE pc == IF run[r].recovery + 1 >= RecoveryLimit THEN "exhaust" ELSE "add"
      <3>1. TickTo(pc, r) /\ pc \notin BillPcs /\ ~IsTerminal(r)
        BY <2>3 DEF SweepStale, BillPcs, IsTerminal, Terminal
      <3>. HIDE DEF pc
      <3>. QED  BY <1>2, <3>1
    <2>4. CASE QueueTimeout(r)
      BY <2>4 DEF QueueTimeout
    <2>. QED  BY <1>9, <2>1, <2>2, <2>3, <2>4 DEF BeginSweep
  <1>. QED  BY <1>3, <1>4, <1>5, <1>6, <1>7, <1>8, <1>9 DEF TickerStep

LEMMA CallerGoes ==
  ASSUME TypeInv, [Next]_vars
  PROVE  \/ caller' = caller
         \/ \E p \in Procs : Crash(p)
         \/ \E c \in Callers : CallerMove(c)
  <1>1. ASSUME NEW s \in Slots, FetchJob(s) \/ SlotStep(s) \/ Throw(s) \/ ProcessorThrows(s)
        PROVE  caller' = caller
    BY <1>1, StepWithin
    DEF FetchJob, SlotStep, Throw, ProcessorThrows, LockWorkflow, LockRun, UnlockRun, Requeue, EndJob
  <1>2. ASSUME NEW c \in Callers, CallerFails(c) PROVE CallerMove(c)
    BY <1>2, FinishedMoves DEF CallerFails
  <1>3. CASE \/ \E s \in Slots, r \in Runs : SubmitSync(s, r)
             \/ \E r \in Runs : DelayElapses(r) \/ ApprovalExpires(r)
             \/ \E j \in JobIds : StalledJob(j)
             \/ \E w \in Workflows : WorkflowLockLapses(w)
             \/ UNCHANGED vars
    BY <1>3 DEF SubmitSync, DelayElapses, ApprovalExpires, StalledJob, WorkflowLockLapses, vars
  <1>4. Ticker \in Callers
    BY DEF Callers
  <1>. QED  BY <1>1, <1>2, <1>3, <1>4, RequestMoves, TickMoves DEF Next, Environment

(* Requests, the ticker and the clocks leave every execution as it is. *)
LEMMA SlotsOfOthers ==
  ASSUME \/ \E c \in Requests : BeginRequest(c) \/ RequestStep(c)
         \/ TickerStep \/ \E r \in Runs : BeginSweep(r)
         \/ \E r \in Runs : DelayElapses(r) \/ ApprovalExpires(r)
         \/ \E j \in JobIds : StalledJob(j)
         \/ \E w \in Workflows : WorkflowLockLapses(w)
         \/ \E c \in Callers : CallerFails(c)
         \/ UNCHANGED vars
  PROVE  UNCHANGED slot
  <1>1. CASE \E c \in Requests : BeginRequest(c) \/ RequestStep(c)
    BY <1>1 DEF BeginRequest, RequestStep, Submit, Cancel, ApproveAll, Decide, MoveRun, DecideTask,
                TidyCanceled, ApproveTask, MoveAll, AddJob, RecordJob
  <1>2. CASE TickerStep \/ \E r \in Runs : BeginSweep(r)
    BY <1>2
    DEF TickerStep, BeginSweep, ResumeRun, TimeOutRun, BillFailure, Exhaust, AddJob, RecordJob,
        LeaseResume, TimeOutTask, SweepStale, SweepStuck, QueueTimeout
  <1>3. CASE \/ \E r \in Runs : DelayElapses(r) \/ ApprovalExpires(r)
             \/ \E j \in JobIds : StalledJob(j)
             \/ \E w \in Workflows : WorkflowLockLapses(w)
             \/ \E c \in Callers : CallerFails(c)
             \/ UNCHANGED vars
    BY <1>3 DEF DelayElapses, ApprovalExpires, StalledJob, WorkflowLockLapses, CallerFails, vars
  <1>. QED  BY <1>1, <1>2, <1>3

LEMMA UsageWritten ==
  ASSUME TypeInv, [Next]_vars
  PROVE  \/ usage' = usage \/ BillFailure
         \/ \E s \in Slots : BillRun(s) \/ RescueBill(s)
         \/ \E r \in Runs : CancelRow(r)
  <1>1. ASSUME NEW s \in Slots, FetchJob(s) \/ SlotStep(s) \/ Throw(s) \/ ProcessorThrows(s),
               ~BillRun(s), ~RescueBill(s)
        PROVE  usage' = usage
    BY <1>1, WalkWithin
    DEF SlotStep, FetchJob, LockWorkflow, LockRun, LoadRun, StartRun, ParkRun, FinishRun, RescueRun,
        UnlockRun, Requeue, EndJob, Throw, ProcessorThrows, dbVars
  <1>2. ASSUME NEW c \in Requests, BeginRequest(c) \/ RequestStep(c)
        PROVE  usage' = usage \/ \E r \in Runs : CancelRow(r)
    <2>1. CASE MoveRun(c)
      <3>1. caller[c].run \in Runs
        BY <2>1, BusyCaller DEF MoveRun, Callers
      <3>. QED  BY <2>1, <3>1 DEF MoveRun, Requeued
    <2>. QED  BY <1>2, <2>1
              DEF BeginRequest, RequestStep, Submit, Cancel, ApproveAll, Decide, DecideTask,
                  TidyCanceled, ApproveTask, MoveAll, Requeued, AddJob, RecordJob, dbVars
  <1>3. CASE TickerStep \/ \E r \in Runs : BeginSweep(r)
    BY <1>3
    DEF TickerStep, BeginSweep, ResumeRun, TimeOutRun, Exhaust, AddJob, RecordJob,
        LeaseResume, TimeOutTask, SweepStale, SweepStuck, QueueTimeout, dbVars
  <1>4. CASE \/ \E s \in Slots, r \in Runs : SubmitSync(s, r)
             \/ \E r \in Runs : DelayElapses(r) \/ ApprovalExpires(r)
             \/ \E j \in JobIds : StalledJob(j)
             \/ \E w \in Workflows : WorkflowLockLapses(w)
             \/ \E c \in Callers : CallerFails(c)
             \/ \E p \in Procs : Crash(p)
             \/ UNCHANGED vars
    BY <1>4 DEF SubmitSync, DelayElapses, ApprovalExpires, StalledJob, WorkflowLockLapses,
                CallerFails, Crash, dbVars, vars
  <1>. QED  BY <1>1, <1>2, <1>3, <1>4 DEF Next, Environment

LEMMA DueStep ==
  ASSUME TypeInv, BillDue, [Next]_vars
  PROVE  BillDue'
  <1>0. \A r \in Runs : events[r] \subseteq events'[r]
    BY EventsGrow
  <1>. DEFINE Due(s) ==
         /\ slot[s].pc = "bill" => Outcome(s) \in events[slot[s].run]
         /\ slot[s].pc = "rescueBill" => "run.failed" \in events[slot[s].run]
  <1>1. ASSUME NEW t \in Slots, slot'[t] = slot[t] PROVE Due(t)'
    <2>1. CASE slot[t].pc \in {"bill", "rescueBill"}
      <3>. PICK r \in Runs : r = slot[t].run /\ r = slot'[t].run
        BY <1>1, <2>1, BusySlot
      <3>1. Outcome(t)' = Outcome(t)
        BY <1>1 DEF Outcome
      <3>. QED  BY <1>0, <1>1, <3>1 DEF BillDue
    <2>. QED  BY <1>1, <2>1
  <1>2. ASSUME NEW s \in Slots, FetchJob(s) \/ SlotStep(s) \/ Throw(s) \/ ProcessorThrows(s)
        PROVE  \A t \in Slots : Due(t)'
    <2>1. slot' = slot \/ (Others(s) /\ slot'[s].pc \notin {"bill", "rescueBill"})
          \/ FinishRun(s) \/ RescueRun(s)
      <3>1. CASE Others(s) /\ (StaysOut(s) \/ GoesIn(s) \/ Loads(s) \/ GoesToRescue(s))
        BY <3>1 DEF StaysOut, OuterPcs, GoesIn, Loads, GoesToRescue
      <3>2. CASE StartRun(s)
        BY <3>2, AfterWalkOn DEF StartRun
      <3>3. CASE WalkStep(s)
        BY <3>3, WalkWithin DEF Within, WalkPcs
      <3>4. CASE BillRun(s) \/ RescueBill(s)
        BY <3>4, AfterGoto DEF BillRun, RescueBill
      <3>. QED  BY <1>2, <3>1, <3>2, <3>3, <3>4, SlotGoes DEF GoesAlong
    <2>2. CASE FinishRun(s) \/ RescueRun(s)
      <3>. PICK r \in Runs : r = slot[s].run
        BY <2>2, BusySlot DEF FinishRun, RescueRun
      <3>1. /\ Others(s) /\ slot'[s].run = r /\ slot'[s].result = slot[s].result
            /\ FinishRun(s) => slot'[s].pc = "bill"
            /\ RescueRun(s) => slot'[s].pc = "rescueBill"
        BY <2>2, AfterGoto DEF FinishRun, RescueRun, Keeps
      <3>2. /\ FinishRun(s) => Outcome(s) \in events'[r]
            /\ RescueRun(s) => "run.failed" \in events'[r]
        BY DEF FinishRun, RescueRun, TypeInv, RowsOK
      <3>3. Outcome(s)' = Outcome(s)
        BY <3>1 DEF Outcome
      <3>4. Due(s)'
        BY <2>2, <3>1, <3>2, <3>3
      <3>. QED  BY <1>1, <3>1, <3>4 DEF Others
    <2>3. CASE Others(s) /\ slot'[s].pc \notin {"bill", "rescueBill"}
      BY <1>1, <2>3 DEF Others
    <2>. QED  BY <1>1, <2>1, <2>2, <2>3
  <1>3. ASSUME NEW s \in Slots, NEW r \in Runs, SubmitSync(s, r)
        PROVE  \A t \in Slots : Due(t)'
    <2>. DEFINE new == [IdleSlot EXCEPT !.pc = "lockRun", !.run = r]
    <2>1. new.pc = "lockRun" /\ slot' = [slot EXCEPT ![s] = new]
      BY <1>3 DEF SubmitSync, IdleSlot
    <2>. HIDE DEF new
    <2>2. Others(s) /\ slot'[s].pc = "lockRun"
      BY <2>1, OnlyOne
    <2>. QED  BY <1>1, <2>2 DEF Others
  <1>4. ASSUME NEW p \in Procs, Crash(p) PROVE \A t \in Slots : Due(t)'
    <2>1. \A t \in Slots : slot'[t] = slot[t] \/ slot'[t].pc = "idle"
      BY <1>4 DEF Crash, IdleSlot
    <2>. QED  BY <1>1, <2>1
  <1>5. ASSUME UNCHANGED slot PROVE \A t \in Slots : Due(t)'
    BY <1>1, <1>5
  <1>6. \A t \in Slots : Due(t)'
    BY <1>2, <1>3, <1>4, <1>5, SlotsOfOthers DEF Next, Environment
  <1>7. ASSUME caller'[Ticker].pc \in BillPcs PROVE "run.failed" \in events'[caller'[Ticker].run]
    <2>0. Ticker \in Callers
      BY DEF Callers
    <2>1. CASE caller'[Ticker] = caller[Ticker]
      <3>. PICK r \in Runs : r = caller[Ticker].run /\ r = caller'[Ticker].run
        BY <1>7, <2>0, <2>1, BusyCaller DEF BillPcs
      <3>. QED  BY <1>0, <1>7, <2>1 DEF BillDue, BillPcs
    <2>2. ASSUME NEW p \in Procs, Crash(p) PROVE caller'[Ticker] = caller[Ticker]
      BY <1>7, <2>0, <2>2 DEF Crash, Finished, IdleCaller, BillPcs
    <2>3. ASSUME NEW c \in Callers, NEW x, caller' = [caller EXCEPT ![c] = x], Onward(c, x)
          PROVE  "run.failed" \in events'[caller'[Ticker].run]
      <3>1. CASE c = Ticker
        <4>1. caller'[Ticker] = x /\ Writer(x)
          BY <1>7, <2>0, <2>3, <3>1 DEF TypeInv, ActorsOK, Writer, WriterPcs, BillPcs
        <4>. QED  BY <1>7, <2>3, <4>1 DEF Onward
      <3>2. CASE c # Ticker
        BY <2>0, <2>1, <2>3, <3>2 DEF TypeInv, ActorsOK
      <3>. QED  BY <3>1, <3>2
    <2>. QED  BY <2>1, <2>2, <2>3, CallerGoes DEF CallerMove
  <1>. QED  BY <1>6, <1>7 DEF BillDue, BillPcs

LEMMA BillsStep ==
  ASSUME TypeInv, BillsInv, [Next]_vars
  PROVE  BillsMatchFeed'
  <1>0. BillsMatchFeed /\ BillDue /\ \A r \in Runs : events[r] \subseteq events'[r]
    BY EventsGrow DEF BillsInv
  <1>1. CASE usage' = usage
    BY <1>0, <1>1, BillsKept
  <1>2. ASSUME NEW s \in Slots, BillRun(s) \/ RescueBill(s) PROVE BillsMatchFeed'
    <2>. PICK r \in Runs : r = slot[s].run
      BY <1>2, BusySlot DEF BillRun, RescueBill
    <2>1. CASE BillRun(s)
      BY <1>0, <2>1, BilledForAdds DEF BillRun, BillDue
    <2>2. CASE RescueBill(s)
      BY <1>0, <2>2, BilledForAdds DEF RescueBill, BillDue
    <2>. QED  BY <1>2, <2>1, <2>2
  <1>3. CASE BillFailure
    <2>. PICK r \in Runs : r = caller[Ticker].run
      BY <1>3, BusyCaller DEF BillFailure, Callers
    <2>. QED  BY <1>0, <1>3, BilledForAdds DEF BillFailure, BillDue
  <1>4. ASSUME NEW r \in Runs, CancelRow(r) PROVE BillsMatchFeed'
    BY <1>0, <1>4 DEF CancelRow, BilledFor, BillsMatchFeed, TypeInv, RowsOK
  <1>5. \/ usage' = usage \/ BillFailure
        \/ \E s \in Slots : BillRun(s) \/ RescueBill(s)
        \/ \E r \in Runs : CancelRow(r)
    BY UsageWritten
  <1>. QED  BY <1>1, <1>2, <1>3, <1>4, <1>5

(* Whoever bills a run bills a transition that the feed of the run shows, for *)
(* every interleaving of executor, cancel route and ticker.                  *)
THEOREM BillsAreTrue == Spec => []BillsMatchFeed
  <1>1. Init => TypeInv /\ BillsInv
    BY TypeInit DEF Init, BillsInv, BillsMatchFeed, BillDue, IdleSlot, IdleCaller, Callers
  <1>2. TypeInv /\ BillsInv /\ [Next]_vars => (TypeInv /\ BillsInv)'
    BY TypeStep, DueStep, BillsStep DEF BillsInv
  <1>3. BillsInv => BillsMatchFeed
    BY DEF BillsInv
  <1>. QED  BY <1>1, <1>2, <1>3, PTL DEF Spec

----------------------------------------------------------------------------
(* Who writes the row or the bill of a run: an execution inside its try       *)
(* block, a caller that has read the run before, or one that finds it live.   *)

ActivePcs == LockedPcs \ {"load", "unlockRun"}

OnlyRow(r) == \A q \in Runs \ {r} : run'[q] = run[q] /\ usage'[q] = usage[q]

RowWritten ==
  \/ UNCHANGED <<run, usage>>
  \/ \E s \in Slots : slot[s].pc \in ActivePcs /\ OnlyRow(slot[s].run)
  \/ \E c \in Callers : Writer(caller[c]) /\ OnlyRow(caller[c].run)
  \/ \E r \in Runs : ~IsTerminal(r) /\ OnlyRow(r)

LEMMA OnlyRowBilled ==
  ASSUME TypeInv, NEW r, NEW type,
         run' = run, usage' = BilledFor(r, type)
  PROVE  OnlyRow(r)
  BY DEF OnlyRow, BilledFor, TypeInv, RowsOK

LEMMA OnlyRowCanceled ==
  ASSUME TypeInv, NEW r, CancelRow(r)
  PROVE  OnlyRow(r)
  BY DEF OnlyRow, CancelRow, BilledFor, TypeInv, RowsOK

LEMMA SlotWrites ==
  ASSUME TypeInv, NEW s \in Slots,
         FetchJob(s) \/ SlotStep(s) \/ Throw(s) \/ ProcessorThrows(s)
  PROVE  RowWritten
  <1>. DEFINE r == slot[s].run
  <1>1. CASE \/ FetchJob(s) \/ LockWorkflow(s) \/ LockRun(s) \/ LoadRun(s) \/ WalkStep(s)
             \/ UnlockRun(s) \/ EndJob(s) \/ ProcessorThrows(s)
    BY <1>1, WalkWithin
    DEF RowWritten, FetchJob, LockWorkflow, LockRun, LoadRun, UnlockRun, EndJob, ProcessorThrows, dbVars
  <1>2. CASE StartRun(s) \/ ParkRun(s) \/ FinishRun(s) \/ RescueRun(s)
    <2>1. OnlyRow(r)
      BY <1>2 DEF OnlyRow, StartRun, Started, ParkRun, FinishRun, RescueRun, TypeInv
    <2>. QED  BY <1>2, <2>1 DEF RowWritten, StartRun, ParkRun, FinishRun, RescueRun, ActivePcs, LockedPcs
  <1>3. CASE BillRun(s) \/ RescueBill(s)
    <2>1. OnlyRow(r)
      BY <1>3, OnlyRowBilled DEF BillRun, RescueBill
    <2>. QED  BY <1>3, <2>1 DEF RowWritten, BillRun, RescueBill, ActivePcs, LockedPcs
  <1>4. CASE Throw(s)
    <2>1. CASE slot[s].pc = "start" /\ run' = Started(r)
      <3>1. OnlyRow(r)
        BY <1>4, <2>1 DEF Throw, OnlyRow, Started, TypeInv
      <3>. QED  BY <2>1, <3>1 DEF RowWritten, ActivePcs, LockedPcs
    <2>. QED  BY <1>4, <2>1 DEF Throw, RowWritten
  <1>5. CASE Requeue(s)
    <2>1. CASE run' = run
      BY <1>5, <2>1 DEF Requeue, RowWritten
    <2>2. CASE run' # run
      <3>. PICK q \in Runs : q = r
        BY <1>5, BusySlot DEF Requeue
      <3>1. OnlyRow(q) /\ ~IsTerminal(q)
        BY <1>5, <2>2 DEF Requeue, OnlyRow, TypeInv, IsTerminal, Terminal
      <3>. QED  BY <3>1 DEF RowWritten
    <2>. QED  BY <2>1, <2>2
  <1>. QED  BY <1>1, <1>2, <1>3, <1>4, <1>5 DEF SlotStep

LEMMA CallerWrites ==
  ASSUME TypeInv, NEW c \in Callers,
         \/ RecordJob(c) \/ MoveRun(c) \/ MoveAll(c)
         \/ c = Ticker /\ (ResumeRun \/ BillFailure \/ Exhaust)
  PROVE  RowWritten
  <1>. DEFINE r == caller[c].run
  <1>1. Writer(caller[c])
    BY DEF RecordJob, MoveRun, MoveAll, ResumeRun, BillFailure, Exhaust, Writer, WriterPcs
  <1>2. OnlyRow(r)
    <2>1. CASE RecordJob(c) \/ MoveAll(c)
      BY <2>1 DEF RecordJob, MoveAll, Requeued, OnlyRow, TypeInv
    <2>2. CASE MoveRun(c)
      <3>1. CASE CancelRow(r)
        BY <3>1, OnlyRowCanceled
      <3>2. CASE Requeued(c, r)
        BY <3>2 DEF Requeued, OnlyRow, TypeInv
      <3>. QED  BY <2>2, <3>1, <3>2 DEF MoveRun
    <2>3. CASE c = Ticker /\ (ResumeRun \/ Exhaust)
      BY <2>3 DEF ResumeRun, Exhaust, OnlyRow, TypeInv
    <2>4. CASE c = Ticker /\ BillFailure
      BY <2>4, OnlyRowBilled DEF BillFailure
    <2>. QED  BY <2>1, <2>2, <2>3, <2>4
  <1>. QED  BY <1>1, <1>2 DEF RowWritten

LEMMA LiveRowWrites ==
  ASSUME TypeInv, NEW c, NEW r \in Runs,
         \/ Submit(c, r) \/ Cancel(c, r) \/ SweepStale(r) \/ QueueTimeout(r)
         \/ \E s \in Slots : SubmitSync(s, r)
         \/ TimeOutRun /\ r = caller[Ticker].run /\ run' # run
  PROVE  RowWritten
  <1>1. ~IsTerminal(r)
    BY DEF Submit, Cancel, SweepStale, QueueTimeout, SubmitSync, TimeOutRun, IsTerminal, Terminal,
           Active
  <1>2. OnlyRow(r)
    <2>1. CASE Cancel(c, r)
      BY <2>1, OnlyRowCanceled DEF Cancel
    <2>2. CASE Submit(c, r) \/ \E s \in Slots : SubmitSync(s, r)
      BY <2>2 DEF Submit, SubmitSync, OnlyRow, TypeInv
    <2>3. CASE SweepStale(r) \/ QueueTimeout(r)
      BY <2>3 DEF SweepStale, QueueTimeout, OnlyRow, TypeInv
    <2>4. CASE TimeOutRun /\ r = caller[Ticker].run /\ run' # run
      BY <2>4 DEF TimeOutRun, OnlyRow, TypeInv
    <2>. QED  BY <2>1, <2>2, <2>3, <2>4
  <1>. QED  BY <1>1, <1>2 DEF RowWritten

LEMMA RowGoes ==
  ASSUME TypeInv, [Next]_vars
  PROVE  RowWritten
  <1>1. CASE UNCHANGED <<run, usage>>
    BY <1>1 DEF RowWritten
  <1>2. ASSUME NEW c \in Requests, BeginRequest(c) \/ RequestStep(c) PROVE RowWritten
    <2>1. c \in Callers
      BY DEF Callers
    <2>2. CASE \/ \E r \in Runs : ApproveAll(c, r) \/ \E v \in {"approved", "rejected"} : Decide(c, r, v)
               \/ TidyCanceled(c) \/ DecideTask(c) \/ ApproveTask(c) \/ AddJob(c)
      BY <1>1, <2>2 DEF ApproveAll, Decide, TidyCanceled, DecideTask, ApproveTask, AddJob, dbVars
    <2>. QED  BY <1>2, <2>1, <2>2, CallerWrites, LiveRowWrites DEF BeginRequest, RequestStep
  <1>3. CASE TickerStep
    <2>0. Ticker \in Callers
      BY DEF Callers
    <2>1. CASE TimeOutRun
      <3>. PICK r \in Runs : r = caller[Ticker].run
        BY <2>0, <2>1, BusyCaller DEF TimeOutRun
      <3>1. CASE run' = run
        BY <1>1, <2>1, <3>1 DEF TimeOutRun
      <3>. QED  BY <2>1, <3>1, LiveRowWrites
    <2>2. CASE AddJob(Ticker)
      BY <1>1, <2>2 DEF AddJob, dbVars
    <2>. QED  BY <1>3, <2>0, <2>1, <2>2, CallerWrites DEF TickerStep
  <1>4. ASSUME NEW r \in Runs, BeginSweep(r) PROVE RowWritten
    <2>1. CASE LeaseResume(r) \/ TimeOutTask(r) \/ SweepStuck(r)
      BY <1>1, <2>1 DEF LeaseResume, TimeOutTask, SweepStuck, dbVars
    <2>. QED  BY <1>4, <2>1, LiveRowWrites DEF BeginSweep
  <1>5. CASE \/ \E r \in Runs : DelayElapses(r) \/ ApprovalExpires(r)
             \/ \E j \in JobIds : StalledJob(j)
             \/ \E w \in Workflows : WorkflowLockLapses(w)
             \/ \E c \in Callers : CallerFails(c)
             \/ \E p \in Procs : Crash(p)
             \/ UNCHANGED vars
    BY <1>1, <1>5 DEF DelayElapses, ApprovalExpires, StalledJob, WorkflowLockLapses, CallerFails,
                      Crash, dbVars, vars
  <1>. QED  BY <1>2, <1>3, <1>4, <1>5, SlotWrites, LiveRowWrites DEF Next, Environment

(* Nobody begins to write a run that is terminal. *)
LEMMA NoNewSlotWriter ==
  ASSUME TypeInv, [Next]_vars, NEW r \in Runs, IsTerminal(r),
         NEW t \in Slots, slot'[t].run = r, slot'[t].pc \in ActivePcs
  PROVE  slot[t].run = r /\ slot[t].pc \in ActivePcs
  <1>1. CASE slot'[t] = slot[t]
    BY <1>1
  <1>2. ASSUME NEW s \in Slots, FetchJob(s) \/ SlotStep(s) \/ Throw(s) \/ ProcessorThrows(s)
        PROVE  slot[t].run = r /\ slot[t].pc \in ActivePcs
    <2>1. CASE t = s /\ (StaysOut(s) \/ GoesIn(s))
      BY <2>1 DEF StaysOut, OuterPcs, GoesIn, ActivePcs, LockedPcs
    <2>2. CASE t = s /\ Loads(s)
      <3>1. slot[s].run = r
        BY <2>2 DEF Loads, Keeps
      <3>2. LeaveTo(s, "unlockRun", FALSE)
        BY <2>2, <3>1 DEF Loads, LoadRun
      <3>. QED  BY <2>2, <3>2, AfterLeave DEF ActivePcs
    <2>3. CASE t = s /\ (StartRun(s) \/ GoesAlong(s))
      <3>1. Within(s)
        BY <2>3, StepWithin DEF GoesAlong
      <3>2. slot[s].pc \in ActivePcs
        BY <2>3, WalkWithin DEF GoesAlong, StartRun, FinishRun, BillRun, RescueRun, RescueBill,
                                ActivePcs, LockedPcs
      <3>. QED  BY <2>3, <3>1, <3>2 DEF Within, Keeps
    <2>4. CASE t = s /\ GoesToRescue(s)
      BY <2>4 DEF GoesToRescue, Keeps, ActivePcs, LockedPcs
    <2>. QED  BY <1>1, <1>2, <2>1, <2>2, <2>3, <2>4, SlotGoes DEF Others
  <1>3. ASSUME NEW s \in Slots, NEW q \in Runs, SubmitSync(s, q)
        PROVE  slot[t].run = r /\ slot[t].pc \in ActivePcs
    <2>. DEFINE new == [IdleSlot EXCEPT !.pc = "lockRun", !.run = q]
    <2>1. new.pc = "lockRun" /\ slot' = [slot EXCEPT ![s] = new]
      BY <1>3 DEF SubmitSync, IdleSlot
    <2>. HIDE DEF new
    <2>2. Others(s) /\ slot'[s].pc = "lockRun"
      BY <2>1, OnlyOne
    <2>. QED  BY <1>1, <2>2 DEF Others, ActivePcs, LockedPcs
  <1>4. ASSUME NEW p \in Procs, Crash(p) PROVE slot'[t] = slot[t]
    BY <1>4 DEF Crash, IdleSlot, ActivePcs, LockedPcs
  <1>. QED  BY <1>1, <1>2, <1>3, <1>4, SlotsOfOthers DEF Next, Environment

LEMMA NoNewCallerWriter ==
  ASSUME TypeInv, [Next]_vars, NEW r \in Runs, IsTerminal(r),
         NEW d \in Callers, caller'[d].run = r, Writer(caller'[d])
  PROVE  caller[d].run = r /\ Writer(caller[d])
  <1>1. CASE caller'[d] = caller[d]
    BY <1>1
  <1>2. ASSUME NEW p \in Procs, Crash(p) PROVE caller'[d] = caller[d]
    <2>1. ~Writer(Finished(d))
      BY DEF Writer, WriterPcs, Finished, IdleCaller
    <2>. QED  BY <1>2, <2>1 DEF Crash
  <1>3. ASSUME NEW c \in Callers, NEW x, caller' = [caller EXCEPT ![c] = x], Onward(c, x)
        PROVE  caller[d].run = r /\ Writer(caller[d])
    <2>1. CASE c # d
      BY <1>1, <1>3, <2>1 DEF TypeInv, ActorsOK
    <2>2. CASE c = d
      <3>1. caller'[d] = x
        BY <1>3, <2>2 DEF TypeInv, ActorsOK
      <3>2. c = Ticker /\ Exhaust => Writer(caller[c])
        BY DEF Exhaust, Writer, WriterPcs
      <3>. QED  BY <1>3, <2>2, <3>1, <3>2 DEF Onward
    <2>. QED  BY <2>1, <2>2
  <1>. QED  BY <1>1, <1>2, <1>3, CallerGoes DEF CallerMove

LEMMA SettledStep ==
  ASSUME TypeInv, [Next]_vars, NEW r \in Runs, Settled(r)
  PROVE  Settled(r)' /\ UNCHANGED <<run[r], usage[r]>>
  <1>1. /\ IsTerminal(r)
        /\ \A s \in Slots : ~(slot[s].run = r /\ slot[s].pc \in ActivePcs)
        /\ \A c \in Callers : ~(caller[c].run = r /\ Writer(caller[c]))
    BY DEF Settled, MayStillWrite, ActivePcs, Writer
  <1>2. run'[r] = run[r] /\ usage'[r] = usage[r]
    BY <1>1, RowGoes DEF RowWritten, OnlyRow
  <1>3. \A s \in Slots : ~(slot'[s].run = r /\ slot'[s].pc \in ActivePcs)
    BY <1>1, NoNewSlotWriter
  <1>4. \A c \in Callers : ~(caller'[c].run = r /\ Writer(caller'[c]))
    BY <1>1, NoNewCallerWriter
  <1>5. IsTerminal(r)' /\ ~MayStillWrite(r)'
    BY <1>1, <1>2, <1>3, <1>4 DEF IsTerminal, MayStillWrite, ActivePcs, Writer
  <1>. QED  BY <1>2, <1>5 DEF Settled

(* Once a run is terminal and all that had read it before have written, no    *)
(* job, redelivery, sweep or request changes its row or its bills.           *)
THEOREM SettledStaysSettled == Spec => SettledIsFinal
  <1>1. Init => TypeInv
    BY TypeInit
  <1>2. TypeInv /\ [Next]_vars => TypeInv'
    BY TypeStep
  <1>3. TypeInv /\ [Next]_vars =>
          [\A r \in Runs : Settled(r) => Settled(r)' /\ UNCHANGED <<run[r], usage[r]>>]_vars
    BY SettledStep
  <1>. QED  BY <1>1, <1>2, <1>3, PTL DEF Spec, SettledIsFinal

----------------------------------------------------------------------------
(* Progress *)

StepsOf(r) == 1 .. Len(version[r].steps)

(* An execution outside the locked section has forgotten its state; one that *)
(* walks has come to a step that is not done, and unless a step failed has   *)
(* done all before it; one that succeeds has done them all.                  *)
Progress(s) ==
  /\ slot[s].pc \notin ActivePcs => slot[s].state = FreshState
  /\ slot[s].pc \in ActivePcs => slot[s].state.done \subseteq StepsOf(slot[s].run)
  /\ slot[s].pc = "steps" =>
       /\ slot[s].at \in StepsOf(slot[s].run) \ slot[s].state.done
       /\ ~slot[s].state.failed => 1 .. slot[s].at - 1 \subseteq slot[s].state.done
  /\ slot[s].pc = "finish" /\ slot[s].result = "succeeded" =>
       StepsOf(slot[s].run) \subseteq slot[s].state.done

RowSound(r) ==
  /\ run[r].state.done \subseteq StepsOf(r)
  /\ run[r].status = "succeeded" => StepsOf(r) \subseteq run[r].state.done

ProgressInv == (\A s \in Slots : Progress(s)) /\ (\A r \in Runs : RowSound(r))

LEMMA VersionStays ==
  ASSUME TypeInv, [Next]_vars
  PROVE  version' = version
  <1>1. ASSUME NEW s \in Slots, FetchJob(s) \/ SlotStep(s) \/ Throw(s) \/ ProcessorThrows(s)
        PROVE  version' = version
    BY <1>1, WalkWithin
    DEF SlotStep, FetchJob, LockWorkflow, LockRun, LoadRun, StartRun, ParkRun, FinishRun, BillRun,
        RescueRun, RescueBill, UnlockRun, Requeue, EndJob, Throw, ProcessorThrows, dbVars
  <1>2. ASSUME NEW c \in Requests, BeginRequest(c) \/ RequestStep(c) PROVE version' = version
    BY <1>2 DEF BeginRequest, RequestStep, Submit, Cancel, ApproveAll, Decide, DecideTask, MoveRun,
                TidyCanceled, ApproveTask, MoveAll, AddJob, RecordJob, dbVars
  <1>3. CASE TickerStep \/ \E r \in Runs : BeginSweep(r)
    BY <1>3
    DEF TickerStep, BeginSweep, ResumeRun, TimeOutRun, BillFailure, Exhaust, AddJob, RecordJob,
        LeaseResume, TimeOutTask, SweepStale, SweepStuck, QueueTimeout, dbVars
  <1>4. CASE \/ \E s \in Slots, r \in Runs : SubmitSync(s, r)
             \/ \E r \in Runs : DelayElapses(r) \/ ApprovalExpires(r)
             \/ \E j \in JobIds : StalledJob(j)
             \/ \E w \in Workflows : WorkflowLockLapses(w)
             \/ \E c \in Callers : CallerFails(c)
             \/ \E p \in Procs : Crash(p)
             \/ UNCHANGED vars
    BY <1>4 DEF SubmitSync, DelayElapses, ApprovalExpires, StalledJob, WorkflowLockLapses,
                CallerFails, Crash, dbVars, vars
  <1>. QED  BY <1>1, <1>2, <1>3, <1>4 DEF Next, Environment

LEMMA ManifestLength ==
  ASSUME TypeInv, NEW r \in Runs
  PROVE  /\ Len(version[r].steps) \in Nat /\ version[r].steps \in Seq(StepKinds)
         /\ version[r] \in Versions
  BY ConstantsAssumption DEF TypeInv, RowsOK, VersionType

(* A walk that goes on from position i with all before it done. *)
LEMMA WalkOnProgress ==
  ASSUME TypeInv, version' = version, NEW s \in Slots, slot[s].pc # "idle",
         NEW st \in StateType, NEW i \in Nat \ {0}, WalkOn(s, st, i),
         st.done \subseteq StepsOf(slot[s].run),
         ~st.failed => 1 .. i - 1 \subseteq st.done
  PROVE  Progress(s)'
  <1>. PICK r \in Runs : r = slot[s].run
    BY BusySlot
  <1>. DEFINE n == Len(version[r].steps)
  <1>1. n \in Nat /\ StepsOf(r) = 1 .. n /\ StepsOf(r)' = 1 .. n
    BY ManifestLength DEF StepsOf
  <1>2. /\ Others(s) /\ slot'[s].run = r /\ slot'[s].state = st
        /\ \/ /\ slot'[s].pc = "finish"
              /\ slot'[s].result = IF st.failed THEN "failed" ELSE "succeeded"
              /\ (i .. n) \subseteq st.done
           \/ /\ slot'[s].pc = "steps" /\ slot'[s].at \in (i .. n) \ st.done
              /\ \A l \in (i .. n) \ st.done : slot'[s].at <= l
    BY AfterWalkOn DEF Keeps, Manifest
  <1>. HIDE DEF n
  <1>3. CASE slot'[s].pc = "finish" /\ (i .. n) \subseteq st.done
             /\ slot'[s].result = IF st.failed THEN "failed" ELSE "succeeded"
    <2>1. slot'[s].result = "succeeded" => 1 .. n \subseteq st.done
      <3>1. ~st.failed => \A k \in 1 .. n : k \in 1 .. i - 1 \/ k \in i .. n
        BY <1>1
      <3>. QED  BY <1>3, <3>1
    <2>. QED  BY <1>1, <1>2, <1>3, <2>1 DEF Progress, ActivePcs, LockedPcs
  <1>4. CASE slot'[s].pc = "steps" /\ slot'[s].at \in (i .. n) \ st.done
             /\ \A l \in (i .. n) \ st.done : slot'[s].at <= l
    <2>. PICK at \in (i .. n) \ st.done : at = slot'[s].at
      BY <1>4
    <2>1. at \in (1 .. n) \ st.done
      BY <1>1
    <2>2. ASSUME ~st.failed, NEW k \in 1 .. at - 1 PROVE k \in st.done
      <3>1. k \in 1 .. i - 1 \/ k \in i .. n
        BY <1>1, <2>1
      <3>2. ~(at <= k)
        BY <1>1, <2>1
      <3>. QED  BY <1>4, <2>2, <3>1, <3>2
    <2>. QED  BY <1>1, <1>2, <1>4, <2>1, <2>2 DEF Progress, ActivePcs, LockedPcs
  <1>. QED  BY <1>2, <1>3, <1>4

(* An execution that stays inside, away from the walk and its success. *)
LEMMA OtherProgress ==
  ASSUME TypeInv, version' = version, NEW s \in Slots, Keeps(s), slot[s].pc # "idle",
         slot'[s].state.done \subseteq StepsOf(slot[s].run),
         slot'[s].pc \in ActivePcs, slot'[s].pc # "steps",
         slot'[s].pc = "finish" => slot'[s].result # "succeeded"
  PROVE  Progress(s)'
  <1>. PICK r \in Runs : r = slot[s].run
    BY BusySlot
  <1>1. StepsOf(r)' = StepsOf(r)
    BY DEF StepsOf
  <1>. QED  BY <1>1 DEF Progress, Keeps

LEMMA FreshProgress ==
  ASSUME NEW s \in Slots, slot'[s].pc \notin ActivePcs, slot'[s].state = FreshState
  PROVE  Progress(s)'
  BY DEF Progress, ActivePcs, LockedPcs

(* What a step writes into the state of its execution. *)
LEMMA StateWrites ==
  ASSUME NEW st \in StateType, NEW k \in 1 .. MaxSteps
  PROVE  /\ [st EXCEPT !.delayAt = k] \in StateType
         /\ [st EXCEPT !.delayAt = k].done = st.done
         /\ [st EXCEPT !.delayAt = 0] \in StateType
         /\ [st EXCEPT !.delayAt = 0].done = st.done
         /\ [st EXCEPT !.delayAt = 0].failed = st.failed
         /\ [st EXCEPT !.approvalAt = k] \in StateType
         /\ [st EXCEPT !.approvalAt = k].done = st.done
         /\ [st EXCEPT !.approvalAt = 0] \in StateType
         /\ [st EXCEPT !.approvalAt = 0].done = st.done
         /\ [st EXCEPT !.approvalAt = 0].failed = st.failed
         /\ [st EXCEPT !.failed = TRUE] \in StateType
         /\ [st EXCEPT !.failed = TRUE].done = st.done
         /\ [st EXCEPT !.failed = TRUE].failed
         /\ [st EXCEPT !.done = @ \cup {k}] \in StateType
         /\ [st EXCEPT !.done = @ \cup {k}].done = st.done \cup {k}
         /\ [st EXCEPT !.done = @ \cup {k}].failed = st.failed
  <1>1. k \in 0 .. MaxSteps /\ 0 \in 0 .. MaxSteps /\ st.done \cup {k} \in SUBSET (1 .. MaxSteps)
    BY ConstantsAssumption DEF StateType
  <1>2. st.done \cup {k} = [st EXCEPT !.done = @ \cup {k}].done
    BY DEF StateType
  <1>3. [st EXCEPT !.done = @ \cup {k}] \in StateType
    BY <1>1 DEF StateType
  <1>. QED  BY <1>1, <1>2, <1>3 DEF StateType

(* The four ways in which a step of the walk ends, and what each makes of the *)
(* execution: st is its state, up to what the step has noted in it.           *)
StepEnds(s) ==
  \E st \in StateType :
    /\ st.done = slot[s].state.done
    /\ \/ Completed(s, st) /\ st.failed = slot[s].state.failed
       \/ StepFailed(s, st)
       \/ EndsFailed(s, st)
       \/ \E result : Parked(s, st, result)

LEMMA WalkEnds ==
  ASSUME TypeInv, NEW s \in Slots, WalkStep(s)
  PROVE  StepEnds(s) /\ slot[s].at \in 1 .. MaxSteps
  <1>. DEFINE st == slot[s].state
              at == slot[s].at
  <1>1. slot[s].pc = "steps" /\ st \in StateType
    BY WalkWithin, BusySlot
  <1>2. at \in 1 .. MaxSteps
    BY <1>1, ConstantsAssumption DEF TypeInv, ActorsOK, GoodSlots, SlotType
  <1>. HIDE DEF st, at
  <1>3. CASE StopWalk(s)
    BY <1>1, <1>2, <1>3 DEF StopWalk, StepEnds, st, at
  <1>4. CASE FailStep(s)
    BY <1>1, <1>2, <1>4 DEF FailStep, StepEnds, st, at
  <1>5. CASE WorkStep(s)
    BY <1>1, <1>2, <1>5 DEF WorkStep, StepEnds, st, at
  <1>6. CASE DelayStep(s)
    <2>. DEFINE waits == [st EXCEPT !.delayAt = at]
                over == [st EXCEPT !.delayAt = 0]
    <2>1. /\ waits \in StateType /\ waits.done = st.done
          /\ over \in StateType /\ over.done = st.done /\ over.failed = st.failed
      BY <1>1, <1>2, StateWrites
    <2>2. Parked(s, waits, "waiting") \/ Completed(s, over) \/ Parked(s, st, "waiting")
      BY <1>6 DEF DelayStep, st, at
    <2>. HIDE DEF waits, over
    <2>. QED  BY <1>1, <1>2, <2>1, <2>2 DEF StepEnds, st, at
  <1>7. CASE OpenApproval(s)
    <2>. DEFINE asked == [st EXCEPT !.approvalAt = at]
    <2>1. asked \in StateType /\ asked.done = st.done
      BY <1>1, <1>2, StateWrites
    <2>2. Parked(s, asked, "paused") \/ StepFailed(s, asked)
      BY <1>7 DEF OpenApproval, st, at
    <2>. HIDE DEF asked
    <2>. QED  BY <1>2, <2>1, <2>2 DEF StepEnds, st, at
  <1>8. CASE ResumeApproval(s)
    <2>. DEFINE decided == [st EXCEPT !.approvalAt = 0]
    <2>1. decided \in StateType /\ decided.done = st.done /\ decided.failed = st.failed
      BY <1>1, <1>2, StateWrites
    <2>2. \/ Parked(s, st, "paused") \/ Completed(s, decided)
          \/ StepFailed(s, decided) \/ StepFailed(s, st)
      BY <1>8 DEF ResumeApproval, st
    <2>. HIDE DEF decided
    <2>. QED  BY <1>1, <1>2, <2>1, <2>2 DEF StepEnds, st, at
  <1>. QED  BY <1>2, <1>3, <1>4, <1>5, <1>6, <1>7, <1>8 DEF WalkStep, at

LEMMA WalkProgress ==
  ASSUME TypeInv, version' = version, NEW s \in Slots, WalkStep(s), Progress(s)
  PROVE  Progress(s)'
  <1>. DEFINE at == slot[s].at
              done == slot[s].state.done
  <1>. PICK r \in Runs : r = slot[s].run
    BY WalkWithin, BusySlot
  <1>1. /\ slot[s].pc = "steps" /\ slot[s].pc # "idle" /\ slot[s].pc \in ActivePcs
        /\ at \in 1 .. MaxSteps /\ MaxSteps \in Nat
    BY WalkWithin, WalkEnds, ConstantsAssumption DEF ActivePcs, LockedPcs
  <1>2. /\ done \subseteq StepsOf(r) /\ at \in StepsOf(r)
        /\ ~slot[s].state.failed => 1 .. at - 1 \subseteq done
    BY <1>1 DEF Progress
  <1>3. PICK st \in StateType :
          /\ st.done = done
          /\ \/ Completed(s, st) /\ st.failed = slot[s].state.failed
             \/ StepFailed(s, st)
             \/ EndsFailed(s, st)
             \/ \E result : Parked(s, st, result)
    BY WalkEnds DEF StepEnds
  <1>. HIDE DEF at, done
  <1>4. CASE Completed(s, st) /\ st.failed = slot[s].state.failed
    <2>. DEFINE new == [st EXCEPT !.done = @ \cup {at}]
    <2>1. new \in StateType /\ new.done = done \cup {at} /\ new.failed = slot[s].state.failed
      BY <1>1, <1>3, <1>4, StateWrites
    <2>2. WalkOn(s, new, at + 1)
      BY <1>4 DEF Completed, at
    <2>. HIDE DEF new
    <2>3. ~new.failed => 1 .. at \subseteq new.done
      <3>1. \A k \in 1 .. at : k \in 1 .. at - 1 \/ k = at
        BY <1>1
      <3>. QED  BY <1>2, <2>1, <3>1
    <2>4. at + 1 \in Nat \ {0} /\ (at + 1) - 1 = at /\ new.done \subseteq StepsOf(r)
      BY <1>1, <1>2, <2>1
    <2>. QED  BY <1>1, <2>1, <2>2, <2>3, <2>4, WalkOnProgress
  <1>5. ASSUME EndsFailed(s, st) PROVE Progress(s)'
    BY <1>1, <1>2, <1>3, <1>5, AfterEndsFailed, OtherProgress DEF ActivePcs, LockedPcs
  <1>6. CASE StepFailed(s, st)
    <2>. DEFINE new == [st EXCEPT !.failed = TRUE]
    <2>1. new \in StateType /\ new.done = done /\ new.failed
      BY <1>1, <1>3, StateWrites
    <2>2. WalkOn(s, new, at + 1) \/ EndsFailed(s, st)
      BY <1>6 DEF StepFailed, at
    <2>. HIDE DEF new
    <2>3. at + 1 \in Nat \ {0} /\ new.done \subseteq StepsOf(r)
      BY <1>1, <1>2, <2>1
    <2>. QED  BY <1>1, <1>5, <2>1, <2>2, <2>3, WalkOnProgress
  <1>7. ASSUME NEW result, Parked(s, st, result) PROVE Progress(s)'
    BY <1>1, <1>2, <1>3, <1>7, AfterParked, OtherProgress DEF ActivePcs, LockedPcs
  <1>. QED  BY <1>3, <1>4, <1>5, <1>6, <1>7

LEMMA SlotProgress ==
  ASSUME TypeInv, [Next]_vars, ProgressInv, NEW s \in Slots,
         FetchJob(s) \/ SlotStep(s) \/ Throw(s) \/ ProcessorThrows(s)
  PROVE  slot' = slot \/ (Others(s) /\ Progress(s)')
  <1>0. version' = version /\ Progress(s)
    BY VersionStays DEF ProgressInv
  <1>. SUFFICES ASSUME slot' # slot PROVE Progress(s)'
    BY SlotGoes
  <1>1. CASE StaysOut(s) \/ GoesIn(s)
    <2>1. slot[s].pc \in OuterPcs \/ GoesIn(s) => slot[s].state = FreshState
      BY <1>0 DEF Progress, OuterPcs, GoesIn, LockRun, ActivePcs, LockedPcs
    <2>2. slot'[s].pc \notin ActivePcs /\ slot'[s].state = FreshState
      BY <1>1, <2>1 DEF StaysOut, GoesIn, OuterPcs, ActivePcs, LockedPcs
    <2>. QED  BY <2>2, FreshProgress
  <1>2. CASE Loads(s)
    <2>. PICK r \in Runs : r = slot[s].run
      BY <1>2, BusySlot DEF Loads, LoadRun
    <2>1. slot'[s].state.done \subseteq StepsOf(r)
      BY <1>2 DEF Loads, ProgressInv, RowSound
    <2>. QED  BY <1>0, <1>2, <2>1, OtherProgress DEF Loads, LoadRun, ActivePcs, LockedPcs
  <1>3. CASE StartRun(s)
    <2>1. /\ slot[s].pc # "idle" /\ slot[s].pc \in ActivePcs /\ slot[s].state \in StateType
          /\ WalkOn(s, slot[s].state, 1)
      BY <1>3, BusySlot DEF StartRun, ActivePcs, LockedPcs
    <2>2. slot[s].state.done \subseteq StepsOf(slot[s].run)
      BY <1>0, <2>1 DEF Progress
    <2>. QED  BY <1>0, <2>1, <2>2, WalkOnProgress
  <1>4. CASE WalkStep(s)
    BY <1>0, <1>4, WalkProgress
  <1>5. CASE FinishRun(s) \/ BillRun(s) \/ RescueRun(s) \/ RescueBill(s)
    <2>1. /\ slot[s].pc \in ActivePcs /\ slot[s].pc # "idle"
          /\ \E pc \in {"bill", "audit", "rescueBill", "rescueAudit"} : Goto(s, pc)
      BY <1>5 DEF FinishRun, BillRun, RescueRun, RescueBill, ActivePcs, LockedPcs
    <2>2. /\ Keeps(s) /\ slot'[s].state = slot[s].state
          /\ slot'[s].pc \in {"bill", "audit", "rescueBill", "rescueAudit"}
      BY <2>1, AfterGoto
    <2>. QED  BY <1>0, <2>1, <2>2, OtherProgress DEF Progress, ActivePcs, LockedPcs
  <1>6. CASE GoesToRescue(s)
    BY <1>0, <1>6, OtherProgress DEF GoesToRescue, Progress, ActivePcs, LockedPcs
  <1>. QED  BY <1>1, <1>2, <1>3, <1>4, <1>5, <1>6, SlotGoes DEF GoesAlong

(* The state column is written when a row is created and by an execution that *)
(* parks, finishes or is rescued; only FinishRun says succeeded.             *)
StateKept(r) ==
  /\ run'[r].state = run[r].state
  /\ run'[r].status = "succeeded" => run[r].status = "succeeded"

StateWritten(r) ==
  \/ run'[r].state = FreshState /\ run'[r].status # "succeeded"
  \/ \E s \in Slots :
       /\ slot[s].run = r /\ slot[s].pc \in {"park", "finish", "rescue"}
       /\ run'[r].state = slot[s].state
       /\ run'[r].status = "succeeded" => slot[s].pc = "finish" /\ slot[s].result = "succeeded"

LEMMA StateGoes ==
  ASSUME TypeInv, [Next]_vars, NEW r \in Runs
  PROVE  StateKept(r) \/ StateWritten(r)
  <1>0. run \in [Runs -> RunType]
    BY DEF TypeInv
  <1>1. CASE run' = run
    BY <1>1 DEF StateKept
  <1>2. ASSUME NEW q, NEW status, NEW job, status # "succeeded",
               \/ run' = [run EXCEPT ![q].status = status]
               \/ run' = [run EXCEPT ![q].status = status, ![q].job = job]
               \/ run' = [run EXCEPT ![q].job = job]
        PROVE  StateKept(r)
    BY <1>0, <1>2 DEF StateKept, RunType
  <1>3. ASSUME NEW s \in Slots, FetchJob(s) \/ SlotStep(s) \/ Throw(s) \/ ProcessorThrows(s)
        PROVE  StateKept(r) \/ StateWritten(r)
    <2>1. CASE \/ FetchJob(s) \/ LockWorkflow(s) \/ LockRun(s) \/ LoadRun(s) \/ WalkStep(s)
               \/ BillRun(s) \/ RescueBill(s) \/ UnlockRun(s) \/ EndJob(s) \/ ProcessorThrows(s)
      BY <1>1, <2>1, WalkWithin
      DEF FetchJob, LockWorkflow, LockRun, LoadRun, BillRun, RescueBill, UnlockRun, EndJob,
          ProcessorThrows, dbVars
    <2>2. CASE StartRun(s) \/ Throw(s)
      <3>1. CASE run' = Started(slot[s].run)
        BY <1>0, <3>1 DEF Started, StateKept, RunType
      <3>. QED  BY <1>1, <2>2, <3>1 DEF StartRun, Throw
    <2>3. CASE Requeue(s)
      BY <1>1, <1>2, <2>3 DEF Requeue
    <2>4. CASE ParkRun(s) \/ FinishRun(s) \/ RescueRun(s)
      <3>. DEFINE status == IF RescueRun(s) THEN "failed" ELSE slot[s].result
      <3>1. /\ run' = [run EXCEPT ![slot[s].run].status = status, ![slot[s].run].state = slot[s].state]
            /\ slot[s].pc \in {"park", "finish", "rescue"}
        BY <2>4 DEF ParkRun, FinishRun, RescueRun
      <3>2. status = "succeeded" => slot[s].pc = "finish" /\ slot[s].result = "succeeded"
        BY <2>4, SlotFields DEF ParkRun, FinishRun, GoodSlots
      <3>. HIDE DEF status
      <3>3. CASE slot[s].run = r
        BY <1>0, <3>1, <3>2, <3>3 DEF StateWritten, RunType
      <3>4. CASE slot[s].run # r
        BY <1>0, <3>1, <3>4 DEF StateKept, RunType
      <3>. QED  BY <3>3, <3>4
    <2>. QED  BY <1>3, <2>1, <2>2, <2>3, <2>4 DEF SlotStep
  <1>4. ASSUME NEW q \in Runs, run[q].status = "absent", run' = [run EXCEPT ![q] = Created(q)]
        PROVE  StateKept(r) \/ StateWritten(r)
    <2>1. Created(q).state = FreshState /\ Created(q).status = "queued"
      BY DEF Created, NoRun
    <2>. QED  BY <1>0, <1>4, <2>1 DEF StateKept, StateWritten
  <1>5. ASSUME NEW c \in Requests, BeginRequest(c) \/ RequestStep(c)
        PROVE  StateKept(r) \/ StateWritten(r)
    <2>1. CASE \E q \in Runs : Submit(c, q)
      BY <1>4, <2>1 DEF Submit
    <2>2. ASSUME NEW q \in Runs, Cancel(c, q) PROVE StateKept(r)
      <3>1. run' = [run EXCEPT ![q].status = "canceled", ![q].job = None]
        BY <2>2 DEF Cancel, CancelRow
      <3>. QED  BY <1>2, <3>1
    <2>3. CASE MoveRun(c) \/ MoveAll(c) \/ RecordJob(c)
      BY <1>2, <2>3, ZenonT(30) DEF MoveRun, MoveAll, CancelRow, Requeued, RecordJob
    <2>4. CASE \/ \E q \in Runs : ApproveAll(c, q) \/ \E v \in {"approved", "rejected"} : Decide(c, q, v)
               \/ TidyCanceled(c) \/ DecideTask(c) \/ ApproveTask(c) \/ AddJob(c)
      BY <1>1, <2>4 DEF ApproveAll, Decide, TidyCanceled, DecideTask, ApproveTask, AddJob, dbVars
    <2>. QED  BY <1>5, <2>1, <2>2, <2>3, <2>4 DEF BeginRequest, RequestStep
  <1>6. CASE TickerStep \/ \E q \in Runs : BeginSweep(q)
    <2>1. CASE \E q \in Runs : SweepStale(q)
      BY <1>0, <2>1 DEF SweepStale, StateKept, RunType
    <2>2. CASE ResumeRun
      <3>. DEFINE q == caller[Ticker].run
      <3>1. run' = run \/ run' = [run EXCEPT ![q].status = "queued"]
        BY <1>0, <2>2 DEF ResumeRun, RunType
      <3>. QED  BY <1>1, <1>2, <3>1
    <2>3. CASE TimeOutRun \/ Exhaust \/ RecordJob(Ticker) \/ \E q \in Runs : QueueTimeout(q)
      <3>1. CASE TimeOutRun
        <4>. DEFINE q == caller[Ticker].run
        <4>1. \/ run' = run
              \/ run' = [run EXCEPT ![q].status = "failed"]
              \/ run' = [run EXCEPT ![q].status = "queued"]
          BY <3>1 DEF TimeOutRun
        <4>. HIDE DEF q
        <4>2. ASSUME NEW status, status # "succeeded", run' = [run EXCEPT ![q].status = status]
              PROVE  StateKept(r)
          BY <1>2, <4>2
        <4>. QED  BY <1>1, <4>1, <4>2
      <3>2. CASE Exhaust \/ RecordJob(Ticker)
        <4>. DEFINE q == caller[Ticker].run
        <4>1. \/ run' = [run EXCEPT ![q].status = "failed", ![q].job = None]
              \/ run' = [run EXCEPT ![q].job = caller[Ticker].job]
          BY <3>2 DEF Exhaust, RecordJob
        <4>. HIDE DEF q
        <4>2. "failed" # "succeeded"
          OBVIOUS
        <4>. QED  BY <1>2, <4>1, <4>2
      <3>3. ASSUME NEW q \in Runs, QueueTimeout(q) PROVE StateKept(r)
        <4>1. run' = [run EXCEPT ![q].status = "failed", ![q].job = None]
          BY <3>3 DEF QueueTimeout
        <4>. QED  BY <1>2, <4>1
      <3>. QED  BY <2>3, <3>1, <3>2, <3>3
    <2>4. CASE \/ BillFailure \/ AddJob(Ticker)
               \/ \E q \in Runs : LeaseResume(q) \/ TimeOutTask(q) \/ SweepStuck(q)
      BY <1>1, <2>4 DEF BillFailure, AddJob, LeaseResume, TimeOutTask, SweepStuck, dbVars
    <2>. QED  BY <1>6, <2>1, <2>2, <2>3, <2>4 DEF TickerStep, BeginSweep
  <1>7. CASE \E s \in Slots, q \in Runs : SubmitSync(s, q)
    BY <1>4, <1>7 DEF SubmitSync
  <1>8. CASE \/ \E q \in Runs : DelayElapses(q) \/ ApprovalExpires(q)
             \/ \E j \in JobIds : StalledJob(j)
             \/ \E w \in Workflows : WorkflowLockLapses(w)
             \/ \E c \in Callers : CallerFails(c)
             \/ \E p \in Procs : Crash(p)
             \/ UNCHANGED vars
    BY <1>1, <1>8 DEF DelayElapses, ApprovalExpires, StalledJob, WorkflowLockLapses, CallerFails,
                      Crash, dbVars, vars
  <1>. QED  BY <1>3, <1>5, <1>6, <1>7, <1>8 DEF Next, Environment

LEMMA SlotsProgress ==
  ASSUME TypeInv, [Next]_vars, ProgressInv, NEW t \in Slots
  PROVE  Progress(t)'
  <1>1. CASE slot'[t] = slot[t]
    <2>1. version' = version /\ Progress(t)
      BY VersionStays DEF ProgressInv
    <2>. QED  BY <1>1, <2>1 DEF Progress, StepsOf
  <1>2. ASSUME slot'[t].pc \in OuterPcs, slot'[t].state = FreshState
        PROVE  Progress(t)'
    BY <1>2, FreshProgress DEF OuterPcs, ActivePcs, LockedPcs
  <1>3. ASSUME NEW s \in Slots, FetchJob(s) \/ SlotStep(s) \/ Throw(s) \/ ProcessorThrows(s)
        PROVE  Progress(t)'
    BY <1>1, <1>3, SlotProgress DEF Others
  <1>4. ASSUME NEW s \in Slots, NEW q \in Runs, SubmitSync(s, q) PROVE Progress(t)'
    <2>. DEFINE new == [IdleSlot EXCEPT !.pc = "lockRun", !.run = q]
    <2>1. new.pc = "lockRun" /\ new.state = FreshState /\ slot' = [slot EXCEPT ![s] = new]
      BY <1>4 DEF SubmitSync, IdleSlot
    <2>. HIDE DEF new
    <2>. QED  BY <1>1, <1>2, <2>1, OnlyOne DEF Others, OuterPcs
  <1>5. ASSUME NEW p \in Procs, Crash(p) PROVE Progress(t)'
    <2>1. IdleSlot.pc \in OuterPcs /\ IdleSlot.state = FreshState
      BY DEF IdleSlot, OuterPcs
    <2>. QED  BY <1>1, <1>2, <1>5, <2>1 DEF Crash
  <1>. QED  BY <1>1, <1>3, <1>4, <1>5, SlotsOfOthers DEF Next, Environment

LEMMA RowsProgress ==
  ASSUME TypeInv, [Next]_vars, ProgressInv, NEW r \in Runs
  PROVE  RowSound(r)'
  <1>1. StepsOf(r)' = StepsOf(r) /\ RowSound(r)
    BY VersionStays DEF StepsOf, ProgressInv
  <1>2. CASE StateKept(r)
    BY <1>1, <1>2 DEF StateKept, RowSound
  <1>3. CASE run'[r].state = FreshState /\ run'[r].status # "succeeded"
    BY <1>1, <1>3 DEF RowSound, FreshState
  <1>4. ASSUME NEW s \in Slots,
               slot[s].run = r, slot[s].pc \in {"park", "finish", "rescue"},
               run'[r].state = slot[s].state,
               run'[r].status = "succeeded" => slot[s].pc = "finish" /\ slot[s].result = "succeeded"
        PROVE  RowSound(r)'
    BY <1>1, <1>4 DEF ProgressInv, Progress, RowSound, ActivePcs, LockedPcs
  <1>. QED  BY <1>2, <1>3, <1>4, StateGoes DEF StateWritten

LEMMA ProgressStep ==
  ASSUME TypeInv, [Next]_vars, ProgressInv
  PROVE  ProgressInv'
  BY SlotsProgress, RowsProgress DEF ProgressInv

LEMMA ProgressInit ==
  ASSUME Init
  PROVE  ProgressInv
  <1>1. \A s \in Slots : slot[s].pc = "idle" /\ slot[s].state = FreshState
    BY DEF Init, IdleSlot
  <1>2. \A r \in Runs : run[r].state.done = {} /\ run[r].status = "absent"
    BY DEF Init, NoRun, FreshState
  <1>. QED  BY <1>1, <1>2 DEF ProgressInv, Progress, RowSound, ActivePcs, LockedPcs

(* For manifests of any length and any mix of steps: succeeded means that each *)
(* step is done, whichever executions did them and whatever failed between.   *)
THEOREM SuccessMeansComplete == Spec => []SuccessIsComplete
  <1>1. Init => TypeInv /\ ProgressInv
    BY TypeInit, ProgressInit
  <1>2. TypeInv /\ ProgressInv /\ [Next]_vars => (TypeInv /\ ProgressInv)'
    BY TypeStep, ProgressStep
  <1>3. ProgressInv => SuccessIsComplete
    BY DEF ProgressInv, RowSound, SuccessIsComplete, StepsOf
  <1>. QED  BY <1>1, <1>2, <1>3, PTL DEF Spec

----------------------------------------------------------------------------
(* Gates *)

(* The one execution of a run that was not canceled knows all that the row   *)
(* says is done, so that it never comes to a step that counts as completed.  *)
RowKnown ==
  \A s \in Slots, r \in Runs :
    slot[s].run = r /\ slot[s].pc \in ActivePcs /\ ~WasCanceled(r) =>
      run[r].state.done \subseteq slot[s].state.done

(* A step of the walk leaves the done steps, or adds the one it is at, whose  *)
(* gate is then open.                                                        *)
LEMMA WalkDone ==
  ASSUME TypeInv, NEW s \in Slots, WalkStep(s), NEW r \in Runs, r = slot[s].run,
         NEW at, at = slot[s].at
  PROVE  \/ slot'[s].state.done = slot[s].state.done
         \/ /\ slot'[s].state.done = slot[s].state.done \cup {at}
            /\ GatePassed(r, at)'
  <1>. DEFINE st == slot[s].state
              steps == version[r].steps
              same == slot'[s].state.done = st.done
              more == slot'[s].state.done = st.done \cup {at}
  <1>1. slot[s].pc = "steps" /\ st \in StateType /\ version' = version
    BY WalkWithin, BusySlot
  <1>2. at \in 1 .. MaxSteps
    BY WalkEnds
  <1>. HIDE DEF st, same, more
  <1>3. ASSUME NEW x \in StateType, x.done = st.done, Completed(s, x) PROVE more
    <2>. DEFINE new == [x EXCEPT !.done = @ \cup {at}]
    <2>1. new.done = st.done \cup {at}
      BY <1>2, <1>3, StateWrites
    <2>2. WalkOn(s, new, at + 1)
      BY <1>3 DEF Completed
    <2>. HIDE DEF new
    <2>. QED  BY <2>1, <2>2, AfterWalkOn DEF more
  <1>4. ASSUME NEW x \in StateType, x.done = st.done, StepFailed(s, x) PROVE same
    <2>. DEFINE new == [x EXCEPT !.failed = TRUE]
    <2>1. new.done = st.done
      BY <1>2, <1>4, StateWrites
    <2>2. slot'[s].state \in {x, new}
      BY <1>4, AfterStepFailed
    <2>. HIDE DEF new
    <2>. QED  BY <1>4, <2>1, <2>2 DEF same
  <1>5. ASSUME NEW x, x.done = st.done, NEW result, Parked(s, x, result) PROVE same
    BY <1>5, AfterParked DEF same
  <1>6. CASE StopWalk(s) \/ FailStep(s)
    <2>1. EndsFailed(s, st) \/ StepFailed(s, st)
      BY <1>6 DEF StopWalk, FailStep, st
    <2>. QED  BY <1>1, <1>4, <2>1, AfterEndsFailed DEF same, st
  <1>7. CASE WorkStep(s)
    <2>1. Completed(s, st) /\ steps[at] = "work"
      BY <1>7 DEF WorkStep, AtStep, Manifest, st
    <2>2. GatePassed(r, at)'
      BY <1>1, <2>1 DEF GatePassed
    <2>. QED  BY <1>1, <1>3, <2>1, <2>2 DEF more, st
  <1>8. CASE DelayStep(s)
    <2>. DEFINE waits == [st EXCEPT !.delayAt = at]
                over == [st EXCEPT !.delayAt = 0]
    <2>1. /\ waits.done = st.done
          /\ over \in StateType /\ over.done = st.done
      BY <1>1, <1>2, StateWrites
    <2>2. \/ Parked(s, waits, "waiting") \/ Parked(s, st, "waiting")
          \/ Completed(s, over) /\ "delay" \in due[r] /\ due' = due
      BY <1>8 DEF DelayStep, st
    <2>3. steps[at] = "delay"
      BY <1>8 DEF DelayStep, AtStep, Manifest
    <2>. HIDE DEF waits, over
    <2>4. CASE Completed(s, over) /\ "delay" \in due[r] /\ due' = due
      BY <1>1, <1>3, <2>1, <2>3, <2>4 DEF GatePassed, more, st
    <2>. QED  BY <1>5, <2>1, <2>2, <2>4 DEF same, st
  <1>9. CASE OpenApproval(s)
    <2>. DEFINE asked == [st EXCEPT !.approvalAt = at]
    <2>1. asked \in StateType /\ asked.done = st.done
      BY <1>1, <1>2, StateWrites
    <2>2. Parked(s, asked, "paused") \/ StepFailed(s, asked)
      BY <1>9 DEF OpenApproval, st
    <2>. HIDE DEF asked
    <2>. QED  BY <1>4, <1>5, <2>1, <2>2 DEF same, st
  <1>10. CASE ResumeApproval(s)
    <2>. DEFINE decided == [st EXCEPT !.approvalAt = 0]
    <2>1. decided \in StateType /\ decided.done = st.done
      BY <1>1, <1>2, StateWrites
    <2>2. \/ Parked(s, st, "paused") \/ StepFailed(s, decided) \/ StepFailed(s, st)
          \/ /\ Completed(s, decided)
             /\ task[r] = "approved" \/ (task[r] = "timeout" /\ version[r].onTimeout = "skip")
      BY <1>10 DEF ResumeApproval, Manifest, st
    <2>3. steps[at] = "approval" /\ task' = task
      BY <1>10 DEF ResumeApproval, AtStep, Manifest
    <2>. HIDE DEF decided
    <2>4. CASE /\ Completed(s, decided)
               /\ task[r] = "approved" \/ (task[r] = "timeout" /\ version[r].onTimeout = "skip")
      BY <1>1, <1>3, <2>1, <2>3, <2>4 DEF GatePassed, more, st
    <2>. QED  BY <1>1, <1>4, <1>5, <2>1, <2>2, <2>4 DEF same, st
  <1>. QED  BY <1>6, <1>7, <1>8, <1>9, <1>10 DEF WalkStep

(* Where the done steps of an execution come from. *)
LEMMA DoneGoes ==
  ASSUME TypeInv, [Next]_vars, ProgressInv, NEW t \in Slots
  PROVE  \/ slot'[t].state.done = {} /\ slot'[t].pc \notin ActivePcs
         \/ slot'[t] = slot[t]
         \/ Loads(t)
         \/ Keeps(t) /\ slot[t].pc \in ActivePcs /\ slot'[t].state.done = slot[t].state.done
         \/ Keeps(t) /\ slot[t].pc \in ActivePcs /\ WalkStep(t)
  <1>1. ASSUME slot'[t].pc \in OuterPcs, slot'[t].state = FreshState
        PROVE  slot'[t].state.done = {} /\ slot'[t].pc \notin ActivePcs
    BY <1>1 DEF FreshState, OuterPcs, ActivePcs, LockedPcs
  <1>2. ASSUME NEW s \in Slots, FetchJob(s) \/ SlotStep(s) \/ Throw(s) \/ ProcessorThrows(s),
               slot' # slot, t = s
        PROVE  \/ slot'[t].state.done = {} /\ slot'[t].pc \notin ActivePcs
               \/ Loads(t)
               \/ Keeps(t) /\ slot[t].pc \in ActivePcs /\ slot'[t].state.done = slot[t].state.done
               \/ Keeps(t) /\ slot[t].pc \in ActivePcs /\ WalkStep(t)
    <2>0. slot[s].pc \notin ActivePcs => slot[s].state = FreshState
      BY DEF ProgressInv, Progress
    <2>1. CASE StaysOut(s)
      BY <1>1, <1>2, <2>0, <2>1 DEF StaysOut, OuterPcs, ActivePcs, LockedPcs
    <2>2. CASE GoesIn(s)
      BY <1>2, <2>0, <2>2 DEF GoesIn, LockRun, FreshState, ActivePcs, LockedPcs
    <2>3. CASE StartRun(s)
      BY <1>2, <2>3, AfterWalkOn DEF StartRun, ActivePcs, LockedPcs
    <2>4. CASE WalkStep(s)
      BY <1>2, <2>4, WalkWithin DEF Within, ActivePcs, LockedPcs
    <2>5. CASE FinishRun(s) \/ BillRun(s) \/ RescueRun(s) \/ RescueBill(s)
      BY <1>2, <2>5, AfterGoto DEF FinishRun, BillRun, RescueRun, RescueBill, ActivePcs, LockedPcs
    <2>6. CASE GoesToRescue(s)
      BY <1>2, <2>6 DEF GoesToRescue, ActivePcs, LockedPcs
    <2>. QED  BY <1>2, <2>1, <2>2, <2>3, <2>4, <2>5, <2>6, SlotGoes DEF GoesAlong
  <1>3. ASSUME NEW s \in Slots, FetchJob(s) \/ SlotStep(s) \/ Throw(s) \/ ProcessorThrows(s),
               t # s
        PROVE  slot'[t] = slot[t]
    BY <1>3, SlotGoes DEF Others
  <1>4. ASSUME NEW s \in Slots, NEW q \in Runs, SubmitSync(s, q)
        PROVE  \/ slot'[t].state.done = {} /\ slot'[t].pc \notin ActivePcs
               \/ slot'[t] = slot[t]
    <2>. DEFINE new == [IdleSlot EXCEPT !.pc = "lockRun", !.run = q]
    <2>1. new.pc = "lockRun" /\ new.state = FreshState /\ slot' = [slot EXCEPT ![s] = new]
      BY <1>4 DEF SubmitSync, IdleSlot
    <2>. HIDE DEF new
    <2>2. Others(s) /\ slot'[s].pc = "lockRun" /\ slot'[s].state = FreshState
      BY <2>1, OnlyOne
    <2>. QED  BY <1>1, <2>2 DEF Others, OuterPcs
  <1>5. ASSUME NEW p \in Procs, Crash(p)
        PROVE  \/ slot'[t].state.done = {} /\ slot'[t].pc \notin ActivePcs
               \/ slot'[t] = slot[t]
    <2>1. IdleSlot.pc \in OuterPcs /\ IdleSlot.state = FreshState
      BY DEF IdleSlot, OuterPcs
    <2>. QED  BY <1>1, <1>5, <2>1 DEF Crash
  <1>6. CASE slot' = slot
    BY <1>6
  <1>. QED  BY <1>2, <1>3, <1>4, <1>5, <1>6, SlotsOfOthers DEF Next, Environment

(* Only the step itself takes its gate back: it asks again, or waits again.   *)
LEMMA TaskGoes ==
  ASSUME TypeInv, [Next]_vars, NEW r \in Runs
  PROVE  \/ task'[r] = task[r] \/ task[r] = "pending" \/ task'[r] = "approved"
         \/ \E s \in Slots : OpenApproval(s) /\ slot[s].run = r
  <1>0. task \in [Runs -> TaskStatus]
    BY DEF TypeInv, RowsOK
  <1>1. CASE task' = task
    BY <1>1
  <1>2. ASSUME NEW s \in Slots, FetchJob(s) \/ SlotStep(s) \/ Throw(s) \/ ProcessorThrows(s)
        PROVE  task'[r] = task[r] \/ (OpenApproval(s) /\ slot[s].run = r)
    <2>1. CASE OpenApproval(s)
      BY <1>0, <2>1 DEF OpenApproval
    <2>2. CASE WalkStep(s) /\ ~OpenApproval(s)
      BY <1>1, <2>2 DEF WalkStep, StopWalk, FailStep, WorkStep, DelayStep, ResumeApproval, dbVars
    <2>3. CASE ~WalkStep(s)
      BY <1>1, <1>2, <2>3
      DEF SlotStep, FetchJob, LockWorkflow, LockRun, LoadRun, StartRun, ParkRun, FinishRun, BillRun,
          RescueRun, RescueBill, UnlockRun, Requeue, EndJob, Throw, ProcessorThrows, dbVars
    <2>. QED  BY <2>1, <2>2, <2>3
  <1>3. ASSUME NEW c \in Requests, BeginRequest(c) \/ RequestStep(c)
        PROVE  task'[r] = task[r] \/ task[r] = "pending" \/ task'[r] = "approved"
    <2>1. ASSUME NEW q \in Runs, Cancel(c, q)
          PROVE  task'[r] = task[r] \/ task[r] = "pending"
      BY <1>0, <2>1 DEF Cancel
    <2>2. CASE DecideTask(c) \/ ApproveTask(c)
      BY <1>0, <2>2 DEF DecideTask, ApproveTask
    <2>3. CASE \/ \E q \in Runs : \/ Submit(c, q) \/ ApproveAll(c, q)
                                  \/ \E v \in {"approved", "rejected"} : Decide(c, q, v)
               \/ TidyCanceled(c) \/ MoveRun(c) \/ MoveAll(c) \/ AddJob(c) \/ RecordJob(c)
      BY <1>1, <2>3 DEF Submit, ApproveAll, Decide, TidyCanceled, MoveRun, MoveAll, AddJob, RecordJob,
                        dbVars
    <2>. QED  BY <1>3, <2>1, <2>2, <2>3 DEF BeginRequest, RequestStep
  <1>4. CASE TickerStep \/ \E q \in Runs : BeginSweep(q)
    <2>1. ASSUME NEW q \in Runs, TimeOutTask(q) PROVE task'[r] = task[r] \/ task[r] = "pending"
      BY <1>0, <2>1 DEF TimeOutTask
    <2>2. CASE TickerStep \/ \E q \in Runs : \/ LeaseResume(q) \/ SweepStale(q)
                                            \/ SweepStuck(q) \/ QueueTimeout(q)
      BY <1>1, <2>2
      DEF TickerStep, ResumeRun, TimeOutRun, BillFailure, Exhaust, AddJob, RecordJob,
          LeaseResume, SweepStale, SweepStuck, QueueTimeout, dbVars
    <2>. QED  BY <1>4, <2>1, <2>2 DEF BeginSweep
  <1>5. CASE \/ \E s \in Slots, q \in Runs : SubmitSync(s, q)
             \/ \E q \in Runs : DelayElapses(q) \/ ApprovalExpires(q)
             \/ \E j \in JobIds : StalledJob(j)
             \/ \E w \in Workflows : WorkflowLockLapses(w)
             \/ \E c \in Callers : CallerFails(c)
             \/ \E p \in Procs : Crash(p)
             \/ UNCHANGED vars
    BY <1>1, <1>5 DEF SubmitSync, DelayElapses, ApprovalExpires, StalledJob, WorkflowLockLapses,
                      CallerFails, Crash, dbVars, vars
  <1>. QED  BY <1>2, <1>3, <1>4, <1>5 DEF Next, Environment

LEMMA DueGoes ==
  ASSUME TypeInv, [Next]_vars, NEW r \in Runs, "delay" \in due[r]
  PROVE  "delay" \in due'[r] \/ \E s \in Slots : DelayStep(s) /\ slot[s].run = r
  <1>0. due \in [Runs -> SUBSET {"delay", "approval"}]
    BY DEF TypeInv, RowsOK
  <1>1. CASE due' = due
    BY <1>1
  <1>2. ASSUME NEW s \in Slots, FetchJob(s) \/ SlotStep(s) \/ Throw(s) \/ ProcessorThrows(s)
        PROVE  "delay" \in due'[r] \/ (DelayStep(s) /\ slot[s].run = r)
    <2>1. CASE OpenApproval(s) \/ DelayStep(s)
      BY <1>0, <2>1 DEF OpenApproval, DelayStep
    <2>2. CASE WalkStep(s) /\ ~OpenApproval(s) /\ ~DelayStep(s)
      BY <1>1, <2>2 DEF WalkStep, StopWalk, FailStep, WorkStep, ResumeApproval, dbVars
    <2>3. CASE ~WalkStep(s)
      BY <1>1, <1>2, <2>3
      DEF SlotStep, FetchJob, LockWorkflow, LockRun, LoadRun, StartRun, ParkRun, FinishRun, BillRun,
          RescueRun, RescueBill, UnlockRun, Requeue, EndJob, Throw, ProcessorThrows, dbVars
    <2>. QED  BY <2>1, <2>2, <2>3
  <1>3. ASSUME NEW c \in Requests, BeginRequest(c) \/ RequestStep(c)
        PROVE  due' = due
    BY <1>3 DEF BeginRequest, RequestStep, Submit, Cancel, ApproveAll, Decide, DecideTask, MoveRun,
                TidyCanceled, ApproveTask, MoveAll, AddJob, RecordJob, dbVars
  <1>4. CASE TickerStep \/ \E q \in Runs : BeginSweep(q)
    BY <1>1, <1>4
    DEF TickerStep, BeginSweep, ResumeRun, TimeOutRun, BillFailure, Exhaust, AddJob, RecordJob,
        LeaseResume, TimeOutTask, SweepStale, SweepStuck, QueueTimeout, dbVars
  <1>5. ASSUME NEW q \in Runs, DelayElapses(q) \/ ApprovalExpires(q) PROVE "delay" \in due'[r]
    BY <1>0, <1>5 DEF DelayElapses, ApprovalExpires
  <1>6. CASE \/ \E s \in Slots, q \in Runs : SubmitSync(s, q)
             \/ \E j \in JobIds : StalledJob(j)
             \/ \E w \in Workflows : WorkflowLockLapses(w)
             \/ \E c \in Callers : CallerFails(c)
             \/ \E p \in Procs : Crash(p)
             \/ UNCHANGED vars
    BY <1>1, <1>6 DEF SubmitSync, StalledJob, WorkflowLockLapses, CallerFails, Crash, dbVars, vars
  <1>. QED  BY <1>1, <1>2, <1>3, <1>4, <1>5, <1>6 DEF Next, Environment

GateInv == Exclusive /\ ProgressInv /\ RowKnown /\ NoGateSkipped

(* The step a walk has come to does not count as completed, wherever the      *)
(* completed steps of the run are kept.                                      *)
LEMMA AtIsOpen ==
  ASSUME TypeInv, GateInv, NEW s \in Slots, slot[s].pc = "steps",
         NEW r \in Runs, r = slot[s].run, ~WasCanceled(r)
  PROVE  slot[s].at \in StepsOf(r) \ CompletedSteps(r)
  <1>1. slot[s].at \in StepsOf(r) \ slot[s].state.done
    BY DEF GateInv, ProgressInv, Progress
  <1>2. Executes(s, r) /\ slot[s].pc \in ActivePcs
    BY DEF Executes, ActivePcs, LockedPcs
  <1>3. run[r].state.done \subseteq slot[s].state.done
    BY <1>2 DEF GateInv, RowKnown
  <1>4. ASSUME NEW t \in Slots, slot[t].run = r, t # s PROVE slot[t].state.done = {}
    <2>1. ~Executes(t, r)
      BY <1>2, <1>4 DEF GateInv, Exclusive
    <2>2. slot[t].state = FreshState
      BY <1>4, <2>1 DEF Executes, GateInv, ProgressInv, Progress, ActivePcs
    <2>. QED  BY <2>2 DEF FreshState
  <1>. QED  BY <1>1, <1>3, <1>4 DEF CompletedSteps

LEMMA RowKnownStep ==
  ASSUME TypeInv, GateInv, [Next]_vars
  PROVE  RowKnown'
  <1>. SUFFICES ASSUME NEW s \in Slots, NEW r \in Runs,
                       slot'[s].run = r, slot'[s].pc \in ActivePcs, ~WasCanceled(r)'
                PROVE  run'[r].state.done \subseteq slot'[s].state.done
    BY DEF RowKnown
  <1>0. ProgressInv /\ Exclusive /\ RowKnown /\ ~WasCanceled(r)
    BY CancelsStay DEF GateInv, CancelsRemembered
  <1>1. /\ Executes(s, r)
        /\ run[r].state.done \subseteq slot'[s].state.done
        /\ slot[s].pc \in ActivePcs => slot[s].state.done \subseteq slot'[s].state.done
    <2>1. CASE slot'[s] = slot[s]
      BY <1>0, <2>1 DEF RowKnown, Executes, ActivePcs
    <2>2. CASE Loads(s)
      BY <2>2 DEF Loads, LoadRun, Keeps, Executes, ActivePcs, LockedPcs
    <2>3. CASE Keeps(s) /\ slot[s].pc \in ActivePcs /\ slot'[s].state.done = slot[s].state.done
      BY <1>0, <2>3 DEF Keeps, RowKnown, Executes, ActivePcs
    <2>4. CASE Keeps(s) /\ slot[s].pc \in ActivePcs /\ WalkStep(s)
      <3>1. slot[s].run = r
        BY <2>4 DEF Keeps
      <3>2. slot[s].state.done \subseteq slot'[s].state.done
        BY <2>4, <3>1, WalkDone
      <3>. QED  BY <1>0, <2>4, <3>1, <3>2 DEF RowKnown, Executes, ActivePcs
    <2>. QED  BY <1>0, <2>1, <2>2, <2>3, <2>4, DoneGoes
  <1>2. CASE StateKept(r)
    BY <1>1, <1>2 DEF StateKept
  <1>3. CASE run'[r].state = FreshState
    BY <1>3 DEF FreshState
  <1>4. ASSUME NEW t \in Slots, slot[t].run = r, slot[t].pc \in {"park", "finish", "rescue"},
               run'[r].state = slot[t].state
        PROVE  run'[r].state.done \subseteq slot'[s].state.done
    <2>1. Executes(t, r) /\ slot[t].pc \in ActivePcs
      BY <1>4 DEF Executes, ActivePcs, LockedPcs
    <2>2. s = t
      BY <1>0, <1>1, <2>1 DEF Exclusive
    <2>. QED  BY <1>1, <1>4, <2>1, <2>2
  <1>. QED  BY <1>2, <1>3, <1>4, StateGoes DEF StateWritten

LEMMA GateKept ==
  ASSUME TypeInv, GateInv, [Next]_vars, NEW r \in Runs, ~WasCanceled(r),
         NEW k \in CompletedSteps(r)
  PROVE  GatePassed(r, k)'
  <1>. DEFINE steps == version[r].steps
  <1>0. GatePassed(r, k) /\ version' = version
    BY VersionStays DEF GateInv, NoGateSkipped
  <1>1. k \in StepsOf(r)
    <2>1. run[r].state.done \subseteq StepsOf(r)
      BY DEF GateInv, ProgressInv, RowSound
    <2>2. ASSUME NEW t \in Slots, slot[t].run = r PROVE slot[t].state.done \subseteq StepsOf(r)
      BY <2>2 DEF GateInv, ProgressInv, Progress, FreshState
    <2>. QED  BY <2>1, <2>2 DEF CompletedSteps
  <1>2. ASSUME NEW s \in Slots, slot[s].run = r, slot[s].pc = "steps", steps[k] # "work"
        PROVE  steps[slot[s].at] # steps[k]
    <2>1. slot[s].at \in StepsOf(r) /\ slot[s].at # k
      BY <1>2, AtIsOpen
    <2>2. DOMAIN steps = StepsOf(r) /\ version[r] \in Versions
      BY ManifestLength DEF StepsOf
    <2>. QED  BY <1>1, <1>2, <2>1, <2>2, OneOfAKind
  <1>3. ASSUME steps[k] = "approval"
        PROVE  task'[r] = "approved" \/ (task'[r] = "timeout" /\ version[r].onTimeout = "skip")
    <2>1. task[r] = "approved" \/ (task[r] = "timeout" /\ version[r].onTimeout = "skip")
      BY <1>0, <1>3 DEF GatePassed
    <2>2. ASSUME NEW s \in Slots, OpenApproval(s), slot[s].run = r PROVE FALSE
      BY <1>2, <1>3, <2>2 DEF OpenApproval, AtStep, Manifest
    <2>. QED  BY <2>1, <2>2, TaskGoes
  <1>4. ASSUME steps[k] = "delay" PROVE "delay" \in due'[r]
    <2>1. "delay" \in due[r]
      BY <1>0, <1>4 DEF GatePassed
    <2>2. ASSUME NEW s \in Slots, DelayStep(s), slot[s].run = r PROVE FALSE
      BY <1>2, <1>4, <2>2 DEF DelayStep, AtStep, Manifest
    <2>. QED  BY <2>1, <2>2, DueGoes
  <1>. QED  BY <1>0, <1>3, <1>4 DEF GatePassed

LEMMA GatesStep ==
  ASSUME TypeInv, GateInv, [Next]_vars
  PROVE  NoGateSkipped'
  <1>. SUFFICES ASSUME NEW r \in Runs, ~WasCanceled(r)', NEW k, k \in CompletedSteps(r)'
                PROVE  GatePassed(r, k)'
    BY DEF NoGateSkipped
  <1>0. ProgressInv /\ ~WasCanceled(r)
    BY CancelsStay DEF GateInv, CancelsRemembered
  <1>1. CASE k \in CompletedSteps(r)
    BY <1>0, <1>1, GateKept
  <1>2. CASE k \in run'[r].state.done
    BY <1>1, <1>2, StateGoes DEF StateKept, StateWritten, CompletedSteps, FreshState
  <1>3. ASSUME NEW t \in Slots, slot'[t].run = r, k \in slot'[t].state.done
        PROVE  GatePassed(r, k)'
    <2>1. CASE slot'[t] = slot[t]
      BY <1>1, <1>3, <2>1 DEF CompletedSteps
    <2>2. CASE Loads(t)
      BY <1>1, <1>3, <2>2 DEF Loads, Keeps, CompletedSteps
    <2>3. CASE Keeps(t) /\ slot'[t].state.done = slot[t].state.done
      BY <1>1, <1>3, <2>3 DEF Keeps, CompletedSteps
    <2>4. CASE Keeps(t) /\ WalkStep(t)
      <3>1. r = slot[t].run
        BY <1>3, <2>4 DEF Keeps
      <3>2. CASE k \in slot[t].state.done
        BY <1>1, <3>1, <3>2 DEF CompletedSteps
      <3>3. CASE k \notin slot[t].state.done
        <4>1. k = slot[t].at
          BY <1>3, <2>4, <3>1, <3>3, WalkDone
        <4>. QED  BY <1>3, <2>4, <3>1, <3>3, <4>1, WalkDone
      <3>. QED  BY <3>2, <3>3
    <2>. QED  BY <1>0, <1>3, <2>1, <2>2, <2>3, <2>4, DoneGoes
  <1>. QED  BY <1>2, <1>3 DEF CompletedSteps

(* No interleaving of duplicate jobs, sweeps, decisions, timeouts and crashes *)
(* takes a run past an approval or a delay, unless it was canceled.          *)
THEOREM GatesHold == Spec => []NoGateSkipped
  <1>1. Init => TypeInv /\ GateInv
    <2>1. ASSUME Init PROVE Exclusive /\ ProgressInv /\ RowKnown /\ NoGateSkipped
      <3>1. \A s \in Slots : slot[s].pc = "idle" /\ slot[s].state.done = {}
        BY <2>1 DEF Init, IdleSlot, FreshState
      <3>2. \A r \in Runs : run[r].state.done = {}
        BY <2>1 DEF Init, NoRun, FreshState
      <3>. QED  BY <2>1, <3>1, <3>2, ProgressInit
                DEF Exclusive, Executes, RowKnown, NoGateSkipped, CompletedSteps, ActivePcs, LockedPcs
    <2>. QED  BY <2>1, TypeInit DEF GateInv
  <1>2. TypeInv /\ GateInv /\ [Next]_vars => (TypeInv /\ GateInv)'
    BY TypeStep, ExclusiveStep, ProgressStep, RowKnownStep, GatesStep DEF GateInv
  <1>3. GateInv => NoGateSkipped
    BY DEF GateInv
  <1>. QED  BY <1>1, <1>2, <1>3, PTL DEF Spec

=============================================================================
