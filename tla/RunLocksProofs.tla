--------------------------- MODULE RunLocksProofs ---------------------------
(***************************************************************************)
(* What the two locks of a run's execution are taken for, for every value  *)
(* of the constants of RunLifecycle: the run_locks row of a run and the    *)
(* Redis key of a workflow.                                                *)
(***************************************************************************)
EXTENDS RunLifecycleProofs

----------------------------------------------------------------------------
(* What the helpers of RunExecutor make of the slot they are called for. *)

Others(s) == \A t \in Slots \ {s} : slot'[t] = slot[t]

Keeps(s) ==
  slot'[s].run = slot[s].run /\ slot'[s].job = slot[s].job /\ slot'[s].serial = slot[s].serial

LEMMA SlotFields ==
  ASSUME TypeInv, NEW s \in Slots
  PROVE  /\ slot \in [Slots -> GoodSlots]
         /\ slot[s] \in SlotType
         /\ slot[s] = [pc |-> slot[s].pc, run |-> slot[s].run, job |-> slot[s].job,
                       serial |-> slot[s].serial, at |-> slot[s].at, state |-> slot[s].state,
                       threw |-> slot[s].threw, result |-> slot[s].result]
  BY DEF TypeInv, ActorsOK, GoodSlots, SlotType

LEMMA OnlyOne ==
  ASSUME TypeInv, NEW s \in Slots, NEW x, slot' = [slot EXCEPT ![s] = x]
  PROVE  Others(s) /\ slot'[s] = x
  BY DEF Others, TypeInv, ActorsOK

LEMMA AfterGoto ==
  ASSUME TypeInv, NEW s \in Slots, NEW pc, Goto(s, pc)
  PROVE  /\ Others(s) /\ Keeps(s)
         /\ slot'[s].pc = pc /\ slot'[s].state = slot[s].state /\ slot'[s].at = slot[s].at
         /\ slot'[s].result = slot[s].result
  <1>. DEFINE new == [slot[s] EXCEPT !.pc = pc]
  <1>1. /\ new.pc = pc /\ new.run = slot[s].run /\ new.job = slot[s].job
        /\ new.serial = slot[s].serial /\ new.state = slot[s].state /\ new.at = slot[s].at
        /\ new.result = slot[s].result
    BY SlotFields DEF SlotType
  <1>2. slot' = [slot EXCEPT ![s] = new]
    BY DEF Goto
  <1>. HIDE DEF new
  <1>. QED  BY <1>1, <1>2, OnlyOne DEF Keeps

LEMMA AfterLeave ==
  ASSUME TypeInv, NEW s \in Slots, NEW pc, NEW threw, LeaveTo(s, pc, threw)
  PROVE  Others(s) /\ Keeps(s) /\ slot'[s].pc = pc /\ slot'[s].state = FreshState
  <1>. DEFINE new == [IdleSlot EXCEPT !.pc = pc, !.run = slot[s].run, !.job = slot[s].job,
                                     !.serial = slot[s].serial, !.threw = threw]
  <1>1. /\ new.pc = pc /\ new.run = slot[s].run /\ new.job = slot[s].job
        /\ new.serial = slot[s].serial /\ new.state = FreshState
    BY DEF IdleSlot
  <1>2. slot' = [slot EXCEPT ![s] = new]
    BY DEF LeaveTo
  <1>. HIDE DEF new
  <1>. QED  BY <1>1, <1>2, OnlyOne DEF Keeps

LEMMA AfterReturn ==
  ASSUME TypeInv, NEW s \in Slots, NEW threw, Return(s, threw)
  PROVE  /\ Others(s)
         /\ \/ slot'[s] = IdleSlot
            \/ Keeps(s) /\ slot'[s].pc \in {"requeue", "end"} /\ slot'[s].state = FreshState
  <1>1. CASE slot[s].job = None
    BY <1>1, OnlyOne DEF Return
  <1>2. CASE slot[s].job # None
    <2>. DEFINE pc == IF threw THEN "requeue" ELSE "end"
    <2>1. LeaveTo(s, pc, threw) /\ pc \in {"requeue", "end"}
      BY <1>2 DEF Return
    <2>. HIDE DEF pc
    <2>. QED  BY <2>1, AfterLeave
  <1>. QED  BY <1>1, <1>2

LEMMA AfterStop ==
  ASSUME TypeInv, NEW s \in Slots, NEW pc, NEW st, NEW result,
         slot' = [slot EXCEPT ![s] = [@ EXCEPT !.pc = pc, !.at = 0, !.state = st,
                                              !.result = result]]
  PROVE  /\ Others(s) /\ Keeps(s)
         /\ slot'[s].pc = pc /\ slot'[s].state = st /\ slot'[s].result = result
  <1>. DEFINE new == [slot[s] EXCEPT !.pc = pc, !.at = 0, !.state = st, !.result = result]
  <1>1. /\ new.pc = pc /\ new.run = slot[s].run /\ new.job = slot[s].job
        /\ new.serial = slot[s].serial /\ new.state = st /\ new.result = result
    BY SlotFields DEF SlotType
  <1>2. slot' = [slot EXCEPT ![s] = new]
    OBVIOUS
  <1>. HIDE DEF new
  <1>. QED  BY <1>1, <1>2, OnlyOne DEF Keeps

(* A walk goes on at an open step, or is over with none open. *)
LEMMA AfterWalkOn ==
  ASSUME TypeInv, NEW s \in Slots, NEW st, NEW i, WalkOn(s, st, i)
  PROVE  /\ Others(s) /\ Keeps(s) /\ slot'[s].state = st
         /\ \/ /\ slot'[s].pc = "finish"
               /\ slot'[s].result = IF st.failed THEN "failed" ELSE "succeeded"
               /\ (i .. Len(Manifest(s).steps)) \subseteq st.done
            \/ /\ slot'[s].pc = "steps"
               /\ slot'[s].at \in (i .. Len(Manifest(s).steps)) \ st.done
               /\ \A l \in (i .. Len(Manifest(s).steps)) \ st.done : slot'[s].at <= l
  <1>. DEFINE open == (i .. Len(Manifest(s).steps)) \ st.done
              res == IF st.failed THEN "failed" ELSE "succeeded"
              next(k) == [slot[s] EXCEPT !.pc = "steps", !.at = k, !.state = st]
  <1>1. CASE /\ open = {}
             /\ slot' = [slot EXCEPT ![s] = [@ EXCEPT !.pc = "finish", !.at = 0, !.state = st,
                                                      !.result = res]]
    <2>1. (i .. Len(Manifest(s).steps)) \subseteq st.done
      BY <1>1
    <2>. HIDE DEF open, res
    <2>2. /\ Others(s) /\ Keeps(s)
          /\ slot'[s].pc = "finish" /\ slot'[s].state = st /\ slot'[s].result = res
      BY <1>1, AfterStop
    <2>. QED  BY <2>1, <2>2 DEF res
  <1>2. ASSUME NEW k \in open, \A l \in open : k <= l, slot' = [slot EXCEPT ![s] = next(k)]
        PROVE  /\ Others(s) /\ Keeps(s) /\ slot'[s].state = st
               /\ slot'[s].pc = "steps" /\ slot'[s].at = k
    <2>1. /\ next(k).pc = "steps" /\ next(k).run = slot[s].run /\ next(k).job = slot[s].job
          /\ next(k).serial = slot[s].serial /\ next(k).state = st /\ next(k).at = k
      BY SlotFields DEF SlotType
    <2>. HIDE DEF next
    <2>. QED  BY <1>2, <2>1, OnlyOne DEF Keeps
  <1>3. ASSUME NEW k \in open, \A l \in open : k <= l, slot' = [slot EXCEPT ![s] = next(k)]
        PROVE  /\ Others(s) /\ Keeps(s) /\ slot'[s].state = st
               /\ slot'[s].pc = "steps"
               /\ slot'[s].at \in (i .. Len(Manifest(s).steps)) \ st.done
               /\ \A l \in open : slot'[s].at <= l
    <2>1. k \in (i .. Len(Manifest(s).steps)) \ st.done
      OBVIOUS
    <2>. HIDE DEF open, next
    <2>. QED  BY <1>2, <1>3, <2>1
  <1>4. \/ /\ open = {}
           /\ slot' = [slot EXCEPT ![s] = [@ EXCEPT !.pc = "finish", !.at = 0, !.state = st,
                                                    !.result = res]]
        \/ \E k \in open : (\A l \in open : k <= l) /\ slot' = [slot EXCEPT ![s] = next(k)]
    BY DEF WalkOn
  <1>. HIDE DEF next, res
  <1>. QED  BY <1>1, <1>3, <1>4

LEMMA AfterEndsFailed ==
  ASSUME TypeInv, NEW s \in Slots, NEW st, EndsFailed(s, st)
  PROVE  /\ Others(s) /\ Keeps(s) /\ slot'[s].pc = "finish" /\ slot'[s].state = st
         /\ slot'[s].result = "failed"
  <1>. DEFINE pc == "finish"
              result == "failed"
  <1>1. slot' = [slot EXCEPT ![s] = [@ EXCEPT !.pc = pc, !.at = 0, !.state = st,
                                             !.result = result]]
    BY DEF EndsFailed
  <1>. HIDE DEF pc, result
  <1>2. /\ Others(s) /\ Keeps(s)
        /\ slot'[s].pc = pc /\ slot'[s].state = st /\ slot'[s].result = result
    BY <1>1, AfterStop
  <1>. QED  BY <1>2 DEF pc, result

LEMMA AfterParked ==
  ASSUME TypeInv, NEW s \in Slots, NEW st, NEW result, Parked(s, st, result)
  PROVE  /\ Others(s) /\ Keeps(s) /\ slot'[s].pc = "park" /\ slot'[s].state = st
         /\ slot'[s].result = result
  <1>. DEFINE pc == "park"
  <1>1. slot' = [slot EXCEPT ![s] = [@ EXCEPT !.pc = pc, !.at = 0, !.state = st,
                                             !.result = result]]
    BY DEF Parked
  <1>. HIDE DEF pc
  <1>2. /\ Others(s) /\ Keeps(s)
        /\ slot'[s].pc = pc /\ slot'[s].state = st /\ slot'[s].result = result
    BY <1>1, AfterStop
  <1>. QED  BY <1>2 DEF pc

LEMMA AfterStepFailed ==
  ASSUME TypeInv, NEW s \in Slots, NEW st, StepFailed(s, st)
  PROVE  /\ Others(s) /\ Keeps(s) /\ slot'[s].pc \in {"steps", "finish"}
         /\ slot'[s].state \in {st, [st EXCEPT !.failed = TRUE]}
         /\ slot'[s].pc = "finish" => slot'[s].result \in {"failed", "succeeded"}
  <1>. DEFINE failed == [st EXCEPT !.failed = TRUE]
  <1>1. CASE EndsFailed(s, st)
    BY <1>1, AfterEndsFailed
  <1>2. CASE WalkOn(s, failed, slot[s].at + 1)
    <2>. HIDE DEF failed
    <2>1. /\ Others(s) /\ Keeps(s) /\ slot'[s].pc \in {"steps", "finish"}
          /\ slot'[s].state = failed
          /\ slot'[s].pc = "finish" => slot'[s].result \in {"failed", "succeeded"}
      BY <1>2, AfterWalkOn
    <2>. QED  BY <2>1 DEF failed
  <1>3. EndsFailed(s, st) \/ WalkOn(s, failed, slot[s].at + 1)
    BY DEF StepFailed
  <1>. QED  BY <1>1, <1>2, <1>3

(* The steps inside the locked section, from after LockRun to before UnlockRun. *)
Within(s) ==
  /\ Others(s) /\ Keeps(s)
  /\ slot[s].pc \in LockedPcs /\ slot'[s].pc \in LockedPcs

WalkPcs == {"steps", "finish", "park"}

LEMMA WalkWithin ==
  ASSUME TypeInv, NEW s \in Slots, WalkStep(s)
  PROVE  /\ Within(s) /\ slot[s].pc = "steps" /\ slot'[s].pc \in WalkPcs
         /\ UNCHANGED <<run, version, events, usage, runLock, redisVars, caller, history>>
  <1>. DEFINE st == slot[s].state
              at == slot[s].at
              Unmoved == UNCHANGED <<run, version, events, usage, runLock, redisVars, caller, history>>
  <1>1. /\ Unmoved /\ slot[s].pc = "steps"
        /\ \/ \E x : WalkOn(s, x, at + 1)
           \/ \E x : EndsFailed(s, x)
           \/ \E x, result : Parked(s, x, result)
    <2>1. CASE StopWalk(s)
      BY <2>1 DEF StopWalk, dbVars
    <2>2. CASE WorkStep(s) \/ FailStep(s)
      BY <2>2 DEF WorkStep, FailStep, AtStep, Completed, StepFailed, dbVars
    <2>3. CASE DelayStep(s)
      BY <2>3 DEF DelayStep, AtStep, Completed
    <2>4. CASE OpenApproval(s)
      <3>. DEFINE x == [st EXCEPT !.approvalAt = at]
      <3>1. /\ Parked(s, x, "paused") \/ StepFailed(s, x)
            /\ Unmoved /\ slot[s].pc = "steps"
        BY <2>4 DEF OpenApproval, AtStep
      <3>. HIDE DEF x
      <3>. QED  BY <3>1 DEF StepFailed
    <2>5. CASE ResumeApproval(s)
      BY <2>5 DEF ResumeApproval, AtStep, Completed, StepFailed
    <2>. QED  BY <2>1, <2>2, <2>3, <2>4, <2>5 DEF WalkStep
  <1>. HIDE DEF Unmoved
  <1>2. Others(s) /\ Keeps(s) /\ slot'[s].pc \in WalkPcs
    BY <1>1, AfterWalkOn, AfterEndsFailed, AfterParked DEF WalkPcs
  <1>3. slot[s].pc \in LockedPcs /\ slot'[s].pc \in LockedPcs
    BY <1>1, <1>2 DEF LockedPcs, WalkPcs
  <1>. QED  BY <1>1, <1>2, <1>3 DEF Within, Unmoved

LEMMA LoadWithin ==
  ASSUME TypeInv, NEW s \in Slots, LoadRun(s)
  PROVE  /\ Within(s)
         /\ \/ slot'[s].pc = "unlockRun" /\ slot'[s].state = FreshState
            \/ slot'[s].pc = "start" /\ slot'[s].state = run[slot[s].run].state
  <1>. DEFINE new == [slot[s] EXCEPT !.pc = "start", !.state = run[slot[s].run].state]
  <1>1. CASE LeaveTo(s, "unlockRun", FALSE)
    BY <1>1, AfterLeave DEF LoadRun, Within, LockedPcs
  <1>2. CASE slot' = [slot EXCEPT ![s] = new]
    <2>1. /\ new.pc = "start" /\ new.run = slot[s].run /\ new.job = slot[s].job
          /\ new.serial = slot[s].serial /\ new.state = run[slot[s].run].state
      BY SlotFields DEF SlotType
    <2>. HIDE DEF new
    <2>. QED  BY <1>2, <2>1, OnlyOne DEF LoadRun, Keeps, Within, LockedPcs
  <1>. QED  BY <1>1, <1>2 DEF LoadRun

LEMMA StepWithin ==
  ASSUME TypeInv, NEW s \in Slots,
         \/ LoadRun(s) \/ StartRun(s) \/ WalkStep(s) \/ ParkRun(s)
         \/ FinishRun(s) \/ BillRun(s) \/ RescueRun(s) \/ RescueBill(s)
  PROVE  Within(s) /\ UNCHANGED <<runLock, redisVars, caller, history>>
  <1>1. CASE LoadRun(s)
    BY <1>1, LoadWithin DEF LoadRun, dbVars
  <1>2. CASE StartRun(s)
    <2>1. slot[s].pc \in LockedPcs /\ "steps" \in LockedPcs /\ "finish" \in LockedPcs
      BY <1>2 DEF StartRun, LockedPcs
    <2>2. WalkOn(s, slot[s].state, 1) /\ UNCHANGED <<runLock, redisVars, caller, history>>
      BY <1>2 DEF StartRun
    <2>. QED  BY <2>1, <2>2, AfterWalkOn DEF Within
  <1>3. CASE WalkStep(s)
    BY <1>3, WalkWithin
  <1>4. CASE ParkRun(s)
    BY <1>4, AfterLeave DEF ParkRun, Within, LockedPcs
  <1>5. CASE FinishRun(s) \/ BillRun(s) \/ RescueRun(s) \/ RescueBill(s)
    BY <1>5, AfterGoto DEF FinishRun, BillRun, RescueRun, RescueBill, Within, LockedPcs
  <1>. QED  BY <1>1, <1>2, <1>3, <1>4, <1>5

LEMMA ThrowGoes ==
  ASSUME TypeInv, NEW s \in Slots, Throw(s)
  PROVE  \/ Within(s) /\ history' = history
         \/ /\ slot[s].pc = "lockRun" /\ Return(s, TRUE) /\ history' = history
         \/ /\ slot[s].pc \in {"audit", "rescueAudit", "unlockRun"} /\ Return(s, TRUE)
            /\ history' = [history EXCEPT !.abandoned = TRUE]
  <1>1. CASE /\ slot[s].pc \in {"steps", "park", "finish", "bill", "audit"}
             /\ slot' = [slot EXCEPT ![s] =
                           [@ EXCEPT !.pc = "rescue", !.at = 0, !.result = "none"]]
             /\ history' = history
    <2>. DEFINE new == [slot[s] EXCEPT !.pc = "rescue", !.at = 0, !.result = "none"]
    <2>1. /\ new.pc = "rescue" /\ new.run = slot[s].run /\ new.job = slot[s].job
          /\ new.serial = slot[s].serial
      BY SlotFields DEF SlotType
    <2>2. slot' = [slot EXCEPT ![s] = new]
      BY <1>1
    <2>. HIDE DEF new
    <2>. QED  BY <1>1, <2>1, <2>2, OnlyOne DEF Keeps, Within, LockedPcs
  <1>2. CASE slot[s].pc = "rescueBill" /\ Goto(s, "rescueAudit") /\ history' = history
    BY <1>2, AfterGoto DEF Within, LockedPcs
  <1>3. CASE /\ slot[s].pc \in {"load", "start", "rescue", "rescueAudit"}
             /\ LeaveTo(s, "unlockRun", TRUE) /\ history' = history
    BY <1>3, AfterLeave DEF Within, LockedPcs
  <1>. QED  BY <1>1, <1>2, <1>3 DEF Throw

----------------------------------------------------------------------------
(* The run_locks row.  RunLockHeld is inductive: a step either stays inside   *)
(* the locked section, or is the DELETE of its own process's row, or leaves   *)
(* the row behind and abandons it.                                           *)

(* Whoever is inside for a run stays inside for it. *)
NoExit == \A t \in Slots, r \in Runs : Executes(t, r) => Executes(t, r)'

LEMMA WithinNoExit ==
  ASSUME NEW s \in Slots, Within(s)
  PROVE  NoExit
  BY DEF Within, Others, Keeps, NoExit, Executes

LEMMA OutsideNoExit ==
  ASSUME NEW s \in Slots, Others(s), slot[s].pc \notin LockedPcs
  PROVE  NoExit
  BY DEF Others, NoExit, Executes

LEMMA HeldKept ==
  ASSUME RunLockHeld, NoExit, history.abandoned => history'.abandoned,
         \A r \in Runs : runLock'[r] \in {runLock[r], None}
  PROVE  RunLockHeld'
  BY DEF RunLockHeld, NoExit, Executes

LEMMA HeldSlotStep ==
  ASSUME TypeInv, RunLockHeld, NEW s \in Slots,
         FetchJob(s) \/ SlotStep(s) \/ Throw(s) \/ ProcessorThrows(s)
  PROVE  RunLockHeld'
  <1>1. CASE /\ FetchJob(s) \/ LockWorkflow(s) \/ Requeue(s) \/ EndJob(s) \/ ProcessorThrows(s)
    <2>1. /\ UNCHANGED <<runLock, history>>
          /\ slot[s].pc \notin LockedPcs
          /\ slot' = slot \/ \E x : slot' = [slot EXCEPT ![s] = x]
      <3>1. CASE FetchJob(s)
        BY <3>1 DEF FetchJob, LockedPcs, dbVars
      <3>2. CASE ProcessorThrows(s)
        BY <3>2 DEF ProcessorThrows, Goto, LockedPcs, dbVars
      <3>3. CASE LockWorkflow(s) \/ Requeue(s) \/ EndJob(s)
        BY <3>3 DEF LockWorkflow, Requeue, EndJob, Goto, LockedPcs, dbVars
      <3>. QED  BY <1>1, <3>1, <3>2, <3>3
    <2>2. NoExit
      BY <2>1, OnlyOne, OutsideNoExit DEF NoExit, Executes
    <2>. QED  BY <2>1, <2>2, HeldKept
  <1>2. CASE LockRun(s)
    <2>. PICK r \in Runs : r = slot[s].run
      BY <1>2, BusySlot DEF LockRun
    <2>1. slot[s].pc \notin LockedPcs /\ history' = history
      BY <1>2 DEF LockRun, LockedPcs
    <2>2. CASE Goto(s, "load") /\ runLock' = [runLock EXCEPT ![r] = ProcOf[s]]
      <3>1. NoExit /\ Executes(s, r)'
        BY <2>1, <2>2, AfterGoto, OutsideNoExit DEF Keeps, Executes, LockedPcs
      <3>2. \A q \in Runs : runLock'[q] = IF q = r THEN ProcOf[s] ELSE runLock[q]
        BY <2>2 DEF TypeInv, LocksOK
      <3>. QED  BY <2>1, <3>1, <3>2 DEF RunLockHeld, NoExit
    <2>3. CASE Return(s, FALSE) /\ runLock' = runLock
      BY <2>1, <2>3, AfterReturn, OutsideNoExit, HeldKept
    <2>. QED  BY <1>2, <2>2, <2>3 DEF LockRun
  <1>3. CASE \/ LoadRun(s) \/ StartRun(s) \/ WalkStep(s) \/ ParkRun(s)
             \/ FinishRun(s) \/ BillRun(s) \/ RescueRun(s) \/ RescueBill(s)
    BY <1>3, StepWithin, WithinNoExit, HeldKept
  <1>4. CASE UnlockRun(s)
    <2>1. /\ Others(s) /\ history' = history /\ slot[s].run \in Runs
          /\ slot[s].pc \in LockedPcs
      BY <1>4, AfterReturn, BusySlot DEF UnlockRun, LockedPcs
    <2>2. \A r \in Runs : runLock'[r] = IF r = slot[s].run /\ runLock[r] = ProcOf[s] THEN None
                                        ELSE runLock[r]
      BY <1>4 DEF UnlockRun, TypeInv, LocksOK
    <2>3. ASSUME NEW r \in Runs, runLock'[r] # None, ~history'.abandoned
          PROVE  \E t \in Slots : Executes(t, r)' /\ ProcOf[t] = runLock'[r]
      <3>1. PICK t \in Slots : Executes(t, r) /\ ProcOf[t] = runLock[r]
        BY <2>1, <2>2, <2>3 DEF RunLockHeld
      <3>2. t # s /\ runLock'[r] = runLock[r]
        BY <2>2, <2>3, <3>1 DEF Executes
      <3>. QED  BY <2>1, <3>1, <3>2 DEF Others, Executes
    <2>. QED  BY <2>3 DEF RunLockHeld
  <1>5. CASE Throw(s)
    <2>1. runLock' = runLock
      BY <1>5 DEF Throw
    <2>2. CASE Within(s) /\ history' = history
      BY <2>1, <2>2, WithinNoExit, HeldKept
    <2>3. CASE slot[s].pc = "lockRun" /\ Return(s, TRUE) /\ history' = history
      BY <2>1, <2>3, AfterReturn, OutsideNoExit, HeldKept DEF LockedPcs
    <2>4. CASE history' = [history EXCEPT !.abandoned = TRUE]
      BY <2>4 DEF RunLockHeld, TypeInv, FaultsOK
    <2>. QED  BY <1>5, <2>2, <2>3, <2>4, ThrowGoes
  <1>. QED  BY <1>1, <1>2, <1>3, <1>4, <1>5 DEF SlotStep

LEMMA HeldStep ==
  ASSUME TypeInv, RunLockHeld, [Next]_vars
  PROVE  RunLockHeld'
  <1>1. CASE UNCHANGED vars
    BY <1>1 DEF vars, dbVars, RunLockHeld, Executes
  <1>2. ASSUME NEW s \in Slots, NEW r \in Runs, SubmitSync(s, r) PROVE RunLockHeld'
    BY <1>2, OnlyOne, OutsideNoExit, HeldKept DEF SubmitSync, LockedPcs
  <1>3. ASSUME NEW p \in Procs, Crash(p) PROVE RunLockHeld'
    BY <1>3 DEF Crash, RunLockHeld, TypeInv, FaultsOK
  <1>4. CASE UNCHANGED <<slot, runLock, history>>
    BY <1>4 DEF RunLockHeld, Executes
  <1>5. ASSUME NEW r \in Runs, CancelRow(r), UNCHANGED <<slot, history>> PROVE RunLockHeld'
    <2>1. NoExit /\ \A q \in Runs : runLock'[q] \in {runLock[q], None}
      BY <1>5 DEF CancelRow, NoExit, Executes, TypeInv, LocksOK
    <2>. QED  BY <1>5, <2>1, HeldKept
  <1>6. ASSUME NEW c \in Requests, BeginRequest(c) \/ RequestStep(c) PROVE RunLockHeld'
    <2>1. CASE \E r \in Runs : Cancel(c, r)
      BY <1>5, <2>1 DEF Cancel
    <2>2. CASE MoveRun(c) /\ CancelRow(caller[c].run)
      <3>1. caller[c].run \in Runs
        BY <2>2, BusyCaller DEF MoveRun, Callers
      <3>. QED  BY <1>5, <2>2, <3>1 DEF MoveRun
    <2>3. CASE \/ \E r \in Runs : \/ Submit(c, r) \/ ApproveAll(c, r)
                                  \/ \E v \in {"approved", "rejected"} : Decide(c, r, v)
               \/ MoveRun(c) /\ Requeued(c, caller[c].run)
               \/ TidyCanceled(c) \/ DecideTask(c) \/ ApproveTask(c) \/ MoveAll(c)
               \/ AddJob(c) \/ RecordJob(c)
      BY <1>4, <2>3 DEF Submit, ApproveAll, Decide, MoveRun, Requeued, TidyCanceled, DecideTask,
                        ApproveTask, MoveAll, AddJob, RecordJob, dbVars
    <2>4. MoveRun(c) => CancelRow(caller[c].run) \/ Requeued(c, caller[c].run)
      BY DEF MoveRun
    <2>. QED  BY <1>6, <2>1, <2>2, <2>3, <2>4 DEF BeginRequest, RequestStep
  <1>7. CASE TickerStep \/ \E r \in Runs : BeginSweep(r)
    BY <1>4, <1>7
    DEF TickerStep, BeginSweep, ResumeRun, TimeOutRun, BillFailure, Exhaust, AddJob, RecordJob,
        LeaseResume, TimeOutTask, SweepStale, SweepStuck, QueueTimeout, dbVars
  <1>8. CASE \/ \E r \in Runs : DelayElapses(r) \/ ApprovalExpires(r)
             \/ \E j \in JobIds : StalledJob(j)
             \/ \E c \in Callers : CallerFails(c)
    BY <1>4, <1>8 DEF DelayElapses, ApprovalExpires, StalledJob, CallerFails, dbVars
  <1>9. ASSUME NEW w \in Workflows, WorkflowLockLapses(w) PROVE RunLockHeld'
    <2>1. UNCHANGED <<slot, runLock>> /\ history'.abandoned = history.abandoned
      BY <1>9 DEF WorkflowLockLapses, TypeInv, FaultsOK, dbVars
    <2>. QED  BY <2>1 DEF RunLockHeld, Executes
  <1>. QED  BY <1>1, <1>2, <1>3, <1>6, <1>7, <1>8, <1>9, HeldSlotStep DEF Next, Environment

----------------------------------------------------------------------------
(* The workflow lock.  As long as it neither lapsed under an execution nor    *)
(* was deleted for a canceled run, the one execution that counts as           *)
(* serialized in a workflow finds the key taken, so that nobody gets past     *)
(* LockWorkflow; and only the request that canceled a run deletes the key of  *)
(* its workflow.                                                             *)

Undisturbed(w) ==
  /\ w \notin history.lapsed
  /\ \A r \in Runs : WorkflowOf[r] = w => ~WasCanceled(r)

OneInWorkflow ==
  \A w \in Workflows : Undisturbed(w) =>
    \A s \in Slots : ExecutesIn(s, w) =>
      /\ wfLock[w] # None
      /\ \A t \in Slots : ExecutesIn(t, w) => t = s

TidiesCanceled ==
  \A c \in Callers : caller[c].pc = "tidy" => WasCanceled(caller[c].run)

KeyInv == OneInWorkflow /\ TidiesCanceled

(* Events are only added, and a lapse stays noted. *)
LEMMA EventsGrow ==
  ASSUME TypeInv, [Next]_vars
  PROVE  /\ \A r \in Runs : events[r] \subseteq events'[r]
         /\ history.lapsed \subseteq history'.lapsed
  <1>1. CASE UNCHANGED <<events, history>>
    BY <1>1
  <1>2. ASSUME NEW r, NEW new, events' = [events EXCEPT ![r] = @ \cup new], history' = history
        PROVE  \A q \in Runs : events[q] \subseteq events'[q]
    BY <1>2 DEF TypeInv, RowsOK
  <1>3. ASSUME NEW s \in Slots, FetchJob(s) \/ SlotStep(s) \/ Throw(s) \/ ProcessorThrows(s)
        PROVE  /\ \A r \in Runs : events[r] \subseteq events'[r]
               /\ history.lapsed \subseteq history'.lapsed
    <2>1. CASE FinishRun(s) \/ RescueRun(s)
      BY <1>2, <2>1 DEF FinishRun, RescueRun
    <2>2. CASE Throw(s)
      BY <2>2 DEF Throw, TypeInv, FaultsOK
    <2>3. CASE WalkStep(s)
      BY <1>1, <2>3, WalkWithin
    <2>4. CASE \/ FetchJob(s) \/ LockWorkflow(s) \/ LockRun(s) \/ LoadRun(s) \/ StartRun(s)
               \/ ParkRun(s) \/ BillRun(s) \/ RescueBill(s) \/ UnlockRun(s) \/ Requeue(s)
               \/ EndJob(s) \/ ProcessorThrows(s)
      BY <1>1, <2>4
      DEF FetchJob, LockWorkflow, LockRun, LoadRun, StartRun, ParkRun, BillRun, RescueBill,
          UnlockRun, Requeue, EndJob, ProcessorThrows, dbVars
    <2>. QED  BY <1>3, <2>1, <2>2, <2>3, <2>4 DEF SlotStep
  <1>4. ASSUME NEW c \in Requests, BeginRequest(c) \/ RequestStep(c)
        PROVE  /\ \A r \in Runs : events[r] \subseteq events'[r]
               /\ history.lapsed \subseteq history'.lapsed
    <2>1. CASE \E r \in Runs : Cancel(c, r)
      BY <1>2, <2>1 DEF Cancel, CancelRow
    <2>2. CASE MoveRun(c)
      BY <1>1, <1>2, <2>2 DEF MoveRun, CancelRow, Requeued
    <2>3. CASE \/ \E r \in Runs : \/ Submit(c, r) \/ ApproveAll(c, r)
                                  \/ \E v \in {"approved", "rejected"} : Decide(c, r, v)
               \/ TidyCanceled(c) \/ DecideTask(c) \/ ApproveTask(c) \/ MoveAll(c)
               \/ AddJob(c) \/ RecordJob(c)
      BY <1>1, <2>3 DEF Submit, ApproveAll, Decide, Requeued, TidyCanceled, DecideTask,
                        ApproveTask, MoveAll, AddJob, RecordJob, dbVars
    <2>. QED  BY <1>4, <2>1, <2>2, <2>3 DEF BeginRequest, RequestStep
  <1>5. CASE TickerStep \/ \E r \in Runs : BeginSweep(r)
    <2>1. CASE TimeOutRun \/ Exhaust \/ \E r \in Runs : QueueTimeout(r)
      BY <1>1, <1>2, <2>1 DEF TimeOutRun, Exhaust, QueueTimeout
    <2>2. CASE \/ ResumeRun \/ BillFailure \/ AddJob(Ticker) \/ RecordJob(Ticker)
               \/ \E r \in Runs : LeaseResume(r) \/ TimeOutTask(r) \/ SweepStale(r) \/ SweepStuck(r)
      BY <1>1, <2>2 DEF ResumeRun, BillFailure, AddJob, RecordJob, LeaseResume, TimeOutTask,
                        SweepStale, SweepStuck, dbVars
    <2>. QED  BY <1>5, <2>1, <2>2 DEF TickerStep, BeginSweep
  <1>6. CASE \/ \E s \in Slots, r \in Runs : SubmitSync(s, r)
             \/ \E r \in Runs : DelayElapses(r) \/ ApprovalExpires(r)
             \/ \E j \in JobIds : StalledJob(j)
             \/ \E c \in Callers : CallerFails(c)
             \/ UNCHANGED vars
    BY <1>1, <1>6 DEF SubmitSync, DelayElapses, ApprovalExpires, StalledJob, CallerFails, dbVars, vars
  <1>7. CASE \/ \E p \in Procs : Crash(p)
             \/ \E w \in Workflows : WorkflowLockLapses(w)
    BY <1>7 DEF Crash, WorkflowLockLapses, dbVars, TypeInv, FaultsOK
  <1>. QED  BY <1>3, <1>4, <1>5, <1>6, <1>7 DEF Next, Environment

LEMMA CancelsStay ==
  ASSUME TypeInv, [Next]_vars
  PROVE  CancelsRemembered /\ \A w \in Workflows : Undisturbed(w)' => Undisturbed(w)
  BY EventsGrow DEF CancelsRemembered, WasCanceled, Undisturbed

(* No execution begins to count as serialized. *)
NoKeyEntry == \A t \in Slots, w \in Workflows : ExecutesIn(t, w)' => ExecutesIn(t, w)

LEMMA KeyKept ==
  ASSUME OneInWorkflow, NoKeyEntry, \A w \in Workflows : Undisturbed(w)' => Undisturbed(w),
         \A w \in Workflows : \/ wfLock'[w] = wfLock[w]
                              \/ ~Undisturbed(w)'
                              \/ \A s \in Slots : ~ExecutesIn(s, w)'
  PROVE  OneInWorkflow'
  BY DEF OneInWorkflow, NoKeyEntry

HoldPcs == LockedPcs \cup {"lockRun", "requeue", "end"}

LEMMA NoKeyEntryByStep ==
  ASSUME NEW s \in Slots, Others(s),
         \/ slot'[s].serial = FALSE
         \/ slot'[s].pc \notin HoldPcs
         \/ Keeps(s) /\ slot[s].pc \in HoldPcs
  PROVE  NoKeyEntry
  BY DEF Others, Keeps, NoKeyEntry, ExecutesIn, HoldPcs

LEMMA NoKeyEntryByReturn ==
  ASSUME TypeInv, NEW s \in Slots, NEW threw, Return(s, threw), slot[s].pc \in HoldPcs
  PROVE  NoKeyEntry
  <1>1. IdleSlot.serial = FALSE
    BY DEF IdleSlot
  <1>. QED  BY <1>1, AfterReturn, NoKeyEntryByStep

LEMMA NoKeyEntryByIdle ==
  ASSUME TypeInv, NEW s \in Slots, slot' = [slot EXCEPT ![s] = IdleSlot]
  PROVE  NoKeyEntry /\ Others(s) /\ slot'[s].serial = FALSE
  <1>1. IdleSlot.serial = FALSE
    BY DEF IdleSlot
  <1>. QED  BY <1>1, OnlyOne, NoKeyEntryByStep

LEMMA KeyLockWorkflow ==
  ASSUME TypeInv, OneInWorkflow, [Next]_vars, NEW s \in Slots, LockWorkflow(s)
  PROVE  OneInWorkflow'
  <1>. PICK w \in Workflows : w = WorkflowOf[slot[s].run]
    BY BusySlot, ConstantsAssumption DEF LockWorkflow
  <1>0. \A v \in Workflows : Undisturbed(v)' => Undisturbed(v)
    BY CancelsStay
  <1>1. CASE wfLock[w] = None /\ wfLock' = [wfLock EXCEPT ![w] = ProcOf[s]] /\ Goto(s, "lockRun")
    <2>1. Others(s) /\ Keeps(s)
      BY <1>1, AfterGoto
    <2>2. wfLock'[w] # None /\ \A v \in Workflows \ {w} : wfLock'[v] = wfLock[v]
      BY <1>1, BusySlot, ConstantsAssumption DEF TypeInv, LocksOK, LockWorkflow
    <2>3. \A v \in Workflows : ExecutesIn(s, v)' => v = w
      BY <2>1 DEF Keeps, ExecutesIn
    <2>4. \A v \in Workflows, t \in Slots \ {s} : ExecutesIn(t, v)' => ExecutesIn(t, v)
      BY <2>1 DEF Others, ExecutesIn
    <2>5. Undisturbed(w) => \A t \in Slots : ~ExecutesIn(t, w)
      BY <1>1 DEF OneInWorkflow
    <2>. QED  BY <1>0, <2>2, <2>3, <2>4, <2>5 DEF OneInWorkflow
  <1>2. CASE slot' = [slot EXCEPT ![s] = IdleSlot] /\ wfLock' = wfLock
    <2>1. NoKeyEntry
      BY <1>2, NoKeyEntryByIdle
    <2>. QED  BY <1>0, <1>2, <2>1, KeyKept
  <1>. QED  BY <1>1, <1>2 DEF LockWorkflow

LEMMA KeyEndJob ==
  ASSUME TypeInv, OneInWorkflow, [Next]_vars, NEW s \in Slots, EndJob(s)
  PROVE  OneInWorkflow'
  <1>. PICK w \in Workflows : w = WorkflowOf[slot[s].run]
    BY BusySlot, ConstantsAssumption DEF EndJob
  <1>1. Others(s) /\ slot'[s].serial = FALSE
    BY NoKeyEntryByIdle DEF EndJob
  <1>2. NoKeyEntry /\ \A v \in Workflows : Undisturbed(v)' => Undisturbed(v)
    BY <1>1, NoKeyEntryByStep, CancelsStay
  <1>3. CASE ~slot[s].serial
    BY <1>2, <1>3, KeyKept DEF EndJob
  <1>4. CASE slot[s].serial
    <2>1. \A v \in Workflows \ {w} : wfLock'[v] = wfLock[v]
      BY <1>4 DEF EndJob, TypeInv, LocksOK
    <2>2. ExecutesIn(s, w) /\ ~ExecutesIn(s, w)'
      BY <1>1, <1>4 DEF EndJob, ExecutesIn
    <2>3. Undisturbed(w) => \A t \in Slots : ~ExecutesIn(t, w)'
      BY <1>2, <2>2 DEF OneInWorkflow, NoKeyEntry
    <2>. QED  BY <1>2, <2>1, <2>3, KeyKept
  <1>. QED  BY <1>3, <1>4

LEMMA KeySlotStep ==
  ASSUME TypeInv, OneInWorkflow, [Next]_vars, NEW s \in Slots,
         FetchJob(s) \/ SlotStep(s) \/ Throw(s) \/ ProcessorThrows(s)
  PROVE  OneInWorkflow'
  <1>0. \A w \in Workflows : Undisturbed(w)' => Undisturbed(w)
    BY CancelsStay
  <1>1. CASE LockWorkflow(s) \/ EndJob(s)
    BY <1>1, KeyLockWorkflow, KeyEndJob
  <1>2. CASE FetchJob(s)
    <2>. DEFINE new(j) == [IdleSlot EXCEPT
                  !.pc = IF NeedsLock(jobs[j].run) THEN "lockWf" ELSE "lockRun",
                  !.run = jobs[j].run, !.job = j, !.serial = NeedsLock(jobs[j].run)]
    <2>1. slot' = slot \/ \E j \in JobIds : slot' = [slot EXCEPT ![s] = new(j)]
      BY <1>2 DEF FetchJob
    <2>2. ASSUME NEW j PROVE new(j).serial = FALSE \/ new(j).pc \notin HoldPcs
      <3>1. new(j).serial = NeedsLock(jobs[j].run)
        BY DEF IdleSlot
      <3>2. new(j).pc = IF NeedsLock(jobs[j].run) THEN "lockWf" ELSE "lockRun"
        BY DEF IdleSlot
      <3>3. NeedsLock(jobs[j].run) \in BOOLEAN /\ "lockWf" \notin HoldPcs
        BY DEF NeedsLock, HoldPcs, LockedPcs
      <3>. QED  BY <3>1, <3>2, <3>3
    <2>. HIDE DEF new
    <2>3. CASE slot' = slot
      BY <1>0, <1>2, <2>3, KeyKept DEF FetchJob, NoKeyEntry, ExecutesIn
    <2>4. ASSUME NEW j \in JobIds, slot' = [slot EXCEPT ![s] = new(j)] PROVE OneInWorkflow'
      <3>1. NoKeyEntry
        BY <2>2, <2>4, OnlyOne, NoKeyEntryByStep
      <3>. QED  BY <1>0, <1>2, <3>1, KeyKept DEF FetchJob
    <2>. QED  BY <2>1, <2>3, <2>4
  <1>3. CASE LockRun(s)
    <2>1. slot[s].pc \in HoldPcs /\ wfLock' = wfLock
      BY <1>3 DEF LockRun, HoldPcs, redisVars
    <2>2. NoKeyEntry
      BY <1>3, <2>1, AfterGoto, NoKeyEntryByStep, NoKeyEntryByReturn DEF LockRun
    <2>. QED  BY <1>0, <2>1, <2>2, KeyKept
  <1>4. CASE \/ LoadRun(s) \/ StartRun(s) \/ WalkStep(s) \/ ParkRun(s)
             \/ FinishRun(s) \/ BillRun(s) \/ RescueRun(s) \/ RescueBill(s)
    <2>1. Within(s) /\ wfLock' = wfLock
      BY <1>4, StepWithin DEF redisVars
    <2>2. NoKeyEntry
      BY <2>1, NoKeyEntryByStep DEF Within, HoldPcs
    <2>. QED  BY <1>0, <2>1, <2>2, KeyKept
  <1>5. CASE UnlockRun(s)
    <2>1. NoKeyEntry /\ wfLock' = wfLock
      BY <1>5, NoKeyEntryByReturn DEF UnlockRun, HoldPcs, LockedPcs, redisVars
    <2>. QED  BY <1>0, <2>1, KeyKept
  <1>6. CASE Requeue(s)
    <2>1. NoKeyEntry /\ wfLock' = wfLock
      BY <1>6, AfterGoto, NoKeyEntryByStep DEF Requeue, HoldPcs, redisVars
    <2>. QED  BY <1>0, <2>1, KeyKept
  <1>7. CASE Throw(s)
    <2>1. wfLock' = wfLock
      BY <1>7 DEF Throw, redisVars
    <2>2. CASE Within(s)
      <3>1. NoKeyEntry
        BY <2>2, NoKeyEntryByStep DEF Within, HoldPcs
      <3>. QED  BY <1>0, <2>1, <3>1, KeyKept
    <2>3. CASE slot[s].pc \in {"lockRun", "audit", "rescueAudit", "unlockRun"} /\ Return(s, TRUE)
      <3>1. NoKeyEntry
        BY <2>3, NoKeyEntryByReturn DEF HoldPcs, LockedPcs
      <3>. QED  BY <1>0, <2>1, <3>1, KeyKept
    <2>. QED  BY <1>7, <2>2, <2>3, ThrowGoes
  <1>8. CASE ProcessorThrows(s)
    <2>. DEFINE new == [slot[s] EXCEPT !.pc = "lockRun", !.serial = FALSE]
    <2>1. /\ wfLock' = wfLock
          /\ \/ slot' = [slot EXCEPT ![s] = new]
             \/ slot[s].pc = "requeue" /\ Goto(s, "end")
             \/ slot' = [slot EXCEPT ![s] = IdleSlot]
      BY <1>8 DEF ProcessorThrows
    <2>2. new.serial = FALSE /\ IdleSlot.serial = FALSE
      BY SlotFields DEF SlotType, IdleSlot
    <2>. HIDE DEF new
    <2>3. NoKeyEntry
      BY <2>1, <2>2, OnlyOne, AfterGoto, NoKeyEntryByStep, ZenonT(30) DEF HoldPcs
    <2>. QED  BY <1>0, <2>1, <2>3, KeyKept
  <1>. QED  BY <1>1, <1>2, <1>3, <1>4, <1>5, <1>6, <1>7, <1>8 DEF SlotStep

LEMMA KeyStep ==
  ASSUME TypeInv, KeyInv, [Next]_vars
  PROVE  OneInWorkflow'
  <1>0. OneInWorkflow /\ TidiesCanceled /\ \A w \in Workflows : Undisturbed(w)' => Undisturbed(w)
    BY CancelsStay DEF KeyInv
  <1>1. CASE UNCHANGED <<slot, wfLock>>
    BY <1>0, <1>1, KeyKept DEF NoKeyEntry, ExecutesIn
  <1>2. ASSUME NEW s \in Slots, NEW r \in Runs, SubmitSync(s, r) PROVE OneInWorkflow'
    <2>. DEFINE new == [IdleSlot EXCEPT !.pc = "lockRun", !.run = r]
    <2>1. new.serial = FALSE /\ slot' = [slot EXCEPT ![s] = new] /\ wfLock' = wfLock
      BY <1>2 DEF SubmitSync, IdleSlot, redisVars
    <2>. HIDE DEF new
    <2>2. NoKeyEntry
      BY <2>1, OnlyOne, NoKeyEntryByStep
    <2>. QED  BY <1>0, <2>1, <2>2, KeyKept
  <1>3. ASSUME NEW p \in Procs, Crash(p) PROVE OneInWorkflow'
    <2>1. IdleSlot.serial = FALSE
      BY DEF IdleSlot
    <2>2. NoKeyEntry
      BY <1>3, <2>1 DEF Crash, NoKeyEntry, ExecutesIn
    <2>. QED  BY <1>0, <1>3, <2>2, KeyKept DEF Crash, redisVars
  <1>4. ASSUME NEW w \in Workflows, WorkflowLockLapses(w) PROVE OneInWorkflow'
    <2>1. NoKeyEntry
      BY <1>4 DEF WorkflowLockLapses, NoKeyEntry, ExecutesIn
    <2>2. \A v \in Workflows \ {w} : wfLock'[v] = wfLock[v]
      BY <1>4 DEF WorkflowLockLapses, TypeInv, LocksOK
    <2>3. (\E s \in Slots : ExecutesIn(s, w)) => w \in history'.lapsed
      BY <1>4 DEF WorkflowLockLapses, TypeInv, FaultsOK
    <2>. QED  BY <1>0, <2>1, <2>2, <2>3, KeyKept DEF Undisturbed, NoKeyEntry
  <1>5. ASSUME NEW c \in Requests, TidyCanceled(c) PROVE OneInWorkflow'
    <2>. PICK r \in Runs : r = caller[c].run
      BY <1>5, BusyCaller DEF TidyCanceled, Callers
    <2>1. NoKeyEntry /\ WasCanceled(r)'
      BY <1>0, <1>5 DEF TidyCanceled, TidiesCanceled, Callers, WasCanceled, NoKeyEntry, ExecutesIn, dbVars
    <2>2. /\ ~Undisturbed(WorkflowOf[r])'
          /\ \A v \in Workflows \ {WorkflowOf[r]} : wfLock'[v] = wfLock[v]
      BY <1>5, <2>1 DEF TidyCanceled, Undisturbed, TypeInv, LocksOK
    <2>. QED  BY <1>0, <2>1, <2>2, KeyKept
  <1>6. ASSUME NEW c \in Requests, BeginRequest(c) \/ RequestStep(c), ~TidyCanceled(c)
        PROVE  OneInWorkflow'
    BY <1>1, <1>6
    DEF BeginRequest, RequestStep, Submit, Cancel, ApproveAll, Decide, MoveRun, DecideTask,
        ApproveTask, MoveAll, AddJob, RecordJob, redisVars
  <1>7. CASE TickerStep \/ \E r \in Runs : BeginSweep(r)
    BY <1>1, <1>7
    DEF TickerStep, BeginSweep, ResumeRun, TimeOutRun, BillFailure, Exhaust, AddJob, RecordJob,
        LeaseResume, TimeOutTask, SweepStale, SweepStuck, QueueTimeout, redisVars
  <1>8. CASE \/ \E r \in Runs : DelayElapses(r) \/ ApprovalExpires(r)
             \/ \E j \in JobIds : StalledJob(j)
             \/ \E c \in Callers : CallerFails(c)
             \/ UNCHANGED vars
    BY <1>1, <1>8 DEF DelayElapses, ApprovalExpires, StalledJob, CallerFails, redisVars, vars
  <1>. QED  BY <1>0, <1>2, <1>3, <1>4, <1>5, <1>6, <1>7, <1>8, KeySlotStep DEF Next, Environment

LEMMA TidyStep ==
  ASSUME TypeInv, KeyInv, [Next]_vars
  PROVE  TidiesCanceled'
  <1>0. CancelsRemembered
    BY CancelsStay
  <1>1. ASSUME \A c \in Callers : caller'[c].pc = "tidy" =>
                 caller[c].pc = "tidy" /\ caller'[c].run = caller[c].run
        PROVE  TidiesCanceled'
    BY <1>0, <1>1, BusyCaller DEF KeyInv, TidiesCanceled, CancelsRemembered
  <1>2. CASE UNCHANGED caller
    BY <1>1, <1>2
  <1>3. ASSUME NEW c \in Callers, NEW x, caller' = [caller EXCEPT ![c] = x], x.pc # "tidy"
        PROVE  TidiesCanceled'
    BY <1>1, <1>3 DEF TypeInv, ActorsOK
  <1>4. ASSUME NEW c \in Callers PROVE Finished(c).pc # "tidy"
    BY DEF Finished, IdleCaller
  <1>5. ASSUME NEW c \in Callers, NEW pc, Proceed(c, pc), pc # "tidy" PROVE TidiesCanceled'
    <2>1. [caller[c] EXCEPT !.pc = pc].pc = pc
      BY DEF TypeInv, ActorsOK, GoodCallers, CallerType
    <2>. QED  BY <1>3, <1>5, <2>1 DEF Proceed
  <1>6. ASSUME NEW pc, NEW r, TickTo(pc, r), pc # "tidy" PROVE TidiesCanceled'
    <2>1. [IdleCaller EXCEPT !.pc = pc, !.run = r].pc # "tidy"
      BY <1>6 DEF IdleCaller
    <2>. QED  BY <1>3, <1>6, <2>1 DEF TickTo, Callers
  <1>7. ASSUME NEW c \in Callers, AddJob(c) PROVE TidiesCanceled'
    <2>. DEFINE new(j) == [caller[c] EXCEPT !.pc = "record", !.job = j]
    <2>1. \E j : caller' = [caller EXCEPT ![c] = new(j)]
      BY <1>7 DEF AddJob
    <2>2. \A j : new(j).pc # "tidy"
      BY DEF TypeInv, ActorsOK, GoodCallers, CallerType
    <2>. HIDE DEF new
    <2>. QED  BY <1>3, <2>1, <2>2
  <1>8. ASSUME NEW c \in Requests, BeginRequest(c) \/ RequestStep(c) PROVE TidiesCanceled'
    <2>1. c \in Callers
      BY DEF Callers
    <2>2. ASSUME NEW r \in Runs, Cancel(c, r) PROVE TidiesCanceled'
      <3>. DEFINE new == [pc |-> "tidy", run |-> r, job |-> run[r].job, verdict |-> "none"]
      <3>1. caller' = [caller EXCEPT ![c] = new] /\ new.run = r
        BY <2>2 DEF Cancel, Begin
      <3>2. WasCanceled(r)'
        BY <2>2 DEF Cancel, CancelRow, WasCanceled, TypeInv, RowsOK
      <3>. HIDE DEF new
      <3>3. \A d \in Callers \ {c} : caller'[d] = caller[d]
        BY <3>1 DEF TypeInv, ActorsOK
      <3>4. caller'[c].run = r
        BY <2>1, <3>1 DEF TypeInv, ActorsOK
      <3>5. ASSUME NEW d \in Callers, d # c, caller'[d].pc = "tidy" PROVE WasCanceled(caller[d].run)'
        <4>1. caller'[d] = caller[d] /\ caller[d].pc = "tidy" /\ caller[d].run \in Runs
          BY <3>3, <3>5, BusyCaller
        <4>2. PICK q \in Runs : q = caller[d].run /\ q = caller'[d].run /\ WasCanceled(q)
          BY <4>1 DEF KeyInv, TidiesCanceled
        <4>. QED  BY <1>0, <4>2 DEF CancelsRemembered, WasCanceled
      <3>6. ASSUME NEW d \in Callers, caller'[d].pc = "tidy"
            PROVE  "run.canceled" \in events'[caller'[d].run]
        <4>1. CASE d = c
          BY <3>2, <3>4, <4>1 DEF WasCanceled
        <4>2. CASE d # c
          BY <3>5, <3>6, <4>2 DEF WasCanceled
        <4>. QED  BY <4>1, <4>2
      <3>. QED  BY <3>6 DEF TidiesCanceled, WasCanceled
    <2>3. ASSUME NEW r, NEW pc, NEW job, NEW verdict, Begin(c, pc, r, job, verdict), pc # "tidy"
          PROVE  TidiesCanceled'
      <3>. DEFINE new == [pc |-> pc, run |-> r, job |-> job, verdict |-> verdict]
      <3>1. caller' = [caller EXCEPT ![c] = new] /\ new.pc # "tidy"
        BY <2>3 DEF Begin
      <3>. HIDE DEF new
      <3>. QED  BY <1>3, <2>1, <3>1
    <2>4. CASE \E r \in Runs : \/ Submit(c, r) \/ ApproveAll(c, r)
                               \/ \E v \in {"approved", "rejected"} : Decide(c, r, v)
      BY <2>3, <2>4 DEF Submit, ApproveAll, Decide
    <2>5. CASE Answer(c)
      BY <1>3, <1>4, <2>1, <2>5 DEF Answer
    <2>6. CASE TidyCanceled(c) \/ DecideTask(c) \/ ApproveTask(c) \/ MoveRun(c) \/ MoveAll(c)
      BY <1>5, <2>1, <2>5, <2>6
      DEF TidyCanceled, DecideTask, ApproveTask, MoveRun, MoveAll, Requeued
    <2>7. CASE RecordJob(c)
      BY <1>3, <1>4, <2>1, <2>7 DEF RecordJob
    <2>. QED  BY <1>7, <1>8, <2>1, <2>2, <2>4, <2>6, <2>7 DEF BeginRequest, RequestStep
  <1>9. CASE TickerStep \/ \E r \in Runs : BeginSweep(r)
    <2>1. Ticker \in Callers
      BY DEF Callers
    <2>2. CASE RecordJob(Ticker)
      BY <1>3, <1>4, <2>1, <2>2 DEF RecordJob
    <2>3. CASE ResumeRun \/ TimeOutRun \/ BillFailure \/ Exhaust
      BY <1>6, <2>3 DEF ResumeRun, TimeOutRun, BillFailure, Exhaust
    <2>4. ASSUME NEW r \in Runs, BeginSweep(r) PROVE TidiesCanceled'
      <3>1. CASE LeaseResume(r) \/ TimeOutTask(r) \/ SweepStuck(r)
        BY <1>6, <3>1 DEF LeaseResume, TimeOutTask, SweepStuck
      <3>2. CASE SweepStale(r)
        <4>. DEFINE pc == IF run[r].recovery + 1 >= RecoveryLimit THEN "exhaust" ELSE "add"
        <4>1. TickTo(pc, r) /\ pc # "tidy"
          BY <3>2 DEF SweepStale
        <4>. HIDE DEF pc
        <4>. QED  BY <1>6, <4>1
      <3>3. CASE QueueTimeout(r)
        BY <1>2, <3>3 DEF QueueTimeout
      <3>. QED  BY <2>4, <3>1, <3>2, <3>3 DEF BeginSweep
    <2>. QED  BY <1>7, <1>9, <2>1, <2>2, <2>3, <2>4 DEF TickerStep
  <1>10. ASSUME NEW s \in Slots, FetchJob(s) \/ SlotStep(s) \/ Throw(s) \/ ProcessorThrows(s)
         PROVE  TidiesCanceled'
    BY <1>2, <1>10, StepWithin
    DEF FetchJob, SlotStep, Throw, ProcessorThrows, LockWorkflow, LockRun, UnlockRun, Requeue, EndJob
  <1>11. ASSUME NEW c \in Callers, CallerFails(c) PROVE TidiesCanceled'
    BY <1>3, <1>4, <1>11 DEF CallerFails
  <1>12. ASSUME NEW p \in Procs, Crash(p) PROVE TidiesCanceled'
    BY <1>1, <1>4, <1>12 DEF Crash
  <1>13. CASE \/ \E s \in Slots, r \in Runs : SubmitSync(s, r)
              \/ \E r \in Runs : DelayElapses(r) \/ ApprovalExpires(r)
              \/ \E j \in JobIds : StalledJob(j)
              \/ \E w \in Workflows : WorkflowLockLapses(w)
              \/ UNCHANGED vars
    BY <1>2, <1>13 DEF SubmitSync, DelayElapses, ApprovalExpires, StalledJob, WorkflowLockLapses, vars
  <1>. QED  BY <1>8, <1>9, <1>10, <1>11, <1>12, <1>13 DEF Next, Environment

LEMMA OneInWorkflowSerializes == OneInWorkflow => WorkflowSerialized
  BY ConstantsAssumption DEF OneInWorkflow, WorkflowSerialized, Undisturbed

(* Over any number of consumers, processes and jobs, crashes, errors, lapses  *)
(* and cancels included, the run_locks row of a run is held by an execution   *)
(* of it, and the queue's executions of a serialized workflow exclude each    *)
(* other, up to the exceptions that the two properties name.                 *)
THEOREM LocksHold == Spec => []QueueLocksHold
  <1>1. Init => TypeInv /\ RunLockHeld /\ KeyInv
    BY TypeInit DEF Init, RunLockHeld, KeyInv, OneInWorkflow, TidiesCanceled, ExecutesIn, IdleSlot,
                    IdleCaller
  <1>2. TypeInv /\ RunLockHeld /\ KeyInv /\ [Next]_vars => (TypeInv /\ RunLockHeld /\ KeyInv)'
    BY TypeStep, HeldStep, KeyStep, TidyStep DEF KeyInv
  <1>3. RunLockHeld /\ KeyInv => QueueLocksHold
    BY OneInWorkflowSerializes DEF QueueLocksHold, KeyInv
  <1>. QED  BY <1>1, <1>2, <1>3, PTL DEF Spec

=============================================================================
