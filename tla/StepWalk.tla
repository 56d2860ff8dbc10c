------------------------------ MODULE StepWalk ------------------------------
(***************************************************************************)
(* executeSteps and executeStepRecord over a nested manifest: what one run *)
(* does between its first execution and its end, through every park.       *)
(* RunExecutor takes the steps of a run for a flat sequence and looks at   *)
(* the actors around them; this module looks at the walk itself.  That two *)
(* executions never walk one run at the same time is OneExecutor there.    *)
(*                                                                         *)
(* The recursion executeSteps -> executeStepRecord -> executeConditionStep *)
(* or executeForEachStep -> executeSteps is a stack of frames.  A step     *)
(* path is the sequence of <<step id, n>>: n is 0 for the step itself, 1   *)
(* or 2 for the then or else branch of a condition, i for the i-th         *)
(* iteration of a for_each.                                                *)
(***************************************************************************)
EXTENDS Naturals, Sequences, FiniteSets, SequencesExt, Maps

CONSTANTS
  Manifests,   \* manifests a run may be pinned to: [top, step]
  Depth,       \* how deep the steps of a manifest nest (the validator: MAX_NESTING_DEPTH)
  Budget,      \* timeout_at - created_at, in units of running time
  MaxRan,      \* bound: units of time the steps take in all
  MaxResumes,  \* bound: executions after the first
  MaxThrows    \* bound: database calls that throw inside the walk

(* What the validator accepts: the steps of a list have ids of their own.     *)
Distinct(list) == \A m, n \in DOMAIN list : list[m] = list[n] => m = n
ListsOf(m) ==
  {m.top} \cup {m.step[id].then : id \in DOMAIN m.step} \cup {m.step[id].else : id \in DOMAIN m.step}

(* Ranks that fall from a step to the steps in its lists. *)
Nested(m, rank) ==
  \A id \in DOMAIN m.step : \A list \in {m.step[id].then, m.step[id].else} :
    \A n \in DOMAIN list : rank[list[n]] < rank[id]

ASSUME WalkAssumption ==
  /\ {Depth, Budget, MaxRan, MaxResumes, MaxThrows} \subseteq Nat
  /\ \A m \in Manifests :
       /\ \A list \in ListsOf(m) : list \in Seq(DOMAIN m.step) /\ Distinct(list)
       /\ \E rank \in [DOMAIN m.step -> 0 .. Depth] : Nested(m, rank)
       /\ \A id \in DOMAIN m.step : m.step[id].items \in Nat

VARIABLES
  manifest,  \* the pinned manifest
  run,       \* runs.status, and the state column written at parks and at the end
  walk,      \* the execution in memory: its frames, its copy of the state
  stepRows,  \* run_steps: the latest row of each path
  tasks,     \* approval_tasks: the latest of each path
  past,      \* paths whose resume_at or timeout_at has passed
  effects,   \* history: how often each effect was completed, and how often it failed
  settled,   \* history: paths that were completed, skipped, or let the scope go on
  decided,   \* history: <<path, n>>, the branches each condition decided for
  clock      \* history and bounds: time the steps took, executions, throws

walkVars == <<manifest, run, walk, stepRows, tasks, past, effects, settled, decided, clock>>

----------------------------------------------------------------------------
(* Manifests, paths, records *)

Step(id) == manifest.step[id]
StepOf(p) == Step(Last(p)[1])

Leaf == [kind |-> "effect", onError |-> "abort", if |-> "always", on |-> "always",
         then |-> <<>>, else |-> <<>>, items |-> 0, onTimeout |-> "skip"]

(* runs.state: _done, _stepStatus (by step id), _iteration (by path),        *)
(* _pendingDelay.path, _pendingApproval.path, _runFailed and _elapsedS.      *)
FreshWalkState == [done |-> {}, status |-> EmptyMap, iteration |-> EmptyMap, delay |-> <<>>,
                   approval |-> <<>>, failed |-> FALSE, elapsed |-> 0]

(* The locals of executeForEachStep. *)
NoLoop == [results |-> <<>>, anySucceeded |-> FALSE, anyExecuted |-> FALSE, anyFailed |-> FALSE]

(* The locals of one call of executeSteps; since is the startedAt of the      *)
(* step that made the call.                                                  *)
Frame(list, prefix, since, loop) ==
  [list |-> list, at |-> 1, prefix |-> prefix, anyFailure |-> FALSE,
   since |-> since, loop |-> loop]

Returns == {"none", "completed", "failed", "waiting", "paused"}
Walking(stack, state, ret) == [stack |-> stack, state |-> state, ret |-> ret]
NoWalk == Walking(<<>>, FreshWalkState, "none")

InWalk == walk.stack # <<>>
Top == Last(walk.stack)
TopLevel == Len(walk.stack) = 1
AtEnd == Top.at > Len(Top.list)
Here == Append(Top.prefix, <<Top.list[Top.at], 0>>)
OwnerPath(frame) == [frame.prefix EXCEPT ![Len(frame.prefix)] = <<Last(frame.prefix)[1], 0>>]

OpenRow == {"running", "waiting", "paused"}
EndedRun == {"succeeded", "failed", "canceled"}

WalkInit ==
  /\ manifest \in Manifests
  /\ run = [status |-> "queued", state |-> FreshWalkState]
  /\ walk = NoWalk
  /\ stepRows = EmptyMap
  /\ tasks = EmptyMap
  /\ past = {}
  /\ effects = EmptyMap
  /\ settled = {}
  /\ decided = {}
  /\ clock = [ran |-> 0, resumes |-> 0, throws |-> 0]

(* An expression reads inputs ("always", "never"), fails to evaluate ("bad")  *)
(* or asks whether a step has succeeded so far.                              *)
Truthy(guard, st) ==
  \/ guard = "always"
  \/ guard \notin {"always", "never", "bad"} /\ At(st.status, guard, "none") = "succeeded"

----------------------------------------------------------------------------
(* The end of one step: executeStepRecord after its switch, and what the      *)
(* loop of executeSteps does with the result *)

(* Move the top frame of the stack on; f is the frame as changed. *)
OnTop(stack, f) == Append(Front(stack), f)

(* The walk after the step at p, on top of the stack, ended with a result.    *)
Finished(stack, state, p, result, since, ran) ==
  LET top == Last(stack)
      st == [state EXCEPT !.elapsed = @ + (ran - since)]
      id == Last(p)[1]
      onward == [top EXCEPT !.at = @ + 1]
  IN IF result \in {"completed", "skipped"} THEN
       Walking(OnTop(stack, onward),
               [st EXCEPT !.done = @ \cup {p},
                          !.status = Extend(@, id, IF result = "skipped" THEN "skipped" ELSE "succeeded")],
               "none")
     ELSE IF result = "failed" THEN
       LET marked == [st EXCEPT !.status = Extend(@, id, "failed")]
       IN IF Step(id).onError = "continue"
          THEN Walking(OnTop(stack, [onward EXCEPT !.anyFailure = TRUE]),
                       [marked EXCEPT !.failed = @ \/ Len(stack) = 1], "none")
          ELSE Walking(stack, marked, "failed")
     ELSE Walking(stack, st, result)

RowStatus(result) == IF result = "completed" THEN "succeeded" ELSE result
RowSet(p, status) == Extend(stepRows, p, [At(stepRows, p, [status |-> status, attempt |-> 1])
                                          EXCEPT !.status = status])

(* A row in a final status is left and the next attempt gets a new one; any   *)
(* other row is used again.                                                  *)
RowStarted(p) ==
  Extend(stepRows, p,
    IF p \notin DOMAIN stepRows THEN [status |-> "running", attempt |-> 1]
    ELSE [status |-> "running",
          attempt |-> stepRows[p].attempt + (IF stepRows[p].status \in OpenRow THEN 0 ELSE 1)])

RowEnded(p, result) == Extend(stepRows, p, [RowStarted(p)[p] EXCEPT !.status = RowStatus(result)])

SettledBy(p, result) ==
  IF result \in {"completed", "skipped"} \/ (result = "failed" /\ StepOf(p).onError = "continue")
  THEN settled \cup {p} ELSE settled

----------------------------------------------------------------------------
(* One execution: doExecuteRun *)

(* Mutation: the steps done before the park are forgotten. *)
StartAfresh ==
  /\ ~InWalk
  /\ run.status \in {"queued", "waiting", "paused"}
  /\ clock.resumes <= MaxResumes
  /\ run' = [run EXCEPT !.status = "running"]
  /\ walk' = Walking(<<Frame(manifest.top, <<>>, clock.ran, NoLoop)>>,
                     [run.state EXCEPT !.done = {}], "none")
  /\ clock' = [clock EXCEPT !.resumes = @ + 1]
  /\ UNCHANGED <<manifest, stepRows, tasks, past, effects, settled, decided>>

(* Mutation: _stepStatus is not kept over a park. *)
StartWithoutStatus ==
  /\ ~InWalk
  /\ run.status \in {"queued", "waiting", "paused"}
  /\ clock.resumes <= MaxResumes
  /\ run' = [run EXCEPT !.status = "running"]
  /\ walk' = Walking(<<Frame(manifest.top, <<>>, clock.ran, NoLoop)>>,
                     [run.state EXCEPT !.status = EmptyMap], "none")
  /\ clock' = [clock EXCEPT !.resumes = @ + 1]
  /\ UNCHANGED <<manifest, stepRows, tasks, past, effects, settled, decided>>

(* The first execution, a resume, or a job nobody needed: a second job of a   *)
(* parked run executes it again before its timer or its decision.            *)
Start ==
  /\ ~InWalk
  /\ run.status \in {"queued", "waiting", "paused"}
  /\ clock.resumes <= MaxResumes
  /\ run' = [run EXCEPT !.status = "running"]
  /\ walk' = Walking(<<Frame(manifest.top, <<>>, clock.ran, NoLoop)>>, run.state, "none")
  /\ clock' = [clock EXCEPT !.resumes = @ + 1]
  /\ UNCHANGED <<manifest, stepRows, tasks, past, effects, settled, decided>>

(* The list of the top frame is walked to its end. *)
ListEnds ==
  /\ InWalk /\ walk.ret = "none" /\ AtEnd
  /\ walk' = [walk EXCEPT !.ret = "completed"]
  /\ UNCHANGED <<manifest, run, stepRows, tasks, past, effects, settled, decided, clock>>

(* The budget is looked at before a step of the top level only. *)
OverBudget == TopLevel /\ walk.state.elapsed > Budget

RunTimesOut ==
  /\ InWalk /\ walk.ret = "none" /\ ~AtEnd
  /\ OverBudget
  /\ walk' = [walk EXCEPT !.ret = "failed"]
  /\ UNCHANGED <<manifest, run, stepRows, tasks, past, effects, settled, decided, clock>>

AtStepOf == InWalk /\ walk.ret = "none" /\ ~AtEnd /\ ~OverBudget

(* step.if: an error ends the list whatever the step's on_error says; a       *)
(* falsy condition records a skipped step once; a step in _done is passed.   *)
GuardFails ==
  /\ AtStepOf
  /\ StepOf(Here).if = "bad"
  /\ walk' = [walk EXCEPT !.ret = "failed"]
  /\ UNCHANGED <<manifest, run, stepRows, tasks, past, effects, settled, decided, clock>>

SkipStep ==
  /\ AtStepOf
  /\ StepOf(Here).if # "bad"
  /\ ~Truthy(StepOf(Here).if, walk.state)
  /\ IF Here \in walk.state.done
     THEN /\ walk' = [walk EXCEPT !.stack = OnTop(@, [Top EXCEPT !.at = @ + 1])]
          /\ UNCHANGED <<stepRows, settled>>
     ELSE /\ walk' = Finished(walk.stack, walk.state, Here, "skipped", 0, 0)
          /\ stepRows' = Extend(stepRows, Here,
               [status |-> "skipped", attempt |-> At(stepRows, Here, [attempt |-> 0]).attempt + 1])
          /\ settled' = settled \cup {Here}
  /\ UNCHANGED <<manifest, run, tasks, past, effects, decided, clock>>

PassDone ==
  /\ AtStepOf
  /\ Truthy(StepOf(Here).if, walk.state)
  /\ Here \in walk.state.done
  /\ walk' = [walk EXCEPT !.stack = OnTop(@, [Top EXCEPT !.at = @ + 1])]
  /\ UNCHANGED <<manifest, run, stepRows, tasks, past, effects, settled, decided, clock>>

ToExecute(kind) ==
  /\ AtStepOf
  /\ Truthy(StepOf(Here).if, walk.state)
  /\ Here \notin walk.state.done
  /\ StepOf(Here).kind = kind

(* The step at Here ends in this very action, having taken t units of time. *)
EndsHere(result, state, t) ==
  /\ walk' = Finished(walk.stack, state, Here, result, 0, t)
  /\ stepRows' = RowEnded(Here, result)
  /\ settled' = SettledBy(Here, result)
  /\ clock' = [clock EXCEPT !.ran = @ + t]

----------------------------------------------------------------------------
(* The step executors *)

(* http, notify, transform, log, reply: an effect that completes or fails. *)
EffectStep ==
  /\ ToExecute("effect")
  /\ \E ok \in BOOLEAN, t \in 0 .. 1 :
       /\ clock.ran + t <= MaxRan
       /\ EndsHere(IF ok THEN "completed" ELSE "failed", walk.state, t)
       /\ LET e == At(effects, Here, [ok |-> 0, bad |-> 0])
          IN effects' = Extend(effects, Here,
                               IF ok THEN [e EXCEPT !.ok = @ + 1] ELSE [e EXCEPT !.bad = @ + 1])
  /\ UNCHANGED <<manifest, run, tasks, past, decided>>

(* executeDelayStep: the first encounter notes when to go on, a later one     *)
(* looks at the clock.                                                       *)
WaitStep ==
  /\ ToExecute("delay")
  /\ \/ /\ walk.state.delay # Here
        /\ EndsHere("waiting", [walk.state EXCEPT !.delay = Here], 0)
        /\ past' = past \ {Here}
     \/ /\ walk.state.delay = Here /\ Here \notin past
        /\ EndsHere("waiting", walk.state, 0)
        /\ past' = past
     \/ /\ walk.state.delay = Here /\ Here \in past
        /\ EndsHere("completed", [walk.state EXCEPT !.delay = <<>>], 0)
        /\ past' = past
  /\ UNCHANGED <<manifest, run, tasks, effects, decided>>

(* executeApprovalStep: a task of its own, or the latest one of the path       *)
(* unless that timed out or was canceled; later the decision it finds.       *)
AskStep ==
  /\ ToExecute("approval")
  /\ LET st == walk.state
         answered == [st EXCEPT !.approval = <<>>]
     IN \/ /\ st.approval # Here
           /\ EndsHere("paused", [st EXCEPT !.approval = Here], 0)
           /\ tasks' = IF At(tasks, Here, "timeout") = "timeout"
                       THEN Extend(tasks, Here, "pending") ELSE tasks
           /\ past' = IF At(tasks, Here, "timeout") = "timeout" THEN past \ {Here} ELSE past
        \/ /\ st.approval = Here
           /\ UNCHANGED <<tasks, past>>
           /\ \/ tasks[Here] = "pending" /\ EndsHere("paused", st, 0)
              \/ tasks[Here] = "approved" /\ EndsHere("completed", answered, 0)
              \/ tasks[Here] = "rejected" /\ EndsHere("failed", answered, 0)
              \/ /\ tasks[Here] = "timeout"
                 /\ IF StepOf(Here).onTimeout = "skip" THEN EndsHere("skipped", answered, 0)
                    ELSE EndsHere("failed", st, 0)
  /\ UNCHANGED <<manifest, run, effects, decided>>

(* Call executeSteps for a list below the step at p. *)
Call(list, prefix, since, loop, state) ==
  walk' = Walking(Append(walk.stack, Frame(list, prefix, since, loop)), state, "none")

(* executeConditionStep: a branch without steps is the whole result. *)
BranchOf(step, st) == IF Truthy(step.on, st) THEN 1 ELSE 2
BranchList(step, n) == IF n = 1 THEN step.then ELSE step.else

ConditionStep ==
  /\ ToExecute("condition")
  /\ LET step == StepOf(Here)
         n == BranchOf(step, walk.state)
     IN /\ decided' = IF step.on = "bad" THEN decided ELSE decided \cup {<<Here, n>>}
        /\ \/ /\ step.on = "bad"
              /\ EndsHere("failed", walk.state, 0)
           \/ /\ step.on # "bad" /\ BranchList(step, n) = <<>>
              /\ EndsHere("completed", walk.state, 0)
           \/ /\ step.on # "bad" /\ BranchList(step, n) # <<>>
              /\ Call(BranchList(step, n), Append(Top.prefix, <<Top.list[Top.at], n>>),
                      clock.ran, NoLoop, walk.state)
              /\ stepRows' = RowStarted(Here)
              /\ UNCHANGED <<settled, clock>>
  /\ UNCHANGED <<manifest, run, tasks, past, effects>>

(* Mutation: the walk resumes behind the iteration that parked. *)
FirstOpenNext(p) == At(walk.state.iteration, p, 0) + 1

(* The iteration a for_each starts or resumes with: _iteration[path]. *)
FirstOpen(p) == At(walk.state.iteration, p, 1)

ForEachStep ==
  /\ ToExecute("for_each")
  /\ LET step == StepOf(Here)
         i == FirstOpen(Here)
     IN \/ /\ step.on = "bad"
           /\ EndsHere("failed", walk.state, 0)
        \/ /\ step.on # "bad" /\ i > step.items
           /\ EndsHere("completed", walk.state, 0)
        \/ /\ step.on # "bad" /\ i <= step.items
           /\ Call(step.then, Append(Top.prefix, <<Top.list[Top.at], i>>), clock.ran, NoLoop,
                   [walk.state EXCEPT !.iteration = Extend(@, Here, i)])
           /\ stepRows' = RowStarted(Here)
           /\ UNCHANGED <<settled, clock>>
  /\ UNCHANGED <<manifest, run, tasks, past, effects, decided>>

----------------------------------------------------------------------------
(* executeSteps returns to the step that called it *)

Returning == InWalk /\ walk.ret # "none" /\ ~TopLevel

(* Mutation: the row of the owner is closed only when it completes. *)
OwnerEndsUnrecorded(result, state) ==
  LET p == OwnerPath(Top)
  IN /\ walk' = Finished(Front(walk.stack), state, p, result, Top.since, clock.ran)
     /\ stepRows' = IF result = "failed" THEN stepRows ELSE RowSet(p, RowStatus(result))
     /\ settled' = SettledBy(p, result)

(* The owner of the returning frame ends with a result. *)
OwnerEnds(result, state) ==
  LET p == OwnerPath(Top)
  IN /\ walk' = Finished(Front(walk.stack), state, p, result, Top.since, clock.ran)
     /\ stepRows' = RowSet(p, RowStatus(result))
     /\ settled' = SettledBy(p, result)

(* A failure or a park of the list is a failure or a park of its owner; a      *)
(* condition whose branch is walked to its end completes, whatever failed     *)
(* under on_error continue inside.                                           *)
ReturnResult ==
  /\ Returning
  /\ \/ walk.ret \in {"failed", "waiting", "paused"}
     \/ StepOf(OwnerPath(Top)).kind = "condition"
  /\ OwnerEnds(walk.ret, walk.state)
  /\ UNCHANGED <<manifest, run, tasks, past, effects, decided, clock>>

(* The verdict on an iteration: a child counts as attempted when it is in     *)
(* _done with a status other than skipped.                                   *)
Attempted(frame) ==
  {k \in DOMAIN frame.list :
     /\ Append(frame.prefix, <<frame.list[k], 0>>) \in walk.state.done
     /\ At(walk.state.status, frame.list[k], "skipped") # "skipped"}
SomeSucceeded(frame) ==
  \E k \in Attempted(frame) : walk.state.status[frame.list[k]] = "succeeded"

Verdict(frame) ==
  LET loop == frame.loop
      entry == IF Attempted(frame) = {} THEN "skipped"
               ELSE IF frame.anyFailure /\ ~SomeSucceeded(frame) THEN "failed" ELSE "succeeded"
  IN [results |-> Append(loop.results, entry),
      anyExecuted |-> loop.anyExecuted \/ Attempted(frame) # {},
      anySucceeded |-> loop.anySucceeded \/ SomeSucceeded(frame),
      anyFailed |-> loop.anyFailed \/ frame.anyFailure]

IterationEnds ==
  /\ Returning
  /\ walk.ret = "completed"
  /\ StepOf(OwnerPath(Top)).kind = "for_each"
  /\ LET p == OwnerPath(Top)
         i == Last(Top.prefix)[2]
         loop == Verdict(Top)
         st == [walk.state EXCEPT !.iteration = Without(@, p)]
     IN IF i < StepOf(p).items
        THEN /\ walk' = Walking(
                  OnTop(walk.stack, Frame(Top.list, Append(Front(Top.prefix), <<Last(p)[1], i + 1>>),
                                          Top.since, loop)),
                  [st EXCEPT !.iteration = Extend(@, p, i + 1)], "none")
             /\ UNCHANGED <<stepRows, settled>>
        ELSE OwnerEnds(IF loop.anyExecuted /\ ~loop.anySucceeded /\ loop.anyFailed
                       THEN "failed" ELSE "completed", st)
  /\ UNCHANGED <<manifest, run, tasks, past, effects, decided, clock>>

(* doExecuteRun after executeSteps: park, or settle the run. *)
WalkEnds ==
  /\ InWalk /\ walk.ret # "none" /\ TopLevel
  /\ run' = [state |-> walk.state,
             status |-> IF walk.ret \in {"waiting", "paused"} THEN walk.ret
                        ELSE IF walk.state.failed \/ walk.ret = "failed" THEN "failed" ELSE "succeeded"]
  /\ walk' = NoWalk
  /\ UNCHANGED <<manifest, stepRows, tasks, past, effects, settled, decided, clock>>

(* A statement around a step throws: the row of the step stays as it is, its   *)
(* effect may have happened.  The catch of executeStepRecord around the        *)
(* enclosing condition or for_each makes it the failure of that; on the top     *)
(* level it is the end of the run.                                           *)
StatementThrows ==
  /\ ToExecute("effect")
  /\ clock.throws < MaxThrows
  /\ \E happened \in BOOLEAN :
       LET e == At(effects, Here, [ok |-> 0, bad |-> 0])
       IN effects' = IF happened THEN Extend(effects, Here, [e EXCEPT !.ok = @ + 1]) ELSE effects
  /\ stepRows' = RowStarted(Here)
  /\ clock' = [clock EXCEPT !.throws = @ + 1]
  /\ IF TopLevel
     THEN run' = [status |-> "failed", state |-> walk.state] /\ walk' = NoWalk
     ELSE run' = run /\ walk' = [walk EXCEPT !.ret = "failed"]
  /\ UNCHANGED <<manifest, tasks, past, settled, decided>>

----------------------------------------------------------------------------
(* Around the walk *)

TimePasses ==
  /\ \E p \in ({run.state.delay, run.state.approval} \ {<<>>}) \ past : past' = past \cup {p}
  /\ run.status \in {"waiting", "paused"}
  /\ UNCHANGED <<manifest, run, walk, stepRows, tasks, effects, settled, decided, clock>>

(* decideApproval on a paused run, and checkApprovalTimeouts on any: the row    *)
(* of the step is closed at once; a paused run is ended or queued.           *)
Aborts(p, verdict) ==
  \/ verdict = "rejected" /\ StepOf(p).onError = "abort"
  \/ verdict = "timeout" /\ StepOf(p).onTimeout = "abort"
RowDecided(p, verdict) ==
  IF verdict = "approved" THEN "succeeded"
  ELSE IF verdict = "timeout" /\ ~Aborts(p, verdict) THEN "skipped" ELSE "failed"

Decide ==
  /\ \E p \in DOMAIN tasks, verdict \in {"approved", "rejected", "timeout"} :
       /\ tasks[p] = "pending"
       /\ IF verdict = "timeout" THEN p \in past ELSE run.status = "paused"
       /\ tasks' = [tasks EXCEPT ![p] = verdict]
       /\ stepRows' = IF stepRows[p].status # "paused" THEN stepRows
                      ELSE RowSet(p, RowDecided(p, verdict))
       /\ run' = IF run.status # "paused" THEN run
                 ELSE [run EXCEPT !.status = IF ~Aborts(p, verdict) THEN "queued"
                                             ELSE IF verdict = "timeout" THEN "failed" ELSE "canceled"]
  /\ UNCHANGED <<manifest, walk, past, effects, settled, decided, clock>>

WalkNext ==
  \/ Start \/ ListEnds \/ RunTimesOut \/ GuardFails \/ SkipStep \/ PassDone
  \/ EffectStep \/ WaitStep \/ AskStep \/ ConditionStep \/ ForEachStep
  \/ ReturnResult \/ IterationEnds \/ WalkEnds \/ StatementThrows
  \/ TimePasses \/ Decide

WalkSpec == WalkInit /\ [][WalkNext]_walkVars

----------------------------------------------------------------------------
(* Properties *)

(* What resuming promises: a step that completed is never executed again,     *)
(* however often the run parks, is resumed early, or re-executes what failed  *)
(* around it.  Only a statement that throws after the effect of a step, in a  *)
(* list whose owner goes on, repeats one.                                    *)
SucceededOnce == \A p \in DOMAIN effects : effects[p].ok <= 1 + clock.throws

(* The steps that come before p, at each level of nesting: the siblings        *)
(* before it, those before the condition or the for_each it is in, and all     *)
(* children of the iterations before its own.                                *)
ListAt(p, k) ==
  IF k = 1 THEN manifest.top
  ELSE LET owner == Step(p[k - 1][1])
       IN IF owner.kind = "condition" THEN BranchList(owner, p[k - 1][2]) ELSE owner.then
Before(p) ==
  UNION {LET list == ListAt(p, k)
             prefix == SubSeq(p, 1, k - 1)
             mine == CHOOSE n \in DOMAIN list : list[n] = p[k][1]
         IN {Append(prefix, <<list[n], 0>>) : n \in 1 .. mine - 1}
            \cup IF k = 1 \/ Step(p[k - 1][1]).kind # "for_each" THEN {}
                 ELSE {Append(Append(Front(prefix), <<p[k - 1][1], i>>), <<list[n], 0>>) :
                         i \in 1 .. p[k - 1][2] - 1, n \in DOMAIN list}
         : k \in DOMAIN p}

(* No effect overtakes its predecessors: when a step was executed, everything  *)
(* before it had completed, been skipped, or failed with on_error continue,    *)
(* in this execution or an earlier one; a resumed for_each leaves no iteration *)
(* out, and nothing behind a step that aborts is reached.                    *)
WalkedInOrder == \A p \in DOMAIN effects : Before(p) \subseteq settled

(* A condition was decided both ways. *)
BothWays(p) == {<<p, 1>>, <<p, 2>>} \subseteq decided

(* The path of an effect of the top level that has its id to itself, and comes *)
(* before p.                                                                  *)
Precedes(id, p) ==
  /\ <<<<id, 0>>>> \in Before(p)
  /\ Step(id).kind = "effect"
  /\ \A x \in DOMAIN manifest.step : ~Contains(Step(x).then, id) /\ ~Contains(Step(x).else, id)

(* A step that failed with on_error continue is not in _done, so that every    *)
(* resume executes it again; when a condition asks for its status, the answer  *)
(* may change while the other branch is parked, or has failed.  Where what is  *)
(* asked for is an effect of the top level, that is the only way a run can     *)
(* decide a condition both ways: the effect failed and was executed again.  (A  *)
(* status is kept by step id, so the effect of a round or of a branch answers   *)
(* for that of another.)                                                      *)
OneBranch ==
  \A p \in {d[1] : d \in decided} : BothWays(p) =>
    LET id == StepOf(p).on
        q == <<<<id, 0>>>>
    IN /\ id \notin {"always", "never", "bad"}
       /\ Precedes(id, p) =>
            q \in DOMAIN effects /\ effects[q].bad > 0 /\ stepRows[q].attempt > 1

(* q is a step below the one at p. *)
Within(p, q) == Len(p) < Len(q) /\ SubSeq(q, 1, Len(p) - 1) = Front(p) /\ q[Len(p)][1] = Last(p)[1]

(* What the run turned away from: a step below a condition that was decided    *)
(* both ways, or below one that was skipped when the run came back to it.      *)
LeftBehind(p) ==
  \E c \in DOMAIN stepRows : Within(c, p) /\ (BothWays(c) \/ stepRows[c].status = "skipped")

(* A gate, or what a gate is in. *)
Gate(p) == StepOf(p).kind \in {"delay", "approval"}
AroundGate(p) == \E g \in DOMAIN stepRows : Gate(g) /\ (g = p \/ Within(p, g))

TimedOut(q) == tasks[q] = "timeout" /\ StepOf(q).onTimeout = "abort"

(* A run that succeeded or failed leaves no row of its steps open (nothing    *)
(* would ever close it), except what it turned away from; when the timeout of  *)
(* a task ended it, also the other gates and what the gates are in, which stay *)
(* paused; and except a run over its budget, which is not walked on.           *)
RowsClosed ==
  run.status \in {"succeeded", "failed"} /\ clock.throws = 0 /\ run.state.elapsed <= Budget =>
    \A p \in DOMAIN stepRows : stepRows[p].status \in OpenRow =>
      \/ LeftBehind(p)
      \/ \E q \in DOMAIN tasks \ {p} : TimedOut(q) /\ AroundGate(p)

(* "timeout is total_running_seconds": what a run is charged against its       *)
(* budget covers the time its steps took, and exceeds it by no more than the   *)
(* depth at which they are nested (each level adds its children's time again). *)
ElapsedCoversWork ==
  ~InWalk /\ clock.throws = 0 =>
    clock.ran <= run.state.elapsed /\ run.state.elapsed <= (Depth + 1) * clock.ran

(* The end of a run is on record: its rows are closed, its time is counted. *)
EndsAreRecorded == RowsClosed /\ ElapsedCoversWork

=============================================================================
