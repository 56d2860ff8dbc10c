------------------------------- MODULE LocalRun -------------------------------
(***************************************************************************)
(* runLocally of the CLI: the second executor of a manifest, which walks   *)
(* it in one go.  It is given the same effects as the run of StepWalk, so   *)
(* that the verdicts of the two can be compared.                           *)
(***************************************************************************)
EXTENDS StepWalk

(* What executeSteps and executeOne return, and c.steps by step id. *)
LocalReturn(ret, status) == [ret |-> ret, status |-> status]

LocalTruthy(guard, status) == Truthy(guard, [status |-> status])

OnErrorOf(step) == IF step.onError = "continue" THEN "failed" ELSE "abort"

(* Mutation: a list in which something ran is fine. *)
ListReturnForgiving(failed, executed) ==
  IF executed THEN "ok" ELSE IF failed THEN "failed" ELSE "skipped"

(* A failed list is "failed", one in which nothing ran is "skipped". *)
ListReturn(failed, executed) == IF failed THEN "failed" ELSE IF executed THEN "ok" ELSE "skipped"

RECURSIVE LocalSteps(_, _, _, _, _), LocalOne(_, _), LocalLoop(_, _, _, _, _)

LocalSteps(list, prefix, status, failed, executed) ==
  IF list = <<>> THEN LocalReturn(ListReturn(failed, executed), status)
  ELSE LET id == Head(list)
           one == LocalOne(Append(prefix, <<id, 0>>), status)
       IN IF Step(id).if = "bad" THEN LocalReturn("failed", status)
          ELSE IF ~LocalTruthy(Step(id).if, status)
          THEN LocalSteps(Tail(list), prefix, Extend(status, id, "skipped"), failed, executed)
          ELSE IF one.ret = "abort" THEN one
          ELSE LocalSteps(Tail(list), prefix, one.status,
                          failed \/ one.ret = "failed", executed \/ one.ret # "failed")

(* A condition takes over the failure of its branch; its on_error, and that of *)
(* a for_each, are asked only when an expression fails.                      *)
LocalOne(p, status) ==
  LET step == StepOf(p)
      id == Last(p)[1]
      below(n) == Append(Front(p), <<id, n>>)
  IN IF step.kind = "effect" THEN
       IF At(effects, p, [ok |-> 0]).ok > 0 THEN LocalReturn("ok", Extend(status, id, "succeeded"))
       ELSE LocalReturn(OnErrorOf(step), Extend(status, id, "failed"))
     ELSE IF step.on = "bad" THEN LocalReturn(OnErrorOf(step), status)
     ELSE IF step.kind = "condition" THEN
       LET n == IF LocalTruthy(step.on, status) THEN 1 ELSE 2
           list == BranchList(step, n)
           branch == IF list = <<>> THEN LocalReturn("ok", status)
                     ELSE LocalSteps(list, below(n), status, FALSE, FALSE)
       IN LocalReturn(IF branch.ret = "skipped" THEN "ok" ELSE branch.ret,
                      Extend(branch.status, id, IF branch.ret = "failed" THEN "failed" ELSE "succeeded"))
     ELSE LocalLoop(p, 1, status, FALSE, FALSE)

(* A for_each fails if an iteration failed and none ran to its end. *)
LocalLoop(p, i, status, failed, executed) ==
  LET step == StepOf(p)
      id == Last(p)[1]
      one == LocalSteps(step.then, Append(Front(p), <<id, i>>), status, FALSE, FALSE)
      ret == IF failed /\ ~executed THEN "failed" ELSE "ok"
  IN IF i > step.items
     THEN LocalReturn(ret, Extend(status, id, IF ret = "ok" THEN "succeeded" ELSE ret))
     ELSE IF one.ret = "abort" THEN LocalReturn("abort", Extend(one.status, id, "failed"))
     ELSE LocalLoop(p, i + 1, one.status, failed \/ one.ret = "failed", executed \/ one.ret = "ok")

LocalVerdict == LocalSteps(manifest.top, <<>>, EmptyMap, FALSE, FALSE).ret

----------------------------------------------------------------------------
(* A run the local runner can repeat: it went through without a gate, an       *)
(* error of the database or the end of its budget.                           *)
Repeatable ==
  /\ run.status \in {"succeeded", "failed"}
  /\ clock.resumes = 1 /\ clock.throws = 0
  /\ run.state.elapsed <= Budget
  /\ run.state.delay = <<>> /\ run.state.approval = <<>>

(* A manifest tried out with `forge run` before it is published: what passes   *)
(* locally succeeds on the server when its steps have the same effects, and    *)
(* what fails locally fails on the server too, except that the server lets a   *)
(* nested failure be forgiven (by on_error continue of the step that failed,   *)
(* or of the one around it).                                                 *)
LocalAgrees ==
  Repeatable =>
    /\ LocalVerdict \in {"ok", "skipped"} => run.status = "succeeded"
    /\ run.status = "succeeded" /\ LocalVerdict \notin {"ok", "skipped"} =>
         \E p \in DOMAIN effects : Len(p) > 1 /\ effects[p].bad > 0

=============================================================================
