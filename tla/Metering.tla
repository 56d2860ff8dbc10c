------------------------------ MODULE Metering ------------------------------
(***************************************************************************)
(* What runs cost: the charge of a run that ends (services/billing.ts),    *)
(* the close of the billing period and the retention purge with its daily  *)
(* figures (services/system-jobs.ts), one workspace with one subscription. *)
(*                                                                         *)
(* The two jobs live in system_jobs and in a BullMQ queue.  The tick adds  *)
(* a due job under its type as job id; a worker executes it, statement by  *)
(* statement, and can die or meet an error between any two of them.  A     *)
(* period lasts Period days; the close is due every Month days.            *)
(***************************************************************************)
EXTENDS Naturals, FiniteSets, Maps

CONSTANTS RunIds,       \* runs of the workspace
          Period,       \* days of a billing period (30)
          Month,        \* days between two closes (28 to 31)
          HistoryDays,  \* run_history_days of the plan
          Seeded,       \* which jobs have their row in system_jobs, in one behaviour
          JobAttempts,  \* SYSTEM_JOB_ATTEMPTS (4)
          MaxDay        \* bound on the calendar

ASSUME MeteringAssumption ==
  /\ {Period, Month, JobAttempts} \subseteq Nat \ {0}
  /\ HistoryDays \in Nat /\ MaxDay \in Nat
  /\ Seeded \subseteq SUBSET {"close", "purge"}

VARIABLES day,
          sub,       \* the active subscription
          invoices,  \* by period: <<start, end>>
          usageRows,      \* runs: day of creation
          events,    \* usage_events: the day, the period charged, whether run_id is set
          daily,     \* usage_daily.run_count by day
          job,       \* system_jobs.next_run_at, the state of the BullMQ job, attemptsMade
          exec,      \* the execution of each job: next statement, what it has read
          recounted  \* history: days whose figure a purge has rewritten

meteringVars == <<day, sub, invoices, usageRows, events, daily, job, exec, recounted>>

JobTypes == DOMAIN job

Unmade == MaxDay + 1   \* no period: the charge fell between a period's end and its close

-----------------------------------------------------------------------------
(* A plan with overage (Pro) and a plan without (Free), in cents.          *)
PlanPrice == [pro  |-> [price |-> 10, runs |-> 1, rate |-> 3],
              free |-> [price |-> 0,  runs |-> 1, rate |-> 0]]

computeInvoiceClose(plan, used) ==
  LET p    == PlanPrice[plan]
      over == IF p.rate > 0 /\ used > p.runs THEN used - p.runs ELSE 0
  IN [overage |-> over, total |-> p.price + over * p.rate]

nextRunAtFor(type) == IF type = "close" THEN ((day \div Month) + 1) * Month ELSE day + 1

-----------------------------------------------------------------------------
(* Runs, and the charge of a run that ends.                                *)

RunAppears(r) ==
  /\ r \notin DOMAIN usageRows /\ r \notin DOMAIN events
  /\ usageRows' = Extend(usageRows, r, day)
  /\ UNCHANGED <<day, sub, invoices, events, daily, job, exec, recounted>>

InPeriod == sub.start <= day /\ day < sub.end

(* recordBillingForTerminalRun, one transaction: the usage event, the      *)
(* day's figure, and the counter of the period now() is in, if any.        *)
RecordBilling(r) ==
  /\ r \in DOMAIN usageRows /\ r \notin DOMAIN events
  /\ events' = Extend(events, r, [day    |-> day, linked |-> TRUE,
                                  period |-> IF InPeriod THEN sub.start ELSE Unmade])
  /\ daily' = Extend(daily, day, At(daily, day, 0) + 1)
  /\ sub' = IF InPeriod THEN [sub EXCEPT !.consumed = @ + 1] ELSE sub
  /\ UNCHANGED <<day, invoices, usageRows, job, exec, recounted>>

DayPasses ==
  /\ day < MaxDay
  /\ day' = day + 1
  /\ UNCHANGED <<sub, invoices, usageRows, events, daily, job, exec, recounted>>

-----------------------------------------------------------------------------
(* The jobs.                                                               *)

NoRead == [sub |-> [start |-> 0, end |-> 0, consumed |-> 0, plan |-> "free"],
           daily |-> EmptyMap]

ExecAt(type, pc) == exec[type].pc = pc
ExecGoes(type, pc) == exec' = [exec EXCEPT ![type].pc = pc]

(* dispatchDueSystemJobs: an id the queue holds, be it of a failed job, is *)
(* not added again.                                                        *)
DispatchDue(type) ==
  /\ job[type].due <= day
  /\ job' = IF job[type].state = "absent"
              THEN [job EXCEPT ![type].state = "waiting", ![type].made = 0]
              ELSE job
  /\ UNCHANGED <<day, sub, invoices, usageRows, events, daily, exec, recounted>>

WorkerTakes(type) ==
  /\ job[type].state = "waiting"
  /\ job' = [job EXCEPT ![type].state = "active"]
  /\ exec' = [exec EXCEPT ![type] = [pc |-> "read", seen |-> NoRead]]
  /\ UNCHANGED <<day, sub, invoices, usageRows, events, daily, recounted>>

(* runBillingPeriodClose: the subscription if its period has ended, ...    *)
CloseReads ==
  /\ ExecAt("close", "read")
  /\ IF sub.end <= day
       THEN exec' = [exec EXCEPT !.close.pc = "invoice", !.close.seen.sub = sub]
       ELSE ExecGoes("close", "mark")
  /\ UNCHANGED <<day, sub, invoices, usageRows, events, daily, job, recounted>>

(* ... its invoice, unless the period has one, ...                         *)
CloseInvoices ==
  /\ ExecAt("close", "invoice")
  /\ LET seen == exec.close.seen.sub
         key  == <<seen.start, seen.end>>
     IN invoices' = IF key \in DOMAIN invoices THEN invoices
                    ELSE Extend(invoices, key, computeInvoiceClose(seen.plan, seen.consumed))
  /\ ExecGoes("close", "roll")
  /\ UNCHANGED <<day, sub, usageRows, events, daily, job, recounted>>

Rolled == [sub EXCEPT !.start = sub.end, !.end = sub.end + Period, !.consumed = 0]

(* ... and the next period, if this one has still ended.                   *)
CloseRolls ==
  /\ ExecAt("close", "roll")
  /\ sub' = IF sub.end <= day THEN Rolled ELSE sub
  /\ ExecGoes("close", "mark")
  /\ UNCHANGED <<day, invoices, usageRows, events, daily, job, recounted>>

(* runRetentionPurge: runs by their age, whatever their status; their      *)
(* usage events stay, without run_id.                                      *)
PurgeRuns ==
  /\ ExecAt("purge", "read")
  /\ LET old == {r \in DOMAIN usageRows : usageRows[r] + HistoryDays < day}
     IN /\ usageRows' = [r \in DOMAIN usageRows \ old |-> usageRows[r]]
        /\ events' = [r \in DOMAIN events |->
                        [events[r] EXCEPT !.linked = @ /\ r \notin old]]
  /\ ExecGoes("purge", "count")
  /\ UNCHANGED <<day, sub, invoices, daily, job, recounted>>

(* COUNT(DISTINCT run_id) by day: an event without run_id does not count.  *)
RunsOn(d) == Cardinality({r \in DOMAIN events : events[r].day = d /\ events[r].linked})

(* The aggregate is one statement, but its usageRows are those of a snapshot:   *)
(* what is charged between the snapshot and the write is overwritten.      *)
PurgeCounts ==
  /\ ExecAt("purge", "count")
  /\ exec' = [exec EXCEPT !.purge = [@ EXCEPT !.pc = "write", !.seen.daily =
                 [d \in {events[r].day : r \in DOMAIN events} |-> RunsOn(d)]]]
  /\ UNCHANGED <<day, sub, invoices, usageRows, events, daily, job, recounted>>

(* Mutation: the recount adds to the figures that are there. *)
RecountAdding(counts) ==
  [d \in DOMAIN daily \cup DOMAIN counts |-> At(daily, d, 0) + At(counts, d, 0)]

Recount(counts) ==
  [d \in DOMAIN daily \cup DOMAIN counts |->
     IF d \in DOMAIN counts THEN counts[d] ELSE daily[d]]

PurgeWrites ==
  /\ ExecAt("purge", "write")
  /\ daily' = Recount(exec.purge.seen.daily)
  /\ recounted' = recounted \cup DOMAIN exec.purge.seen.daily
  /\ ExecGoes("purge", "mark")
  /\ UNCHANGED <<day, sub, invoices, usageRows, events, job>>

(* markSystemJobCompleted, then the end of the BullMQ job.                 *)
MarkCompleted(type) ==
  /\ ExecAt(type, "mark")
  /\ job' = [job EXCEPT ![type].due = nextRunAtFor(type)]
  /\ ExecGoes(type, "finish")
  /\ UNCHANGED <<day, sub, invoices, usageRows, events, daily, recounted>>

JobFinishes(type) ==
  /\ ExecAt(type, "finish")
  /\ job' = [job EXCEPT ![type].state = "absent", ![type].made = 0]
  /\ exec' = [exec EXCEPT ![type] = [pc |-> "idle", seen |-> NoRead]]
  /\ UNCHANGED <<day, sub, invoices, usageRows, events, daily, recounted>>

(* A statement throws or the worker is lost: another attempt, or, after    *)
(* the last, a failed job that stays in the queue (removeOnFail: false);   *)
(* its handler advances next_run_at, unless that fails too.                *)
JobFails(type) ==
  /\ exec[type].pc # "idle"
  /\ exec' = [exec EXCEPT ![type] = [pc |-> "idle", seen |-> NoRead]]
  /\ IF job[type].made + 1 < JobAttempts
       THEN job' = [job EXCEPT ![type].state = "waiting", ![type].made = @ + 1]
       ELSE \E due \in {job[type].due, nextRunAtFor(type)} :
              job' = [job EXCEPT ![type] = [due |-> due, state |-> "failed", made |-> JobAttempts]]
  /\ UNCHANGED <<day, sub, invoices, usageRows, events, daily, recounted>>

-----------------------------------------------------------------------------
MeteringInit ==
  /\ day = 0
  /\ sub \in {[start |-> 0, end |-> Period, consumed |-> 0, plan |-> p] : p \in DOMAIN PlanPrice}
  /\ invoices = EmptyMap
  /\ usageRows = EmptyMap
  /\ events = EmptyMap
  /\ daily = EmptyMap
  /\ \E types \in Seeded :
       job = [type \in types |->
                [due |-> IF type = "close" THEN Month ELSE 1, state |-> "absent", made |-> 0]]
  /\ exec = [type \in {"close", "purge"} |-> [pc |-> "idle", seen |-> NoRead]]
  /\ recounted = {}

MeteringNext ==
  \/ DayPasses
  \/ \E r \in RunIds : RunAppears(r) \/ RecordBilling(r)
  \/ \E type \in JobTypes : DispatchDue(type) \/ WorkerTakes(type) \/ MarkCompleted(type)
                            \/ JobFinishes(type) \/ JobFails(type)
  \/ CloseReads \/ CloseInvoices \/ CloseRolls
  \/ PurgeRuns \/ PurgeCounts \/ PurgeWrites

MeteringSpec == MeteringInit /\ [][MeteringNext]_meteringVars

-----------------------------------------------------------------------------
(* Every period the subscription has left has one invoice, for exactly the *)
(* runs that were charged to it, whichever attempts of the close died      *)
(* between the invoice and the roll and however late the close came.       *)
PeriodsInvoiced ==
  \A start \in {s \in 0..MaxDay : s < sub.start /\ s % Period = 0} :
    LET key == <<start, start + Period>>
    IN /\ key \in DOMAIN invoices
       /\ invoices[key] = computeInvoiceClose(sub.plan,
            Cardinality({r \in DOMAIN events : events[r].period = start}))

(* The figure of a day never exceeds the runs billed that day, and is      *)
(* exact until a purge rewrites it: a recount can lose runs (those purged, *)
(* those charged under its snapshot) but count none twice.                 *)
DailyFigures ==
  \A d \in 0..MaxDay :
    LET billed == Cardinality({r \in DOMAIN events : events[r].day = d})
    IN /\ At(daily, d, 0) <= billed
       /\ d \notin recounted => At(daily, d, 0) = billed

(* What was billed is accounted for, by period and by day. *)
UsageAccounted == PeriodsInvoiced /\ DailyFigures

(* The tick keeps dispatching and an idle worker keeps taking.             *)
MeteringFairSpec ==
  /\ MeteringSpec
  /\ \A type \in {"close", "purge"} :
       /\ WF_meteringVars(type \in JobTypes /\ DispatchDue(type))
       /\ WF_meteringVars(type \in JobTypes /\ WorkerTakes(type))

(* system-jobs.ts:24-25: a job that failed for good "fires again at the    *)
(* next interval": once it is due again, it is executed.                   *)
JobFiresAgain ==
  \A type \in {"close", "purge"} :
    (type \in JobTypes /\ job[type].state = "failed" /\ job[type].due <= day)
      ~> (exec[type].pc # "idle")
=============================================================================
