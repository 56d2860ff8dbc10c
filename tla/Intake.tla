------------------------------- MODULE Intake -------------------------------
(***************************************************************************)
(* Admission: the three ways a run comes to be.                            *)
(*                                                                         *)
(* One workspace with a manual trigger (routes/runs.ts), one webhook       *)
(* trigger (routes/webhooks.ts) and one schedule trigger, fired by the     *)
(* tick of every process (services/scheduler.ts).  The first two admit     *)
(* inside a transaction that locks the workspace row; the tick counts and  *)
(* inserts in statements of their own.  What a run does once admitted is   *)
(* RunLifecycle: here it is live until it ends, and ending it charges the  *)
(* open billing period, in the same transaction or, on the abort paths of  *)
(* the scheduler, in a later one.                                          *)
(***************************************************************************)
EXTENDS Naturals, FiniteSets, Maps

CONSTANTS Tickers,          \* processes that run the scheduler loop
          Requests,         \* handlers of manual and webhook calls
          Payloads,         \* webhook bodies
          RunLimit,         \* run_limit of the Free plan
          ConcurrencyLimit, \* concurrency_limit of the Free plan
          MaxTime,          \* bound on the schedule's instants
          Owner, Closer,    \* who changes the plan, the job that closes a period
          Casts,            \* the actors that take part in one behaviour
          MaxPeriods,       \* bound on ends of a billing period
          MaxPlanChanges    \* bound on POST /subscription

ASSUME IntakeAssumption ==
  /\ RunLimit \in Nat \ {0} /\ ConcurrencyLimit \in Nat \ {0}
  /\ IsFiniteSet(Tickers)
  /\ MaxTime \in Nat /\ MaxPeriods \in Nat /\ MaxPlanChanges \in Nat
  /\ Casts \subseteq SUBSET (Tickers \cup Requests \cup {Owner, Closer})

VARIABLES acct,     \* workspaces.plan_id and the active subscription
          intake,   \* runs, by idempotency key
          trigger,  \* next_fire_at of the schedule trigger
          replay,   \* payloads in webhook_replay_log
          cast,     \* the actors of this behaviour
          tick,     \* whether the tick lock is in Redis
          req, tkr, \* the handlers and the scheduler loops
          now,      \* instants of the cron expression that have passed
          excess    \* promotions and late charges of the period, plan changes

intakeVars == <<acct, intake, trigger, replay, cast, tick, req, tkr, now, excess>>

-----------------------------------------------------------------------------
(* plans.ts: a hard cap on runs exists only without overage billing.       *)
Plan ==
  [free      |-> [hard |-> TRUE,  runs |-> RunLimit, limited |-> TRUE,
                  slots |-> ConcurrencyLimit],
   pro       |-> [hard |-> FALSE, runs |-> RunLimit, limited |-> TRUE,
                  slots |-> ConcurrencyLimit + 1],
   community |-> [hard |-> FALSE, runs |-> 0, limited |-> FALSE, slots |-> 0]]

hasHardRunCap(plan) == Plan[plan].hard

SlotsTaken(plan, n) == Plan[plan].limited /\ n >= Plan[plan].slots

AtCap(plan, used, n) == hasHardRunCap(plan) /\ used + n >= Plan[plan].runs

(* Runs that hold a slot: not terminal and not concurrency-blocked.        *)
ActiveCount == Cardinality({k \in DOMAIN intake :
                              intake[k].live /\ ~intake[k].blocked})

(* runs_consumed of the subscription whose period contains now(); none     *)
(* does between the end of a period and its close.                         *)
RunsConsumed == IF acct.open THEN acct.consumed ELSE 0

NewRun(blocked, instant) ==
  [live |-> TRUE, blocked |-> blocked, instant |-> instant]

-----------------------------------------------------------------------------
(* Manual and webhook calls.                                               *)

Idle == [pc |-> "idle", key |-> <<"none", 0>>, active |-> 0]

Answer(q, code) == req' = [req EXCEPT ![q].pc = code]

(* A manual call (refused when the workflow is disabled); its key is the   *)
(* ten second bucket of identical inputs.                                  *)
ManualTrigger(q) ==
  /\ req[q].pc = "idle"
  /\ \E next \in {"refused", "lock"} :
       req' = [req EXCEPT ![q].pc = next, ![q].key = <<"manual", now>>]
  /\ UNCHANGED <<acct, intake, trigger, replay, cast, tick, tkr, now, excess>>

(* A delivery: a payload in the replay log is refused (409); otherwise the *)
(* entry is written, and committed, before anything else is decided about  *)
(* it: a workflow without current version (500) or a required input that   *)
(* maps to null (400) refuse it too.                                       *)
Delivery(q, p) ==
  /\ req[q].pc = "idle"
  /\ \E next \in IF p \in replay THEN {"refused"} ELSE {"refused", "lock"} :
       req' = [req EXCEPT ![q] = [pc |-> next, key |-> <<"hook", p>>, active |-> 0]]
  /\ replay' = replay \cup {p}
  /\ UNCHANGED <<acct, intake, trigger, cast, tick, tkr, now, excess>>

(* Some request is between its locked read and its commit.                 *)
RowLocked == \E q \in Requests : req[q].pc = "admit"

(* Mutation: no lock on the workspace row. *)
CountWithoutLock(q) ==
  /\ req[q].pc = "lock"
  /\ IF SlotsTaken(acct.plan, ActiveCount)
       THEN Answer(q, "refused")
       ELSE req' = [req EXCEPT ![q].pc = "admit", ![q].active = ActiveCount]
  /\ UNCHANGED <<acct, intake, trigger, replay, cast, tick, tkr, now, excess>>

(* SELECT ... FOR UPDATE on the workspace row, then the count of active    *)
(* runs against the concurrency limit.                                     *)
CountActive(q) ==
  /\ req[q].pc = "lock"
  /\ ~RowLocked
  /\ IF SlotsTaken(acct.plan, ActiveCount)
       THEN Answer(q, "refused")
       ELSE req' = [req EXCEPT ![q].pc = "admit", ![q].active = ActiveCount]
  /\ UNCHANGED <<acct, intake, trigger, replay, cast, tick, tkr, now, excess>>

(* What the transaction answers once it has locked the subscription: the cap,  *)
(* or for a manual call the run of the same bucket, or no current version.     *)
ManualCodes(q) ==
  CASE AtCap(acct.plan, RunsConsumed, req[q].active) -> {"refused"}
    [] req[q].key \in DOMAIN intake -> {"deduplicated"}
    [] OTHER -> {"created", "refused"}

(* A webhook's key that is taken breaks the unique index: the handler throws.  *)
WebhookCodes(q) ==
  IF AtCap(acct.plan, RunsConsumed, req[q].active) \/ req[q].key \in DOMAIN intake
    THEN {"refused"} ELSE {"created"}

AdmitCodes(q) == IF req[q].key[1] = "manual" THEN ManualCodes(q) ELSE WebhookCodes(q)

(* The rest of the transaction: the run and its run.created event.         *)
Admit(q) ==
  /\ req[q].pc = "admit"
  /\ \E code \in AdmitCodes(q) :
       /\ req' = [req EXCEPT ![q].pc = code, ![q].active = 0]
       /\ intake' = IF code = "created" /\ req[q].key \notin DOMAIN intake
                      THEN Extend(intake, req[q].key, NewRun(FALSE, now))
                      ELSE intake
  /\ UNCHANGED <<acct, trigger, replay, cast, tick, tkr, now, excess>>

-----------------------------------------------------------------------------
(* The tick.                                                               *)

Resting == [pc |-> "idle", due |-> 0, plan |-> "free", used |-> 0,
            blocked |-> FALSE, todo |-> {}]

Goes(t, pc) == tkr' = [tkr EXCEPT ![t].pc = pc]

(* SET NX PX: the tick of one process at a time, for as long as the lock   *)
(* lives.  It is neither renewed nor released.                             *)
TickStarts(t) ==
  /\ tkr[t].pc = "idle" /\ ~tick
  /\ tick' = TRUE
  /\ Goes(t, "due")
  /\ UNCHANGED <<acct, intake, trigger, replay, cast, req, now, excess>>

TickLockExpires ==
  /\ tick
  /\ tick' = FALSE
  /\ UNCHANGED <<acct, intake, trigger, replay, cast, req, tkr, now, excess>>

(* fireDueTriggers: the row locks of the query end with it.  A workflow    *)
(* without current version only advances.                                  *)
ReadDue(t) ==
  /\ tkr[t].pc = "due"
  /\ IF trigger <= now
       THEN \E next \in {"advance", IF hasHardRunCap(acct.plan) THEN "consumed"
                                                               ELSE "slots"} :
              tkr' = [tkr EXCEPT ![t].pc = next, ![t].due = trigger,
                                 ![t].plan = acct.plan]
       ELSE Goes(t, "sweep")
  /\ UNCHANGED <<acct, intake, trigger, replay, cast, tick, req, now, excess>>

ReadConsumed(t) ==
  /\ tkr[t].pc = "consumed"
  /\ tkr' = [tkr EXCEPT ![t].pc = "cap", ![t].used = RunsConsumed]
  /\ UNCHANGED <<acct, intake, trigger, replay, cast, tick, req, now, excess>>

(* At the cap no run is created and the trigger advances.                  *)
CheckCap(t) ==
  /\ tkr[t].pc = "cap"
  /\ Goes(t, IF AtCap(tkr[t].plan, tkr[t].used, ActiveCount) THEN "advance" ELSE "slots")
  /\ UNCHANGED <<acct, intake, trigger, replay, cast, tick, req, now, excess>>

(* At the concurrency limit the run is created blocked.                    *)
CheckSlots(t) ==
  /\ tkr[t].pc = "slots"
  /\ tkr' = [tkr EXCEPT ![t].pc = "insert",
                        ![t].used = 0,
                        ![t].blocked = SlotsTaken(tkr[t].plan, ActiveCount)]
  /\ UNCHANGED <<acct, intake, trigger, replay, cast, tick, req, now, excess>>

(* Mutation: the key is the minute of the tick, not the instant of the trigger. *)
ScheduleKeyByClock(t) == <<"sched", now>>

ScheduleKey(t) == <<"sched", tkr[t].due>>

(* ON CONFLICT DO NOTHING on the key of the scheduled instant.             *)
InsertScheduled(t) ==
  /\ tkr[t].pc = "insert"
  /\ intake' = IF ScheduleKey(t) \in DOMAIN intake THEN intake
               ELSE Extend(intake, ScheduleKey(t), NewRun(tkr[t].blocked, tkr[t].due))
  /\ Goes(t, "advance")
  /\ UNCHANGED <<acct, trigger, replay, cast, tick, req, now, excess>>

(* computeNextFire(now), the first instant after the clock ...             *)
ComputeNext(t) ==
  /\ tkr[t].pc = "advance"
  /\ tkr' = [tkr EXCEPT ![t] = [Resting EXCEPT !.pc = "write", !.due = now + 1]]
  /\ UNCHANGED <<acct, intake, trigger, replay, cast, tick, req, now, excess>>

(* ... and the UPDATE, which does not look at what it overwrites.          *)
AdvanceTrigger(t) ==
  /\ tkr[t].pc = "write"
  /\ trigger' = tkr[t].due
  /\ Goes(t, "sweep")
  /\ UNCHANGED <<acct, intake, replay, cast, tick, req, now, excess>>

(* reconcile: forget old deliveries, then list the blocked runs.           *)
Sweep(t) ==
  /\ tkr[t].pc = "sweep"
  /\ \E old \in {{}, replay} : replay' = replay \ old
  /\ tkr' = [tkr EXCEPT ![t].pc = "retry", ![t].due = 0,
                        ![t].todo = {k \in DOMAIN intake :
                                       intake[k].live /\ intake[k].blocked}]
  /\ UNCHANGED <<acct, intake, trigger, cast, tick, req, now, excess>>

(* concurrency_retry: a row at a time, the oldest first, the plan and the  *)
(* count read before the guarded UPDATE.  Without a limit a row is passed  *)
(* over; the cap on runs is not consulted.                                 *)
Oldest(ks) == CHOOSE k \in ks : \A other \in ks : k[2] <= other[2]

RetryCounts(t) ==
  /\ tkr[t].pc = "retry"
  /\ tkr[t].todo # {}
  /\ LET k == Oldest(tkr[t].todo)
     IN IF Plan[acct.plan].limited /\ ~SlotsTaken(acct.plan, ActiveCount)
          THEN tkr' = [tkr EXCEPT ![t].pc = "promote", ![t].due = k[2],
                                  ![t].todo = @ \ {k}]
          ELSE tkr' = [tkr EXCEPT ![t].todo = @ \ {k}]
  /\ UNCHANGED <<acct, intake, trigger, replay, cast, tick, req, now, excess>>

Promote(t) ==
  /\ tkr[t].pc = "promote"
  /\ LET k == <<"sched", tkr[t].due>>
     IN IF intake[k].blocked /\ intake[k].live
          THEN /\ intake' = [intake EXCEPT ![k].blocked = FALSE]
               /\ excess' = [excess EXCEPT !.runs = @ + 1]
          ELSE UNCHANGED <<intake, excess>>
  /\ tkr' = [tkr EXCEPT ![t].pc = "retry", ![t].due = 0]
  /\ UNCHANGED <<acct, trigger, replay, cast, tick, req, now>>

TickEnds(t) ==
  /\ tkr[t].pc = "retry" /\ tkr[t].todo = {}
  /\ tkr' = [tkr EXCEPT ![t] = Resting]
  /\ UNCHANGED <<acct, intake, trigger, replay, cast, tick, req, now, excess>>

(* The process dies, or a statement throws: the tick is given up.          *)
TickFails(t) ==
  /\ tkr[t].pc # "idle"
  /\ tkr' = [tkr EXCEPT ![t] = Resting]
  /\ UNCHANGED <<acct, intake, trigger, replay, cast, tick, req, now, excess>>

-----------------------------------------------------------------------------
(* What goes on around admission.                                          *)

Charged == IF acct.open THEN [acct EXCEPT !.consumed = @ + 1] ELSE acct

(* A run ends; its charge is part of the transaction that ends it, or      *)
(* follows, or (canceled or timed out in the queue) is not made.           *)
RunEnds(k) ==
  /\ intake[k].live
  /\ intake' = [intake EXCEPT ![k].live = FALSE, ![k].blocked = FALSE]
  /\ \/ ~intake[k].blocked /\ acct' = Charged /\ UNCHANGED excess
     \/ UNCHANGED <<acct, excess>>
     \/ ~intake[k].blocked /\ excess' = [excess EXCEPT !.owed = @ + 1] /\ UNCHANGED acct
  /\ UNCHANGED <<trigger, replay, cast, tick, req, tkr, now>>

ChargeFollows ==
  /\ excess.owed > 0
  /\ acct' = Charged
  /\ excess' = [excess EXCEPT !.owed = @ - 1,
                              !.runs = IF acct.open THEN @ + 1 ELSE @]
  /\ UNCHANGED <<intake, trigger, replay, cast, tick, req, tkr, now>>

PeriodEnds ==
  /\ acct.open /\ excess.periods < MaxPeriods
  /\ acct' = [acct EXCEPT !.open = FALSE]
  /\ excess' = [excess EXCEPT !.periods = @ + 1]
  /\ UNCHANGED <<intake, trigger, replay, cast, tick, req, tkr, now>>

(* The close rolls the period and starts the counter again.                *)
PeriodCloses ==
  /\ ~acct.open
  /\ acct' = [acct EXCEPT !.open = TRUE, !.consumed = 0]
  /\ excess' = [excess EXCEPT !.runs = 0]
  /\ UNCHANGED <<intake, trigger, replay, cast, tick, req, tkr, now>>

ChangePlan(plan) ==
  /\ excess.changes < MaxPlanChanges
  /\ ~RowLocked
  /\ acct' = [acct EXCEPT !.plan = plan]
  /\ excess' = [excess EXCEPT !.changes = @ + 1]
  /\ UNCHANGED <<intake, trigger, replay, cast, tick, req, tkr, now>>

InstantPasses ==
  /\ now < MaxTime
  /\ now' = now + 1
  /\ UNCHANGED <<acct, intake, trigger, replay, cast, tick, req, tkr, excess>>

-----------------------------------------------------------------------------
IntakeInit ==
  /\ acct = [plan |-> "free", consumed |-> 0, open |-> TRUE]
  /\ intake = EmptyMap
  /\ trigger = 0
  /\ replay = {}
  /\ tick = FALSE
  /\ cast \in Casts
  /\ req = [q \in Requests |-> Idle]
  /\ tkr = [t \in Tickers |-> Resting]
  /\ now = 0
  /\ excess = [runs |-> 0, owed |-> 0, periods |-> 0, changes |-> 0]

Calls(q) ==
  \/ ManualTrigger(q) \/ (\E p \in Payloads : Delivery(q, p))
  \/ CountActive(q) \/ Admit(q)

Ticks(t) ==
  \/ TickStarts(t) \/ ReadDue(t) \/ ReadConsumed(t) \/ CheckCap(t) \/ CheckSlots(t)
  \/ InsertScheduled(t) \/ ComputeNext(t) \/ AdvanceTrigger(t) \/ Sweep(t)
  \/ RetryCounts(t) \/ Promote(t) \/ TickEnds(t) \/ TickFails(t)

Around ==
  \/ TickLockExpires \/ InstantPasses
  \/ ChargeFollows
  \/ \E k \in DOMAIN intake : RunEnds(k)
  \/ Closer \in cast /\ (PeriodEnds \/ PeriodCloses)
  \/ Owner \in cast /\ \E plan \in DOMAIN Plan : ChangePlan(plan)

IntakeNext ==
  \/ \E q \in Requests \cap cast : Calls(q)
  \/ \E t \in Tickers \cap cast : Ticks(t)
  \/ Around

IntakeSpec == IntakeInit /\ [][IntakeNext]_intakeVars

-----------------------------------------------------------------------------
Loops == Cardinality(Tickers \cap cast)

(* The Free plan's two limits are overrun by bounded amounts.  At most one *)
(* run per scheduler loop takes a slot over the concurrency limit: the     *)
(* calls count under the row lock, so only one of them holds a stale       *)
(* count.  The cap can be passed by the runs active when it was reached,   *)
(* by promotions, which do not consult it, and by late charges; nothing    *)
(* else is admitted over it.                                               *)
OvershootBounded ==
  excess.changes = 0 =>
    /\ ActiveCount <= ConcurrencyLimit + Loops
    /\ acct.open => acct.consumed + ActiveCount
                      < RunLimit + ConcurrencyLimit + 2 * Loops + excess.runs

(* One run for one scheduled instant, whatever ticks overlap and however   *)
(* often a stale tick sets next_fire_at back.                              *)
ScheduledOnce ==
  \A k1, k2 \in {k \in DOMAIN intake : k[1] = "sched"} :
    intake[k1].instant = intake[k2].instant => k1 = k2

(* Of the calls with one key (clicks within a bucket, deliveries of one    *)
(* payload, however far apart) at most one is told that it created a run.  *)
AcceptedOnce ==
  \A q1, q2 \in Requests :
    req[q1].pc = "created" /\ req[q2].pc = "created" /\ req[q1].key = req[q2].key => q1 = q2

(* A cause (an instant of a schedule, a click, a payload) has one run. *)
OneRunPerCause == ScheduledOnce /\ AcceptedOnce
=============================================================================
