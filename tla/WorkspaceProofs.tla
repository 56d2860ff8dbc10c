--------------------------- MODULE WorkspaceProofs ---------------------------
(***************************************************************************)
(* Theorems about what a workspace admits, promotes and pays for: a cause  *)
(* has one run, the limits of the Free plan are overrun by bounded amounts *)
(* although the calls and the scheduler loops count before they insert, a  *)
(* promotion that answers has taken effect, every charge is accounted for   *)
(* by period and by day, a manifest that the validator accepts is one the   *)
(* executor can run, and a trigger fires when its schedule says.            *)
(***************************************************************************)
EXTENDS Intake, Catalog, Metering, Manifest, Cron,
        FiniteSetTheorems, WellFoundedInduction, NaturalsInduction, TLAPS

----------------------------------------------------------------------------
(* A cause has one run *)

ReqOK(q) ==
  /\ DOMAIN req[q] = {"pc", "key", "active"}
  /\ req[q].pc # "idle" => req[q].key[1] \in {"manual", "hook"}
  /\ req[q].pc = "created" => req[q].key \in DOMAIN intake

RunFields == {"live", "blocked", "instant"}

(* A scheduled run has the key of its instant; the key of a created run was   *)
(* free until then, and it stays in the table.                               *)
CauseInv ==
  /\ DOMAIN req = Requests /\ \A q \in Requests : ReqOK(q)
  /\ \A k \in DOMAIN intake :
       /\ DOMAIN intake[k] = RunFields
       /\ k[1] = "sched" => k = <<"sched", intake[k].instant>>
  /\ AcceptedOnce

(* Runs change, and none disappears.                                          *)
LEMMA RunsChange ==
  ASSUME CauseInv, UNCHANGED req, DOMAIN intake \subseteq DOMAIN intake',
         \A k \in DOMAIN intake' :
           /\ DOMAIN intake'[k] = RunFields
           /\ \/ k \in DOMAIN intake /\ intake'[k].instant = intake[k].instant
              \/ k = <<"sched", intake'[k].instant>>
  PROVE  CauseInv'
  <1>1. DOMAIN req' = Requests /\ \A q \in Requests : ReqOK(q)'
    BY DEF CauseInv, ReqOK
  <1>2. AcceptedOnce'
    BY DEF CauseInv, AcceptedOnce
  <1>3. \A k \in DOMAIN intake' : k[1] = "sched" => k = <<"sched", intake'[k].instant>>
    BY DEF CauseInv
  <1>. QED  BY <1>1, <1>2, <1>3 DEF CauseInv

(* A call goes on without a run.                                              *)
LEMMA CallMoves ==
  ASSUME CauseInv, UNCHANGED intake, NEW q \in Requests, NEW new,
         DOMAIN new = {"pc", "key", "active"}, new.key[1] \in {"manual", "hook"},
         new.pc # "created", req' = [req EXCEPT ![q] = new]
  PROVE  CauseInv'
  <1>1. /\ DOMAIN req' = Requests /\ req'[q] = new
        /\ \A r \in Requests : r # q => req'[r] = req[r]
    BY DEF CauseInv
  <1>2. \A r \in Requests : ReqOK(r)'
    BY <1>1 DEF CauseInv, ReqOK
  <1>3. AcceptedOnce'
    BY <1>1 DEF CauseInv, AcceptedOnce
  <1>. QED  BY <1>1, <1>2, <1>3 DEF CauseInv

LEMMA Admits ==
  ASSUME CauseInv, NEW q \in Requests, Admit(q)
  PROVE  CauseInv'
  <1>1. PICK code \in {"refused", "deduplicated", "created"} :
          /\ code \in AdmitCodes(q)
          /\ req' = [req EXCEPT ![q].pc = code, ![q].active = 0]
          /\ intake' = IF code = "created" /\ req[q].key \notin DOMAIN intake
                         THEN Extend(intake, req[q].key, NewRun(FALSE, now))
                         ELSE intake
    BY DEF Admit, AdmitCodes, ManualCodes, WebhookCodes
  <1>2. DOMAIN req = Requests /\ ReqOK(q) /\ req[q].pc = "admit"
    BY DEF CauseInv, Admit
  <1>3. code = "created" => req[q].key \notin DOMAIN intake
    <2>1. CASE req[q].key[1] = "manual"
      BY <1>1, <2>1 DEF AdmitCodes, ManualCodes
    <2>2. CASE req[q].key[1] # "manual"
      BY <1>1, <2>2 DEF AdmitCodes, WebhookCodes
    <2>. QED  BY <2>1, <2>2
  <1>4. PICK new : new = [req[q] EXCEPT !.pc = code, !.active = 0]
    OBVIOUS
  <1>5. /\ req' = [req EXCEPT ![q] = new] /\ DOMAIN new = {"pc", "key", "active"}
        /\ new.pc = code /\ new.key = req[q].key /\ new.key[1] \in {"manual", "hook"}
    <2>1. req' = [req EXCEPT ![q] = new]
      BY <1>1, <1>2, <1>4
    <2>2. DOMAIN req[q] = {"pc", "key", "active"} /\ req[q].key[1] \in {"manual", "hook"}
      BY <1>2 DEF ReqOK
    <2>3. DOMAIN new = {"pc", "key", "active"} /\ new.pc = code /\ new.key = req[q].key
      BY <1>4, <2>2
    <2>. QED  BY <2>1, <2>2, <2>3
  <1>6. CASE code # "created"
    BY <1>1, <1>5, <1>6, CallMoves
  <1>7. CASE code = "created"
    <2>1. PICK k : k = req[q].key /\ k[1] # "sched" /\ k \notin DOMAIN intake
      <3>1. req[q].key[1] # "sched"
        BY <1>2 DEF ReqOK
      <3>. QED  BY <1>3, <1>7, <3>1
    <2>2. PICK run : run = NewRun(FALSE, now) /\ DOMAIN run = RunFields
      <3>1. DOMAIN NewRun(FALSE, now) = RunFields
        BY DEF NewRun, RunFields
      <3>. QED  BY <3>1
    <2>3. /\ DOMAIN intake' = DOMAIN intake \cup {k} /\ intake'[k] = run
          /\ \A other \in DOMAIN intake : intake'[other] = intake[other]
      BY <1>1, <1>7, <2>1, <2>2 DEF Extend
    <2>4. /\ DOMAIN req' = Requests /\ req'[q] = new
          /\ \A r \in Requests : r # q => req'[r] = req[r]
      BY <1>2, <1>5
    <2>5. \A r \in Requests : ReqOK(r)'
      BY <1>5, <2>1, <2>3, <2>4 DEF CauseInv, ReqOK
    <2>6. \A r \in Requests : req[r].pc = "created" => req[r].key # k
      BY <2>1 DEF CauseInv, ReqOK
    <2>7. AcceptedOnce'
      BY <1>5, <2>1, <2>4, <2>6 DEF CauseInv, AcceptedOnce
    <2>8. \A x \in DOMAIN intake' :
            /\ DOMAIN intake'[x] = RunFields
            /\ x[1] = "sched" => x = <<"sched", intake'[x].instant>>
      BY <2>1, <2>2, <2>3 DEF CauseInv
    <2>. QED  BY <2>4, <2>5, <2>7, <2>8 DEF CauseInv
  <1>. QED  BY <1>6, <1>7

LEMMA CauseInitially == IntakeInit => CauseInv
  <1>. SUFFICES ASSUME IntakeInit PROVE CauseInv
    OBVIOUS
  <1>1. DOMAIN req = Requests /\ DOMAIN intake = {} /\ \A q \in Requests : req[q] = Idle
    BY DEF IntakeInit, EmptyMap
  <1>2. DOMAIN Idle = {"pc", "key", "active"} /\ Idle.pc = "idle"
    BY DEF Idle
  <1>. QED  BY <1>1, <1>2 DEF CauseInv, ReqOK, AcceptedOnce

LEMMA CauseStep == CauseInv /\ [IntakeNext]_intakeVars => CauseInv'
  <1>. SUFFICES ASSUME CauseInv, [IntakeNext]_intakeVars PROVE CauseInv'
    OBVIOUS
  <1>1. CASE UNCHANGED <<intake, req>>
    BY <1>1 DEF CauseInv, ReqOK, AcceptedOnce
  <1>2. ASSUME NEW q \in Requests, ManualTrigger(q) PROVE CauseInv'
    <2>0. PICK key : key = <<"manual", now>>
      OBVIOUS
    <2>1. PICK next \in {"refused", "lock"} : req' = [req EXCEPT ![q].pc = next, ![q].key = key]
      BY <1>2, <2>0 DEF ManualTrigger
    <2>2. PICK new : new = [req[q] EXCEPT !.pc = next, !.key = key]
      OBVIOUS
    <2>3. DOMAIN req = Requests /\ DOMAIN req[q] = {"pc", "key", "active"}
      BY DEF CauseInv, ReqOK
    <2>4. req' = [req EXCEPT ![q] = new]
      BY <2>1, <2>2, <2>3
    <2>5. DOMAIN new = {"pc", "key", "active"} /\ new.pc = next /\ new.key[1] = "manual"
      <3>1. key[1] = "manual"
        BY <2>0
      <3>. QED  BY <2>2, <2>3, <3>1
    <2>. QED  BY <1>2, <2>4, <2>5, CallMoves DEF ManualTrigger
  <1>3. ASSUME NEW q \in Requests, NEW p \in Payloads, Delivery(q, p) PROVE CauseInv'
    <2>1. PICK next \in {"refused", "lock"} :
            req' = [req EXCEPT ![q] = [pc |-> next, key |-> <<"hook", p>>, active |-> 0]]
      BY <1>3 DEF Delivery
    <2>2. PICK new : new = [pc |-> next, key |-> <<"hook", p>>, active |-> 0]
      OBVIOUS
    <2>3. /\ DOMAIN new = {"pc", "key", "active"} /\ new.pc = next /\ new.key[1] = "hook"
      BY <2>2
    <2>. QED  BY <1>3, <2>1, <2>2, <2>3, CallMoves DEF Delivery
  <1>4. ASSUME NEW q \in Requests, CountActive(q) PROVE CauseInv'
    <2>1. DOMAIN req = Requests /\ DOMAIN req[q] = {"pc", "key", "active"}
          /\ req[q].pc = "lock" /\ req[q].key[1] \in {"manual", "hook"}
      BY <1>4 DEF CauseInv, ReqOK, CountActive
    <2>2. PICK new : /\ req' = [req EXCEPT ![q] = new]
                     /\ \/ new = [req[q] EXCEPT !.pc = "refused"]
                        \/ new = [req[q] EXCEPT !.pc = "admit", !.active = ActiveCount]
      <3>1. \/ req' = [req EXCEPT ![q].pc = "refused"]
            \/ req' = [req EXCEPT ![q].pc = "admit", ![q].active = ActiveCount]
        BY <1>4 DEF CountActive, Answer
      <3>2. CASE req' = [req EXCEPT ![q].pc = "refused"]
        BY <2>1, <3>2
      <3>3. CASE req' = [req EXCEPT ![q].pc = "admit", ![q].active = ActiveCount]
        BY <2>1, <3>3
      <3>. QED  BY <3>1, <3>2, <3>3
    <2>3. /\ DOMAIN new = {"pc", "key", "active"} /\ new.pc # "created"
          /\ new.key = req[q].key
      BY <2>1, <2>2
    <2>. QED  BY <1>4, <2>1, <2>2, <2>3, CallMoves DEF CountActive
  <1>5. ASSUME NEW q \in Requests, Admit(q) PROVE CauseInv'
    BY <1>5, Admits
  <1>6. ASSUME NEW t \in Tickers, InsertScheduled(t) PROVE CauseInv'
    <2>1. PICK due, run : due = tkr[t].due /\ run = NewRun(tkr[t].blocked, due)
      OBVIOUS
    <2>2. DOMAIN run = RunFields /\ run.instant = due
      BY <2>1 DEF NewRun, RunFields
    <2>3. PICK k : k = <<"sched", due>>
      OBVIOUS
    <2>4. /\ UNCHANGED req
          /\ intake' = IF k \in DOMAIN intake THEN intake ELSE Extend(intake, k, run)
      BY <1>6, <2>1, <2>3 DEF InsertScheduled, ScheduleKey, Goes
    <2>5. CASE k \notin DOMAIN intake
      <3>1. /\ DOMAIN intake' = DOMAIN intake \cup {k} /\ intake'[k] = run
            /\ \A other \in DOMAIN intake : intake'[other] = intake[other]
        BY <2>4, <2>5 DEF Extend
      <3>. QED  BY <2>2, <2>3, <2>4, <3>1, RunsChange DEF CauseInv
    <2>. QED  BY <1>1, <2>4, <2>5
  <1>7. ASSUME NEW t \in Tickers, Promote(t) PROVE CauseInv'
    <2>1. PICK k : k = <<"sched", tkr[t].due>>
      OBVIOUS
    <2>2. UNCHANGED req /\ (UNCHANGED intake \/ intake' = [intake EXCEPT ![k].blocked = FALSE])
      BY <1>7, <2>1 DEF Promote
    <2>3. CASE intake' = [intake EXCEPT ![k].blocked = FALSE]
      BY <2>2, <2>3, RunsChange DEF CauseInv, RunFields
    <2>. QED  BY <1>1, <2>2, <2>3
  <1>8. ASSUME NEW k \in DOMAIN intake, RunEnds(k) PROVE CauseInv'
    <2>1. intake' = [intake EXCEPT ![k].live = FALSE, ![k].blocked = FALSE] /\ UNCHANGED req
      BY <1>8 DEF RunEnds
    <2>. QED  BY <2>1, RunsChange DEF CauseInv, RunFields
  <1>9. ASSUME NEW t \in Tickers,
               \/ TickStarts(t) \/ ReadDue(t) \/ ReadConsumed(t) \/ CheckCap(t) \/ CheckSlots(t)
               \/ ComputeNext(t) \/ AdvanceTrigger(t) \/ Sweep(t) \/ RetryCounts(t)
               \/ TickEnds(t) \/ TickFails(t)
        PROVE  CauseInv'
    <2>1. UNCHANGED <<intake, req>>
      BY <1>9 DEF TickStarts, ReadDue, ReadConsumed, CheckCap, CheckSlots, ComputeNext,
                  AdvanceTrigger, Sweep, RetryCounts, TickEnds, TickFails
    <2>. QED  BY <1>1, <2>1
  <1>10. CASE \/ TickLockExpires \/ InstantPasses \/ ChargeFollows \/ PeriodEnds \/ PeriodCloses
              \/ \E plan \in DOMAIN Plan : ChangePlan(plan)
    <2>1. UNCHANGED <<intake, req>>
      BY <1>10 DEF TickLockExpires, InstantPasses, ChargeFollows, PeriodEnds, PeriodCloses, ChangePlan
    <2>. QED  BY <1>1, <2>1
  <1>11. CASE UNCHANGED intakeVars
    BY <1>1, <1>11 DEF intakeVars
  <1>. QED  BY <1>2, <1>3, <1>4, <1>5, <1>6, <1>7, <1>8, <1>9, <1>10, <1>11
            DEF IntakeNext, Calls, Ticks, Around

(* A cause has one run: for any number of loops whose ticks overlap, of calls, *)
(* payloads and instants, whatever stale tick sets the trigger back.           *)
THEOREM CausesHaveOneRun == IntakeSpec => []OneRunPerCause
  <1>1. CauseInv => OneRunPerCause
    BY DEF CauseInv, OneRunPerCause, ScheduledOnce
  <1>. QED  BY <1>1, CauseInitially, CauseStep, PTL DEF IntakeSpec

----------------------------------------------------------------------------
(* The limits of the Free plan *)

Scheduling == Tickers \cap cast

TkrFields == {"pc", "due", "plan", "used", "blocked", "todo"}

LimitTypeOK ==
  /\ acct \in [plan : DOMAIN Plan, consumed : Nat, open : BOOLEAN]
  /\ excess \in [runs : Nat, owed : Nat, periods : Nat, changes : Nat]
  /\ IsFiniteSet(DOMAIN intake) /\ \A k \in DOMAIN intake : DOMAIN intake[k] = RunFields
  /\ DOMAIN req = Requests
  /\ \A q \in Requests : DOMAIN req[q] = {"pc", "key", "active"} /\ req[q].active \in Nat
  /\ DOMAIN tkr = Tickers
  /\ \A t \in Tickers : DOMAIN tkr[t] = TkrFields /\ tkr[t].used \in Nat

(* Runs that hold a slot. *)
Active == {k \in DOMAIN intake : intake[k].live /\ ~intake[k].blocked}

(* Who is about to add one, by a count it has made: a loop for a slot, a loop  *)
(* for the cap, the one call that has the workspace row.                      *)
TakesSlot(x) == x.pc = "promote" \/ (x.pc = "insert" /\ ~x.blocked)
TakesRun(x) ==
  \/ x.pc = "cap" /\ x.used < RunLimit
  \/ x.pc = "slots"
  \/ x.pc = "insert" /\ ~x.blocked
SlotTakers == {t \in Scheduling : TakesSlot(tkr[t])}
RunTakers == {t \in Scheduling : TakesRun(tkr[t])}
Admitting == IF RowLocked THEN 1 ELSE 0

OneAdmits == \A q, r \in Requests : req[q].pc = "admit" /\ req[r].pc = "admit" => q = r

(* The runs that hold a slot and those about to hold one. *)
SlotsBound == Cardinality(Active) + Cardinality(SlotTakers) + Admitting <= ConcurrencyLimit + Loops

(* The charged runs, the active ones, and those about to be beyond the cap. *)
RunsBound ==
  acct.open =>
    acct.consumed + Cardinality(Active) + Cardinality(RunTakers)
      < RunLimit + ConcurrencyLimit + 2 * Loops + excess.runs

LimitInv ==
  /\ LimitTypeOK /\ OneAdmits
  /\ excess.changes = 0 =>
       /\ acct.plan = "free" /\ \A t \in Tickers : tkr[t].plan = "free"
       /\ SlotsBound /\ RunsBound

LEMMA FreePlan ==
  ASSUME NEW used \in Nat, NEW n \in Nat
  PROVE  /\ hasHardRunCap("free") /\ "free" \in DOMAIN Plan
         /\ SlotsTaken("free", n) <=> n >= ConcurrencyLimit
         /\ AtCap("free", used, n) <=> used + n >= RunLimit
  BY DEF hasHardRunCap, SlotsTaken, AtCap, Plan

Counted ==
  /\ ActiveCount = Cardinality(Active)
  /\ IsFiniteSet(Active) /\ Cardinality(Active) \in Nat
  /\ IsFiniteSet(Scheduling) /\ Loops \in Nat
  /\ RunLimit \in Nat \ {0} /\ ConcurrencyLimit \in Nat \ {0}
  /\ IsFiniteSet(SlotTakers) /\ Cardinality(SlotTakers) \in Nat
  /\ Cardinality(SlotTakers) <= Loops
  /\ IsFiniteSet(RunTakers) /\ Cardinality(RunTakers) \in Nat
  /\ Cardinality(RunTakers) <= Loops
  /\ Admitting \in {0, 1} /\ RunsConsumed \in Nat

LEMMA Counts == LimitTypeOK => Counted
  <1>. SUFFICES ASSUME LimitTypeOK PROVE Counted
    OBVIOUS
  <1>1. ActiveCount = Cardinality(Active)
    BY DEF ActiveCount, Active
  <1>2. IsFiniteSet(Active) /\ Cardinality(Active) \in Nat
    <2>1. Active \subseteq DOMAIN intake
      BY DEF Active
    <2>. QED  BY <2>1, FS_Subset, FS_CardinalityType DEF LimitTypeOK
  <1>3. IsFiniteSet(Scheduling) /\ Loops = Cardinality(Scheduling) /\ Loops \in Nat
    <2>1. Scheduling \subseteq Tickers /\ IsFiniteSet(Tickers)
      BY IntakeAssumption DEF Scheduling
    <2>2. IsFiniteSet(Scheduling)
      BY <2>1, FS_Subset
    <2>. QED  BY <2>2, FS_CardinalityType DEF Loops, Scheduling
  <1>4. SlotTakers \subseteq Scheduling /\ RunTakers \subseteq Scheduling
    BY DEF SlotTakers, RunTakers
  <1>5. /\ IsFiniteSet(SlotTakers) /\ Cardinality(SlotTakers) \in Nat
        /\ Cardinality(SlotTakers) <= Loops
    BY <1>3, <1>4, FS_Subset, FS_CardinalityType
  <1>6. /\ IsFiniteSet(RunTakers) /\ Cardinality(RunTakers) \in Nat
        /\ Cardinality(RunTakers) <= Loops
    BY <1>3, <1>4, FS_Subset, FS_CardinalityType
  <1>7. Admitting \in {0, 1} /\ RunsConsumed \in Nat
    BY DEF Admitting, RunsConsumed, LimitTypeOK
  <1>. QED  BY <1>1, <1>2, <1>3, <1>5, <1>6, <1>7, IntakeAssumption DEF Counted

LEMMA CountsNext == LimitTypeOK' => Counted'
  BY Counts, PTL

(* A set that loses an element, or gains one. *)
LEMMA OneMore ==
  ASSUME NEW S, IsFiniteSet(S), NEW T, NEW x, T \subseteq S \cup {x}
  PROVE  /\ IsFiniteSet(T) /\ Cardinality(T) \in Nat /\ Cardinality(S) \in Nat
         /\ Cardinality(T) <= Cardinality(S) + 1
         /\ T \subseteq S => Cardinality(T) <= Cardinality(S)
         /\ T \subseteq S \ {x} /\ x \in S => Cardinality(T) <= Cardinality(S) - 1
  <1>1. /\ IsFiniteSet(S \cup {x}) /\ Cardinality(S) \in Nat
        /\ Cardinality(S \cup {x}) <= Cardinality(S) + 1
    <2>1. Cardinality(S) \in Nat
      BY FS_CardinalityType
    <2>. QED  BY <2>1, FS_AddElement
  <1>2. /\ IsFiniteSet(T) /\ Cardinality(T) <= Cardinality(S \cup {x})
        /\ Cardinality(T) \in Nat /\ Cardinality(S \cup {x}) \in Nat
    BY <1>1, FS_Subset, FS_CardinalityType
  <1>3. T \subseteq S => Cardinality(T) <= Cardinality(S)
    BY FS_Subset
  <1>4. T \subseteq S \ {x} /\ x \in S => Cardinality(T) <= Cardinality(S) - 1
    <2>1. IsFiniteSet(S \ {x}) /\ (x \in S => Cardinality(S \ {x}) = Cardinality(S) - 1)
      BY FS_RemoveElement
    <2>. QED  BY <2>1, FS_Subset
  <1>. QED  BY <1>1, <1>2, <1>3, <1>4

(* A loop goes on: it may set out to add a run when a count it makes allows it. *)
LEMMA LoopMoves ==
  ASSUME LimitInv, NEW t \in Scheduling, NEW new, DOMAIN new = TkrFields, new.used \in Nat,
         tkr' = [tkr EXCEPT ![t] = new], UNCHANGED <<acct, intake, req, excess, cast>>,
         excess.changes = 0 =>
           /\ new.plan = "free"
           /\ TakesSlot(new) => TakesSlot(tkr[t]) \/ ActiveCount < ConcurrencyLimit
           /\ TakesRun(new) => TakesRun(tkr[t]) \/ RunsConsumed < RunLimit
  PROVE  LimitInv'
  <1>0. LimitTypeOK /\ t \in Tickers /\ Scheduling' = Scheduling
    BY DEF LimitInv, Scheduling
  <1>1. /\ DOMAIN tkr' = Tickers /\ tkr'[t] = new
        /\ \A u \in Tickers : u # t => tkr'[u] = tkr[u]
    BY <1>0 DEF LimitTypeOK
  <1>2. LimitTypeOK'
    BY <1>0, <1>1 DEF LimitTypeOK
  <1>3. OneAdmits' /\ Active' = Active /\ Admitting' = Admitting /\ Loops' = Loops
    BY DEF LimitInv, OneAdmits, Active, Admitting, RowLocked, Loops
  <1>4. Counted /\ Counted'
    BY <1>0, <1>2, Counts, CountsNext
  <1>5. ASSUME excess.changes = 0 PROVE SlotsBound'
    <2>1. CASE TakesSlot(new) => TakesSlot(tkr[t])
      <3>1. SlotTakers' \subseteq SlotTakers
        BY <1>0, <1>1, <2>1 DEF SlotTakers, Scheduling
      <3>2. Cardinality(SlotTakers') <= Cardinality(SlotTakers)
        BY <1>4, <3>1, FS_Subset DEF Counted
      <3>. QED  BY <1>3, <1>4, <1>5, <3>2 DEF LimitInv, SlotsBound, Counted
    <2>2. CASE Cardinality(Active) < ConcurrencyLimit
      BY <1>3, <1>4, <2>2 DEF SlotsBound, Counted
    <2>. QED  BY <1>4, <1>5, <2>1, <2>2 DEF Counted
  <1>6. ASSUME excess.changes = 0, acct.open
        PROVE  acct.consumed + Cardinality(Active) + Cardinality(RunTakers')
                 < RunLimit + ConcurrencyLimit + 2 * Loops + excess.runs
    <2>0. acct.consumed \in Nat /\ excess.runs \in Nat
      BY <1>0 DEF LimitTypeOK
    <2>1. CASE TakesRun(new) => TakesRun(tkr[t])
      <3>1. RunTakers' \subseteq RunTakers
        BY <1>0, <1>1, <2>1 DEF RunTakers, Scheduling
      <3>2. Cardinality(RunTakers') <= Cardinality(RunTakers)
        BY <1>4, <3>1, FS_Subset DEF Counted
      <3>. QED  BY <1>4, <1>6, <2>0, <3>2 DEF LimitInv, RunsBound, Counted
    <2>2. CASE RunsConsumed < RunLimit
      <3>1. acct.consumed < RunLimit /\ Cardinality(RunTakers') <= Loops
        BY <1>3, <1>4, <1>6, <2>2 DEF RunsConsumed, Counted
      <3>2. Cardinality(Active) <= ConcurrencyLimit + Loops
        BY <1>4, <1>6 DEF LimitInv, SlotsBound, Counted
      <3>. QED  BY <1>3, <1>4, <2>0, <3>1, <3>2 DEF Counted
    <2>. QED  BY <1>6, <2>1, <2>2
  <1>7. excess.changes = 0 => RunsBound'
    BY <1>3, <1>6 DEF RunsBound
  <1>8. excess.changes = 0 => \A u \in Tickers : tkr'[u].plan = "free"
    BY <1>1 DEF LimitInv
  <1>. QED  BY <1>2, <1>3, <1>5, <1>7, <1>8 DEF LimitInv

(* A call goes on, and may take the row of the workspace when a slot is free. *)
LEMMA CallCounts ==
  ASSUME LimitInv, NEW q \in Requests, NEW new, DOMAIN new = {"pc", "key", "active"},
         new.active \in Nat, req' = [req EXCEPT ![q] = new],
         UNCHANGED <<acct, intake, tkr, excess, cast>>,
         \/ new.pc # "admit"
         \/ ~RowLocked /\ (excess.changes = 0 => ActiveCount < ConcurrencyLimit)
  PROVE  LimitInv'
  <1>0. LimitTypeOK
    BY DEF LimitInv
  <1>1. /\ DOMAIN req' = Requests /\ req'[q] = new
        /\ \A r \in Requests : r # q => req'[r] = req[r]
    BY <1>0 DEF LimitTypeOK
  <1>2. LimitTypeOK'
    BY <1>0, <1>1 DEF LimitTypeOK
  <1>3. OneAdmits'
    BY <1>1 DEF LimitInv, OneAdmits, RowLocked
  <1>4. Active' = Active /\ SlotTakers' = SlotTakers /\ RunTakers' = RunTakers /\ Loops' = Loops
    BY DEF Active, SlotTakers, RunTakers, Scheduling, Loops
  <1>5. Counted /\ Counted'
    BY <1>0, <1>2, Counts, CountsNext
  <1>6. ASSUME excess.changes = 0 PROVE SlotsBound'
    <2>1. CASE new.pc # "admit"
      <3>1. RowLocked' => RowLocked
        BY <1>1, <2>1 DEF RowLocked
      <3>2. Admitting' <= Admitting
        BY <3>1 DEF Admitting
      <3>. QED  BY <1>4, <1>5, <1>6, <3>2 DEF LimitInv, SlotsBound, Counted
    <2>2. CASE Cardinality(Active) < ConcurrencyLimit
      BY <1>4, <1>5, <2>2 DEF SlotsBound, Counted
    <2>. QED  BY <1>5, <1>6, <2>1, <2>2 DEF Counted
  <1>7. excess.changes = 0 => RunsBound'
    BY <1>4 DEF LimitInv, RunsBound
  <1>. QED  BY <1>2, <1>3, <1>6, <1>7 DEF LimitInv

(* The runs change, the account and its excess; loops give up what they hold.  *)
LEMMA RunsMove ==
  ASSUME LimitInv, LimitTypeOK', OneAdmits', UNCHANGED cast, Admitting' <= Admitting,
         SlotTakers' \subseteq SlotTakers, RunTakers' \subseteq RunTakers,
         excess'.changes = 0 =>
           /\ excess.changes = 0
           /\ acct'.plan = "free" /\ \A t \in Tickers : tkr'[t].plan = "free"
           /\ Cardinality(Active') + Cardinality(SlotTakers') + Admitting'
                <= ConcurrencyLimit + Loops
           /\ acct'.open =>
                \/ acct'.consumed = 0
                \/ acct.open /\ acct'.consumed + Cardinality(Active') + Cardinality(RunTakers')
                                <= acct.consumed + Cardinality(Active) + Cardinality(RunTakers)
                                     + (excess'.runs - excess.runs)
  PROVE  LimitInv'
  <1>0. LimitTypeOK /\ Counted /\ Counted' /\ Loops' = Loops
    BY Counts, CountsNext DEF LimitInv, Loops
  <1>1. /\ acct.consumed \in Nat /\ excess.runs \in Nat
        /\ acct'.consumed \in Nat /\ excess'.runs \in Nat
    BY <1>0 DEF LimitTypeOK
  <1>2. ASSUME excess'.changes = 0 PROVE SlotsBound'
    BY <1>0, <1>2 DEF SlotsBound
  <1>3. ASSUME excess'.changes = 0, acct'.open
        PROVE  acct'.consumed + Cardinality(Active') + Cardinality(RunTakers')
                 < RunLimit + ConcurrencyLimit + 2 * Loops + excess'.runs
    <2>1. CASE acct'.consumed = 0
      <3>1. Cardinality(Active') <= ConcurrencyLimit + Loops
        BY <1>0, <1>2, <1>3 DEF SlotsBound, Counted
      <3>2. Cardinality(RunTakers') <= Loops
        BY <1>0 DEF Counted
      <3>. QED  BY <1>0, <1>1, <2>1, <3>1, <3>2 DEF Counted
    <2>2. CASE /\ acct.open
               /\ acct'.consumed + Cardinality(Active') + Cardinality(RunTakers')
                    <= acct.consumed + Cardinality(Active) + Cardinality(RunTakers)
                         + (excess'.runs - excess.runs)
      <3>1. acct.consumed + Cardinality(Active) + Cardinality(RunTakers)
              < RunLimit + ConcurrencyLimit + 2 * Loops + excess.runs
        BY <1>3, <2>2 DEF LimitInv, RunsBound
      <3>. QED  BY <1>0, <1>1, <2>2, <3>1 DEF Counted
    <2>. QED  BY <1>3, <2>1, <2>2
  <1>4. excess'.changes = 0 => RunsBound'
    BY <1>0, <1>3 DEF RunsBound
  <1>. QED  BY <1>2, <1>4 DEF LimitInv

LEMMA SomeoneInserts ==
  ASSUME LimitInv, NEW t \in Scheduling, InsertScheduled(t)
  PROVE  LimitInv'
  <1>0. /\ LimitTypeOK /\ Counted /\ t \in Tickers /\ tkr[t].pc = "insert"
        /\ UNCHANGED <<acct, cast, req, excess>>
    BY Counts DEF LimitInv, Scheduling, InsertScheduled
  <1>1. PICK new : new = [tkr[t] EXCEPT !.pc = "advance"]
    OBVIOUS
  <1>2. /\ tkr' = [tkr EXCEPT ![t] = new] /\ DOMAIN new = TkrFields
        /\ new.pc = "advance" /\ new.used \in Nat /\ new.plan = tkr[t].plan
    BY <1>0, <1>1 DEF InsertScheduled, Goes, LimitTypeOK, TkrFields
  <1>3. /\ DOMAIN tkr' = Tickers /\ tkr'[t] = new
        /\ \A u \in Tickers : u # t => tkr'[u] = tkr[u]
    BY <1>0, <1>2 DEF LimitTypeOK
  <1>4. PICK k, run : /\ k = ScheduleKey(t)
                      /\ DOMAIN run = RunFields /\ run.blocked = tkr[t].blocked
                      /\ intake' = IF k \in DOMAIN intake THEN intake ELSE Extend(intake, k, run)
    <2>1. PICK run : run = NewRun(tkr[t].blocked, tkr[t].due)
      OBVIOUS
    <2>2. DOMAIN run = RunFields /\ run.blocked = tkr[t].blocked
      BY <2>1 DEF NewRun, RunFields
    <2>. QED  BY <2>1, <2>2 DEF InsertScheduled
  <1>5. /\ IsFiniteSet(DOMAIN intake')
        /\ \A x \in DOMAIN intake' : DOMAIN intake'[x] = RunFields
        /\ Active' \subseteq Active \cup {k}
        /\ tkr[t].blocked => Active' \subseteq Active
    <2>1. CASE k \in DOMAIN intake
      BY <1>0, <1>4, <2>1 DEF LimitTypeOK, Active
    <2>2. CASE k \notin DOMAIN intake
      <3>1. /\ DOMAIN intake' = DOMAIN intake \cup {k} /\ intake'[k] = run
            /\ \A x \in DOMAIN intake : intake'[x] = intake[x]
        BY <1>4, <2>2 DEF Extend
      <3>2. IsFiniteSet(DOMAIN intake')
        BY <1>0, <3>1, FS_AddElement DEF LimitTypeOK
      <3>. QED  BY <1>0, <1>4, <3>1, <3>2 DEF LimitTypeOK, Active
    <2>. QED  BY <2>1, <2>2
  <1>6. LimitTypeOK'
    BY <1>0, <1>2, <1>3, <1>5 DEF LimitTypeOK
  <1>7. /\ SlotTakers' \subseteq SlotTakers \ {t} /\ RunTakers' \subseteq RunTakers \ {t}
        /\ ~tkr[t].blocked => t \in SlotTakers /\ t \in RunTakers
    BY <1>0, <1>2, <1>3 DEF SlotTakers, RunTakers, TakesSlot, TakesRun, Scheduling
  <1>8. Counted'
    BY <1>6, CountsNext
  <1>9. OneAdmits' /\ Admitting' = Admitting
    BY <1>0 DEF LimitInv, OneAdmits, Admitting, RowLocked
  <1>10. /\ Cardinality(Active') + Cardinality(SlotTakers')
              <= Cardinality(Active) + Cardinality(SlotTakers)
         /\ Cardinality(Active') + Cardinality(RunTakers')
              <= Cardinality(Active) + Cardinality(RunTakers)
    <2>1. CASE tkr[t].blocked
      <3>1. /\ Cardinality(Active') <= Cardinality(Active)
            /\ Cardinality(SlotTakers') <= Cardinality(SlotTakers)
            /\ Cardinality(RunTakers') <= Cardinality(RunTakers)
        BY <1>0, <1>5, <1>7, <2>1, FS_Subset DEF Counted
      <3>. QED  BY <1>0, <1>8, <3>1 DEF Counted
    <2>2. CASE ~tkr[t].blocked
      <3>1. Cardinality(Active') <= Cardinality(Active) + 1
        BY <1>0, <1>5, OneMore DEF Counted
      <3>2. Cardinality(SlotTakers') <= Cardinality(SlotTakers) - 1
        BY <1>0, <1>7, <2>2, OneMore DEF Counted
      <3>3. Cardinality(RunTakers') <= Cardinality(RunTakers) - 1
        BY <1>0, <1>7, <2>2, OneMore DEF Counted
      <3>. QED  BY <1>0, <1>8, <3>1, <3>2, <3>3 DEF Counted
    <2>. QED  BY <2>1, <2>2
  <1>11. ASSUME excess.changes = 0
         PROVE  /\ acct.plan = "free" /\ \A u \in Tickers : tkr'[u].plan = "free"
                /\ Cardinality(Active') + Cardinality(SlotTakers') + Admitting'
                     <= ConcurrencyLimit + Loops
    <2>1. SlotsBound /\ acct.plan = "free" /\ \A u \in Tickers : tkr[u].plan = "free"
      BY <1>11 DEF LimitInv
    <2>. QED  BY <1>0, <1>2, <1>3, <1>8, <1>9, <1>10, <2>1 DEF SlotsBound, Counted
  <1>12. acct'.consumed + Cardinality(Active') + Cardinality(RunTakers')
           <= acct.consumed + Cardinality(Active) + Cardinality(RunTakers)
                + (excess'.runs - excess.runs)
    <2>1. acct.consumed \in Nat /\ excess.runs \in Nat
      BY <1>0 DEF LimitTypeOK
    <2>. QED  BY <1>0, <1>8, <1>10, <2>1 DEF Counted
  <1>13. Admitting' <= Admitting
    BY <1>0, <1>9 DEF Counted
  <1>. QED  BY <1>0, <1>6, <1>7, <1>9, <1>11, <1>12, <1>13, RunsMove

LEMMA SomeonePromotes ==
  ASSUME LimitInv, NEW t \in Scheduling, Promote(t)
  PROVE  LimitInv'
  <1>0. /\ LimitTypeOK /\ Counted /\ t \in Tickers /\ tkr[t].pc = "promote"
        /\ UNCHANGED <<acct, cast, req>>
    BY Counts DEF LimitInv, Scheduling, Promote
  <1>1. PICK new : new = [tkr[t] EXCEPT !.pc = "retry", !.due = 0]
    OBVIOUS
  <1>2. /\ tkr' = [tkr EXCEPT ![t] = new] /\ DOMAIN new = TkrFields
        /\ new.pc = "retry" /\ new.used \in Nat /\ new.plan = tkr[t].plan
    BY <1>0, <1>1 DEF Promote, LimitTypeOK, TkrFields
  <1>3. /\ DOMAIN tkr' = Tickers /\ tkr'[t] = new
        /\ \A u \in Tickers : u # t => tkr'[u] = tkr[u]
    BY <1>0, <1>2 DEF LimitTypeOK
  <1>4. PICK k : /\ k = <<"sched", tkr[t].due>>
                 /\ \/ UNCHANGED <<intake, excess>>
                    \/ /\ intake' = [intake EXCEPT ![k].blocked = FALSE]
                       /\ excess' = [excess EXCEPT !.runs = @ + 1]
    BY <1>0 DEF Promote
  <1>5. /\ DOMAIN intake' = DOMAIN intake
        /\ \A x \in DOMAIN intake' : DOMAIN intake'[x] = RunFields
        /\ Active' \subseteq Active \cup {k}
        /\ UNCHANGED intake => Active' \subseteq Active
    BY <1>0, <1>4 DEF LimitTypeOK, Active, RunFields
  <1>6. /\ excess'.changes = excess.changes /\ excess.runs \in Nat
        /\ excess' \in [runs : Nat, owed : Nat, periods : Nat, changes : Nat]
        /\ excess'.runs = excess.runs \/ excess'.runs = excess.runs + 1
        /\ excess'.runs = excess.runs => UNCHANGED intake
    BY <1>0, <1>4 DEF LimitTypeOK
  <1>7. LimitTypeOK'
    BY <1>0, <1>2, <1>3, <1>5, <1>6 DEF LimitTypeOK
  <1>8. /\ SlotTakers' \subseteq SlotTakers \ {t} /\ RunTakers' \subseteq RunTakers
        /\ t \in SlotTakers
    BY <1>0, <1>2, <1>3 DEF SlotTakers, RunTakers, TakesSlot, TakesRun, Scheduling
  <1>9. Counted' /\ OneAdmits' /\ Admitting' = Admitting
    BY <1>0, <1>7, CountsNext DEF LimitInv, OneAdmits, Admitting, RowLocked
  <1>10. /\ Cardinality(Active') <= Cardinality(Active) + 1
         /\ UNCHANGED intake => Cardinality(Active') <= Cardinality(Active)
    BY <1>0, <1>5, OneMore DEF Counted
  <1>11. Cardinality(SlotTakers') <= Cardinality(SlotTakers) - 1
    BY <1>0, <1>8, OneMore DEF Counted
  <1>12. Cardinality(RunTakers') <= Cardinality(RunTakers)
    BY <1>0, <1>8, FS_Subset DEF Counted
  <1>13. ASSUME excess.changes = 0
         PROVE  /\ acct.plan = "free" /\ \A u \in Tickers : tkr'[u].plan = "free"
                /\ Cardinality(Active') + Cardinality(SlotTakers') + Admitting'
                     <= ConcurrencyLimit + Loops
    <2>1. SlotsBound /\ acct.plan = "free" /\ \A u \in Tickers : tkr[u].plan = "free"
      BY <1>13 DEF LimitInv
    <2>. QED  BY <1>0, <1>2, <1>3, <1>9, <1>10, <1>11, <2>1 DEF SlotsBound, Counted
  <1>14. acct'.consumed + Cardinality(Active') + Cardinality(RunTakers')
           <= acct.consumed + Cardinality(Active) + Cardinality(RunTakers)
                + (excess'.runs - excess.runs)
    <2>1. acct.consumed \in Nat
      BY <1>0 DEF LimitTypeOK
    <2>. QED  BY <1>0, <1>6, <1>9, <1>10, <1>12, <2>1 DEF Counted
  <1>15. Admitting' <= Admitting
    BY <1>0, <1>9 DEF Counted
  <1>. QED  BY <1>0, <1>6, <1>7, <1>8, <1>9, <1>13, <1>14, <1>15, RunsMove

(* The call that has the row admits by the count it made when it took the row. *)
LEMMA CallAdmits ==
  ASSUME LimitInv, NEW q \in Requests, Admit(q)
  PROVE  LimitInv'
  <1>0. /\ LimitTypeOK /\ Counted /\ req[q].pc = "admit"
        /\ UNCHANGED <<acct, cast, tkr, excess>>
        /\ DOMAIN req = Requests /\ DOMAIN req[q] = {"pc", "key", "active"}
    BY Counts DEF LimitInv, Admit, LimitTypeOK
  <1>1. PICK code \in {"refused", "deduplicated", "created"} :
          /\ code \in AdmitCodes(q)
          /\ req' = [req EXCEPT ![q].pc = code, ![q].active = 0]
          /\ intake' = IF code = "created" /\ req[q].key \notin DOMAIN intake
                         THEN Extend(intake, req[q].key, NewRun(FALSE, now))
                         ELSE intake
    BY DEF Admit, AdmitCodes, ManualCodes, WebhookCodes
  <1>2. PICK new : new = [req[q] EXCEPT !.pc = code, !.active = 0]
    OBVIOUS
  <1>3. /\ req' = [req EXCEPT ![q] = new] /\ DOMAIN new = {"pc", "key", "active"}
        /\ new.pc = code /\ new.active = 0
    BY <1>0, <1>1, <1>2
  <1>4. CASE UNCHANGED intake
    <2>1. new.active \in Nat /\ new.pc # "admit"
      BY <1>3
    <2>. QED  BY <1>0, <1>3, <1>4, <2>1, CallCounts
  <1>5. CASE code = "created" /\ req[q].key \notin DOMAIN intake
    <2>1. PICK k, run : /\ k = req[q].key /\ DOMAIN run = RunFields
                        /\ intake' = Extend(intake, k, run)
      <3>1. DOMAIN NewRun(FALSE, now) = RunFields
        BY DEF NewRun, RunFields
      <3>. QED  BY <1>1, <1>5, <3>1
    <2>2. /\ DOMAIN intake' = DOMAIN intake \cup {k} /\ intake'[k] = run
          /\ \A x \in DOMAIN intake : intake'[x] = intake[x]
      BY <1>5, <2>1 DEF Extend
    <2>3. /\ IsFiniteSet(DOMAIN intake') /\ \A x \in DOMAIN intake' : DOMAIN intake'[x] = RunFields
      BY <1>0, <2>1, <2>2, FS_AddElement DEF LimitTypeOK
    <2>4. Active' \subseteq Active \cup {k}
      BY <2>2 DEF Active
    <2>5. /\ DOMAIN req' = Requests /\ req'[q] = new
          /\ \A r \in Requests : r # q => req'[r] = req[r]
      BY <1>0, <1>3
    <2>6. LimitTypeOK'
      BY <1>0, <1>3, <2>3, <2>5 DEF LimitTypeOK
    <2>7. Counted' /\ SlotTakers' = SlotTakers /\ RunTakers' = RunTakers /\ Loops' = Loops
      BY <1>0, <2>6, CountsNext DEF SlotTakers, RunTakers, Scheduling, Loops
    <2>8. Cardinality(Active') <= Cardinality(Active) + 1
      BY <1>0, <2>4, OneMore DEF Counted
    <2>9. /\ \A r \in Requests : req'[r].pc # "admit"
          /\ Admitting = 1 /\ Admitting' = 0 /\ OneAdmits'
      <3>1. \A r \in Requests : req'[r].pc # "admit"
        BY <1>0, <1>3, <1>5, <2>5 DEF LimitInv, OneAdmits
      <3>2. RowLocked
        BY <1>0 DEF RowLocked
      <3>3. ~RowLocked'
        BY <3>1 DEF RowLocked
      <3>. QED  BY <3>1, <3>2, <3>3 DEF Admitting, OneAdmits
    <2>10. ASSUME excess.changes = 0 PROVE SlotsBound'
      BY <1>0, <2>7, <2>8, <2>9, <2>10 DEF LimitInv, SlotsBound, Counted
    <2>11. ASSUME excess.changes = 0, acct.open
           PROVE  acct.consumed + Cardinality(Active') + Cardinality(RunTakers)
                    < RunLimit + ConcurrencyLimit + 2 * Loops + excess.runs
      <3>1. acct.plan = "free" /\ req[q].active \in Nat
        BY <1>0, <2>11 DEF LimitInv, LimitTypeOK
      <3>2. ~AtCap("free", RunsConsumed, req[q].active)
        <4>1. CASE req[q].key[1] = "manual"
          BY <1>1, <1>5, <3>1, <4>1 DEF AdmitCodes, ManualCodes
        <4>2. CASE req[q].key[1] # "manual"
          BY <1>1, <1>5, <3>1, <4>2 DEF AdmitCodes, WebhookCodes
        <4>. QED  BY <4>1, <4>2
      <3>3. RunsConsumed + req[q].active < RunLimit
        BY <1>0, <3>1, <3>2, FreePlan DEF Counted
      <3>4. acct.consumed < RunLimit /\ acct.consumed \in Nat /\ excess.runs \in Nat
        BY <1>0, <2>11, <3>1, <3>3 DEF RunsConsumed, LimitTypeOK, Counted
      <3>5. Cardinality(Active') <= ConcurrencyLimit + Loops
        BY <1>0, <2>7, <2>9, <2>10, <2>11 DEF SlotsBound, Counted
      <3>. QED  BY <1>0, <2>7, <3>4, <3>5 DEF Counted
    <2>12. excess.changes = 0 => RunsBound'
      BY <1>0, <2>7, <2>11 DEF RunsBound
    <2>. QED  BY <1>0, <2>6, <2>9, <2>10, <2>12 DEF LimitInv
  <1>. QED  BY <1>1, <1>4, <1>5

(* A run ends: the slot is free before the charge can be made, or with it.     *)
LEMMA SomeoneEnds ==
  ASSUME LimitInv, NEW k \in DOMAIN intake, RunEnds(k)
  PROVE  LimitInv'
  <1>0. /\ LimitTypeOK /\ Counted /\ UNCHANGED <<cast, req, tkr>>
        /\ intake' = [intake EXCEPT ![k].live = FALSE, ![k].blocked = FALSE]
    BY Counts DEF LimitInv, RunEnds
  <1>1. /\ DOMAIN intake' = DOMAIN intake
        /\ \A x \in DOMAIN intake' : DOMAIN intake'[x] = RunFields
        /\ Active' \subseteq Active \ {k} /\ (~intake[k].blocked => k \in Active)
    BY <1>0 DEF LimitTypeOK, Active, RunFields, RunEnds
  <1>2. \/ UNCHANGED <<acct, excess>>
        \/ ~intake[k].blocked /\ acct' = Charged /\ UNCHANGED excess
        \/ UNCHANGED acct /\ excess' = [excess EXCEPT !.owed = @ + 1]
    BY DEF RunEnds
  <1>3. /\ acct' \in [plan : DOMAIN Plan, consumed : Nat, open : BOOLEAN]
        /\ acct'.plan = acct.plan /\ acct'.open = acct.open
        /\ \/ acct'.consumed = acct.consumed
           \/ ~intake[k].blocked /\ acct'.consumed = acct.consumed + 1
    BY <1>0, <1>2 DEF Charged, LimitTypeOK
  <1>4. /\ excess' \in [runs : Nat, owed : Nat, periods : Nat, changes : Nat]
        /\ excess'.runs = excess.runs /\ excess'.changes = excess.changes
    BY <1>0, <1>2 DEF LimitTypeOK
  <1>5. LimitTypeOK'
    BY <1>0, <1>1, <1>3, <1>4 DEF LimitTypeOK
  <1>6. Counted' /\ SlotTakers' = SlotTakers /\ RunTakers' = RunTakers
    BY <1>0, <1>5, CountsNext DEF SlotTakers, RunTakers, Scheduling
  <1>7. OneAdmits' /\ Admitting' = Admitting
    BY <1>0 DEF LimitInv, OneAdmits, Admitting, RowLocked
  <1>8. /\ Cardinality(Active') <= Cardinality(Active)
        /\ ~intake[k].blocked => Cardinality(Active') <= Cardinality(Active) - 1
    BY <1>0, <1>1, OneMore DEF Counted
  <1>9. acct'.consumed + Cardinality(Active') + Cardinality(RunTakers')
          <= acct.consumed + Cardinality(Active) + Cardinality(RunTakers)
               + (excess'.runs - excess.runs)
    <2>1. acct.consumed \in Nat /\ excess.runs \in Nat
      BY <1>0 DEF LimitTypeOK
    <2>. QED  BY <1>0, <1>3, <1>4, <1>6, <1>8, <2>1 DEF Counted
  <1>10. ASSUME excess.changes = 0
         PROVE  /\ acct'.plan = "free" /\ \A u \in Tickers : tkr'[u].plan = "free"
                /\ Cardinality(Active') + Cardinality(SlotTakers') + Admitting'
                     <= ConcurrencyLimit + Loops
    <2>1. SlotsBound /\ acct.plan = "free" /\ \A u \in Tickers : tkr[u].plan = "free"
      BY <1>10 DEF LimitInv
    <2>. QED  BY <1>0, <1>3, <1>6, <1>7, <1>8, <2>1 DEF SlotsBound, Counted
  <1>11. Admitting' <= Admitting
    BY <1>0, <1>7 DEF Counted
  <1>. QED  BY <1>0, <1>3, <1>4, <1>5, <1>6, <1>7, <1>9, <1>10, <1>11, RunsMove

(* The account changes: a late charge, the end of a period and its close, the  *)
(* plan.                                                                      *)
LEMMA AccountMoves ==
  ASSUME LimitInv, \/ ChargeFollows \/ PeriodEnds \/ PeriodCloses
                   \/ \E plan \in DOMAIN Plan : ChangePlan(plan)
  PROVE  LimitInv'
  <1>0. LimitTypeOK /\ Counted /\ UNCHANGED <<cast, intake, req, tkr>>
    BY Counts DEF LimitInv, ChargeFollows, PeriodEnds, PeriodCloses, ChangePlan
  <1>1. acct' \in [plan : DOMAIN Plan, consumed : Nat, open : BOOLEAN]
    <2>1. CASE ChargeFollows
      <3>1. acct' = IF acct.open THEN [acct EXCEPT !.consumed = @ + 1] ELSE acct
        BY <2>1 DEF ChargeFollows, Charged
      <3>2. acct.consumed + 1 \in Nat
        BY <1>0 DEF LimitTypeOK
      <3>. QED  BY <1>0, <3>1, <3>2 DEF LimitTypeOK
    <2>2. CASE PeriodEnds \/ PeriodCloses
      <3>0. acct \in [plan : DOMAIN Plan, consumed : Nat, open : BOOLEAN]
        BY <1>0 DEF LimitTypeOK
      <3>1. CASE PeriodEnds
        <4>1. acct' = [acct EXCEPT !.open = FALSE]
          BY <3>1 DEF PeriodEnds
        <4>. QED  BY <3>0, <4>1
      <3>2. CASE PeriodCloses
        <4>1. acct' = [acct EXCEPT !.open = TRUE, !.consumed = 0]
          BY <3>2 DEF PeriodCloses
        <4>. QED  BY <3>0, <4>1
      <3>. QED  BY <2>2, <3>1, <3>2
    <2>3. ASSUME NEW plan \in DOMAIN Plan, ChangePlan(plan)
          PROVE  acct' \in [plan : DOMAIN Plan, consumed : Nat, open : BOOLEAN]
      BY <1>0, <2>3 DEF LimitTypeOK, ChangePlan
    <2>. QED  BY <2>1, <2>2, <2>3
  <1>2. excess' \in [runs : Nat, owed : Nat, periods : Nat, changes : Nat]
    <2>1. CASE ChargeFollows
      <3>1. PICK owed \in Nat, runs \in Nat :
              /\ owed = excess.owed - 1
              /\ runs = IF acct.open THEN excess.runs + 1 ELSE excess.runs
        BY <1>0, <2>1 DEF LimitTypeOK, ChargeFollows
      <3>2. excess' = [excess EXCEPT !.owed = owed, !.runs = runs]
        BY <2>1, <3>1 DEF ChargeFollows
      <3>. QED  BY <1>0, <3>2 DEF LimitTypeOK
    <2>2. CASE PeriodEnds \/ PeriodCloses
      BY <1>0, <2>2 DEF LimitTypeOK, PeriodEnds, PeriodCloses
    <2>3. CASE \E plan \in DOMAIN Plan : ChangePlan(plan)
      BY <1>0, <2>3 DEF LimitTypeOK, ChangePlan
    <2>. QED  BY <2>1, <2>2, <2>3
  <1>3. LimitTypeOK'
    BY <1>0, <1>1, <1>2 DEF LimitTypeOK
  <1>4. /\ Counted' /\ OneAdmits' /\ Active' = Active /\ Admitting' = Admitting
        /\ SlotTakers' = SlotTakers /\ RunTakers' = RunTakers
    BY <1>0, <1>3, CountsNext
       DEF LimitInv, OneAdmits, Active, Admitting, RowLocked, SlotTakers, RunTakers, Scheduling
  <1>5. ASSUME excess'.changes = 0
        PROVE  /\ excess.changes = 0 /\ acct'.plan = acct.plan
               /\ acct'.open => \/ acct'.consumed = 0
                               \/ /\ acct.open
                                  /\ acct'.consumed - excess'.runs
                                       = acct.consumed - excess.runs
    <2>1. CASE ChargeFollows
      BY <1>0, <1>5, <2>1 DEF LimitTypeOK, ChargeFollows, Charged
    <2>2. CASE PeriodEnds \/ PeriodCloses
      BY <1>0, <1>5, <2>2 DEF LimitTypeOK, PeriodEnds, PeriodCloses
    <2>3. ASSUME NEW plan \in DOMAIN Plan, ChangePlan(plan) PROVE FALSE
      <3>1. excess.changes \in Nat /\ excess'.changes = excess.changes + 1
        BY <1>0, <2>3 DEF LimitTypeOK, ChangePlan
      <3>. QED  BY <1>5, <3>1
    <2>. QED  BY <2>1, <2>2, <2>3
  <1>6. /\ acct.consumed \in Nat /\ excess.runs \in Nat
        /\ acct'.consumed \in Nat /\ excess'.runs \in Nat
    BY <1>0, <1>1, <1>2 DEF LimitTypeOK
  <1>7. ASSUME excess'.changes = 0
        PROVE  /\ excess.changes = 0
               /\ acct'.plan = "free" /\ \A t \in Tickers : tkr'[t].plan = "free"
               /\ Cardinality(Active') + Cardinality(SlotTakers') + Admitting'
                    <= ConcurrencyLimit + Loops
    <2>1. SlotsBound /\ acct.plan = "free" /\ \A t \in Tickers : tkr[t].plan = "free"
      BY <1>5, <1>7 DEF LimitInv
    <2>. QED  BY <1>0, <1>4, <1>5, <1>7, <2>1 DEF SlotsBound
  <1>8. ASSUME excess'.changes = 0, acct'.open
        PROVE  \/ acct'.consumed = 0
               \/ acct.open /\ acct'.consumed + Cardinality(Active') + Cardinality(RunTakers')
                               <= acct.consumed + Cardinality(Active) + Cardinality(RunTakers)
                                    + (excess'.runs - excess.runs)
    BY <1>0, <1>4, <1>5, <1>6, <1>8 DEF Counted
  <1>9. Admitting' <= Admitting
    BY <1>0, <1>4 DEF Counted
  <1>. QED  BY <1>0, <1>3, <1>4, <1>7, <1>8, <1>9, RunsMove

LEMMA LimitInitially == IntakeInit => LimitInv
  <1>. SUFFICES ASSUME IntakeInit PROVE LimitInv
    OBVIOUS
  <1>1. /\ DOMAIN req = Requests /\ DOMAIN tkr = Tickers /\ DOMAIN intake = {}
        /\ \A q \in Requests : req[q] = Idle
        /\ \A t \in Tickers : tkr[t] = Resting
        /\ acct = [plan |-> "free", consumed |-> 0, open |-> TRUE]
        /\ excess = [runs |-> 0, owed |-> 0, periods |-> 0, changes |-> 0]
    BY DEF IntakeInit, EmptyMap
  <1>2. /\ DOMAIN Idle = {"pc", "key", "active"} /\ Idle.pc = "idle" /\ Idle.active = 0
        /\ DOMAIN Resting = TkrFields /\ Resting.pc = "idle" /\ Resting.used = 0
        /\ Resting.plan = "free"
    BY DEF Idle, Resting, TkrFields
  <1>3. "free" \in DOMAIN Plan
    BY DEF Plan
  <1>4. LimitTypeOK
    BY <1>1, <1>2, <1>3, FS_EmptySet DEF LimitTypeOK
  <1>5. /\ Active = {} /\ SlotTakers = {} /\ RunTakers = {} /\ ~RowLocked
    BY <1>1, <1>2 DEF Active, SlotTakers, RunTakers, TakesSlot, TakesRun, Scheduling, RowLocked
  <1>6. Counted
    BY <1>4, Counts
  <1>. QED  BY <1>1, <1>2, <1>4, <1>5, <1>6, FS_EmptySet
            DEF LimitInv, OneAdmits, SlotsBound, RunsBound, Admitting, Counted

(* What a loop may do without changing a run. *)
LEMMA LoopSteps ==
  ASSUME LimitInv, NEW t \in Scheduling,
         \/ TickStarts(t) \/ ReadDue(t) \/ ReadConsumed(t) \/ CheckCap(t) \/ CheckSlots(t)
         \/ ComputeNext(t) \/ AdvanceTrigger(t) \/ Sweep(t) \/ RetryCounts(t)
         \/ TickEnds(t) \/ TickFails(t)
  PROVE  LimitInv'
  <1>0. /\ LimitTypeOK /\ Counted /\ t \in Tickers /\ DOMAIN tkr = Tickers
        /\ DOMAIN tkr[t] = TkrFields /\ tkr[t].used \in Nat
        /\ excess.changes = 0 => acct.plan = "free" /\ tkr[t].plan = "free"
    BY Counts DEF LimitInv, LimitTypeOK, Scheduling
  <1>1. UNCHANGED <<acct, intake, req, excess, cast>>
    BY DEF TickStarts, ReadDue, ReadConsumed, CheckCap, CheckSlots, ComputeNext,
           AdvanceTrigger, Sweep, RetryCounts, TickEnds, TickFails
  <1>2. /\ DOMAIN Resting = TkrFields /\ Resting.used = 0 /\ Resting.plan = "free"
        /\ ~TakesSlot(Resting) /\ ~TakesRun(Resting)
    BY DEF Resting, TkrFields, TakesSlot, TakesRun
  <1>3. ASSUME NEW new, tkr' = [tkr EXCEPT ![t] = new], DOMAIN new = TkrFields,
               new.used = tkr[t].used, new.plan = tkr[t].plan, ~TakesSlot(new), ~TakesRun(new)
        PROVE  LimitInv'
    BY <1>0, <1>1, <1>3, LoopMoves
  <1>4. ASSUME NEW pc \in {"due", "sweep"}, Goes(t, pc) PROVE LimitInv'
    <2>1. PICK new : new = [tkr[t] EXCEPT !.pc = pc]
      OBVIOUS
    <2>2. /\ tkr' = [tkr EXCEPT ![t] = new] /\ DOMAIN new = TkrFields /\ new.pc = pc
          /\ new.used = tkr[t].used /\ new.plan = tkr[t].plan
      BY <1>0, <1>4, <2>1 DEF Goes, TkrFields
    <2>. QED  BY <1>3, <2>2 DEF TakesSlot, TakesRun
  <1>5. CASE TickStarts(t) \/ AdvanceTrigger(t)
    BY <1>4, <1>5 DEF TickStarts, AdvanceTrigger
  <1>6. CASE ReadDue(t)
    <2>1. CASE trigger <= now
      <3>1. PICK next \in {"advance", IF hasHardRunCap(acct.plan) THEN "consumed" ELSE "slots"} :
              tkr' = [tkr EXCEPT ![t].pc = next, ![t].due = trigger, ![t].plan = acct.plan]
        BY <1>6, <2>1 DEF ReadDue
      <3>2. PICK due, plan : due = trigger /\ plan = acct.plan
        OBVIOUS
      <3>7. PICK new : new = [tkr[t] EXCEPT !.pc = next, !.due = due, !.plan = plan]
        OBVIOUS
      <3>8. tkr' = [tkr EXCEPT ![t] = new]
        BY <1>0, <3>1, <3>2, <3>7
      <3>9. /\ DOMAIN new = TkrFields /\ new.pc = next
            /\ new.used = tkr[t].used /\ new.plan = plan
        BY <1>0, <3>7 DEF TkrFields
      <3>3. /\ tkr' = [tkr EXCEPT ![t] = new] /\ DOMAIN new = TkrFields /\ new.pc = next
            /\ new.used = tkr[t].used /\ new.plan = acct.plan
        BY <3>2, <3>8, <3>9
      <3>4. hasHardRunCap("free")
        BY DEF hasHardRunCap, Plan
      <3>5. excess.changes = 0 => next \in {"advance", "consumed"}
        BY <1>0, <3>1, <3>4
      <3>6. excess.changes = 0 => ~TakesSlot(new) /\ ~TakesRun(new)
        BY <3>3, <3>5 DEF TakesSlot, TakesRun
      <3>. QED  BY <1>0, <1>1, <3>3, <3>6, LoopMoves
    <2>. QED  BY <1>4, <1>6, <2>1 DEF ReadDue
  <1>7. CASE ReadConsumed(t)
    <2>1. PICK used \in Nat : used = RunsConsumed
      BY <1>0 DEF Counted
    <2>2. PICK new : new = [tkr[t] EXCEPT !.pc = "cap", !.used = used]
      OBVIOUS
    <2>3. /\ tkr' = [tkr EXCEPT ![t] = new] /\ DOMAIN new = TkrFields /\ new.pc = "cap"
          /\ new.used = used /\ new.plan = tkr[t].plan
      BY <1>0, <1>7, <2>1, <2>2 DEF ReadConsumed, TkrFields
    <2>4. ~TakesSlot(new) /\ (TakesRun(new) => RunsConsumed < RunLimit)
      BY <2>1, <2>3 DEF TakesSlot, TakesRun
    <2>. QED  BY <1>0, <1>1, <2>3, <2>4, LoopMoves
  <1>8. CASE CheckCap(t)
    <2>1. PICK pc \in {"advance", "slots"} :
            pc = IF AtCap(tkr[t].plan, tkr[t].used, ActiveCount) THEN "advance" ELSE "slots"
      <3>1. CASE AtCap(tkr[t].plan, tkr[t].used, ActiveCount)
        BY <3>1
      <3>2. CASE ~AtCap(tkr[t].plan, tkr[t].used, ActiveCount)
        BY <3>2
      <3>. QED  BY <3>1, <3>2
    <2>2. PICK new : new = [tkr[t] EXCEPT !.pc = pc]
      OBVIOUS
    <2>6. tkr' = [tkr EXCEPT ![t].pc = pc] /\ tkr[t].pc = "cap"
      BY <1>8, <2>1 DEF CheckCap, Goes
    <2>3. /\ tkr' = [tkr EXCEPT ![t] = new] /\ DOMAIN new = TkrFields /\ new.pc = pc
          /\ new.used = tkr[t].used /\ new.plan = tkr[t].plan /\ tkr[t].pc = "cap"
      BY <1>0, <2>2, <2>6 DEF TkrFields
    <2>4. ~TakesSlot(new)
      BY <2>1, <2>3 DEF TakesSlot
    <2>5. ASSUME excess.changes = 0, TakesRun(new) PROVE TakesRun(tkr[t])
      <3>1. pc = "slots"
        BY <2>1, <2>3, <2>5 DEF TakesRun
      <3>2. ~AtCap("free", tkr[t].used, ActiveCount)
        BY <1>0, <2>1, <2>5, <3>1
      <3>5. tkr[t].used \in Nat /\ ActiveCount \in Nat /\ RunLimit \in Nat
        BY <1>0 DEF Counted
      <3>6. ~(tkr[t].used + ActiveCount >= RunLimit)
        BY <3>2, <3>5, FreePlan
      <3>3. tkr[t].used + ActiveCount < RunLimit /\ ActiveCount \in Nat
        BY <3>5, <3>6
      <3>4. tkr[t].used < RunLimit
        BY <1>0, <3>3 DEF Counted
      <3>. QED  BY <2>3, <3>4 DEF TakesRun
    <2>. QED  BY <1>0, <1>1, <2>3, <2>4, <2>5, LoopMoves
  <1>9. CASE CheckSlots(t)
    <2>1. PICK blocked \in BOOLEAN : blocked = SlotsTaken(tkr[t].plan, ActiveCount)
      BY DEF SlotsTaken
    <2>2. PICK new : new = [tkr[t] EXCEPT !.pc = "insert", !.used = 0, !.blocked = blocked]
      OBVIOUS
    <2>3. tkr' = [tkr EXCEPT ![t] = new]
      BY <1>0, <1>9, <2>1, <2>2 DEF CheckSlots
    <2>4. /\ DOMAIN new = TkrFields /\ new.pc = "insert" /\ new.used = 0
          /\ (new.blocked <=> blocked) /\ new.plan = tkr[t].plan
      BY <1>0, <2>2 DEF TkrFields
    <2>5. TakesRun(tkr[t])
      BY <1>9 DEF CheckSlots, TakesRun
    <2>6. ASSUME excess.changes = 0, TakesSlot(new) PROVE ActiveCount < ConcurrencyLimit
      <3>1. ~SlotsTaken("free", ActiveCount)
        BY <1>0, <2>1, <2>4, <2>6 DEF TakesSlot
      <3>. QED  BY <1>0, <3>1, FreePlan DEF Counted
    <2>7. new.used \in Nat
      BY <2>4
    <2>. QED  BY <1>0, <1>1, <2>3, <2>4, <2>5, <2>6, <2>7, LoopMoves
  <1>10. CASE ComputeNext(t)
    <2>1. PICK new : new = [Resting EXCEPT !.pc = "write", !.due = now + 1]
      OBVIOUS
    <2>2. /\ DOMAIN new = TkrFields /\ new.pc = "write" /\ new.used = 0 /\ new.plan = "free"
      BY <2>1 DEF Resting, TkrFields
    <2>3. tkr' = [tkr EXCEPT ![t] = new] /\ ~TakesSlot(new) /\ ~TakesRun(new)
      BY <1>10, <2>1, <2>2 DEF ComputeNext, TakesSlot, TakesRun
    <2>4. new.used \in Nat
      BY <2>2
    <2>. QED  BY <1>1, <2>2, <2>3, <2>4, LoopMoves
  <1>11. CASE Sweep(t)
    <2>1. PICK todo : tkr' = [tkr EXCEPT ![t].pc = "retry", ![t].due = 0, ![t].todo = todo]
      <3>. DEFINE listed == {k \in DOMAIN intake : intake[k].live /\ intake[k].blocked}
      <3>1. tkr' = [tkr EXCEPT ![t].pc = "retry", ![t].due = 0, ![t].todo = listed]
        BY <1>11 DEF Sweep
      <3>. HIDE DEF listed
      <3>. QED  BY <3>1
    <2>2. PICK new : new = [tkr[t] EXCEPT !.pc = "retry", !.due = 0, !.todo = todo]
      OBVIOUS
    <2>3. /\ tkr' = [tkr EXCEPT ![t] = new] /\ DOMAIN new = TkrFields /\ new.pc = "retry"
          /\ new.used = tkr[t].used /\ new.plan = tkr[t].plan
      BY <1>0, <2>1, <2>2 DEF TkrFields
    <2>. QED  BY <1>3, <2>3 DEF TakesSlot, TakesRun
  <1>12. CASE RetryCounts(t)
    <2>1. PICK k : k = Oldest(tkr[t].todo)
      OBVIOUS
    <2>4. PICK due, todo : due = k[2] /\ todo = tkr[t].todo \ {k}
      OBVIOUS
    <2>2. CASE Plan[acct.plan].limited /\ ~SlotsTaken(acct.plan, ActiveCount)
      <3>5. tkr' = [tkr EXCEPT ![t].pc = "promote", ![t].due = due, ![t].todo = todo]
        BY <1>0, <1>12, <2>1, <2>2, <2>4 DEF RetryCounts
      <3>1. PICK new : new = [tkr[t] EXCEPT !.pc = "promote", !.due = due, !.todo = todo]
        OBVIOUS
      <3>2. /\ tkr' = [tkr EXCEPT ![t] = new] /\ DOMAIN new = TkrFields /\ new.pc = "promote"
            /\ new.used = tkr[t].used /\ new.plan = tkr[t].plan
        BY <1>0, <3>1, <3>5 DEF TkrFields
      <3>3. excess.changes = 0 => ActiveCount < ConcurrencyLimit
        BY <1>0, <2>2, FreePlan DEF Counted
      <3>4. ~TakesRun(new)
        BY <3>2 DEF TakesRun
      <3>. QED  BY <1>0, <1>1, <3>2, <3>3, <3>4, LoopMoves
    <2>3. CASE ~(Plan[acct.plan].limited /\ ~SlotsTaken(acct.plan, ActiveCount))
      <3>5. tkr' = [tkr EXCEPT ![t].todo = todo] /\ tkr[t].pc = "retry"
        BY <1>0, <1>12, <2>1, <2>3, <2>4 DEF RetryCounts
      <3>1. PICK new : new = [tkr[t] EXCEPT !.todo = todo]
        OBVIOUS
      <3>2. /\ tkr' = [tkr EXCEPT ![t] = new] /\ DOMAIN new = TkrFields /\ new.pc = "retry"
            /\ new.used = tkr[t].used /\ new.plan = tkr[t].plan
        BY <1>0, <3>1, <3>5 DEF TkrFields
      <3>. QED  BY <1>3, <3>2 DEF TakesSlot, TakesRun
    <2>. QED  BY <2>2, <2>3
  <1>13. CASE TickEnds(t) \/ TickFails(t)
    <2>1. tkr' = [tkr EXCEPT ![t] = Resting]
      BY <1>13 DEF TickEnds, TickFails
    <2>2. PICK new : new = Resting
      OBVIOUS
    <2>3. new.used \in Nat
      BY <1>2, <2>2
    <2>. QED  BY <1>1, <1>2, <2>1, <2>2, <2>3, LoopMoves
  <1>. QED  BY <1>5, <1>6, <1>7, <1>8, <1>9, <1>10, <1>11, <1>12, <1>13

LEMMA LimitStep == LimitInv /\ [IntakeNext]_intakeVars => LimitInv'
  <1>. SUFFICES ASSUME LimitInv, [IntakeNext]_intakeVars PROVE LimitInv'
    OBVIOUS
  <1>0. LimitTypeOK /\ Counted
    BY Counts DEF LimitInv
  <1>1. ASSUME UNCHANGED <<acct, intake, cast, req, tkr, excess>> PROVE LimitInv'
    <2>1. LimitTypeOK'
      BY <1>0, <1>1 DEF LimitTypeOK
    <2>2. /\ Active' = Active /\ SlotTakers' = SlotTakers /\ RunTakers' = RunTakers
          /\ Loops' = Loops /\ Admitting' = Admitting /\ OneAdmits'
      BY <1>1 DEF LimitInv, Active, SlotTakers, RunTakers, Scheduling, Loops, Admitting,
                  RowLocked, OneAdmits
    <2>. QED  BY <1>1, <2>1, <2>2 DEF LimitInv, SlotsBound, RunsBound
  <1>2. ASSUME NEW q \in Requests \cap cast, Calls(q) PROVE LimitInv'
    <2>0. /\ q \in Requests /\ DOMAIN req = Requests
          /\ DOMAIN req[q] = {"pc", "key", "active"} /\ req[q].active \in Nat
      BY <1>0, <1>2 DEF LimitTypeOK
    <2>1. CASE ManualTrigger(q)
      <3>1. PICK next, key :
              /\ next \in {"refused", "lock"} /\ key = <<"manual", now>>
              /\ req' = [req EXCEPT ![q].pc = next, ![q].key = key]
        BY <2>1 DEF ManualTrigger
      <3>2. PICK new : new = [req[q] EXCEPT !.pc = next, !.key = key]
        OBVIOUS
      <3>3. /\ req' = [req EXCEPT ![q] = new] /\ DOMAIN new = {"pc", "key", "active"}
            /\ new.active \in Nat /\ new.pc # "admit"
        BY <2>0, <3>1, <3>2
      <3>4. UNCHANGED <<acct, intake, tkr, excess, cast>>
        BY <2>1 DEF ManualTrigger
      <3>. QED  BY <2>0, <3>3, <3>4, CallCounts
    <2>2. ASSUME NEW p \in Payloads, Delivery(q, p) PROVE LimitInv'
      <3>1. PICK next, key :
              /\ next \in {"refused", "lock"} /\ key = <<"hook", p>>
              /\ req' = [req EXCEPT ![q] = [pc |-> next, key |-> key, active |-> 0]]
        BY <2>2 DEF Delivery
      <3>2. PICK new : new = [pc |-> next, key |-> key, active |-> 0]
        OBVIOUS
      <3>3. /\ req' = [req EXCEPT ![q] = new] /\ DOMAIN new = {"pc", "key", "active"}
            /\ new.active \in Nat /\ new.pc # "admit"
        BY <3>1, <3>2
      <3>4. UNCHANGED <<acct, intake, tkr, excess, cast>>
        BY <2>2 DEF Delivery
      <3>. QED  BY <2>0, <3>3, <3>4, CallCounts
    <2>3. CASE CountActive(q)
      <3>0. UNCHANGED <<acct, intake, tkr, excess, cast>> /\ ~RowLocked
        BY <2>3 DEF CountActive
      <3>1. CASE SlotsTaken(acct.plan, ActiveCount)
        <4>1. PICK new : new = [req[q] EXCEPT !.pc = "refused"]
          OBVIOUS
        <4>2. /\ req' = [req EXCEPT ![q] = new] /\ DOMAIN new = {"pc", "key", "active"}
              /\ new.active \in Nat /\ new.pc # "admit"
          BY <2>0, <2>3, <3>1, <4>1 DEF CountActive, Answer
        <4>. QED  BY <2>0, <3>0, <4>2, CallCounts
      <3>2. CASE ~SlotsTaken(acct.plan, ActiveCount)
        <4>0. PICK active \in Nat : active = ActiveCount
          BY <1>0 DEF Counted
        <4>1. PICK new : new = [req[q] EXCEPT !.pc = "admit", !.active = active]
          OBVIOUS
        <4>2. /\ req' = [req EXCEPT ![q] = new] /\ DOMAIN new = {"pc", "key", "active"}
              /\ new.active \in Nat
          BY <2>0, <2>3, <3>2, <4>0, <4>1 DEF CountActive
        <4>3. ASSUME excess.changes = 0 PROVE ActiveCount < ConcurrencyLimit
          <5>1. ~SlotsTaken("free", ActiveCount)
            BY <3>2, <4>3 DEF LimitInv
          <5>. QED  BY <1>0, <5>1, FreePlan DEF Counted
        <4>. QED  BY <2>0, <3>0, <4>2, <4>3, CallCounts
      <3>. QED  BY <3>1, <3>2
    <2>4. CASE Admit(q)
      BY <2>0, <2>4, CallAdmits
    <2>. QED  BY <1>2, <2>1, <2>2, <2>3, <2>4 DEF Calls
  <1>3. ASSUME NEW t \in Tickers \cap cast, Ticks(t) PROVE LimitInv'
    <2>1. t \in Scheduling
      BY DEF Scheduling
    <2>2. CASE InsertScheduled(t)
      BY <2>1, <2>2, SomeoneInserts
    <2>3. CASE Promote(t)
      BY <2>1, <2>3, SomeonePromotes
    <2>4. CASE ~InsertScheduled(t) /\ ~Promote(t)
      BY <1>3, <2>1, <2>4, LoopSteps DEF Ticks
    <2>. QED  BY <2>2, <2>3, <2>4
  <1>4. CASE Around
    <2>1. CASE TickLockExpires \/ InstantPasses
      BY <1>1, <2>1 DEF TickLockExpires, InstantPasses
    <2>2. ASSUME NEW k \in DOMAIN intake, RunEnds(k) PROVE LimitInv'
      BY <2>2, SomeoneEnds
    <2>3. CASE \/ ChargeFollows \/ PeriodEnds \/ PeriodCloses
               \/ \E plan \in DOMAIN Plan : ChangePlan(plan)
      BY <2>3, AccountMoves
    <2>. QED  BY <1>4, <2>1, <2>2, <2>3 DEF Around
  <1>5. CASE UNCHANGED intakeVars
    BY <1>1, <1>5 DEF intakeVars
  <1>. QED  BY <1>2, <1>3, <1>4, <1>5 DEF IntakeNext

(* However the calls, the scheduler loops, the ends of runs, the late charges  *)
(* and the periods interleave, a workspace that stayed on the Free plan has at *)
(* most one active run per loop over its concurrency limit, and what it ran in *)
(* a period passes its cap only by the runs that were active then, the loops'  *)
(* inserts and what the excess counts.                                        *)
THEOREM OvershootStaysBounded == IntakeSpec => []OvershootBounded
  <1>1. LimitInv => OvershootBounded
    <2>. SUFFICES ASSUME LimitInv, excess.changes = 0
                  PROVE  /\ ActiveCount <= ConcurrencyLimit + Loops
                         /\ acct.open => acct.consumed + ActiveCount
                              < RunLimit + ConcurrencyLimit + 2 * Loops + excess.runs
      BY DEF OvershootBounded
    <2>1. LimitTypeOK /\ Counted /\ SlotsBound /\ RunsBound
      BY Counts DEF LimitInv
    <2>2. acct.consumed \in Nat /\ excess.runs \in Nat
      BY <2>1 DEF LimitTypeOK
    <2>. QED  BY <2>1, <2>2 DEF SlotsBound, RunsBound, Counted
  <1>. QED  BY <1>1, LimitInitially, LimitStep, PTL DEF IntakeSpec

----------------------------------------------------------------------------
(* A promotion takes effect *)

(* Tables are lists, their rows have the columns they have. *)
IsList(s) == \E n \in Nat : s = [i \in 1 .. n |-> s[i]]
EditFields == {"pc", "w", "v", "m", "slug", "old", "put", "i", "row", "todo", "for"}
WfFields == {"slug", "on", "cur", "versions", "flags"}
TrigFields == {"w", "type", "path", "on", "typed"}

WfOK(W) ==
  IsList(W) /\ \A w \in DOMAIN W : DOMAIN W[w] = WfFields /\ W[w].versions \in Seq(Drafts)
TrigOK(T) == IsList(T) /\ \A r \in DOMAIN T : DOMAIN T[r] = TrigFields

(* What a request is to store as a version is a valid manifest. *)
Storing == {"insert workflow", "first version", "number", "draft"}
EditOK(e) == DOMAIN e = EditFields /\ (e.pc \in Storing => e.m \in Drafts)

Wanted(x, m, slug) ==
  /\ x.type \in DesiredTypes(m)
  /\ x.type # "webhook" \/ x.path \in DesiredPaths(m, slug)
Fits(x, t, slug) == x.type = t.type /\ x.path = PathOf(t, slug)

(* reconcileTriggers so far: an enabled trigger of the workflow is declared or   *)
(* going to be disabled, and each declaration written has an enabled trigger.  *)
MatchPlaces == {"match", "check path", "insert", "write"}
Matched(e, T) ==
  /\ e.i \in 1 .. Len(e.m.triggers) + 1 /\ (e.todo = {} \/ e.i = 1)
  /\ \A r \in DOMAIN T : T[r].w = e.w /\ T[r].on = TRUE => r \in e.todo \/ Wanted(T[r], e.m, e.slug)
  /\ \A k \in 1 .. e.i - 1 : \E r \in DOMAIN T :
       T[r].w = e.w /\ T[r].on = TRUE /\ Fits(T[r], e.m.triggers[k], e.slug)
  /\ e.pc # "match" => e.todo = {} /\ e.i <= Len(e.m.triggers)
  /\ e.pc = "write" =>
       e.row \in DOMAIN T /\ T[e.row].w = e.w /\ Fits(T[e.row], e.m.triggers[e.i], e.slug)

(* A promotion in flight: what it has written of the two records so far. *)
Promoting(e, W, T) ==
  /\ e.pc \in {"clear", "flag", "point", "reconcile"} \cup MatchPlaces
  /\ e.w \in DOMAIN W /\ e.m \in Drafts /\ e.slug = W[e.w].slug
  /\ e.pc = "flag" => W[e.w].flags = {}
  /\ e.pc \in {"point", "reconcile"} \cup MatchPlaces => W[e.w].flags = {e.v}
  /\ e.pc \in {"reconcile"} \cup MatchPlaces => W[e.w].cur = e.v
  /\ e.pc \in MatchPlaces => Matched(e, T)

CatalogInv ==
  /\ WfOK(wf) /\ TrigOK(trig)
  /\ DOMAIN edit = Editors
  /\ \A h \in Editors : EditOK(edit[h]) /\ (edit[h].for = "promote" => Promoting(edit[h], wf, trig))

LEMMA ListGrows ==
  ASSUME NEW s, IsList(s), NEW x
  PROVE  /\ IsList(Append(s, x)) /\ DOMAIN Append(s, x) = DOMAIN s \cup {Len(s) + 1}
         /\ Append(s, x)[Len(s) + 1] = x /\ Len(s) + 1 \notin DOMAIN s
         /\ \A i \in DOMAIN s : Append(s, x)[i] = s[i]
  <1>1. PICK n \in Nat : s = [i \in 1 .. n |-> s[i]]
    BY DEF IsList
  <1>2. PICK S : S = {s[i] : i \in 1 .. n} \cup {x}
    OBVIOUS
  <1>3. s \in Seq(S) /\ Len(s) = n /\ DOMAIN s = 1 .. n
    <2>1. s \in [1 .. n -> S]
      BY <1>1, <1>2
    <2>. QED  BY <2>1
  <1>4. PICK z : z = Append(s, x)
    OBVIOUS
  <1>5. z \in Seq(S) /\ Len(z) = n + 1 /\ z[n + 1] = x /\ \A i \in 1 .. n : z[i] = s[i]
    <2>1. x \in S
      BY <1>2
    <2>2. z \in Seq(S) /\ Len(z) = n + 1
      BY <1>3, <1>4, <2>1
    <2>3. \A i \in 1 .. n + 1 : z[i] = IF i = n + 1 THEN x ELSE s[i]
      BY <1>3, <1>4, <2>1
    <2>4. n + 1 \in 1 .. n + 1 /\ \A i \in 1 .. n : i \in 1 .. n + 1 /\ i # n + 1
      OBVIOUS
    <2>5. z[n + 1] = x
      BY <2>3, <2>4
    <2>6. \A i \in 1 .. n : z[i] = s[i]
      BY <2>3, <2>4
    <2>. QED  BY <2>2, <2>5, <2>6
  <1>6. DOMAIN z = 1 .. n + 1 /\ z = [i \in 1 .. n + 1 |-> z[i]]
    BY <1>5
  <1>7. IsList(z)
    <2>1. n + 1 \in Nat
      OBVIOUS
    <2>. QED  BY <1>6, <2>1 DEF IsList
  <1>8. DOMAIN z = DOMAIN s \cup {n + 1} /\ n + 1 \notin DOMAIN s
    BY <1>3, <1>6
  <1>9. Len(s) + 1 = n + 1
    BY <1>3
  <1>. QED  BY <1>3, <1>4, <1>5, <1>7, <1>8, <1>9

LEMMA ListKeeps ==
  ASSUME NEW s, IsList(s), NEW z, DOMAIN z = DOMAIN s, z = [i \in DOMAIN z |-> z[i]]
  PROVE  IsList(z)
  <1>1. PICK n \in Nat : s = [i \in 1 .. n |-> s[i]]
    BY DEF IsList
  <1>2. DOMAIN z = 1 .. n
    BY <1>1
  <1>. QED  BY <1>1, <1>2 DEF IsList

(* The step of a request, by what it leaves to do. *)
LEMMA EditGoes ==
  ASSUME CatalogInv, \A g, k \in Editors : g = k, NEW h \in Editors, NEW e,
         edit' = [edit EXCEPT ![h] = e], EditOK(e), WfOK(wf'), TrigOK(trig'),
         e.for = "promote" => Promoting(e, wf', trig')
  PROVE  CatalogInv'
  <1>1. DOMAIN edit' = Editors /\ edit'[h] = e
    BY DEF CatalogInv
  <1>2. \A k \in Editors : edit'[k] = e
    BY <1>1
  <1>. QED  BY <1>1, <1>2 DEF CatalogInv

LEMMA BeginsOK ==
  /\ EditOK(NoEdit) /\ NoEdit.for = "nobody"
  <1>1. PICK e : e = NoEdit
    OBVIOUS
  <1>2. DOMAIN e = EditFields /\ e.pc = "idle" /\ e.for = "nobody"
    BY <1>1 DEF NoEdit, EditFields
  <1>. QED  BY <1>1, <1>2 DEF EditOK, Storing

(* A request that is through, refused, or dies. *)
LEMMA Stops ==
  ASSUME CatalogInv, \A g, k \in Editors : g = k, NEW h \in Editors,
         Stop(h), WfOK(wf'), TrigOK(trig')
  PROVE  CatalogInv'
  BY EditGoes, BeginsOK DEF Stop

(* A request that is no promotion goes to another place, or one begins. *)
LEMMA Elsewhere ==
  ASSUME CatalogInv, NEW h \in Editors,
         edit[h].pc \notin {"clear", "flag", "point", "reconcile"} \cup MatchPlaces
  PROVE  edit[h].for # "promote"
  BY DEF CatalogInv, Promoting

LEMMA CreateKept ==
  ASSUME CatalogInv, \A g, k \in Editors : g = k, NEW h \in Editors,
         \/ \E name \in WorkflowNames, m \in Drafts : AskCreate(h, name, m)
         \/ InsertWorkflow(h) \/ InsertFirstVersion(h)
  PROVE  CatalogInv'
  <1>0. WfOK(wf) /\ TrigOK(trig) /\ EditOK(edit[h])
    BY DEF CatalogInv
  <1>1. ASSUME NEW name \in WorkflowNames, NEW m \in Drafts, AskCreate(h, name, m) PROVE CatalogInv'
    <2>1. PICK sl, e : /\ e = [NoEdit EXCEPT !.pc = "insert workflow", !.m = m, !.slug = sl,
                                           !.for = "create"]
                       /\ edit' = [edit EXCEPT ![h] = e]
      BY <1>1 DEF AskCreate
    <2>2. DOMAIN e = EditFields /\ e.m = m /\ e.for = "create"
      BY <2>1 DEF NoEdit, EditFields
    <2>3. WfOK(wf') /\ TrigOK(trig')
      BY <1>0, <1>1 DEF AskCreate, OnlyEdit
    <2>. QED  BY <2>1, <2>2, <2>3, EditGoes DEF EditOK
  <1>2. CASE InsertWorkflow(h)
    <2>1. TrigOK(trig') /\ edit[h].m \in Drafts /\ edit[h].for # "promote"
      BY <1>0, <1>2, Elsewhere DEF InsertWorkflow, EditAt, EditOK, Storing, MatchPlaces
    <2>2. CASE Stop(h) /\ UNCHANGED wf
      BY <1>0, <2>1, <2>2, Stops
    <2>3. CASE ~(Stop(h) /\ UNCHANGED wf)
      <3>1. PICK x : /\ x = [slug |-> edit[h].slug, on |-> TRUE, cur |-> 0, versions |-> <<>>, flags |-> {}]
                     /\ wf' = Append(wf, x)
        BY <1>2, <2>3 DEF InsertWorkflow
      <3>2. DOMAIN x = WfFields /\ x.versions \in Seq(Drafts)
        BY <3>1 DEF WfFields
      <3>3. WfOK(wf')
        <4>1. \A w \in DOMAIN wf' : (w \in DOMAIN wf /\ wf'[w] = wf[w]) \/ wf'[w] = x
          BY <1>0, <3>1, ListGrows DEF WfOK
        <4>2. IsList(wf')
          BY <1>0, <3>1, ListGrows DEF WfOK
        <4>. QED  BY <1>0, <3>2, <4>1, <4>2 DEF WfOK
      <3>4. PICK n, e : /\ e = [edit[h] EXCEPT !.pc = "first version", !.w = n, !.v = 1]
                        /\ edit' = [edit EXCEPT ![h] = e]
        BY <1>2, <2>3 DEF InsertWorkflow
      <3>5. DOMAIN e = EditFields /\ e.m = edit[h].m /\ e.for = edit[h].for
        BY <1>0, <3>4 DEF EditOK, EditFields
      <3>. QED  BY <2>1, <3>3, <3>4, <3>5, EditGoes DEF EditOK
    <2>. QED  BY <2>2, <2>3
  <1>3. CASE InsertFirstVersion(h)
    <2>1. TrigOK(trig') /\ edit[h].m \in Drafts /\ edit[h].for # "promote"
      BY <1>0, <1>3, Elsewhere DEF InsertFirstVersion, EditAt, EditOK, Storing, MatchPlaces
    <2>2. PICK s, x : /\ s = <<edit[h].m>> /\ x = [wf[edit[h].w] EXCEPT !.versions = s, !.flags = {1}]
      OBVIOUS
    <2>3. wf' = [wf EXCEPT ![edit[h].w] = x]
      BY <1>3, <2>2 DEF InsertFirstVersion
    <2>4. s \in Seq(Drafts)
      BY <2>1, <2>2
    <2>5. edit[h].w \in DOMAIN wf => DOMAIN x = WfFields /\ x.versions = s
      BY <1>0, <2>2 DEF WfOK, WfFields
    <2>6. WfOK(wf')
      <3>1. DOMAIN wf' = DOMAIN wf /\ wf' = [i \in DOMAIN wf' |-> wf'[i]]
        BY <2>3
      <3>2. IsList(wf')
        BY <1>0, <3>1, ListKeeps DEF WfOK
      <3>. QED  BY <1>0, <2>3, <2>4, <2>5, <3>1, <3>2 DEF WfOK
    <2>7. PICK e : e = [edit[h] EXCEPT !.pc = "point"] /\ edit' = [edit EXCEPT ![h] = e]
      BY <1>3 DEF InsertFirstVersion, To
    <2>8. DOMAIN e = EditFields /\ e.m = edit[h].m /\ e.for = edit[h].for
      BY <1>0, <2>7 DEF EditOK, EditFields
    <2>. QED  BY <2>1, <2>6, <2>7, <2>8, EditGoes DEF EditOK
  <1>. QED  BY <1>1, <1>2, <1>3

(* One column of one workflow, or of one trigger, is written. *)
LEMMA WorkflowWritten ==
  ASSUME WfOK(wf), NEW w, NEW x, wf' = [wf EXCEPT ![w] = x],
         w \in DOMAIN wf => DOMAIN x = WfFields /\ x.versions \in Seq(Drafts)
  PROVE  WfOK(wf')
  <1>1. DOMAIN wf' = DOMAIN wf /\ wf' = [i \in DOMAIN wf' |-> wf'[i]]
    OBVIOUS
  <1>2. IsList(wf')
    BY <1>1, ListKeeps DEF WfOK
  <1>3. \A i \in DOMAIN wf : wf'[i] = wf[i] \/ (i = w /\ wf'[i] = x)
    OBVIOUS
  <1>. QED  BY <1>1, <1>2, <1>3 DEF WfOK

LEMMA TriggerWritten ==
  ASSUME TrigOK(trig), NEW r, NEW x, trig' = [trig EXCEPT ![r] = x],
         r \in DOMAIN trig => DOMAIN x = TrigFields
  PROVE  TrigOK(trig')
  <1>1. DOMAIN trig' = DOMAIN trig /\ trig' = [i \in DOMAIN trig' |-> trig'[i]]
    OBVIOUS
  <1>2. IsList(trig')
    BY <1>1, ListKeeps DEF TrigOK
  <1>3. \A i \in DOMAIN trig : trig'[i] = trig[i] \/ (i = r /\ trig'[i] = x)
    OBVIOUS
  <1>. QED  BY <1>1, <1>2, <1>3 DEF TrigOK

(* To(h, pc) changes where the request is and nothing else of it. *)
Moved(d, e, place) ==
  /\ e.pc = place /\ e.w = d.w /\ e.v = d.v /\ e.m = d.m /\ e.slug = d.slug
  /\ e.i = d.i /\ e.row = d.row /\ e.todo = d.todo /\ e.for = d.for

LEMMA RequestMoves ==
  ASSUME CatalogInv, NEW h \in Editors, NEW place, To(h, place), place \notin Storing
  PROVE  \E e : edit' = [edit EXCEPT ![h] = e] /\ EditOK(e) /\ Moved(edit[h], e, place)
  <1>1. PICK e : e = [edit[h] EXCEPT !.pc = place]
    OBVIOUS
  <1>2. edit' = [edit EXCEPT ![h] = e]
    BY <1>1 DEF To
  <1>3. DOMAIN edit[h] = EditFields
    BY DEF CatalogInv, EditOK
  <1>4. DOMAIN e = EditFields /\ e.pc = place /\ Moved(edit[h], e, place)
    BY <1>1, <1>3 DEF EditFields, Moved
  <1>. QED  BY <1>2, <1>4 DEF EditOK

(* The rows of the two tables that a promotion looks at. *)
LEMMA PromoteKept ==
  ASSUME CatalogInv, \A g, k \in Editors : g = k, NEW h \in Editors,
         \/ \E w \in DOMAIN wf : \E v \in DOMAIN wf[w].versions : AskPromote(h, w, v)
         \/ ClearCurrent(h) \/ FlagCurrent(h) \/ PointAtVersion(h)
  PROVE  CatalogInv'
  <1>0. /\ WfOK(wf) /\ TrigOK(trig) /\ EditOK(edit[h])
        /\ edit[h].for = "promote" => Promoting(edit[h], wf, trig)
    BY DEF CatalogInv
  <1>1. ASSUME NEW w \in DOMAIN wf, NEW v \in DOMAIN wf[w].versions, AskPromote(h, w, v) PROVE CatalogInv'
    <2>1. PICK m, sl, e : /\ m = wf[w].versions[v] /\ sl = wf[w].slug
                          /\ e = [NoEdit EXCEPT !.pc = "clear", !.w = w, !.v = v, !.m = m, !.slug = sl,
                                                !.for = "promote"]
                          /\ edit' = [edit EXCEPT ![h] = e]
      BY <1>1 DEF AskPromote
    <2>2. /\ DOMAIN e = EditFields /\ e.pc = "clear" /\ e.m = m /\ e.for = "promote" /\ e.w = w
          /\ e.slug = sl
      BY <2>1 DEF NoEdit, EditFields
    <2>3. wf' = wf /\ trig' = trig
      BY <1>1 DEF AskPromote, OnlyEdit
    <2>4. m \in Drafts
      <3>1. wf[w].versions \in Seq(Drafts)
        BY <1>0 DEF WfOK
      <3>. QED  BY <2>1, <3>1
    <2>5. Promoting(e, wf', trig')
      BY <2>1, <2>2, <2>3, <2>4 DEF Promoting, MatchPlaces
    <2>6. EditOK(e)
      BY <2>2 DEF EditOK, Storing
    <2>. QED  BY <1>0, <2>1, <2>3, <2>5, <2>6, EditGoes
  <1>2. CASE ClearCurrent(h)
    <2>1. PICK x : x = [wf[edit[h].w] EXCEPT !.flags = {}] /\ wf' = [wf EXCEPT ![edit[h].w] = x]
      BY <1>2 DEF ClearCurrent
    <2>2. edit[h].w \in DOMAIN wf =>
            /\ DOMAIN x = WfFields /\ x.versions = wf[edit[h].w].versions /\ x.flags = {}
            /\ x.slug = wf[edit[h].w].slug
      BY <1>0, <2>1 DEF WfOK, WfFields
    <2>3. WfOK(wf') /\ TrigOK(trig')
      <3>1. edit[h].w \in DOMAIN wf => x.versions \in Seq(Drafts)
        BY <1>0, <2>2 DEF WfOK
      <3>2. WfOK(wf')
        BY <1>0, <2>1, <2>2, <3>1, WorkflowWritten
      <3>. QED  BY <1>0, <1>2, <3>2 DEF ClearCurrent
    <2>4. "flag" \notin Storing
      BY DEF Storing
    <2>5. PICK e : edit' = [edit EXCEPT ![h] = e] /\ EditOK(e) /\ Moved(edit[h], e, "flag")
      BY <1>2, <2>4, RequestMoves DEF ClearCurrent
    <2>6. ASSUME e.for = "promote" PROVE Promoting(e, wf', trig')
      <3>1. edit[h].w \in DOMAIN wf /\ edit[h].m \in Drafts /\ edit[h].slug = wf[edit[h].w].slug
        BY <1>0, <2>5, <2>6 DEF Promoting, Moved
      <3>2. e.w \in DOMAIN wf' /\ wf'[e.w] = x
        BY <2>1, <2>5, <3>1 DEF Moved
      <3>. QED  BY <2>2, <2>5, <3>1, <3>2 DEF Promoting, MatchPlaces, Moved
    <2>. QED  BY <2>3, <2>5, <2>6, EditGoes
  <1>3. CASE FlagCurrent(h)
    <2>1. PICK f, x : /\ f = wf[edit[h].w].flags \cup {edit[h].v}
                      /\ x = [wf[edit[h].w] EXCEPT !.flags = f] /\ wf' = [wf EXCEPT ![edit[h].w] = x]
      BY <1>3 DEF FlagCurrent
    <2>2. edit[h].w \in DOMAIN wf =>
            /\ DOMAIN x = WfFields /\ x.versions = wf[edit[h].w].versions /\ x.flags = f
            /\ x.slug = wf[edit[h].w].slug
      BY <1>0, <2>1 DEF WfOK, WfFields
    <2>3. WfOK(wf') /\ TrigOK(trig')
      <3>1. edit[h].w \in DOMAIN wf => x.versions \in Seq(Drafts)
        BY <1>0, <2>2 DEF WfOK
      <3>2. WfOK(wf')
        BY <1>0, <2>1, <2>2, <3>1, WorkflowWritten
      <3>. QED  BY <1>0, <1>3, <3>2 DEF FlagCurrent
    <2>4. "point" \notin Storing
      BY DEF Storing
    <2>5. PICK e : edit' = [edit EXCEPT ![h] = e] /\ EditOK(e) /\ Moved(edit[h], e, "point")
      BY <1>3, <2>4, RequestMoves DEF FlagCurrent
    <2>6. ASSUME e.for = "promote" PROVE Promoting(e, wf', trig')
      <3>1. /\ edit[h].w \in DOMAIN wf /\ edit[h].m \in Drafts /\ edit[h].slug = wf[edit[h].w].slug
            /\ wf[edit[h].w].flags = {}
        BY <1>0, <1>3, <2>5, <2>6 DEF Promoting, Moved, FlagCurrent, EditAt
      <3>2. e.w \in DOMAIN wf' /\ wf'[e.w] = x /\ f = {e.v}
        BY <2>1, <2>5, <3>1 DEF Moved
      <3>. QED  BY <2>2, <2>5, <3>1, <3>2 DEF Promoting, MatchPlaces, Moved
    <2>. QED  BY <2>3, <2>5, <2>6, EditGoes
  <1>4. CASE PointAtVersion(h)
    <2>1. PICK v, x : /\ v = edit[h].v
                      /\ x = [wf[edit[h].w] EXCEPT !.cur = v] /\ wf' = [wf EXCEPT ![edit[h].w] = x]
      BY <1>4 DEF PointAtVersion
    <2>2. edit[h].w \in DOMAIN wf =>
            /\ DOMAIN x = WfFields /\ x.versions = wf[edit[h].w].versions /\ x.cur = v
            /\ x.slug = wf[edit[h].w].slug /\ x.flags = wf[edit[h].w].flags
      BY <1>0, <2>1 DEF WfOK, WfFields
    <2>3. WfOK(wf') /\ TrigOK(trig')
      <3>1. edit[h].w \in DOMAIN wf => x.versions \in Seq(Drafts)
        BY <1>0, <2>2 DEF WfOK
      <3>2. WfOK(wf')
        BY <1>0, <2>1, <2>2, <3>1, WorkflowWritten
      <3>. QED  BY <1>0, <1>4, <3>2 DEF PointAtVersion
    <2>4. "reconcile" \notin Storing
      BY DEF Storing
    <2>5. PICK e : edit' = [edit EXCEPT ![h] = e] /\ EditOK(e) /\ Moved(edit[h], e, "reconcile")
      BY <1>4, <2>4, RequestMoves DEF PointAtVersion
    <2>6. ASSUME e.for = "promote" PROVE Promoting(e, wf', trig')
      <3>1. /\ edit[h].w \in DOMAIN wf /\ edit[h].m \in Drafts /\ edit[h].slug = wf[edit[h].w].slug
            /\ wf[edit[h].w].flags = {edit[h].v}
        BY <1>0, <1>4, <2>5, <2>6 DEF Promoting, Moved, PointAtVersion, EditAt
      <3>2. e.w \in DOMAIN wf' /\ wf'[e.w] = x
        BY <2>1, <2>5, <3>1 DEF Moved
      <3>. QED  BY <2>1, <2>2, <2>5, <3>1, <3>2 DEF Promoting, MatchPlaces, Moved
    <2>. QED  BY <2>3, <2>5, <2>6, EditGoes
  <1>. QED  BY <1>1, <1>2, <1>3, <1>4

(* A reconciliation goes on with the version, the workflow and the records it has. *)
LEMMA StillPromoting ==
  ASSUME NEW d, NEW e, NEW W, NEW T, NEW U,
         Promoting(d, W, T), d.pc \in {"reconcile"} \cup MatchPlaces,
         e.pc \in MatchPlaces, e.w = d.w, e.v = d.v, e.m = d.m, e.slug = d.slug,
         Matched(e, U)
  PROVE  Promoting(e, W, U)
  <1>1. d.pc \notin {"clear"} /\ e.pc \notin {"flag"}
    BY DEF MatchPlaces
  <1>. QED  BY <1>1 DEF Promoting

(* The number of triggers of a manifest. *)
LEMMA TriggersAreAList ==
  ASSUME CatalogAssumption, NEW m \in Drafts
  PROVE  Len(m.triggers) \in Nat /\ DOMAIN m.triggers = 1 .. Len(m.triggers)
  <1>1. PICK S : m.triggers \in Seq(S)
    BY DEF CatalogAssumption
  <1>2. PICK s : s = m.triggers
    OBVIOUS
  <1>3. Len(s) \in Nat /\ DOMAIN s = 1 .. Len(s)
    BY <1>1, <1>2
  <1>. QED  BY <1>2, <1>3

(* A trigger that fits a declaration of the manifest is one it wants. *)
LEMMA FittingIsWanted ==
  ASSUME NEW m, NEW i \in DOMAIN m.triggers, NEW x, NEW slug, Fits(x, m.triggers[i], slug)
  PROVE  Wanted(x, m, slug)
  <1>1. x.type \in DesiredTypes(m)
    BY DEF Fits, DesiredTypes
  <1>2. x.type = "webhook" => x.path \in DesiredPaths(m, slug)
    BY DEF Fits, DesiredPaths
  <1>. QED  BY <1>1, <1>2 DEF Wanted

(* The matching goes on when a row keeps what it had, or is now declared or off. *)
LEMMA StillMatched ==
  ASSUME NEW d, NEW e, NEW T, NEW U, Matched(d, T),
         e.w = d.w, e.m = d.m, e.slug = d.slug, e.i = d.i, e.todo = d.todo,
         DOMAIN T \subseteq DOMAIN U, \A r \in DOMAIN T : U[r] = T[r],
         \A r \in DOMAIN U \ DOMAIN T : Wanted(U[r], e.m, e.slug),
         e.pc # "match" => e.todo = {} /\ e.i <= Len(e.m.triggers),
         e.pc = "write" =>
           e.row \in DOMAIN U /\ U[e.row].w = e.w /\ Fits(U[e.row], e.m.triggers[e.i], e.slug)
  PROVE  Matched(e, U)
  <1>1. e.i \in 1 .. Len(e.m.triggers) + 1 /\ (e.todo = {} \/ e.i = 1)
    BY DEF Matched
  <1>2. ASSUME NEW r \in DOMAIN U, U[r].w = e.w, U[r].on = TRUE
        PROVE  r \in e.todo \/ Wanted(U[r], e.m, e.slug)
    <2>1. CASE r \in DOMAIN T
      <3>1. T[r].w = d.w /\ T[r].on = TRUE
        BY <1>2, <2>1
      <3>2. r \in d.todo \/ Wanted(T[r], d.m, d.slug)
        BY <2>1, <3>1 DEF Matched
      <3>. QED  BY <2>1, <3>2
    <2>. QED  BY <1>2, <2>1
  <1>3. ASSUME NEW k \in 1 .. e.i - 1
        PROVE  \E r \in DOMAIN U : U[r].w = e.w /\ U[r].on = TRUE /\ Fits(U[r], e.m.triggers[k], e.slug)
    <2>1. PICK r \in DOMAIN T : T[r].w = d.w /\ T[r].on = TRUE /\ Fits(T[r], d.m.triggers[k], d.slug)
      BY DEF Matched
    <2>. QED  BY <2>1
  <1>. QED  BY <1>1, <1>2, <1>3 DEF Matched

(* The path a declaration is looked for at. *)
LEMMA FitsDeclared ==
  ASSUME NEW h \in Editors, NEW x
  PROVE  Fits(x, edit[h].m.triggers[edit[h].i], edit[h].slug) <=>
           x.type = Declared(h).type /\ x.path = DeclaredPath(h)
  BY DEF Fits, Declared, DeclaredPath

(* From one place of the matching to another, no row written. *)
LEMMA GoesOn ==
  ASSUME CatalogInv, \A g, k \in Editors : g = k, NEW h \in Editors,
         edit[h].pc \in MatchPlaces, NEW place, To(h, place), place = "check path" \/ place = "insert",
         edit[h].for = "promote" => edit[h].todo = {} /\ edit[h].i <= Len(edit[h].m.triggers),
         WfOK(wf'), TrigOK(trig'), wf' = wf, trig' = trig
  PROVE  CatalogInv'
  <1>1. place \notin Storing /\ place \in MatchPlaces /\ place # "write"
    BY DEF Storing, MatchPlaces
  <1>2. PICK e : edit' = [edit EXCEPT ![h] = e] /\ EditOK(e) /\ Moved(edit[h], e, place)
    BY <1>1, RequestMoves, Zenon
  <1>3. ASSUME e.for = "promote" PROVE Promoting(e, wf', trig')
    <2>1. Promoting(edit[h], wf, trig)
      BY <1>2, <1>3 DEF CatalogInv, Moved
    <2>2. Matched(edit[h], trig)
      BY <2>1 DEF Promoting
    <2>3. Matched(e, trig)
      <3>1. e.for = edit[h].for /\ e.pc = place
        BY <1>2 DEF Moved
      <3>. QED  BY <1>1, <1>2, <1>3, <2>2, <3>1, StillMatched DEF Moved
    <2>. QED  BY <1>1, <1>2, <2>1, <2>3, StillPromoting DEF Moved
  <1>. QED  BY <1>2, <1>3, EditGoes

LEMMA FindKept ==
  ASSUME CatalogAssumption, CatalogInv, \A g, k \in Editors : g = k, NEW h \in Editors,
         ReadTriggers(h) \/ MatchTrigger(h) \/ CheckPath(h) \/ Reply(h)
  PROVE  CatalogInv'
  <1>0. /\ WfOK(wf) /\ TrigOK(trig) /\ EditOK(edit[h])
        /\ edit[h].for = "promote" => Promoting(edit[h], wf, trig)
    BY DEF CatalogInv
  <1>5. WfOK(wf') /\ TrigOK(trig') /\ wf' = wf /\ trig' = trig
    BY <1>0 DEF ReadTriggers, MatchTrigger, CheckPath, Reply, OnlyEdit
  <1>1. CASE ReadTriggers(h)
    <2>1. PICK todo, e : /\ todo = {r \in RowsOf(edit[h].w) : Gone(r, edit[h].m, edit[h].slug)}
                         /\ e = [edit[h] EXCEPT !.pc = "match", !.i = 1, !.todo = todo]
                         /\ edit' = [edit EXCEPT ![h] = e]
      BY <1>1 DEF ReadTriggers
    <2>2. /\ DOMAIN e = EditFields /\ e.pc = "match" /\ e.i = 1 /\ e.todo = todo
          /\ e.w = edit[h].w /\ e.v = edit[h].v /\ e.m = edit[h].m /\ e.slug = edit[h].slug
          /\ e.for = edit[h].for
      BY <1>0, <2>1 DEF EditOK, EditFields
    <2>3. EditOK(e)
      BY <2>2 DEF EditOK, Storing
    <2>4. ASSUME e.for = "promote" PROVE Promoting(e, wf', trig')
      <3>1. Promoting(edit[h], wf, trig) /\ edit[h].pc = "reconcile" /\ edit[h].m \in Drafts
        BY <1>0, <1>1, <2>2, <2>4 DEF Promoting, ReadTriggers, EditAt
      <3>2. Len(e.m.triggers) \in Nat
        BY <2>2, <3>1, TriggersAreAList
      <3>3. e.i \in 1 .. Len(e.m.triggers) + 1 /\ 1 .. e.i - 1 = {}
        BY <2>2, <3>2
      <3>4. ASSUME NEW r \in DOMAIN trig, trig[r].w = e.w
            PROVE  r \in e.todo \/ Wanted(trig[r], e.m, e.slug)
        <4>1. r \in RowsOf(edit[h].w)
          BY <2>2, <3>4 DEF RowsOf
        <4>2. Gone(r, edit[h].m, edit[h].slug) \/ Wanted(trig[r], e.m, e.slug)
          BY <2>2 DEF Gone, StillThere, Wanted
        <4>. QED  BY <2>1, <2>2, <4>1, <4>2
      <3>5. Matched(e, trig)
        BY <2>2, <3>3, <3>4 DEF Matched
      <3>. QED  BY <1>5, <2>2, <3>1, <3>5, StillPromoting DEF MatchPlaces
    <2>. QED  BY <1>5, <2>1, <2>3, <2>4, EditGoes
  <1>2. CASE MatchTrigger(h)
    <2>1. CASE \E r \in Matching(h) : edit' = [edit EXCEPT ![h].pc = "write", ![h].row = r]
      <3>0. PICK r \in Matching(h) : edit' = [edit EXCEPT ![h].pc = "write", ![h].row = r]
        BY <2>1
      <3>1. PICK e : /\ e = [edit[h] EXCEPT !.pc = "write", !.row = r]
                     /\ edit' = [edit EXCEPT ![h] = e]
        BY <3>0
      <3>2. /\ DOMAIN e = EditFields /\ e.pc = "write" /\ e.i = edit[h].i /\ e.todo = edit[h].todo
            /\ e.w = edit[h].w /\ e.v = edit[h].v /\ e.m = edit[h].m /\ e.slug = edit[h].slug
            /\ e.for = edit[h].for /\ e.row = r
        BY <1>0, <3>1 DEF EditOK, EditFields
      <3>3. EditOK(e)
        BY <3>2 DEF EditOK, Storing
      <3>4. ASSUME e.for = "promote" PROVE Promoting(e, wf', trig')
        <4>1. /\ Promoting(edit[h], wf, trig) /\ edit[h].pc = "match" /\ edit[h].todo = {}
              /\ edit[h].i <= Len(edit[h].m.triggers)
          BY <1>0, <1>2, <3>2, <3>4 DEF MatchTrigger, EditAt
        <4>2. r \in DOMAIN trig /\ trig[r].w = edit[h].w
              /\ Fits(trig[r], edit[h].m.triggers[edit[h].i], edit[h].slug)
          BY FitsDeclared DEF Matching, RowsOf
        <4>3. Matched(edit[h], trig)
          BY <4>1 DEF Promoting, MatchPlaces
        <4>4. Matched(e, trig)
          BY <3>2, <4>1, <4>2, <4>3, StillMatched, ZenonT(30)
        <4>. QED  BY <1>5, <3>2, <4>1, <4>4, StillPromoting DEF MatchPlaces
      <3>. QED  BY <1>5, <3>1, <3>3, <3>4, EditGoes
    <2>2. edit[h].todo = {} /\ edit[h].i <= Len(edit[h].m.triggers) /\ edit[h].pc = "match"
      BY <1>2 DEF MatchTrigger, EditAt
    <2>3. CASE To(h, "check path")
      BY <1>5, <2>2, <2>3, GoesOn DEF MatchPlaces
    <2>4. CASE To(h, "insert")
      BY <1>5, <2>2, <2>4, GoesOn DEF MatchPlaces
    <2>. QED  BY <1>2, <2>1, <2>3, <2>4 DEF MatchTrigger
  <1>3. CASE CheckPath(h)
    <2>1. CASE Stop(h)
      BY <1>5, <2>1, Stops
    <2>2. CASE To(h, "insert")
      <3>1. edit[h].pc = "check path"
        BY <1>3 DEF CheckPath, EditAt
      <3>2. edit[h].for = "promote" => edit[h].todo = {} /\ edit[h].i <= Len(edit[h].m.triggers)
        BY <1>0, <3>1 DEF Promoting, MatchPlaces, Matched
      <3>. QED  BY <1>5, <2>2, <3>1, <3>2, GoesOn DEF MatchPlaces
    <2>. QED  BY <1>3, <2>1, <2>2 DEF CheckPath
  <1>4. CASE Reply(h)
    BY <1>4, <1>5, Stops DEF Reply
  <1>. QED  BY <1>1, <1>2, <1>3, <1>4

(* reconcileTriggers writes a row: one that is gone, a new one, a declared one. *)
LEMMA WriteKept ==
  ASSUME CatalogAssumption, CatalogInv, \A g, k \in Editors : g = k, NEW h \in Editors,
         DisableGone(h) \/ InsertTrigger(h) \/ WriteTrigger(h)
  PROVE  CatalogInv'
  <1>0. /\ WfOK(wf) /\ TrigOK(trig) /\ EditOK(edit[h])
        /\ edit[h].for = "promote" => Promoting(edit[h], wf, trig)
    BY DEF CatalogInv
  <1>5. WfOK(wf') /\ wf' = wf
    BY <1>0 DEF DisableGone, InsertTrigger, WriteTrigger
  <1>6. ASSUME Promoting(edit[h], wf, trig) PROVE Len(edit[h].m.triggers) \in Nat /\ DOMAIN edit[h].m.triggers = 1 .. Len(edit[h].m.triggers)
    BY <1>6, TriggersAreAList DEF Promoting
  <1>1. CASE DisableGone(h)
    <2>1. PICK r \in edit[h].todo :
            /\ trig' = [trig EXCEPT ![r].on = FALSE]
            /\ edit' = [edit EXCEPT ![h].todo = @ \ {r}]
      BY <1>1 DEF DisableGone
    <2>2. PICK x : x = [trig[r] EXCEPT !.on = FALSE] /\ trig' = [trig EXCEPT ![r] = x]
      BY <2>1
    <2>3. r \in DOMAIN trig => DOMAIN x = TrigFields /\ x.on = FALSE
      BY <1>0, <2>2 DEF TrigOK, TrigFields
    <2>4. TrigOK(trig')
      BY <1>0, <2>2, <2>3, TriggerWritten
    <2>5. PICK todo, e : /\ todo = edit[h].todo \ {r} /\ e = [edit[h] EXCEPT !.todo = todo]
                         /\ edit' = [edit EXCEPT ![h] = e]
      BY <2>1
    <2>6. /\ DOMAIN e = EditFields /\ e.pc = "match" /\ e.i = edit[h].i /\ e.todo = todo
          /\ e.w = edit[h].w /\ e.v = edit[h].v /\ e.m = edit[h].m /\ e.slug = edit[h].slug
          /\ e.for = edit[h].for
      BY <1>0, <1>1, <2>5 DEF EditOK, EditFields, DisableGone, EditAt
    <2>7. EditOK(e)
      BY <2>6 DEF EditOK, Storing
    <2>8. ASSUME e.for = "promote" PROVE Promoting(e, wf', trig')
      <3>1. Promoting(edit[h], wf, trig) /\ edit[h].pc = "match"
        BY <1>0, <1>1, <2>6, <2>8 DEF DisableGone, EditAt
      <3>2. Matched(edit[h], trig)
        BY <3>1 DEF Promoting, MatchPlaces
      <3>3. e.i = 1 /\ e.i \in 1 .. Len(e.m.triggers) + 1
        BY <2>6, <3>2 DEF Matched
      <3>4. ASSUME NEW q \in DOMAIN trig', trig'[q].w = e.w, trig'[q].on = TRUE
            PROVE  q \in e.todo \/ Wanted(trig'[q], e.m, e.slug)
        <4>1. q \in DOMAIN trig /\ DOMAIN trig' = DOMAIN trig
          BY <2>2, <3>4
        <4>2. q # r
          BY <2>2, <2>3, <3>4, <4>1
        <4>3. trig'[q] = trig[q]
          BY <2>2, <4>1, <4>2
        <4>4. q \in edit[h].todo \/ Wanted(trig[q], edit[h].m, edit[h].slug)
          BY <2>6, <3>2, <3>4, <4>1, <4>3 DEF Matched
        <4>. QED  BY <2>5, <2>6, <4>2, <4>3, <4>4
      <3>5. \A k \in 1 .. e.i - 1 : FALSE
        BY <3>3
      <3>6. Matched(e, trig')
        <4>1. e.pc = "match"
          BY <2>6
        <4>. QED  BY <3>3, <3>4, <3>5, <4>1 DEF Matched
      <3>. QED  BY <1>5, <2>6, <3>1, <3>6, StillPromoting DEF MatchPlaces
    <2>. QED  BY <1>5, <2>4, <2>5, <2>7, <2>8, EditGoes
  <1>2. CASE InsertTrigger(h)
    <2>1. PICK n, x : /\ n = Len(trig) + 1
                      /\ x = NewTrigger(edit[h].w, Declared(h).type, DeclaredPath(h), TRUE)
                      /\ trig' = Append(trig, x)
                      /\ edit' = [edit EXCEPT ![h].pc = "write", ![h].row = n]
      BY <1>2 DEF InsertTrigger
    <2>2. /\ DOMAIN x = TrigFields /\ x.w = edit[h].w
          /\ x.type = Declared(h).type /\ x.path = DeclaredPath(h)
      BY <2>1 DEF NewTrigger, TrigFields
    <2>3. /\ IsList(trig') /\ DOMAIN trig' = DOMAIN trig \cup {n} /\ trig'[n] = x
          /\ \A q \in DOMAIN trig : trig'[q] = trig[q]
      <3>1. IsList(trig)
        BY <1>0 DEF TrigOK
      <3>2. /\ IsList(Append(trig, x)) /\ DOMAIN Append(trig, x) = DOMAIN trig \cup {Len(trig) + 1}
            /\ Append(trig, x)[Len(trig) + 1] = x /\ \A q \in DOMAIN trig : Append(trig, x)[q] = trig[q]
        BY <3>1, ListGrows
      <3>3. trig' = Append(trig, x) /\ n = Len(trig) + 1
        BY <2>1
      <3>. QED  BY <3>2, <3>3
    <2>4. TrigOK(trig')
      BY <1>0, <2>2, <2>3 DEF TrigOK
    <2>5. PICK e : e = [edit[h] EXCEPT !.pc = "write", !.row = n] /\ edit' = [edit EXCEPT ![h] = e]
      BY <2>1
    <2>6. /\ DOMAIN e = EditFields /\ e.pc = "write" /\ e.i = edit[h].i /\ e.todo = edit[h].todo
          /\ e.w = edit[h].w /\ e.v = edit[h].v /\ e.m = edit[h].m /\ e.slug = edit[h].slug
          /\ e.for = edit[h].for /\ e.row = n
      BY <1>0, <2>5 DEF EditOK, EditFields
    <2>7. EditOK(e)
      BY <2>6 DEF EditOK, Storing
    <2>8. ASSUME e.for = "promote" PROVE Promoting(e, wf', trig')
      <3>1. Promoting(edit[h], wf, trig) /\ edit[h].pc = "insert"
        BY <1>0, <1>2, <2>6, <2>8 DEF InsertTrigger, EditAt
      <3>2. Matched(edit[h], trig)
        BY <3>1 DEF Promoting, MatchPlaces
      <3>3. edit[h].todo = {} /\ edit[h].i <= Len(edit[h].m.triggers) /\ edit[h].i \in 1 .. Len(edit[h].m.triggers) + 1
        BY <3>1, <3>2 DEF Matched
      <3>4. edit[h].i \in DOMAIN edit[h].m.triggers
        BY <1>6, <3>1, <3>3
      <3>5. Fits(x, edit[h].m.triggers[edit[h].i], edit[h].slug)
        BY <2>2, FitsDeclared
      <3>6. Wanted(x, edit[h].m, edit[h].slug)
        BY <3>4, <3>5, FittingIsWanted
      <3>7. Matched(e, trig')
        <4>1. \A q \in DOMAIN trig' \ DOMAIN trig : Wanted(trig'[q], e.m, e.slug)
          BY <2>3, <2>6, <3>6
        <4>2. e.row \in DOMAIN trig' /\ trig'[e.row].w = e.w /\ Fits(trig'[e.row], e.m.triggers[e.i], e.slug)
          BY <2>2, <2>3, <2>6, <3>5
        <4>3. e.todo = {} /\ e.i <= Len(e.m.triggers) /\ DOMAIN trig \subseteq DOMAIN trig'
          BY <2>3, <2>6, <3>3
        <4>4. \A q \in DOMAIN trig : trig'[q] = trig[q]
          BY <2>3
        <4>5. e.w = edit[h].w /\ e.m = edit[h].m /\ e.slug = edit[h].slug /\ e.i = edit[h].i /\ e.todo = edit[h].todo
          BY <2>6
        <4>. QED  BY <3>2, <4>1, <4>2, <4>3, <4>4, <4>5, StillMatched
      <3>. QED  BY <1>5, <2>6, <3>1, <3>7, StillPromoting DEF MatchPlaces
    <2>. QED  BY <1>5, <2>4, <2>5, <2>7, <2>8, EditGoes
  <1>3. CASE WriteTrigger(h)
    <2>1. PICK n, r, x : /\ n = edit[h].i + 1 /\ r = edit[h].row
                      /\ x = NewTrigger(edit[h].w, Declared(h).type, DeclaredPath(h), TRUE)
                      /\ trig' = [trig EXCEPT ![r] = x]
                      /\ edit' = [edit EXCEPT ![h].pc = "match", ![h].i = n]
      BY <1>3 DEF WriteTrigger
    <2>2. /\ DOMAIN x = TrigFields /\ x.w = edit[h].w /\ x.on = TRUE
          /\ x.type = Declared(h).type /\ x.path = DeclaredPath(h)
      BY <2>1 DEF NewTrigger, TrigFields
    <2>3. DOMAIN trig' = DOMAIN trig /\ \A q \in DOMAIN trig : trig'[q] = IF q = r THEN x ELSE trig[q]
      BY <2>1
    <2>4. TrigOK(trig')
      BY <1>0, <2>1, <2>2, TriggerWritten
    <2>5. PICK e : e = [edit[h] EXCEPT !.pc = "match", !.i = n] /\ edit' = [edit EXCEPT ![h] = e]
      BY <2>1
    <2>6. /\ DOMAIN e = EditFields /\ e.pc = "match" /\ e.i = n /\ e.todo = edit[h].todo
          /\ e.w = edit[h].w /\ e.v = edit[h].v /\ e.m = edit[h].m /\ e.slug = edit[h].slug
          /\ e.for = edit[h].for
      BY <1>0, <2>5 DEF EditOK, EditFields
    <2>7. EditOK(e)
      BY <2>6 DEF EditOK, Storing
    <2>8. ASSUME e.for = "promote" PROVE Promoting(e, wf', trig')
      <3>1. Promoting(edit[h], wf, trig) /\ edit[h].pc = "write"
        BY <1>0, <1>3, <2>6, <2>8 DEF WriteTrigger, EditAt
      <3>2. Matched(edit[h], trig)
        BY <3>1 DEF Promoting, MatchPlaces
      <3>3. /\ edit[h].todo = {} /\ edit[h].i <= Len(edit[h].m.triggers)
            /\ edit[h].i \in 1 .. Len(edit[h].m.triggers) + 1
            /\ r \in DOMAIN trig /\ trig[r].w = edit[h].w
            /\ Fits(trig[r], edit[h].m.triggers[edit[h].i], edit[h].slug)
        BY <2>1, <3>1, <3>2 DEF Matched
      <3>4. edit[h].i \in DOMAIN edit[h].m.triggers /\ e.i \in 1 .. Len(e.m.triggers) + 1
        <4>1. PICK len : len = Len(edit[h].m.triggers)
          OBVIOUS
        <4>2. len \in Nat /\ DOMAIN edit[h].m.triggers = 1 .. len
          BY <1>6, <3>1, <4>1
        <4>3. edit[h].i \in 1 .. len + 1 /\ edit[h].i <= len
          BY <3>3, <4>1
        <4>4. edit[h].i \in 1 .. len /\ n \in 1 .. len + 1
          BY <2>1, <4>2, <4>3
        <4>. QED  BY <2>6, <4>1, <4>2, <4>4
      <3>5. Fits(x, edit[h].m.triggers[edit[h].i], edit[h].slug)
        BY <2>2, FitsDeclared
      <3>6. Wanted(x, edit[h].m, edit[h].slug)
        BY <3>4, <3>5, FittingIsWanted
      <3>7. ASSUME NEW q \in DOMAIN trig', trig'[q].w = e.w, trig'[q].on = TRUE
            PROVE  q \in e.todo \/ Wanted(trig'[q], e.m, e.slug)
        <4>1. CASE q = r
          BY <2>3, <2>6, <3>6, <4>1
        <4>2. CASE q # r
          <5>1. q \in DOMAIN trig /\ trig'[q] = trig[q]
            BY <2>3, <4>2
          <5>2. q \in edit[h].todo \/ Wanted(trig[q], edit[h].m, edit[h].slug)
            BY <2>6, <3>2, <3>7, <5>1 DEF Matched
          <5>. QED  BY <2>6, <5>1, <5>2
        <4>. QED  BY <4>1, <4>2
      <3>8. ASSUME NEW k \in 1 .. e.i - 1
            PROVE  \E q \in DOMAIN trig' : trig'[q].w = e.w /\ trig'[q].on = TRUE
                                           /\ Fits(trig'[q], e.m.triggers[k], e.slug)
        <4>1. k = edit[h].i \/ k \in 1 .. edit[h].i - 1
          BY <1>6, <2>1, <2>6, <3>1, <3>3
        <4>2. CASE k = edit[h].i
          BY <2>2, <2>3, <2>6, <3>3, <3>5, <4>2
        <4>3. CASE k \in 1 .. edit[h].i - 1
          <5>1. PICK q \in DOMAIN trig : trig[q].w = edit[h].w /\ trig[q].on = TRUE
                                         /\ Fits(trig[q], edit[h].m.triggers[k], edit[h].slug)
            BY <3>2, <4>3 DEF Matched
          <5>2. q \in DOMAIN trig' /\ trig'[q].w = e.w /\ trig'[q].on = TRUE
            BY <2>2, <2>3, <2>6, <5>1
          <5>3. Fits(trig'[q], e.m.triggers[k], e.slug)
            <6>1. CASE q = r
              <7>1. x.type = trig[r].type /\ x.path = trig[r].path
                BY <3>3, <3>5 DEF Fits
              <7>. QED  BY <2>3, <2>6, <5>1, <6>1, <7>1 DEF Fits
            <6>2. CASE q # r
              BY <2>3, <2>6, <5>1, <6>2
            <6>. QED  BY <6>1, <6>2
          <5>. QED  BY <5>2, <5>3
        <4>. QED  BY <4>1, <4>2, <4>3
      <3>9. Matched(e, trig')
        BY <2>6, <3>3, <3>4, <3>7, <3>8 DEF Matched
      <3>. QED  BY <1>5, <2>6, <3>1, <3>9, StillPromoting DEF MatchPlaces
    <2>. QED  BY <1>5, <2>4, <2>5, <2>7, <2>8, EditGoes
  <1>. QED  BY <1>1, <1>2, <1>3

(* A request that is no promotion begins, or goes on. *)
Apart == {"clear", "flag", "point", "reconcile"} \cup MatchPlaces

LEMMA Begins ==
  ASSUME CatalogInv, \A g, k \in Editors : g = k, NEW h \in Editors, NEW e,
         edit' = [edit EXCEPT ![h] = e], DOMAIN e = EditFields, e.for # "promote",
         e.pc \in Storing => e.m \in Drafts, WfOK(wf'), TrigOK(trig')
  PROVE  CatalogInv'
  BY EditGoes DEF EditOK

LEMMA MovesOn ==
  ASSUME CatalogInv, \A g, k \in Editors : g = k, NEW h \in Editors, edit[h].pc \notin Apart,
         NEW place, To(h, place), place \notin Storing, WfOK(wf'), TrigOK(trig')
  PROVE  CatalogInv'
  <1>1. PICK e : edit' = [edit EXCEPT ![h] = e] /\ EditOK(e) /\ Moved(edit[h], e, place)
    BY RequestMoves, Zenon
  <1>2. e.for # "promote"
    BY <1>1, Elsewhere DEF Moved, Apart
  <1>. QED  BY <1>1, <1>2, EditGoes

LEMMA AsksKept ==
  ASSUME CatalogAssumption, CatalogInv, \A g, k \in Editors : g = k, NEW h \in Editors,
         \/ \E w \in DOMAIN wf, put \in Puts : AskPut(h, w, put)
         \/ \E w \in DOMAIN wf, m \in Drafts : AskDraft(h, w, m)
         \/ \E w \in DOMAIN wf, type \in {"schedule", "webhook"}, path \in AskedPaths \cup {NoPath} :
              AskTrigger(h, w, type, path)
         \/ \E r \in DOMAIN trig, path \in AskedPaths \cup {NoPath}, on \in BOOLEAN \cup {Keep} :
              AskEditTrigger(h, r, path, on)
         \/ \E c \in Credentials : CheckCredential(h, c)
  PROVE  CatalogInv'
  <1>0. WfOK(wf) /\ TrigOK(trig)
    BY DEF CatalogInv
  <1>1. ASSUME NEW w \in DOMAIN wf, NEW put \in Puts, AskPut(h, w, put) PROVE CatalogInv'
    <2>1. PICK pc, m, sl, e :
            /\ pc = (IF put.m # Keep THEN "number" ELSE "slug") /\ m = put.m /\ sl = wf[w].slug
            /\ e = [NoEdit EXCEPT !.pc = pc, !.w = w, !.m = m, !.slug = sl, !.put = put, !.for = "put"]
            /\ edit' = [edit EXCEPT ![h] = e]
      BY <1>1 DEF AskPut
    <2>2. DOMAIN e = EditFields /\ e.pc = pc /\ e.m = m /\ e.for = "put"
      BY <2>1 DEF NoEdit, EditFields
    <2>3. pc \in Storing => m \in Drafts
      BY <2>1 DEF CatalogAssumption, Storing
    <2>4. WfOK(wf') /\ TrigOK(trig')
      BY <1>0, <1>1 DEF AskPut, OnlyEdit
    <2>. QED  BY <2>1, <2>2, <2>3, <2>4, Begins, ZenonT(30)
  <1>2. ASSUME NEW w \in DOMAIN wf, NEW m \in Drafts, AskDraft(h, w, m) PROVE CatalogInv'
    <2>1. PICK e : /\ e = [NoEdit EXCEPT !.pc = "number", !.w = w, !.m = m, !.for = "draft"]
                   /\ edit' = [edit EXCEPT ![h] = e]
      BY <1>2 DEF AskDraft
    <2>2. DOMAIN e = EditFields /\ e.m = m /\ e.for = "draft"
      BY <2>1 DEF NoEdit, EditFields
    <2>4. WfOK(wf') /\ TrigOK(trig')
      BY <1>0, <1>2 DEF AskDraft, OnlyEdit
    <2>. QED  BY <2>1, <2>2, <2>4, Begins
  <1>3. ASSUME NEW w \in DOMAIN wf, NEW type \in {"schedule", "webhook"},
               NEW path \in AskedPaths \cup {NoPath}, AskTrigger(h, w, type, path)
        PROVE  CatalogInv'
    <2>1. PICK e : /\ e = [NoEdit EXCEPT !.pc = "add", !.w = w, !.slug = path, !.m = type, !.for = "trigger"]
                   /\ edit' = [edit EXCEPT ![h] = e]
      BY <1>3 DEF AskTrigger
    <2>2. DOMAIN e = EditFields /\ e.pc = "add" /\ e.for = "trigger"
      BY <2>1 DEF NoEdit, EditFields
    <2>4. WfOK(wf') /\ TrigOK(trig')
      BY <1>0, <1>3 DEF AskTrigger, OnlyEdit
    <2>. QED  BY <2>1, <2>2, <2>4, Begins DEF Storing
  <1>4. ASSUME NEW r \in DOMAIN trig, NEW path \in AskedPaths \cup {NoPath},
               NEW on \in BOOLEAN \cup {Keep}, AskEditTrigger(h, r, path, on)
        PROVE  CatalogInv'
    <2>1. PICK sl, who, e :
            /\ who = (IF trig[r].typed THEN "typed" ELSE "trigger")
            /\ e = [NoEdit EXCEPT !.pc = "merge", !.row = r, !.put = on, !.slug = sl, !.for = who]
            /\ edit' = [edit EXCEPT ![h] = e]
      BY <1>4 DEF AskEditTrigger
    <2>2. DOMAIN e = EditFields /\ e.pc = "merge" /\ e.for = who
      BY <2>1 DEF NoEdit, EditFields
    <2>3. who # "promote"
      BY <2>1
    <2>4. WfOK(wf') /\ TrigOK(trig')
      BY <1>0, <1>4 DEF AskEditTrigger, OnlyEdit
    <2>. QED  BY <2>1, <2>2, <2>3, <2>4, Begins, ZenonT(30) DEF Storing
  <1>5. ASSUME NEW c \in Credentials, CheckCredential(h, c) PROVE CatalogInv'
    <2>1. PICK e : /\ e = [NoEdit EXCEPT !.pc = "forget", !.m = c, !.for = "vault"]
                   /\ edit' = [edit EXCEPT ![h] = e]
      BY <1>5 DEF CheckCredential
    <2>2. DOMAIN e = EditFields /\ e.pc = "forget" /\ e.for = "vault"
      BY <2>1 DEF NoEdit, EditFields
    <2>4. WfOK(wf') /\ TrigOK(trig')
      BY <1>0, <1>5 DEF CheckCredential, OnlyEdit
    <2>. QED  BY <2>1, <2>2, <2>4, Begins DEF Storing
  <1>. QED  BY <1>1, <1>2, <1>3, <1>4, <1>5

(* The columns of one workflow that a save, a draft or a DELETE writes. *)
LEMMA SavesKept ==
  ASSUME CatalogInv, \A g, k \in Editors : g = k, NEW h \in Editors,
         \/ NumberVersion(h) \/ InsertDraft(h) \/ ChooseSlug(h) \/ SaveWorkflow(h)
         \/ \E w \in DOMAIN wf : DisableWorkflow(h, w)
  PROVE  CatalogInv'
  <1>0. WfOK(wf) /\ TrigOK(trig) /\ EditOK(edit[h])
    BY DEF CatalogInv
  <1>1. CASE NumberVersion(h)
    <2>1. edit[h].m \in Drafts /\ edit[h].for # "promote"
      BY <1>0, <1>1, Elsewhere DEF NumberVersion, EditAt, EditOK, Storing, MatchPlaces
    <2>2. PICK n, e : e = [edit[h] EXCEPT !.pc = "draft", !.v = n] /\ edit' = [edit EXCEPT ![h] = e]
      BY <1>1 DEF NumberVersion
    <2>3. DOMAIN e = EditFields /\ e.m = edit[h].m /\ e.for = edit[h].for
      BY <1>0, <2>2 DEF EditOK, EditFields
    <2>4. WfOK(wf') /\ TrigOK(trig')
      BY <1>0, <1>1 DEF NumberVersion, OnlyEdit
    <2>. QED  BY <2>1, <2>2, <2>3, <2>4, Begins
  <1>2. CASE InsertDraft(h)
    <2>1. TrigOK(trig') /\ edit[h].m \in Drafts /\ edit[h].pc = "draft"
      BY <1>0, <1>2 DEF InsertDraft, EditAt, EditOK, Storing
    <2>2. WfOK(wf')
      <3>1. CASE wf' = wf
        BY <1>0, <3>1
      <3>2. CASE wf' # wf
        <4>1. PICK s, x : /\ s = Append(wf[edit[h].w].versions, edit[h].m)
                          /\ x = [wf[edit[h].w] EXCEPT !.versions = s]
          OBVIOUS
        <4>2. wf' = [wf EXCEPT ![edit[h].w] = x]
          BY <1>2, <3>2, <4>1 DEF InsertDraft
        <4>3. edit[h].w \in DOMAIN wf => DOMAIN x = WfFields /\ x.versions = s
          BY <1>0, <4>1 DEF WfOK, WfFields
        <4>4. ASSUME edit[h].w \in DOMAIN wf PROVE s \in Seq(Drafts)
          <5>1. PICK l : l = wf[edit[h].w].versions
            OBVIOUS
          <5>2. l \in Seq(Drafts)
            BY <1>0, <4>4, <5>1 DEF WfOK
          <5>. QED  BY <2>1, <4>1, <5>1, <5>2
        <4>. QED  BY <1>0, <4>2, <4>3, <4>4, WorkflowWritten
      <3>. QED  BY <3>1, <3>2
    <2>3. CASE Stop(h)
      BY <2>1, <2>2, <2>3, Stops
    <2>4. CASE To(h, "slug")
      BY <2>1, <2>2, <2>4, MovesOn DEF Apart, MatchPlaces, Storing
    <2>. QED  BY <1>2, <2>3, <2>4 DEF InsertDraft
  <1>3. CASE ChooseSlug(h)
    <2>1. edit[h].for # "promote"
      BY <1>0, <1>3, Elsewhere DEF ChooseSlug, EditAt, MatchPlaces
    <2>2. PICK old, sl, pc, e :
            /\ pc = (IF edit[h].put.name = Keep THEN "save" ELSE "repath")
            /\ e = [edit[h] EXCEPT !.old = old, !.slug = sl, !.pc = pc] /\ edit' = [edit EXCEPT ![h] = e]
      BY <1>3 DEF ChooseSlug
    <2>3. DOMAIN e = EditFields /\ e.pc = pc /\ e.for = edit[h].for
      BY <1>0, <2>2 DEF EditOK, EditFields
    <2>4. WfOK(wf') /\ TrigOK(trig')
      BY <1>0, <1>3 DEF ChooseSlug, OnlyEdit
    <2>5. pc \notin Storing
      BY <2>2 DEF Storing
    <2>. QED  BY <2>1, <2>2, <2>3, <2>4, <2>5, Begins
  <1>4. CASE SaveWorkflow(h)
    <2>1. TrigOK(trig') /\ edit[h].pc = "save"
      BY <1>0, <1>4 DEF SaveWorkflow, EditAt
    <2>2. WfOK(wf')
      <3>1. CASE wf' = wf
        BY <1>0, <3>1
      <3>2. CASE wf' # wf
        <4>1. PICK w : w = edit[h].w
          OBVIOUS
        <4>2. DOMAIN wf' = DOMAIN wf /\ wf' = [i \in DOMAIN wf' |-> wf'[i]]
              /\ \A i \in DOMAIN wf : i # w => wf'[i] = wf[i]
          BY <1>4, <3>2, <4>1 DEF SaveWorkflow
        <4>3. ASSUME w \in DOMAIN wf PROVE DOMAIN wf'[w] = WfFields /\ wf'[w].versions = wf[w].versions
          <5>1. DOMAIN wf[w] = WfFields
            BY <1>0, <4>3 DEF WfOK
          <5>. QED  BY <1>4, <3>2, <4>1, <4>3, <5>1 DEF SaveWorkflow, WfFields
        <4>4. IsList(wf')
          BY <1>0, <4>2, ListKeeps DEF WfOK
        <4>. QED  BY <1>0, <4>2, <4>3, <4>4 DEF WfOK
      <3>. QED  BY <3>1, <3>2
    <2>3. CASE Stop(h)
      BY <2>1, <2>2, <2>3, Stops
    <2>4. CASE To(h, "switch")
      BY <2>1, <2>2, <2>4, MovesOn DEF Apart, MatchPlaces, Storing
    <2>. QED  BY <1>4, <2>3, <2>4 DEF SaveWorkflow
  <1>5. ASSUME NEW w \in DOMAIN wf, DisableWorkflow(h, w) PROVE CatalogInv'
    <2>1. PICK b, x : b = FALSE /\ x = [wf[w] EXCEPT !.on = b] /\ wf' = [wf EXCEPT ![w] = x]
      BY <1>5 DEF DisableWorkflow
    <2>2. DOMAIN x = WfFields /\ x.versions = wf[w].versions
      BY <1>0, <2>1 DEF WfOK, WfFields
    <2>3. x.versions \in Seq(Drafts)
      BY <1>0, <2>2 DEF WfOK
    <2>4. WfOK(wf') /\ TrigOK(trig')
      <3>1. WfOK(wf')
        BY <1>0, <2>1, <2>2, <2>3, WorkflowWritten
      <3>. QED  BY <1>0, <1>5, <3>1 DEF DisableWorkflow
    <2>5. PICK put, e : /\ e = [NoEdit EXCEPT !.pc = "switch", !.w = w, !.put = put, !.for = "put"]
                        /\ edit' = [edit EXCEPT ![h] = e]
      BY <1>5 DEF DisableWorkflow
    <2>6. DOMAIN e = EditFields /\ e.pc = "switch" /\ e.for = "put"
      BY <2>5 DEF NoEdit, EditFields
    <2>. QED  BY <2>4, <2>5, <2>6, Begins DEF Storing
  <1>. QED  BY <1>1, <1>2, <1>3, <1>4, <1>5

(* Rows written outside a reconciliation. *)
LEMMA RowsKept ==
  ASSUME CatalogInv, \A g, k \in Editors : g = k, NEW h \in Editors,
         \/ RepathTriggers(h) \/ SwitchTriggers(h)
         \/ AddTrigger(h) \/ MergeConfig(h) \/ SetTriggerFlag(h)
         \/ \E r \in DOMAIN trig : DeleteTrigger(h, r)
  PROVE  CatalogInv'
  <1>0. WfOK(wf) /\ TrigOK(trig) /\ EditOK(edit[h])
    BY DEF CatalogInv
  <1>1. CASE RepathTriggers(h)
    <2>1. DOMAIN trig' = DOMAIN trig /\ trig' = [i \in DOMAIN trig' |-> trig'[i]]
      BY <1>1 DEF RepathTriggers
    <2>2. IsList(trig')
      BY <1>0, <2>1, ListKeeps DEF TrigOK
    <2>3. \A r \in DOMAIN trig : DOMAIN trig'[r] = TrigFields
      BY <1>0, <1>1 DEF RepathTriggers, TrigOK, TrigFields
    <2>4. TrigOK(trig') /\ WfOK(wf') /\ edit[h].pc = "repath"
      BY <1>0, <1>1, <2>1, <2>2, <2>3 DEF TrigOK, RepathTriggers, EditAt
    <2>5. To(h, "save")
      BY <1>1 DEF RepathTriggers
    <2>. QED  BY <2>4, <2>5, MovesOn DEF Apart, MatchPlaces, Storing
  <1>2. CASE SwitchTriggers(h)
    <2>1. DOMAIN trig' = DOMAIN trig /\ trig' = [i \in DOMAIN trig' |-> trig'[i]]
      BY <1>2 DEF SwitchTriggers
    <2>2. IsList(trig')
      BY <1>0, <2>1, ListKeeps DEF TrigOK
    <2>3. \A r \in DOMAIN trig : DOMAIN trig'[r] = TrigFields
      BY <1>0, <1>2 DEF SwitchTriggers, TrigOK, TrigFields
    <2>4. TrigOK(trig') /\ WfOK(wf') /\ Stop(h)
      BY <1>0, <1>2, <2>1, <2>2, <2>3 DEF TrigOK, SwitchTriggers
    <2>. QED  BY <2>4, Stops
  <1>3. CASE AddTrigger(h)
    <2>1. PICK x : /\ x = NewTrigger(edit[h].w, edit[h].m, edit[h].slug, FALSE)
                   /\ trig' = Append(trig, x)
      BY <1>3 DEF AddTrigger
    <2>2. DOMAIN x = TrigFields
      BY <2>1 DEF NewTrigger, TrigFields
    <2>3. IsList(trig) /\ \A r \in DOMAIN trig : DOMAIN trig[r] = TrigFields
      BY <1>0 DEF TrigOK
    <2>4. /\ IsList(Append(trig, x)) /\ DOMAIN Append(trig, x) = DOMAIN trig \cup {Len(trig) + 1}
          /\ Append(trig, x)[Len(trig) + 1] = x /\ \A q \in DOMAIN trig : Append(trig, x)[q] = trig[q]
      BY <2>3, ListGrows
    <2>5. TrigOK(trig')
      BY <2>1, <2>2, <2>3, <2>4 DEF TrigOK
    <2>6. WfOK(wf') /\ Stop(h)
      BY <1>0, <1>3 DEF AddTrigger
    <2>. QED  BY <2>5, <2>6, Stops
  <1>4. CASE MergeConfig(h)
    <2>1. PICK sl, ty, x : x = [trig[edit[h].row] EXCEPT !.path = sl, !.typed = ty] /\ trig' = [trig EXCEPT ![edit[h].row] = x]
      BY <1>4 DEF MergeConfig
    <2>2. edit[h].row \in DOMAIN trig => DOMAIN x = TrigFields
      BY <1>0, <2>1 DEF TrigOK, TrigFields
    <2>3. TrigOK(trig') /\ WfOK(wf') /\ edit[h].pc = "merge"
      <3>1. TrigOK(trig')
        BY <1>0, <2>1, <2>2, TriggerWritten
      <3>. QED  BY <1>0, <1>4, <3>1 DEF MergeConfig, EditAt
    <2>4. CASE Stop(h)
      BY <2>3, <2>4, Stops
    <2>5. CASE To(h, "set flag")
      BY <2>3, <2>5, MovesOn DEF Apart, MatchPlaces, Storing
    <2>. QED  BY <1>4, <2>4, <2>5 DEF MergeConfig
  <1>5. CASE SetTriggerFlag(h)
    <2>1. PICK on, x : x = [trig[edit[h].row] EXCEPT !.on = on] /\ trig' = [trig EXCEPT ![edit[h].row] = x]
      BY <1>5 DEF SetTriggerFlag
    <2>2. edit[h].row \in DOMAIN trig => DOMAIN x = TrigFields
      BY <1>0, <2>1 DEF TrigOK, TrigFields
    <2>3. TrigOK(trig')
      BY <1>0, <2>1, <2>2, TriggerWritten
    <2>4. WfOK(wf') /\ Stop(h)
      BY <1>0, <1>5 DEF SetTriggerFlag
    <2>. QED  BY <2>3, <2>4, Stops
  <1>6. ASSUME NEW r \in DOMAIN trig, DeleteTrigger(h, r) PROVE CatalogInv'
    <2>1. PICK on, x : x = [trig[r] EXCEPT !.on = on] /\ trig' = [trig EXCEPT ![r] = x]
      BY <1>6 DEF DeleteTrigger
    <2>2. DOMAIN x = TrigFields
      BY <1>0, <2>1 DEF TrigOK, TrigFields
    <2>3. TrigOK(trig')
      BY <1>0, <2>1, <2>2, TriggerWritten
    <2>4. edit[h].for # "promote" /\ edit' = edit /\ wf' = wf
      BY <1>6, Elsewhere DEF DeleteTrigger, EditAt, MatchPlaces
    <2>5. \A k \in Editors : edit[k] = edit[h]
      OBVIOUS
    <2>. QED  BY <1>0, <2>3, <2>4, <2>5 DEF CatalogInv
  <1>. QED  BY <1>1, <1>2, <1>3, <1>4, <1>5, <1>6

(* Every step. *)
LEMMA CatalogKept ==
  ASSUME CatalogAssumption, \A g, k \in Editors : g = k, CatalogInv, [CatalogNext]_catalogVars
  PROVE  CatalogInv'
  <1>1. CASE UNCHANGED catalogVars
    BY <1>1 DEF catalogVars, CatalogInv
  <1>2. ASSUME NEW h \in Editors, CreateStep(h) \/ PromoteStep(h) PROVE CatalogInv'
    BY <1>2, CreateKept, PromoteKept DEF CreateStep, PromoteStep
  <1>3. ASSUME NEW h \in Editors, ReconcileStep(h) PROVE CatalogInv'
    BY <1>3, FindKept, WriteKept DEF ReconcileStep
  <1>4. ASSUME NEW h \in Editors, PutStep(h) PROVE CatalogInv'
    BY <1>4, AsksKept, SavesKept, RowsKept DEF PutStep
  <1>5. ASSUME NEW h \in Editors, TriggerStep(h) PROVE CatalogInv'
    BY <1>5, AsksKept, RowsKept DEF TriggerStep
  <1>6. ASSUME NEW h \in Editors, VaultStep(h) PROVE CatalogInv'
    <2>1. CASE \E c \in Credentials : StoreCredential(h, c)
      BY <2>1 DEF StoreCredential, CatalogInv
    <2>2. CASE \E c \in Credentials : CheckCredential(h, c)
      BY <2>2, AsksKept
    <2>3. CASE DeleteCredential(h)
      <3>1. WfOK(wf') /\ TrigOK(trig') /\ Stop(h)
        BY <2>3 DEF DeleteCredential, CatalogInv
      <3>. QED  BY <3>1, Stops
    <2>. QED  BY <1>6, <2>1, <2>2, <2>3 DEF VaultStep
  <1>7. ASSUME NEW h \in Editors, EditBreaksOff(h) PROVE CatalogInv'
    <2>1. WfOK(wf') /\ TrigOK(trig') /\ Stop(h)
      BY <1>7 DEF EditBreaksOff, CatalogInv
    <2>. QED  BY <2>1, Stops
  <1>. QED  BY <1>1, <1>2, <1>3, <1>4, <1>5, <1>6, <1>7 DEF CatalogNext

LEMMA CatalogBegins == CatalogInit => CatalogInv
  <1> SUFFICES ASSUME CatalogInit PROVE CatalogInv
    OBVIOUS
  <1>1. IsList(<<>>) /\ DOMAIN <<>> = {}
    <2>1. PICK n \in Nat : n = 0
      OBVIOUS
    <2>2. PICK s : s = <<>>
      OBVIOUS
    <2>3. s = [i \in 1 .. n |-> s[i]] /\ DOMAIN s = {}
      BY <2>1, <2>2
    <2>. QED  BY <2>2, <2>3 DEF IsList
  <1>2. WfOK(wf) /\ TrigOK(trig)
    BY <1>1 DEF CatalogInit, WfOK, TrigOK
  <1>3. DOMAIN edit = Editors /\ \A h \in Editors : edit[h] = NoEdit
    BY DEF CatalogInit
  <1>. QED  BY <1>2, <1>3, BeginsOK DEF CatalogInv

(* What the answer says: the last reconciliation step has been taken. *)
LEMMA ReconciledIsDone ==
  ASSUME CatalogAssumption, CatalogInv
  PROVE  PromotionTakesEffect
  <1> SUFFICES ASSUME NEW h \in Editors, Reconciled(h), edit[h].for = "promote"
               PROVE  /\ wf[edit[h].w].flags = {edit[h].v} /\ wf[edit[h].w].cur = edit[h].v
                      /\ \A i \in DOMAIN edit[h].m.triggers :
                           \E r \in {r \in RowsOf(edit[h].w) : trig[r].on} :
                             /\ trig[r].type = edit[h].m.triggers[i].type
                             /\ trig[r].path = PathOf(edit[h].m.triggers[i], edit[h].slug)
                      /\ \A r \in {r \in RowsOf(edit[h].w) : trig[r].on} :
                           /\ trig[r].type \in DesiredTypes(edit[h].m)
                           /\ trig[r].type = "webhook" =>
                                trig[r].path \in DesiredPaths(edit[h].m, wf[edit[h].w].slug)
    BY DEF PromotionTakesEffect
  <1>1. Promoting(edit[h], wf, trig) /\ edit[h].pc = "match" /\ edit[h].todo = {}
        /\ edit[h].i > Len(edit[h].m.triggers)
    BY DEF CatalogInv, Reconciled, EditAt
  <1>2. Matched(edit[h], trig) /\ edit[h].m \in Drafts /\ edit[h].slug = wf[edit[h].w].slug
        /\ wf[edit[h].w].flags = {edit[h].v} /\ wf[edit[h].w].cur = edit[h].v
    BY <1>1 DEF Promoting, MatchPlaces
  <1>3. PICK len : len = Len(edit[h].m.triggers)
    OBVIOUS
  <1>4. len \in Nat /\ DOMAIN edit[h].m.triggers = 1 .. len
    BY <1>2, <1>3, TriggersAreAList
  <1>5. edit[h].i = len + 1
    <2>1. edit[h].i \in 1 .. len + 1 /\ edit[h].i > len
      BY <1>1, <1>2, <1>3 DEF Matched
    <2>. QED  BY <1>4, <2>1
  <1>6. ASSUME NEW i \in DOMAIN edit[h].m.triggers
        PROVE  \E r \in {r \in RowsOf(edit[h].w) : trig[r].on} :
                 /\ trig[r].type = edit[h].m.triggers[i].type
                 /\ trig[r].path = PathOf(edit[h].m.triggers[i], edit[h].slug)
    <2>1. i \in 1 .. edit[h].i - 1
      BY <1>4, <1>5, <1>6
    <2>2. PICK r \in DOMAIN trig : trig[r].w = edit[h].w /\ trig[r].on = TRUE
                                   /\ Fits(trig[r], edit[h].m.triggers[i], edit[h].slug)
      BY <1>2, <2>1 DEF Matched
    <2>. QED  BY <2>2 DEF RowsOf, Fits
  <1>7. ASSUME NEW r \in RowsOf(edit[h].w), trig[r].on
        PROVE  /\ trig[r].type \in DesiredTypes(edit[h].m)
               /\ trig[r].type = "webhook" => trig[r].path \in DesiredPaths(edit[h].m, wf[edit[h].w].slug)
    <2>1. r \in DOMAIN trig /\ trig[r].w = edit[h].w /\ trig[r].on = TRUE
      BY <1>7 DEF RowsOf
    <2>2. Wanted(trig[r], edit[h].m, edit[h].slug)
      BY <1>1, <1>2, <2>1 DEF Matched
    <2>. QED  BY <1>2, <2>2 DEF Wanted
  <1>. QED  BY <1>2, <1>6, <1>7

(* A promotion that answers has taken effect: the version is the only current    *)
(* one in both records, each trigger it declares is enabled, and none that it    *)
(* does not declare is; for requests that are served one at a time.             *)
THEOREM PromotionsTakeEffect ==
  ASSUME \A g, k \in Editors : g = k
  PROVE  CatalogSpec => []PromotionTakesEffect
  <1>1. CatalogInit => CatalogInv
    BY CatalogBegins
  <1>2. CatalogInv /\ [CatalogNext]_catalogVars => CatalogInv'
    BY CatalogAssumption, CatalogKept
  <1>3. CatalogInv => PromotionTakesEffect
    BY CatalogAssumption, ReconciledIsDone
  <1>. QED  BY <1>1, <1>2, <1>3, PTL DEF CatalogSpec

----------------------------------------------------------------------------
(* Multiples of a period *)

LEMMA Multiples ==
  ASSUME NEW P \in Nat \ {0}, NEW a \in Nat, a % P = 0
  PROVE  a \div P \in Nat /\ a = P * (a \div P)
  BY SMT

LEMMA NextMultiple ==
  ASSUME NEW P \in Nat \ {0}, NEW a \in Nat, a % P = 0
  PROVE  (a + P) % P = 0
  <1> DEFINE k == a \div P
  <1>1. k \in Nat /\ a = P * k
    BY Multiples
  <1> HIDE DEF k
  <1>2. a + P = P * (k + 1)
    BY <1>1, SMT
  <1>3. k + 1 \in Nat
    BY <1>1
  <1>4. (P * (k + 1)) % P = 0
    BY <1>3, SMT
  <1> QED
    BY <1>2, <1>4

LEMMA OneMultiple ==
  ASSUME NEW P \in Nat \ {0}, NEW a \in Nat, a % P = 0, NEW b \in Nat, b % P = 0,
         a <= b, b < a + P
  PROVE  b = a
  <1> DEFINE k == a \div P
             l == b \div P
  <1>1. k \in Nat /\ a = P * k
    BY Multiples
  <1>2. l \in Nat /\ b = P * l
    BY Multiples
  <1> HIDE DEF k, l
  <1>3. CASE k < l
    <2>1. P * k + P <= P * l
      BY <1>1, <1>2, <1>3, SMT
    <2> QED
      BY <2>1, <1>1, <1>2, SMT
  <1>4. CASE l < k
    <2>1. P * l + P <= P * k
      BY <1>1, <1>2, <1>4, SMT
    <2> QED
      BY <2>1, <1>1, <1>2, SMT
  <1> QED
    BY <1>1, <1>2, <1>3, <1>4

----------------------------------------------------------------------------
(* What was billed is accounted for *)

ChargedTo(s) == {r \in DOMAIN events : events[r].period = s}
BilledOn(d) == {r \in DOMAIN events : events[r].day = d}

SubType == [start : Nat, end : Nat, consumed : Nat, plan : DOMAIN PlanPrice]
ExecOK(e) ==
  /\ DOMAIN e = {"pc", "seen"}
  /\ DOMAIN e.seen = {"sub", "daily"}

MeteringTypeOK ==
  /\ day \in 0 .. MaxDay
  /\ sub \in SubType
  /\ IsFiniteSet(DOMAIN events)
  /\ \A r \in DOMAIN events : events[r] \in [day : 0 .. MaxDay, linked : BOOLEAN, period : Nat]
  /\ DOMAIN daily \subseteq 0 .. MaxDay /\ \A d \in DOMAIN daily : daily[d] \in Nat
  /\ DOMAIN job \subseteq {"close", "purge"}
  /\ DOMAIN exec = {"close", "purge"} /\ ExecOK(exec.close) /\ ExecOK(exec.purge)
  /\ exec.purge.pc = "write" =>
       /\ DOMAIN exec.purge.seen.daily \subseteq 0 .. MaxDay
       /\ \A d \in DOMAIN exec.purge.seen.daily : exec.purge.seen.daily[d] \in Nat

(* What a close has read of the subscription is still so when it invoices and  *)
(* when it rolls: nobody else rolls, and nothing is charged to a period that   *)
(* has ended.  So an invoice of the period that is open, left by an attempt    *)
(* that died before the roll, is the one the next attempt would make.          *)
PeriodInv ==
  /\ sub.start % Period = 0 /\ sub.end = sub.start + Period /\ sub.start <= day
  /\ sub.consumed = Cardinality(ChargedTo(sub.start))
  /\ \A s \in Nat : sub.start < s /\ s # Unmade => ChargedTo(s) = {}
  /\ exec.close.pc \in {"invoice", "roll"} => exec.close.seen.sub = sub /\ sub.end <= day
  /\ exec.close.pc = "roll" => <<sub.start, sub.end>> \in DOMAIN invoices
  /\ \A s, e \in Nat : <<s, e>> \in DOMAIN invoices => s <= sub.start
  /\ <<sub.start, sub.end>> \in DOMAIN invoices =>
       /\ sub.end <= day
       /\ invoices[<<sub.start, sub.end>>] = computeInvoiceClose(sub.plan, sub.consumed)
  /\ PeriodsInvoiced

(* A snapshot counts no run of a day that was not billed that day, and what is  *)
(* billed afterwards only adds.                                               *)
DailyInv ==
  /\ exec.purge.pc = "write" =>
       \A d \in DOMAIN exec.purge.seen.daily :
         exec.purge.seen.daily[d] <= Cardinality(BilledOn(d))
  /\ DailyFigures

MeteringInv == MeteringTypeOK /\ PeriodInv /\ DailyInv

----------------------------------------------------------------------------

LEMMA FiguresRead ==
  DailyFigures <=>
    \A d \in 0 .. MaxDay :
      /\ At(daily, d, 0) <= Cardinality(BilledOn(d))
      /\ d \notin recounted => At(daily, d, 0) = Cardinality(BilledOn(d))
  BY DEF DailyFigures, BilledOn

LEMMA InvoicesRead ==
  PeriodsInvoiced <=>
    \A s \in 0 .. MaxDay : s < sub.start /\ s % Period = 0 =>
      /\ <<s, s + Period>> \in DOMAIN invoices
      /\ invoices[<<s, s + Period>>] = computeInvoiceClose(sub.plan, Cardinality(ChargedTo(s)))
  BY DEF PeriodsInvoiced, ChargedTo

LEMMA InvoicesReadNext ==
  PeriodsInvoiced' <=>
    \A s \in 0 .. MaxDay : s < sub'.start /\ s % Period = 0 =>
      /\ <<s, s + Period>> \in DOMAIN invoices'
      /\ invoices'[<<s, s + Period>>] = computeInvoiceClose(sub'.plan, Cardinality(ChargedTo(s)'))
  BY DEF PeriodsInvoiced, ChargedTo

LEMMA FiguresReadNext ==
  DailyFigures' <=>
    \A d \in 0 .. MaxDay :
      /\ At(daily', d, 0) <= Cardinality(BilledOn(d)')
      /\ d \notin recounted' => At(daily', d, 0) = Cardinality(BilledOn(d)')
  BY DEF DailyFigures, BilledOn

LEMMA MeteringBegins == MeteringInit => MeteringInv
  <1> SUFFICES ASSUME MeteringInit PROVE MeteringInv
    OBVIOUS
  <1>1. DOMAIN events = {} /\ DOMAIN daily = {} /\ DOMAIN invoices = {}
    BY DEF MeteringInit, EmptyMap
  <1>2. IsFiniteSet({}) /\ Cardinality({}) = 0
    BY FS_EmptySet
  <1>3. Period \in Nat \ {0} /\ MaxDay \in Nat /\ Seeded \subseteq SUBSET {"close", "purge"}
    BY MeteringAssumption
  <1>4. /\ sub \in SubType /\ sub.start = 0 /\ sub.end = Period /\ sub.consumed = 0
    BY <1>3 DEF MeteringInit, SubType
  <1>5. /\ exec = [type \in {"close", "purge"} |-> [pc |-> "idle", seen |-> NoRead]]
        /\ day = 0 /\ recounted = {}
    BY DEF MeteringInit
  <1>6. ExecOK(exec.close) /\ ExecOK(exec.purge) /\ exec.close.pc = "idle" /\ exec.purge.pc = "idle"
    BY <1>5 DEF ExecOK, NoRead
  <1>7. DOMAIN job \subseteq {"close", "purge"}
    BY <1>3 DEF MeteringInit
  <1>8. MeteringTypeOK
    BY <1>1, <1>2, <1>3, <1>4, <1>5, <1>6, <1>7 DEF MeteringTypeOK
  <1>9. \A s : ChargedTo(s) = {} /\ BilledOn(s) = {}
    BY <1>1 DEF ChargedTo, BilledOn
  <1>10. PeriodsInvoiced
    BY <1>3, <1>4 DEF PeriodsInvoiced
  <1>11. 0 % Period = 0
    BY <1>3, SMT
  <1>12. PeriodInv
    <2>1. sub.start % Period = 0 /\ sub.end = sub.start + Period /\ sub.start <= day
      BY <1>3, <1>4, <1>5, <1>11
    <2>2. sub.consumed = Cardinality(ChargedTo(sub.start))
      BY <1>2, <1>4, <1>9
    <2> QED
      BY <2>1, <2>2, <1>1, <1>6, <1>9, <1>10 DEF PeriodInv
  <1>13. DailyFigures
    <2>1. ASSUME NEW d \in 0 .. MaxDay
          PROVE  At(daily, d, 0) = 0 /\ Cardinality(BilledOn(d)) = 0
      BY <1>1, <1>2, <1>9 DEF At
    <2> QED
      BY <2>1, FiguresRead
  <1> QED
    BY <1>6, <1>8, <1>12, <1>13 DEF MeteringInv, DailyInv

(* Where no charge is added, invoiced or rolled, the periods stay accounted for. *)
LEMMA PeriodStays ==
  ASSUME MeteringTypeOK, PeriodInv, UNCHANGED <<sub, invoices>>,
         day' \in Nat, day <= day',
         \A s \in Nat : s # Unmade => ChargedTo(s)' = ChargedTo(s),
         exec'.close.pc \in {"invoice", "roll"} => exec'.close.seen.sub = sub /\ sub.end <= day',
         exec'.close.pc = "roll" => <<sub.start, sub.end>> \in DOMAIN invoices
  PROVE  PeriodInv'
  <1>1. sub.start \in Nat /\ sub.end \in Nat /\ sub.consumed \in Nat /\ day \in Nat /\ MaxDay \in Nat
    BY MeteringAssumption DEF MeteringTypeOK, SubType
  <1>2. PeriodsInvoiced'
    <2>1. ASSUME NEW s \in 0 .. MaxDay, s < sub.start, s % Period = 0
          PROVE  /\ <<s, s + Period>> \in DOMAIN invoices
                 /\ invoices[<<s, s + Period>>] =
                      computeInvoiceClose(sub.plan, Cardinality(ChargedTo(s)'))
      <3>1. ChargedTo(s)' = ChargedTo(s)
        BY <2>1, <1>1 DEF Unmade
      <3> QED
        BY <2>1, <3>1, InvoicesRead DEF PeriodInv
    <2>2. sub' = sub /\ invoices' = invoices
      OBVIOUS
    <2> QED
      BY <2>1, <2>2, InvoicesReadNext
  <1>3. ChargedTo(sub.start)' = ChargedTo(sub.start)
    BY <1>1 DEF PeriodInv, MeteringTypeOK, Unmade
  <1>4. \A s \in Nat : sub.start < s /\ s # Unmade => ChargedTo(s)' = {}
    BY DEF PeriodInv
  <1> QED
    BY <1>1, <1>2, <1>3, <1>4 DEF PeriodInv, Unmade

(* Where the figures stay and no event disappears from a day, so do they.      *)
LEMMA DailyStays ==
  ASSUME MeteringTypeOK, DailyInv, UNCHANGED <<daily, recounted>>,
         \A d \in 0 .. MaxDay : BilledOn(d)' = BilledOn(d),
         exec'.purge.pc = "write" =>
           \A d \in DOMAIN exec'.purge.seen.daily :
             exec'.purge.seen.daily[d] <= Cardinality(BilledOn(d)')
  PROVE  DailyInv'
  <1>1. DailyFigures'
    BY FiguresRead, FiguresReadNext DEF DailyInv
  <1> QED
    BY <1>1 DEF DailyInv, BilledOn

----------------------------------------------------------------------------
(* The steps: types *)

LEMMA TypesStay ==
  ASSUME MeteringTypeOK, UNCHANGED <<day, sub, events, daily>>,
         DOMAIN job' \subseteq DOMAIN job,
         DOMAIN exec' = DOMAIN exec, ExecOK(exec'.close), ExecOK(exec'.purge),
         exec'.purge.pc = "write" =>
           /\ DOMAIN exec'.purge.seen.daily \subseteq 0 .. MaxDay
           /\ \A d \in DOMAIN exec'.purge.seen.daily : exec'.purge.seen.daily[d] \in Nat
  PROVE  MeteringTypeOK'
  BY DEF MeteringTypeOK

(* An execution goes on to a statement that is not the write of the purge.    *)
LEMMA ExecsMove ==
  ASSUME MeteringTypeOK, NEW type \in {"close", "purge"}, NEW pc, pc # "write",
         ExecGoes(type, pc)
  PROVE  /\ DOMAIN exec' = DOMAIN exec /\ ExecOK(exec'.close) /\ ExecOK(exec'.purge)
         /\ exec'[type] = [exec[type] EXCEPT !.pc = pc]
         /\ exec'[type].pc = pc /\ exec'[type].seen = exec[type].seen
         /\ \A other \in {"close", "purge"} : other # type => exec'[other] = exec[other]
         /\ exec'.purge.pc = "write" => exec'.purge = exec.purge
  BY DEF MeteringTypeOK, ExecGoes, ExecOK

LEMMA ExecsStart ==
  ASSUME MeteringTypeOK, NEW type \in {"close", "purge"}, NEW pc,
         exec' = [exec EXCEPT ![type] = [pc |-> pc, seen |-> NoRead]]
  PROVE  /\ DOMAIN exec' = DOMAIN exec /\ ExecOK(exec'.close) /\ ExecOK(exec'.purge)
         /\ exec'[type].pc = pc
         /\ \A other \in {"close", "purge"} : other # type => exec'[other] = exec[other]
  BY DEF MeteringTypeOK, ExecOK, NoRead

(* Jobs and executions move; no charge, invoice, roll or figure is written.    *)
LEMMA JobsMove ==
  ASSUME MeteringInv, UNCHANGED <<day, sub, invoices, events, daily, recounted>>,
         DOMAIN job' \subseteq DOMAIN job,
         DOMAIN exec' = DOMAIN exec, ExecOK(exec'.close), ExecOK(exec'.purge),
         exec'.close.pc \in {"invoice", "roll"} => exec'.close.seen.sub = sub /\ sub.end <= day,
         exec'.close.pc = "roll" => <<sub.start, sub.end>> \in DOMAIN invoices,
         exec'.purge.pc = "write" =>
           /\ DOMAIN exec'.purge.seen.daily \subseteq 0 .. MaxDay
           /\ \A d \in DOMAIN exec'.purge.seen.daily :
                /\ exec'.purge.seen.daily[d] \in Nat
                /\ exec'.purge.seen.daily[d] <= Cardinality(BilledOn(d))
  PROVE  MeteringInv'
  <1>1. MeteringTypeOK /\ PeriodInv /\ DailyInv /\ day \in Nat
    BY DEF MeteringInv, MeteringTypeOK
  <1>2. MeteringTypeOK'
    BY <1>1, TypesStay
  <1>3. \A s : ChargedTo(s)' = ChargedTo(s) /\ BilledOn(s)' = BilledOn(s)
    BY DEF ChargedTo, BilledOn
  <1>4. PeriodInv'
    BY <1>1, <1>3, PeriodStays
  <1>5. DailyInv'
    BY <1>1, <1>3, DailyStays
  <1> QED
    BY <1>2, <1>4, <1>5 DEF MeteringInv

(* The three statements of the executions that JobsMove asks about.           *)
LEMMA ExecsKnow ==
  ASSUME MeteringInv
  PROVE  /\ exec.close.pc \in {"invoice", "roll"} => exec.close.seen.sub = sub /\ sub.end <= day
         /\ exec.close.pc = "roll" => <<sub.start, sub.end>> \in DOMAIN invoices
         /\ exec.purge.pc = "write" =>
              /\ DOMAIN exec.purge.seen.daily \subseteq 0 .. MaxDay
              /\ \A d \in DOMAIN exec.purge.seen.daily :
                   /\ exec.purge.seen.daily[d] \in Nat
                   /\ exec.purge.seen.daily[d] <= Cardinality(BilledOn(d))
         /\ ExecOK(exec.close) /\ ExecOK(exec.purge) /\ DOMAIN exec = {"close", "purge"}
         /\ DOMAIN job \subseteq {"close", "purge"}
  BY DEF MeteringInv, MeteringTypeOK, PeriodInv, DailyInv

(* An execution of a job that is at neither of these statements.              *)
Restarts(type, pc) == exec' = [exec EXCEPT ![type] = [pc |-> pc, seen |-> NoRead]]

LEMMA JobStarts ==
  ASSUME MeteringInv, UNCHANGED <<day, sub, invoices, events, daily, recounted>>,
         DOMAIN job' \subseteq DOMAIN job,
         NEW type \in {"close", "purge"}, NEW pc, pc \notin {"invoice", "roll", "write"},
         Restarts(type, pc)
  PROVE  MeteringInv'
  <1>1. MeteringTypeOK
    BY DEF MeteringInv
  <1>2. /\ DOMAIN exec' = DOMAIN exec /\ ExecOK(exec'.close) /\ ExecOK(exec'.purge)
        /\ exec'[type].pc = pc
        /\ \A other \in {"close", "purge"} : other # type => exec'[other] = exec[other]
    BY <1>1, ExecsStart DEF Restarts
  <1>3. CASE type = "close"
    <2>1. exec'.close.pc = pc /\ exec'.purge = exec.purge
      BY <1>2, <1>3
    <2> QED
      BY <1>2, <2>1, ExecsKnow, JobsMove
  <1>4. CASE type = "purge"
    <2>1. exec'.purge.pc = pc /\ exec'.close = exec.close
      BY <1>2, <1>4
    <2> QED
      BY <1>2, <2>1, ExecsKnow, JobsMove
  <1> QED
    BY <1>3, <1>4

LEMMA JobGoes ==
  ASSUME MeteringInv, UNCHANGED <<day, sub, invoices, events, daily, recounted>>,
         DOMAIN job' \subseteq DOMAIN job,
         NEW type \in {"close", "purge"}, NEW pc, pc \notin {"invoice", "roll", "write"},
         ExecGoes(type, pc)
  PROVE  MeteringInv'
  <1>1. MeteringTypeOK
    BY DEF MeteringInv
  <1>2. /\ DOMAIN exec' = DOMAIN exec /\ ExecOK(exec'.close) /\ ExecOK(exec'.purge)
        /\ exec'[type].pc = pc
        /\ \A other \in {"close", "purge"} : other # type => exec'[other] = exec[other]
    BY <1>1, ExecsMove
  <1>3. CASE type = "close"
    <2>1. exec'.close.pc = pc /\ exec'.purge = exec.purge
      BY <1>2, <1>3
    <2> QED
      BY <1>2, <2>1, ExecsKnow, JobsMove
  <1>4. CASE type = "purge"
    <2>1. exec'.purge.pc = pc /\ exec'.close = exec.close
      BY <1>2, <1>4
    <2> QED
      BY <1>2, <2>1, ExecsKnow, JobsMove
  <1> QED
    BY <1>3, <1>4

LEMMA JobStep ==
  ASSUME MeteringInv, NEW type \in JobTypes,
         \/ DispatchDue(type) \/ WorkerTakes(type) \/ MarkCompleted(type)
         \/ JobFinishes(type) \/ JobFails(type)
  PROVE  MeteringInv'
  <1>1. type \in {"close", "purge"}
    BY ExecsKnow DEF JobTypes
  <1>2. DOMAIN job' \subseteq DOMAIN job
    BY DEF DispatchDue, WorkerTakes, MarkCompleted, JobFinishes, JobFails
  <1>3. UNCHANGED <<day, sub, invoices, events, daily, recounted>>
    BY DEF DispatchDue, WorkerTakes, MarkCompleted, JobFinishes, JobFails
  <1>4. CASE DispatchDue(type)
    <2>1. exec' = exec
      BY <1>4 DEF DispatchDue
    <2> QED
      BY <1>2, <1>3, <2>1, ExecsKnow, JobsMove
  <1>5. CASE WorkerTakes(type)
    <2>1. PICK pc \in {"read", "idle"} : Restarts(type, pc)
      BY <1>5 DEF WorkerTakes, Restarts
    <2> QED
      BY <1>1, <1>2, <1>3, <2>1, JobStarts
  <1>6. CASE MarkCompleted(type)
    BY <1>1, <1>2, <1>3, <1>6, JobGoes DEF MarkCompleted
  <1>7. CASE JobFinishes(type)
    <2>1. PICK pc \in {"read", "idle"} : Restarts(type, pc)
      BY <1>7 DEF JobFinishes, Restarts
    <2> QED
      BY <1>1, <1>2, <1>3, <2>1, JobStarts
  <1>8. CASE JobFails(type)
    <2>1. PICK pc \in {"read", "idle"} : Restarts(type, pc)
      BY <1>8 DEF JobFails, Restarts
    <2> QED
      BY <1>1, <1>2, <1>3, <2>1, JobStarts
  <1> QED
    BY <1>4, <1>5, <1>6, <1>7, <1>8

LEMMA CloseReadsKeeps ==
  ASSUME MeteringInv, CloseReads
  PROVE  MeteringInv'
  <1>1. UNCHANGED <<day, sub, invoices, events, daily, recounted, job>>
    BY DEF CloseReads
  <1>2. CASE ~(sub.end <= day)
    BY <1>1, <1>2, JobGoes DEF CloseReads
  <1>3. CASE sub.end <= day
    <2>1. exec' = [exec EXCEPT !.close.pc = "invoice", !.close.seen.sub = sub]
      BY <1>3 DEF CloseReads
    <2>2. /\ DOMAIN exec' = DOMAIN exec /\ exec'.purge = exec.purge
          /\ ExecOK(exec'.close)
          /\ exec'.close.pc = "invoice" /\ exec'.close.seen.sub = sub
      BY <2>1, ExecsKnow DEF ExecOK
    <2> QED
      BY <1>1, <1>3, <2>2, ExecsKnow, JobsMove
  <1> QED
    BY <1>2, <1>3

(* A snapshot counts a part of what was billed on each day.                   *)
LEMMA PurgeCountsKeeps ==
  ASSUME MeteringInv, PurgeCounts
  PROVE  MeteringInv'
  <1> DEFINE counts == [d \in {events[r].day : r \in DOMAIN events} |-> RunsOn(d)]
  <1>1. UNCHANGED <<day, sub, invoices, events, daily, recounted, job>>
    BY DEF PurgeCounts
  <1>2. exec' = [exec EXCEPT !.purge = [@ EXCEPT !.pc = "write", !.seen.daily = counts]]
    BY DEF PurgeCounts
  <1>3. DOMAIN counts \subseteq 0 .. MaxDay
    BY DEF MeteringInv, MeteringTypeOK
  <1>4. ASSUME NEW d \in DOMAIN counts
        PROVE  counts[d] \in Nat /\ counts[d] <= Cardinality(BilledOn(d))
    <2> DEFINE linked == {r \in DOMAIN events : events[r].day = d /\ events[r].linked}
    <2>1. IsFiniteSet(BilledOn(d))
      BY FS_Subset DEF BilledOn, MeteringInv, MeteringTypeOK
    <2>2. linked \subseteq BilledOn(d)
      BY DEF BilledOn
    <2>3. IsFiniteSet(linked) /\ Cardinality(linked) <= Cardinality(BilledOn(d))
      BY <2>1, <2>2, FS_Subset
    <2>4. Cardinality(linked) \in Nat
      BY <2>3, FS_CardinalityType
    <2>5. counts[d] = Cardinality(linked)
      BY <1>4 DEF RunsOn
    <2> QED
      BY <2>3, <2>4, <2>5
  <1> HIDE DEF counts
  <1>5. /\ DOMAIN exec' = DOMAIN exec /\ exec'.close = exec.close
        /\ ExecOK(exec'.purge) /\ exec'.purge.seen.daily = counts
    BY <1>2, ExecsKnow DEF ExecOK
  <1> QED
    BY <1>1, <1>3, <1>4, <1>5, ExecsKnow, JobsMove

----------------------------------------------------------------------------
(* The steps: runs, days and figures *)

LEMMA RunAppearsKeeps ==
  ASSUME MeteringInv, NEW r, RunAppears(r)
  PROVE  MeteringInv'
  BY ExecsKnow, JobsMove DEF RunAppears

LEMMA DayPassesKeeps ==
  ASSUME MeteringInv, DayPasses
  PROVE  MeteringInv'
  <1>1. MeteringTypeOK /\ PeriodInv /\ DailyInv /\ day \in Nat
    BY DEF MeteringInv, MeteringTypeOK
  <1>2. UNCHANGED <<sub, invoices, events, daily, recounted, job, exec>> /\ day' = day + 1 /\ day' \in 0 .. MaxDay
    BY <1>1, MeteringAssumption DEF DayPasses
  <1>3. MeteringTypeOK'
    BY <1>1, <1>2 DEF MeteringTypeOK
  <1>4. \A s : ChargedTo(s)' = ChargedTo(s) /\ BilledOn(s)' = BilledOn(s)
    BY <1>2 DEF ChargedTo, BilledOn
  <1>5. exec.close.pc \in {"invoice", "roll"} => exec.close.seen.sub = sub /\ sub.end <= day'
    <2>1. sub.end \in Nat
      BY <1>1 DEF MeteringTypeOK, SubType
    <2> QED
      BY <1>1, <1>2, <2>1, ExecsKnow
  <1>6. PeriodInv'
    BY <1>1, <1>2, <1>4, <1>5, ExecsKnow, PeriodStays
  <1>7. DailyInv'
    BY <1>1, <1>2, <1>4, ExecsKnow, DailyStays
  <1> QED
    BY <1>3, <1>6, <1>7 DEF MeteringInv

(* What the charge of a run adds to the events.                               *)
LEMMA ChargeAdds ==
  ASSUME MeteringInv, NEW r, RecordBilling(r)
  PROVE  /\ \A s \in Nat : ChargedTo(s)' =
              ChargedTo(s) \cup (IF s = (IF InPeriod THEN sub.start ELSE Unmade) THEN {r} ELSE {})
         /\ \A d \in Nat : BilledOn(d)' = BilledOn(d) \cup (IF d = day THEN {r} ELSE {})
         /\ \A s : r \notin ChargedTo(s) /\ r \notin BilledOn(s)
         /\ \A s : IsFiniteSet(ChargedTo(s)) /\ IsFiniteSet(BilledOn(s))
         /\ IsFiniteSet(DOMAIN events')
         /\ \A q \in DOMAIN events' : events'[q] \in [day : 0 .. MaxDay, linked : BOOLEAN, period : Nat]
  <1> DEFINE charged == IF InPeriod THEN sub.start ELSE Unmade
             event == [day |-> day, linked |-> TRUE, period |-> charged]
  <1>1. events' = Extend(events, r, event) /\ r \notin DOMAIN events
    BY DEF RecordBilling
  <1>2. /\ day \in 0 .. MaxDay /\ sub.start \in Nat /\ Unmade \in Nat /\ IsFiniteSet(DOMAIN events)
        /\ \A q \in DOMAIN events : events[q] \in [day : 0 .. MaxDay, linked : BOOLEAN, period : Nat]
    BY MeteringAssumption DEF MeteringInv, MeteringTypeOK, SubType, Unmade
  <1>3. event \in [day : 0 .. MaxDay, linked : BOOLEAN, period : Nat] /\ event.day = day /\ event.period = charged
    BY <1>2
  <1> HIDE DEF event
  <1>4. /\ DOMAIN events' = DOMAIN events \cup {r} /\ events'[r] = event
        /\ \A q \in DOMAIN events : events'[q] = events[q]
    BY <1>1 DEF Extend
  <1>5. IsFiniteSet(DOMAIN events')
    BY <1>2, <1>4, FS_AddElement
  <1>6. \A s : IsFiniteSet(ChargedTo(s)) /\ IsFiniteSet(BilledOn(s))
    <2> TAKE s
    <2>1. ChargedTo(s) \subseteq DOMAIN events /\ BilledOn(s) \subseteq DOMAIN events
      BY DEF ChargedTo, BilledOn
    <2> QED
      BY <1>2, <2>1, FS_Subset
  <1>7. \A s \in Nat : ChargedTo(s)' = ChargedTo(s) \cup (IF s = charged THEN {r} ELSE {})
    BY <1>1, <1>3, <1>4 DEF ChargedTo
  <1>8. \A d \in Nat : BilledOn(d)' = BilledOn(d) \cup (IF d = day THEN {r} ELSE {})
    BY <1>1, <1>3, <1>4 DEF BilledOn
  <1>9. \A s : r \notin ChargedTo(s) /\ r \notin BilledOn(s)
    BY <1>1 DEF ChargedTo, BilledOn
  <1>10. \A q \in DOMAIN events' : events'[q] \in [day : 0 .. MaxDay, linked : BOOLEAN, period : Nat]
    BY <1>2, <1>3, <1>4
  <1> QED
    BY <1>5, <1>6, <1>7, <1>8, <1>9, <1>10

LEMMA RecordBillingTypes ==
  ASSUME MeteringInv, NEW r, RecordBilling(r)
  PROVE  MeteringTypeOK'
  <1>1. UNCHANGED <<day, job, exec>>
    BY DEF RecordBilling
  <1>2. sub' \in SubType
    BY DEF RecordBilling, MeteringInv, MeteringTypeOK, SubType
  <1>3. DOMAIN daily' \subseteq 0 .. MaxDay /\ \A d \in DOMAIN daily' : daily'[d] \in Nat
    <2>1. At(daily, day, 0) \in Nat /\ day \in 0 .. MaxDay
      BY DEF At, MeteringInv, MeteringTypeOK
    <2> QED
      BY <2>1 DEF RecordBilling, Extend, MeteringInv, MeteringTypeOK
  <1> QED
    BY <1>1, <1>2, <1>3, ChargeAdds DEF MeteringInv, MeteringTypeOK

(* A charge outside every period changes none; one to the open period is       *)
(* counted, and no attempt of a close has looked at that yet.                  *)
LEMMA RecordBillingCharges ==
  ASSUME MeteringInv, NEW r, RecordBilling(r)
  PROVE  PeriodInv'
  <1>1. MeteringTypeOK /\ PeriodInv /\ UNCHANGED <<day, invoices, exec>>
    BY DEF MeteringInv, RecordBilling
  <1>2. /\ day \in 0 .. MaxDay /\ sub \in SubType /\ sub.start \in Nat /\ sub.end \in Nat /\ sub.consumed \in Nat
        /\ MaxDay \in Nat
    BY <1>1, MeteringAssumption DEF MeteringTypeOK, SubType
  <1>3. CASE ~InPeriod
    <2>1. sub' = sub
      BY <1>3 DEF RecordBilling
    <2>2. \A s \in Nat : s # Unmade => ChargedTo(s)' = ChargedTo(s)
      BY <1>3, ChargeAdds
    <2> QED
      BY <1>1, <1>2, <2>1, <2>2, ExecsKnow, PeriodStays
  <1>4. CASE InPeriod
    <2>1. sub' = [sub EXCEPT !.consumed = @ + 1] /\ sub.start <= day /\ day < sub.end
      BY <1>4 DEF RecordBilling, InPeriod
    <2>2. /\ sub'.start = sub.start /\ sub'.end = sub.end /\ sub'.plan = sub.plan
          /\ sub'.consumed = sub.consumed + 1
      BY <1>2, <2>1 DEF SubType
    <2>3. \A s \in Nat : s # sub.start => ChargedTo(s)' = ChargedTo(s)
      BY <1>4, ChargeAdds
    <2>4. Cardinality(ChargedTo(sub.start)') = sub.consumed + 1
      <3>1. ChargedTo(sub.start)' = ChargedTo(sub.start) \cup {r}
        BY <1>2, <1>4, <2>2, ChargeAdds
      <3>2. Cardinality(ChargedTo(sub.start) \cup {r}) = Cardinality(ChargedTo(sub.start)) + 1
        BY ChargeAdds, FS_AddElement
      <3> QED
        BY <1>1, <3>1, <3>2 DEF PeriodInv
    <2>5. exec.close.pc \notin {"invoice", "roll"} /\ <<sub.start, sub.end>> \notin DOMAIN invoices
      BY <1>1, <1>2, <2>1 DEF PeriodInv
    <2>6. PeriodsInvoiced'
      <3>1. ASSUME NEW s \in 0 .. MaxDay, s < sub'.start, s % Period = 0
            PROVE  /\ <<s, s + Period>> \in DOMAIN invoices'
                   /\ invoices'[<<s, s + Period>>] =
                        computeInvoiceClose(sub'.plan, Cardinality(ChargedTo(s)'))
        <4>1. ChargedTo(s)' = ChargedTo(s)
          BY <1>2, <2>2, <2>3, <3>1
        <4> QED
          BY <1>1, <2>2, <3>1, <4>1, InvoicesRead DEF PeriodInv
      <3> QED
        BY <3>1, InvoicesReadNext
    <2>7. \A s \in Nat : sub.start < s /\ s # Unmade => ChargedTo(s)' = {}
      BY <1>1, <1>2, <2>3 DEF PeriodInv
    <2>8. <<sub'.start, sub'.end>> \notin DOMAIN invoices'
      BY <1>1, <2>2, <2>5
    <2>9. sub'.consumed = Cardinality(ChargedTo(sub.start)')
      BY <2>2, <2>4
    <2> QED
      BY <1>1, <2>2, <2>5, <2>6, <2>7, <2>8, <2>9 DEF PeriodInv, Unmade
  <1> QED
    BY <1>3, <1>4

LEMMA RecordBillingFigures ==
  ASSUME MeteringInv, NEW r, RecordBilling(r)
  PROVE  DailyInv'
  <1>1. UNCHANGED <<day, exec, recounted>> /\ daily' = Extend(daily, day, At(daily, day, 0) + 1)
    BY DEF RecordBilling
  <1>2. MeteringTypeOK /\ DailyInv /\ day \in 0 .. MaxDay
    BY DEF MeteringInv, MeteringTypeOK
  <1>3. ASSUME NEW d \in 0 .. MaxDay
        PROVE  /\ Cardinality(BilledOn(d)) \in Nat
               /\ Cardinality(BilledOn(d)') = Cardinality(BilledOn(d)) + (IF d = day THEN 1 ELSE 0)
    <2>1. IsFiniteSet(BilledOn(d)) /\ r \notin BilledOn(d)
      BY ChargeAdds
    <2>2. Cardinality(BilledOn(d)) \in Nat
      BY <2>1, FS_CardinalityType
    <2>3. BilledOn(d)' = BilledOn(d) \cup (IF d = day THEN {r} ELSE {})
      BY ChargeAdds
    <2>4. CASE d = day
      BY <2>1, <2>2, <2>3, <2>4, FS_AddElement
    <2>5. CASE d # day
      <3>1. BilledOn(d)' = BilledOn(d)
        BY <2>3, <2>5
      <3> QED
        BY <2>2, <2>5, <3>1
    <2> QED
      BY <2>2, <2>4, <2>5
  <1>4. ASSUME NEW d \in 0 .. MaxDay
        PROVE  /\ At(daily, d, 0) \in Nat
               /\ At(daily', d, 0) = At(daily, d, 0) + (IF d = day THEN 1 ELSE 0)
    BY <1>1, <1>2 DEF At, Extend, MeteringTypeOK
  <1>5. DailyFigures'
    <2> SUFFICES ASSUME NEW d \in 0 .. MaxDay
                 PROVE  /\ At(daily', d, 0) <= Cardinality(BilledOn(d)')
                        /\ d \notin recounted' => At(daily', d, 0) = Cardinality(BilledOn(d)')
      BY FiguresReadNext
    <2>1. /\ At(daily, d, 0) <= Cardinality(BilledOn(d))
          /\ d \notin recounted => At(daily, d, 0) = Cardinality(BilledOn(d))
      BY <1>2, FiguresRead DEF DailyInv
    <2> QED
      BY <1>1, <1>3, <1>4, <2>1
  <1>6. exec'.purge.pc = "write" =>
          \A d \in DOMAIN exec'.purge.seen.daily :
            exec'.purge.seen.daily[d] <= Cardinality(BilledOn(d)')
    BY <1>1, <1>3, ExecsKnow
  <1> QED
    BY <1>5, <1>6 DEF DailyInv, BilledOn

LEMMA CloseInvoicesKeeps ==
  ASSUME MeteringInv, CloseInvoices
  PROVE  MeteringInv'
  <1> DEFINE key == <<sub.start, sub.end>>
             amount == computeInvoiceClose(sub.plan, sub.consumed)
  <1>1. MeteringTypeOK /\ PeriodInv /\ DailyInv
    BY DEF MeteringInv
  <1>2. UNCHANGED <<day, sub, events, daily, job, recounted>>
    BY DEF CloseInvoices
  <1>3. exec.close.pc = "invoice" /\ exec.close.seen.sub = sub /\ sub.end <= day
    BY <1>1 DEF CloseInvoices, ExecAt, PeriodInv
  <1>4. invoices' = IF key \in DOMAIN invoices THEN invoices ELSE Extend(invoices, key, amount)
    BY <1>3 DEF CloseInvoices
  <1>5. sub.start \in Nat /\ sub.end \in Nat /\ Period \in Nat
    BY <1>1, MeteringAssumption DEF MeteringTypeOK, SubType
  <1>6. /\ DOMAIN exec' = DOMAIN exec /\ ExecOK(exec'.close) /\ ExecOK(exec'.purge)
        /\ exec'.close.pc = "roll" /\ exec'.close.seen = exec.close.seen
        /\ exec'.purge = exec.purge
    BY ExecsKnow DEF CloseInvoices, ExecGoes, ExecOK
  <1> HIDE DEF amount
  <1>7. /\ DOMAIN invoices' = DOMAIN invoices \cup {key}
        /\ \A k \in DOMAIN invoices : invoices'[k] = invoices[k]
        /\ key \notin DOMAIN invoices => invoices'[key] = amount
    BY <1>4 DEF Extend
  <1>8. MeteringTypeOK'
    BY <1>1, <1>2, <1>6, ExecsKnow, TypesStay
  <1>9. \A s : ChargedTo(s)' = ChargedTo(s) /\ BilledOn(s)' = BilledOn(s)
    BY <1>2 DEF ChargedTo, BilledOn
  <1>10. DailyInv'
    BY <1>1, <1>2, <1>6, <1>9, ExecsKnow, DailyStays
  <1>11. PeriodsInvoiced'
    <2>1. ASSUME NEW s \in 0 .. MaxDay, s < sub'.start, s % Period = 0
          PROVE  /\ <<s, s + Period>> \in DOMAIN invoices'
                 /\ invoices'[<<s, s + Period>>] =
                      computeInvoiceClose(sub'.plan, Cardinality(ChargedTo(s)'))
      <3>1. /\ <<s, s + Period>> \in DOMAIN invoices
            /\ invoices[<<s, s + Period>>] = computeInvoiceClose(sub.plan, Cardinality(ChargedTo(s)))
        BY <1>1, <1>2, <2>1, InvoicesRead DEF PeriodInv
      <3> QED
        BY <1>2, <1>7, <1>9, <3>1
    <2> QED
      BY <2>1, InvoicesReadNext
  <1>12. invoices'[key] = amount
    <2>1. key \in DOMAIN invoices => invoices[key] = amount
      BY <1>1 DEF PeriodInv, amount
    <2> QED
      BY <1>7, <2>1
  <1>13. \A s, e \in Nat : <<s, e>> \in DOMAIN invoices' => s <= sub.start
    <2> SUFFICES ASSUME NEW s \in Nat, NEW e \in Nat, <<s, e>> \in DOMAIN invoices'
                 PROVE  s <= sub.start
      OBVIOUS
    <2>1. CASE <<s, e>> \in DOMAIN invoices
      BY <1>1, <2>1 DEF PeriodInv
    <2>2. CASE <<s, e>> = key
      BY <1>5, <2>2
    <2> QED
      BY <1>7, <2>1, <2>2
  <1>14. /\ sub'.consumed = Cardinality(ChargedTo(sub.start)')
         /\ \A s \in Nat : sub.start < s /\ s # Unmade => ChargedTo(s)' = {}
    BY <1>1, <1>2, <1>9 DEF PeriodInv
  <1>15. PeriodInv'
    <2>1. sub'.start % Period = 0 /\ sub'.end = sub'.start + Period /\ sub'.start <= day'
      BY <1>1, <1>2 DEF PeriodInv
    <2>2. key \in DOMAIN invoices'
      BY <1>7
    <2>3. invoices'[<<sub'.start, sub'.end>>] = computeInvoiceClose(sub'.plan, sub'.consumed)
      BY <1>2, <1>12 DEF amount
    <2> QED
      BY <1>2, <1>3, <1>6, <1>11, <1>13, <1>14, <2>1, <2>2, <2>3 DEF PeriodInv, Unmade
  <1> QED
    BY <1>8, <1>10, <1>15 DEF MeteringInv

(* The roll ends a period that is invoiced, for what was charged to it, and    *)
(* opens one that nothing was charged to and nobody has invoiced.              *)
LEMMA CloseRollsKeeps ==
  ASSUME MeteringInv, CloseRolls
  PROVE  MeteringInv'
  <1>1. MeteringTypeOK /\ PeriodInv /\ DailyInv
    BY DEF MeteringInv
  <1>2. UNCHANGED <<day, invoices, events, daily, job, recounted>>
    BY DEF CloseRolls
  <1>3. exec.close.pc = "roll" /\ sub.end <= day
    BY <1>1 DEF CloseRolls, ExecAt, PeriodInv
  <1>4. sub' = Rolled
    BY <1>3 DEF CloseRolls
  <1>5. /\ sub.start \in Nat /\ sub.end \in Nat /\ Period \in Nat \ {0} /\ sub \in SubType
        /\ day \in 0 .. MaxDay /\ MaxDay \in Nat
    BY <1>1, MeteringAssumption DEF MeteringTypeOK, SubType
  <1>6. /\ sub'.start = sub.end /\ sub'.end = sub.end + Period /\ sub'.consumed = 0
        /\ sub'.plan = sub.plan /\ sub' \in SubType
    <2>1. sub' = [sub EXCEPT !.start = sub.end, !.end = sub.end + Period, !.consumed = 0]
      BY <1>4 DEF Rolled
    <2>2. PICK zero \in Nat : zero = 0
      OBVIOUS
    <2>3. sub' = [sub EXCEPT !.start = sub.end, !.end = sub.end + Period, !.consumed = zero]
      BY <2>1, <2>2, Zenon
    <2>4. PICK next \in Nat : next = sub.end + Period
      BY <1>5
    <2>5. sub' = [sub EXCEPT !.start = sub.end, !.end = next, !.consumed = zero]
      BY <2>3, <2>4, Zenon
    <2> QED
      BY <1>5, <2>2, <2>4, <2>5 DEF SubType
  <1>7. /\ DOMAIN exec' = DOMAIN exec /\ ExecOK(exec'.close) /\ ExecOK(exec'.purge)
        /\ exec'.close.pc = "mark" /\ exec'.purge = exec.purge
    BY ExecsKnow DEF CloseRolls, ExecGoes, ExecOK
  <1>8. MeteringTypeOK'
    BY <1>1, <1>2, <1>6, <1>7 DEF MeteringTypeOK
  <1>9. \A s : ChargedTo(s)' = ChargedTo(s) /\ BilledOn(s)' = BilledOn(s)
    BY <1>2 DEF ChargedTo, BilledOn
  <1>10. DailyInv'
    BY <1>1, <1>2, <1>7, <1>9, ExecsKnow, DailyStays
  <1>11. /\ sub.start % Period = 0 /\ sub.end = sub.start + Period
         /\ sub.consumed = Cardinality(ChargedTo(sub.start))
    BY <1>1 DEF PeriodInv
  <1>12. PeriodsInvoiced'
    <2>1. ASSUME NEW s \in 0 .. MaxDay, s < sub'.start, s % Period = 0
          PROVE  /\ <<s, s + Period>> \in DOMAIN invoices'
                 /\ invoices'[<<s, s + Period>>] =
                      computeInvoiceClose(sub'.plan, Cardinality(ChargedTo(s)'))
      <3>1. CASE s < sub.start
        <4>1. /\ <<s, s + Period>> \in DOMAIN invoices
              /\ invoices[<<s, s + Period>>] = computeInvoiceClose(sub.plan, Cardinality(ChargedTo(s)))
          BY <1>1, <2>1, <3>1, InvoicesRead DEF PeriodInv
        <4> QED
          BY <1>2, <1>6, <1>9, <4>1
      <3>2. CASE sub.start <= s
        <4>1. s < sub.start + Period
          BY <1>6, <1>11, <2>1
        <4>2. s = sub.start
          BY <1>5, <1>11, <2>1, <3>2, <4>1, OneMultiple
        <4>3. /\ <<sub.start, sub.end>> \in DOMAIN invoices
              /\ invoices[<<sub.start, sub.end>>] = computeInvoiceClose(sub.plan, sub.consumed)
          BY <1>1, <1>3 DEF PeriodInv
        <4> QED
          BY <1>2, <1>6, <1>9, <1>11, <4>2, <4>3
      <3> QED
        BY <1>5, <3>1, <3>2
    <2> QED
      BY <2>1, InvoicesReadNext
  <1>13. sub.start < sub.end /\ sub.end # Unmade
    BY <1>3, <1>5, <1>11 DEF Unmade
  <1>14. \A s \in Nat : sub.end <= s /\ s # Unmade => ChargedTo(s)' = {}
    <2> TAKE s \in Nat
    <2> HAVE sub.end <= s /\ s # Unmade
    <2>1. sub.start < s
      BY <1>5, <1>13
    <2> QED
      BY <1>1, <1>9, <2>1 DEF PeriodInv
  <1>15. sub'.consumed = Cardinality(ChargedTo(sub.start)')
    <2>1. PICK s \in Nat : s = sub.end
      BY <1>5
    <2>2. ChargedTo(s)' = {}
      BY <1>5, <1>13, <1>14, <2>1
    <2>3. Cardinality({}) = 0
      BY FS_EmptySet
    <2>4. ChargedTo(sub.start)' = {}
      BY <1>6, <2>1, <2>2 DEF ChargedTo
    <2> QED
      BY <1>6, <2>3, <2>4
  <1>16. /\ sub'.start % Period = 0 /\ sub'.end = sub'.start + Period /\ sub'.start <= day'
    BY <1>2, <1>3, <1>5, <1>6, <1>11, NextMultiple
  <1>17. \A s, e \in Nat : <<s, e>> \in DOMAIN invoices' => s <= sub.start
    BY <1>1, <1>2 DEF PeriodInv
  <1>18. <<sub'.start, sub'.end>> \notin DOMAIN invoices'
    BY <1>5, <1>6, <1>13, <1>17
  <1>19. \A s \in Nat : sub'.start < s /\ s # Unmade => ChargedTo(s)' = {}
    BY <1>5, <1>6, <1>14
  <1>20. \A s, e \in Nat : <<s, e>> \in DOMAIN invoices' => s <= sub'.start
    BY <1>5, <1>6, <1>13, <1>17
  <1>21. PeriodInv'
    BY <1>7, <1>12, <1>15, <1>16, <1>18, <1>19, <1>20 DEF PeriodInv, Unmade
  <1> QED
    BY <1>8, <1>10, <1>21 DEF MeteringInv

LEMMA PurgeRunsKeeps ==
  ASSUME MeteringInv, PurgeRuns
  PROVE  MeteringInv'
  <1>1. MeteringTypeOK /\ PeriodInv /\ DailyInv /\ day \in Nat
    BY DEF MeteringInv, MeteringTypeOK
  <1>2. UNCHANGED <<day, sub, invoices, daily, job, recounted>>
    BY DEF PurgeRuns
  <1>3. PICK old : events' = [r \in DOMAIN events |-> [events[r] EXCEPT !.linked = @ /\ r \notin old]]
    BY DEF PurgeRuns
  <1>4. /\ DOMAIN events' = DOMAIN events
        /\ \A r \in DOMAIN events :
             /\ events'[r] \in [day : 0 .. MaxDay, linked : BOOLEAN, period : Nat]
             /\ events'[r].day = events[r].day /\ events'[r].period = events[r].period
    <2>1. \A r \in DOMAIN events : events[r] \in [day : 0 .. MaxDay, linked : BOOLEAN, period : Nat]
      BY <1>1 DEF MeteringTypeOK
    <2> QED
      BY <1>3, <2>1
  <1>5. \A s : ChargedTo(s)' = ChargedTo(s) /\ BilledOn(s)' = BilledOn(s)
    BY <1>4 DEF ChargedTo, BilledOn
  <1>6. /\ DOMAIN exec' = DOMAIN exec /\ ExecOK(exec'.close) /\ ExecOK(exec'.purge)
        /\ exec'.purge.pc = "count" /\ exec'.close = exec.close
    BY ExecsKnow DEF PurgeRuns, ExecGoes, ExecOK
  <1>7. MeteringTypeOK'
    BY <1>1, <1>2, <1>4, <1>6 DEF MeteringTypeOK
  <1>8. PeriodInv'
    BY <1>1, <1>2, <1>5, <1>6, ExecsKnow, PeriodStays
  <1>9. DailyInv'
    BY <1>1, <1>2, <1>5, <1>6, DailyStays
  <1> QED
    BY <1>7, <1>8, <1>9 DEF MeteringInv

(* The write replaces figures by those of the snapshot, and notes which.       *)
LEMMA PurgeWritesKeeps ==
  ASSUME MeteringInv, PurgeWrites
  PROVE  MeteringInv'
  <1> DEFINE counts == exec.purge.seen.daily
  <1>1. MeteringTypeOK /\ PeriodInv /\ DailyInv /\ day \in Nat
    BY DEF MeteringInv, MeteringTypeOK
  <1>2. /\ UNCHANGED <<day, sub, invoices, events, job>> /\ exec.purge.pc = "write"
        /\ daily' = Recount(counts) /\ recounted' = recounted \cup DOMAIN counts
    BY DEF PurgeWrites, ExecAt
  <1>3. /\ DOMAIN counts \subseteq 0 .. MaxDay
        /\ \A d \in DOMAIN counts : counts[d] \in Nat /\ counts[d] <= Cardinality(BilledOn(d))
    BY <1>2, ExecsKnow
  <1>4. /\ DOMAIN exec' = DOMAIN exec /\ ExecOK(exec'.close) /\ ExecOK(exec'.purge)
        /\ exec'.purge.pc = "mark" /\ exec'.close = exec.close
    BY ExecsKnow DEF PurgeWrites, ExecGoes, ExecOK
  <1> HIDE DEF counts
  <1>5. /\ DOMAIN daily' = DOMAIN daily \cup DOMAIN counts
        /\ \A d \in DOMAIN daily' : daily'[d] = IF d \in DOMAIN counts THEN counts[d] ELSE daily[d]
    BY <1>2 DEF Recount
  <1>6. MeteringTypeOK'
    BY <1>1, <1>2, <1>3, <1>4, <1>5 DEF MeteringTypeOK
  <1>7. \A s : ChargedTo(s)' = ChargedTo(s) /\ BilledOn(s)' = BilledOn(s)
    BY <1>2 DEF ChargedTo, BilledOn
  <1>8. PeriodInv'
    BY <1>1, <1>2, <1>4, <1>7, ExecsKnow, PeriodStays
  <1>9. DailyFigures'
    <2> SUFFICES ASSUME NEW d \in 0 .. MaxDay
                 PROVE  /\ At(daily', d, 0) <= Cardinality(BilledOn(d)')
                        /\ d \notin recounted' => At(daily', d, 0) = Cardinality(BilledOn(d)')
      BY FiguresReadNext
    <2>1. /\ At(daily, d, 0) <= Cardinality(BilledOn(d))
          /\ d \notin recounted => At(daily, d, 0) = Cardinality(BilledOn(d))
      BY <1>1, FiguresRead DEF DailyInv
    <2>2. CASE d \in DOMAIN counts
      BY <1>2, <1>3, <1>5, <1>7, <2>2 DEF At
    <2>3. CASE d \notin DOMAIN counts
      <3>1. At(daily', d, 0) = At(daily, d, 0)
        BY <1>5, <2>3 DEF At
      <3> QED
        BY <1>2, <1>7, <2>1, <2>3, <3>1
    <2> QED
      BY <2>2, <2>3
  <1> QED
    BY <1>4, <1>6, <1>8, <1>9 DEF MeteringInv, DailyInv

----------------------------------------------------------------------------

LEMMA MeteringStep == MeteringInv /\ [MeteringNext]_meteringVars => MeteringInv'
  <1> SUFFICES ASSUME MeteringInv, [MeteringNext]_meteringVars PROVE MeteringInv'
    OBVIOUS
  <1>1. CASE DayPasses
    BY <1>1, DayPassesKeeps
  <1>2. ASSUME NEW r \in RunIds, RunAppears(r) PROVE MeteringInv'
    BY <1>2, RunAppearsKeeps
  <1>3. ASSUME NEW r \in RunIds, RecordBilling(r) PROVE MeteringInv'
    BY <1>3, RecordBillingTypes, RecordBillingCharges, RecordBillingFigures DEF MeteringInv
  <1>4. ASSUME NEW type \in JobTypes,
               \/ DispatchDue(type) \/ WorkerTakes(type) \/ MarkCompleted(type)
               \/ JobFinishes(type) \/ JobFails(type)
        PROVE  MeteringInv'
    BY <1>4, JobStep
  <1>5. CASE CloseReads
    BY <1>5, CloseReadsKeeps
  <1>6. CASE CloseInvoices
    BY <1>6, CloseInvoicesKeeps
  <1>7. CASE CloseRolls
    BY <1>7, CloseRollsKeeps
  <1>8. CASE PurgeRuns
    BY <1>8, PurgeRunsKeeps
  <1>9. CASE PurgeCounts
    BY <1>9, PurgeCountsKeeps
  <1>10. CASE PurgeWrites
    BY <1>10, PurgeWritesKeeps
  <1>11. CASE UNCHANGED meteringVars
    BY <1>11, ExecsKnow, JobsMove DEF meteringVars
  <1> QED
    BY <1>1, <1>2, <1>3, <1>4, <1>5, <1>6, <1>7, <1>8, <1>9, <1>10, <1>11 DEF MeteringNext

(* However the attempts of the close and of the purge interleave with charges   *)
(* and die between their statements: every period the subscription has left    *)
(* has the one invoice of what was charged to it, and no daily figure counts    *)
(* a run twice (system-jobs.ts, billing.ts).                                  *)
THEOREM UsageIsAccounted == MeteringSpec => []UsageAccounted
  <1>1. MeteringInv => UsageAccounted
    BY DEF MeteringInv, PeriodInv, DailyInv, UsageAccounted
  <1> QED
    BY <1>1, MeteringBegins, MeteringStep, PTL DEF MeteringSpec

-----------------------------------------------------------------------------
(* The manifest validator *)

AllSlots == {"steps", "then", "else", "alias"}
AllFlaws == {NoFlaw, "config", "body", "header"}

(* A step lies at the top or in an earlier step, and has a flaw that its type *)
(* can have.                                                                 *)
ManifestInv ==
  /\ steps \in Seq([parent : Nat, slot : AllSlots, type : StepTypes \cup {Unknown},
                    flaw : AllFlaws, id : Nat])
  /\ \A i \in Ids : steps[i].parent \in 0..(i - 1) /\ steps[i].flaw \in Flaws(steps[i].type)

(* A set of numbers that is not empty has a least one. *)
LEMMA LeastOf ==
  ASSUME NEW T \in SUBSET Nat, T # {}
  PROVE  \E t \in T : \A u \in T : t <= u
  <1>1. PICK t \in T : \A u \in T : <<u, t>> \notin OpToRel(<, Nat)
    BY NatLessThanWellFounded, WFMin
  <1>2. ASSUME NEW u \in T PROVE t <= u
    <2>1. ~(u < t)
      BY <1>1 DEF OpToRel
    <2>. QED  BY <2>1
  <1>. QED  BY <1>2

(* The way to a step is defined by what it says, as no step is its own ancestor. *)
LEMMA WayExists ==
  ASSUME ManifestInv
  PROVE  \E f : f = [i \in {Outermost} \cup Ids |->
                       IF i = Outermost THEN {} ELSE f[steps[i].parent] \cup {steps[i].slot}]
  <1>. DEFINE Way(f, k) == f = [i \in 0..k |->
                 IF i = 0 THEN {} ELSE f[steps[i].parent] \cup {steps[i].slot}]
              T == {k \in 0..Len(steps) : ~\E f : Way(f, k)}
  <1>0. /\ Len(steps) \in Nat /\ Ids = 1..Len(steps)
        /\ \A i \in Ids : steps[i].parent \in 0..(i - 1)
    BY DEF ManifestInv, Ids
  <1>1. T = {}
    <2>. SUFFICES ASSUME T # {} PROVE FALSE
      OBVIOUS
    <2>1. PICK k \in T : \A u \in T : k <= u
      <3>. T \in SUBSET Nat
        BY <1>0
      <3>. HIDE DEF T
      <3>. QED  BY LeastOf
    <2>2. k \in 0..Len(steps) /\ ~\E f : Way(f, k)
      OBVIOUS
    <2>3. k # 0
      <3>1. Way([i \in 0..0 |-> {}], 0)
        OBVIOUS
      <3>. QED  BY <2>2, <3>1
    <2>4. PICK f : Way(f, k - 1)
      <3>1. k - 1 \in 0..Len(steps) /\ ~(k <= k - 1)
        BY <1>0, <2>2, <2>3
      <3>2. k - 1 \notin T
        <4>. HIDE DEF T
        <4>. QED  BY <2>1, <3>1
      <3>. QED  BY <3>1, <3>2
    <2>. DEFINE g == [i \in 0..k |-> IF i = k THEN f[steps[k].parent] \cup {steps[k].slot} ELSE f[i]]
    <2>5. ASSUME NEW i \in 0..k
          PROVE  g[i] = IF i = 0 THEN {} ELSE g[steps[i].parent] \cup {steps[i].slot}
      <3>1. i # 0 => steps[i].parent \in 0..(i - 1)
        BY <1>0, <2>2
      <3>2. i # 0 => g[steps[i].parent] = f[steps[i].parent]
        BY <1>0, <2>2, <3>1
      <3>3. CASE i = k
        BY <2>3, <3>2, <3>3
      <3>4. CASE i # k
        <4>1. i \in 0..(k - 1) /\ g[i] = f[i]
          BY <1>0, <2>2, <3>4
        <4>2. f[i] = IF i = 0 THEN {} ELSE f[steps[i].parent] \cup {steps[i].slot}
          BY <2>4, <4>1
        <4>. QED  BY <3>2, <4>1, <4>2
      <3>. QED  BY <3>3, <3>4
    <2>6. Way(g, k)
      <3>. DEFINE rhs == [i \in 0..k |-> IF i = 0 THEN {} ELSE g[steps[i].parent] \cup {steps[i].slot}]
      <3>1. \A i \in 0..k : g[i] = rhs[i]
        <4>. HIDE DEF g
        <4>. QED  BY <2>5
      <3>. QED  BY <3>1
    <2>. QED  BY <2>2, <2>6
  <1>2. PICK f : Way(f, Len(steps))
    <2>1. Len(steps) \in 0..Len(steps) /\ Len(steps) \notin T
      <3>. HIDE DEF T
      <3>. QED  BY <1>0, <1>1
    <2>. HIDE DEF Way
    <2>. QED  BY <2>1
  <1>3. {Outermost} \cup Ids = 0..Len(steps)
    BY <1>0 DEF Outermost
  <1>. QED  BY <1>2, <1>3 DEF Outermost

LEMMA WayUnfolds ==
  ASSUME ManifestInv, NEW i \in Ids
  PROVE  way[i] = way[steps[i].parent] \cup {steps[i].slot} /\ way[0] = {}
  <1>1. way = [j \in {Outermost} \cup Ids |->
                 IF j = Outermost THEN {} ELSE way[steps[j].parent] \cup {steps[j].slot}]
    BY WayExists DEF way
  <1>2. i # Outermost /\ i \in {Outermost} \cup Ids
    BY DEF ManifestInv, Ids, Outermost
  <1>. QED  BY <1>1, <1>2 DEF Outermost

(* Without the alias, the rules look at every step. *)
LEMMA EveryStepIsLookedAt ==
  ASSUME ManifestInv, \A i \in Ids : steps[i].slot # "alias"
  PROVE  flattenSteps = Ids
  <1>. DEFINE T == {i \in Ids : "alias" \in way[i]}
  <1>1. T = {}
    <2>. SUFFICES ASSUME T # {} PROVE FALSE
      OBVIOUS
    <2>1. PICK i \in T : \A u \in T : i <= u
      <3>. T \in SUBSET Nat
        BY DEF Ids, ManifestInv
      <3>. HIDE DEF T
      <3>. QED  BY LeastOf
    <2>2. "alias" \in way[steps[i].parent]
      BY WayUnfolds
    <2>3. steps[i].parent \in 0..(i - 1) /\ i \in Nat
      BY DEF ManifestInv, Ids
    <2>4. steps[i].parent # 0
      BY <2>2, WayUnfolds
    <2>5. steps[i].parent \in Ids /\ ~(i <= steps[i].parent)
      <3>1. i \in 1..Len(steps) /\ Ids = 1..Len(steps) /\ Len(steps) \in Nat
        BY DEF ManifestInv, Ids
      <3>. QED  BY <2>3, <2>4, <3>1
    <2>. QED  BY <2>1, <2>2, <2>5
  <1>. QED  BY <1>1 DEF flattenSteps

LEMMA AcceptedRuns == ManifestInv => AcceptedCanRun
  <1>. SUFFICES ASSUME ManifestInv, validateManifest, \A i \in Ids : steps[i].slot # "alias"
               PROVE  /\ \A i, j \in Executed : steps[i].id = steps[j].id => i = j
                      /\ \A i, j \in Executed : steps[i].type = "reply" /\ steps[j].type = "reply" => i = j
                      /\ (\E i \in Executed : steps[i].type = "reply") =>
                            \E t \in triggers : t.type = "webhook" /\ t.flaw = NoFlaw
                      /\ \A i \in Executed :
                            depth[i] <= MAX_NESTING_DEPTH /\ steps[i].flaw = NoFlaw
                            /\ steps[i].type # "parallel"
    BY DEF AcceptedCanRun
  <1>0. flattenSteps = Ids
    BY EveryStepIsLookedAt
  <1>1. Executed \subseteq Ids
    BY DEF Executed
  <1>2. \A i, j \in Ids : steps[i].id = steps[j].id => i = j
    BY <1>0 DEF validateManifest, checkDuplicateIds
  <1>3. ASSUME NEW i \in Ids, NEW j \in Ids, steps[i].type = "reply", steps[j].type = "reply"
        PROVE  i = j
    <2>. DEFINE R == {k \in Ids : steps[k].type = "reply"}
    <2>1. IsFiniteSet(R) /\ Cardinality(R) <= 1
      <3>1. IsFiniteSet(Ids)
        BY FS_Interval DEF Ids, ManifestInv
      <3>2. countReplySteps <= 1
        BY DEF validateManifest
      <3>. QED  BY <1>0, <3>1, <3>2, FS_Subset DEF countReplySteps
    <2>2. {i, j} \subseteq R
      BY <1>3
    <2>3. i # j => Cardinality({i, j}) = 2
      <3>1. IsFiniteSet({i}) /\ Cardinality({i}) = 1
        BY FS_Singleton
      <3>2. i # j => Cardinality({i} \cup {j}) = 2
        BY <3>1, FS_AddElement
      <3>3. {i} \cup {j} = {i, j}
        OBVIOUS
      <3>. QED  BY <3>2, <3>3
    <2>4. Cardinality({i, j}) <= Cardinality(R) /\ Cardinality(R) \in Nat
      BY <2>1, <2>2, FS_Subset, FS_CardinalityType
    <2>. QED  BY <2>1, <2>3, <2>4
  <1>4. ASSUME NEW i \in Ids, steps[i].type = "reply"
        PROVE  /\ \E t \in triggers : t.type = "webhook" /\ t.flaw = NoFlaw
               /\ steps[i].flaw # "header"
    <2>1. validateReplyStep(i) /\ validateTriggers
      BY <1>0, <1>4 DEF validateManifest
    <2>. QED  BY <2>1 DEF validateReplyStep, hasWebhookTrigger, validateTriggers
  <1>5. ASSUME NEW i \in Ids
        PROVE  depth[i] <= MAX_NESTING_DEPTH /\ steps[i].type # "parallel"
    BY <1>0 DEF validateManifest, getMaxNestingDepth
  <1>6. ASSUME NEW i \in Ids
        PROVE  steps[i].flaw = NoFlaw
    <2>1. ConfigHolds(i)
      <3>1. i \in Walked => StepSchemaHolds(i)
        BY DEF validateManifest, ManifestSchemaHolds
      <3>2. i \notin Walked => ConfigHolds(i)
        BY <1>0 DEF validateManifest
      <3>. QED  BY <3>1, <3>2 DEF StepSchemaHolds
    <2>2. steps[i].type = "http" => steps[i].flaw \notin {"body", "header"}
      BY <1>0 DEF validateManifest, validateHttpStep
    <2>3. steps[i].type = "reply" => steps[i].flaw # "header"
      BY <1>4
    <2>4. steps[i].flaw \in Flaws(steps[i].type)
      BY DEF ManifestInv
    <2>. QED  BY <2>1, <2>2, <2>3, <2>4 DEF Flaws, ConfigHolds
  <1>. QED  BY <1>1, <1>2, <1>3, <1>4, <1>5, <1>6

LEMMA StepAdded ==
  ASSUME ManifestInv, NEW parent \in {Outermost} \cup Ids, NEW slot \in AllSlots,
         NEW type \in StepTypes \cup {Unknown}, NEW flaw \in Flaws(type), NEW id \in Nat,
         AddStep(parent, slot, type, flaw, id)
  PROVE  ManifestInv'
  <1>. DEFINE rec == [parent |-> parent, slot |-> slot, type |-> type, flaw |-> flaw, id |-> id]
              Rec == [parent : Nat, slot : AllSlots, type : StepTypes \cup {Unknown},
                      flaw : AllFlaws, id : Nat]
  <1>1. steps' = Append(steps, rec) /\ steps \in Seq(Rec)
    BY DEF AddStep, ManifestInv
  <1>2. rec \in Rec
    <2>1. parent \in Nat
      BY DEF Outermost, Ids, ManifestInv
    <2>2. flaw \in AllFlaws
      <3>1. CASE type = "http"
        BY <3>1 DEF Flaws, AllFlaws
      <3>2. CASE type = "reply"
        BY <3>2 DEF Flaws, AllFlaws
      <3>3. CASE type = "condition"
        BY <3>3 DEF Flaws, AllFlaws
      <3>4. CASE type \notin {"http", "reply", "condition"}
        <4>1. Flaws(type) = {NoFlaw}
          BY <3>4 DEF Flaws
        <4>. QED  BY <4>1 DEF AllFlaws
      <3>. QED  BY <3>1, <3>2, <3>3, <3>4
    <2>. QED  BY <2>1, <2>2
  <1>3. steps' \in Seq(Rec) /\ Len(steps') = Len(steps) + 1 /\ Len(steps) \in Nat
        /\ Ids = 1..Len(steps) /\ Ids' = 1..Len(steps')
    <2>. HIDE DEF rec, Rec
    <2>. QED  BY <1>1, <1>2 DEF Ids
  <1>4. ASSUME NEW i \in Ids'
        PROVE  steps'[i].parent \in 0..(i - 1) /\ steps'[i].flaw \in Flaws(steps'[i].type)
    <2>1. CASE i \in Ids
      <3>1. steps'[i] = steps[i]
        <4>. HIDE DEF rec, Rec
        <4>. QED  BY <1>1, <1>2, <1>3, <2>1
      <3>. QED  BY <2>1, <3>1 DEF ManifestInv
    <2>2. CASE i \notin Ids
      <3>1. i = Len(steps) + 1
        BY <1>3, <2>2
      <3>2. steps'[i] = rec
        <4>. HIDE DEF rec, Rec
        <4>. QED  BY <1>1, <1>2, <1>3, <3>1
      <3>3. parent \in 0..(i - 1)
        BY <1>3, <3>1 DEF Outermost
      <3>. QED  BY <3>2, <3>3
    <2>. QED  BY <2>1, <2>2
  <1>. QED  BY <1>3, <1>4 DEF ManifestInv

(* The steps of an accepted manifest that the executor reaches have ids of    *)
(* their own, one reply at most and a webhook to wait for it, the documented  *)
(* depth and a config that holds, for every list of triggers and inputs and   *)
(* every number of steps, nested in any way.                                 *)
THEOREM ManifestAccepted == ManifestSpec => []AcceptedCanRun
  <1>1. ManifestInit => ManifestInv
    BY DEF ManifestInit, ManifestInv, Ids
  <1>2. ManifestInv /\ [ManifestNext]_manifestVars => ManifestInv'
    <2>. SUFFICES ASSUME ManifestInv, [ManifestNext]_manifestVars PROVE ManifestInv'
      OBVIOUS
    <2>1. CASE ManifestNext
      <3>1. PICK parent \in {Outermost} \cup Ids, slot \in {"steps", "then", "else", "alias"},
                 type \in StepTypes \cup {Unknown} :
              \E flaw \in Flaws(type), id \in {Len(steps) + 1} \cup {steps[i].id : i \in Ids} :
                 AddStep(parent, slot, type, flaw, id)
        BY <2>1 DEF ManifestNext
      <3>2. PICK flaw \in Flaws(type), id \in {Len(steps) + 1} \cup {steps[i].id : i \in Ids} :
                 AddStep(parent, slot, type, flaw, id)
        BY <3>1
      <3>3. id \in Nat
        <4>1. Len(steps) + 1 \in Nat
          BY DEF ManifestInv
        <4>2. ASSUME NEW i \in Ids PROVE steps[i].id \in Nat
          <5>. DEFINE Rec == [parent : Nat, slot : AllSlots, type : StepTypes \cup {Unknown},
                              flaw : AllFlaws, id : Nat]
          <5>1. steps \in Seq(Rec)
            BY DEF ManifestInv
          <5>2. steps[i] \in Rec
            <6>. HIDE DEF Rec
            <6>. QED  BY <5>1 DEF Ids
          <5>. QED  BY <5>2
        <4>3. CASE id \in {steps[i].id : i \in Ids}
          <5>1. PICK i \in Ids : id = steps[i].id
            BY <4>3
          <5>. QED  BY <4>2, <5>1
        <4>. QED  BY <4>1, <4>3
      <3>4. slot \in AllSlots
        BY DEF AllSlots
      <3>. QED  BY <3>2, <3>3, <3>4, StepAdded
    <2>2. CASE UNCHANGED manifestVars
      BY <2>2 DEF manifestVars, ManifestInv, Ids
    <2>. QED  BY <2>1, <2>2
  <1>. QED  BY <1>1, <1>2, AcceptedRuns, PTL DEF ManifestSpec

-----------------------------------------------------------------------------
(* Schedules *)

LEMMA MinIsLeast ==
  ASSUME NEW T \in SUBSET Nat, T # {}
  PROVE  Min(T) \in T /\ \A u \in T : Min(T) <= u
  <1>1. \E t \in T : \A u \in T : t <= u
    BY LeastOf
  <1>. QED  BY <1>1 DEF Min

(* Division with a remainder. *)
LEMMA DivMod ==
  ASSUME NEW a \in Nat, NEW b \in Nat \ {0}
  PROVE  /\ a \div b \in Nat /\ a % b \in 0..(b - 1)
         /\ a = (a \div b) * b + (a % b)
  <1>1. a \div b \in Int /\ a % b \in 0..(b - 1)
    OBVIOUS
  <1>2. a = (a \div b) * b + (a % b)
    OBVIOUS
  <1>3. a \div b \in Nat
    <2>1. SUFFICES ASSUME a \div b <= -1 PROVE FALSE
      BY <1>1
    <2>2. (a \div b) * b <= (-1) * b
      BY <1>1, <2>1
    <2>. QED  BY <1>1, <1>2, <2>2
  <1>. QED  BY <1>1, <1>2, <1>3

LEMMA DivModUnique ==
  ASSUME NEW b \in Nat \ {0}, NEW q \in Nat, NEW r \in 0..(b - 1)
  PROVE  (q * b + r) \div b = q /\ (q * b + r) % b = r
  OBVIOUS

LEMMA DivMonotone ==
  ASSUME NEW a \in Nat, NEW c \in Nat, NEW b \in Nat \ {0}
  PROVE  /\ a <= c => a \div b <= c \div b
         /\ a < (c \div b + 1) * b => a \div b <= c \div b
         /\ (a \div b < c => a < c * b) /\ (a < c * b => a \div b < c)
  <1>. DEFINE qa == a \div b  qc == c \div b
  <1>1. qa \in Nat /\ qc \in Nat /\ qa * b <= a /\ a < (qa + 1) * b
        /\ qc * b <= c /\ c < (qc + 1) * b
    BY DivMod
  <1>. HIDE DEF qa, qc
  <1>2. ASSUME NEW x \in Nat, NEW y \in Nat, x < y PROVE (x + 1) * b <= y * b
    BY <1>2
  <1>3. qc < qa => (qc + 1) * b <= qa * b
    BY <1>1, <1>2
  <1>4. qa < c => (qa + 1) * b <= c * b
    BY <1>1, <1>2
  <1>5. c <= qa => c * b <= qa * b
    <2>1. c < qa => (c + 1) * b <= qa * b
      BY <1>1, <1>2
    <2>. QED  BY <1>1, <2>1
  <1>. QED  BY <1>1, <1>3, <1>4, <1>5 DEF qa, qc


LEMMA CronParameters ==
  /\ MinutesInHour \in Nat \ {0} /\ HoursInDay \in Nat \ {0} /\ DaysInWeek \in Nat \ {0}
  /\ SearchDays \in Nat \ {0}
  BY CronAssumption

LEMMA LongestMonthExists == LongestMonth \in Nat \ {0}
  <1>. DEFINE L == Len(MonthLengths)
              Longest(m, k) == m \in 1..k /\ \A j \in 1..k : MonthLengths[j] <= MonthLengths[m]
              T == {k \in 1..L : ~\E m \in 1..k : Longest(m, k)}
  <1>0. /\ L \in Nat \ {0} /\ DOMAIN MonthLengths = 1..L
        /\ \A m \in 1..L : MonthLengths[m] \in Nat \ {0}
    BY CronAssumption
  <1>1. T = {}
    <2>. SUFFICES ASSUME T # {} PROVE FALSE
      OBVIOUS
    <2>1. PICK k \in T : \A u \in T : k <= u
      <3>. T \in SUBSET Nat
        BY <1>0
      <3>. HIDE DEF T
      <3>. QED  BY LeastOf
    <2>2. k \in 1..L /\ k \in Nat /\ ~\E m \in 1..k : Longest(m, k)
      BY <1>0
    <2>3. k # 1
      <3>1. k = 1 => Longest(1, k)
        BY <1>0
      <3>. QED  BY <2>2, <3>1
    <2>4. PICK m \in 1..(k - 1) : Longest(m, k - 1)
      <3>1. k - 1 \in 1..L /\ ~(k <= k - 1)
        BY <1>0, <2>2, <2>3
      <3>2. k - 1 \notin T
        <4>. HIDE DEF T
        <4>. QED  BY <2>1, <3>1
      <3>. QED  BY <3>1, <3>2
    <2>5. m \in 1..k /\ k \in 1..k
      BY <2>2
    <2>6. ASSUME NEW j \in 1..k
          PROVE  /\ MonthLengths[j] \in Nat /\ MonthLengths[m] \in Nat /\ MonthLengths[k] \in Nat
                 /\ MonthLengths[j] <= MonthLengths[m] \/ j = k
      <3>1. j \in 1..L /\ m \in 1..L /\ k \in 1..L /\ (j = k \/ j \in 1..(k - 1))
        <4>. HIDE DEF L, T
        <4>. QED  BY <1>0, <2>2
      <3>. HIDE DEF L, T
      <3>. QED  BY <1>0, <2>4, <3>1
    <2>7. CASE MonthLengths[k] <= MonthLengths[m]
      <3>1. \A j \in 1..k : MonthLengths[j] <= MonthLengths[m]
        BY <2>6, <2>7
      <3>. QED  BY <2>2, <2>5, <3>1
    <2>8. CASE ~(MonthLengths[k] <= MonthLengths[m])
      <3>1. ASSUME NEW j \in 1..k PROVE MonthLengths[j] <= MonthLengths[k]
        <4>1. PICK a \in Nat, b \in Nat, c \in Nat :
                a = MonthLengths[j] /\ b = MonthLengths[m] /\ c = MonthLengths[k]
          BY <2>6
        <4>2. a <= b \/ a = c
          BY <2>6, <4>1, Zenon
        <4>3. ~(c <= b)
          BY <2>8, <4>1, Zenon
        <4>4. a <= c
          BY <4>2, <4>3
        <4>. QED  BY <4>1, <4>4, Zenon
      <3>. QED  BY <2>2, <2>5, <3>1
    <2>. QED  BY <2>7, <2>8
  <1>2. PICK m \in 1..L : Longest(m, L)
    <2>1. L \in 1..L /\ L \notin T
      <3>. HIDE DEF T
      <3>. QED  BY <1>0, <1>1
    <2>. HIDE DEF Longest
    <2>. QED  BY <2>1
  <1>. DEFINE S == {MonthLengths[j] : j \in DOMAIN MonthLengths}
  <1>3. MonthLengths[m] \in S /\ \A y \in S : MonthLengths[m] >= y
    BY <1>0, <1>2
  <1>4. Max(S) \in S
    <2>. HIDE DEF S
    <2>. QED  BY <1>3 DEF Max
  <1>. QED  BY <1>0, <1>4 DEF LongestMonth

(* The five fields and their limits. *)
LEMMA Limits ==
  /\ FIELD_LIMITS[1] = <<0, MinutesInHour - 1>> /\ FIELD_LIMITS[2] = <<0, HoursInDay - 1>>
  /\ FIELD_LIMITS[3] = <<1, LongestMonth>> /\ FIELD_LIMITS[5] = <<0, DaysInWeek>>
  /\ \A i \in 1..5 : FIELD_LIMITS[i][1] \in Int /\ FIELD_LIMITS[i][2] \in Int
  <1>1. LongestMonth \in Int /\ Len(MonthLengths) \in Int
    BY LongestMonthExists, CronAssumption
  <1>2. /\ FIELD_LIMITS[1] = <<0, MinutesInHour - 1>> /\ FIELD_LIMITS[2] = <<0, HoursInDay - 1>>
        /\ FIELD_LIMITS[3] = <<1, LongestMonth>> /\ FIELD_LIMITS[4] = <<1, Len(MonthLengths)>>
        /\ FIELD_LIMITS[5] = <<0, DaysInWeek>>
    BY DEF FIELD_LIMITS
  <1>3. \A i \in 1..5 : i \in {1, 2, 3, 4, 5}
    OBVIOUS
  <1>. QED  BY <1>1, <1>2, <1>3, CronParameters, SMTT(30)

(* What the validator lets through, the server parses. *)
LEMMA ValidatedParses ==
  ASSUME NEW expr \in Schedules, isValidCronExpression(expr), NEW i \in 1..5, NEW p \in expr[i]
  PROVE  /\ ~BadPiece(p, FIELD_LIMITS[i][1], FIELD_LIMITS[i][2])
         /\ PieceValues(p, FIELD_LIMITS[i][1], FIELD_LIMITS[i][2])
               \subseteq FIELD_LIMITS[i][1]..FIELD_LIMITS[i][2]
  <1>1. PICK lo \in Int, hi \in Int : lo = FIELD_LIMITS[i][1] /\ hi = FIELD_LIMITS[i][2]
    BY Limits
  <1>2. isValidCronField(expr[i], lo, hi)
    BY <1>1 DEF isValidCronExpression
  <1>3. \/ p = <<"star">> \/ p = <<"junk">>
        \/ p[1] \in {"step", "value"} /\ p[2] \in Int
        \/ p[1] = "range" /\ p[2] \in Int /\ p[3] \in Int
    BY CronAssumption
  <1>4. ~BadPiece(p, lo, hi) /\ PieceValues(p, lo, hi) \subseteq lo..hi
    <2>1. CASE p = <<"star">>
      <3>1. p[1] = "star" /\ p # <<"junk">>
        BY <2>1
      <3>. QED  BY <3>1 DEF BadPiece, PieceValues, Junk
    <2>2. CASE p[1] = "step"
      <3>1. p[2] \in 1..hi /\ p # <<"junk">> /\ p # <<"star">>
        BY <1>2, <2>2 DEF isValidCronField, Star
      <3>. QED  BY <2>2, <3>1 DEF BadPiece, PieceValues, Junk
    <2>3. CASE p[1] = "range"
      <3>1. p[2] \in Int /\ p[3] \in Int /\ p # <<"junk">> /\ p # <<"star">>
        BY <1>3, <2>3
      <3>2. lo <= p[2] /\ p[2] <= p[3] /\ p[3] <= hi
        BY <1>2, <2>3, <3>1 DEF isValidCronField, Star
      <3>. QED  BY <2>3, <3>1, <3>2 DEF BadPiece, PieceValues, Junk
    <2>4. CASE p[1] = "value"
      <3>1. p[2] \in lo..hi /\ p # <<"junk">> /\ p # <<"star">>
        BY <1>2, <2>4 DEF isValidCronField, Star
      <3>. QED  BY <2>4, <3>1 DEF BadPiece, PieceValues, Junk
    <2>5. CASE p = <<"junk">>
      <3>1. p[1] = "junk" /\ p # <<"star">>
        BY <2>5
      <3>. QED  BY <1>2, <3>1 DEF isValidCronField, Star
    <2>. QED  BY <1>3, <2>1, <2>2, <2>3, <2>4, <2>5
  <1>. QED  BY <1>1, <1>4

(* A field lists values within its limits. *)
LEMMA ListedWithin ==
  ASSUME NEW expr \in Schedules, isValidCronExpression(expr), NEW i \in 1..5
  PROVE  /\ Listed(expr[i], i) \subseteq FIELD_LIMITS[i][1]..FIELD_LIMITS[i][2]
         /\ parseCronFieldList(expr)[i] = Listed(expr[i], i)
  BY ValidatedParses DEF Listed, parseCronField, parseCronFieldList


(* The days that the server takes are those that the two day fields name.    *)
LEMMA DaysAgree ==
  ASSUME NEW expr \in Schedules, isValidCronExpression(expr), NEW d \in Nat,
         DaysInWeek \notin Listed(expr[5], 5) \/ Days(expr[5]) = 0..(DaysInWeek - 1)
  PROVE  DayOk(parseCronFieldList(expr), d) <=>
           /\ MonthOf(d) \in Listed(expr[4], 4)
           /\ IF ~Restricts(Listed(expr[3], 3), 1..LongestMonth)
              THEN DayOfWeek(d) \in Days(expr[5])
              ELSE IF ~Restricts(Days(expr[5]), 0..(DaysInWeek - 1))
                   THEN DayOfMonth(d) \in Listed(expr[3], 3)
                   ELSE DayOfMonth(d) \in Listed(expr[3], 3) \/ DayOfWeek(d) \in Days(expr[5])
  <1>. DEFINE L3 == Listed(expr[3], 3)  L4 == Listed(expr[4], 4)  L5 == Listed(expr[5], 5)
              W == DaysInWeek  D == Days(expr[5])  sets == parseCronFieldList(expr)
  <1>0. sets[3] = L3 /\ sets[4] = L4 /\ sets[5] = L5
    BY ListedWithin
  <1>1. (Cardinality(L3) # LongestMonth) <=> ~(1..LongestMonth \subseteq L3)
    <2>1. L3 \subseteq 1..LongestMonth
      BY ListedWithin, Limits
    <2>2. IsFiniteSet(1..LongestMonth) /\ Cardinality(1..LongestMonth) = LongestMonth
      BY LongestMonthExists, FS_Interval
    <2>3. /\ IsFiniteSet(L3) /\ Cardinality(L3) <= LongestMonth
          /\ Cardinality(L3) = LongestMonth => L3 = 1..LongestMonth
      <3>. HIDE DEF L3
      <3>. QED  BY <2>1, <2>2, FS_Subset
    <2>. QED  BY <2>1, <2>2, <2>3
  <1>2. DayOfWeek(d) \in 0..(W - 1)
    BY CronParameters, DivMod DEF DayOfWeek
  <1>3. W \notin L5 => D = L5
    <2>. SUFFICES ASSUME W \notin L5 PROVE D = L5
      OBVIOUS
    <2>1. ASSUME NEW v \in L5 PROVE v % W = v
      <3>1. v \in 0..W
        BY ListedWithin, Limits
      <3>2. v \in 0..(W - 1)
        BY <3>1, CronParameters
      <3>. QED  BY <3>2, CronParameters
    <2>2. D = {v % W : v \in L5}
      BY DEF Days
    <2>. HIDE DEF D, L5, W
    <2>. QED  BY <2>1, <2>2
  <1>. DEFINE date == 1..LongestMonth \subseteq L3
              byDate == DayOfMonth(d) \in L3
              week == 0..(W - 1) \subseteq L5 \/ W \in L5
              byWeek == DayOfWeek(d) \in L5
  <1>4. DayOk(sets, d) <=> MonthOf(d) \in L4
                             /\ ((date /\ week) \/ (~date /\ byDate) \/ (~week /\ byWeek))
    <2>. HIDE DEF L3, L4, L5, sets
    <2>. QED  BY <1>0, <1>1 DEF DayOk
  <1>5. W \notin L5 => (0..(W - 1) \subseteq D <=> week) /\ (DayOfWeek(d) \in D <=> byWeek)
    BY <1>3
  <1>6. 0..(W - 1) \subseteq D => DayOfWeek(d) \in D
    BY <1>2
  <1>7. W \in L5 => D = 0..(W - 1) /\ week
    OBVIOUS
  <1>. HIDE DEF L3, L4, L5, D, W, sets
  <1>. SUFFICES DayOk(sets, d) <=>
                  /\ MonthOf(d) \in L4
                  /\ IF date THEN DayOfWeek(d) \in D
                     ELSE IF 0..(W - 1) \subseteq D THEN byDate
                          ELSE byDate \/ DayOfWeek(d) \in D
    BY DEF L3, L4, L5, D, W, sets, Restricts
  <1>8. CASE W \in L5
    <2>1. week /\ 0..(W - 1) \subseteq D /\ DayOfWeek(d) \in D
      BY <1>6, <1>7, <1>8
    <2>. HIDE DEF week, date, byDate, byWeek
    <2>. QED  BY <1>4, <2>1
  <1>9. CASE W \notin L5
    <2>. DEFINE all == 0..(W - 1) \subseteq D  at == DayOfWeek(d) \in D
    <2>1. (all <=> week) /\ (at <=> byWeek) /\ (all => at)
      BY <1>5, <1>6, <1>9
    <2>. HIDE DEF week, date, byDate, byWeek, all, at
    <2>2. DayOk(sets, d) <=>
                  /\ MonthOf(d) \in L4
                  /\ IF date THEN at ELSE IF all THEN byDate ELSE byDate \/ at
      BY <1>4, <2>1
    <2>. QED  BY <2>2 DEF all, at
  <1>. QED  BY <1>8, <1>9

(* Days are of even length. *)
LEMMA DayIsEven ==
  /\ MinutesInHour * HoursInDay \in Nat \ {0}
  /\ DayLength = 2 * (MinutesInHour * HoursInDay) /\ DayLength \in Nat \ {0}
  <1>1. PICK m \in Nat \ {0}, h \in Nat \ {0} : m = MinutesInHour /\ h = HoursInDay
    BY CronParameters
  <1>2. m * h \in Nat /\ m * h >= 1 /\ (2 * m) * h = 2 * (m * h)
    <2>1. m * 1 <= m * h
      BY <1>1
    <2>. QED  BY <2>1
  <1>3. PICK n \in Nat \ {0} : n = m * h
    BY <1>2
  <1>4. DayLength = (2 * m) * h
    BY <1>1 DEF DayLength
  <1>5. DayLength = 2 * n
    BY <1>2, <1>3, <1>4
  <1>. QED  BY <1>1, <1>3, <1>5

(* The clock within a day. *)
LEMMA ClockWithinDay ==
  ASSUME NEW h \in 0..(HoursInDay - 1), NEW m \in 0..(MinutesInHour - 1)
  PROVE  2 * (h * MinutesInHour + m) \in 0..(DayLength - 1)
  <1>1. PICK M \in Nat \ {0}, H \in Nat \ {0} : M = MinutesInHour /\ H = HoursInDay
    BY CronParameters
  <1>2. h \in Nat /\ m \in Nat /\ h + 1 <= H /\ m + 1 <= M
    BY <1>1
  <1>3. (h + 1) * M <= H * M
    BY <1>1, <1>2
  <1>4. (h + 1) * M = h * M + M /\ h * M \in Nat /\ H * M = M * H /\ M * H \in Nat
    BY <1>1, <1>2
  <1>5. PICK x \in Nat, y \in Nat : x = h * M /\ y = M * H
    BY <1>4
  <1>6. x + M <= y
    BY <1>3, <1>4, <1>5
  <1>7. DayLength = 2 * y
    BY <1>1, <1>5, DayIsEven
  <1>. QED  BY <1>1, <1>2, <1>5, <1>6, <1>7

(* An instant is a time of its day exactly when minute and hour are listed.   *)
LEMMA TimesAgree ==
  ASSUME NEW expr \in Schedules, isValidCronExpression(expr), NEW u \in Nat
  PROVE  u \in TimesOf(parseCronFieldList(expr), u \div DayLength) <=>
           /\ u % 2 = 0
           /\ ((u % DayLength) \div 2) % MinutesInHour \in Listed(expr[1], 1)
           /\ ((u % DayLength) \div 2) \div MinutesInHour \in Listed(expr[2], 2)
  <1>1. PICK M \in Nat \ {0}, H \in Nat \ {0}, D \in Nat \ {0}, n \in Nat \ {0} :
           M = MinutesInHour /\ H = HoursInDay /\ D = DayLength /\ n = M * H /\ D = 2 * n
    BY CronParameters, DayIsEven
  <1>2. PICK q \in Nat, r \in Nat : /\ q = u \div D /\ r = u % D
                                    /\ r < D /\ u = q * D + r
    <2>1. u \div D \in Nat /\ u % D \in 0..(D - 1) /\ u = (u \div D) * D + (u % D)
      BY DivMod
    <2>2. u % D \in Nat /\ u % D < D
      BY <2>1
    <2>. QED  BY <2>1, <2>2
  <1>3. PICK k \in Nat, e \in 0..1 : k = r \div 2 /\ e = r % 2 /\ r = k * 2 + e
    BY DivMod
  <1>4. PICK h \in Nat, m \in 0..(M - 1) : h = k \div M /\ m = k % M /\ k = h * M + m
    BY DivMod, ZenonT(30)
  <1>5. (u % 2 = 0) <=> (e = 0)
    <2>1. PICK z \in Nat : z = q * n
      OBVIOUS
    <2>2. q * D = 2 * z
      BY <1>1, <2>1
    <2>3. u = 2 * (z + k) + e
      BY <1>2, <1>3, <2>2
    <2>. QED  BY <2>3
  <1>6. h < H
    <2>1. k < H * M
      <3>1. H * M = n
        BY <1>1
      <3>. QED  BY <1>1, <1>2, <1>3, <3>1
    <2>2. H <= h => H * M <= h * M
      OBVIOUS
    <2>. QED  BY <1>4, <2>1, <2>2
  <1>7. TimesOf(parseCronFieldList(expr), q) =
          {q * D + 2 * (hh * M + mm) : hh \in Listed(expr[2], 2) \cap 0..(H - 1),
                                       mm \in Listed(expr[1], 1) \cap 0..(M - 1)}
    BY <1>1, ListedWithin DEF TimesOf, ClockAt
  <1>8. ASSUME e = 0, m \in Listed(expr[1], 1), h \in Listed(expr[2], 2)
        PROVE  u \in TimesOf(parseCronFieldList(expr), q)
    <2>1. u = q * D + 2 * (h * M + m)
      BY <1>2, <1>3, <1>4, <1>8
    <2>2. h \in 0..(H - 1) /\ m \in 0..(M - 1)
      BY <1>6
    <2>. QED  BY <1>7, <1>8, <2>1, <2>2
  <1>9. ASSUME u \in TimesOf(parseCronFieldList(expr), q)
        PROVE  e = 0 /\ m \in Listed(expr[1], 1) /\ h \in Listed(expr[2], 2)
    <2>1. PICK hh \in Listed(expr[2], 2) \cap 0..(H - 1), mm \in Listed(expr[1], 1) \cap 0..(M - 1) :
             u = q * D + 2 * (hh * M + mm)
      BY <1>7, <1>9
    <2>2. PICK kk \in Nat : kk = hh * M + mm
      OBVIOUS
    <2>3. r = 2 * kk
      <3>1. PICK w \in Nat : w = q * D
        OBVIOUS
      <3>. QED  BY <1>2, <2>1, <2>2, <3>1
    <2>4. e = 0 /\ k = kk
      BY <1>3, <2>3
    <2>5. h = hh /\ m = mm
      BY <1>4, <2>2, <2>4, DivModUnique, SMTT(30)
    <2>. QED  BY <2>1, <2>4, <2>5
  <1>. QED  BY <1>1, <1>2, <1>3, <1>4, <1>5, <1>8, <1>9


(* An instant matches when its day is taken and it is a time of that day.     *)
LEMMA MatchesAgree ==
  ASSUME NEW expr \in Schedules, isValidCronExpression(expr), NEW u \in Nat,
         DaysInWeek \notin Listed(expr[5], 5) \/ Days(expr[5]) = 0..(DaysInWeek - 1)
  PROVE  Matches(expr, u) <=>
           /\ DayOk(parseCronFieldList(expr), u \div DayLength)
           /\ u \in TimesOf(parseCronFieldList(expr), u \div DayLength)
           /\ u % 2 = 0
  <1>. DEFINE d == u \div DayLength
              taken == /\ MonthOf(d) \in Listed(expr[4], 4)
                       /\ IF ~Restricts(Listed(expr[3], 3), 1..LongestMonth)
                          THEN DayOfWeek(d) \in Days(expr[5])
                          ELSE IF ~Restricts(Days(expr[5]), 0..(DaysInWeek - 1))
                               THEN DayOfMonth(d) \in Listed(expr[3], 3)
                               ELSE \/ DayOfMonth(d) \in Listed(expr[3], 3)
                                    \/ DayOfWeek(d) \in Days(expr[5])
              timed == /\ u % 2 = 0
                       /\ ((u % DayLength) \div 2) % MinutesInHour \in Listed(expr[1], 1)
                       /\ ((u % DayLength) \div 2) \div MinutesInHour \in Listed(expr[2], 2)
  <1>1. d \in Nat
    BY DayIsEven, DivMod
  <1>2. DayOk(parseCronFieldList(expr), d) <=> taken
    <2>. HIDE DEF d
    <2>. QED  BY <1>1, DaysAgree
  <1>3. u \in TimesOf(parseCronFieldList(expr), d) <=> timed
    BY TimesAgree
  <1>4. Matches(expr, u) <=> taken /\ timed
    BY DEF Matches
  <1>5. timed => u % 2 = 0
    OBVIOUS
  <1>. HIDE DEF taken, timed
  <1>. QED  BY <1>2, <1>3, <1>4, <1>5

(* The times of a day lie within it, at whole minutes.                       *)
LEMMA TimesWithinDay ==
  ASSUME NEW expr \in Schedules, isValidCronExpression(expr), NEW d \in Nat,
         NEW u \in TimesOf(parseCronFieldList(expr), d)
  PROVE  u \in Nat /\ u \div DayLength = d /\ u % 2 = 0
  <1>1. PICK h \in 0..(HoursInDay - 1), m \in 0..(MinutesInHour - 1) :
           u = d * DayLength + 2 * (h * MinutesInHour + m)
    BY DEF TimesOf, ClockAt
  <1>2. PICK k \in Int : k = h * MinutesInHour + m
    BY CronParameters
  <1>3. 2 * k \in 0..(DayLength - 1)
    BY <1>2, ClockWithinDay
  <1>4. PICK D \in Nat \ {0}, n \in Nat : D = DayLength /\ D = 2 * n
    BY DayIsEven
  <1>5. u = d * D + 2 * k /\ 2 * k \in 0..(D - 1)
    BY <1>1, <1>2, <1>3, <1>4
  <1>6. PICK z \in Nat : z = d * n
    OBVIOUS
  <1>7. d * D = 2 * z
    BY <1>4, <1>6
  <1>8. u \in Nat /\ u % 2 = 0
    BY <1>5, <1>7
  <1>9. u \div D = d
    BY <1>5, DivModUnique, ZenonT(30)
  <1>. QED  BY <1>4, <1>8, <1>9

(* A whole minute after t lies on the day of the next minute or a later one.  *)
LEMMA NextMinute ==
  ASSUME NEW t \in Nat, NEW v \in Nat, t < v, v % 2 = 0
  PROVE  (t + 2) \div DayLength <= v \div DayLength
  <1>1. PICK D \in Nat \ {0}, n \in Nat : D = DayLength /\ D = 2 * n
    BY DayIsEven
  <1>2. PICK first \in Nat, r \in Nat : first = (t + 2) \div D /\ t + 2 = first * D + r
    BY DivMod
  <1>3. PICK q \in Nat, s \in 0..(D - 1) : q = v \div D /\ v = q * D + s
    BY DivMod
  <1>4. ASSUME q < first PROVE FALSE
    <2>1. (q + 1) * D <= first * D
      BY <1>4
    <2>2. PICK x \in Nat, z \in Nat : x = first * n /\ z = q * D
      OBVIOUS
    <2>3. first * D = 2 * x /\ (q + 1) * D = z + D
      BY <1>1, <2>2
    <2>4. v < 2 * x /\ 2 * x <= t + 2
      BY <1>2, <1>3, <2>1, <2>2, <2>3
    <2>5. PICK k \in Nat : v = 2 * k
      <3>1. v = 2 * (v \div 2) + (v % 2) /\ v \div 2 \in Nat
        BY DivMod
      <3>. QED  BY <3>1
    <2>. QED  BY <2>4, <2>5
  <1>. QED  BY <1>1, <1>2, <1>3, <1>4

(* The search finds the first instant that matches, or there is none in reach. *)
LEMMA SearchFinds ==
  ASSUME NEW expr \in Schedules, isValidCronExpression(expr), NEW t \in Nat,
         DaysInWeek \notin Listed(expr[5], 5) \/ Days(expr[5]) = 0..(DaysInWeek - 1)
  PROVE  IsNextMatch(computeNextFire(expr, t), expr, t)
  <1>. DEFINE sets == parseCronFieldList(expr)
              first == (t + 2) \div DayLength
              days == {d \in first..(first + SearchDays - 1) :
                          DayOk(sets, d) /\ \E at \in TimesOf(sets, d) : at > t}
              times(d) == {at \in TimesOf(sets, d) : at > t}
  <1>0. first \in Nat /\ SearchDays \in Nat \ {0} /\ DayLength \in Nat \ {0}
    <2>1. t + 2 \in Nat /\ DayLength \in Nat \ {0}
      BY DayIsEven
    <2>2. (t + 2) \div DayLength \in Nat
      BY <2>1, DivMod
    <2>. QED  BY <2>1, <2>2, CronParameters
  <1>1. computeNextFire(expr, t) = IF days = {} THEN NotFound ELSE Min(times(Min(days)))
    BY DEF computeNextFire
  <1>2. ASSUME NEW v \in Nat, t < v, Matches(expr, v)
        PROVE  /\ v \div DayLength \in Nat /\ first <= v \div DayLength
               /\ v \in times(v \div DayLength)
               /\ v \div DayLength <= first + SearchDays - 1 => v \div DayLength \in days
    <2>1. /\ DayOk(sets, v \div DayLength) /\ v \in TimesOf(sets, v \div DayLength)
          /\ v % 2 = 0
      BY <1>2, MatchesAgree
    <2>2. first <= v \div DayLength /\ v \div DayLength \in Nat
      BY <1>2, <2>1, NextMinute, DayIsEven, DivMod
    <2>3. PICK q \in Nat : q = v \div DayLength
      BY <2>2
    <2>4. first <= q /\ DayOk(sets, q) /\ v \in TimesOf(sets, q) /\ v > t
      BY <1>2, <2>1, <2>2, <2>3
    <2>5. v \in times(q) /\ (q <= first + SearchDays - 1 => q \in days)
      <3>1. q <= first + SearchDays - 1 => q \in first..(first + SearchDays - 1)
        <4>. HIDE DEF first
        <4>. QED  BY <1>0, <2>4
      <3>. QED  BY <2>4, <3>1
    <2>. HIDE DEF first, days, times
    <2>. QED  BY <2>2, <2>3, <2>5
  <1>3. ASSUME NEW d \in Nat, DayOk(sets, d), NEW u \in times(d)
        PROVE  u \in Nat /\ u > t /\ u \div DayLength = d /\ Matches(expr, u)
    <2>1. u \in Nat /\ u \div DayLength = d /\ u % 2 = 0
      BY TimesWithinDay
    <2>. QED  BY <1>3, <2>1, MatchesAgree
  <1>4. CASE days = {}
    <2>1. ASSUME NEW v \in (t + 1)..(EndOfSearch(t) - 1) PROVE ~Matches(expr, v)
      <3>1. v \in Nat /\ t < v /\ v < (first + SearchDays) * DayLength
        <4>1. (first + SearchDays) * DayLength \in Nat
          <5>. HIDE DEF first
          <5>. QED  BY <1>0
        <4>2. EndOfSearch(t) = (first + SearchDays) * DayLength
          BY DEF EndOfSearch
        <4>. HIDE DEF first
        <4>. QED  BY <4>1, <4>2
      <3>2. v \div DayLength < first + SearchDays
        <4>1. first + SearchDays \in Nat
          <5>. HIDE DEF first
          <5>. QED  BY <1>0
        <4>. QED  BY <1>0, <3>1, <4>1, DivMonotone
      <3>3. Matches(expr, v) => v \div DayLength \in days
        <4>. HIDE DEF first, days, times
        <4>. QED  BY <1>0, <1>2, <3>1, <3>2, SMTT(30)
      <3>. QED  BY <1>4, <3>3
    <2>. QED  BY <1>1, <1>4, <2>1 DEF IsNextMatch
  <1>5. CASE days # {}
    <2>. DEFINE d == Min(days)  u == Min(times(d))
    <2>0. days \in SUBSET Nat
      <3>. HIDE DEF first
      <3>. QED  BY <1>0
    <2>1. d \in days /\ \A e \in days : d <= e
      <3>. HIDE DEF days
      <3>. QED  BY <1>5, <2>0, MinIsLeast
    <2>2. d \in Nat /\ DayOk(sets, d) /\ d <= first + SearchDays - 1 /\ times(d) # {}
      <3>. HIDE DEF d, first
      <3>. QED  BY <1>0, <2>0, <2>1
    <2>. HIDE DEF d
    <2>3. times(d) \in SUBSET Nat
      <3>. HIDE DEF times
      <3>. QED  BY <1>3, <2>2
    <2>4. u \in times(d) /\ \A w \in times(d) : u <= w
      <3>. HIDE DEF times
      <3>. QED  BY <2>2, <2>3, MinIsLeast
    <2>5. u \in Nat /\ u > t /\ u \div DayLength = d /\ Matches(expr, u)
      <3>. HIDE DEF times, u
      <3>. QED  BY <1>3, <2>2, <2>4
    <2>. HIDE DEF u
    <2>6. ASSUME NEW v \in (t + 1)..(u - 1) PROVE ~Matches(expr, v)
      <3>1. v \in Nat /\ t < v /\ v < u
        BY <2>5
      <3>. SUFFICES ASSUME Matches(expr, v) PROVE FALSE
        OBVIOUS
      <3>2. v \div DayLength <= d /\ v \div DayLength \in Nat
        <4>1. v <= u => v \div DayLength <= u \div DayLength
          BY <1>0, <2>5, <3>1, DivMonotone
        <4>2. v \div DayLength \in Nat
          BY <1>0, <3>1, DivMod
        <4>. QED  BY <2>5, <3>1, <4>1, <4>2
      <3>3. v \div DayLength \in days
        <4>. HIDE DEF first, days, times
        <4>1. PICK q \in Nat : q = v \div DayLength
          BY <3>2
        <4>2. q <= first + SearchDays - 1
          BY <1>0, <2>2, <3>2, <4>1
        <4>. QED  BY <1>2, <3>1, <4>1, <4>2
      <3>4. v \div DayLength = d
        <4>. HIDE DEF first, days, times
        <4>. QED  BY <2>1, <2>2, <3>2, <3>3
      <3>5. v \in times(d)
        <4>. HIDE DEF first, days, times
        <4>. QED  BY <1>2, <3>1, <3>4
      <3>. HIDE DEF times
      <3>. QED  BY <2>4, <2>5, <3>1, <3>5
    <2>7. computeNextFire(expr, t) = u /\ u # NotFound
      BY <1>1, <1>5, <2>5 DEF u, d, NotFound
    <2>. QED  BY <2>5, <2>6, <2>7 DEF IsNextMatch
  <1>. QED  BY <1>4, <1>5

(* The trigger row holds what the search gave.                               *)
CronInv ==
  /\ cron \in Schedules /\ isValidCronExpression(cron) /\ from \in Nat
  /\ next_fire_at = computeNextFire(cron, from)

LEMMA AcceptedParses ==
  ASSUME NEW expr \in Schedules, isValidCronExpression(expr)
  PROVE  isValidCron(expr)
  BY ValidatedParses DEF isValidCron

(* Every schedule that the validator accepts is parsed by the server, and a   *)
(* trigger fires next at the first instant that its schedule names, for every *)
(* calendar and schedule, from every instant and after every tick.           *)
THEOREM CronFires == CronSpec => []FiresWhenItSays
  <1>1. CronInit => CronInv
    BY AcceptedParses DEF CronInit, CronInv
  <1>2. CronInv /\ [CronNext]_cronVars => CronInv'
    <2>. SUFFICES ASSUME CronInv, [CronNext]_cronVars PROVE CronInv'
      OBVIOUS
    <2>1. CASE Tick
      <3>1. PICK instant \in (from + 1)..LastInstant :
               from' = instant /\ next_fire_at' = computeNextFire(cron, instant) /\ cron' = cron
        BY <2>1 DEF Tick
      <3>2. instant \in Nat
        BY CronAssumption DEF CronInv
      <3>. QED  BY <3>1, <3>2 DEF CronInv
    <2>2. CASE UNCHANGED cronVars
      BY <2>2 DEF cronVars, CronInv
    <2>. QED  BY <2>1, <2>2 DEF CronNext
  <1>3. CronInv => FiresWhenItSays
    BY AcceptedParses, SearchFinds DEF CronInv, FiresWhenItSays
  <1>. QED  BY <1>1, <1>2, <1>3, PTL DEF CronSpec
=============================================================================
