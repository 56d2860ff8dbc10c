------------------------------- MODULE Outbox -------------------------------
(***************************************************************************)
(* notification_outbox and its dispatchers.  A notify step enqueues a row  *)
(* under its idempotency key; every process that runs a notification       *)
(* processor (the embedded server, the worker) sweeps the table: it takes  *)
(* back what a dispatcher left in "sending", claims a batch, and for each  *)
(* row of it calls the provider and writes down what came of it.           *)
(***************************************************************************)
EXTENDS Naturals, FiniteSets

CONSTANTS
  Keys,         \* idempotency keys: one notify step of one run each
  Dispatchers,  \* the processes that sweep
  MaxAttempts,  \* OUTBOX_MAX_ATTEMPTS
  Batch,        \* LIMIT of a claim
  MaxFaults,    \* bound: crashes, failed statements and overtaken dispatchers
  None          \* the current row of a dispatcher that is not at one

ASSUME OutboxAssumption ==
  /\ MaxAttempts \in Nat \ {0}
  /\ Batch \in Nat \ {0}
  /\ MaxFaults \in Nat
  /\ None \notin Keys
  /\ IsFiniteSet(Dispatchers)

VARIABLES
  rows,       \* the table; due: next_retry_at is over, stale: claimed a minute ago
  disp,       \* the sweep of each dispatcher: the rows still to send, with the
              \* attempts they had when they were claimed, and the current one
  calls,      \* calls of the provider for a key
  delivered,  \* those that went through
  overtaken,  \* keys whose row went stale while a dispatcher was at work on it
  faults

vars == <<rows, disp, calls, delivered, overtaken, faults>>

Statuses == {"absent", "pending", "sending", "sent", "failed"}

Idle == [pc |-> "idle", left |-> {}, at |-> [k \in Keys |-> 0], row |-> None, ok |-> FALSE]

Init ==
  /\ rows = [k \in Keys |-> [status |-> "absent", attempts |-> 0, due |-> FALSE, stale |-> FALSE]]
  /\ disp = [d \in Dispatchers |-> Idle]
  /\ calls = [k \in Keys |-> 0]
  /\ delivered = [k \in Keys |-> 0]
  /\ overtaken = {}
  /\ faults = 0

Holds(d, k) == k \in disp[d].left \/ disp[d].row = k

Fault == faults < MaxFaults /\ faults' = faults + 1

----------------------------------------------------------------------------
(* enqueueOutboxNotification *)

(* Mutation: ON CONFLICT DO UPDATE. *)
EnqueueOver(k) ==
  /\ rows' = [rows EXCEPT ![k].status = "pending", ![k].due = TRUE]
  /\ UNCHANGED <<disp, calls, delivered, overtaken, faults>>

(* INSERT ... ON CONFLICT DO NOTHING: a step that is executed again after a  *)
(* crash, or an attempt that is repeated, leaves the row as it is.           *)
Enqueue(k) ==
  /\ rows' = IF rows[k].status = "absent"
             THEN [rows EXCEPT ![k].status = "pending", ![k].due = TRUE]
             ELSE rows
  /\ UNCHANGED <<disp, calls, delivered, overtaken, faults>>

----------------------------------------------------------------------------
(* processOutboxDue *)

(* Mutation: what another dispatcher is sending is reclaimed at once. *)
ReclaimableSending(k) == rows[k].status = "sending"

Reclaimable(k) == rows[k].status = "sending" /\ rows[k].stale

(* Mutation: no reclaim. *)
ReclaimNothing(d) ==
  /\ disp[d].pc = "idle"
  /\ disp' = [disp EXCEPT ![d].pc = "claim"]
  /\ UNCHANGED <<rows, calls, delivered, overtaken, faults>>

(* The sweep begins with the rows a crashed dispatcher left in "sending". *)
Reclaim(d) ==
  /\ disp[d].pc = "idle"
  /\ rows' = [k \in Keys |->
                IF Reclaimable(k)
                THEN [rows[k] EXCEPT !.status = "pending", !.due = TRUE, !.stale = FALSE]
                ELSE rows[k]]
  /\ disp' = [disp EXCEPT ![d].pc = "claim"]
  /\ UNCHANGED <<calls, delivered, overtaken, faults>>

Due == {k \in Keys : rows[k].status = "pending" /\ rows[k].due}

(* What a sweep claims: as many due rows as the LIMIT allows; which of them   *)
(* next_retry_at puts first is left open.                                     *)
Claims == {S \in SUBSET Due :
             /\ Cardinality(S) <= Batch
             /\ Cardinality(S) = Batch \/ S = Due}

(* The claimed rows are returned with the attempts they have had. *)
Work(S) ==
  IF S = {} THEN Idle
  ELSE [Idle EXCEPT !.pc = "send", !.left = S,
                    !.at = [k \in Keys |-> IF k \in S THEN rows[k].attempts ELSE 0]]

(* Mutation: a SELECT that leaves the rows pending. *)
ClaimUnmarked(d) ==
  /\ disp[d].pc = "claim"
  /\ \E S \in Claims : disp' = [disp EXCEPT ![d] = Work(S)]
  /\ UNCHANGED <<rows, calls, delivered, overtaken, faults>>

(* One UPDATE with FOR UPDATE SKIP LOCKED claims and returns the rows. *)
Claim(d) ==
  /\ disp[d].pc = "claim"
  /\ \E S \in Claims :
       /\ disp' = [disp EXCEPT ![d] = Work(S)]
       /\ rows' = [k \in Keys |-> IF k \in S
                                  THEN [rows[k] EXCEPT !.status = "sending", !.stale = FALSE]
                                  ELSE rows[k]]
  /\ UNCHANGED <<calls, delivered, overtaken, faults>>

(* await send(row): the provider takes the message, or throws. *)
Send(d) ==
  /\ disp[d].pc = "send"
  /\ \E k \in disp[d].left, ok \in BOOLEAN :
       /\ disp' = [disp EXCEPT ![d] =
                     [@ EXCEPT !.pc = "mark", !.left = disp[d].left \ {k}, !.row = k, !.ok = ok]]
       /\ calls' = [calls EXCEPT ![k] = @ + 1]
       /\ delivered' = [delivered EXCEPT ![k] = IF ok THEN @ + 1 ELSE @]
  /\ UNCHANGED <<rows, overtaken, faults>>

(* Mutation: the last row of the batch is the current one for ever. *)
AdvanceToRow(d) ==
  disp' = [disp EXCEPT ![d] = IF @.left = {} THEN Idle ELSE [@ EXCEPT !.pc = "send"]]

(* The for loop goes on with the next row, or the sweep is over. *)
Advance(d) ==
  disp' = [disp EXCEPT ![d] = IF @.left = {} THEN Idle
                              ELSE [@ EXCEPT !.pc = "send", !.row = None, !.ok = FALSE,
                                             !.at[disp[d].row] = 0]]

(* Mutation: what the provider throws is swallowed. *)
MarkSentAnyway(d) ==
  /\ disp[d].pc = "mark"
  /\ rows' = [rows EXCEPT ![disp[d].row].status = "sent"]
  /\ Advance(d)
  /\ UNCHANGED <<calls, delivered, overtaken, faults>>

(* UPDATE ... SET status = 'sent' WHERE id = $1 *)
MarkSent(d) ==
  /\ disp[d].pc = "mark" /\ disp[d].ok
  /\ rows' = [rows EXCEPT ![disp[d].row].status = "sent"]
  /\ Advance(d)
  /\ UNCHANGED <<calls, delivered, overtaken, faults>>

(* Mutation: the retries are counted, not the attempts. *)
LastAttemptEarly(n) == n + 1 >= MaxAttempts
LastAttempt(n) == n >= MaxAttempts

(* The catch: whether it was the last attempt is decided by the number read   *)
(* when the row was claimed; the number written is the column's plus one.     *)
MarkFailure(d) ==
  LET k == disp[d].row IN
  /\ disp[d].pc = "mark" /\ ~disp[d].ok
  /\ rows' = [rows EXCEPT ![k] =
       [@ EXCEPT !.attempts = rows[k].attempts + 1, !.due = FALSE,
                 !.status = IF LastAttempt(disp[d].at[k] + 1) THEN "failed" ELSE "pending"]]
  /\ Advance(d)
  /\ UNCHANGED <<calls, delivered, overtaken, faults>>

(* A statement throws and has no effect.  The UPDATE to sent is inside the    *)
(* try: the catch counts a failed attempt of a message that was delivered.    *)
(* Anything else ends the sweep and leaves the rest of its batch in           *)
(* "sending"; the reclaim itself changes nothing when it throws.              *)
StatementFails(d) ==
  /\ disp[d].pc \in {"claim", "mark"}
  /\ Fault
  /\ disp' = [disp EXCEPT ![d] = IF @.pc = "mark" /\ @.ok THEN [@ EXCEPT !.ok = FALSE] ELSE Idle]
  /\ UNCHANGED <<rows, calls, delivered, overtaken>>

----------------------------------------------------------------------------
(* The process dies; the next one starts with a sweep. *)
Crash(d) ==
  /\ disp[d].pc # "idle"
  /\ Fault
  /\ disp' = [disp EXCEPT ![d] = Idle]
  /\ UNCHANGED <<rows, calls, delivered, overtaken>>

(* next_retry_at passes. *)
BecomesDue(k) ==
  /\ rows[k].status = "pending" /\ ~rows[k].due
  /\ rows' = [rows EXCEPT ![k].due = TRUE]
  /\ UNCHANGED <<disp, calls, delivered, overtaken, faults>>

(* RECLAIM_AFTER passes over a row that no dispatcher is at work on. *)
AbandonedGoesStale(k) ==
  /\ rows[k].status = "sending" /\ ~rows[k].stale
  /\ \A d \in Dispatchers : ~Holds(d, k)
  /\ rows' = [rows EXCEPT ![k].stale = TRUE]
  /\ UNCHANGED <<disp, calls, delivered, overtaken, faults>>

(* RECLAIM_AFTER passes while the provider is slow: the minute of every row   *)
(* runs from the claim of its batch.                                          *)
Overtake(k) ==
  /\ rows[k].status = "sending" /\ ~rows[k].stale
  /\ \E d \in Dispatchers : Holds(d, k)
  /\ Fault
  /\ rows' = [rows EXCEPT ![k].stale = TRUE]
  /\ overtaken' = overtaken \cup {k}
  /\ UNCHANGED <<disp, calls, delivered>>

Sweep(d) == Reclaim(d) \/ Claim(d) \/ Send(d) \/ MarkSent(d) \/ MarkFailure(d)

Next ==
  \/ \E k \in Keys : Enqueue(k) \/ BecomesDue(k) \/ AbandonedGoesStale(k) \/ Overtake(k)
  \/ \E d \in Dispatchers : Sweep(d) \/ StatementFails(d) \/ Crash(d)

(* A dispatcher that runs goes on: the timer of setupNotificationProcessor   *)
(* starts the next sweep whatever became of the last.  Time passes.          *)
Fairness ==
  /\ \A d \in Dispatchers : WF_vars(Sweep(d))
  /\ \A k \in Keys : WF_vars(BecomesDue(k)) /\ WF_vars(AbandonedGoesStale(k))

Spec == Init /\ [][Next]_vars /\ Fairness

----------------------------------------------------------------------------
RowType == [status : Statuses, attempts : Nat, due : BOOLEAN, stale : BOOLEAN]
SweepType == [pc : {"idle", "claim", "send", "mark"}, left : SUBSET Keys,
              at : [Keys -> Nat], row : Keys \cup {None}, ok : BOOLEAN]
AtOneRow(sweep) == (sweep.pc = "mark" <=> sweep.row # None) /\ sweep.row \notin sweep.left

(* Every variable has its type, and a dispatcher between send and UPDATE is  *)
(* at one row, which is no longer among those it has left.                   *)
TypeOK ==
  /\ rows \in [Keys -> RowType]
  /\ disp \in [Dispatchers -> SweepType]
  /\ \A d \in Dispatchers : AtOneRow(disp[d])
  /\ calls \in [Keys -> Nat]
  /\ delivered \in [Keys -> Nat]
  /\ overtaken \subseteq Keys
  /\ faults \in Nat

(* Two dispatchers work on the same row only if it went stale under one of   *)
(* them: the claim of processOutboxDue is exclusive while a sweep is timely. *)
ExclusiveClaim ==
  \A k \in Keys \ overtaken, d, e \in Dispatchers : Holds(d, k) /\ Holds(e, k) => d = e

(* What is written down as sent went through, whatever was reclaimed,        *)
(* repeated or lost on the way.                                              *)
SentWasDelivered == \A k \in Keys : rows[k].status = "sent" => delivered[k] > 0

(* A row is marked failed only after the provider was called as often as the *)
(* ladder promises, although the number that decides it was read at the      *)
(* claim and another dispatcher may have counted meanwhile.                  *)
NotGivenUpEarly == \A k \in Keys : rows[k].status = "failed" => calls[k] >= MaxAttempts

(* Each crash, failed statement or overtaken claim costs one delivery too    *)
(* many at most, and without any a notification is delivered once.           *)
DuplicatesBounded == \A k \in Keys : delivered[k] <= 1 + faults

(* A row that was sent, or given up, is never taken up again (by a repeated  *)
(* notify step, a reclaim, a late dispatcher), unless a slow dispatcher was  *)
(* overtaken: its UPDATE by id does not ask what the row has become.         *)
FinalIsFinal ==
  [][\A k \in Keys \ overtaken :
       rows[k].status \in {"sent", "failed"} => rows'[k] = rows[k]]_vars

(* A notification that was enqueued is sent or given up in the end, whatever *)
(* crashed while it was being sent.                                          *)
EveryRowSettles ==
  \A k \in Keys : rows[k].status # "absent" ~> rows[k].status \in {"sent", "failed"}

=============================================================================
