---------------------------- MODULE OutboxProofs ----------------------------
(***************************************************************************)
(* Theorems of Outbox: any number of notifications and of dispatchers, any *)
(* ladder of attempts, any number of faults.                               *)
(***************************************************************************)
EXTENDS Outbox, FiniteSetTheorems, TLAPS

LEMMA TypeInit == Init => TypeOK
  BY OutboxAssumption DEF Init, TypeOK, RowType, SweepType, AtOneRow, Statuses, Idle

(* A step that changes one sweep, to one of the right shape, keeps the types  *)
(* of disp.                                                                   *)
LEMMA OneSweep ==
  ASSUME TypeOK, NEW d \in Dispatchers, NEW s \in SweepType, AtOneRow(s),
         disp' = [disp EXCEPT ![d] = s]
  PROVE  /\ disp' \in [Dispatchers -> SweepType]
         /\ \A e \in Dispatchers : AtOneRow(disp'[e])
  BY DEF TypeOK

LEMMA IdleType == Idle \in SweepType /\ AtOneRow(Idle)
  BY DEF Idle, SweepType, AtOneRow

(* What processOutboxDue does next, after a row, is a sweep as well. *)
LEMMA AdvanceType ==
  ASSUME TypeOK, NEW d \in Dispatchers, disp[d].pc = "mark", Advance(d)
  PROVE  /\ disp' \in [Dispatchers -> SweepType]
         /\ \A e \in Dispatchers : AtOneRow(disp'[e])
  <1>. DEFINE s == [disp[d] EXCEPT !.pc = "send", !.row = None, !.ok = FALSE,
                                   !.at[disp[d].row] = 0]
  <1>1. disp[d] \in SweepType /\ disp[d].row \in Keys
    BY DEF TypeOK, SweepType, AtOneRow
  <1>2. s \in SweepType
    BY <1>1 DEF SweepType
  <1>3. s.pc = "send" /\ s.row = None /\ s.left = disp[d].left
    BY <1>1 DEF SweepType
  <1>4. AtOneRow(s)
    BY <1>1, <1>3, OutboxAssumption DEF AtOneRow, SweepType
  <1>5. disp' = [disp EXCEPT ![d] = IF disp[d].left = {} THEN Idle ELSE s]
    BY DEF Advance
  <1>. HIDE DEF s
  <1>. QED  BY <1>2, <1>4, <1>5, IdleType, OneSweep

(* What a claim returns, and the table it leaves. *)
LEMMA ClaimEffect ==
  ASSUME TypeOK, NEW d \in Dispatchers, Claim(d)
  PROVE  \E S \in SUBSET Keys :
           /\ \A k \in S : rows[k].status = "pending"
           /\ disp' = [disp EXCEPT ![d] = Work(S)]
           /\ rows' = [k \in Keys |-> IF k \in S
                                      THEN [rows[k] EXCEPT !.status = "sending", !.stale = FALSE]
                                      ELSE rows[k]]
           /\ Work(S).left = S /\ Work(S).row = None /\ Work(S).pc # "mark"
           /\ \A k \in S : Work(S).at[k] = rows[k].attempts
           /\ Work(S) \in SweepType /\ AtOneRow(Work(S))
  <1>1. PICK S \in Claims :
          /\ disp' = [disp EXCEPT ![d] = Work(S)]
          /\ rows' = [k \in Keys |-> IF k \in S
                                     THEN [rows[k] EXCEPT !.status = "sending", !.stale = FALSE]
                                     ELSE rows[k]]
    BY DEF Claim
  <1>2. S \subseteq Keys /\ \A k \in S : rows[k].status = "pending"
    BY DEF Claims, Due
  <1>3. CASE S = {}
    <2>1. Work(S) = Idle
      BY <1>3 DEF Work
    <2>2. Idle.left = {} /\ Idle.row = None /\ Idle.pc # "mark"
      BY DEF Idle
    <2>. QED  BY <1>1, <1>3, <2>1, <2>2, IdleType
  <1>4. CASE S # {}
    <2>1. Work(S) = [pc |-> "send", left |-> S,
                     at |-> [k \in Keys |-> IF k \in S THEN rows[k].attempts ELSE 0],
                     row |-> None, ok |-> FALSE]
      BY <1>4 DEF Work, Idle
    <2>2. \A k \in Keys : rows[k].attempts \in Nat
      BY DEF TypeOK, RowType
    <2>3. Work(S) \in SweepType
      BY <1>2, <2>1, <2>2 DEF SweepType
    <2>4. /\ Work(S).left = S /\ Work(S).row = None /\ Work(S).pc = "send"
          /\ \A k \in S : Work(S).at[k] = rows[k].attempts
      BY <1>2, <2>1
    <2>5. AtOneRow(Work(S))
      BY <1>2, <2>4, OutboxAssumption DEF AtOneRow
    <2>. QED  BY <1>1, <1>2, <2>3, <2>4, <2>5
  <1>. QED  BY <1>1, <1>2, <1>3, <1>4

LEMMA TypeNext == TypeOK /\ [Next]_vars => TypeOK'
  <1>. SUFFICES ASSUME TypeOK, [Next]_vars PROVE TypeOK'
    OBVIOUS
  <1>1. ASSUME NEW k \in Keys, Enqueue(k) PROVE TypeOK'
    BY <1>1 DEF Enqueue, TypeOK, RowType, Statuses
  <1>2. ASSUME NEW k \in Keys, BecomesDue(k) PROVE TypeOK'
    BY <1>2 DEF BecomesDue, TypeOK, RowType
  <1>3. ASSUME NEW k \in Keys, AbandonedGoesStale(k) PROVE TypeOK'
    BY <1>3 DEF AbandonedGoesStale, TypeOK, RowType
  <1>4. ASSUME NEW k \in Keys, Overtake(k) PROVE TypeOK'
    <2>1. rows' \in [Keys -> RowType]
      BY <1>4 DEF Overtake, TypeOK, RowType
    <2>. QED  BY <1>4, <2>1 DEF Overtake, Fault, TypeOK
  <1>5. ASSUME NEW d \in Dispatchers, Reclaim(d) PROVE TypeOK'
    <2>1. rows' \in [Keys -> RowType]
      BY <1>5 DEF Reclaim, TypeOK, RowType, Statuses
    <2>2. [disp[d] EXCEPT !.pc = "claim"] \in SweepType
          /\ AtOneRow([disp[d] EXCEPT !.pc = "claim"])
      BY <1>5 DEF Reclaim, TypeOK, SweepType, AtOneRow
    <2>3. disp' = [disp EXCEPT ![d] = [disp[d] EXCEPT !.pc = "claim"]]
      BY <1>5 DEF Reclaim
    <2>4. /\ disp' \in [Dispatchers -> SweepType]
          /\ \A e \in Dispatchers : AtOneRow(disp'[e])
      BY <2>2, <2>3, OneSweep
    <2>. QED  BY <1>5, <2>1, <2>4 DEF Reclaim, TypeOK
  <1>6. ASSUME NEW d \in Dispatchers, Claim(d) PROVE TypeOK'
    <2>1. PICK S \in SUBSET Keys :
            /\ disp' = [disp EXCEPT ![d] = Work(S)]
            /\ rows' = [k \in Keys |-> IF k \in S
                                       THEN [rows[k] EXCEPT !.status = "sending", !.stale = FALSE]
                                       ELSE rows[k]]
            /\ Work(S) \in SweepType /\ AtOneRow(Work(S))
      BY <1>6, ClaimEffect
    <2>2. rows' \in [Keys -> RowType]
      BY <2>1 DEF TypeOK, RowType, Statuses
    <2>3. /\ disp' \in [Dispatchers -> SweepType]
          /\ \A e \in Dispatchers : AtOneRow(disp'[e])
      BY <2>1, OneSweep
    <2>. QED  BY <1>6, <2>2, <2>3 DEF Claim, TypeOK
  <1>7. ASSUME NEW d \in Dispatchers, Send(d) PROVE TypeOK'
    <2>1. PICK k \in disp[d].left, ok \in BOOLEAN :
            /\ disp' = [disp EXCEPT ![d] =
                          [@ EXCEPT !.pc = "mark", !.left = disp[d].left \ {k}, !.row = k, !.ok = ok]]
            /\ calls' = [calls EXCEPT ![k] = @ + 1]
            /\ delivered' = [delivered EXCEPT ![k] = IF ok THEN @ + 1 ELSE @]
      BY <1>7 DEF Send
    <2>. DEFINE s == [disp[d] EXCEPT !.pc = "mark", !.left = disp[d].left \ {k}, !.row = k, !.ok = ok]
    <2>2. k \in Keys /\ s \in SweepType /\ AtOneRow(s)
      BY <2>1, OutboxAssumption, ZenonT(30) DEF TypeOK, SweepType, AtOneRow
    <2>3. disp' = [disp EXCEPT ![d] = s]
      BY <2>1
    <2>. HIDE DEF s
    <2>4. /\ disp' \in [Dispatchers -> SweepType]
          /\ \A e \in Dispatchers : AtOneRow(disp'[e])
      BY <2>2, <2>3, OneSweep
    <2>. QED  BY <1>7, <2>1, <2>2, <2>4 DEF Send, TypeOK
  <1>8. ASSUME NEW d \in Dispatchers, MarkSent(d) PROVE TypeOK'
    <2>1. rows' \in [Keys -> RowType]
      BY <1>8 DEF MarkSent, TypeOK, RowType, Statuses
    <2>. QED  BY <1>8, <2>1, AdvanceType DEF MarkSent, TypeOK
  <1>9. ASSUME NEW d \in Dispatchers, MarkFailure(d) PROVE TypeOK'
    <2>1. PICK st \in {"failed", "pending"} :
            rows' = [rows EXCEPT ![disp[d].row] =
                       [@ EXCEPT !.attempts = rows[disp[d].row].attempts + 1, !.due = FALSE,
                                 !.status = st]]
      BY <1>9 DEF MarkFailure
    <2>2. ASSUME NEW r \in RowType, NEW n \in Nat, NEW u \in Statuses
          PROVE  [r EXCEPT !.attempts = n, !.due = FALSE, !.status = u] \in RowType
      BY DEF RowType
    <2>3. rows' \in [Keys -> RowType]
      <3>1. \A k \in Keys : rows[k] \in RowType /\ rows[k].attempts + 1 \in Nat
        BY DEF TypeOK, RowType
      <3>2. st \in Statuses
        BY DEF Statuses
      <3>. QED  BY <2>1, <2>2, <3>1, <3>2 DEF TypeOK
    <2>. QED  BY <1>9, <2>3, AdvanceType DEF MarkFailure, TypeOK
  <1>10. ASSUME NEW d \in Dispatchers, StatementFails(d) PROVE TypeOK'
    <2>1. [disp[d] EXCEPT !.ok = FALSE] \in SweepType
          /\ AtOneRow([disp[d] EXCEPT !.ok = FALSE])
      BY DEF TypeOK, SweepType, AtOneRow
    <2>2. \/ disp' = [disp EXCEPT ![d] = [disp[d] EXCEPT !.ok = FALSE]]
          \/ disp' = [disp EXCEPT ![d] = Idle]
      BY <1>10 DEF StatementFails
    <2>3. /\ disp' \in [Dispatchers -> SweepType]
          /\ \A e \in Dispatchers : AtOneRow(disp'[e])
      BY <2>1, <2>2, IdleType, OneSweep
    <2>4. faults' = faults + 1 /\ UNCHANGED <<rows, calls, delivered, overtaken>>
      BY <1>10 DEF StatementFails, Fault
    <2>. QED  BY <2>3, <2>4 DEF TypeOK
  <1>11. ASSUME NEW d \in Dispatchers, Crash(d) PROVE TypeOK'
    <2>1. /\ disp' \in [Dispatchers -> SweepType]
          /\ \A e \in Dispatchers : AtOneRow(disp'[e])
      BY <1>11, IdleType, OneSweep DEF Crash
    <2>. QED  BY <1>11, <2>1 DEF Crash, Fault, TypeOK
  <1>12. CASE UNCHANGED vars
    BY <1>12 DEF vars, TypeOK
  <1>. QED
    BY <1>1, <1>2, <1>3, <1>4, <1>5, <1>6, <1>7, <1>8, <1>9, <1>10, <1>11, <1>12
    DEF Next, Sweep

(* Every variable of the outbox keeps to its type. *)
THEOREM TypeCorrect == Spec => []TypeOK
  BY TypeInit, TypeNext, PTL DEF Spec

----------------------------------------------------------------------------
(* Who holds which row *)

(* The row of a timely dispatcher is marked as being sent. *)
Owned ==
  \A k \in Keys \ overtaken, d \in Dispatchers :
    Holds(d, k) => rows[k].status = "sending" /\ ~rows[k].stale

ClaimInv == TypeOK /\ Owned /\ ExclusiveClaim

(* What becomes of a sweep when it is done with a row: it holds that row no   *)
(* longer, and nothing changes about the others.                             *)
LEMMA AdvanceEffect ==
  ASSUME TypeOK, NEW d \in Dispatchers, disp[d].pc = "mark", Advance(d)
  PROVE  /\ disp[d].row \in Keys /\ disp[d].row \notin disp[d].left
         /\ \A e \in Dispatchers \ {d} : disp'[e] = disp[e]
         /\ disp'[d].pc # "mark" /\ disp'[d].row = None /\ disp'[d].left = disp[d].left
         /\ \A k \in disp[d].left : disp'[d].at[k] = disp[d].at[k]
  <1>1. disp[d] \in SweepType /\ disp[d].row \in Keys /\ disp[d].row \notin disp[d].left
    BY DEF TypeOK, SweepType, AtOneRow
  <1>2. \A e \in Dispatchers \ {d} : disp'[e] = disp[e]
    BY DEF Advance, TypeOK
  <1>3. CASE disp[d].left = {}
    <2>1. disp'[d] = Idle
      BY <1>3 DEF Advance, TypeOK
    <2>. QED  BY <1>1, <1>2, <1>3, <2>1 DEF Idle
  <1>4. CASE disp[d].left # {}
    <2>1. disp'[d] = [disp[d] EXCEPT !.pc = "send", !.row = None, !.ok = FALSE,
                                     !.at[disp[d].row] = 0]
      BY <1>4 DEF Advance, TypeOK
    <2>. QED  BY <1>1, <1>2, <2>1 DEF SweepType
  <1>. QED  BY <1>3, <1>4

(* A step keeps the claims apart when nobody takes a row up, and what is held *)
(* stays as it is.                                                           *)
LEMMA NothingTaken ==
  ASSUME ClaimInv, overtaken \subseteq overtaken',
         \A k \in Keys, d \in Dispatchers :
           k \notin overtaken' /\ Holds(d, k)' =>
             Holds(d, k) /\ rows'[k].status = rows[k].status /\ rows'[k].stale = rows[k].stale
  PROVE  (Owned /\ ExclusiveClaim)'
  BY DEF ClaimInv, Owned, ExclusiveClaim

LEMMA ClaimInit == Init => ClaimInv
  <1>. SUFFICES ASSUME Init PROVE ClaimInv
    OBVIOUS
  <1>1. \A d \in Dispatchers, k \in Keys : ~Holds(d, k)
    BY OutboxAssumption DEF Init, Holds, Idle
  <1>. QED  BY <1>1, TypeInit DEF ClaimInv, Owned, ExclusiveClaim

(* The UPDATE of a timely dispatcher touches no row that another one holds. *)
LEMMA MarkTouchesItsOwn ==
  ASSUME ClaimInv, NEW d \in Dispatchers, disp[d].pc = "mark", Advance(d),
         UNCHANGED overtaken, \A k \in Keys \ {disp[d].row} : rows'[k] = rows[k]
  PROVE  (Owned /\ ExclusiveClaim)'
  <1>1. /\ disp[d].row \in Keys /\ disp[d].row \notin disp[d].left
        /\ \A e \in Dispatchers \ {d} : disp'[e] = disp[e]
        /\ disp'[d].row = None /\ disp'[d].left = disp[d].left
    BY AdvanceEffect DEF ClaimInv
  <1>2. ASSUME NEW k \in Keys, NEW e \in Dispatchers, k \notin overtaken, Holds(e, k)'
        PROVE  Holds(e, k) /\ k # disp[d].row
    <2>1. CASE e = d
      BY <1>1, <1>2, <2>1, OutboxAssumption DEF Holds
    <2>2. CASE e # d
      BY <1>1, <1>2, <2>2 DEF Holds, ClaimInv, ExclusiveClaim
    <2>. QED  BY <2>1, <2>2
  <1>. QED  BY <1>2, NothingTaken

LEMMA ClaimNext == ClaimInv /\ [Next]_vars => ClaimInv'
  <1>. SUFFICES ASSUME ClaimInv, [Next]_vars PROVE (Owned /\ ExclusiveClaim)'
    BY TypeNext DEF ClaimInv
  <1>0. TypeOK /\ Owned
    BY DEF ClaimInv
  <1>1. ASSUME NEW k \in Keys, Enqueue(k) PROVE (Owned /\ ExclusiveClaim)'
    BY <1>0, <1>1, NothingTaken DEF Enqueue, Owned, TypeOK, RowType, Holds
  <1>2. ASSUME NEW k \in Keys, BecomesDue(k) PROVE (Owned /\ ExclusiveClaim)'
    BY <1>0, <1>2, NothingTaken DEF BecomesDue, Owned, TypeOK, RowType, Holds
  <1>3. ASSUME NEW k \in Keys, AbandonedGoesStale(k) PROVE (Owned /\ ExclusiveClaim)'
    BY <1>0, <1>3, NothingTaken DEF AbandonedGoesStale, TypeOK, RowType, Holds
  <1>4. ASSUME NEW k \in Keys, Overtake(k) PROVE (Owned /\ ExclusiveClaim)'
    BY <1>0, <1>4, NothingTaken DEF Overtake, TypeOK, RowType, Holds
  <1>5. ASSUME NEW d \in Dispatchers, Reclaim(d) PROVE (Owned /\ ExclusiveClaim)'
    <2>1. ASSUME NEW k \in Keys, NEW e \in Dispatchers PROVE Holds(e, k)' => Holds(e, k)
      BY <1>0, <1>5 DEF Reclaim, Holds, TypeOK, SweepType
    <2>2. \A k \in Keys : ~Reclaimable(k) => rows'[k] = rows[k]
      BY <1>5 DEF Reclaim
    <2>3. \A k \in Keys \ overtaken, e \in Dispatchers : Holds(e, k) => ~Reclaimable(k)
      BY <1>0 DEF Owned, Reclaimable
    <2>. QED  BY <1>5, <2>1, <2>2, <2>3, NothingTaken DEF Reclaim
  <1>6. ASSUME NEW d \in Dispatchers, Claim(d) PROVE (Owned /\ ExclusiveClaim)'
    <2>1. PICK S \in SUBSET Keys :
            /\ \A k \in S : rows[k].status = "pending"
            /\ disp' = [disp EXCEPT ![d] = Work(S)]
            /\ rows' = [k \in Keys |-> IF k \in S
                                       THEN [rows[k] EXCEPT !.status = "sending", !.stale = FALSE]
                                       ELSE rows[k]]
            /\ Work(S).left = S /\ Work(S).row = None
      BY <1>0, <1>6, ClaimEffect
    <2>2. UNCHANGED overtaken
      BY <1>6 DEF Claim
    <2>3. \A k \in Keys : k \in S => rows'[k].status = "sending" /\ ~rows'[k].stale
      BY <1>0, <2>1 DEF TypeOK, RowType
    <2>4. \A k \in Keys : k \notin S => rows'[k] = rows[k]
      BY <2>1
    <2>5. ASSUME NEW k \in Keys, NEW e \in Dispatchers, Holds(e, k)'
          PROVE  (e = d /\ k \in S) \/ (e # d /\ Holds(e, k))
      BY <1>0, <2>1, <2>5, OutboxAssumption DEF Holds, TypeOK
    <2>6. \A k \in S \ overtaken, e \in Dispatchers : ~Holds(e, k)
      BY <1>0, <2>1 DEF Owned
    <2>7. Owned'
      BY <1>0, <2>2, <2>3, <2>4, <2>5 DEF Owned
    <2>8. ExclusiveClaim'
      BY <2>2, <2>5, <2>6 DEF ClaimInv, ExclusiveClaim
    <2>. QED  BY <2>7, <2>8
  <1>7. ASSUME NEW d \in Dispatchers, Send(d) PROVE (Owned /\ ExclusiveClaim)'
    <2>1. PICK k \in disp[d].left, ok \in BOOLEAN :
            disp' = [disp EXCEPT ![d] =
                      [@ EXCEPT !.pc = "mark", !.left = disp[d].left \ {k}, !.row = k, !.ok = ok]]
      BY <1>7 DEF Send
    <2>2. ASSUME NEW j \in Keys, NEW e \in Dispatchers PROVE Holds(e, j)' => Holds(e, j)
      BY <1>0, <2>1 DEF Holds, TypeOK, SweepType
    <2>. QED  BY <1>7, <2>2, NothingTaken DEF Send
  <1>8. ASSUME NEW d \in Dispatchers, MarkSent(d) PROVE (Owned /\ ExclusiveClaim)'
    BY <1>0, <1>8, MarkTouchesItsOwn DEF MarkSent, TypeOK
  <1>9. ASSUME NEW d \in Dispatchers, MarkFailure(d) PROVE (Owned /\ ExclusiveClaim)'
    BY <1>0, <1>9, MarkTouchesItsOwn DEF MarkFailure, TypeOK
  <1>10. ASSUME NEW d \in Dispatchers, StatementFails(d) PROVE (Owned /\ ExclusiveClaim)'
    <2>1. \/ disp' = [disp EXCEPT ![d] = [disp[d] EXCEPT !.ok = FALSE]]
          \/ disp' = [disp EXCEPT ![d] = Idle]
      BY <1>10 DEF StatementFails
    <2>2. ASSUME NEW k \in Keys, NEW e \in Dispatchers PROVE Holds(e, k)' => Holds(e, k)
      <3>1. disp \in [Dispatchers -> SweepType]
        BY <1>0 DEF TypeOK
      <3>2. CASE disp' = [disp EXCEPT ![d] = [disp[d] EXCEPT !.ok = FALSE]]
        BY <3>1, <3>2 DEF Holds, SweepType
      <3>3. CASE disp' = [disp EXCEPT ![d] = Idle]
        BY <3>1, <3>3, OutboxAssumption DEF Holds, Idle
      <3>. QED  BY <2>1, <3>2, <3>3
    <2>. QED  BY <1>10, <2>2, NothingTaken DEF StatementFails
  <1>11. ASSUME NEW d \in Dispatchers, Crash(d) PROVE (Owned /\ ExclusiveClaim)'
    <2>1. ASSUME NEW k \in Keys, NEW e \in Dispatchers PROVE Holds(e, k)' => Holds(e, k)
      BY <1>0, <1>11, OutboxAssumption DEF Crash, Holds, TypeOK, SweepType, Idle
    <2>. QED  BY <1>11, <2>1, NothingTaken DEF Crash
  <1>12. CASE UNCHANGED vars
    BY <1>12, NothingTaken DEF vars, Holds
  <1>. QED
    BY <1>1, <1>2, <1>3, <1>4, <1>5, <1>6, <1>7, <1>8, <1>9, <1>10, <1>11, <1>12
    DEF Next, Sweep

(* No two dispatchers work on one notification unless it went stale under one *)
(* of them.                                                                  *)
THEOREM ClaimsAreExclusive == Spec => []ExclusiveClaim
  <1>1. ClaimInv => ExclusiveClaim
    BY DEF ClaimInv
  <1>. QED  BY <1>1, ClaimInit, ClaimNext, PTL DEF Spec

----------------------------------------------------------------------------
(* What is final stays final *)

(* The UPDATE of a timely dispatcher finds its row in "sending". *)
LEMMA MarkSparesFinal ==
  ASSUME ClaimInv, NEW d \in Dispatchers, disp[d].pc = "mark",
         NEW k \in Keys \ overtaken, rows[k].status \in {"sent", "failed"}
  PROVE  disp[d].row # k
  <1>1. Holds(d, k) => rows[k].status = "sending"
    BY DEF ClaimInv, Owned
  <1>. QED  BY <1>1 DEF Holds

(* A notification that was sent, or given up, is not taken up again while no  *)
(* dispatcher is overtaken.                                                  *)
THEOREM FinalStaysFinal == Spec => FinalIsFinal
  <1>. DEFINE Kept == \A k \in Keys \ overtaken :
                        rows[k].status \in {"sent", "failed"} => rows'[k] = rows[k]
  <1>1. ClaimInv /\ [Next]_vars => [Kept]_vars
    <2>. SUFFICES ASSUME ClaimInv, Next, NEW k \in Keys \ overtaken,
                         rows[k].status \in {"sent", "failed"}
                  PROVE  rows'[k] = rows[k]
      BY DEF Kept
    <2>0. rows \in [Keys -> RowType]
      BY DEF ClaimInv, TypeOK
    <2>1. ASSUME NEW j \in Keys,
                 Enqueue(j) \/ BecomesDue(j) \/ AbandonedGoesStale(j) \/ Overtake(j)
          PROVE  rows'[k] = rows[k]
      BY <2>0, <2>1 DEF Enqueue, BecomesDue, AbandonedGoesStale, Overtake
    <2>2. ASSUME NEW d \in Dispatchers, Reclaim(d) PROVE rows'[k] = rows[k]
      BY <2>2 DEF Reclaim, Reclaimable
    <2>3. ASSUME NEW d \in Dispatchers, Claim(d) PROVE rows'[k] = rows[k]
      BY <2>3, ClaimEffect DEF ClaimInv
    <2>4. ASSUME NEW d \in Dispatchers, MarkSent(d) \/ MarkFailure(d)
          PROVE  rows'[k] = rows[k]
      BY <2>0, <2>4, MarkSparesFinal DEF MarkSent, MarkFailure
    <2>5. ASSUME NEW d \in Dispatchers, Send(d) \/ StatementFails(d) \/ Crash(d)
          PROVE  rows'[k] = rows[k]
      BY <2>5 DEF Send, StatementFails, Crash
    <2>. QED  BY <2>1, <2>2, <2>3, <2>4, <2>5 DEF Next, Sweep
  <1>. QED  BY <1>1, ClaimInit, ClaimNext, PTL DEF Spec, FinalIsFinal, Kept

----------------------------------------------------------------------------
(* What is written down happened *)

(* The dispatchers between a call of the provider and its UPDATE. *)
Marking(k) == {d \in Dispatchers : disp[d].pc = "mark" /\ disp[d].row = k}

(* Every attempt that is counted, or about to be, was a call. *)
Counted == \A k \in Keys : rows[k].attempts + Cardinality(Marking(k)) <= calls[k]

(* What a dispatcher read at its claim is no more than the column says now. *)
ReadEarlier ==
  \A k \in Keys, d \in Dispatchers : Holds(d, k) => disp[d].at[k] <= rows[k].attempts

(* The provider took what a dispatcher is about to mark as sent. *)
Accepted ==
  \A d \in Dispatchers : disp[d].pc = "mark" /\ disp[d].ok => delivered[disp[d].row] > 0

HistoryInv ==
  TypeOK /\ Counted /\ ReadEarlier /\ Accepted /\ SentWasDelivered /\ NotGivenUpEarly

LEMMA HistoryInit == Init => HistoryInv
  <1>. SUFFICES ASSUME Init PROVE HistoryInv
    OBVIOUS
  <1>1. \A d \in Dispatchers : disp[d] = Idle
    BY DEF Init
  <1>2. \A k \in Keys : Marking(k) = {}
    BY <1>1 DEF Marking, Idle
  <1>3. \A k \in Keys : Cardinality(Marking(k)) = 0
    BY <1>2, FS_EmptySet
  <1>4. Counted
    BY <1>3 DEF Init, Counted
  <1>5. \A d \in Dispatchers, k \in Keys : ~Holds(d, k)
    BY <1>1, OutboxAssumption DEF Holds, Idle
  <1>. QED
    BY <1>1, <1>4, <1>5, TypeInit
    DEF Init, Idle, HistoryInv, ReadEarlier, Accepted, SentWasDelivered, NotGivenUpEarly

LEMMA MarkingFinite ==
  ASSUME NEW k
  PROVE  IsFiniteSet(Marking(k)) /\ Cardinality(Marking(k)) \in Nat
  <1>1. Marking(k) \subseteq Dispatchers
    BY DEF Marking
  <1>. QED  BY <1>1, OutboxAssumption, FS_Subset, FS_CardinalityType

(* A step that calls nobody and counts nothing keeps the account, when what   *)
(* is held afterwards was read before or is read now.                        *)
LEMMA AccountKept ==
  ASSUME HistoryInv, UNCHANGED <<calls, delivered>>,
         \A k \in Keys : rows'[k].attempts = rows[k].attempts,
         \A d \in Dispatchers :
           disp'[d].pc = "mark" =>
             disp[d].pc = "mark" /\ disp'[d].row = disp[d].row /\ (disp'[d].ok => disp[d].ok),
         \A k \in Keys, d \in Dispatchers :
           Holds(d, k)' => disp'[d].at[k] <= rows[k].attempts
  PROVE  (Counted /\ ReadEarlier /\ Accepted)'
  <1>1. ASSUME NEW k \in Keys
        PROVE  rows'[k].attempts + Cardinality(Marking(k)') <= calls'[k]
    <2>1. Marking(k)' \subseteq Marking(k)
      BY DEF Marking
    <2>2. /\ IsFiniteSet(Marking(k)) /\ Cardinality(Marking(k)) \in Nat
          /\ Cardinality(Marking(k)') \in Nat /\ Cardinality(Marking(k)') <= Cardinality(Marking(k))
      BY <2>1, MarkingFinite, FS_Subset, FS_CardinalityType
    <2>3. /\ rows[k].attempts + Cardinality(Marking(k)) <= calls[k]
          /\ rows[k].attempts \in Nat /\ calls[k] \in Nat
      BY DEF HistoryInv, Counted, TypeOK, RowType
    <2>. QED  BY <2>2, <2>3
  <1>. QED  BY <1>1 DEF HistoryInv, Counted, ReadEarlier, Accepted

(* The call of the provider: one more call, one more attempt under way. *)
LEMMA SendAccount ==
  ASSUME HistoryInv, NEW d \in Dispatchers, Send(d)
  PROVE  (Counted /\ ReadEarlier /\ Accepted /\ SentWasDelivered /\ NotGivenUpEarly)'
  <1>0. TypeOK
    BY DEF HistoryInv
  <1>1. PICK k \in disp[d].left, ok \in BOOLEAN :
          /\ disp' = [disp EXCEPT ![d] =
                        [@ EXCEPT !.pc = "mark", !.left = disp[d].left \ {k}, !.row = k, !.ok = ok]]
          /\ calls' = [calls EXCEPT ![k] = @ + 1]
          /\ delivered' = [delivered EXCEPT ![k] = IF ok THEN @ + 1 ELSE @]
    BY DEF Send
  <1>2. disp[d].pc = "send" /\ UNCHANGED rows
    BY DEF Send
  <1>3. k \in Keys /\ disp[d] \in SweepType
    BY <1>0, <1>1 DEF TypeOK, SweepType
  <1>4. /\ disp'[d].pc = "mark" /\ disp'[d].row = k /\ disp'[d].ok = ok
        /\ disp'[d].at = disp[d].at /\ disp'[d].left = disp[d].left \ {k}
        /\ \A e \in Dispatchers \ {d} : disp'[e] = disp[e]
    BY <1>0, <1>1, <1>3 DEF TypeOK, SweepType
  <1>5. \A j \in Keys : /\ calls[j] \in Nat /\ delivered[j] \in Nat
                        /\ rows[j].attempts \in Nat
                        /\ calls'[j] = (IF j = k THEN calls[j] + 1 ELSE calls[j])
                        /\ delivered'[j] \in Nat /\ delivered'[j] >= delivered[j]
    BY <1>0, <1>1, <1>3 DEF TypeOK, RowType
  <1>6. ok => delivered'[k] > 0
    BY <1>0, <1>1, <1>3 DEF TypeOK
  <1>7. ASSUME NEW j \in Keys PROVE rows'[j].attempts + Cardinality(Marking(j)') <= calls'[j]
    <2>1. CASE j = k
      <3>1. Marking(k)' = Marking(k) \cup {d}
        BY <1>2, <1>4 DEF Marking
      <3>2. Cardinality(Marking(k)') <= Cardinality(Marking(k)) + 1 /\ Cardinality(Marking(k)') \in Nat
        <4>1. IsFiniteSet(Marking(k)) /\ Cardinality(Marking(k)) \in Nat
          BY MarkingFinite
        <4>2. Cardinality(Marking(k) \cup {d}) =
                IF d \in Marking(k) THEN Cardinality(Marking(k)) ELSE Cardinality(Marking(k)) + 1
          BY <4>1, FS_AddElement
        <4>. QED  BY <3>1, <4>1, <4>2
      <3>3. rows[k].attempts + Cardinality(Marking(k)) <= calls[k] /\ Cardinality(Marking(k)) \in Nat
        BY <1>3, MarkingFinite DEF HistoryInv, Counted
      <3>. QED  BY <1>2, <1>3, <1>5, <2>1, <3>2, <3>3
    <2>2. CASE j # k
      <3>1. Marking(j)' = Marking(j)
        BY <1>2, <1>4, <2>2 DEF Marking
      <3>. QED  BY <1>2, <1>5, <2>2, <3>1 DEF HistoryInv, Counted
    <2>. QED  BY <2>1, <2>2
  <1>8. ReadEarlier'
    BY <1>1, <1>2, <1>4 DEF HistoryInv, ReadEarlier, Holds
  <1>9. ASSUME NEW e \in Dispatchers, disp'[e].pc = "mark", disp'[e].ok
        PROVE  delivered'[disp'[e].row] > 0
    <2>1. CASE e = d
      BY <1>4, <1>6, <1>9, <2>1
    <2>2. CASE e # d
      <3>1. disp[e].pc = "mark" /\ disp[e].ok /\ disp'[e].row = disp[e].row
        BY <1>4, <1>9, <2>2
      <3>2. disp[e].row \in Keys /\ delivered[disp[e].row] > 0
        BY <1>0, <3>1 DEF HistoryInv, Accepted, TypeOK, SweepType, AtOneRow
      <3>. QED  BY <1>5, <3>1, <3>2
    <2>. QED  BY <2>1, <2>2
  <1>10. SentWasDelivered'
    BY <1>2, <1>5 DEF HistoryInv, SentWasDelivered
  <1>11. NotGivenUpEarly'
    BY <1>2, <1>5, OutboxAssumption DEF HistoryInv, NotGivenUpEarly
  <1>. QED  BY <1>7, <1>8, <1>9, <1>10, <1>11 DEF Counted, Accepted

(* The UPDATE to sent: what it writes down is what the provider accepted. *)
LEMMA MarkSentAccount ==
  ASSUME HistoryInv, NEW d \in Dispatchers, MarkSent(d)
  PROVE  (Counted /\ ReadEarlier /\ Accepted /\ SentWasDelivered /\ NotGivenUpEarly)'
  <1>0. TypeOK /\ disp[d].pc = "mark" /\ disp[d].ok /\ Advance(d)
    BY DEF HistoryInv, MarkSent
  <1>1. /\ disp[d].row \in Keys
        /\ \A e \in Dispatchers \ {d} : disp'[e] = disp[e]
        /\ disp'[d].pc # "mark" /\ disp'[d].row = None /\ disp'[d].left = disp[d].left
        /\ \A k \in disp[d].left : disp'[d].at[k] = disp[d].at[k]
    BY <1>0, AdvanceEffect
  <1>2. /\ UNCHANGED <<calls, delivered>>
        /\ \A k \in Keys : rows'[k].attempts = rows[k].attempts
        /\ \A k \in Keys \ {disp[d].row} : rows'[k].status = rows[k].status
        /\ rows'[disp[d].row].status = "sent"
    BY <1>0, <1>1 DEF MarkSent, TypeOK, RowType
  <1>3. ASSUME NEW k \in Keys, NEW e \in Dispatchers, Holds(e, k)'
        PROVE  disp'[e].at[k] <= rows[k].attempts
    <2>1. Holds(e, k) /\ disp'[e].at[k] = disp[e].at[k]
      BY <1>1, <1>3, OutboxAssumption DEF Holds
    <2>. QED  BY <2>1 DEF HistoryInv, ReadEarlier
  <1>4. ASSUME NEW e \in Dispatchers, disp'[e].pc = "mark" PROVE disp'[e] = disp[e]
    BY <1>1, <1>4
  <1>5. (Counted /\ ReadEarlier /\ Accepted)'
    BY <1>2, <1>3, <1>4, AccountKept
  <1>6. delivered[disp[d].row] > 0
    BY <1>0 DEF HistoryInv, Accepted
  <1>7. SentWasDelivered'
    BY <1>2, <1>6 DEF HistoryInv, SentWasDelivered
  <1>8. NotGivenUpEarly'
    BY <1>2 DEF HistoryInv, NotGivenUpEarly
  <1>. QED  BY <1>5, <1>7, <1>8

(* The UPDATE of a failure counts the attempt that was under way.  When it    *)
(* gives the row up, the number read at the claim was large enough, and the   *)
(* column, and so the number of calls, is no smaller.                         *)
LEMMA MarkFailureAccount ==
  ASSUME HistoryInv, NEW d \in Dispatchers, MarkFailure(d)
  PROVE  (Counted /\ ReadEarlier /\ Accepted /\ SentWasDelivered /\ NotGivenUpEarly)'
  <1>k. PICK k : k = disp[d].row
    OBVIOUS
  <1>. DEFINE new == [rows[k] EXCEPT !.attempts = rows[k].attempts + 1, !.due = FALSE,
                        !.status = IF LastAttempt(disp[d].at[k] + 1) THEN "failed" ELSE "pending"]
  <1>0. TypeOK /\ disp[d].pc = "mark" /\ Advance(d)
    BY DEF HistoryInv, MarkFailure
  <1>1. /\ k \in Keys /\ k \notin disp[d].left
        /\ \A e \in Dispatchers \ {d} : disp'[e] = disp[e]
        /\ disp'[d].pc # "mark" /\ disp'[d].row = None /\ disp'[d].left = disp[d].left
        /\ \A j \in disp[d].left : disp'[d].at[j] = disp[d].at[j]
    BY <1>k, <1>0, AdvanceEffect
  <1>2. UNCHANGED <<calls, delivered>> /\ rows' = [rows EXCEPT ![k] = new]
    BY <1>k DEF MarkFailure
  <1>3. /\ rows'[k].attempts = rows[k].attempts + 1
        /\ rows'[k].status \in {"failed", "pending"}
        /\ rows'[k].status = "failed" => disp[d].at[k] + 1 >= MaxAttempts
        /\ \A j \in Keys \ {k} : rows'[j] = rows[j]
    BY <1>0, <1>1, <1>2 DEF TypeOK, RowType, LastAttempt
  <1>. HIDE DEF new
  <1>4. \A j \in Keys : /\ rows[j].attempts \in Nat /\ calls[j] \in Nat
                        /\ \A e \in Dispatchers : disp[e].at[j] \in Nat
    BY <1>0 DEF TypeOK, RowType, SweepType
  <1>5. Marking(k)' = Marking(k) \ {d} /\ d \in Marking(k)
    BY <1>k, <1>0, <1>1 DEF Marking
  <1>6. /\ Cardinality(Marking(k)) \in Nat /\ Cardinality(Marking(k)') \in Nat
        /\ Cardinality(Marking(k)') + 1 = Cardinality(Marking(k))
    <2>1. IsFiniteSet(Marking(k)) /\ Cardinality(Marking(k)) \in Nat
      BY MarkingFinite
    <2>2. /\ IsFiniteSet(Marking(k) \ {d})
          /\ Cardinality(Marking(k) \ {d}) =
               IF d \in Marking(k) THEN Cardinality(Marking(k)) - 1 ELSE Cardinality(Marking(k))
      BY <2>1, FS_RemoveElement
    <2>3. Cardinality(Marking(k) \ {d}) \in Nat
      BY <2>2, FS_CardinalityType
    <2>. QED  BY <1>5, <2>1, <2>2, <2>3
  <1>7. rows[k].attempts + Cardinality(Marking(k)) <= calls[k]
    BY <1>1 DEF HistoryInv, Counted
  <1>8. ASSUME NEW j \in Keys PROVE rows'[j].attempts + Cardinality(Marking(j)') <= calls'[j]
    <2>1. CASE j = k
      BY <1>1, <1>2, <1>3, <1>4, <1>6, <1>7, <2>1
    <2>2. CASE j # k
      <3>1. Marking(j)' = Marking(j)
        BY <1>k, <1>0, <1>1, <2>2 DEF Marking
      <3>. QED  BY <1>2, <1>3, <2>2, <3>1 DEF HistoryInv, Counted
    <2>. QED  BY <2>1, <2>2
  <1>9. ASSUME NEW j \in Keys, NEW e \in Dispatchers, Holds(e, j)'
        PROVE  disp'[e].at[j] <= rows'[j].attempts
    <2>1. Holds(e, j) /\ disp'[e].at[j] = disp[e].at[j]
      BY <1>k, <1>1, <1>9, OutboxAssumption DEF Holds
    <2>2. disp[e].at[j] <= rows[j].attempts
      BY <2>1 DEF HistoryInv, ReadEarlier
    <2>. QED  BY <1>3, <1>4, <2>1, <2>2
  <1>10. Accepted'
    BY <1>1, <1>2 DEF HistoryInv, Accepted
  <1>11. SentWasDelivered'
    BY <1>1, <1>2, <1>3 DEF HistoryInv, SentWasDelivered
  <1>12. rows'[k].status = "failed" => calls[k] >= MaxAttempts
    <2>1. disp[d].at[k] <= rows[k].attempts
      BY <1>k, <1>1 DEF HistoryInv, ReadEarlier, Holds
    <2>. QED  BY <1>1, <1>3, <1>4, <1>6, <1>7, <2>1, OutboxAssumption
  <1>13. NotGivenUpEarly'
    BY <1>1, <1>2, <1>3, <1>12 DEF HistoryInv, NotGivenUpEarly
  <1>. QED  BY <1>8, <1>9, <1>10, <1>11, <1>13 DEF Counted, ReadEarlier

(* A step that neither calls nor marks, and finishes no row. *)
LEMMA NothingWritten ==
  ASSUME HistoryInv, (Counted /\ ReadEarlier /\ Accepted)', UNCHANGED <<calls, delivered>>,
         \A k \in Keys : rows'[k].status \in {"sent", "failed"} => rows'[k].status = rows[k].status
  PROVE  (Counted /\ ReadEarlier /\ Accepted /\ SentWasDelivered /\ NotGivenUpEarly)'
  BY DEF HistoryInv, SentWasDelivered, NotGivenUpEarly

LEMMA HistoryNext == HistoryInv /\ [Next]_vars => HistoryInv'
  <1>. DEFINE Goal == (Counted /\ ReadEarlier /\ Accepted /\ SentWasDelivered /\ NotGivenUpEarly)'
  <1>. SUFFICES ASSUME HistoryInv, [Next]_vars PROVE Goal
    BY TypeNext DEF HistoryInv
  <1>0. TypeOK /\ rows \in [Keys -> RowType] /\ disp \in [Dispatchers -> SweepType]
    BY DEF HistoryInv, TypeOK
  <1>a. \A d \in Dispatchers, k \in Keys : Holds(d, k) => disp[d].at[k] <= rows[k].attempts
    BY DEF HistoryInv, ReadEarlier
  <1>1. ASSUME UNCHANGED <<calls, delivered, disp>>,
               \A k \in Keys : /\ rows'[k].attempts = rows[k].attempts
                               /\ rows'[k].status \in {"sent", "failed"} =>
                                    rows'[k].status = rows[k].status
        PROVE  Goal
    <2>1. (Counted /\ ReadEarlier /\ Accepted)'
      BY <1>a, <1>1, AccountKept DEF Holds
    <2>. QED  BY <1>1, <2>1, NothingWritten
  <1>2. ASSUME NEW k \in Keys,
               Enqueue(k) \/ BecomesDue(k) \/ AbandonedGoesStale(k) \/ Overtake(k)
        PROVE  Goal
    <2>1. UNCHANGED <<calls, delivered, disp>>
      BY <1>2 DEF Enqueue, BecomesDue, AbandonedGoesStale, Overtake
    <2>2. ASSUME NEW j \in Keys
          PROVE  /\ rows'[j].attempts = rows[j].attempts
                 /\ rows'[j].status \in {"sent", "failed"} => rows'[j].status = rows[j].status
      BY <1>0, <1>2 DEF Enqueue, BecomesDue, AbandonedGoesStale, Overtake, RowType
    <2>. QED  BY <1>1, <2>1, <2>2
  <1>3. ASSUME NEW d \in Dispatchers, Reclaim(d) PROVE Goal
    <2>1. /\ disp' = [disp EXCEPT ![d] = [disp[d] EXCEPT !.pc = "claim"]]
          /\ UNCHANGED <<calls, delivered>>
      BY <1>3 DEF Reclaim
    <2>2. ASSUME NEW j \in Keys
          PROVE  /\ rows'[j].attempts = rows[j].attempts
                 /\ rows'[j].status \in {"sent", "failed"} => rows'[j].status = rows[j].status
      BY <1>0, <1>3 DEF Reclaim, RowType
    <2>3. ASSUME NEW e \in Dispatchers, disp'[e].pc = "mark" PROVE disp'[e] = disp[e]
      BY <1>0, <2>1, <2>3 DEF SweepType
    <2>4. ASSUME NEW k \in Keys, NEW e \in Dispatchers, Holds(e, k)'
          PROVE  disp'[e].at[k] <= rows[k].attempts
      <3>1. Holds(e, k) /\ disp'[e].at = disp[e].at
        BY <1>0, <2>1, <2>4 DEF Holds, SweepType
      <3>. QED  BY <1>a, <3>1
    <2>5. (Counted /\ ReadEarlier /\ Accepted)'
      BY <2>1, <2>2, <2>3, <2>4, AccountKept
    <2>. QED  BY <2>1, <2>2, <2>5, NothingWritten
  <1>4. ASSUME NEW d \in Dispatchers, Claim(d) PROVE Goal
    <2>1. PICK S \in SUBSET Keys :
            /\ disp' = [disp EXCEPT ![d] = Work(S)]
            /\ rows' = [k \in Keys |-> IF k \in S
                                       THEN [rows[k] EXCEPT !.status = "sending", !.stale = FALSE]
                                       ELSE rows[k]]
            /\ Work(S).left = S /\ Work(S).row = None /\ Work(S).pc # "mark"
            /\ \A k \in S : Work(S).at[k] = rows[k].attempts
      BY <1>0, <1>4, ClaimEffect
    <2>2. UNCHANGED <<calls, delivered>>
      BY <1>4 DEF Claim
    <2>3. ASSUME NEW j \in Keys
          PROVE  /\ rows'[j].attempts = rows[j].attempts
                 /\ rows'[j].status \in {"sent", "failed"} => rows'[j].status = rows[j].status
      BY <1>0, <2>1 DEF RowType
    <2>4. disp'[d] = Work(S) /\ \A e \in Dispatchers \ {d} : disp'[e] = disp[e]
      BY <1>0, <2>1
    <2>5. ASSUME NEW e \in Dispatchers, disp'[e].pc = "mark" PROVE disp'[e] = disp[e]
      BY <2>1, <2>4, <2>5
    <2>6. ASSUME NEW k \in Keys, NEW e \in Dispatchers, Holds(e, k)'
          PROVE  disp'[e].at[k] <= rows[k].attempts
      <3>1. CASE e = d
        <4>1. k \in S /\ disp'[e].at[k] = rows[k].attempts
          BY <2>1, <2>4, <2>6, <3>1, OutboxAssumption DEF Holds
        <4>2. rows[k].attempts \in Nat
          BY <1>0 DEF RowType
        <4>. QED  BY <4>1, <4>2
      <3>2. CASE e # d
        BY <1>a, <2>4, <2>6, <3>2 DEF Holds
      <3>. QED  BY <3>1, <3>2
    <2>7. (Counted /\ ReadEarlier /\ Accepted)'
      BY <2>2, <2>3, <2>5, <2>6, AccountKept
    <2>. QED  BY <2>2, <2>3, <2>7, NothingWritten
  <1>5. ASSUME NEW d \in Dispatchers, StatementFails(d) \/ Crash(d) PROVE Goal
    <2>1. /\ UNCHANGED <<rows, calls, delivered>>
          /\ \/ disp' = [disp EXCEPT ![d] = [disp[d] EXCEPT !.ok = FALSE]]
             \/ disp' = [disp EXCEPT ![d] = Idle]
      BY <1>5 DEF StatementFails, Crash
    <2>2. ASSUME NEW e \in Dispatchers
          PROVE  /\ disp'[e].pc = "mark" => /\ disp[e].pc = "mark" /\ disp'[e].row = disp[e].row
                                            /\ disp'[e].ok => disp[e].ok
                 /\ \A k \in Keys : Holds(e, k)' => Holds(e, k) /\ disp'[e].at = disp[e].at
      <3>1. CASE disp' = [disp EXCEPT ![d] = [disp[d] EXCEPT !.ok = FALSE]]
        BY <1>0, <3>1 DEF Holds, SweepType
      <3>2. CASE disp' = [disp EXCEPT ![d] = Idle]
        BY <1>0, <3>2, OutboxAssumption DEF Holds, Idle
      <3>. QED  BY <2>1, <3>1, <3>2
    <2>3. (Counted /\ ReadEarlier /\ Accepted)'
      BY <1>a, <2>1, <2>2, AccountKept
    <2>. QED  BY <2>1, <2>3, NothingWritten
  <1>6. CASE UNCHANGED vars
    BY <1>1, <1>6 DEF vars
  <1>. QED
    BY <1>2, <1>3, <1>4, <1>5, <1>6, SendAccount, MarkSentAccount, MarkFailureAccount
    DEF Next, Sweep

(* A row that says sent was taken by the provider, whatever crashed, failed   *)
(* or was overtaken on the way.                                              *)
THEOREM SentIsTrue == Spec => []SentWasDelivered
  <1>1. HistoryInv => SentWasDelivered
    BY DEF HistoryInv
  <1>. QED  BY <1>1, HistoryInit, HistoryNext, PTL DEF Spec

(* A notification is given up only after the whole ladder of attempts, also   *)
(* when dispatchers overtake each other and count on one row.                *)
THEOREM LadderIsClimbed == Spec => []NotGivenUpEarly
  <1>1. HistoryInv => NotGivenUpEarly
    BY DEF HistoryInv
  <1>. QED  BY <1>1, HistoryInit, HistoryNext, PTL DEF Spec

----------------------------------------------------------------------------
(* What a message may still cost *)

(* The dispatchers whose work on a row may yet deliver it. *)
Trying(k) == {d \in Dispatchers : k \in disp[d].left \/ (disp[d].row = k /\ ~disp[d].ok)}

(* A row another sweep will take up: it waits, was given back, or lies in     *)
(* "sending" with nobody, or nobody timely, at work on it.                   *)
Open(k) ==
  \/ rows[k].status \in {"absent", "pending"}
  \/ rows[k].status = "sending" /\ (rows[k].stale \/ \A d \in Dispatchers : ~Holds(d, k))

Spare(k) == IF Open(k) THEN 1 ELSE 0

(* What was delivered, and what may still be on the strength of what is held  *)
(* and what waits, was paid for with a fault but for the first one.          *)
PaidFor == \A k \in Keys : delivered[k] + Cardinality(Trying(k)) + Spare(k) <= 1 + faults

(* Between two sweeps a dispatcher has no batch. *)
NothingLeft == \A d \in Dispatchers : disp[d].pc \in {"idle", "claim"} => disp[d].left = {}

PriceInv == TypeOK /\ NothingLeft /\ PaidFor

LEMMA TryingFinite ==
  ASSUME NEW k
  PROVE  IsFiniteSet(Trying(k)) /\ Cardinality(Trying(k)) \in Nat
  <1>1. Trying(k) \subseteq Dispatchers
    BY DEF Trying
  <1>. QED  BY <1>1, OutboxAssumption, FS_Subset, FS_CardinalityType

LEMMA TryingFinitePrime ==
  ASSUME NEW k
  PROVE  IsFiniteSet(Trying(k)') /\ Cardinality(Trying(k)') \in Nat
  <1>1. Trying(k)' \subseteq Dispatchers
    BY DEF Trying
  <1>. QED  BY <1>1, OutboxAssumption, FS_Subset, FS_CardinalityType

Paid(k) == delivered[k] + Cardinality(Trying(k)) + Spare(k) <= 1 + faults

(* Nobody new is at work, and what happened was paid for. *)
LEMMA PaidNobodyNew ==
  ASSUME PriceInv, TypeOK', NEW k \in Keys, Trying(k)' \subseteq Trying(k),
         delivered'[k] + Spare(k)' + faults <= delivered[k] + Spare(k) + faults'
  PROVE  Paid(k)'
  <1>1. Cardinality(Trying(k)') <= Cardinality(Trying(k))
    BY TryingFinite, FS_Subset
  <1>2. delivered[k] + Cardinality(Trying(k)) + Spare(k) <= 1 + faults
    BY DEF PriceInv, PaidFor
  <1>3. /\ delivered[k] \in Nat /\ delivered'[k] \in Nat /\ faults \in Nat /\ faults' \in Nat
        /\ Spare(k) \in Nat /\ Spare(k)' \in Nat
    BY DEF PriceInv, TypeOK, Spare
  <1>. QED  BY <1>1, <1>2, <1>3, TryingFinite, TryingFinitePrime DEF Paid

(* One dispatcher is done with the row: it delivered it, or gave it back. *)
LEMMA PaidByLeaving ==
  ASSUME PriceInv, TypeOK', NEW k \in Keys, NEW d \in Trying(k),
         Trying(k)' \subseteq Trying(k) \ {d},
         delivered'[k] + Spare(k)' + faults <= delivered[k] + Spare(k) + faults' + 1
  PROVE  Paid(k)'
  <1>1. /\ IsFiniteSet(Trying(k) \ {d})
        /\ Cardinality(Trying(k) \ {d}) = Cardinality(Trying(k)) - 1
    BY TryingFinite, FS_RemoveElement
  <1>2. Cardinality(Trying(k)') <= Cardinality(Trying(k)) - 1
    BY <1>1, FS_Subset
  <1>3. delivered[k] + Cardinality(Trying(k)) + Spare(k) <= 1 + faults
    BY DEF PriceInv, PaidFor
  <1>4. /\ delivered[k] \in Nat /\ delivered'[k] \in Nat /\ faults \in Nat /\ faults' \in Nat
        /\ Spare(k) \in Nat /\ Spare(k)' \in Nat
    BY DEF PriceInv, TypeOK, Spare
  <1>. QED  BY <1>2, <1>3, <1>4, TryingFinite, TryingFinitePrime DEF Paid

(* One dispatcher takes the row up, for one that waited or for a fault. *)
LEMMA PaidByTaking ==
  ASSUME PriceInv, TypeOK', NEW k \in Keys, NEW d \in Dispatchers,
         Trying(k)' \subseteq Trying(k) \cup {d},
         delivered'[k] + Spare(k)' + faults + 1 <= delivered[k] + Spare(k) + faults'
  PROVE  Paid(k)'
  <1>1. /\ IsFiniteSet(Trying(k) \cup {d})
        /\ Cardinality(Trying(k) \cup {d}) =
             IF d \in Trying(k) THEN Cardinality(Trying(k)) ELSE Cardinality(Trying(k)) + 1
    BY TryingFinite, FS_AddElement
  <1>2. Cardinality(Trying(k)') <= Cardinality(Trying(k) \cup {d})
    BY <1>1, FS_Subset
  <1>3. Cardinality(Trying(k)') <= Cardinality(Trying(k)) + 1
    BY <1>1, <1>2, TryingFinite, TryingFinitePrime
  <1>4. delivered[k] + Cardinality(Trying(k)) + Spare(k) <= 1 + faults
    BY DEF PriceInv, PaidFor
  <1>5. /\ delivered[k] \in Nat /\ delivered'[k] \in Nat /\ faults \in Nat /\ faults' \in Nat
        /\ Spare(k) \in Nat /\ Spare(k)' \in Nat
    BY DEF PriceInv, TypeOK, Spare
  <1>. QED  BY <1>3, <1>4, <1>5, TryingFinite, TryingFinitePrime DEF Paid

(* What a step does to one row when it is done at the price of a fault. *)
LEMMA PaidByFault ==
  ASSUME PriceInv, TypeOK', NEW k \in Keys, Trying(k)' \subseteq Trying(k),
         delivered'[k] = delivered[k], faults' = faults + 1
  PROVE  Paid(k)'
  <1>1. delivered'[k] + Spare(k)' + faults <= delivered[k] + Spare(k) + faults'
    BY DEF PriceInv, TypeOK, Spare
  <1>. QED  BY <1>1, PaidNobodyNew

LEMMA PriceInit == Init => PriceInv
  <1>. SUFFICES ASSUME Init PROVE PriceInv
    OBVIOUS
  <1>1. \A d \in Dispatchers : disp[d] = Idle
    BY DEF Init
  <1>2. \A k \in Keys : Cardinality(Trying(k)) = 0
    <2>1. \A k \in Keys : Trying(k) = {}
      BY <1>1, OutboxAssumption DEF Trying, Idle
    <2>. QED  BY <2>1, FS_EmptySet
  <1>3. \A k \in Keys : delivered[k] = 0 /\ faults = 0 /\ Spare(k) \in {0, 1}
    BY DEF Init, Spare
  <1>4. PaidFor
    BY <1>2, <1>3 DEF PaidFor
  <1>5. NothingLeft
    BY <1>1 DEF NothingLeft, Idle
  <1>. QED  BY <1>4, <1>5, TypeInit DEF PriceInv

LEMMA NothingLeftNext == TypeOK /\ NothingLeft /\ [Next]_vars => NothingLeft'
  <1>. SUFFICES ASSUME TypeOK, NothingLeft, [Next]_vars PROVE NothingLeft'
    OBVIOUS
  <1>0. disp \in [Dispatchers -> SweepType]
    BY DEF TypeOK
  <1>a. Idle.left = {}
    BY DEF Idle
  <1>1. ASSUME UNCHANGED disp PROVE NothingLeft'
    BY <1>1 DEF NothingLeft
  <1>2. ASSUME NEW k \in Keys,
               Enqueue(k) \/ BecomesDue(k) \/ AbandonedGoesStale(k) \/ Overtake(k)
        PROVE  NothingLeft'
    BY <1>1, <1>2 DEF Enqueue, BecomesDue, AbandonedGoesStale, Overtake
  <1>3. ASSUME NEW d \in Dispatchers, Reclaim(d) PROVE NothingLeft'
    BY <1>0, <1>3 DEF Reclaim, NothingLeft, SweepType
  <1>4. ASSUME NEW d \in Dispatchers, Claim(d) PROVE NothingLeft'
    <2>1. PICK S \in Claims : disp' = [disp EXCEPT ![d] = Work(S)]
      BY <1>4 DEF Claim
    <2>2. Work(S).pc \in {"idle", "claim"} => Work(S).left = {}
      BY <1>a DEF Work, Idle
    <2>. QED  BY <1>0, <2>1, <2>2 DEF NothingLeft
  <1>5. ASSUME NEW d \in Dispatchers, Send(d) PROVE NothingLeft'
    <2>1. PICK k \in disp[d].left, ok \in BOOLEAN :
            disp' = [disp EXCEPT ![d] =
                      [@ EXCEPT !.pc = "mark", !.left = disp[d].left \ {k}, !.row = k, !.ok = ok]]
      BY <1>5 DEF Send
    <2>2. disp'[d].pc = "mark" /\ \A e \in Dispatchers \ {d} : disp'[e] = disp[e]
      BY <1>0, <2>1 DEF SweepType
    <2>. QED  BY <2>2 DEF NothingLeft
  <1>6. ASSUME NEW d \in Dispatchers, Advance(d) PROVE NothingLeft'
    <2>1. disp'[d] = Idle \/ disp'[d].pc = "send"
      BY <1>0, <1>6 DEF Advance, SweepType
    <2>2. \A e \in Dispatchers \ {d} : disp'[e] = disp[e]
      BY <1>0, <1>6 DEF Advance
    <2>. QED  BY <1>a, <2>1, <2>2 DEF NothingLeft
  <1>7. ASSUME NEW d \in Dispatchers, StatementFails(d) \/ Crash(d) PROVE NothingLeft'
    <2>1. \/ disp[d].pc = "mark" /\ disp' = [disp EXCEPT ![d] = [disp[d] EXCEPT !.ok = FALSE]]
          \/ disp' = [disp EXCEPT ![d] = Idle]
      BY <1>7 DEF StatementFails, Crash
    <2>. QED  BY <1>0, <1>a, <2>1 DEF NothingLeft, SweepType
  <1>. QED
    BY <1>1, <1>2, <1>3, <1>4, <1>5, <1>6, <1>7 DEF Next, Sweep, vars, MarkSent, MarkFailure

(* The UPDATE after a call: the dispatcher leaves its row and keeps the rest  *)
(* of its batch.                                                             *)
LEMMA MarkLeaves ==
  ASSUME TypeOK, NEW d \in Dispatchers, disp[d].pc = "mark", Advance(d), NEW j \in Keys, j = disp[d].row
  PROVE  /\ \A k \in Keys \ {j} :
              Trying(k)' \subseteq Trying(k) /\ \A e \in Dispatchers : Holds(e, k)' = Holds(e, k)
         /\ Trying(j)' \subseteq Trying(j) \ {d}
  <1>1. /\ j \notin disp[d].left
        /\ \A e \in Dispatchers \ {d} : disp'[e] = disp[e]
        /\ disp'[d].row = None /\ disp'[d].left = disp[d].left
    BY AdvanceEffect
  <1>2. ASSUME NEW k \in Keys \ {j}
        PROVE  Trying(k)' \subseteq Trying(k) /\ \A e \in Dispatchers : Holds(e, k)' = Holds(e, k)
    <2>1. ASSUME NEW e \in Dispatchers
          PROVE  /\ (k \in disp'[e].left) = (k \in disp[e].left)
                 /\ (disp'[e].row = k) = (disp[e].row = k)
                 /\ disp'[e].row = k => disp'[e].ok = disp[e].ok
      BY <1>1, OutboxAssumption
    <2>. QED  BY <2>1 DEF Trying, Holds
  <1>3. Trying(j)' \subseteq Trying(j) \ {d}
    BY <1>1, OutboxAssumption DEF Trying
  <1>. QED  BY <1>2, <1>3

(* Crash and failed statement: a dispatcher leaves all its rows, or takes a   *)
(* delivery for failed.                                                      *)
LEMMA PaidForTrouble ==
  ASSUME PriceInv, TypeOK', NEW d \in Dispatchers, StatementFails(d) \/ Crash(d), NEW k \in Keys
  PROVE  Paid(k)'
  <1>0. disp \in [Dispatchers -> SweepType] /\ delivered \in [Keys -> Nat] /\ faults \in Nat
    BY DEF PriceInv, TypeOK
  <1>1. /\ UNCHANGED <<rows, calls, delivered, overtaken>> /\ faults' = faults + 1
        /\ \/ disp[d].pc = "mark" /\ disp' = [disp EXCEPT ![d] = [disp[d] EXCEPT !.ok = FALSE]]
           \/ disp' = [disp EXCEPT ![d] = Idle]
    BY DEF StatementFails, Crash, Fault
  <1>2. CASE disp' = [disp EXCEPT ![d] = [disp[d] EXCEPT !.ok = FALSE]]
    <2>1. \A e \in Dispatchers : /\ disp'[e].left = disp[e].left /\ disp'[e].row = disp[e].row
                                 /\ e # d => disp'[e].ok = disp[e].ok
      BY <1>0, <1>2 DEF SweepType
    <2>2. Trying(k)' \subseteq Trying(k) \cup {d}
      BY <2>1 DEF Trying
    <2>3. Open(k)' = Open(k)
      BY <1>1, <2>1 DEF Open, Holds
    <2>4. Spare(k)' = Spare(k) /\ Spare(k) \in Nat /\ delivered[k] \in Nat
      BY <1>0, <2>3 DEF Spare
    <2>. QED  BY <1>0, <1>1, <2>2, <2>4, PaidByTaking
  <1>3. CASE disp' = [disp EXCEPT ![d] = Idle]
    <2>1. Trying(k)' \subseteq Trying(k)
      BY <1>0, <1>3, OutboxAssumption DEF Trying, Idle
    <2>. QED  BY <1>1, <2>1, PaidByFault
  <1>. QED  BY <1>1, <1>2, <1>3

(* The claim: a row that waited is one that a dispatcher is at work on. *)
LEMMA PaidForClaim ==
  ASSUME PriceInv, TypeOK', NEW d \in Dispatchers, Claim(d), NEW k \in Keys
  PROVE  Paid(k)'
  <1>0. TypeOK /\ disp \in [Dispatchers -> SweepType] /\ delivered \in [Keys -> Nat] /\ faults \in Nat
    BY DEF PriceInv, TypeOK
  <1>1. PICK S \in SUBSET Keys :
          /\ \A j \in S : rows[j].status = "pending"
          /\ disp' = [disp EXCEPT ![d] = Work(S)]
          /\ rows' = [j \in Keys |-> IF j \in S
                                     THEN [rows[j] EXCEPT !.status = "sending", !.stale = FALSE]
                                     ELSE rows[j]]
          /\ Work(S).left = S /\ Work(S).row = None
    BY <1>0, ClaimEffect
  <1>2. disp[d].left = {} /\ disp[d].row = None /\ UNCHANGED <<delivered, faults>>
    BY <1>0 DEF Claim, PriceInv, NothingLeft, TypeOK, AtOneRow
  <1>3. /\ disp'[d].left = S /\ disp'[d].row = None
        /\ \A e \in Dispatchers \ {d} : disp'[e] = disp[e]
    BY <1>0, <1>1
  <1>4. delivered[k] \in Nat /\ Spare(k) \in Nat /\ Spare(k)' \in Nat
    BY <1>0 DEF Spare
  <1>5. CASE k \in S
    <2>1. Trying(k)' \subseteq Trying(k) \cup {d}
      BY <1>3 DEF Trying
    <2>2. Open(k)
      BY <1>1, <1>5 DEF Open
    <2>3. rows'[k].status = "sending" /\ ~rows'[k].stale
      BY <1>0, <1>1, <1>5, ZenonT(30) DEF TypeOK, RowType
    <2>4. Holds(d, k)'
      BY <1>3, <1>5 DEF Holds
    <2>5. ~Open(k)'
      BY <2>3, <2>4 DEF Open
    <2>6. Spare(k) = 1 /\ Spare(k)' = 0
      BY <2>2, <2>5 DEF Spare
    <2>. QED  BY <1>0, <1>2, <1>4, <2>1, <2>6, PaidByTaking
  <1>6. CASE k \notin S
    <2>1. \A e \in Dispatchers : /\ (k \in disp'[e].left) = (k \in disp[e].left)
                                 /\ (disp'[e].row = k) = (disp[e].row = k)
                                 /\ disp'[e].row = k => disp'[e].ok = disp[e].ok
      BY <1>2, <1>3, <1>6, OutboxAssumption
    <2>2. Trying(k)' \subseteq Trying(k)
      BY <2>1 DEF Trying
    <2>3. rows'[k] = rows[k]
      BY <1>1, <1>6
    <2>4. Open(k)' = Open(k)
      BY <2>1, <2>3 DEF Open, Holds
    <2>5. Spare(k)' = Spare(k)
      BY <2>4 DEF Spare
    <2>. QED  BY <1>0, <1>2, <1>4, <2>2, <2>5, PaidNobodyNew
  <1>. QED  BY <1>5, <1>6

(* The call: what is delivered is no longer to be delivered. *)
LEMMA PaidForCall ==
  ASSUME PriceInv, TypeOK', NEW d \in Dispatchers, Send(d), NEW k \in Keys
  PROVE  Paid(k)'
  <1>0. TypeOK /\ disp \in [Dispatchers -> SweepType] /\ delivered \in [Keys -> Nat] /\ faults \in Nat
    BY DEF PriceInv, TypeOK
  <1>1. PICK j \in disp[d].left, ok \in BOOLEAN :
          /\ disp' = [disp EXCEPT ![d] =
                        [@ EXCEPT !.pc = "mark", !.left = disp[d].left \ {j}, !.row = j, !.ok = ok]]
          /\ delivered' = [delivered EXCEPT ![j] = IF ok THEN @ + 1 ELSE @]
    BY DEF Send
  <1>2. UNCHANGED <<rows, faults>> /\ disp[d].pc = "send"
    BY DEF Send
  <1>3. disp[d].row = None
    BY <1>0, <1>2, OutboxAssumption DEF TypeOK, AtOneRow
  <1>4. /\ disp'[d].row = j /\ disp'[d].ok = ok /\ disp'[d].left = disp[d].left \ {j}
        /\ \A e \in Dispatchers \ {d} : disp'[e] = disp[e]
    BY <1>0, <1>1 DEF SweepType
  <1>5. \A e \in Dispatchers : Holds(e, k)' = Holds(e, k)
    BY <1>1, <1>3, <1>4, OutboxAssumption DEF Holds
  <1>6. Open(k)' = Open(k)
    BY <1>2, <1>5 DEF Open
  <1>7. Spare(k)' = Spare(k) /\ Spare(k) \in Nat /\ delivered[k] \in Nat
    BY <1>0, <1>6 DEF Spare
  <1>8. CASE k = j /\ ok
    <2>1. d \in Trying(k)
      BY <1>8 DEF Trying
    <2>2. Trying(k)' \subseteq Trying(k) \ {d}
      BY <1>4, <1>8 DEF Trying
    <2>3. delivered'[k] = delivered[k] + 1
      BY <1>0, <1>1, <1>8
    <2>. QED  BY <1>0, <1>2, <1>7, <2>1, <2>2, <2>3, PaidByLeaving
  <1>9. CASE ~(k = j /\ ok)
    <2>1. Trying(k)' \subseteq Trying(k)
      BY <1>4, <1>9 DEF Trying
    <2>2. delivered'[k] = delivered[k]
      BY <1>0, <1>1, <1>9
    <2>. QED  BY <1>0, <1>2, <1>7, <2>1, <2>2, PaidNobodyNew
  <1>. QED  BY <1>8, <1>9

(* The UPDATE: a row that failed waits again in place of the dispatcher that  *)
(* tried it.                                                                 *)
LEMMA PaidForMark ==
  ASSUME PriceInv, TypeOK', NEW d \in Dispatchers, MarkSent(d) \/ MarkFailure(d), NEW k \in Keys
  PROVE  Paid(k)'
  <1>0. /\ TypeOK /\ rows \in [Keys -> RowType] /\ delivered \in [Keys -> Nat] /\ faults \in Nat
        /\ disp[d].pc = "mark" /\ Advance(d) /\ UNCHANGED <<delivered, faults>>
    BY DEF PriceInv, TypeOK, MarkSent, MarkFailure
  <1>1. PICK j \in Keys : j = disp[d].row
    BY <1>0, AdvanceEffect
  <1>2. /\ \A i \in Keys \ {j} :
             Trying(i)' \subseteq Trying(i) /\ \A e \in Dispatchers : Holds(e, i)' = Holds(e, i)
        /\ Trying(j)' \subseteq Trying(j) \ {d}
    BY <1>0, <1>1, MarkLeaves
  <1>3. delivered[k] \in Nat /\ Spare(k) \in Nat /\ Spare(k)' \in {0, 1}
    BY <1>0 DEF Spare
  <1>4. CASE k # j
    <2>1. rows'[k] = rows[k]
      BY <1>0, <1>1, <1>4 DEF MarkSent, MarkFailure
    <2>2. Open(k)' = Open(k)
      BY <1>2, <1>4, <2>1 DEF Open
    <2>3. Spare(k)' = Spare(k)
      BY <2>2 DEF Spare
    <2>. QED  BY <1>0, <1>2, <1>3, <1>4, <2>3, PaidNobodyNew
  <1>5. CASE k = j /\ MarkSent(d)
    <2>1. rows'[k].status = "sent"
      BY <1>0, <1>1, <1>5 DEF MarkSent, RowType
    <2>2. Spare(k)' = 0
      BY <2>1 DEF Spare, Open
    <2>. QED  BY <1>0, <1>2, <1>3, <1>5, <2>2, PaidNobodyNew
  <1>6. CASE k = j /\ MarkFailure(d)
    <2>1. d \in Trying(k)
      BY <1>1, <1>6 DEF Trying, MarkFailure
    <2>. QED  BY <1>0, <1>2, <1>3, <1>6, <2>1, PaidByLeaving
  <1>. QED  BY <1>4, <1>5, <1>6

LEMMA PriceNext == PriceInv /\ [Next]_vars => PriceInv'
  <1>. SUFFICES ASSUME PriceInv, [Next]_vars, TypeOK', NEW k \in Keys PROVE Paid(k)'
    BY TypeNext, NothingLeftNext DEF PriceInv, PaidFor, Paid
  <1>0. /\ rows \in [Keys -> RowType] /\ delivered \in [Keys -> Nat] /\ faults \in Nat
        /\ disp \in [Dispatchers -> SweepType]
    BY DEF PriceInv, TypeOK
  <1>1. ASSUME UNCHANGED <<delivered, faults>>, Open(k)' => Open(k), Trying(k)' \subseteq Trying(k)
        PROVE  Paid(k)'
    <2>1. /\ Spare(k)' <= Spare(k) /\ Spare(k) \in Nat /\ Spare(k)' \in Nat
          /\ delivered[k] \in Nat
      BY <1>0, <1>1 DEF Spare
    <2>. QED  BY <1>0, <1>1, <2>1, PaidNobodyNew
  <1>2. ASSUME NEW j \in Keys, Enqueue(j) \/ BecomesDue(j) \/ AbandonedGoesStale(j)
        PROVE  Paid(k)'
    <2>1. UNCHANGED <<delivered, faults, disp>>
      BY <1>2 DEF Enqueue, BecomesDue, AbandonedGoesStale
    <2>2. \/ rows'[k].status = rows[k].status /\ rows'[k].stale = rows[k].stale
          \/ rows[k].status = "absent"
          \/ AbandonedGoesStale(k)
      BY <1>0, <1>2 DEF Enqueue, BecomesDue, AbandonedGoesStale, RowType
    <2>3. Open(k)' => Open(k)
      BY <2>1, <2>2 DEF Open, Holds, AbandonedGoesStale
    <2>. QED  BY <1>1, <2>1, <2>3 DEF Trying
  <1>3. ASSUME NEW j \in Keys, Overtake(j) PROVE Paid(k)'
    BY <1>3, PaidByFault DEF Overtake, Fault, Trying
  <1>4. ASSUME NEW d \in Dispatchers, Reclaim(d) PROVE Paid(k)'
    <2>1. UNCHANGED <<delivered, faults>>
      BY <1>4 DEF Reclaim
    <2>2. \A e \in Dispatchers : /\ disp'[e].left = disp[e].left /\ disp'[e].row = disp[e].row
                                 /\ disp'[e].ok = disp[e].ok
      BY <1>0, <1>4 DEF Reclaim, SweepType
    <2>3. rows'[k] = rows[k] \/ Reclaimable(k)
      BY <1>4 DEF Reclaim
    <2>4. Open(k)' => Open(k)
      BY <2>2, <2>3 DEF Open, Holds, Reclaimable
    <2>. QED  BY <1>1, <2>1, <2>2, <2>4 DEF Trying
  <1>5. CASE UNCHANGED vars
    BY <1>1, <1>5 DEF vars, Open, Trying, Holds
  <1>. QED
    BY <1>2, <1>3, <1>4, <1>5, PaidForTrouble, PaidForClaim, PaidForCall, PaidForMark
    DEF Next, Sweep

(* Every delivery after the first was bought with a crash, a failed statement *)
(* or an overtaken claim; without any, a notification goes out once.         *)
THEOREM DuplicatesArePaid == Spec => []DuplicatesBounded
  <1>1. PriceInv => DuplicatesBounded
    <2>. SUFFICES ASSUME PriceInv, NEW k \in Keys PROVE delivered[k] <= 1 + faults
      BY DEF DuplicatesBounded
    <2>1. delivered[k] + Cardinality(Trying(k)) + Spare(k) <= 1 + faults
      BY DEF PriceInv, PaidFor
    <2>2. delivered[k] \in Nat /\ faults \in Nat /\ Spare(k) \in Nat
      BY DEF PriceInv, TypeOK, Spare
    <2>. QED  BY <2>1, <2>2, TryingFinite
  <1>. QED  BY <1>1, PriceInit, PriceNext, PTL DEF Spec

=============================================================================
