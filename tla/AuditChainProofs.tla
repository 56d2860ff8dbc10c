-------------------------- MODULE AuditChainProofs --------------------------
(***************************************************************************)
(* Theorems of AuditChain: any number of emissions and of purges.          *)
(***************************************************************************)
EXTENDS AuditChain, TLAPS

(* A retained log is a segment of the chain: numbers in the order of time,    *)
(* without gaps, each row linked to the one before.                          *)
RowShape(x) ==
  /\ x.seq \in Nat \ {0}
  /\ x.at \in 1 .. inserted
  /\ x.content \in Contents
  /\ x.hash = Hash(x.prev, x.seq, x.content)
  /\ x.seq = 1 => x.prev = Genesis

Shaped == inserted \in Nat /\ \A x \in rows : RowShape(x)
Ordered == \A x, y \in rows : (x.seq < y.seq <=> x.at < y.at) /\ (x.seq = y.seq => x = y)
Gapless ==
  \A x, y \in rows, n \in Nat : x.seq < n /\ n < y.seq => \E z \in rows : z.seq = n
Linked == \A x, y \in rows : y.seq = x.seq + 1 => y.prev = x.hash

(* The newest row is always there, from the first event on: the purge has no  *)
(* quiet spell to take it in.                                                *)
NewestKept == inserted > 0 => \E x \in rows : x.at = inserted

(* What an emission in flight has read is still the newest row, or the number *)
(* it is about to take has been taken since.                                 *)
StillNewest(e) ==
  \/ rows = {} /\ emitter[e].seq = 0 /\ emitter[e].hash = Genesis
  \/ \E x \in rows : Newest(x) /\ x.seq = emitter[e].seq /\ x.hash = emitter[e].hash
TakenSince(e) == \E x \in rows : x.seq = emitter[e].seq + 1 /\ x.at > emitter[e].at
InFlight(e) ==
  emitter[e].pc = "insert" =>
    /\ emitter[e].seq \in Nat /\ emitter[e].at \in 0 .. inserted
    /\ StillNewest(e) \/ TakenSince(e)

IInv ==
  /\ Shaped /\ Ordered /\ Gapless /\ Linked /\ NewestKept
  /\ DOMAIN emitter = Emitters
  /\ \A e \in Emitters : InFlight(e)

----------------------------------------------------------------------------

LEMMA InitChain == Init => IInv
  BY DEF Init, IInv, Shaped, Ordered, Gapless, Linked, NewestKept, InFlight, IdleEmitter

(* The newest row carries the greatest number and the latest time. *)
LEMMA NewestIsLast ==
  ASSUME Shaped, Ordered, NewestKept, NEW m, Newest(m)
  PROVE  m.at = inserted /\ \A x \in rows : x.at <= m.at
  <1>1. m \in rows /\ m.at \in 1 .. inserted /\ m.seq \in Nat
    BY DEF Newest, Shaped, RowShape
  <1>2. PICK x \in rows : x.at = inserted
    BY <1>1 DEF NewestKept, Shaped
  <1>3. x.seq <= m.seq /\ x.seq \in Nat
    BY <1>2 DEF Newest, Shaped, RowShape
  <1>4. x = m
    BY <1>1, <1>2, <1>3 DEF Ordered, Shaped
  <1>. QED  BY <1>1, <1>2, <1>4 DEF Shaped, RowShape

LEMMA ReadLastKeeps ==
  ASSUME IInv, NEW e \in Emitters, ReadLast(e)
  PROVE  IInv'
  <1>1. PICK last \in LastRow :
          emitter' = [emitter EXCEPT ![e] = [pc |-> "insert", seq |-> last.seq,
                                             hash |-> last.hash, at |-> inserted]]
    BY DEF ReadLast
  <1>2. UNCHANGED <<rows, inserted>>
    BY DEF ReadLast
  <1>3. (Shaped /\ Ordered /\ Gapless /\ Linked /\ NewestKept)'
    BY <1>2 DEF IInv, Shaped, RowShape, Ordered, Gapless, Linked, NewestKept
  <1>4. /\ last.seq \in Nat
        /\ \/ rows = {} /\ last.seq = 0 /\ last.hash = Genesis
           \/ last \in rows /\ Newest(last)
    BY DEF LastRow, Newest, IInv, Shaped, RowShape
  <1>5. ASSUME NEW f \in Emitters PROVE InFlight(f)'
    <2>1. CASE f = e /\ emitter'[e] = [pc |-> "insert", seq |-> last.seq,
                                       hash |-> last.hash, at |-> inserted]
      <3>1. StillNewest(e)'
        BY <1>2, <1>4, <2>1 DEF StillNewest, Newest
      <3>. QED  BY <1>2, <2>1, <1>4, <3>1 DEF InFlight, IInv, Shaped
    <2>2. CASE emitter'[f] = emitter[f]
      BY <1>2, <2>2 DEF IInv, InFlight, StillNewest, TakenSince, Newest
    <2>. QED  BY <1>1, <2>1, <2>2 DEF IInv
  <1>6. DOMAIN emitter' = Emitters
    BY <1>1 DEF IInv
  <1>. QED  BY <1>3, <1>5, <1>6 DEF IInv

(* An insertion that finds its number free extends the segment by one row. *)
LEMMA AppendKeeps ==
  ASSUME IInv, NEW e \in Emitters, NEW content \in Contents,
         emitter[e].pc = "insert", ~Taken(emitter[e].seq + 1),
         rows' = rows \cup {Row(emitter[e].seq + 1, emitter[e].hash, content, inserted + 1)},
         inserted' = inserted + 1,
         emitter' = [emitter EXCEPT ![e] = IdleEmitter]
  PROVE  IInv'
  <1>. DEFINE seq == emitter[e].seq + 1
              new == Row(seq, emitter[e].hash, content, inserted + 1)
  <1>1. /\ new.seq = seq /\ new.at = inserted + 1 /\ new.prev = emitter[e].hash
        /\ new.content = content /\ new.hash = Hash(new.prev, new.seq, new.content)
    BY DEF Row
  <1>2. inserted \in Nat /\ seq \in Nat \ {0} /\ emitter[e].seq \in Nat /\ rows' = rows \cup {new}
    BY DEF IInv, InFlight, Shaped
  <1>. HIDE DEF new
  <1>3. \/ rows = {} /\ seq = 1 /\ new.prev = Genesis
        \/ \E m \in rows : Newest(m) /\ seq = m.seq + 1 /\ new.prev = m.hash
    BY <1>1, <1>2 DEF IInv, InFlight, StillNewest, TakenSince, Taken
  <1>4. \A x \in rows : x.seq \in Nat \ {0} /\ x.at \in Nat /\ x.seq < seq /\ x.at < new.at
    BY <1>1, <1>2, <1>3 DEF IInv, Shaped, RowShape, Newest
  <1>5. Shaped'
    <2>1. ASSUME NEW x \in {new} PROVE RowShape(x)'
      <3>1. new.seq = 1 => new.prev = Genesis
        BY <1>1, <1>3 DEF IInv, Shaped, RowShape
      <3>. QED  BY <1>1, <1>2, <3>1 DEF RowShape
    <2>2. ASSUME NEW x \in rows PROVE RowShape(x)'
      BY <1>2 DEF IInv, Shaped, RowShape
    <2>. QED  BY <1>2, <2>1, <2>2 DEF Shaped
  <1>6. Ordered'
    BY <1>1, <1>2, <1>4 DEF IInv, Ordered
  <1>7. Gapless'
    <2>1. ASSUME NEW x \in rows, NEW n \in Nat, x.seq < n, n < seq
          PROVE  \E z \in rows : z.seq = n
      <3>1. PICK m \in rows : Newest(m) /\ seq = m.seq + 1
        BY <1>3, <2>1
      <3>2. CASE n = m.seq
        BY <3>1, <3>2
      <3>3. CASE n < m.seq
        BY <2>1, <3>1, <3>3 DEF IInv, Gapless
      <3>. QED  BY <1>4, <2>1, <3>1, <3>2, <3>3
    <2>2. ASSUME NEW y \in rows, NEW n \in Nat, seq < n, n < y.seq PROVE FALSE
      BY <1>2, <1>4, <2>2
    <2>. QED  BY <1>1, <1>2, <2>1, <2>2 DEF IInv, Gapless
  <1>8. Linked'
    <2>1. ASSUME NEW x \in rows, seq = x.seq + 1 PROVE new.prev = x.hash
      <3>1. PICK m \in rows : seq = m.seq + 1 /\ new.prev = m.hash
        BY <1>3, <2>1
      <3>2. x = m
        BY <1>4, <2>1, <3>1 DEF IInv, Ordered
      <3>. QED  BY <3>1, <3>2
    <2>2. ASSUME NEW y \in rows PROVE y.seq # seq + 1
      BY <1>2, <1>4
    <2>. QED  BY <1>1, <1>2, <2>1, <2>2 DEF IInv, Linked
  <1>9. NewestKept'
    BY <1>1, <1>2 DEF NewestKept
  <1>10. ASSUME NEW f \in Emitters PROVE InFlight(f)'
    <2>1. CASE f = e
      BY <2>1 DEF IInv, InFlight, IdleEmitter
    <2>2. CASE f # e /\ emitter[f].pc = "insert"
      <3>1. emitter'[f] = emitter[f]
        BY <2>2
      <3>2. emitter[f].seq \in Nat /\ emitter[f].at \in 0 .. inserted
        BY <2>2 DEF IInv, InFlight
      <3>3. ASSUME TakenSince(f) PROVE TakenSince(f)'
        <4>1. PICK x \in rows : x.seq = emitter[f].seq + 1 /\ x.at > emitter[f].at
          BY <3>3 DEF TakenSince
        <4>2. x \in rows' /\ x.seq = emitter'[f].seq + 1 /\ x.at > emitter'[f].at
          BY <1>2, <3>1, <4>1
        <4>. QED  BY <4>2 DEF TakenSince
      <3>4. ASSUME StillNewest(f) PROVE TakenSince(f)'
        <4>1. seq = emitter[f].seq + 1
          BY <1>3, <1>4, <3>4 DEF StillNewest, Newest
        <4>2. new.at > emitter[f].at
          BY <1>1, <1>2, <3>2
        <4>3. PICK x \in rows' : x.seq = emitter'[f].seq + 1 /\ x.at > emitter'[f].at
          BY <1>1, <1>2, <3>1, <4>1, <4>2
        <4>. QED  BY <4>3 DEF TakenSince
      <3>5. TakenSince(f)'
        BY <2>2, <3>3, <3>4 DEF IInv, InFlight
      <3>. QED  BY <1>2, <3>1, <3>2, <3>5 DEF InFlight
    <2>. QED  BY <2>1, <2>2 DEF IInv, InFlight
  <1>11. DOMAIN emitter' = Emitters
    BY DEF IInv
  <1>. QED  BY <1>5, <1>6, <1>7, <1>8, <1>9, <1>10, <1>11 DEF IInv

LEMMA InsertKeeps ==
  ASSUME IInv, NEW e \in Emitters, Insert(e)
  PROVE  IInv'
  <1>1. CASE UNCHANGED <<rows, inserted>>
    <2>1. emitter' = [emitter EXCEPT ![e] = IdleEmitter]
      BY DEF Insert
    <2>2. ASSUME NEW f \in Emitters PROVE InFlight(f)'
      BY <1>1, <2>1 DEF IInv, InFlight, IdleEmitter, StillNewest, TakenSince, Newest
    <2>. QED
      BY <1>1, <2>1, <2>2 DEF IInv, Shaped, RowShape, Ordered, Gapless, Linked, NewestKept
  <1>2. CASE ~Taken(emitter[e].seq + 1) /\ ~UNCHANGED <<rows, inserted>>
    BY <1>2, AppendKeeps DEF Insert
  <1>. QED  BY <1>1, <1>2 DEF Insert

(* The purge takes a prefix, and neither the newest row nor one that a call in *)
(* flight has seen inserted.                                                 *)
LEMMA RetentionPurgeKeeps ==
  ASSUME IInv, ~QuietSpells, NEW cutoff \in 1 .. inserted, RetentionPurge(cutoff)
  PROVE  IInv'
  <1>1. /\ rows' = {x \in rows : x.at > cutoff}
        /\ cutoff < inserted
        /\ UNCHANGED <<inserted, emitter>>
    BY DEF RetentionPurge
  <1>2. inserted \in Nat /\ \A x \in rows : x.seq \in Nat /\ x.at \in 1 .. inserted
    BY DEF IInv, Shaped, RowShape
  <1>3. (Shaped /\ Ordered /\ Linked /\ NewestKept)'
    BY <1>1, <1>2 DEF IInv, Shaped, RowShape, Ordered, Linked, NewestKept
  <1>4. Gapless'
    <2>1. ASSUME NEW x \in rows, NEW z \in rows, x.at > cutoff, x.seq < z.seq
          PROVE  z \in rows'
      <3>1. x.at < z.at
        BY <2>1 DEF IInv, Ordered
      <3>. QED  BY <1>1, <1>2, <2>1, <3>1
    <2>. QED  BY <1>1, <2>1 DEF IInv, Gapless
  <1>5. ASSUME NEW f \in Emitters, emitter[f].pc = "insert" PROVE InFlight(f)'
    <2>1. emitter[f].seq \in Nat /\ emitter[f].at \in 0 .. inserted /\ cutoff <= emitter[f].at
      BY <1>5 DEF RetentionPurge, IInv, InFlight
    <2>2. ASSUME TakenSince(f) PROVE TakenSince(f)'
      BY <1>1, <1>2, <2>1, <2>2 DEF TakenSince
    <2>3. ASSUME StillNewest(f) PROVE StillNewest(f)'
      <3>1. ASSUME NEW m \in rows, Newest(m) PROVE m \in rows' /\ Newest(m)'
        <4>1. m.at = inserted
          BY <3>1, NewestIsLast DEF IInv
        <4>. QED  BY <1>1, <3>1, <4>1 DEF Newest
      <3>. QED  BY <1>1, <2>3, <3>1 DEF StillNewest
    <2>4. StillNewest(f)' \/ TakenSince(f)'
      BY <1>5, <2>2, <2>3 DEF IInv, InFlight
    <2>. QED  BY <1>1, <2>1, <2>4 DEF InFlight
  <1>. QED  BY <1>1, <1>3, <1>4, <1>5 DEF IInv, InFlight

LEMMA ChainIsSegment == IInv => ChainVerifies
  <1>. SUFFICES ASSUME IInv, NEW x \in rows
                PROVE  LinkChecks(x, rows) /\ x.hash = Hash(x.prev, x.seq, x.content)
    BY DEF ChainVerifies, Verifies
  <1>1. x.hash = Hash(x.prev, x.seq, x.content) /\ x.seq \in Nat \ {0}
    BY DEF IInv, Shaped, RowShape
  <1>2. x.seq > 1 \/ x.prev = Genesis
    BY <1>1 DEF IInv, Shaped, RowShape
  <1>3. ASSUME NEW y \in rows, Follows(y, x, rows) PROVE x.prev = y.hash
    <2>1. y.seq \in Nat /\ y.seq < x.seq
      BY <1>3 DEF IInv, Shaped, RowShape, Follows
    <2>2. ~(y.seq + 1 < x.seq)
      BY <1>1, <1>3, <2>1 DEF IInv, Gapless, Follows
    <2>3. x.seq = y.seq + 1
      BY <1>1, <2>1, <2>2
    <2>. QED  BY <2>3 DEF IInv, Linked
  <1>. QED  BY <1>1, <1>2, <1>3 DEF LinkChecks

LEMMA ChainStep ==
  ASSUME ~QuietSpells
  PROVE  IInv /\ [Next]_vars => IInv'
  <1>. SUFFICES ASSUME IInv, [Next]_vars PROVE IInv'
    OBVIOUS
  <1>1. CASE UNCHANGED vars
    BY <1>1 DEF vars, IInv, Shaped, RowShape, Ordered, Gapless, Linked, NewestKept, InFlight,
                StillNewest, TakenSince, Newest
  <1>. QED  BY <1>1, ReadLastKeeps, InsertKeeps, RetentionPurgeKeeps DEF Next

(* Any number of overlapping emissions and of purges leaves a log that        *)
(* verifies, unless the workspace is quiet for a whole retention period.      *)
THEOREM ChainAlwaysVerifies ==
  ASSUME ~QuietSpells
  PROVE  Spec => []ChainVerifies
  <1>1. Init => IInv
    BY InitChain
  <1>2. IInv /\ [Next]_vars => IInv'
    BY ChainStep
  <1>3. IInv => ChainVerifies
    BY ChainIsSegment
  <1>. QED  BY <1>1, <1>2, <1>3, PTL DEF Spec

----------------------------------------------------------------------------
(* What verification notices.  A row that is not the newest has a successor,  *)
(* which carries its hash.                                                   *)

LEMMA SuccessorLinks ==
  ASSUME IInv, NEW x \in rows, ~Newest(x)
  PROVE  \E y \in rows : y.seq = x.seq + 1 /\ y.prev = x.hash
  <1>1. PICK z \in rows : x.seq < z.seq
    BY DEF Newest, IInv, Shaped, RowShape
  <1>2. x.seq \in Nat /\ z.seq \in Nat
    BY DEF IInv, Shaped, RowShape
  <1>3. \E y \in rows : y.seq = x.seq + 1
    BY <1>1, <1>2 DEF IInv, Gapless
  <1>. QED  BY <1>3 DEF IInv, Linked

LEMMA NothingBetween ==
  ASSUME NEW S, NEW x, NEW y, \A z \in S : z.seq \in Nat, x.seq \in Nat, y.seq = x.seq + 1
  PROVE  Follows(x, y, S)
  BY DEF Follows

(* Whoever rewrites a row, or takes one out of the middle, breaks the link of *)
(* the row after it, unless two contents have one hash.                      *)
LEMMA ChainShowsTampering == IInv => TamperingShows
  <1>. SUFFICES ASSUME IInv, NEW x \in rows, ~Newest(x)
                PROVE  /\ \A content \in Contents \ {x.content} :
                            ~Verifies((rows \ {x}) \cup {Row(x.seq, x.prev, content, x.at)})
                       /\ Anchor(x, rows) \/ ~Verifies(rows \ {x})
    BY DEF TamperingShows
  <1>1. PICK y \in rows : y.seq = x.seq + 1 /\ y.prev = x.hash
    BY SuccessorLinks
  <1>2. /\ \A z \in rows : z.seq \in Nat /\ z.hash = <<z.prev, z.seq, z.content>>
        /\ y # x
    BY <1>1 DEF IInv, Shaped, RowShape, Hash
  <1>3. ASSUME NEW content \in Contents \ {x.content}
        PROVE  ~Verifies((rows \ {x}) \cup {Row(x.seq, x.prev, content, x.at)})
    <2>. DEFINE forged == Row(x.seq, x.prev, content, x.at)
                S == (rows \ {x}) \cup {forged}
    <2>1. forged.seq = x.seq /\ forged.hash = <<x.prev, x.seq, content>>
      BY DEF Row, Hash
    <2>. HIDE DEF forged
    <2>2. Follows(forged, y, S)
      BY <1>1, <1>2, <2>1, NothingBetween
    <2>3. y.prev # forged.hash
      BY <1>1, <1>2, <2>1
    <2>4. y \in S /\ forged \in S
      BY <1>2
    <2>. QED  BY <2>2, <2>3, <2>4 DEF Verifies, LinkChecks, forged
  <1>4. ASSUME ~Anchor(x, rows) PROVE ~Verifies(rows \ {x})
    <2>1. PICK v \in rows : v.seq < x.seq
      BY <1>2, <1>4 DEF Anchor
    <2>2. PICK w \in rows : w.seq < x.seq /\ w.seq + 1 = x.seq
      <3>1. CASE v.seq + 1 = x.seq
        BY <2>1, <3>1
      <3>2. CASE v.seq + 1 # x.seq
        <4>1. x.seq - 1 \in Nat /\ v.seq < x.seq - 1 /\ x.seq - 1 < x.seq
          BY <1>2, <2>1, <3>2
        <4>2. PICK w \in rows : w.seq = x.seq - 1
          BY <4>1 DEF IInv, Gapless
        <4>. QED  BY <1>2, <4>2
      <3>. QED  BY <3>1, <3>2
    <2>3. Follows(w, y, rows \ {x})
      <3>1. \A z \in rows \ {x} : z.seq \in Nat /\ z.seq # x.seq
        BY <1>2 DEF IInv, Ordered
      <3>. QED  BY <1>1, <1>2, <2>2, <3>1 DEF Follows
    <2>4. y.prev # w.hash
      BY <1>1, <1>2, <2>2
    <2>5. y \in rows \ {x} /\ w \in rows \ {x}
      BY <1>2, <2>2
    <2>. QED  BY <2>3, <2>4, <2>5 DEF Verifies, LinkChecks
  <1>. QED  BY <1>3, <1>4

(* Whatever emissions and purges did before, GET /audit/verify would notice a *)
(* row that was rewritten, its own hash with it, or taken from the middle.    *)
THEOREM TamperingIsNoticed ==
  ASSUME ~QuietSpells
  PROVE  Spec => []TamperingShows
  <1>1. Init => IInv
    BY InitChain
  <1>2. IInv /\ [Next]_vars => IInv'
    BY ChainStep
  <1>3. IInv => TamperingShows
    BY ChainShowsTampering
  <1>. QED  BY <1>1, <1>2, <1>3, PTL DEF Spec

----------------------------------------------------------------------------
(* The refinement.  The purge leaves the rows from some number on because the *)
(* rows that are kept are those of a stretch of time that ends now.          *)

Dense == \A x \in rows, n \in Nat : x.at <= n /\ n <= inserted => \E z \in rows : z.at = n

ChainInv == IInv /\ Dense

LEMMA DenseStep == ChainInv /\ [Next]_vars => Dense'
  <1>. SUFFICES ASSUME ChainInv, [Next]_vars PROVE Dense'
    OBVIOUS
  <1>1. inserted \in Nat /\ \A x \in rows : x.at \in Nat
    BY DEF ChainInv, IInv, Shaped, RowShape
  <1>2. CASE UNCHANGED <<rows, inserted>>
    BY <1>2 DEF ChainInv, Dense
  <1>3. ASSUME NEW e \in Emitters, NEW content \in Contents, inserted' = inserted + 1,
               rows' = rows \cup {Row(emitter[e].seq + 1, emitter[e].hash, content, inserted + 1)}
        PROVE  Dense'
    <2>. DEFINE new == Row(emitter[e].seq + 1, emitter[e].hash, content, inserted + 1)
    <2>1. new.at = inserted + 1 /\ rows' = rows \cup {new}
      BY <1>3 DEF Row
    <2>. HIDE DEF new
    <2>2. ASSUME NEW x \in rows', NEW n \in Nat, x.at <= n, n <= inserted'
          PROVE  \E z \in rows' : z.at = n
      <3>1. CASE n = inserted + 1
        BY <2>1, <3>1
      <3>2. CASE n # inserted + 1
        <4>1. x \in rows /\ n <= inserted
          BY <1>1, <1>3, <2>1, <2>2, <3>2
        <4>. QED  BY <2>1, <2>2, <4>1 DEF ChainInv, Dense
      <3>. QED  BY <3>1, <3>2
    <2>. QED  BY <2>2 DEF Dense
  <1>4. ASSUME NEW cutoff \in 1 .. inserted, RetentionPurge(cutoff) PROVE Dense'
    <2>1. rows' = {x \in rows : x.at > cutoff} /\ inserted' = inserted /\ cutoff \in Nat
      BY <1>1, <1>4 DEF RetentionPurge
    <2>2. ASSUME NEW x \in rows', NEW n \in Nat, x.at <= n, n <= inserted
          PROVE  \E z \in rows' : z.at = n
      <3>1. x \in rows /\ n > cutoff
        BY <1>1, <2>1, <2>2
      <3>2. PICK z \in rows : z.at = n
        BY <2>2, <3>1 DEF ChainInv, Dense
      <3>. QED  BY <2>1, <3>1, <3>2
    <2>. QED  BY <2>1, <2>2 DEF Dense
  <1>. QED  BY <1>2, <1>3, <1>4 DEF Next, ReadLast, Insert, vars

(* The log of a set of rows without a number twice says what its rows say. *)
LEMMA LogSays ==
  ASSUME NEW S, \A x, y \in S : x.seq = y.seq => x = y,
         NEW f, f = [n \in {x.seq : x \in S} |-> (CHOOSE x \in S : x.seq = n).content]
  PROVE  /\ DOMAIN f = {x.seq : x \in S}
         /\ \A x \in S : f[x.seq] = x.content
  <1>1. ASSUME NEW x \in S PROVE f[x.seq] = x.content
    <2>1. (CHOOSE y \in S : y.seq = x.seq) = x
      OBVIOUS
    <2>. QED  BY <2>1
  <1>. QED  BY <1>1

LEMMA EntriesSay ==
  IInv => /\ DOMAIN Entries = {x.seq : x \in rows}
          /\ \A x \in rows : Entries[x.seq] = x.content
  BY LogSays DEF IInv, Ordered, Entries

LEMMA EntriesSayNext ==
  IInv' => /\ DOMAIN Entries' = {x.seq : x \in rows'}
           /\ \A x \in rows' : Entries'[x.seq] = x.content
  BY LogSays DEF IInv, Ordered, Entries

LEMMA GreatestChosen ==
  ASSUME NEW N, N \subseteq Nat, NEW m \in N, \A k \in N : k <= m
  PROVE  (CHOOSE n \in N : \A k \in N : k <= n) = m
  <1>1. \A n \in N : (\A k \in N : k <= n) => n = m
    OBVIOUS
  <1>. QED  BY <1>1

(* A free number that a call in flight is about to take is the next one. *)
LEMMA FreeNumberIsNext ==
  ASSUME IInv, NEW e \in Emitters, emitter[e].pc = "insert", ~Taken(emitter[e].seq + 1)
  PROVE  emitter[e].seq + 1 = Log!NextNumber
  <1>1. DOMAIN Entries = {x.seq : x \in rows}
    BY EntriesSay
  <1>2. emitter[e].seq \in Nat /\ StillNewest(e)
    BY DEF IInv, InFlight, Taken, TakenSince
  <1>3. CASE rows = {} /\ emitter[e].seq = 0
    BY <1>1, <1>3 DEF Log!NextNumber, Log!Numbers
  <1>4. CASE \E m \in rows : Newest(m) /\ m.seq = emitter[e].seq
    <2>1. PICK m \in rows : Newest(m) /\ m.seq = emitter[e].seq
      BY <1>4
    <2>2. \A n \in Log!Numbers : n <= m.seq
      BY <1>1, <2>1 DEF Newest, Log!Numbers
    <2>3. m.seq \in Log!Numbers /\ Log!Numbers \subseteq Nat
      BY <1>1, <2>1 DEF Log!Numbers, IInv, Shaped, RowShape
    <2>4. (CHOOSE n \in Log!Numbers : \A k \in Log!Numbers : k <= n) = m.seq
      BY <2>2, <2>3, GreatestChosen
    <2>5. Log!NextNumber = 1 + m.seq
      BY <2>3, <2>4 DEF Log!NextNumber
    <2>. QED  BY <1>2, <2>1, <2>5
  <1>. QED  BY <1>2, <1>3, <1>4 DEF StillNewest

LEMMA InsertAppends ==
  ASSUME IInv, IInv', NEW e \in Emitters, Insert(e), ~UNCHANGED rows
  PROVE  \E event \in Contents : Log!Append(event)
  <1>. DEFINE seq == emitter[e].seq + 1
  <1>1. PICK content \in Contents :
          /\ ~Taken(seq) /\ emitter[e].pc = "insert"
          /\ rows' = rows \cup {Row(seq, emitter[e].hash, content, inserted + 1)}
    BY DEF Insert
  <1>2. seq = Log!NextNumber
    BY <1>1, FreeNumberIsNext
  <1>. DEFINE new == Row(seq, emitter[e].hash, content, inserted + 1)
  <1>3. new.seq = seq /\ new.content = content /\ rows' = rows \cup {new}
    BY <1>1 DEF Row
  <1>. HIDE DEF new, seq
  <1>4. /\ Log!Numbers = {x.seq : x \in rows}
        /\ DOMAIN Entries' = Log!Numbers \cup {seq}
    BY <1>3, EntriesSay, EntriesSayNext DEF Log!Numbers
  <1>5. ASSUME NEW n \in DOMAIN Entries'
        PROVE  Entries'[n] = IF n = seq THEN content ELSE Entries[n]
    <2>1. CASE n = seq
      BY <1>3, <2>1, EntriesSayNext
    <2>2. CASE n # seq
      <3>1. PICK x \in rows : x.seq = n
        BY <1>4, <2>2
      <3>. QED  BY <1>3, <2>2, <3>1, EntriesSay, EntriesSayNext
    <2>. QED  BY <2>1, <2>2
  <1>6. Entries' = [n \in DOMAIN Entries' |-> Entries'[n]]
    BY DEF Entries
  <1>7. Entries' = [n \in Log!Numbers \cup {seq} |-> IF n = seq THEN content ELSE Entries[n]]
    BY <1>4, <1>5, <1>6
  <1>. QED  BY <1>2, <1>7 DEF Log!Append

(* The oldest of the rows that a purge keeps is the one inserted next after   *)
(* the cutoff.                                                               *)
LEMMA PurgeDrops ==
  ASSUME ChainInv, IInv', ~QuietSpells, NEW cutoff \in 1 .. inserted, RetentionPurge(cutoff)
  PROVE  \E first \in Log!Numbers : Log!DropOldest(first)
  <1>1. /\ inserted \in Nat
        /\ \A x \in rows : x.seq \in Nat /\ x.at \in Nat
        /\ rows' = {x \in rows : x.at > cutoff}
        /\ cutoff \in Nat /\ cutoff < inserted
    BY DEF RetentionPurge, ChainInv, IInv, Shaped, RowShape
  <1>2. PICK z \in rows : z.at = cutoff + 1
    <2>1. PICK x \in rows : x.at <= cutoff
      BY DEF RetentionPurge
    <2>2. cutoff + 1 \in Nat /\ x.at <= cutoff + 1 /\ cutoff + 1 <= inserted
      BY <1>1, <2>1
    <2>. QED  BY <2>2 DEF ChainInv, Dense
  <1>3. \A x \in rows : x.at > cutoff <=> x.seq >= z.seq
    BY <1>1, <1>2 DEF ChainInv, IInv, Ordered
  <1>4. /\ Log!Numbers = {x.seq : x \in rows}
        /\ DOMAIN Entries' = {n \in Log!Numbers : n >= z.seq}
    BY <1>1, <1>3, EntriesSay, EntriesSayNext DEF Log!Numbers, ChainInv
  <1>5. ASSUME NEW n \in DOMAIN Entries' PROVE Entries'[n] = Entries[n]
    <2>1. PICK x \in rows' : x.seq = n
      BY <1>5, EntriesSayNext
    <2>. QED  BY <1>1, <2>1, EntriesSay, EntriesSayNext DEF ChainInv
  <1>6. Entries' = [n \in DOMAIN Entries' |-> Entries'[n]]
    BY DEF Entries
  <1>7. Entries' = [n \in {k \in Log!Numbers : k >= z.seq} |-> Entries[n]]
    BY <1>4, <1>5, <1>6
  <1>8. z.seq \in Log!Numbers
    BY <1>2, <1>4
  <1>. QED  BY <1>7, <1>8 DEF Log!DropOldest

LEMMA InitLog == Init => Log!LogInit
  BY DEF Init, Log!LogInit, Entries

LEMMA StepLog == ~QuietSpells /\ ChainInv /\ IInv' /\ [Next]_vars => [Log!LogNext]_Entries
  <1>. SUFFICES ASSUME ~QuietSpells, ChainInv, IInv', [Next]_vars PROVE [Log!LogNext]_Entries
    OBVIOUS
  <1>1. CASE UNCHANGED rows
    BY <1>1 DEF Entries
  <1>2. CASE ~UNCHANGED rows /\ \E e \in Emitters : Insert(e)
    BY <1>2, InsertAppends DEF ChainInv, Log!LogNext
  <1>3. CASE \E cutoff \in 1 .. inserted : RetentionPurge(cutoff)
    BY <1>3, PurgeDrops DEF Log!LogNext
  <1>. QED  BY <1>1, <1>2, <1>3 DEF Next, ReadLast, vars

(* emitAuditEvent and the purge implement AppendLog: every insertion, however  *)
(* many emissions overlapped, is one append with the next number, a purge is   *)
(* one drop of the oldest, and a lost emission is no step of the log at all.   *)
THEOREM LogIsImplemented ==
  ASSUME ~QuietSpells
  PROVE  Spec => ImplementsLog
  <1>1. Init => ChainInv /\ Log!LogInit
    BY InitChain, InitLog DEF ChainInv, Dense, Init
  <1>2. ChainInv /\ [Next]_vars => ChainInv'
    BY ChainStep, DenseStep DEF ChainInv
  <1>3. ChainInv /\ ChainInv' /\ [Next]_vars => [Log!LogNext]_Entries
    BY StepLog DEF ChainInv
  <1>. QED  BY <1>1, <1>2, <1>3, PTL DEF Spec, ImplementsLog, Log!LogSpec

=============================================================================
