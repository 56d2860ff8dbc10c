----------------------------- MODULE AuditChain -----------------------------
(***************************************************************************)
(* The audit log of one workspace: emitAuditEvent appends to a hash chain  *)
(* with a SELECT and an INSERT that nothing holds together, the retention  *)
(* purge deletes the oldest rows, verifyChainRows checks what is left.     *)
(* (RunExecutor's Throw at "audit" is an emission of this module that lost *)
(* the race for its sequence number.)                                      *)
(***************************************************************************)
EXTENDS Naturals, FiniteSets

CONSTANTS
  Emitters,    \* calls of emitAuditEvent that may be in flight at one time
  Contents,    \* what an event says: actor, action, entity, metadata
  Genesis,     \* GENESIS_HASH
  QuietSpells, \* may a workspace emit nothing for its whole retention period?
  MaxEvents    \* bound: events inserted in a behaviour

ASSUME AuditAssumption == QuietSpells \in BOOLEAN /\ MaxEvents \in Nat

VARIABLES
  rows,      \* audit_events; at is the insertion's place in time, created_at
  inserted,  \* events inserted so far: the clock created_at is read from
  emitter    \* the emissions in flight: what the SELECT returned, and when

vars == <<rows, inserted, emitter>>

(* SHA-256 of the predecessor's hash and the canonical JSON of the content:  *)
(* the model's hash is the pair itself, so that it collides for nobody.      *)
Hash(prev, seq, content) == <<prev, seq, content>>

Row(seq, prev, content, at) ==
  [seq |-> seq, prev |-> prev, content |-> content,
   hash |-> Hash(prev, seq, content), at |-> at]

IdleEmitter == [pc |-> "idle"]

Init ==
  /\ rows = {}
  /\ inserted = 0
  /\ emitter = [e \in Emitters |-> IdleEmitter]

----------------------------------------------------------------------------
(* emitAuditEvent *)

Newest(x) == x \in rows /\ \A y \in rows : y.seq <= x.seq

(* Mutation: the first event is taken for the second. *)
LastRowFromOne ==
  IF rows = {} THEN {[seq |-> 1, hash |-> Genesis]} ELSE {x \in rows : Newest(x)}

(* ... ORDER BY sequence_num DESC LIMIT 1; a table without rows stands for    *)
(* sequence number 0 and the genesis hash.                                   *)
LastRow == IF rows = {} THEN {[seq |-> 0, hash |-> Genesis]} ELSE {x \in rows : Newest(x)}

ReadLast(e) ==
  /\ emitter[e].pc = "idle"
  /\ \E last \in LastRow :
       emitter' = [emitter EXCEPT ![e] = [pc |-> "insert", seq |-> last.seq,
                                          hash |-> last.hash, at |-> inserted]]
  /\ UNCHANGED <<rows, inserted>>

Taken(seq) == \E x \in rows : x.seq = seq

(* Mutation: no UNIQUE (workspace_id, sequence_num). *)
InsertAnyway(e) ==
  /\ emitter[e].pc = "insert"
  /\ \E content \in Contents :
       /\ inserted < MaxEvents
       /\ rows' = rows \cup {Row(emitter[e].seq + 1, emitter[e].hash, content, inserted + 1)}
       /\ inserted' = inserted + 1
  /\ emitter' = [emitter EXCEPT ![e] = IdleEmitter]

(* INSERT with the next number: UNIQUE (workspace_id, sequence_num) makes the *)
(* second of two emissions that read the same row throw, its event is lost.  *)
Insert(e) ==
  /\ emitter[e].pc = "insert"
  /\ LET seq == emitter[e].seq + 1 IN
       \/ /\ ~Taken(seq)
          /\ inserted < MaxEvents
          /\ \E content \in Contents :
               rows' = rows \cup {Row(seq, emitter[e].hash, content, inserted + 1)}
          /\ inserted' = inserted + 1
       \/ /\ Taken(seq)
          /\ UNCHANGED <<rows, inserted>>
  /\ emitter' = [emitter EXCEPT ![e] = IdleEmitter]

(* retention_purge: DELETE ... WHERE created_at < now() - retention.  What an *)
(* emission in flight has seen inserted is younger than any retention period, *)
(* and so is the newest row, unless the workspace was quiet for that long.    *)
RetentionPurge(cutoff) ==
  /\ \A e \in Emitters : emitter[e].pc = "insert" => cutoff <= emitter[e].at
  /\ QuietSpells \/ cutoff < inserted
  /\ \E x \in rows : x.at <= cutoff
  /\ rows' = {x \in rows : x.at > cutoff}
  /\ UNCHANGED <<inserted, emitter>>

Next ==
  \/ \E e \in Emitters : ReadLast(e) \/ Insert(e)
  \/ \E cutoff \in 1 .. inserted : RetentionPurge(cutoff)

Spec == Init /\ [][Next]_vars

----------------------------------------------------------------------------
(* verifyChainRows: the rows in the order of their sequence numbers *)

Anchor(x, S) == \A y \in S : x.seq <= y.seq
Follows(x, y, S) ==
  x.seq < y.seq /\ \A z \in S : ~(x.seq < z.seq /\ z.seq < y.seq)

(* Mutation: only the row's own hash is recomputed. *)
LinkUnchecked(x, S) == TRUE

(* The link to the row before; the anchor of a truncated chain has none to    *)
(* check, the anchor of a whole one links to the genesis hash.                *)
LinkChecks(x, S) ==
  /\ Anchor(x, S) => x.seq > 1 \/ x.prev = Genesis
  /\ \A y \in S : Follows(y, x, S) => x.prev = y.hash

Verifies(S) ==
  \A x \in S : LinkChecks(x, S) /\ x.hash = Hash(x.prev, x.seq, x.content)

----------------------------------------------------------------------------
(* Properties *)

(* Rows and emissions keep to their shape; a row is never younger than the    *)
(* clock.                                                                    *)
TypeOK ==
  /\ inserted \in 0 .. MaxEvents
  /\ \A x \in rows : /\ x.seq \in 1 .. MaxEvents
                     /\ x.at \in 1 .. inserted
                     /\ x.content \in Contents
  /\ \A e \in Emitters : \/ emitter[e] = IdleEmitter
                         \/ /\ emitter[e].pc = "insert"
                            /\ emitter[e].seq \in 0 .. MaxEvents
                            /\ emitter[e].at \in 0 .. inserted

(* GET /audit/verify finds the log valid whenever it is asked, whatever       *)
(* emissions overlapped and however often the purge shortened it in between.  *)
(* It rests on the unique index alone: the SELECT locks nothing.              *)
ChainVerifies == Verifies(rows)

(* What verification is for: a row whose content was rewritten, its own hash  *)
(* with it, or that was removed, is noticed at the row after it (the oldest   *)
(* row may go, as a purge takes it).                                         *)
TamperingShows ==
  \A x \in rows : ~Newest(x) =>
    /\ \A content \in Contents \ {x.content} :
         ~Verifies((rows \ {x}) \cup {Row(x.seq, x.prev, content, x.at)})
    /\ Anchor(x, rows) \/ ~Verifies(rows \ {x})

(* Refinement: seen by sequence number and content, emissions that overlap    *)
(* and purges in between are the appends and drops of one log (AppendLog).   *)
Entries == [n \in {x.seq : x \in rows} |-> (CHOOSE x \in rows : x.seq = n).content]
Log == INSTANCE AppendLog WITH entries <- Entries, Events <- Contents
ImplementsLog == Log!LogSpec

(* docs/ARCHITECTURE.md: sequence_num never resets, whatever was purged, so   *)
(* that the n-th event of the workspace has number n.                        *)
SequenceNeverResets == \A x \in rows : x.seq = x.at

=============================================================================
