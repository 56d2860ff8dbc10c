------------------------------ MODULE LiveFeed ------------------------------
(***************************************************************************)
(* The live feed of one run: the writers of run_events and one subscriber  *)
(* of GET /runs/:id/events.  The stream replays the history and then polls *)
(* every second for the rows behind the last one it holds.  A row is dated *)
(* when the transaction that writes it starts and is there to read when it *)
(* commits, and a poll may fire while the one before still waits.          *)
(***************************************************************************)
EXTENDS Naturals, FiniteSets, FiniteSetsExt

CONSTANTS
  MaxDated,  \* bound: rows ever dated
  Polls       \* bound: polls whose answer is outstanding, by name

ASSUME FeedAssumption == MaxDated \in Nat

VARIABLES
  dated,      \* the date of the latest row
  writing,    \* rows dated and not committed
  feed,       \* run_events: committed rows
  backdated,  \* rows that were committed after a row of a later date
  over,       \* runs.status is terminal
  stream,     \* the subscription: stage, the status it read, date of its last row, dates sent
  poll        \* the interval's callbacks

feedVars == <<dated, writing, feed, backdated, over, stream, poll>>

NoPoll == [stage |-> "idle", after |-> 0, fresh |-> {}]
NoStream == [stage |-> "none", sawEnd |-> FALSE, last |-> 0, sent |-> {}]

Dates(rows) == {e.at : e \in rows}
Younger(date) == {e \in feed : e.at > date}
isTerminal(rows) == \E e \in rows : e.ends

(* Rows are written in order: the last one pushed is the last of the answer. *)
Send(rows) == [stream EXCEPT !.sent = @ \cup Dates(rows),
                             !.last = IF rows = {} THEN @ ELSE Max(Dates(rows))]

-----------------------------------------------------------------------------
(* The executor, the tick, the queue and the requests. *)

WriteBegins(ends) ==
  /\ dated < MaxDated
  /\ dated' = dated + 1
  /\ writing' = writing \cup {[at |-> dated + 1, ends |-> ends]}
  /\ UNCHANGED <<feed, backdated, over, stream, poll>>

(* Cancel commits the status with the event. *)
WriteCommits(e) ==
  /\ writing' = writing \ {e}
  /\ feed' = feed \cup {e}
  /\ backdated' = backdated \cup (IF Younger(e.at) = {} THEN {} ELSE {e.at})
  /\ over' = (over \/ e.ends)
  /\ UNCHANGED <<dated, stream, poll>>

WriteRollsBack(e) ==
  /\ writing' = writing \ {e}
  /\ UNCHANGED <<dated, feed, backdated, over, stream, poll>>

(* The executor updates the status in a statement of its own, before the event. *)
StatusEnds ==
  /\ ~over
  /\ over' = TRUE
  /\ UNCHANGED <<dated, writing, feed, backdated, stream, poll>>

-----------------------------------------------------------------------------
(* The handler. *)

Subscribe ==
  /\ stream.stage = "none"
  /\ stream' = [stream EXCEPT !.stage = "replay", !.sawEnd = over]
  /\ UNCHANGED <<dated, writing, feed, backdated, over, poll>>

Replay ==
  /\ stream.stage = "replay"
  /\ stream' = [Send(feed) EXCEPT
                  !.stage = IF stream.sawEnd \/ isTerminal(feed) THEN "ended" ELSE "open"]
  /\ UNCHANGED <<dated, writing, feed, backdated, over, poll>>

(* Mutation: a poll asks for what is younger than itself, not than the last row. *)
CursorNow == dated

Cursor == stream.last

PollAsks(p) ==
  /\ stream.stage = "open" /\ poll[p].stage = "idle"
  /\ poll' = [poll EXCEPT ![p] = [stage |-> "asked", after |-> Cursor, fresh |-> {}]]
  /\ UNCHANGED <<dated, writing, feed, backdated, over, stream>>

PollReads(p) ==
  /\ poll[p].stage = "asked"
  /\ poll' = [poll EXCEPT ![p] = [stage |-> "read", after |-> poll[p].after,
                                  fresh |-> Younger(poll[p].after)]]
  /\ UNCHANGED <<dated, writing, feed, backdated, over, stream>>

(* An answer after the end writes to a response that has ended. *)
PollAnswers(p) ==
  /\ poll[p].stage = "read"
  /\ poll' = [poll EXCEPT ![p] = NoPoll]
  /\ stream' = IF stream.stage = "open"
                 THEN [Send(poll[p].fresh) EXCEPT
                         !.stage = IF isTerminal(poll[p].fresh) THEN "ended" ELSE "open"]
                 ELSE stream
  /\ UNCHANGED <<dated, writing, feed, backdated, over>>

PollFails(p) ==
  /\ poll[p].stage = "asked"
  /\ poll' = [poll EXCEPT ![p] = NoPoll]
  /\ stream' = [stream EXCEPT !.stage = "ended"]
  /\ UNCHANGED <<dated, writing, feed, backdated, over>>

ClientLeaves ==
  /\ stream.stage = "open"
  /\ stream' = [stream EXCEPT !.stage = "ended"]
  /\ UNCHANGED <<dated, writing, feed, backdated, over, poll>>

-----------------------------------------------------------------------------
FeedInit ==
  /\ dated = 0 /\ writing = {} /\ feed = {} /\ backdated = {} /\ over = FALSE
  /\ stream = NoStream
  /\ poll = [p \in Polls |-> NoPoll]

FeedNext ==
  \/ \E ends \in BOOLEAN : WriteBegins(ends)
  \/ \E e \in writing : WriteCommits(e) \/ WriteRollsBack(e)
  \/ StatusEnds
  \/ Subscribe \/ Replay \/ ClientLeaves
  \/ \E p \in Polls : PollAsks(p) \/ PollReads(p) \/ PollAnswers(p) \/ PollFails(p)

FeedSpec == FeedInit /\ [][FeedNext]_feedVars

-----------------------------------------------------------------------------
(* A subscriber misses no row up to the last one it holds, whatever the order  *)
(* in which overlapping polls are answered, except a row whose transaction     *)
(* started before and was committed after a younger row: the cursor on         *)
(* (created_at, id) in the poll of GET /runs/:id/events.                       *)
OnlyBackdatedMissed ==
  \A e \in feed :
    (stream.stage \in {"open", "ended"} /\ e.at <= stream.last) =>
      e.at \in stream.sent \cup backdated

=============================================================================
