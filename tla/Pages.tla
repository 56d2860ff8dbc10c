------------------------------- MODULE Pages --------------------------------
(***************************************************************************)
(* The single page of the static client: navigation by hash, sign-in and   *)
(* out, the lists of runs and approvals, the page of a workflow and the    *)
(* live page of a run.  One thread runs the callbacks; every fetch is a    *)
(* point where others come in between.  `page` is the client, `srv` what   *)
(* the server would answer.                                                *)
(***************************************************************************)
EXTENDS Naturals, FiniteSets, Sequences, Bags

CONSTANTS
  Runs,       \* ids of runs, each with a page of its own
  NoRun,
  ListPages,  \* the pages a user goes to, of dashboard, runs, approvals, workflow
  MaxRows,    \* bound: step rows of a run
  MaxTasks,   \* bound: activities waiting for an answer
  MaxChains   \* bound: timers that runPollTimer has lost

ASSUME PagesAssumption ==
  /\ NoRun \notin Runs
  /\ ListPages \subseteq {"dashboard", "runs", "approvals", "workflow"}
  /\ MaxRows \in Nat /\ MaxTasks \in Nat /\ MaxChains \in Nat

VARIABLES
  srv,   \* the server: status and step rows of every run; a paused run waits for its approval
  page   \* the client: user, hash, content of #app, activities, runPollTimer, lost timers

pagesVars == <<srv, page>>

Addresses == Runs \cup ListPages

(* queued and waiting are to the page what running is. *)
Active == {"running", "paused"}
ACTIVE_RUN_STATUSES == Active

(* What #app shows.  kind "loading", "run" and "failed" hold #run-detail.       *)
Dom(kind, run) == [kind |-> kind, run |-> run, status |-> "none", steps |-> 0,
                   all |-> FALSE, cards |-> FALSE, rows |-> {}]
HasDetail(dom) == dom.kind \in {"loading", "run", "failed"}

(* An activity: what it is, the run or list it is for, the run a button is       *)
(* about, and whether it renders the latest navigation (nav).                  *)
Task(fn, at, nav) == [fn |-> fn, for |-> at, about |-> NoRun, nav |-> nav, pc |-> 1,
                      status |-> "none", steps |-> 0, all |-> FALSE, cards |-> FALSE]
Button(fn, at, r) == [Task(fn, at, FALSE) EXCEPT !.about = r]
Superseded(t) == [t EXCEPT !.nav = FALSE]

(* A bag in which no activity renders the latest navigation any more: those    *)
(* that differed in nothing else are copies of one.                          *)
Copies(t, B) == IF BagIn(t, B) THEN B[t] ELSE 0
SupersedeAll(B) ==
  [u \in {Superseded(t) : t \in DOMAIN B} |-> Copies(u, B) + Copies([u EXCEPT !.nav = TRUE], B)]

Spawn(p, t) == [p EXCEPT !.tasks = p.tasks (+) SetToBag({t})]
End(p, t) == [p EXCEPT !.tasks = p.tasks (-) SetToBag({t})]
Go(p, t, u) == Spawn(End(p, t), u)
Tasks == BagToSet(page.tasks)

(* shell and renderError: whatever #main held is gone; an answer for an element *)
(* of it shows nowhere any more, so the activity that waits for it is dropped.  *)
Shell(p, dom) ==
  [p EXCEPT !.dom = dom, !.tasks = p.tasks (-) [t \in {u \in DOMAIN p.tasks : u.fn = "fill"} |-> p.tasks[t]]]

(* clearRunPoll knows only the timer in runPollTimer. *)
clearRunPoll(p) == [p EXCEPT !.timer = NoRun]

(* The renderer of an address: a run's page clears the poll and paints. *)
Render(p, a, nav) ==
  IF a \in Runs THEN Spawn(Shell(clearRunPoll(p), Dom("loading", a)), Task("paint", a, nav))
  ELSE Spawn(Shell(p, Dom(a, NoRun)), Task("fill", a, nav))

navigate(p) == Render([p EXCEPT !.tasks = SupersedeAll(p.tasks)],
                      IF p.hash = "" THEN "dashboard" ELSE p.hash, TRUE)

(* Assigning the same hash is no event; the listener clears the poll, and       *)
(* navigates only with a user.                                               *)
SetHash(p, a) ==
  IF a = p.hash THEN p
  ELSE LET q == clearRunPoll([p EXCEPT !.hash = a])
       IN IF p.user THEN navigate(q) ELSE q

Room == BagCardinality(page.tasks) < MaxTasks

----------------------------------------------------------------------------
(* The server *)

RunMoves ==
  /\ \E r \in Runs :
       \/ /\ srv.status[r] \in Active
          /\ \E s \in Active \cup {"succeeded"}, more \in 0 .. 1 :
               /\ srv.steps[r] + more <= MaxRows
               /\ srv' = [srv EXCEPT !.status[r] = s, !.steps[r] = @ + more]
       \/ /\ srv.status[r] = "canceled" /\ srv.steps[r] < MaxRows
          /\ srv' = [srv EXCEPT !.steps[r] = @ + 1]
  /\ page' = page

----------------------------------------------------------------------------
(* Sign-in, sign-out and navigation *)

(* DOMContentLoaded, after a reload of the page: boot asks for the session. *)
Loaded(hash) ==
  [user |-> FALSE, hash |-> hash, dom |-> Dom("blank", NoRun), timer |-> NoRun,
   tasks |-> SetToBag({Task("boot", hash, FALSE)}), lost |-> [r \in Runs |-> 0]]

Reload == page' = Loaded(page.hash) /\ srv' = srv

(* refreshMe, then navigate or the form. *)
BootAnswered ==
  /\ \E t \in Tasks :
       /\ t.fn = "boot"
       /\ \/ page' = navigate([End(page, t) EXCEPT !.user = TRUE])
          \/ page' = Shell(End(page, t), Dom("auth", NoRun))
  /\ srv' = srv

(* submitLogin and submitRegister, accepted. *)
SignedIn ==
  /\ page.dom.kind = "auth"
  /\ page' = SetHash([page EXCEPT !.user = TRUE], "dashboard")
  /\ srv' = srv

LoggedOut ==
  /\ page.user /\ page.dom.kind # "auth"
  /\ page' = SetHash([page EXCEPT !.user = FALSE], "")
  /\ srv' = srv

(* A link of the page, or the address bar. *)
FollowLink ==
  /\ Room
  /\ \E a \in Addresses : page' = SetHash(page, a)
  /\ srv' = srv

----------------------------------------------------------------------------
(* Lists and the workflow's page *)

Rows(a) == CASE a = "runs" -> {r \in Runs : srv.status[r] \in Active}
             [] a = "approvals" -> {r \in Runs : srv.status[r] = "paused"}
             [] OTHER -> {}

(* The answer goes to the element the renderer had in hand; a failure is text. *)
Filled ==
  /\ \E t \in Tasks :
       /\ t.fn = "fill"
       /\ page' = [End(page, t) EXCEPT !.dom.rows = Rows(t.for)]
  /\ srv' = srv

FillFails ==
  /\ \E t \in Tasks : t.fn = "fill" /\ page' = End(page, t)
  /\ srv' = srv

(* The buttons of the page: a request goes out, the page stays as it is. *)
Click ==
  /\ Room
  /\ LET d == page.dom IN
     \/ /\ d.kind = "runs"
        /\ \E r \in d.rows : page' = Spawn(page, Button("cancel", "runs", r))
     \/ /\ d.kind = "approvals"
        /\ \E r \in d.rows : page' = Spawn(page, Button("decide", "approvals", r))
     \/ /\ d.kind = "workflow"
        /\ \E fn \in {"trigger", "toggle"} :
             page' = Spawn(page, Button(fn, "workflow", NoRun))
     \/ /\ d.kind = "run" /\ d.status \in ACTIVE_RUN_STATUSES
        /\ page' = Spawn(page, Button("cancel", d.run, d.run))
     \/ /\ d.kind = "run" /\ d.cards
        /\ page' = Spawn(page, Button("decide", d.run, d.run))
     \/ /\ d.kind = "run"
        /\ page' = Spawn(page, Task("paint", d.run, FALSE))
  /\ srv' = srv

----------------------------------------------------------------------------
(* Answers to the buttons *)

CancelAnswered ==
  \E t \in Tasks :
    /\ t.fn = "cancel"
    /\ \/ /\ srv.status[t.about] \in Active
          /\ srv' = [srv EXCEPT !.status[t.about] = "canceled"]
          /\ page' = IF t.for \in Runs THEN Go(page, t, Task("paint", t.for, FALSE))
                     ELSE Render(End(page, t), t.for, FALSE)
       \/ page' = End(page, t) /\ srv' = srv

(* decideApproval repaints the run's page whatever the answer; the list of       *)
(* approvals is rendered again after a decision that was taken.                *)
AfterDecision(p, t, taken) ==
  IF t.for \in Runs THEN clearRunPoll(Go(p, t, Task("paint", t.for, FALSE)))
  ELSE IF taken THEN Render(End(p, t), t.for, FALSE) ELSE End(p, t)

DecisionAnswered ==
  \E t \in Tasks :
    /\ t.fn = "decide"
    /\ \/ /\ srv.status[t.about] = "paused"
          /\ srv' = [srv EXCEPT !.status[t.about] = "running"]
          /\ page' = AfterDecision(page, t, TRUE)
       \/ srv' = srv /\ page' = AfterDecision(page, t, FALSE)

(* Run now lands on the page of the run it started. *)
TriggerAnswered ==
  \E t \in Tasks :
    /\ t.fn = "trigger"
    /\ \/ \E r \in Runs :
            /\ srv.status[r] = "none"
            /\ srv' = [srv EXCEPT !.status[r] = "running"]
            /\ page' = SetHash(End(page, t), r)
       \/ srv' = srv /\ page' = End(page, t)

(* Enable, Disable and Promote render the page again, wherever the user is now. *)
ToggleAnswered ==
  /\ \E t \in Tasks :
       /\ t.fn = "toggle"
       /\ \/ page' = Render(End(page, t), "workflow", FALSE)
          \/ page' = End(page, t)
  /\ srv' = srv

----------------------------------------------------------------------------
(* The live page of a run: load reads the run, its steps, the approvals. *)

(* Mutation: the steps are read before the run. *)
StepsFirst == <<"steps", "run", "approvals">>
ReadOrder == <<"run", "steps", "approvals">>

Read(t) ==
  CASE ReadOrder[t.pc] = "run" -> [t EXCEPT !.pc = @ + 1, !.status = srv.status[t.for]]
    [] ReadOrder[t.pc] = "steps" -> [t EXCEPT !.pc = @ + 1, !.steps = srv.steps[t.for], !.all = TRUE]
    [] OTHER -> [t EXCEPT !.pc = @ + 1, !.cards = srv.status[t.for] = "paused"]

PaintReads ==
  /\ \E t \in Tasks :
       /\ t.fn = "paint" /\ t.pc <= Len(ReadOrder)
       /\ ReadOrder[t.pc] = "run" => srv.status[t.for] # "none"
       /\ page' = Go(page, t, Read(t))
  /\ srv' = srv

(* #run-detail is gone: the exception reaches navigate, which shows it if the   *)
(* navigation is still the latest, or nobody.                                *)
Throws(p, t) ==
  IF t.nav /\ p.dom.kind # "auth" THEN Shell(End(p, t), Dom("error", NoRun)) ELSE End(p, t)

(* A failed read of the run is the content of the page and ends its polling; a   *)
(* failed read of the steps or the approvals is not fatal.                     *)
PaintReadFails ==
  /\ \E t \in Tasks :
       /\ t.fn = "paint" /\ t.pc <= Len(ReadOrder)
       /\ page' = IF ReadOrder[t.pc] # "run" THEN Go(page, t, [t EXCEPT !.pc = Len(ReadOrder) + 1])
                  ELSE IF HasDetail(page.dom) THEN [End(page, t) EXCEPT !.dom = Dom("failed", t.for)]
                  ELSE Throws(page, t)
  /\ srv' = srv

(* setTimeout into runPollTimer: the timer that was there is still armed. *)
Arm(p, r) ==
  [p EXCEPT !.timer = r,
            !.lost = IF p.timer = NoRun THEN p.lost ELSE [p.lost EXCEPT ![p.timer] = @ + 1]]

LostTimers(p) == {x \in Runs \X (1 .. MaxChains + 1) : x[2] <= p.lost[x[1]]}

Paint ==
  /\ \E t \in Tasks :
       /\ t.fn = "paint" /\ t.pc > Len(ReadOrder)
       /\ LET p == [End(page, t) EXCEPT !.dom = [Dom("run", t.for) EXCEPT !.status = t.status,
                      !.steps = t.steps, !.all = t.all, !.cards = t.cards /\ t.status = "paused"]]
          IN page' = IF ~HasDetail(page.dom) THEN Throws(page, t)
                     ELSE IF t.status \in ACTIVE_RUN_STATUSES THEN Arm(p, t.for) ELSE p
       /\ Cardinality(LostTimers(page')) <= MaxChains
  /\ srv' = srv

TimerFires ==
  /\ Room
  /\ \E r \in Runs :
       \/ page.timer = r /\ page' = Spawn([page EXCEPT !.timer = NoRun], Task("paint", r, FALSE))
       \/ page.lost[r] > 0 /\ page' = Spawn([page EXCEPT !.lost[r] = @ - 1], Task("paint", r, FALSE))
  /\ srv' = srv

----------------------------------------------------------------------------
PagesInit ==
  /\ \E new \in SUBSET Runs :
       srv = [status |-> [r \in Runs |-> IF r \in new THEN "none" ELSE "running"],
              steps |-> [r \in Runs |-> 0]]
  /\ \E a \in Addresses \cup {""} : page = Loaded(a)

PagesNext ==
  \/ RunMoves \/ Reload \/ BootAnswered \/ SignedIn \/ LoggedOut \/ FollowLink
  \/ Filled \/ FillFails \/ Click \/ CancelAnswered \/ DecisionAnswered
  \/ TriggerAnswered \/ ToggleAnswered
  \/ PaintReads \/ PaintReadFails \/ Paint \/ TimerFires

PagesSpec == PagesInit /\ [][PagesNext]_pagesVars

----------------------------------------------------------------------------
(* Properties *)

(* Somebody will paint again: a paint on its way, or a timer that starts one. *)
Repainted == page.timer # NoRun \/ LostTimers(page) # {} \/ \E t \in Tasks : t.fn = "paint"

(* The page of a run never freezes: as long as somebody is signed in and the   *)
(* page shows an active run, it is going to be painted again, and a page that   *)
(* shows a finished run with its steps shows all of them, however navigations,  *)
(* buttons, refused decisions, failed reads and timers come in between          *)
(* (renderRunDetail, decideApproval, clearRunPoll).                          *)
RunPageKeepsUp ==
  page.dom.kind = "run" =>
    /\ page.user /\ page.dom.status \in Active => Repainted
    /\ page.dom.status = "succeeded" /\ page.dom.all => page.dom.steps = srv.steps[page.dom.run]

=============================================================================
