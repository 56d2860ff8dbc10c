------------------------------ MODULE Startup -------------------------------
(***************************************************************************)
(* How the processes of a deployment come up on one data directory and one *)
(* database: the secrets of env-bootstrap.ts, the migrations of            *)
(* db/migration-runner.ts and the seed of db/seed.ts, in the order of      *)
(* startServer (index.ts) and of the standalone worker, which does neither *)
(* migrate nor seed.  Processes boot side by side; each may crash between  *)
(* any two of its calls, or lose a statement, and boots again.             *)
(*                                                                         *)
(* The file system is modelled by what the calls do to a name: writeFile   *)
(* with flag wx creates the name and then writes, so that others see the   *)
(* empty file in between, and a rename moves a file whose writer still     *)
(* holds it.  A generated secret set, and the file made for it, is a       *)
(* number that no other boot has.                                          *)
(***************************************************************************)
EXTENDS Naturals, Sequences, SequencesExt

CONSTANTS
  Servers,        \* processes that run startServer
  Workers,        \* processes that run apps/worker
  Migrations,     \* the .sql files, in their order
  Examples,       \* the example workflows of the demo, in their order
  SeedsDemo,      \* FF_SEED_DEMO
  MaxBoots,       \* bound: boots of all processes
  MaxMishaps      \* bound: crashes and failed statements

Nobody == "nobody"

ASSUME StartupAssumption ==
  /\ Servers \cap Workers = {} /\ Nobody \notin Servers \cup Workers
  /\ Migrations \in Seq(ToSet(Migrations)) /\ Examples \in Seq(ToSet(Examples))
  /\ \A i, j \in DOMAIN Migrations : Migrations[i] = Migrations[j] => i = j
  /\ SeedsDemo \in BOOLEAN
  /\ {MaxBoots, MaxMishaps} \subseteq Nat

VARIABLES
  disk,           \* at: the file of the name, or NoFile; whole: files written to their end
  db,             \* lock: holder; schema: schema_migrations; ran: bodies run; rows: counts
  proc,           \* per process: at, key, what is left to do, what has been applied
  tally           \* boots, mishaps and secrets so far

startupVars == <<disk, db, proc, tally>>

Booting == Servers \cup Workers
NoFile == 0
NoKey == 0

(* A section of the seed: a table, and for an example its template. *)
NoTemplate == ""
PlainSections == <<<<"plans", NoTemplate>>, <<"jobs", NoTemplate>>>>
DemoSections ==
  <<<<"user", NoTemplate>>, <<"workspace", NoTemplate>>, <<"member", NoTemplate>>,
    <<"subscription", NoTemplate>>, <<"secret", NoTemplate>>>>
ExampleRows == {<<kind, e>> : kind \in {"workflow", "version"}, e \in ToSet(Examples)}
RowNames == ToSet(PlainSections \o DemoSections) \cup ExampleRows

(* What seedPlans, seedSystemJobs and seedDemo walk through, in order. *)
Sections ==
  PlainSections \o
    (IF SeedsDemo THEN DemoSections \o [i \in DOMAIN Examples |-> <<"workflow", Examples[i]>>]
     ELSE <<>>)

Down == [at |-> "down", key |-> NoKey, todo |-> <<>>, applied |-> {}]

StartupInit ==
  /\ disk = [at |-> NoFile, whole |-> {}]
  /\ db = [lock |-> Nobody, schema |-> {}, ran |-> <<>>, rows |-> [n \in RowNames |-> 0]]
  /\ proc = [p \in Booting |-> Down]
  /\ tally = [boots |-> 0, mishaps |-> 0, keys |-> 0]

-----------------------------------------------------------------------------
(* One step of p leads to what is left of its record under f. *)
Becomes(p, rec) == proc' = [proc EXCEPT ![p] = rec]
Reaches(p, at) == Becomes(p, [proc[p] EXCEPT !.at = at])

(* Secrets in hand: a server goes on to the database, a worker consumes. *)
Resolved(p, key) ==
  Becomes(p, [proc[p] EXCEPT !.key = key, !.at = IF p \in Servers THEN "lock" ELSE "start"])

Fresh == tally.keys + 1
Generates == tally' = [tally EXCEPT !.keys = Fresh]

Boot(p) ==
  /\ proc[p].at = "down" /\ tally.boots < MaxBoots
  /\ tally' = [tally EXCEPT !.boots = @ + 1]
  /\ Reaches(p, "look")
  /\ UNCHANGED <<disk, db>>

(* existsSync(path) *)
LooksForFile(p) ==
  /\ proc[p].at = "look"
  /\ Reaches(p, IF disk.at = NoFile THEN "create" ELSE "read")
  /\ UNCHANGED <<disk, db, tally>>

(* loadPersistedSecrets: what is missing, empty or half written is null. *)
loadPersistedSecrets == IF disk.at \in disk.whole THEN disk.at ELSE NoKey

ReadsFile(p) ==
  /\ proc[p].at = "read"
  /\ IF loadPersistedSecrets # NoKey THEN Resolved(p, loadPersistedSecrets) ELSE Reaches(p, "move")
  /\ UNCHANGED <<disk, db, tally>>

(* renameSync to the .corrupt copy; when the name is gone, secrets of this process only. *)
MovesAside(p) ==
  /\ proc[p].at = "move"
  /\ IF disk.at = NoFile
     THEN Resolved(p, Fresh) /\ Generates /\ UNCHANGED disk
     ELSE Reaches(p, "create") /\ disk' = [disk EXCEPT !.at = NoFile] /\ UNCHANGED tally
  /\ UNCHANGED db

(* generateSecrets, and persistSecrets' exclusive create. *)
CreatesFile(p) ==
  /\ proc[p].at = "create"
  /\ Generates
  /\ Becomes(p, [proc[p] EXCEPT !.key = Fresh, !.at = IF disk.at = NoFile THEN "fill" ELSE "adopt"])
  /\ disk' = IF disk.at = NoFile THEN [disk EXCEPT !.at = Fresh] ELSE disk
  /\ UNCHANGED db

FillsFile(p) ==
  /\ proc[p].at = "fill"
  /\ disk' = [disk EXCEPT !.whole = @ \cup {proc[p].key}]
  /\ Resolved(p, proc[p].key)
  /\ UNCHANGED <<db, tally>>

(* EEXIST: the winner's set, or this process' own when it cannot be read. *)
AdoptsWinner(p) ==
  /\ proc[p].at = "adopt"
  /\ Resolved(p, IF loadPersistedSecrets # NoKey THEN loadPersistedSecrets ELSE proc[p].key)
  /\ UNCHANGED <<disk, db, tally>>

-----------------------------------------------------------------------------
(* runMigrations: the lock is held by a session of its own to the end. *)
(* Mutation: migrations without the advisory lock. *)
LockIgnored == TRUE

LockFree == db.lock = Nobody

TakesLock(p) ==
  /\ proc[p].at = "lock" /\ LockFree
  /\ db' = [db EXCEPT !.lock = p]
  /\ Reaches(p, "versions")
  /\ UNCHANGED <<disk, tally>>

ReadsVersions(p) ==
  /\ proc[p].at = "versions"
  /\ Becomes(p, [proc[p] EXCEPT !.at = "apply", !.todo = Migrations, !.applied = db.schema])
  /\ UNCHANGED <<disk, db, tally>>

(* One file in one transaction, its row of schema_migrations included; a   *)
(* file that had its row is passed.                                        *)
Applies(p) ==
  /\ proc[p].at = "apply" /\ proc[p].todo # <<>>
  /\ LET m == Head(proc[p].todo)
     IN db' = IF m \in proc[p].applied THEN db
              ELSE [db EXCEPT !.schema = @ \cup {m}, !.ran = Append(@, m)]
  /\ Becomes(p, [proc[p] EXCEPT !.todo = Tail(@)])
  /\ UNCHANGED <<disk, tally>>

Unlocked(p) == IF db.lock = p THEN Nobody ELSE db.lock

Unlocks(p) ==
  /\ proc[p].at = "apply" /\ proc[p].todo = <<>>
  /\ db' = [db EXCEPT !.lock = Unlocked(p)]
  /\ Becomes(p, [proc[p] EXCEPT !.at = "seed", !.todo = Sections, !.applied = {}])
  /\ UNCHANGED <<disk, tally>>

-----------------------------------------------------------------------------
(* The seed.  A section is an upsert, or a SELECT and an INSERT. *)
Section(p) == Head(proc[p].todo)
Upserted(n) == n[1] \in {"plans", "jobs", "member"}
UniqueRow(n) == n[1] # "subscription"
Present(n) == db.rows[n] > 0
Inserted(n) == [db EXCEPT !.rows[n] = @ + 1]

SectionDone(p) == [proc[p] EXCEPT !.at = "seed", !.todo = Tail(@)]

Upserts(p) ==
  /\ proc[p].at = "seed" /\ proc[p].todo # <<>> /\ Upserted(Section(p))
  /\ db' = [db EXCEPT !.rows[Section(p)] = 1]
  /\ Becomes(p, SectionDone(p))
  /\ UNCHANGED <<disk, tally>>

SelectsRow(p) ==
  /\ proc[p].at = "seed" /\ proc[p].todo # <<>> /\ ~Upserted(Section(p))
  /\ Becomes(p, IF Present(Section(p)) THEN SectionDone(p) ELSE [proc[p] EXCEPT !.at = "insert"])
  /\ UNCHANGED <<disk, db, tally>>

(* Lost to another boot: the user is adopted, a workflow is skipped with a *)
(* warning, and for a workspace or a secret the error ends the process.    *)
Conflict(p) == UniqueRow(Section(p)) /\ Present(Section(p))
Survives(p) == Section(p)[1] \in {"user", "workflow"}

InsertsRow(p) ==
  /\ proc[p].at = "insert"
  /\ IF Conflict(p)
     THEN Becomes(p, IF Survives(p) THEN SectionDone(p) ELSE Down) /\ UNCHANGED db
     ELSE /\ db' = Inserted(Section(p))
          /\ Becomes(p, IF Section(p)[1] = "workflow" THEN [proc[p] EXCEPT !.at = "version"] ELSE SectionDone(p))
  /\ UNCHANGED <<disk, tally>>

(* createWorkflowFromManifest goes on to the version and the triggers. *)
InsertsVersion(p) ==
  /\ proc[p].at = "version"
  /\ db' = Inserted(<<"version", Section(p)[2]>>)
  /\ Becomes(p, SectionDone(p))
  /\ UNCHANGED <<disk, tally>>

(* buildServer, the consumers, listen. *)
Listens(p) ==
  /\ proc[p].at = "seed" /\ proc[p].todo = <<>>
  /\ Reaches(p, "up")
  /\ UNCHANGED <<disk, db, tally>>

-----------------------------------------------------------------------------
(* A crash; or a statement of the boot throws: rolled back, exit(1). The   *)
(* session's advisory lock goes with it.                                   *)
Dies(p) ==
  /\ proc[p].at # "down" /\ tally.mishaps < MaxMishaps
  /\ tally' = [tally EXCEPT !.mishaps = @ + 1]
  /\ Becomes(p, Down)
  /\ db' = [db EXCEPT !.lock = Unlocked(p)]
  /\ UNCHANGED disk

(* The worker opens its consumers, the tick and the outbox at once, whatever *)
(* the database holds by then.                                             *)
WorkerStarts(p) ==
  /\ proc[p].at = "start"
  /\ Reaches(p, "up")
  /\ UNCHANGED <<disk, db, tally>>

(* SIGTERM: the shutdown of startServer, and of the worker, closes what it opened. *)
GoesDown(p) ==
  /\ proc[p].at = "up" /\ tally.boots < MaxBoots
  /\ Becomes(p, Down)
  /\ UNCHANGED <<disk, db, tally>>

Stops(p) == p \in Servers /\ GoesDown(p)
WorkerStops(p) == p \in Workers /\ GoesDown(p)

StartupNext ==
  \E p \in Booting :
    \/ Boot(p) \/ LooksForFile(p) \/ ReadsFile(p) \/ MovesAside(p)
    \/ CreatesFile(p) \/ FillsFile(p) \/ AdoptsWinner(p)
    \/ TakesLock(p) \/ ReadsVersions(p) \/ Applies(p) \/ Unlocks(p)
    \/ Upserts(p) \/ SelectsRow(p) \/ InsertsRow(p) \/ InsertsVersion(p) \/ Listens(p)
    \/ WorkerStarts(p)
    \/ Dies(p) \/ Stops(p) \/ WorkerStops(p)

StartupSpec == StartupInit /\ [][StartupNext]_startupVars

-----------------------------------------------------------------------------
(* However boots overlap and die, the body of each migration runs once, in *)
(* the order of the files (runMigrations' advisory lock, its read of       *)
(* schema_migrations and its transactions).                                *)
MigratedOnce == IsPrefix(db.ran, Migrations)

(* A server that listens has its whole schema and a row of every section   *)
(* of the seed, whatever boots died half way before it ("self-heals").     *)
Healed(p) == proc[p].at = "up" =>
  /\ db.schema = ToSet(Migrations)
  /\ \A n \in ToSet(Sections) : Present(n)
SeedHeals == \A p \in Servers : Healed(p)

(* Boots come to one schema and one seed. *)
BootsConverge == MigratedOnce /\ SeedHeals

(* Violated: the comment of persistSecrets says that processes which start *)
(* concurrently end with one set of keys, the loser adopting the winner's. *)
KeyOf(p) == IF proc[p].at \in {"lock", "versions", "apply", "seed", "insert", "version", "start", "up"}
            THEN {proc[p].key} ELSE {}
OneVaultKey == \A p, q \in Booting : \A k \in KeyOf(p), l \in KeyOf(q) : k = l
=============================================================================
