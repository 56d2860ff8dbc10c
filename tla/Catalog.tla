------------------------------- MODULE Catalog -------------------------------
(***************************************************************************)
(* Workflows, their versions and triggers, and the credentials they name:  *)
(* routes/workflows.ts, templates.ts, triggers.ts and credentials.ts, for  *)
(* one workspace.                                                          *)
(*                                                                         *)
(* None of these handlers opens a transaction: each statement is a step,   *)
(* after which it may throw or the process may die.  A slug is a name with *)
(* the number nextFreeSlug appends (1: none), and so is a webhook path.    *)
(***************************************************************************)
EXTENDS Naturals, Sequences, Maps

CONSTANTS Editors,       \* requests served at the same time
          WorkflowNames, \* workflow names, as slugify writes them
          Drafts,        \* valid manifests: triggers and credentials named
          Credentials,
          NoPath,        \* a trigger without a path of its own
          Keep,          \* a field absent from a PUT
          Puts,          \* bodies of PUT: manifest, name for the slug, is_enabled
          AskedPaths,    \* webhook paths a client asks for
          MaxWorkflows, MaxVersions, MaxTriggers

ASSUME CatalogAssumption ==
  /\ MaxWorkflows \in Nat /\ MaxVersions \in Nat /\ MaxTriggers \in Nat
  /\ AskedPaths \subseteq WorkflowNames \X (1..(MaxWorkflows + 1))
  /\ \A put \in Puts : put.m \in Drafts \cup {Keep}
  /\ \A m \in Drafts : m.triggers \in Seq({m.triggers[i] : i \in DOMAIN m.triggers})
  /\ \A m \in Drafts : m.names \subseteq Credentials
                       /\ \A i \in DOMAIN m.triggers :
                            m.triggers[i].type \in {"manual", "schedule", "webhook"}

VARIABLES wf,       \* workflows, with their versions by number
          trig,     \* triggers: rows are disabled, never deleted
          vault,    \* credentials stored
          edit      \* what each request is about to do

catalogVars == <<wf, trig, vault, edit>>

NoEdit == [pc |-> "idle", w |-> 0, v |-> 0, m |-> Keep, slug |-> NoPath, old |-> NoPath, put |-> Keep,
           i |-> 0, row |-> 0, todo |-> {}, for |-> "nobody"]
EditAt(h, pc) == edit[h].pc = pc
To(h, pc) == edit' = [edit EXCEPT ![h].pc = pc]
Stop(h) == edit' = [edit EXCEPT ![h] = NoEdit]
OnlyEdit == UNCHANGED <<wf, trig, vault>>

-----------------------------------------------------------------------------
TakenSlugs == {wf[w].slug : w \in DOMAIN wf}

nextFreeSlug(name) ==
  <<name, CHOOSE n \in 1..(MaxWorkflows + 1) :
            <<name, n>> \notin TakenSlugs /\ \A k \in 1..(n - 1) : <<name, k>> \in TakenSlugs>>

(* The path a manifest's trigger is stored with.                           *)
PathOf(t, slug) ==
  CASE t.type # "webhook" -> NoPath
    [] t.type = "webhook" /\ t.path = NoPath -> slug
    [] OTHER -> t.path

PathTaken(path) == \E r \in DOMAIN trig : trig[r].type = "webhook" /\ trig[r].path = path

RowsOf(w) == {r \in DOMAIN trig : trig[r].w = w}
DesiredTypes(m) == {m.triggers[i].type : i \in DOMAIN m.triggers}
DesiredPaths(m, slug) ==
  {PathOf(m.triggers[i], slug) : i \in {j \in DOMAIN m.triggers : m.triggers[j].type = "webhook"}}

StillThere(r, m, slug) ==
  /\ trig[r].type \in DesiredTypes(m)
  /\ trig[r].type # "webhook" \/ trig[r].path \in DesiredPaths(m, slug)

-----------------------------------------------------------------------------
(* reconcileTriggers, for the caller edit[h].for: rows the manifest no     *)
(* longer declares are disabled one by one, then each declared trigger is  *)
(* found or inserted, and written.                                         *)

(* Mutation: a trigger is gone only when no trigger of its type is declared. *)
GoneByType(r, m, slug) == trig[r].type \notin DesiredTypes(m)
Gone(r, m, slug) == ~StillThere(r, m, slug)

ReadTriggers(h) ==
  /\ EditAt(h, "reconcile")
  /\ edit' = [edit EXCEPT ![h].pc = "match", ![h].i = 1,
                          ![h].todo = {r \in RowsOf(edit[h].w) : Gone(r, edit[h].m, edit[h].slug)}]
  /\ OnlyEdit

DisableGone(h) ==
  /\ EditAt(h, "match")
  /\ \E r \in edit[h].todo :
       /\ trig' = [trig EXCEPT ![r].on = FALSE]
       /\ edit' = [edit EXCEPT ![h].todo = @ \ {r}]
  /\ UNCHANGED <<wf, vault>>

Declared(h) == edit[h].m.triggers[edit[h].i]
DeclaredPath(h) == PathOf(Declared(h), edit[h].slug)

Matching(h) == {r \in RowsOf(edit[h].w) :
                  trig[r].type = Declared(h).type /\ trig[r].path = DeclaredPath(h)}

MatchTrigger(h) ==
  /\ EditAt(h, "match") /\ edit[h].todo = {} /\ edit[h].i <= Len(edit[h].m.triggers)
  /\ \/ \E r \in Matching(h) : edit' = [edit EXCEPT ![h].pc = "write", ![h].row = r]
     \/ Matching(h) = {} /\ Declared(h).type = "webhook" /\ To(h, "check path")
     \/ Matching(h) = {} /\ Declared(h).type # "webhook" /\ To(h, "insert")
  /\ OnlyEdit

(* webhook_path_conflict is thrown: what was done before it stays.         *)
CheckPath(h) ==
  /\ EditAt(h, "check path")
  /\ IF PathTaken(DeclaredPath(h)) THEN Stop(h) ELSE To(h, "insert")
  /\ OnlyEdit

NewTrigger(w, type, path, typed) ==
  [w |-> w, type |-> type, path |-> path, on |-> TRUE, typed |-> typed]

InsertTrigger(h) ==
  /\ EditAt(h, "insert") /\ Len(trig) < MaxTriggers
  /\ trig' = Append(trig, NewTrigger(edit[h].w, Declared(h).type, DeclaredPath(h), TRUE))
  /\ edit' = [edit EXCEPT ![h].pc = "write", ![h].row = Len(trig) + 1]
  /\ UNCHANGED <<wf, vault>>

WriteTrigger(h) ==
  /\ EditAt(h, "write")
  /\ trig' = [trig EXCEPT ![edit[h].row] =
                NewTrigger(edit[h].w, Declared(h).type, DeclaredPath(h), TRUE)]
  /\ edit' = [edit EXCEPT ![h].pc = "match", ![h].i = @ + 1]
  /\ UNCHANGED <<wf, vault>>

(* The audit event and the answer.                                         *)
Reconciled(h) == EditAt(h, "match") /\ edit[h].todo = {} /\ edit[h].i > Len(edit[h].m.triggers)

Reply(h) == Reconciled(h) /\ Stop(h) /\ OnlyEdit

ReconcileStep(h) ==
  \/ ReadTriggers(h) \/ DisableGone(h) \/ MatchTrigger(h) \/ CheckPath(h)
  \/ InsertTrigger(h) \/ WriteTrigger(h) \/ Reply(h)

-----------------------------------------------------------------------------
(* createWorkflowFromManifest: POST /workflows, from-template, the seeder. *)
AskCreate(h, name, m) ==
  /\ EditAt(h, "idle") /\ Len(wf) < MaxWorkflows
  /\ edit' = [edit EXCEPT ![h] = [NoEdit EXCEPT !.pc = "insert workflow", !.m = m,
                                                !.slug = nextFreeSlug(name), !.for = "create"]]
  /\ OnlyEdit

(* UNIQUE (workspace_id, slug): a slug taken since it was read throws.     *)
InsertWorkflow(h) ==
  /\ EditAt(h, "insert workflow")
  /\ IF edit[h].slug \in TakenSlugs
     THEN Stop(h) /\ UNCHANGED wf
     ELSE /\ wf' = Append(wf, [slug |-> edit[h].slug, on |-> TRUE, cur |-> 0,
                               versions |-> <<>>, flags |-> {}])
          /\ edit' = [edit EXCEPT ![h].pc = "first version", ![h].w = Len(wf) + 1, ![h].v = 1]
  /\ UNCHANGED <<trig, vault>>

InsertFirstVersion(h) ==
  /\ EditAt(h, "first version")
  /\ wf' = [wf EXCEPT ![edit[h].w].versions = <<edit[h].m>>, ![edit[h].w].flags = {1}]
  /\ To(h, "point")
  /\ UNCHANGED <<trig, vault>>

(* UPDATE workflows SET current_version_id, here and in a promotion.       *)
PointAtVersion(h) ==
  /\ EditAt(h, "point")
  /\ wf' = [wf EXCEPT ![edit[h].w].cur = edit[h].v]
  /\ To(h, "reconcile")
  /\ UNCHANGED <<trig, vault>>

-----------------------------------------------------------------------------
(* POST /workflows/:id/promote/:versionId.                                 *)
AskPromote(h, w, v) ==
  /\ EditAt(h, "idle")
  /\ edit' = [edit EXCEPT ![h] = [NoEdit EXCEPT !.pc = "clear", !.w = w, !.v = v,
                                                !.m = wf[w].versions[v], !.slug = wf[w].slug,
                                                !.for = "promote"]]
  /\ OnlyEdit

ClearCurrent(h) ==
  /\ EditAt(h, "clear")
  /\ wf' = [wf EXCEPT ![edit[h].w].flags = {}]
  /\ To(h, "flag")
  /\ UNCHANGED <<trig, vault>>

FlagCurrent(h) ==
  /\ EditAt(h, "flag")
  /\ wf' = [wf EXCEPT ![edit[h].w].flags = @ \cup {edit[h].v}]
  /\ To(h, "point")
  /\ UNCHANGED <<trig, vault>>

-----------------------------------------------------------------------------
(* PUT /workflows/:id and POST /workflows/:id/versions.  A manifest        *)
(* becomes a draft numbered MAX + 1; the same number twice throws.         *)
AskPut(h, w, put) ==
  /\ EditAt(h, "idle")
  /\ edit' = [edit EXCEPT ![h] = [NoEdit EXCEPT !.pc = IF put.m # Keep THEN "number" ELSE "slug",
                                                !.w = w, !.m = put.m, !.slug = wf[w].slug,
                                                !.put = put, !.for = "put"]]
  /\ OnlyEdit

AskDraft(h, w, m) ==
  /\ EditAt(h, "idle")
  /\ edit' = [edit EXCEPT ![h] = [NoEdit EXCEPT !.pc = "number", !.w = w, !.m = m,
                                                !.for = "draft"]]
  /\ OnlyEdit

NumberVersion(h) ==
  /\ EditAt(h, "number") /\ Len(wf[edit[h].w].versions) < MaxVersions
  /\ edit' = [edit EXCEPT ![h].pc = "draft", ![h].v = Len(wf[edit[h].w].versions) + 1]
  /\ OnlyEdit

InsertDraft(h) ==
  LET w == edit[h].w IN
  /\ EditAt(h, "draft")
  /\ IF edit[h].v = Len(wf[w].versions) + 1
     THEN /\ wf' = [wf EXCEPT ![w].versions = Append(@, edit[h].m)]
          /\ IF edit[h].for = "put" THEN To(h, "slug") ELSE Stop(h)
     ELSE Stop(h) /\ UNCHANGED wf
  /\ UNCHANGED <<trig, vault>>

(* A slug is made free before it is compared with the old one, so that the *)
(* slug the workflow already has counts as taken.                          *)
ChooseSlug(h) ==
  LET name == edit[h].put.name IN
  /\ EditAt(h, "slug")
  /\ edit' = [edit EXCEPT ![h].old = edit[h].slug,
                          ![h].slug = IF name = Keep THEN @ ELSE nextFreeSlug(name),
                          ![h].pc = IF name = Keep THEN "save" ELSE "repath"]
  /\ OnlyEdit

(* Every trigger of the workspace at the old slug follows.                 *)
RepathTriggers(h) ==
  /\ EditAt(h, "repath")
  /\ trig' = [r \in DOMAIN trig |->
                IF trig[r].type = "webhook" /\ trig[r].path = edit[h].old
                THEN [trig[r] EXCEPT !.path = edit[h].slug] ELSE trig[r]]
  /\ To(h, "save")
  /\ UNCHANGED <<wf, vault>>

SaveWorkflow(h) ==
  LET w == edit[h].w
      on == edit[h].put.on
  IN
  /\ EditAt(h, "save")
  /\ IF \E x \in DOMAIN wf \ {w} : wf[x].slug = edit[h].slug
     THEN Stop(h) /\ UNCHANGED wf
     ELSE /\ wf' = [wf EXCEPT ![w].slug = edit[h].slug,
                              ![w].on = IF on = Keep THEN @ ELSE on]
          /\ IF on = Keep THEN Stop(h) ELSE To(h, "switch")
  /\ UNCHANGED <<trig, vault>>

(* Disabling a workflow disables its triggers, enabling it enables those   *)
(* whose stored config names a type: what a manifest declared, dropped or  *)
(* deleted since included.                                                 *)
SwitchTriggers(h) ==
  LET on == edit[h].put.on IN
  /\ EditAt(h, "switch")
  /\ trig' = [r \in DOMAIN trig |->
                IF trig[r].w = edit[h].w /\ (on => trig[r].typed)
                THEN [trig[r] EXCEPT !.on = on] ELSE trig[r]]
  /\ Stop(h)
  /\ UNCHANGED <<wf, vault>>

(* DELETE /workflows/:id only disables.                                    *)
DisableWorkflow(h, w) ==
  /\ EditAt(h, "idle")
  /\ wf' = [wf EXCEPT ![w].on = FALSE]
  /\ edit' = [edit EXCEPT ![h] = [NoEdit EXCEPT !.pc = "switch", !.w = w,
                                                !.put = [m |-> Keep, name |-> Keep, on |-> FALSE],
                                                !.for = "put"]]
  /\ UNCHANGED <<trig, vault>>

-----------------------------------------------------------------------------
(* triggers.ts: create checks the path and then inserts; update merges     *)
(* into the config it read, and looks for no conflict; delete disables.    *)
AskTrigger(h, w, type, path) ==
  /\ EditAt(h, "idle")
  /\ type = "webhook" => path # NoPath /\ ~PathTaken(path)
  /\ type = "schedule" => path = NoPath
  /\ edit' = [edit EXCEPT ![h] = [NoEdit EXCEPT !.pc = "add", !.w = w, !.slug = path, !.m = type,
                                                !.for = "trigger"]]
  /\ OnlyEdit

AddTrigger(h) ==
  /\ EditAt(h, "add") /\ Len(trig) < MaxTriggers
  /\ trig' = Append(trig, NewTrigger(edit[h].w, edit[h].m, edit[h].slug, FALSE))
  /\ Stop(h)
  /\ UNCHANGED <<wf, vault>>

AskEditTrigger(h, r, path, on) ==
  /\ EditAt(h, "idle")
  /\ path # NoPath => trig[r].type = "webhook"
  /\ edit' = [edit EXCEPT ![h] = [NoEdit EXCEPT !.pc = "merge", !.row = r, !.put = on,
                                    !.slug = IF path = NoPath THEN trig[r].path ELSE path,
                                    !.for = IF trig[r].typed THEN "typed" ELSE "trigger"]]
  /\ OnlyEdit

MergeConfig(h) ==
  /\ EditAt(h, "merge")
  /\ trig' = [trig EXCEPT ![edit[h].row].path = edit[h].slug,
                          ![edit[h].row].typed = edit[h].for = "typed"]
  /\ IF edit[h].put = Keep THEN Stop(h) ELSE To(h, "set flag")
  /\ UNCHANGED <<wf, vault>>

SetTriggerFlag(h) ==
  /\ EditAt(h, "set flag")
  /\ trig' = [trig EXCEPT ![edit[h].row].on = edit[h].put]
  /\ Stop(h)
  /\ UNCHANGED <<wf, vault>>

DeleteTrigger(h, r) ==
  /\ EditAt(h, "idle")
  /\ trig' = [trig EXCEPT ![r].on = FALSE]
  /\ UNCHANGED <<wf, vault, edit>>

-----------------------------------------------------------------------------
(* credentials.ts: names are unique; one that an enabled workflow's        *)
(* current version names is kept, as the check before the DELETE saw it.   *)
StoreCredential(h, c) ==
  /\ EditAt(h, "idle") /\ c \notin vault
  /\ vault' = vault \cup {c}
  /\ UNCHANGED <<wf, trig, edit>>

findWorkflowsReferencingCredential(c) ==
  {w \in DOMAIN wf : wf[w].on /\ \E v \in wf[w].flags : c \in wf[w].versions[v].names}

CheckCredential(h, c) ==
  /\ EditAt(h, "idle") /\ c \in vault
  /\ findWorkflowsReferencingCredential(c) = {}
  /\ edit' = [edit EXCEPT ![h] = [NoEdit EXCEPT !.pc = "forget", !.m = c, !.for = "vault"]]
  /\ OnlyEdit

DeleteCredential(h) ==
  /\ EditAt(h, "forget")
  /\ vault' = vault \ {edit[h].m}
  /\ Stop(h)
  /\ UNCHANGED <<wf, trig>>

(* A statement throws, or the process dies.                                *)
EditBreaksOff(h) ==
  /\ ~EditAt(h, "idle")
  /\ Stop(h)
  /\ UNCHANGED <<wf, trig, vault>>

-----------------------------------------------------------------------------
CatalogInit ==
  /\ wf = <<>> /\ trig = <<>> /\ vault = {}
  /\ edit = [h \in Editors |-> NoEdit]

CreateStep(h) ==
  \/ \E name \in WorkflowNames, m \in Drafts : AskCreate(h, name, m)
  \/ InsertWorkflow(h) \/ InsertFirstVersion(h) \/ PointAtVersion(h)

PromoteStep(h) ==
  \/ \E w \in DOMAIN wf : \E v \in DOMAIN wf[w].versions : AskPromote(h, w, v)
  \/ ClearCurrent(h) \/ FlagCurrent(h)

PutStep(h) ==
  \/ \E w \in DOMAIN wf, put \in Puts : AskPut(h, w, put)
  \/ \E w \in DOMAIN wf, m \in Drafts : AskDraft(h, w, m)
  \/ \E w \in DOMAIN wf : DisableWorkflow(h, w)
  \/ NumberVersion(h) \/ InsertDraft(h) \/ ChooseSlug(h)
  \/ RepathTriggers(h) \/ SaveWorkflow(h) \/ SwitchTriggers(h)

TriggerStep(h) ==
  \/ \E w \in DOMAIN wf, type \in {"schedule", "webhook"}, path \in AskedPaths \cup {NoPath} :
       AskTrigger(h, w, type, path)
  \/ \E r \in DOMAIN trig, path \in AskedPaths \cup {NoPath}, on \in BOOLEAN \cup {Keep} :
       AskEditTrigger(h, r, path, on)
  \/ \E r \in DOMAIN trig : DeleteTrigger(h, r)
  \/ AddTrigger(h) \/ MergeConfig(h) \/ SetTriggerFlag(h)

VaultStep(h) ==
  \/ \E c \in Credentials : StoreCredential(h, c) \/ CheckCredential(h, c)
  \/ DeleteCredential(h)

CatalogNext ==
  \E h \in Editors :
    \/ CreateStep(h) \/ PromoteStep(h) \/ ReconcileStep(h) \/ PutStep(h)
    \/ TriggerStep(h) \/ VaultStep(h) \/ EditBreaksOff(h)

CatalogSpec == CatalogInit /\ [][CatalogNext]_catalogVars

-----------------------------------------------------------------------------
(* A promotion that answers has taken effect, whatever crashes, refusals,  *)
(* rollbacks, renames and edits of single triggers came before it: the     *)
(* version is the only current one in both of the places that say which is *)
(* current, every trigger it declares is enabled, and no trigger of a type *)
(* or path that it does not declare is (promote, reconcileTriggers).       *)
PromotionTakesEffect ==
  \A h \in Editors : Reconciled(h) /\ edit[h].for = "promote" =>
    LET w == edit[h].w
        m == edit[h].m
        here == {r \in RowsOf(w) : trig[r].on}
    IN /\ wf[w].flags = {edit[h].v} /\ wf[w].cur = edit[h].v
       /\ \A i \in DOMAIN m.triggers :
            \E r \in here : /\ trig[r].type = m.triggers[i].type
                            /\ trig[r].path = PathOf(m.triggers[i], edit[h].slug)
       /\ \A r \in here : /\ trig[r].type \in DesiredTypes(m)
                          /\ trig[r].type = "webhook" =>
                               trig[r].path \in DesiredPaths(m, wf[w].slug)

(* Webhook paths are unique per workspace (triggers.ts:6): what POST       *)
(* /triggers and reconcileTriggers check before they insert.               *)
PathsUnique ==
  \A r, s \in DOMAIN trig :
    trig[r].type = "webhook" /\ trig[s].type = "webhook" /\ trig[r].path = trig[s].path => r = s

=============================================================================
