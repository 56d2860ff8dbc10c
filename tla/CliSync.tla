------------------------------- MODULE CliSync ------------------------------
(***************************************************************************)
(* forge login, push and pull against a hosted workspace: the API token,   *)
(* the files of a directory and the workflows of the workspace, changed    *)
(* meanwhile on the web.  A manifest is the name it declares, or Broken; a *)
(* slug is a base name and the number that made it unique.                 *)
(***************************************************************************)
EXTENDS Naturals, FiniteSets

CONSTANTS
  Names,        \* names of workflows, each its own slug under slugify
  Clean,        \* [Names -> Names]: a name as sanitizeSlug leaves it
  Broken,       \* a manifest that does not parse
  MaxHosted,    \* bound: workflows of the workspace
  MaxCommands,  \* bound: commands of the user
  MaxWebEdits,  \* bound: changes on the web and in the directory
  ListLimit     \* rows of GET /workflows (200 in the code)

ASSUME CliAssumption ==
  /\ Clean \in [Names -> Names] /\ Broken \notin Names
  /\ {MaxHosted, MaxCommands, MaxWebEdits, ListLimit} \subseteq Nat

VARIABLES
  hosted,  \* the workspace: workflows by id, and the tokens that are good
  files,   \* the directory: manifest by slug of the file name
  forge    \* the command: program counter, credentials, what it listed, what is left, its rows;
           \* history: the files the workspace knows, and was the list steady since it was read?

cliVars == <<hosted, files, forge>>

HostedSlugs == Names \X (1 .. MaxHosted)
sanitizeSlug(s) == <<Clean[s[1]], s[2]>>

HostedIds == DOMAIN hosted.wf
Enabled == {w \in HostedIds : hosted.wf[w].on}
FreeSlug(name) ==
  <<name, CHOOSE n \in 1 .. MaxHosted :
            /\ \A w \in HostedIds : hosted.wf[w].slug # <<name, n>>
            /\ \A k \in 1 .. n - 1 : \E w \in HostedIds : hosted.wf[w].slug = <<name, k>> >>

(* Requests carry the token of the credentials; the workspace is the token's. *)
Authorized == forge.creds # 0 /\ forge.creds \in hosted.tokens

ForgeAt(pc) == forge.pc = pc
Ready == forge.pc = "idle" /\ forge.commands < MaxCommands
Command(pc) == [forge EXCEPT !.pc = pc, !.commands = @ + 1, !.rows = {}, !.left = {}, !.listed = {}]

----------------------------------------------------------------------------
(* forge login: a session, the first workspace, a token, the file. *)

StartLogin == Ready /\ forge' = Command("session") /\ UNCHANGED <<hosted, files>>

LoginStep ==
  /\ \/ ForgeAt("session") /\ forge' = [forge EXCEPT !.pc = "workspace"] /\ hosted' = hosted
     \/ ForgeAt("workspace") /\ forge' = [forge EXCEPT !.pc = "mint"] /\ hosted' = hosted
     \/ /\ ForgeAt("mint")
        /\ hosted' = [hosted EXCEPT !.tokens = @ \cup {forge.commands}]
        /\ forge' = [forge EXCEPT !.pc = "save"]
     \/ /\ ForgeAt("save")   \* saveCredentials
        /\ forge' = [forge EXCEPT !.pc = "idle", !.creds = forge.commands]
        /\ hosted' = hosted
  /\ files' = files

(* A refusal, or the user's Ctrl-C: a minted token may belong to nobody. *)
LoginFails ==
  /\ forge.pc \in {"session", "workspace", "mint", "save"}
  /\ forge' = [forge EXCEPT !.pc = "idle"]
  /\ UNCHANGED <<hosted, files>>

----------------------------------------------------------------------------
(* The list that push and pull start from: the enabled workflows, at most one   *)
(* page of them.                                                             *)

Page == {S \in SUBSET Enabled : Cardinality(S) = IF Cardinality(Enabled) < ListLimit
                                                  THEN Cardinality(Enabled) ELSE ListLimit}
ListRows(S) == {[id |-> w, name |-> hosted.wf[w].name, slug |-> hosted.wf[w].slug] : w \in S}

StartSync ==
  /\ Ready
  /\ \/ /\ files # <<>>
        /\ forge' = Command("list for push")
     \/ forge' = Command("list for pull")
  /\ UNCHANGED <<hosted, files>>

ListWorkflows ==
  /\ forge.pc \in {"list for push", "list for pull"}
  /\ IF Authorized
     THEN \E S \in Page :
            forge' = [forge EXCEPT
              !.listed = ListRows(S), !.steady = TRUE,
              !.pc = IF forge.pc = "list for push" THEN "push" ELSE "pull",
              !.left = IF forge.pc = "list for push" THEN DOMAIN files ELSE S]
     ELSE forge' = [forge EXCEPT !.pc = "idle"]
  /\ UNCHANGED <<hosted, files>>

(* What came of a file: it is known to the workspace, or its row has an error. *)
ReportRow(f, action) == [file |-> f, action |-> action]
Pushed(f, action) ==
  forge' = [forge EXCEPT !.left = @ \ {f}, !.rows = @ \cup {ReportRow(f, action)},
                         !.known = IF action # "error" /\ forge.steady THEN @ \cup {f} ELSE @]

(* Mutation: a workflow is recognised by its slug alone. *)
RecognisedBySlug(f) == {x \in forge.listed : x.slug = f}

(* find over the list of the start, in the order of updated_at: the first that   *)
(* has the file's slug or the manifest's name.                                 *)
Recognised(f) == {x \in forge.listed : x.slug = f \/ x.name = files[f]}

PushVersion(f) ==
  /\ files[f] # Broken /\ Authorized
  /\ \E x \in Recognised(f) :
       hosted' = [hosted EXCEPT !.wf[x.id].newest = files[f]]
  /\ Pushed(f, "versioned")

HostedRow(name, m) == [name |-> name, slug |-> FreeSlug(name), live |-> m, newest |-> m, on |-> TRUE]
Created(name, m) == [hosted EXCEPT !.wf = [w \in HostedIds \cup {Cardinality(HostedIds) + 1} |->
                       IF w \in HostedIds THEN hosted.wf[w] ELSE HostedRow(name, m)]]
RoomForOne == Cardinality(HostedIds) < MaxHosted

(* POST /workflows takes no slug: it makes one of the name.  A conflict of       *)
(* webhook paths is found after the rows are there.                            *)
PushCreate(f) ==
  /\ files[f] # Broken /\ Authorized /\ RoomForOne
  /\ Recognised(f) = {}
  /\ hosted' = Created(files[f], files[f])
  /\ Pushed(f, "created") \/ Pushed(f, "error")

PushError(f) == Pushed(f, "error") /\ hosted' = hosted

PushFile ==
  /\ ForgeAt("push")
  /\ \E f \in forge.left : PushVersion(f) \/ PushCreate(f) \/ PushError(f)
  /\ files' = files

(* The live manifest into {slug}.ff.yaml; a file of that name is overwritten. *)
PullFile ==
  /\ ForgeAt("pull")
  /\ \E w \in forge.left :
       LET x == CHOOSE y \in forge.listed : y.id = w
           f == sanitizeSlug(x.slug)
       IN \/ /\ Authorized
             /\ files' = [g \in DOMAIN files \cup {f} |-> IF g = f THEN hosted.wf[w].live ELSE files[g]]
             /\ forge' = [forge EXCEPT !.left = @ \ {w}, !.rows = @ \cup {ReportRow(f, "pulled")},
                            !.known = IF f = x.slug /\ forge.steady THEN @ \cup {f} ELSE @ \ {f}]
          \/ /\ files' = files
             /\ forge' = [forge EXCEPT !.left = @ \ {w}, !.rows = @ \cup {ReportRow(f, "error")}]
  /\ hosted' = hosted

SyncEnds ==
  /\ forge.pc \in {"push", "pull"} /\ forge.left = {}
  /\ forge' = [forge EXCEPT !.pc = "idle"]
  /\ UNCHANGED <<hosted, files>>

----------------------------------------------------------------------------
(* The web and the directory (external).  Disabling or renaming a workflow, or   *)
(* editing a file, is a reason to take it for a new one.                        *)

WebEdit ==
  /\ forge.edits < MaxWebEdits
  /\ \/ /\ RoomForOne
        /\ \E n, m \in Names : hosted' = Created(n, m)
        /\ forge' = [forge EXCEPT !.edits = @ + 1]
     \/ /\ \E w \in HostedIds : hosted' = [hosted EXCEPT !.wf[w].live = hosted.wf[w].newest]
        /\ forge' = [forge EXCEPT !.edits = @ + 1]
     \/ /\ \E w \in HostedIds : \/ hosted' = [hosted EXCEPT !.wf[w].on = ~@]
                          \/ \E n \in Names : hosted' = [hosted EXCEPT !.wf[w].name = n]
        /\ forge' = [forge EXCEPT !.edits = @ + 1, !.known = {}, !.steady = FALSE]
     \/ /\ \E t \in hosted.tokens : hosted' = [hosted EXCEPT !.tokens = @ \ {t}]
        /\ forge' = [forge EXCEPT !.edits = @ + 1]
  /\ files' = files

EditFile ==
  /\ forge.edits < MaxWebEdits
  /\ \E f \in Names \X {1}, m \in Names \cup {Broken} :
       /\ files' = [g \in DOMAIN files \cup {f} |-> IF g = f THEN m ELSE files[g]]
       /\ forge' = [forge EXCEPT !.edits = @ + 1, !.known = @ \ {f}]
  /\ hosted' = hosted

----------------------------------------------------------------------------
CliInit ==
  /\ hosted = [wf |-> <<>>, tokens |-> {}]
  /\ files = <<>>
  /\ forge = [pc |-> "idle", creds |-> 0, listed |-> {}, left |-> {}, rows |-> {}, known |-> {}, steady |-> TRUE,
              commands |-> 0, edits |-> 0]

CliNext ==
  \/ StartLogin \/ LoginStep \/ LoginFails
  \/ StartSync \/ ListWorkflows \/ PushFile \/ PullFile \/ SyncEnds
  \/ WebEdit \/ EditFile

CliSpec == CliInit /\ [][CliNext]_cliVars

----------------------------------------------------------------------------
(* Properties *)

(* Push and pull recognise what they have seen: a file that was pulled, or       *)
(* pushed without an error, is a new version when it is pushed again, never a    *)
(* second workflow, as long as nobody disables or renames a workflow or edits    *)
(* the file and the workspace fits in one page of the list.  It rests on the two *)
(* halves of the match: a pulled file has the slug, a file that push created     *)
(* only the name, because the server makes the slug itself.                     *)
KnownFilesAreVersioned ==
  [][\A f \in forge.known :
       ReportRow(f, "created") \in forge'.rows => ReportRow(f, "created") \in forge.rows]_cliVars

=============================================================================
