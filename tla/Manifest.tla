------------------------------ MODULE Manifest ------------------------------
(***************************************************************************)
(* The validation of a manifest (packages/engine/src/manifest-schema.ts,   *)
(* manifest-validator.ts) beside the way the executor finds the steps it   *)
(* runs.  A manifest is a list of steps that is written down one step at a *)
(* time, each at the top or in a slot of an earlier one: steps, with.then, *)
(* with.else, or with.steps, the documented alias of steps.  What a step's *)
(* fields say is abstracted to the flaw, if any, that a rule looks for.    *)
(*                                                                         *)
(* Left out: sizes, YAML syntax, the patterns of names, the defaults that  *)
(* the schema fills in, and the warnings, which refuse nothing.            *)
(***************************************************************************)
EXTENDS Integers, Sequences, FiniteSets

CONSTANTS
    TriggerLists,       \* sets of triggers a manifest may declare
    InputLists,         \* sets of inputs a manifest may declare
    MAX_NESTING_DEPTH,
    MaxSteps            \* bound: steps of a manifest

VARIABLES
    steps,              \* the steps, parents before children
    triggers,           \* the triggers
    inputs              \* the inputs
manifestVars == <<steps, triggers, inputs>>

ASSUME ManifestAssumption ==
    /\ MAX_NESTING_DEPTH \in Nat \ {0} /\ MaxSteps \in Nat
    /\ \A ts \in TriggerLists : \A t \in ts : DOMAIN t = {"type", "flaw", "maps"}

-----------------------------------------------------------------------------
(* Steps *)

StepTypes == {"http", "for_each", "condition", "reply", "parallel"}
Unknown == "unknown"
NoFlaw == "none"
(* config: the with object breaks the contract of its type; body: a GET with
   a body; header: a header that may not be set. *)
Flaws(type) ==
    CASE type = "http" -> {NoFlaw, "config", "body"}
      [] type = "reply" -> {NoFlaw, "header"}
      [] type = "condition" -> {NoFlaw, "config"}
      [] OTHER -> {NoFlaw}

Outermost == 0
Ids == DOMAIN steps
Slots(type) ==
    CASE type = "for_each" -> {"steps", "alias"}
      [] type = "condition" -> {"then", "else", "steps"}
      [] OTHER -> {}

depth[i \in {Outermost} \cup Ids] == IF i = Outermost THEN 0 ELSE 1 + depth[steps[i].parent]
(* The slots on the way from the top to a step. *)
way[i \in {Outermost} \cup Ids] ==
    IF i = Outermost THEN {} ELSE way[steps[i].parent] \cup {steps[i].slot}

-----------------------------------------------------------------------------
(* The schema: walks steps, at the top and nested, but not with.then,       *)
(* with.else (z.any()) and with.steps.                                      *)

Walked == {i \in Ids : way[i] = {"steps"}}
ConfigHolds(i) == steps[i].flaw # "config"
StepSchemaHolds(i) ==
    /\ steps[i].type \in StepTypes
    /\ depth[i] > MAX_NESTING_DEPTH => steps[i].type \notin {"for_each", "parallel"}
    /\ ConfigHolds(i)
ManifestSchemaHolds ==
    /\ steps # <<>>
    /\ Cardinality(triggers) \in 1..3
    /\ \A i \in Walked : StepSchemaHolds(i)

-----------------------------------------------------------------------------
(* The rules of the validator: they descend into steps, then and else.      *)

flattenSteps == {i \in Ids : "alias" \notin way[i]}

hasWebhookTrigger == \E t \in triggers : t.type = "webhook"

(* Mutation: each list is checked by itself. *)
checkDuplicateIdsApart ==
    ~\E i, j \in flattenSteps :
        i # j /\ steps[i].id = steps[j].id
        /\ steps[i].parent = steps[j].parent /\ steps[i].slot = steps[j].slot
checkDuplicateIds ==
    ~\E i, j \in flattenSteps : i # j /\ steps[i].id = steps[j].id

countReplySteps == Cardinality({i \in flattenSteps : steps[i].type = "reply"})
getMaxNestingDepth == {depth[i] : i \in flattenSteps}

validateHttpStep(i) == steps[i].flaw \notin {"body", "header"}
validateReplyStep(i) == hasWebhookTrigger /\ steps[i].flaw # "header"

(* event is refused; a schedule has a valid cron and time zone, a webhook
   the secret its mode asks for. *)
validateTriggers == \A t \in triggers : t.type # "event" /\ t.flaw = NoFlaw

validateRequiredInputsForSchedule ==
    (\E t \in triggers : t.type = "schedule") =>
        \A input \in inputs :
            input.required /\ ~input.default =>
                \E t \in triggers : t.type = "webhook" /\ input.name \in t.maps

validateManifest ==
    /\ ManifestSchemaHolds
    /\ validateTriggers
    /\ \A i \in flattenSteps : steps[i].type # "parallel"
    /\ countReplySteps <= 1
    /\ \A d \in getMaxNestingDepth : d <= MAX_NESTING_DEPTH
    /\ checkDuplicateIds
    /\ \A i \in flattenSteps : steps[i].type = "http" => validateHttpStep(i)
    /\ \A i \in flattenSteps : steps[i].type = "reply" => validateReplyStep(i)
    /\ \A i \in flattenSteps \ Walked : ConfigHolds(i)
    /\ validateRequiredInputsForSchedule

-----------------------------------------------------------------------------
(* The executor: the children it runs of a step (run-executor.ts).          *)

In(i, slot) == {j \in Ids : steps[j].parent = i /\ steps[j].slot = slot}
ExecutedFrom(i) ==
    CASE i = Outermost -> In(Outermost, "steps")
      [] i # Outermost /\ steps[i].type = "for_each" ->
           IF In(i, "steps") # {} THEN In(i, "steps") ELSE In(i, "alias")
      [] i # Outermost /\ steps[i].type = "condition" -> In(i, "then") \cup In(i, "else")
      [] OTHER -> {}
executed[i \in {Outermost} \cup Ids] ==
    i = Outermost \/ (i \in ExecutedFrom(steps[i].parent) /\ executed[steps[i].parent])
Executed == {i \in Ids : executed[i]}

-----------------------------------------------------------------------------
(* Writing a manifest *)

ManifestInit ==
    /\ steps = <<>>
    /\ triggers \in TriggerLists
    /\ inputs \in InputLists

AddStep(parent, slot, type, flaw, id) ==
    /\ Len(steps) < MaxSteps
    /\ IF parent = Outermost THEN slot = "steps" ELSE slot \in Slots(steps[parent].type)
    /\ steps' = Append(steps, [parent |-> parent, slot |-> slot, type |-> type,
                               flaw |-> flaw, id |-> id])
    /\ UNCHANGED <<triggers, inputs>>

(* A new id, or one that an earlier step has. *)
ManifestNext ==
    \E parent \in {Outermost} \cup Ids, slot \in {"steps", "then", "else", "alias"},
       type \in StepTypes \cup {Unknown} :
        \E flaw \in Flaws(type), id \in {Len(steps) + 1} \cup {steps[i].id : i \in Ids} :
            AddStep(parent, slot, type, flaw, id)

ManifestSpec == ManifestInit /\ [][ManifestNext]_manifestVars

-----------------------------------------------------------------------------

(* What the validator lets through is what the executor can keep apart and
   run: among the steps that it will reach, wherever they are nested, no two
   share the id that their rows, outputs and statuses go by, one at most
   replies, and then to a webhook that waits for it, none lies deeper than
   documented, none breaks the contract of its type or has a type that is
   reserved.  Said of manifests that do not use the alias with.steps, whose
   steps no rule looks at (manifest-validator.ts:75-149, 415-487,
   run-executor.ts:1102-1110, 1142). *)
AcceptedCanRun ==
    validateManifest /\ (\A i \in Ids : steps[i].slot # "alias") =>
        /\ \A i, j \in Executed : steps[i].id = steps[j].id => i = j
        /\ \A i, j \in Executed : steps[i].type = "reply" /\ steps[j].type = "reply" => i = j
        /\ (\E i \in Executed : steps[i].type = "reply") =>
              \E t \in triggers : t.type = "webhook" /\ t.flaw = NoFlaw
        /\ \A i \in Executed :
              depth[i] <= MAX_NESTING_DEPTH /\ steps[i].flaw = NoFlaw
              /\ steps[i].type # "parallel"
=============================================================================
