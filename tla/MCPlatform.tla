----------------------------- MODULE MCPlatform -----------------------------
(***************************************************************************)
(* The components around the run lifecycle, in one instance for TLC.  They  *)
(* share no variable: one behaviour of the platform is one behaviour of     *)
(* each, interleaved, and a property of one component holds of their        *)
(* product exactly when it holds of the component.  So a behaviour here     *)
(* looks at one of them, its focus, and the others stand still: TLC then    *)
(* explores the sum of their state spaces and not the product.  Signing in  *)
(* is two foci, as passwords and OpenID do not share a row either.          *)
(***************************************************************************)
EXTENDS AuditChain, LocalRun, HttpStep, Intake, MCMetering, Tenancy, MCCatalog,
        SignIn, Expressions, Cron, Manifest, MCStartup, Pages, CliSync, LiveFeed,
        FeatureGate

CONSTANTS t1, t2, q1, q2, payer, closer

VARIABLE focus

----------------------------------------------------------------------------
(* The instances *)

E(onError) == [Leaf EXCEPT !.onError = onError]

(* A condition asks for the status of a step that may fail and go on; one     *)
(* branch waits, the other acts.                                             *)
Asks ==
  [top |-> <<"try", "ask", "last">>,
   step |-> [try |-> E("continue"),
             ask |-> [Leaf EXCEPT !.kind = "condition", !.on = "try",
                                  !.then = <<"hold2", "act">>, !.else = <<"hold", "act2">>],
             act |-> E("abort"), act2 |-> E("abort"),
             hold |-> [Leaf EXCEPT !.kind = "delay"], hold2 |-> [Leaf EXCEPT !.kind = "delay"],
             last |-> [E("abort") EXCEPT !.if = "act2"]]]

(* A for_each that parks in each iteration, between two effects. *)
Rounds ==
  [top |-> <<"each", "last">>,
   step |-> [each |-> [Leaf EXCEPT !.kind = "for_each", !.items = 2, !.onError = "continue",
                                   !.then = <<"try", "gate", "act">>],
             try |-> E("continue"),
             gate |-> [Leaf EXCEPT !.kind = "approval", !.onError = "continue", !.onTimeout = "abort"],
             act |-> E("abort"),
             last |-> E("abort")]]

(* A loop in a branch, with conditions that cannot be evaluated. *)
Nests ==
  [top |-> <<"pick", "pick2", "last">>,
   step |-> [pick |-> [Leaf EXCEPT !.kind = "condition", !.then = <<"each", "act2">>, !.onError = "continue"],
             each |-> [Leaf EXCEPT !.kind = "for_each", !.items = 2, !.then = <<"try", "act">>],
             try |-> E("continue"),
             act |-> [E("continue") EXCEPT !.if = "try"],
             act2 |-> [E("abort") EXCEPT !.if = "last"],
             pick2 |-> [Leaf EXCEPT !.kind = "condition", !.on = "bad", !.onError = "continue"],
             each0 |-> [Leaf EXCEPT !.kind = "for_each"],
             gate |-> [Leaf EXCEPT !.kind = "approval", !.onTimeout = "skip"],
             last |-> [E("abort") EXCEPT !.if = "bad"]]]

(* A step that is skipped, gates one after the other, an empty branch, an      *)
(* empty loop, a loop over something that is no list.                        *)
Gates ==
  [top |-> <<"act", "each0", "gate", "pick", "hold", "try", "noList">>,
   step |-> [act |-> [E("abort") EXCEPT !.if = "never"],
             each0 |-> [Leaf EXCEPT !.kind = "for_each"],
             gate |-> [Leaf EXCEPT !.kind = "approval"],
             pick |-> [Leaf EXCEPT !.kind = "condition", !.on = "never", !.then = <<"act2">>],
             act2 |-> E("abort"),
             hold |-> [Leaf EXCEPT !.kind = "delay", !.if = "gate"],
             try |-> E("continue"),
             noList |-> [Leaf EXCEPT !.kind = "for_each", !.on = "bad", !.onError = "continue"]]]

(* A loop in a branch, without a gate: what the local runner can repeat. *)
Plain ==
  [top |-> <<"pick", "last">>,
   step |-> [pick |-> [Leaf EXCEPT !.kind = "condition", !.then = <<"each">>, !.onError = "continue"],
             each |-> [Leaf EXCEPT !.kind = "for_each", !.items = 2, !.then = <<"try", "act">>],
             try |-> E("continue"),
             act |-> E("abort"),
             last |-> [E("continue") EXCEPT !.if = "act"]]]

(* A loop that fails, goes on and is executed again: what asks for the status   *)
(* of a step in it may turn away from where it was parked.                    *)
Turns ==
  [top |-> <<"each", "pick">>,
   step |-> [each |-> [Leaf EXCEPT !.kind = "for_each", !.items = 2, !.onError = "continue",
                                   !.then = <<"try", "act">>],
             try |-> E("continue"), act |-> E("abort"),
             pick |-> [Leaf EXCEPT !.kind = "condition", !.if = "try", !.then = <<"hold">>],
             hold |-> [Leaf EXCEPT !.kind = "delay"]]]

(* An answer that changes from a gate to nothing, with another gate behind.    *)
Drops ==
  [top |-> <<"try", "ask", "gate2">>,
   step |-> [try |-> E("continue"),
             ask |-> [Leaf EXCEPT !.kind = "condition", !.on = "try", !.else = <<"gate">>],
             gate |-> [Leaf EXCEPT !.kind = "approval", !.onTimeout = "abort"],
             gate2 |-> [Leaf EXCEPT !.kind = "approval"]]]
SmallManifests == {Asks, Rounds, Nests, Gates, Plain, Turns, Drops}

(* Who takes part: two tickers, a ticker and the closing job, a ticker and a     *)
(* request, two requests and the owner who changes the plan.                 *)
IntakeCasts == {{t1, t2}, {t1, closer}, {t1, q1}, {q1, q2, payer}}

(* Alphabets that meet every precedence level, path and call, in a pure and in *)
(* a mixed template.                                                         *)
ReadAlphabets ==
  {{"1", "+", "*", "-", "not"}, {"1", "<", "=", "or", "not"}, {"a", ".", "[", "]", "0"},
   {"len", "(", ")", ",", "a"}, {"{{", "}}", "\\", "1", "null"}}

(* The scalars, and containers of up to one of them. *)
Scalars ==
  {Null, Undefined, Bool(TRUE), Bool(FALSE), Num(0), Num(1), Str(<<>>), Str(<<"1">>), Str(<<"a">>)}
SomeValues ==
  Scalars \cup {Arr(<<>>), Obj(<<>>), Obj([a |-> Num(1)])} \cup {Arr(<<v>>) : v \in Scalars}

(* A year of five days: every expression of a few pieces a field, with the   *)
(* last day of the long month, both day fields, an impossible date, a value  *)
(* out of range, and Sunday by either number.  Out of focus, Sunday by the   *)
(* number that is not looked at.                                             *)
Months == <<3, 2>>
FewSchedules ==
    {<<min, hour, dom, month, dow>> :
        min \in {{Star}, {Value(1)}}, hour \in {{FromTo(0, 1)}, {Value(0)}},
        dom \in {{Star}, {Value(3)}, {Value(1), Value(3)}, {EveryNth(2)}},
        month \in {{Star}, {Value(2)}},
        dow \in {{Star}, {Value(0)}, {Value(3)}, {FromTo(1, 2)}, {Value(4)}, {Junk}}}
AtRest == <<{Star}, {FromTo(0, 1)}, {Star}, {Star}, {Value(3)}>>

(* A required input that nothing, a webhook, or one of two triggers supplies. *)
Trigger(type, maps) == [type |-> type, flaw |-> NoFlaw, maps |-> maps]
SomeTriggers ==
  {{Trigger("webhook", {"n"})}, {Trigger("schedule", {})},
   {Trigger("schedule", {}), Trigger("webhook", {"n"})}}
SomeInputs == {{[name |-> "n", required |-> TRUE, default |-> FALSE]}}

(* sanitizeSlug collapses the second dash, slugify keeps it. *)
DoubleDash == [n \in Names |-> IF n = "a--b" THEN "a-b" ELSE n]

(* The second release takes the feature from the pro plan. *)
FeatureDropped == [r \in Releases |-> [p \in Plans |-> p = "pro" /\ r = 1]]

----------------------------------------------------------------------------
(* The platform *)

Foci ==
  {"audit", "walk", "http", "intake", "metering", "tenancy",
   "catalog", "password", "oidc", "expressions", "cron", "manifest",
   "startup", "pages", "cli", "feed", "gate"}

(* Out of focus, a component starts in one of its initial states. *)
PlatformInit ==
  /\ focus \in Foci
  /\ CronInit /\ (focus # "cron" => cron = AtRest)
  /\ Init
  /\ WalkInit /\ (focus # "walk" => manifest = Plain)
  /\ HttpInit
  /\ IntakeInit /\ (focus # "intake" => cast = {t1, t2})
  /\ MeteringInit /\ (focus # "metering" => DOMAIN job = {"purge"} /\ sub.plan = "pro")
  /\ TenancyInit
  /\ CatalogInit
  /\ SignInInit
  /\ ExprInit
  /\ ManifestInit /\ (focus # "manifest" => triggers = {Trigger("schedule", {})})
  /\ StartupInit
  /\ PagesInit /\ (focus # "pages" => page = Loaded("") /\ \A r \in Runs : srv.status[r] = "none")
  /\ CliInit
  /\ FeedInit
  /\ GateInit /\ (focus # "gate" => wsPlan = "pro" /\ redis /\ age[1] = 0)

(* All but the component in focus stand still. *)
Still(x, vs) == focus # x => UNCHANGED vs
OnlyFocus ==
  /\ UNCHANGED focus
  /\ Still("audit", vars)
  /\ Still("walk", walkVars)
  /\ Still("http", httpVars)
  /\ Still("intake", intakeVars)
  /\ Still("metering", meteringVars)
  /\ Still("tenancy", tenancyVars)
  /\ Still("catalog", catalogVars)
  /\ Still("password", passwordVars)
  /\ Still("oidc", oidcVars)
  /\ Still("expressions", exprVars)
  /\ Still("cron", cronVars)
  /\ Still("manifest", manifestVars)
  /\ Still("startup", startupVars)
  /\ Still("pages", pagesVars)
  /\ Still("cli", cliVars)
  /\ Still("feed", feedVars)
  /\ Still("gate", gateVars)

PlatformNext ==
  \/ focus = "audit" /\ OnlyFocus /\ Next
  \/ focus = "walk" /\ OnlyFocus /\ WalkNext
  \/ focus = "http" /\ OnlyFocus /\ HttpNext
  \/ focus = "intake" /\ OnlyFocus /\ IntakeNext
  \/ focus = "metering" /\ OnlyFocus /\ MeteringNext
  \/ focus = "tenancy" /\ OnlyFocus /\ TenancyNext
  \/ focus = "catalog" /\ OnlyFocus /\ CatalogNext
  \/ focus = "password" /\ OnlyFocus /\ PasswordNext
  \/ focus = "oidc" /\ OnlyFocus /\ OidcNext
  \/ focus = "expressions" /\ OnlyFocus /\ ExprNext
  \/ focus = "cron" /\ OnlyFocus /\ CronNext
  \/ focus = "manifest" /\ OnlyFocus /\ ManifestNext
  \/ focus = "startup" /\ OnlyFocus /\ StartupNext
  \/ focus = "pages" /\ OnlyFocus /\ PagesNext
  \/ focus = "cli" /\ OnlyFocus /\ CliNext
  \/ focus = "feed" /\ OnlyFocus /\ FeedNext
  \/ focus = "gate" /\ OnlyFocus /\ GateNext

platformVars ==
  <<focus, vars, walkVars, httpVars, intakeVars, meteringVars, tenancyVars, catalogVars,
    signInVars, exprVars, cronVars, manifestVars, startupVars,
    pagesVars, cliVars, feedVars, gateVars>>


(* What tells two states apart, and what TLC compares: those out of focus are    *)
(* as they were.                                                             *)
Seen ==
  <<focus,
    CASE focus = "audit" -> <<vars>> [] focus = "walk" -> <<walkVars>> [] focus = "http" -> <<httpVars>>
      [] focus = "intake" -> <<intakeVars>> [] focus = "metering" -> <<meteringVars>>
      [] focus = "tenancy" -> <<tenancyVars>> [] focus = "catalog" -> <<catalogVars>>
      [] focus = "password" -> <<passwordVars>> [] focus = "oidc" -> <<oidcVars>>
      [] focus = "expressions" -> <<exprVars>> [] focus = "cron" -> <<cronVars>>
      [] focus = "manifest" -> <<manifestVars>> [] focus = "startup" -> <<startupVars>>
      [] focus = "pages" -> <<pagesVars>> [] focus = "cli" -> <<cliVars>>
      [] focus = "feed" -> <<feedVars>> [] focus = "gate" -> <<gateVars>> >>

PlatformSpec == PlatformInit /\ [][PlatformNext]_platformVars

=============================================================================
