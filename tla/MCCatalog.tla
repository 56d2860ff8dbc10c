----------------------------- MODULE MCCatalog ------------------------------
(***************************************************************************)
(* Instances of Catalog for TLC.                                           *)
(***************************************************************************)
EXTENDS Catalog

(* A webhook on the workflow's own path, that names a credential; and one on  *)
(* a path of its own, which is also what slugify makes of a second "a".       *)
Webhook(path) == [type |-> "webhook", path |-> path]
TwoDrafts ==
  {[triggers |-> <<Webhook(NoPath)>>, names |-> {"c"}],
   [triggers |-> <<Webhook(<<"a", 2>>)>>, names |-> {}]}

(* A client asks for the path that the second draft declares. *)
SecondPath == {<<"a", 2>>}

(* A PUT saves a draft, disables the workflow, or takes its name anew. *)
Saves == [m : Drafts, name : {Keep}, on : {Keep}]
Disables == [m |-> Keep, name |-> Keep, on |-> FALSE]
SavesAndDisables == Saves \cup {Disables}
FewPuts == Saves \cup {Disables, [m |-> Keep, name |-> "a", on |-> TRUE]}

=============================================================================
