-------------------------------- MODULE Maps --------------------------------
(***************************************************************************)
(* Functions with a finite domain used as maps: a table indexed by a key,  *)
(* a JavaScript object.                                                    *)
(***************************************************************************)
EXTENDS Naturals, FiniteSets

EmptyMap == [x \in {} |-> x]
Extend(f, x, v) == [y \in DOMAIN f \cup {x} |-> IF y = x THEN v ELSE f[y]]
Without(f, x) == [y \in DOMAIN f \ {x} |-> f[y]]
At(f, x, default) == IF x \in DOMAIN f THEN f[x] ELSE default

=============================================================================
