---------------------------- MODULE Expressions ----------------------------
(***************************************************************************)
(* The restricted expression language of the engine                        *)
(* (packages/engine/src/expression-evaluator.ts): the recursive descent    *)
(* parser, the coercions of ==, of the orders and of arithmetic, property  *)
(* paths, the functions over values and lists, and the two interpolations. *)
(* A text is a sequence of symbols that grows by one symbol a step: words  *)
(* (literals, names) are one symbol and stand apart, "{{" and "}}" are one *)
(* symbol, the operators of two characters are glued by the tokenizer.     *)
(*                                                                         *)
(* Left out: the contents of string and number tokens, the text and date   *)
(* functions, and the cap of 10,000 operations, which 500 characters reach *)
(* only through filter() and map() over long lists.                        *)
(*                                                                         *)
(* Recursive operators: this module is only model-checked.                 *)
(***************************************************************************)
EXTENDS Integers, Sequences
LOCAL INSTANCE SequencesExt

CONSTANTS
    Alphabets,      \* sets of symbols, one chosen for a text
    MaxSymbols,     \* bound: symbols of a text
    MaxLength,      \* MAX_EXPRESSION_LENGTH, in symbols
    MaxRecursion,   \* MAX_RECURSION
    Values          \* values compared with each other

VARIABLES
    text,           \* the field being read
    alphabet,       \* the symbols it is made of, none while no field is open
    pair            \* two values an expression meets, or NoPair
exprVars == <<text, alphabet, pair>>

ASSUME ExpressionsAssumption ==
    /\ MaxSymbols \in Nat /\ MaxLength \in Nat /\ MaxRecursion \in Nat

-----------------------------------------------------------------------------
(* Symbols and tokens *)

Num(n) == <<"number", n>>
Str(s) == <<"string", s>>
Bool(b) == <<"boolean", b>>
Arr(s) == <<"array", s>>
Obj(f) == <<"object", f>>
Null == <<"null">>
Undefined == <<"undefined">>
Failed(code) == <<"error", code>>
IsError(v) == v[1] = "error"

Literals == {"0", "1", "true", "null", "''", "'1'", "'a'", "'item'"}
LiteralValue(tok) ==
    CASE tok \in {"0", "1"} -> Num(IF tok = "0" THEN 0 ELSE 1)
      [] tok = "true" -> Bool(TRUE)
      [] tok = "null" -> Null
      [] tok = "''" -> Str(<<>>)
      [] tok = "'1'" -> Str(<<"1">>)
      [] tok = "'a'" -> Str(<<"a">>)
      [] tok = "'item'" -> Str(<<"item">>)

Roots == {"inputs", "item", "index", "loop", "env"}
Functions == {"len", "contains", "default", "coalesce", "filter", "map"}
FORBIDDEN_PROPS == {"constructor"}
Identifiers == Roots \cup Functions \cup FORBIDDEN_PROPS \cup {"a"}
Comparisons == {"==", "!=", "<", "<=", ">", ">="}
Signs == {"+", "-", "*", "/", "%", "<", ">", ".", ",", "[", "]", "(", ")"}
Unreadable == "?"    \* no rule takes it

(* Operators of two characters win over those of one; a lone "=" or "!" is
   unreadable. *)
RECURSIVE tokenize(_)
tokenize(s) ==
    IF s = <<>> THEN <<>>
    ELSE IF Head(s) = " " THEN tokenize(Tail(s))
    ELSE IF Len(s) > 1 /\ s[1] \in {"=", "!", "<", ">"} /\ s[2] = "="
    THEN <<CASE s[1] = "=" -> "==" [] s[1] = "!" -> "!="
             [] s[1] = "<" -> "<=" [] s[1] = ">" -> ">=">> \o tokenize(SubSeq(s, 3, Len(s)))
    ELSE <<IF Head(s) \in Literals \cup Identifiers \cup Signs \cup {"or", "and", "not"}
           THEN Head(s) ELSE Unreadable>> \o tokenize(Tail(s))

-----------------------------------------------------------------------------
(* The parser: a method takes the tokens, a position and the nesting of    *)
(* primaries around it, and returns a tree and the position after it, or   *)
(* position 0 and the reason.                                              *)

Parsed(tree, at) == [tree |-> tree, at |-> at]
Reject(code) == Parsed(Failed(code), 0)
Ok(r) == r.at > 0
peek(ts, at) == IF at \in 1..Len(ts) THEN ts[at] ELSE "end"

(* The methods call each other by name. *)
RECURSIVE Method(_, _, _, _), Chain(_, _, _, _, _), Arguments(_, _, _, _), Accessors(_, _, _, _)

(* while (check(op)) { next(); right = ...; left = node(left, right) } *)
Chain(operand, ops, ts, left, d) ==
    IF ~Ok(left) \/ peek(ts, left.at) \notin ops THEN left
    ELSE LET right == Method(operand, ts, left.at + 1, d)
         IN  Chain(operand, ops, ts,
                   IF Ok(right)
                   THEN Parsed(<<"binary", ts[left.at], left.tree, right.tree>>, right.at)
                   ELSE right, d)

parseOr(ts, at, d) == Chain("and", {"or"}, ts, Method("and", ts, at, d), d)
parseAnd(ts, at, d) == Chain("not", {"and"}, ts, Method("not", ts, at, d), d)
parseAdditive(ts, at, d) ==
    Chain("multiplicative", {"+", "-"}, ts, Method("multiplicative", ts, at, d), d)
parseMultiplicative(ts, at, d) ==
    Chain("unary", {"*", "/", "%"}, ts, Method("unary", ts, at, d), d)

Over(r, kind) == IF Ok(r) THEN Parsed(<<kind, r.tree>>, r.at) ELSE r

(* One comparison, not a chain of them. *)
parseComparison(ts, at, d) ==
    LET left == Method("additive", ts, at, d)
    IN  IF ~Ok(left) \/ peek(ts, left.at) \notin Comparisons THEN left
        ELSE LET right == Method("additive", ts, left.at + 1, d)
             IN  IF Ok(right)
                 THEN Parsed(<<"binary", ts[left.at], left.tree, right.tree>>, right.at)
                 ELSE right

parseNot(ts, at, d) ==
    IF peek(ts, at) = "not" THEN Over(Method("not", ts, at + 1, d), "not")
    ELSE Method("comparison", ts, at, d)

(* Mutation: the minus takes the whole product. *)
parseUnaryLoose(ts, at, d) ==
    IF peek(ts, at) = "-" THEN Over(Method("multiplicative", ts, at + 1, d), "minus")
    ELSE Method("primary", ts, at, d)
parseUnary(ts, at, d) ==
    IF peek(ts, at) = "-" THEN Over(Method("unary", ts, at + 1, d), "minus")
    ELSE Method("primary", ts, at, d)

Consume(r, close, ts) ==
    IF ~Ok(r) \/ peek(ts, r.at) = close THEN [r EXCEPT !.at = IF Ok(r) THEN r.at + 1 ELSE 0]
    ELSE Reject("unparseable_expression")

Arguments(args, ts, at, d) ==
    LET arg == Method("or", ts, at, d)
    IN  IF ~Ok(arg) THEN arg
        ELSE IF peek(ts, arg.at) = ","
        THEN Arguments(Append(args, arg.tree), ts, arg.at + 1, d)
        ELSE Parsed(Append(args, arg.tree), arg.at)

Accessors(path, ts, at, d) ==
    CASE peek(ts, at) = "." ->
           IF peek(ts, at + 1) \notin Identifiers THEN Reject("unparseable_expression")
           ELSE IF ts[at + 1] \in FORBIDDEN_PROPS THEN Reject("forbidden_property_access")
           ELSE Accessors(Append(path, <<"name", ts[at + 1]>>), ts, at + 2, d)
      [] peek(ts, at) = "[" ->
           LET index == Consume(Method("or", ts, at + 1, d), "]", ts)
           IN  IF Ok(index) THEN Accessors(Append(path, <<"index", index.tree>>), ts, index.at, d)
               ELSE index
      [] OTHER -> Parsed(<<"property", path>>, at)

parsePrimary(ts, at, d) ==
    IF d = MaxRecursion THEN Reject("operation_limit_exceeded")
    ELSE CASE peek(ts, at) \in Literals -> Parsed(<<"literal", ts[at]>>, at + 1)
           [] peek(ts, at) = "(" -> Consume(Method("or", ts, at + 1, d + 1), ")", ts)
           [] peek(ts, at) \in Identifiers /\ peek(ts, at + 1) = "(" ->
                LET args == Consume(IF peek(ts, at + 2) = ")" THEN Parsed(<<>>, at + 2)
                                    ELSE Arguments(<<>>, ts, at + 2, d + 1), ")", ts)
                IN  IF Ok(args) THEN Parsed(<<"call", ts[at], args.tree>>, args.at) ELSE args
           [] peek(ts, at) \in Identifiers /\ peek(ts, at + 1) # "(" ->
                Accessors(<<<<"name", ts[at]>>>>, ts, at + 1, d + 1)
           [] OTHER -> Reject("unparseable_expression")

Method(name, ts, at, d) ==
    CASE name = "or" -> parseOr(ts, at, d)
      [] name = "and" -> parseAnd(ts, at, d)
      [] name = "not" -> parseNot(ts, at, d)
      [] name = "comparison" -> parseComparison(ts, at, d)
      [] name = "additive" -> parseAdditive(ts, at, d)
      [] name = "multiplicative" -> parseMultiplicative(ts, at, d)
      [] name = "unary" -> parseUnary(ts, at, d)
      [] name = "primary" -> parsePrimary(ts, at, d)

parse(ts) ==
    LET r == Method("or", ts, 1, 0)
    IN  IF Ok(r) /\ r.at <= Len(ts) THEN Failed("unparseable_expression") ELSE r.tree

parseExpression(s) ==
    IF Len(s) > MaxLength THEN Failed("expression_too_long") ELSE parse(tokenize(s))

-----------------------------------------------------------------------------
(* Values *)

isTruthy(v) ==
    CASE v[1] \in {"null", "undefined"} -> FALSE
      [] v[1] = "boolean" -> v[2]
      [] v[1] = "number" -> v[2] # 0
      [] v[1] \in {"string", "array"} -> v[2] # <<>>
      [] v[1] = "object" -> TRUE

(* parseFloat of the strings of the model; NaN fits no number. *)
NaN == "NaN"
parseFloat(s) == CASE s = <<"0">> -> 0 [] s = <<"1">> -> 1 [] OTHER -> NaN

toNumber(v) ==
    CASE v[1] = "number" -> <<v[2]>>
      [] v[1] = "boolean" -> <<IF v[2] THEN 1 ELSE 0>>
      [] v[1] = "null" -> <<0>>
      [] v[1] = "string" /\ v[2] \in {<<"0">>, <<"1">>} -> <<parseFloat(v[2])>>
      [] OTHER -> <<>>

(* A number and a string, or a boolean and a number, in either order; a
   string never equals a boolean, null only null, undefined nothing. *)
Coerced(l, r) == {l[1], r[1]} \in {{"number", "string"}, {"number", "boolean"}}
RECURSIVE isEqual(_, _)
isEqual(l, r) ==
    CASE l[1] = "array" /\ r[1] = "array" ->
           Len(l[2]) = Len(r[2]) /\ \A i \in DOMAIN l[2] : isEqual(l[2][i], r[2][i])
      [] l[1] = "object" /\ r[1] = "object" ->
           DOMAIN l[2] = DOMAIN r[2] /\ \A k \in DOMAIN l[2] : isEqual(l[2][k], r[2][k])
      [] Coerced(l, r) -> toNumber(l) # <<>> /\ toNumber(l) = toNumber(r)
      [] l[1] = r[1] /\ l[1] \notin {"array", "object", "undefined"} -> l = r
      [] OTHER -> FALSE

numericCompare(op, l, r) ==
    CASE op = "<" -> l < r [] op = "<=" -> l <= r [] op = ">" -> l > r [] op = ">=" -> l >= r

(* The strings of the model in the order of their code units. *)
Rank(s) == CASE s = <<>> -> 0 [] s = <<"0">> -> 1 [] s = <<"1">> -> 2 [] OTHER -> 3

compareValues(op, l, r) ==
    IF l[1] = "string" /\ r[1] = "string" THEN Bool(numericCompare(op, Rank(l[2]), Rank(r[2])))
    ELSE IF toNumber(l) # <<>> /\ toNumber(r) # <<>>
    THEN Bool(numericCompare(op, toNumber(l)[1], toNumber(r)[1]))
    ELSE Failed("type_mismatch")

Size(n) == IF n < 0 THEN 0 - n ELSE n

(* Integers: fractions are cut off. *)
arithOp(op, l, r) ==
    IF op = "+" /\ l[1] = "string" /\ r[1] = "string" THEN Str(l[2] \o r[2])
    ELSE IF \/ op = "+" /\ {l[1], r[1]} = {"string", "number"}
            \/ toNumber(l) = <<>> \/ toNumber(r) = <<>>
            \/ op \in {"/", "%"} /\ toNumber(r) = <<0>>
    THEN Failed("type_mismatch")
    ELSE LET x == toNumber(l)[1]
             y == toNumber(r)[1]
         IN  CASE op = "+" -> Num(x + y) [] op = "-" -> Num(x - y) [] op = "*" -> Num(x * y)
               [] op = "/" -> Num(IF (x < 0) = (y < 0) THEN (Size(x) \div Size(y))
                                  ELSE 0 - (Size(x) \div Size(y)))
               [] op = "%" -> Num(IF x < 0 THEN 0 - (Size(x) % Size(y)) ELSE x % Size(y))

getProperty(v, key) ==
    IF key[1] = "string" /\ key[2] # <<>> /\ key[2][1] \in FORBIDDEN_PROPS
       /\ v[1] \notin {"null", "undefined"}
    THEN Failed("forbidden_property_access")
    ELSE IF v[1] = "array" /\ toNumber(key) # <<>> /\ key[1] \in {"number", "string"}
            /\ toNumber(key)[1] + 1 \in DOMAIN v[2]
    THEN v[2][toNumber(key)[1] + 1]
    ELSE IF v[1] = "object" /\ key[1] = "string" /\ Len(key[2]) = 1
            /\ key[2][1] \in DOMAIN v[2]
    THEN v[2][key[2][1]]
    ELSE Null

Defined(v) == v \notin {Null, Undefined}
Root(name, ctx) ==
    CASE name \in DOMAIN ctx /\ (name = "inputs" => Defined(ctx[name])) -> ctx[name]
      [] name = "inputs" /\ (name \in DOMAIN ctx => ~Defined(ctx[name])) -> Obj(<<>>)
      [] name \notin DOMAIN ctx /\ name \in {"item", "index"} -> Undefined
      [] name \notin DOMAIN ctx /\ name \in {"loop", "env"} -> Null
      [] OTHER -> Failed("unknown_variable")

-----------------------------------------------------------------------------
(* Evaluation *)

RECURSIVE evaluate(_, _), Walk(_, _, _), callFunction(_, _, _)

FirstError(vs) == LET bad == SelectSeq(vs, IsError) IN IF bad = <<>> THEN Null ELSE bad[1]

(* The keys of a path are taken one after the other; a key that fails ends
   the walk. *)
Walk(v, keys, ctx) ==
    IF keys = <<>> \/ IsError(v) THEN v
    ELSE LET key == IF keys[1][1] = "name" THEN Str(<<keys[1][2]>>)
                    ELSE evaluate(keys[1][2], ctx)
         IN  Walk(IF IsError(key) THEN key ELSE getProperty(v, key), Tail(keys), ctx)

(* env has one readable variable, which the model leaves unset. *)
resolveProperty(path, ctx) ==
    IF path[1][2] = "env" /\ Len(path) > 1 THEN Failed("unknown_env_variable")
    ELSE IF path[1][2] = "loop" /\ "loop" \notin DOMAIN ctx THEN Null
    ELSE Walk(Root(path[1][2], ctx), Tail(path), ctx)

InnerContext(ctx, list, i) ==
    [n \in {"inputs", "item", "index"} \cap (DOMAIN ctx \cup {"item", "index"}) |->
        CASE n = "item" -> list[i] [] n = "index" -> Num(i - 1) [] OTHER -> ctx[n]]

Collected(name, list, vs) ==
    IF IsError(FirstError(vs)) THEN FirstError(vs)
    ELSE IF name = "map" THEN Arr(vs)
    ELSE Arr(LET kept == SelectSeq([i \in DOMAIN vs |-> i], LAMBDA i : isTruthy(vs[i]))
             IN  [j \in DOMAIN kept |-> list[kept[j]]])

OverItems(name, list, tree, ctx) ==
    IF IsError(tree) THEN tree
    ELSE Collected(name, list, [i \in DOMAIN list |-> evaluate(tree, InnerContext(ctx, list, i))])

(* The second argument of filter and map is the text of an expression. *)
listCall(name, args, ctx) ==
    CASE Len(args) # 2 -> Failed("type_mismatch")
      [] Len(args) = 2 /\ args[1] = Null -> Arr(<<>>)
      [] Len(args) = 2 /\ args[1] # Null ->
           IF args[1][1] # "array" \/ args[2][1] # "string" THEN Failed("type_mismatch")
           ELSE OverItems(name, args[1][2], parseExpression(args[2][2]), ctx)

stringifyValue(v) ==
    CASE v[1] \in {"null", "undefined"} -> <<>>
      [] v[1] = "boolean" -> <<IF v[2] THEN "true" ELSE "false">>
      [] v[1] = "number" -> <<IF v[2] = 0 THEN "0" ELSE IF v[2] = 1 THEN "1" ELSE "number">>
      [] v[1] = "string" -> v[2]
      [] OTHER -> <<"json">>

StringOf(v) == IF Defined(v) THEN stringifyValue(v) ELSE <<v[1]>>    \* String(v)

lenOf(v) ==
    CASE v[1] \in {"string", "array"} -> Num(Len(v[2]))
      [] v[1] = "null" -> Num(0)
      [] OTHER -> Failed("type_mismatch")
contains(v, needle) ==
    Bool(CASE v[1] = "array" -> \E i \in DOMAIN v[2] : isEqual(v[2][i], needle)
           [] v[1] = "string" ->
                \E i \in 0..Len(v[2]) : i + Len(StringOf(needle)) <= Len(v[2])
                     /\ SubSeq(v[2], i + 1, i + Len(StringOf(needle))) = StringOf(needle)
           [] v[1] = "object" -> \E k \in DOMAIN v[2] : StringOf(needle) = <<k>>
           [] OTHER -> FALSE)
coalesce(args) == IF SelectSeq(args, Defined) = <<>> THEN Null ELSE SelectSeq(args, Defined)[1]

callFunction(name, args, ctx) ==
    CASE name = "len" /\ Len(args) = 1 -> lenOf(args[1])
      [] name = "contains" /\ Len(args) = 2 -> contains(args[1], args[2])
      [] name = "default" /\ Len(args) = 2 -> IF Defined(args[1]) THEN args[1] ELSE args[2]
      [] name = "coalesce" /\ Len(args) > 1 -> coalesce(args)
      [] name \in {"filter", "map"} -> listCall(name, args, ctx)
      [] OTHER -> Failed(IF name \in Functions THEN "type_mismatch" ELSE "unknown_variable")

Operate(op, l, r) ==
    CASE op = "==" -> Bool(isEqual(l, r))
      [] op = "!=" -> Bool(~isEqual(l, r))
      [] op \in Comparisons \ {"==", "!="} -> compareValues(op, l, r)
      [] OTHER -> arithOp(op, l, r)

evaluate(tree, ctx) ==
    CASE IsError(tree) -> tree
      [] tree[1] = "literal" -> LiteralValue(tree[2])
      [] tree[1] = "value" -> tree[2]
      [] tree[1] = "property" -> resolveProperty(tree[2], ctx)
      [] tree[1] = "call" ->
           LET args == [i \in DOMAIN tree[3] |-> evaluate(tree[3][i], ctx)]
           IN  IF IsError(FirstError(args)) THEN FirstError(args)
               ELSE callFunction(tree[2], args, ctx)
      [] tree[1] \in {"not", "minus"} ->
           LET v == evaluate(tree[2], ctx)
           IN  IF IsError(v) THEN v
               ELSE IF tree[1] = "not" THEN Bool(~isTruthy(v))
               ELSE arithOp("-", Num(0), v)
      [] tree[1] = "binary" ->
           LET l == evaluate(tree[3], ctx)
               r == evaluate(tree[4], ctx)
           IN  IF IsError(l) THEN l
               ELSE IF tree[2] \in {"or", "and"} /\ isTruthy(l) = (tree[2] = "or")
               THEN Bool(isTruthy(l))
               ELSE IF IsError(r) THEN r
               ELSE IF tree[2] \in {"or", "and"} THEN Bool(isTruthy(r))
               ELSE Operate(tree[2], l, r)

evaluateExpression(s, ctx) == evaluate(parseExpression(s), ctx)

-----------------------------------------------------------------------------
(* Interpolation *)

CloseOf(s) == SelectInSeq(s, LAMBDA c : c = "}}")

RECURSIVE Interpolated(_, _, _)
Spliced(v, out, rest, ctx) ==
    IF IsError(v) THEN v ELSE Interpolated(out \o stringifyValue(v), rest, ctx)
Interpolated(out, s, ctx) ==
    IF s = <<>> THEN Str(out)
    ELSE IF Len(s) > 1 /\ s[1] = "\\" /\ s[2] = "{{"
    THEN Interpolated(Append(out, "{{"), SubSeq(s, 3, Len(s)), ctx)
    ELSE IF s[1] = "{{"
    THEN IF CloseOf(s) = 0 THEN Failed("unparseable_expression")
         ELSE Spliced(evaluateExpression(SubSeq(s, 2, CloseOf(s) - 1), ctx), out,
                      SubSeq(s, CloseOf(s) + 1, Len(s)), ctx)
    ELSE Interpolated(Append(out, s[1]), Tail(s), ctx)
resolveInterpolation(s, ctx) == Interpolated(<<>>, s, ctx)

OneBlock(s) ==
    /\ Len(s) > 1 /\ s[1] = "{{" /\ s[Len(s)] = "}}"
    /\ \A i \in 2..(Len(s) - 1) : s[i] \notin {"{{", "}}"}

resolvePureInterpolation(s, ctx) ==
    IF OneBlock(s) THEN evaluateExpression(SubSeq(s, 2, Len(s) - 1), ctx)
    ELSE resolveInterpolation(s, ctx)

-----------------------------------------------------------------------------
(* The texts and the values that are looked at *)

NoPair == <<>>
ExprInit ==
    /\ text = <<>>
    /\ alphabet = {}
    /\ pair = NoPair

Blank == alphabet = {} /\ pair = NoPair
Open == Blank /\ alphabet' \in Alphabets /\ UNCHANGED <<text, pair>>
Compare == Blank /\ pair' \in Values \X Values /\ UNCHANGED <<text, alphabet>>
Write == \E c \in alphabet :
    /\ Len(text) < MaxSymbols
    /\ text' = Append(text, c)
    /\ UNCHANGED <<alphabet, pair>>

ExprNext == Open \/ Compare \/ Write
ExprSpec == ExprInit /\ [][ExprNext]_exprVars

-----------------------------------------------------------------------------
(* The grammar in the header of the source (with "-" before any unary), as  *)
(* the set of trees that each rule derives for a sequence of tokens.        *)

Splits(ts, ops) == {k \in 2..(Len(ts) - 1) : ts[k] \in ops}
UpTo(ts, k) == SubSeq(ts, 1, k - 1)
After(ts, k) == SubSeq(ts, k + 1, Len(ts))

RECURSIVE Trees(_, _), Paths(_), Lists(_)

LeftToRight(rule, below, ops, ts) ==
    Trees(below, ts) \cup
    UNION {{<<"binary", ts[k], l, r>> : l \in Trees(rule, UpTo(ts, k)),
                                        r \in Trees(below, After(ts, k))} : k \in Splits(ts, ops)}

Lists(ts) ==
    {<<t>> : t \in Trees("or", ts)} \cup
    UNION {{<<t>> \o more : t \in Trees("or", UpTo(ts, k)), more \in Lists(After(ts, k))} :
              k \in Splits(ts, {","})}

Paths(ts) ==
    CASE Len(ts) = 1 -> IF ts[1] \in Identifiers THEN {<<<<"name", ts[1]>>>>} ELSE {}
      [] Len(ts) > 2 /\ ts[Len(ts) - 1] = "." /\ ts[Len(ts)] \in Identifiers \ FORBIDDEN_PROPS ->
           {Append(p, <<"name", ts[Len(ts)]>>) : p \in Paths(UpTo(ts, Len(ts) - 1))}
      [] Len(ts) > 3 /\ ts[Len(ts)] = "]" ->
           UNION {{Append(p, <<"index", t>>) : p \in Paths(UpTo(ts, k)),
                                               t \in Trees("or", SubSeq(ts, k + 1, Len(ts) - 1))} :
                     k \in Splits(ts, {"["})}
      [] OTHER -> {}

Trees(rule, ts) ==
    IF ts = <<>> THEN {}
    ELSE CASE rule = "or" -> LeftToRight("or", "and", {"or"}, ts)
           [] rule = "and" -> LeftToRight("and", "not", {"and"}, ts)
           [] rule = "not" ->
                Trees("comparison", ts) \cup
                (IF ts[1] = "not" THEN {<<"not", t>> : t \in Trees("not", Tail(ts))} ELSE {})
           [] rule = "comparison" -> LeftToRight("additive", "additive", Comparisons, ts)
           [] rule = "additive" ->
                LeftToRight("additive", "multiplicative", {"+", "-"}, ts)
           [] rule = "multiplicative" ->
                LeftToRight("multiplicative", "unary", {"*", "/", "%"}, ts)
           [] rule = "unary" ->
                Trees("primary", ts) \cup
                (IF ts[1] = "-" THEN {<<"minus", t>> : t \in Trees("unary", Tail(ts))} ELSE {})
           [] rule = "primary" ->
                LET last == Len(ts)
                IN  (IF last = 1 /\ ts[1] \in Literals THEN {<<"literal", ts[1]>>} ELSE {})
                    \cup {<<"property", p>> : p \in Paths(ts)}
                    \cup (IF ts[1] = "(" /\ ts[last] = ")" THEN Trees("or", SubSeq(ts, 2, last - 1))
                          ELSE {})
                    \cup (IF last > 2 /\ ts[1] \in Identifiers /\ ts[2] = "(" /\ ts[last] = ")"
                          THEN {<<"call", ts[1], args>> :
                                  args \in IF last = 3 THEN {<<>>} ELSE Lists(SubSeq(ts, 3, last - 1))}
                          ELSE {})

(* How many brackets are open before the token at i. *)
Nesting(ts, i) ==
    Len(SelectSeq(SubSeq(ts, 1, i - 1), LAMBDA c : c \in {"(", "["}))
    - Len(SelectSeq(SubSeq(ts, 1, i - 1), LAMBDA c : c \in {")", "]"}))
StartsPrimary(ts, i) ==
    \/ ts[i] \in Literals
    \/ ts[i] \in Identifiers /\ (i = 1 \/ ts[i - 1] # ".")
    \/ ts[i] = "(" /\ (i = 1 \/ ts[i - 1] \notin Identifiers)
Shallow(ts) == \A i \in DOMAIN ts : StartsPrimary(ts, i) => Nesting(ts, i) < MaxRecursion

Expected(s) ==
    IF Len(s) <= MaxLength /\ Shallow(tokenize(s)) THEN Trees("or", tokenize(s)) ELSE {}

-----------------------------------------------------------------------------
(* Properties *)

SomeContext == [inputs |-> Obj([a |-> Num(1)])]

OnlyTree(trees, tree) == trees = IF IsError(tree) THEN {} ELSE {tree}
SameText(pure, mixed) ==
    IF IsError(pure) THEN IsError(mixed) ELSE mixed = Str(stringifyValue(pure))

(* The parser accepts exactly the texts of the documented grammar, within the
   length and nesting limits, and gives each the one tree the grammar gives
   it, so that precedence and association are what an author reads; and a
   field that is one {{ }} block has the value whose text the same field has
   inside a longer string, errors included
   (expression-evaluator.ts:3-13, 1009-1025). *)
ReadAsWritten ==
    alphabet # {} =>
    /\ OnlyTree(Expected(text), parseExpression(text))
    /\ SameText(resolvePureInterpolation(text, SomeContext), resolveInterpolation(text, SomeContext))

(* The three conversions of one language agree on every two values: == is
   symmetric, < is > read from the other side, equal values that can be
   ordered are ordered both ways, and contains() finds what filter() with ==
   keeps (expression-evaluator.ts:450-552, 726-733, 831-854). *)
CoercionsAgree ==
    LET l == pair[1]
        r == pair[2]
        Value(op, x, y) == evaluate(<<"binary", op, <<"value", x>>, <<"value", y>>>>, <<>>)
        Kept == evaluate(<<"call", "filter", <<<<"value", l>>,
                             <<"value", Str(<<"item", "=", "=", "inputs">>)>>>>>>, [inputs |-> r])
    IN  pair # NoPair =>
        /\ Value("==", l, r) = Value("==", r, l)
        /\ Value("<", l, r) = Value(">", r, l) /\ Value("<=", l, r) = Value(">=", r, l)
        /\ Value("==", l, r) = Bool(TRUE) =>
              Value("<=", l, r) = Value("<=", r, l) /\ Value("<=", l, r) # Bool(FALSE)
        /\ l[1] = "array" /\ Defined(r) =>
              contains(l, r) = Bool(Kept # Arr(<<>>))

(* Texts and values mean what they say. *)
MeansWhatItSays == ReadAsWritten /\ CoercionsAgree

=============================================================================
