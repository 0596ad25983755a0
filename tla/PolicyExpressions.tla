---------------------------- MODULE PolicyExpressions ----------------------------
(***************************************************************************)
(* The invariant expressions of a policy (policy/expressions): the lexer,  *)
(* the recursive-descent parser and the tree-walking evaluator, and the    *)
(* check a policy compiles each expression into (policy/compiler.rs).      *)
(*                                                                         *)
(* The input is a sequence of lexemes separated by white space; a lexeme   *)
(* is a word or symbol, a quoted text or a number.  A syntax tree node and *)
(* a token are records of one shape, so that any two can be compared.      *)
(***************************************************************************)
EXTENDS Integers, Sequences, FiniteSets

CONSTANT NumMax  \* the largest magnitude an f64 holds: beyond it a sum is not finite

ASSUME NumMaxAssumption == NumMax \in Nat

---------------------------------------------------------------------------
(* Lexer. *)

Word(w) == [q |-> "word", w |-> w, n |-> 0]
Quoted(w) == [q |-> "quoted", w |-> w, n |-> 0]
Number(n) == [q |-> "number", w |-> "", n |-> n]

Symbols == {"(", ")", "[", "]", ",", ":", "+", "-", "==", "!=", "<", "<=", ">", ">="}

\* Words and symbols that have two spellings, and the token both stand for.
Keyword == [w \in {"and", "&&", "or", "||", "not", "!", "in", "true", "false"} |->
              CASE w \in {"and", "&&"} -> "and"
                [] w \in {"or", "||"}  -> "or"
                [] w \in {"not", "!"}  -> "not"
                [] OTHER               -> w]

\* A lone '=', '&' or '|' starts no lexeme of the grammar.
UnexpectedChar == {"=", "&", "|"}

Token(l) ==
  CASE l.q = "quoted" -> [t |-> "str", v |-> l.w, n |-> 0]
    [] l.q = "number" -> [t |-> "num", v |-> "", n |-> l.n]
    [] OTHER -> IF l.w \in Symbols THEN [t |-> l.w, v |-> "", n |-> 0]
                ELSE IF l.w \in DOMAIN Keyword THEN [t |-> Keyword[l.w], v |-> "", n |-> 0]
                ELSE [t |-> "ident", v |-> l.w, n |-> 0]

LexOk(ls) == \A i \in DOMAIN ls : ~(ls[i].q = "word" /\ ls[i].w \in UnexpectedChar)

Lex(ls) == [i \in DOMAIN ls |-> Token(ls[i])] \o <<[t |-> "eof", v |-> "", n |-> 0]>>

---------------------------------------------------------------------------
(* Parser.  A result is a tree and the index of the next token, or Fail.   *)

Node(op, v, n, args) == [op |-> op, v |-> v, n |-> n, args |-> args]
Leaf(op, v) == Node(op, v, 0, <<>>)
Apply(op, args) == Node(op, "", 0, args)

Ok(e, i) == [ok |-> TRUE, e |-> e, i |-> i]
Fail == [ok |-> FALSE, e |-> Leaf("none", ""), i |-> 0]

CmpOps == {"==", "!=", "<", "<=", ">", ">="}
ChainOps == [k \in {"or", "and", "add"} |-> IF k = "add" THEN {"+", "-"} ELSE {k}]

RECURSIVE ParseExpr(_, _), ParseAnd(_, _), ParseNot(_, _), ParseUnary(_, _),
          Chain(_, _, _), Items(_, _, _), CallArgs(_, _, _)

Then(r, F(_)) == IF r.ok THEN F(r) ELSE Fail
Expect(ts, want, r, e) == IF ts[r.i].t = want THEN Ok(e, r.i + 1) ELSE Fail

\* The loops of parse_or, parse_and and parse_add: operators of one level
\* group to the left.
Operand(k, ts, i) ==
  CASE k = "or" -> ParseAnd(ts, i) [] k = "and" -> ParseNot(ts, i) [] k = "add" -> ParseUnary(ts, i)

Chain(k, ts, left) ==
  IF left.ok /\ ts[left.i].t \in ChainOps[k]
  THEN Then(Operand(k, ts, left.i + 1),
            LAMBDA right : Chain(k, ts, Ok(Apply(ts[left.i].t, <<left.e, right.e>>), right.i)))
  ELSE left

ParseExpr(ts, i) == Chain("or", ts, ParseAnd(ts, i))
ParseAnd(ts, i) == Chain("and", ts, ParseNot(ts, i))
ParseAdd(ts, i) == Chain("add", ts, ParseUnary(ts, i))

\* Bug: a comparison takes the whole of a following conjunction as its operand.
ParseCmpBug(ts, i) ==
  Then(ParseAdd(ts, i), LAMBDA l :
    CASE ts[l.i].t \in CmpOps ->
           Then(ParseAnd(ts, l.i + 1), LAMBDA r : Ok(Apply(ts[l.i].t, <<l.e, r.e>>), r.i))
      [] ts[l.i].t = "in" ->
           Then(ParseAdd(ts, l.i + 1),
                LAMBDA r : IF r.e.op = "list" THEN Ok(Apply("in", <<l.e, r.e>>), r.i) ELSE Fail)
      [] OTHER -> l)

\* One comparison at most, and a list on the right of `in`.
ParseCmp(ts, i) ==
  Then(ParseAdd(ts, i), LAMBDA l :
    CASE ts[l.i].t \in CmpOps ->
           Then(ParseAdd(ts, l.i + 1), LAMBDA r : Ok(Apply(ts[l.i].t, <<l.e, r.e>>), r.i))
      [] ts[l.i].t = "in" ->
           Then(ParseAdd(ts, l.i + 1),
                LAMBDA r : IF r.e.op = "list" THEN Ok(Apply("in", <<l.e, r.e>>), r.i) ELSE Fail)
      [] OTHER -> l)

ParseNot(ts, i) ==
  IF ts[i].t = "not"
  THEN Then(ParseNot(ts, i + 1), LAMBDA r : Ok(Apply("not", <<r.e>>), r.i))
  ELSE ParseCmp(ts, i)

\* The rest of a comma-separated list whose items so far are in acc.
Items(ts, i, acc) ==
  Then(ParseExpr(ts, i), LAMBDA r :
    IF ts[r.i].t = "," THEN Items(ts, r.i + 1, Append(acc, r.e))
    ELSE Ok(Apply("list", Append(acc, r.e)), r.i))

IsKwarg(ts, i) == ts[i].t = "ident" /\ i < Len(ts) /\ ts[i + 1].t = ":"

\* Arguments, each a positional or a keyword one; none positional after a keyword.
CallArgs(ts, i, acc) ==
  LET kw == IF IsKwarg(ts, i) THEN ts[i].v ELSE ""
      from == IF kw # "" THEN i + 2 ELSE i IN
  IF kw = "" /\ \E a \in DOMAIN acc : acc[a].v # "" THEN Fail
  ELSE Then(ParseExpr(ts, from), LAMBDA r :
         LET args == Append(acc, Node("arg", kw, 0, <<r.e>>)) IN
         IF ts[r.i].t = "," THEN CallArgs(ts, r.i + 1, args) ELSE Ok(Apply("args", args), r.i))

ParsePrimary(ts, i) ==
  CASE ts[i].t = "num" -> Ok(Node("num", "", ts[i].n, <<>>), i + 1)
    [] ts[i].t \in {"str", "true", "false"} -> Ok(Leaf(ts[i].t, ts[i].v), i + 1)
    [] ts[i].t = "(" ->
         Then(Items(ts, i + 1, <<>>), LAMBDA r :
           Expect(ts, ")", r, IF Len(r.e.args) = 1 THEN r.e.args[1] ELSE r.e))
    [] ts[i].t = "[" ->
         IF ts[i + 1].t = "]" THEN Ok(Apply("list", <<>>), i + 2)
         ELSE Then(Items(ts, i + 1, <<>>), LAMBDA r : Expect(ts, "]", r, r.e))
    [] ts[i].t = "ident" ->
         IF ts[i + 1].t # "(" THEN Ok(Leaf("ident", ts[i].v), i + 1)
         ELSE IF ts[i + 2].t = ")" THEN Ok(Node("call", ts[i].v, 0, <<>>), i + 3)
         ELSE Then(CallArgs(ts, i + 2, <<>>), LAMBDA r :
                Expect(ts, ")", r, Node("call", ts[i].v, 0, r.e.args)))
    [] OTHER -> Fail

ParseUnary(ts, i) ==
  IF ts[i].t = "-"
  THEN Then(ParseUnary(ts, i + 1), LAMBDA r : Ok(Apply("neg", <<r.e>>), r.i))
  ELSE ParsePrimary(ts, i)

\* The whole input is one expression.
Parse(ls) ==
  IF ~LexOk(ls) THEN Fail
  ELSE Then(ParseExpr(Lex(ls), 1), LAMBDA r : IF Lex(ls)[r.i].t = "eof" THEN r ELSE Fail)

---------------------------------------------------------------------------
(* Evaluator.  An environment has the action, the spend total, the clock   *)
(* and the policy's binding; optional parts are partial functions.         *)

Num(n) == [k |-> "num", n |-> n]
Str(s) == [k |-> "str", s |-> s]
Bool(b) == [k |-> "bool", b |-> b]
List(xs) == [k |-> "list", xs |-> xs]
Null == [k |-> "null"]
Err == [k |-> "err"]

\* The value of an optional part that may be absent.
Optional(F(_), f, key) == IF key \in DOMAIN f THEN F(f[key]) ELSE Null

\* A signature is a role and the identity that signed, "" when it names none.
SignatureText(sig) == IF sig.id = "" THEN sig.role ELSE sig.role \o ":" \o sig.id

ResolveIdent(name, env) ==
  CASE name = "spend_total"         -> Num(env.spend)
    [] name = "now"                 -> Num(env.now)
    [] name = "timestamp"           -> Num(env.action.timestamp)
    [] name = "delegation_depth"    -> Num(env.action.delegation_depth)
    [] name = "max_budget_usd"      -> Optional(Num, env.binding, "max_budget_usd")
    [] name = "amount_usd"          -> Optional(Num, env.action.meta, "amount_usd")
    [] name = "data_classification" -> Optional(Str, env.action.meta, "data_classification")
    [] name = "payment_currency"    -> Optional(Str, env.action.meta,
                                               IF "payment_currency" \in DOMAIN env.action.meta
                                               THEN "payment_currency" ELSE "currency")
    [] name = "tool"                -> Str(env.action.tool)
    [] name = "signatures"          -> List([i \in DOMAIN env.action.signatures |->
                                               Str(SignatureText(env.action.signatures[i]))])
    [] OTHER                        -> Err

EqNeq(op, l, r) ==
  IF l.k # r.k \/ l.k \in {"list", "err"} THEN Err ELSE Bool(IF op = "==" THEN l = r ELSE l # r)

NumCmp(op, l, r) ==
  IF l.k # "num" \/ r.k # "num" THEN Err
  ELSE Bool(CASE op = "<" -> l.n < r.n [] op = "<=" -> l.n <= r.n
              [] op = ">" -> l.n > r.n [] op = ">=" -> l.n >= r.n)

NumArith(op, l, r) ==
  IF l.k # "num" \/ r.k # "num" THEN Err
  ELSE LET out == IF op = "+" THEN l.n + r.n ELSE l.n - r.n IN
       IF out \in -NumMax..NumMax THEN Num(out) ELSE Err

\* Bug: `or` does not look at its right operand when the left one is true.
BoolBinBug(op, l, r) ==
  IF op = "or" /\ l = Bool(TRUE) THEN Bool(TRUE)
  ELSE IF l.k # "bool" \/ r.k # "bool" THEN Err
  ELSE Bool(IF op = "and" THEN l.b /\ r.b ELSE l.b \/ r.b)

\* Both operands are evaluated before either is looked at.
BoolBin(op, l, r) ==
  IF l.k # "bool" \/ r.k # "bool" THEN Err
  ELSE Bool(IF op = "and" THEN l.b /\ r.b ELSE l.b \/ r.b)

ApplyBinary(op, l, r) ==
  CASE op \in {"==", "!="} -> EqNeq(op, l, r)
    [] op \in CmpOps \ {"==", "!="} -> NumCmp(op, l, r)
    [] op \in {"+", "-"} -> NumArith(op, l, r)
    [] op \in {"and", "or"} -> BoolBin(op, l, r)

ApplyUnary(op, v) ==
  CASE op = "not" /\ v.k = "bool" -> Bool(~v.b)
    [] op = "neg" /\ v.k = "num"  -> Num(-v.n)
    [] OTHER                      -> Err

\* An absent left operand of `in` is not constrained.
Member(v, list) ==
  CASE v.k = "err" \/ list.k # "list" -> Err
    [] v.k = "null" -> Bool(TRUE)
    [] OTHER -> Bool(\E i \in DOMAIN list.xs : list.xs[i] = v)

\* The distinct signatures of an action that bear a role.
DistinctRoleSignatures(sigs, role) ==
  Cardinality({sigs[i] : i \in {j \in DOMAIN sigs : sigs[j].role = role}})

Arity == [f \in {"now", "len", "count", "no_external_call_to", "transfer_requires",
                 "exports_require_signatures", "tool_class", "sandbox_required"} |->
            CASE f = "now" -> 0 [] f = "exports_require_signatures" -> 2 [] OTHER -> 1]

\* The argument of a keyword, or else the positional one at its place.
ArgValue(names, vals, kw, pos) ==
  IF \E i \in DOMAIN names : names[i] = kw
  THEN vals[CHOOSE i \in DOMAIN names : names[i] = kw /\ \A j \in 1..(i - 1) : names[j] # kw]
  ELSE IF pos \in DOMAIN names /\ names[pos] = "" THEN vals[pos] ELSE Err

\* names, vals: the keywords ("" when positional) and values of the arguments.
Call(f, names, vals, env) ==
  LET meta == env.action.meta
      arg(kw, pos) == ArgValue(names, vals, kw, pos) IN
  IF f \notin DOMAIN Arity THEN Err ELSE IF Len(vals) # Arity[f] THEN Err ELSE
  CASE f = "now" -> Num(env.now)
    [] f = "len" -> IF vals[1].k = "str" THEN Num(Len(vals[1].s)) ELSE Err
    [] f = "count" -> IF vals[1].k = "list" THEN Num(Len(vals[1].xs)) ELSE Err
    [] f = "no_external_call_to" ->
         LET d == arg("domain", 1) IN
         IF d.k # "str" THEN Err
         ELSE Bool("target_domain" \notin DOMAIN meta \/ meta["target_domain"] # d.s)
    [] f = "transfer_requires" ->
         LET roles == arg("roles", 1) IN
         IF roles.k # "list" THEN Err
         ELSE IF \E i \in DOMAIN roles.xs : roles.xs[i].k # "str" THEN Err
         ELSE Bool("amount_usd" \in DOMAIN meta =>
                     \A i \in DOMAIN roles.xs : \E j \in DOMAIN env.action.signatures :
                       SignatureText(env.action.signatures[j]) = roles.xs[i].s)
    [] f = "exports_require_signatures" ->
         LET role == arg("role", 1)  threshold == arg("threshold", 2) IN
         IF role.k # "str" \/ threshold.k # "num" THEN Err
         ELSE IF threshold.n < 0 THEN Err
         ELSE Bool(DistinctRoleSignatures(env.action.signatures, role.s) >= threshold.n)
    [] f = "tool_class" ->
         IF arg("tool", 1).k = "err" THEN Err
         ELSE Str(IF "tool_class" \in DOMAIN meta THEN meta["tool_class"] ELSE "unknown")
    [] f = "sandbox_required" ->
         LET tool == arg("tool", 1) IN
         IF tool.k # "str" THEN Err
         ELSE Bool(env.action.tool = tool.s => "sandbox_mode" \in DOMAIN meta /\ meta["sandbox_mode"])

RECURSIVE Eval(_, _)
Eval(e, env) ==
  LET v(i) == Eval(e.args[i], env)
      vs == [i \in DOMAIN e.args |-> v(i)] IN
  CASE e.op = "num" -> Num(e.n)
    [] e.op = "str" -> Str(e.v)
    [] e.op \in {"true", "false"} -> Bool(e.op = "true")
    [] e.op = "ident" -> ResolveIdent(e.v, env)
    [] e.op = "list" -> IF \E i \in DOMAIN vs : vs[i].k = "err" THEN Err ELSE List(vs)
    [] e.op \in {"not", "neg"} -> ApplyUnary(e.op, v(1))
    [] e.op = "in" -> Member(v(1), v(2))
    [] e.op = "arg" -> v(1)
    [] e.op = "call" -> Call(e.v, [i \in DOMAIN e.args |-> e.args[i].v], vs, env)
    [] OTHER -> ApplyBinary(e.op, v(1), v(2))

\* An expression admits an action only when it evaluates to true: an error and
\* a value that is not Boolean both deny.
ExpressionAllows(e, env) == Eval(e, env) = Bool(TRUE)
==================================================================================
