-------------------------------- MODULE PolicyRules --------------------------------
(***************************************************************************)
(* An operator writes a policy: it configures fields of the binding and    *)
(* composes an invariant expression, one part at a time.  Every policy     *)
(* reached is printed, parsed, compiled and evaluated for every scenario   *)
(* by the operators of PolicyExpressions and PolicyChecks.                 *)
(***************************************************************************)
EXTENDS PolicyChecks, TLC

CONSTANTS
  FieldChoices,  \* <<field, value>> pairs an operator may configure
  LeafChoices,   \* the leaves an expression is composed from
  OpChoices,     \* the binary operators it is composed with
  Scenarios,     \* actions with a clock, a ledger total and a client's figure
  MaxParts       \* bound: fields and operators of one policy

VARIABLES
  binding,       \* the configured fields
  expr,          \* the tree of the invariant expression
  parts          \* parts written so far

ruleVars == <<binding, expr, parts>>

ASSUME RulesAssumption ==
  OpChoices \subseteq CmpOps \cup {"+", "-", "and", "or"} /\ MaxParts \in Nat

Unwritten == Leaf("none", "")
RulesInit == binding = <<>> /\ expr = Unwritten /\ parts = 0

\* The first leaf makes the policy complete.
Start ==
  /\ expr = Unwritten
  /\ expr' \in LeafChoices
  /\ UNCHANGED <<binding, parts>>

\* One part more: a policy that does not validate is refused at upload.
Grow == expr # Unwritten /\ parts < MaxParts /\ parts' = parts + 1

Configure(k, v) ==
  /\ Grow /\ k \notin DOMAIN binding
  /\ Validate([version |-> "1", agent |-> "agent", binding |-> (k :> v) @@ binding])
  /\ binding' = (k :> v) @@ binding
  /\ UNCHANGED expr

\* The expression becomes an operand, a list item or an argument of a larger one.
Compose ==
  /\ Grow /\ UNCHANGED binding
  /\ \/ \E op \in {"not", "neg"} : expr' = Apply(op, <<expr>>)
     \/ \E op \in OpChoices, leaf \in LeafChoices :
          expr' \in {Apply(op, <<expr, leaf>>), Apply(op, <<leaf, expr>>)}
     \/ \E leaf \in LeafChoices :
          \E items \in {<<expr>>, <<leaf, expr>>} : expr' = Apply("in", <<leaf, Apply("list", items)>>)
     \/ expr' = Apply("in", <<expr, Apply("list", <<>>)>>)
     \/ \E f \in DOMAIN Arity, kw \in {"", "domain", "roles", "tool"} :
          expr' = Node("call", f, 0, <<Node("arg", kw, 0, <<expr>>)>>)
     \/ \E leaf \in LeafChoices :
          expr' = Node("call", "exports_require_signatures", 0,
                       <<Node("arg", "", 0, <<leaf>>), Node("arg", "threshold", 0, <<expr>>)>>)

RulesNext == Start \/ Compose \/ \E fv \in FieldChoices : Configure(fv[1], fv[2])

---------------------------------------------------------------------------
(* Printing, the reference for the parser: parentheses only where the      *)
(* precedence of the grammar asks for them.                                *)

Precedence(e) ==
  CASE e.op = "or" -> 1 [] e.op = "and" -> 2 [] e.op = "not" -> 3 [] e.op \in CmpOps \cup {"in"} -> 4
    [] e.op \in {"+", "-"} -> 5 [] e.op = "neg" -> 6 [] OTHER -> 7

RECURSIVE Show(_, _, _), ShowList(_, _)
ShowList(es, wordy) ==
  IF es = <<>> THEN <<>>
  ELSE Show(Head(es), 1, wordy) \o (IF Len(es) = 1 THEN <<>> ELSE <<Word(",")>> \o ShowList(Tail(es), wordy))

\* e as lexemes, in parentheses when it binds weaker than level; wordy chooses
\* between and/or/not with tuples and &&/||/! with brackets.
Show(e, level, wordy) ==
  LET paren(ls) == <<Word("(")>> \o ls \o <<Word(")")>>
      sign(op) == Word(IF wordy THEN op
                       ELSE CASE op = "and" -> "&&" [] op = "or" -> "||" [] op = "not" -> "!" [] OTHER -> op)
      p == Precedence(e)
      side(i, l) == Show(e.args[i], l, wordy)
      text ==
        CASE e.op \in {"or", "and", "+", "-"} -> side(1, p) \o <<sign(e.op)>> \o side(2, p + 1)
          [] e.op \in CmpOps \cup {"in"} -> side(1, 5) \o <<Word(e.op)>> \o side(2, 5)
          [] e.op = "not" -> <<sign("not")>> \o side(1, 3)
          [] e.op = "neg" -> <<Word("-")>> \o side(1, 6)
          [] e.op = "list" -> IF wordy /\ Len(e.args) > 1 THEN paren(ShowList(e.args, wordy))
                              ELSE <<Word("[")>> \o ShowList(e.args, wordy) \o <<Word("]")>>
          [] e.op = "call" -> <<Word(e.v)>> \o paren(ShowList(e.args, wordy))
          [] e.op = "arg" -> (IF e.v = "" THEN <<>> ELSE <<Word(e.v), Word(":")>>) \o side(1, 1)
          [] e.op = "num" -> <<Number(e.n)>>
          [] e.op = "str" -> <<Quoted(e.v)>>
          [] e.op = "ident" -> <<Word(e.v)>>
          [] OTHER -> <<Word(e.op)>> IN
  IF p < level THEN paren(text) ELSE text

Written == [version |-> "1", agent |-> "agent", binding |-> binding, invariants |-> <<Show(expr, 1, TRUE)>>]

RECURSIVE Subterms(_)
Subterms(e) == {e} \cup UNION {Subterms(e.args[i]) : i \in DOMAIN e.args}

\* The verdict of the action gate in a scenario.
Gate(sc) == Evaluate(Written, GateContext(Written, sc.action, sc.now, sc.ledger, "agent"))

---------------------------------------------------------------------------
(* Properties. *)

\* Printing an expression and parsing it gives the expression back, in either
\* spelling: operators of one level group to the left, a comparison does not
\* chain and binds tighter than not, and, or (parser.rs parse_or to
\* parse_call_args).
ParserReadsBack ==
  expr # Unwritten => \A wordy \in BOOLEAN : LET r == Parse(Show(expr, 1, wordy)) IN r.ok /\ r.e = expr

\* A policy never admits an action when any part of its expression fails to
\* evaluate, whatever operators surround that part: an unknown name under
\* `or true` or under `not` denies (eval.rs evaluates both operands, compiler.rs
\* ExpressionCheck turns every error into a denial).
ErrorsNeverAllow(sc, gate) ==
  (\E sub \in Subterms(expr) :
     Eval(sub, [action |-> sc.action, spend |-> sc.ledger, now |-> sc.now, binding |-> binding]) = Err)
  => gate # "allow"

\* The verdict an operator previews for a named agent is the verdict of the gate,
\* whatever figure the client sends, unless the policy has calendar checks: the two
\* handlers fill in the weekday and the date differently (handlers.rs evaluate_action
\* and enforce_bound_policy_with_handles).
PreviewMatchesGate(sc, gate) ==
  DOMAIN binding \cap {"business_hours", "holiday_blackout_dates"} = {} =>
    EvaluateWithTrace(Written, PreviewContext(Written, sc.action, sc.now, sc.ledger, "agent",
                                              sc.override, <<>>)).overall = gate

\* The gate denies for the time window exactly the local times outside the circular
\* interval from its start to its end, both included (time.rs in_window).
WindowIsCircular(sc, gate) ==
  "time_window" \in DOMAIN binding =>
    LET w == binding["time_window"]
        since == (sc.now + w.offset - w.start) % DayLength IN
    /\ gate = "time_window" => since > (w.end - w.start) % DayLength
    /\ gate = "allow" => since <= (w.end - w.start) % DayLength

\* The verdicts of the policy engine: errors deny, a preview tells what the gate
\* will say, and a window is read on the circle of the day.
VerdictsAreSound ==
  expr # Unwritten =>
    \A sc \in Scenarios : \A gate \in {Gate(sc)} :
      ErrorsNeverAllow(sc, gate) /\ PreviewMatchesGate(sc, gate) /\ WindowIsCircular(sc, gate)
===================================================================================
