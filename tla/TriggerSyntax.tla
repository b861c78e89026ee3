---------------------------- MODULE TriggerSyntax ----------------------------
(***************************************************************************)
(* The expressions of triggers and wait nodes, and the schedules in their  *)
(* cron tokens (trigger.py).  A text is the sequence of its lexical        *)
(* tokens; a field of a schedule is given by what its text says.           *)
(***************************************************************************)
EXTENDS Integers, Sequences

Keywords == {"(", ")", "AND", "OR"}

(* What the parser has read, and where it stands; or that it has raised.   *)
Parsed(expr, at) == [expr |-> expr, at |-> at]
Raised == [expr |-> <<"raised">>, at |-> 0]

(* The kind of the token at a place.                                       *)
Kind(text, at) ==
  IF at \notin DOMAIN text THEN "end"
  ELSE IF text[at] \in Keywords THEN text[at] ELSE "TOKEN"

(* _or: operands of OR, grouped to the left.  OR binds less than AND.      *)
RECURSIVE ParseOr(_, _), MoreOr(_, _), ParseAnd(_, _), MoreAnd(_, _), ParsePrimary(_, _)

ParseOr(text, at) == MoreOr(text, ParseAnd(text, at))
MoreOr(text, left) ==
  IF left = Raised \/ Kind(text, left.at) # "OR" THEN left
  ELSE LET right == ParseAnd(text, left.at + 1)
       IN IF right = Raised THEN Raised
          ELSE MoreOr(text, Parsed(<<"OR", left.expr, right.expr>>, right.at))

ParseAnd(text, at) == MoreAnd(text, ParsePrimary(text, at))
MoreAnd(text, left) ==
  IF left = Raised \/ Kind(text, left.at) # "AND" THEN left
  ELSE LET right == ParsePrimary(text, left.at + 1)
       IN IF right = Raised THEN Raised
          ELSE MoreAnd(text, Parsed(<<"AND", left.expr, right.expr>>, right.at))

ParsePrimary(text, at) ==
  CASE Kind(text, at) = "TOKEN" -> Parsed(<<"TOKEN", text[at]>>, at + 1)
    [] Kind(text, at) = "(" ->
         LET inner == ParseOr(text, at + 1)
         IN IF inner # Raised /\ Kind(text, inner.at) = ")"
              THEN Parsed(inner.expr, inner.at + 1) ELSE Raised
    [] OTHER -> Raised

(* parse: the whole text has to be read.                                   *)
Parse(text) ==
  LET all == ParseOr(text, 1)
  IN IF all.at = Len(text) + 1 THEN all.expr ELSE Raised.expr

RECURSIVE Evaluate(_, _), TokensOf(_)

Evaluate(expr, active) ==
  CASE expr[1] = "TOKEN" -> expr[2] \in active
    [] expr[1] = "AND" -> Evaluate(expr[2], active) /\ Evaluate(expr[3], active)
    [] expr[1] = "OR" -> Evaluate(expr[2], active) \/ Evaluate(expr[3], active)

TokensOf(expr) ==
  IF expr[1] = "TOKEN" THEN {expr[2]} ELSE TokensOf(expr[2]) \union TokensOf(expr[3])

-----------------------------------------------------------------------------
(* A schedule: minute, hour, day, month, weekday.  A field is any value,   *)
(* every n-th, one of several, from one to another, or one.                *)
AnyValue == [says |-> "any"]
Every(n) == [says |-> "every", n |-> n]
OneOf(fields) == [says |-> "oneof", fields |-> fields]
From(low, high) == [says |-> "from", low |-> low, high |-> high]
Is(n) == [says |-> "is", n |-> n]

(* datetime.weekday() counts from Monday = 0; 7 is Sunday only where it    *)
(* stands alone.                                                           *)
RECURSIVE FieldMatches(_, _, _)
FieldMatches(field, value, index) ==
  CASE field.says = "any" -> TRUE
    [] field.says = "every" -> field.n > 0 /\ value % field.n = 0
    [] field.says = "oneof" -> \E f \in field.fields : FieldMatches(f, value, index)
    [] field.says = "from" -> field.low <= value /\ value <= field.high
    [] field.says = "is" -> value = IF index = 5 /\ field.n = 7 THEN 6 ELSE field.n

CronMatches(cron, now) == \A i \in 1..5 : FieldMatches(cron[i], now[i], i)

(* A trigger with such a schedule is disabled once it has fired.           *)
IsOneShot(cron) == SubSeq(cron, 3, 5) # <<AnyValue, AnyValue, AnyValue>>

=============================================================================
