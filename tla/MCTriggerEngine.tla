--------------------------- MODULE MCTriggerEngine ---------------------------
EXTENDS TriggerEngine, TriggerSyntax, TLC

CONSTANTS
  startup, a, b,            \* events
  daily, once, closing,     \* triggers
  approval,                 \* a wait node
  e1, e2                    \* emissions

Of(x) ==
  CASE x = daily -> {{startup, a}, {b}}
    [] x = once -> {{a}}
    [] x = closing -> {{b}, {startup}}
    [] x = approval -> {{a, b}, {startup}}

Set(e) == [kind |-> "set", event |-> e]
Clear(e) == [kind |-> "clear", event |-> e]
Manual == [kind |-> "manual", event |-> Run]
AnyOf(m) ==
  CASE m = e1 -> {Set(startup), Set(a), Manual}
    [] m = e2 -> {Set(a), Set(b), Clear(a)}
Offered == [m \in Emission |-> AnyOf(m)]

Listed == <<once, daily, closing>>
Expressions == [x \in Trigger \union Waiter |-> Of(x)]
Targets == [t \in Trigger |-> IF t = closing THEN a ELSE Run]

(* A trigger on the first tick of its cron token after the start.          *)
ListedDaily == <<daily>>
StartupOrTick == [m \in Emission |-> {Set(startup), Set(a)}]
StartupAndCron == [x \in Trigger \union Waiter |-> {{startup, a}}]

(* One event, whose expression is the event itself.                        *)
ListedOnce == <<once>>
ListedNone == <<>>
EventA == [x \in Trigger \union Waiter |-> {{a}}]
SetOrClear == [m \in Emission |-> {Set(a), Clear(a)}]

-----------------------------------------------------------------------------
(* TriggerSyntax against reference definitions, on all texts of up to five *)
(* tokens and some of seven.                                               *)
Tokens2 == {"t", "u"}
Texts ==
  UNION {[1..n -> Keywords \union Tokens2] : n \in 1..5} \union
  UNION {{<<"(", "t", o, "u", ")", p, "v">>, <<"t", o, "(", "u", p, "v", ")">>,
          <<"t", o, "u", p, "v", q, "t">>} : o, p, q \in {"AND", "OR"}}

Before(text, i) == SubSeq(text, 1, i - 1)
After(text, i) == SubSeq(text, i + 1, Len(text))
Enclosed(text) == Len(text) > 2 /\ Head(text) = "(" /\ text[Len(text)] = ")"
Inside(text) == SubSeq(text, 2, Len(text) - 1)

RECURSIVE Grammatical(_), TrueIn(_, _)
Splits(text, word) ==
  {i \in 2..Len(text) - 1 :
     text[i] = word /\ Grammatical(Before(text, i)) /\ Grammatical(After(text, i))}
Grammatical(text) ==
  \/ Len(text) = 1 /\ text[1] \notin Keywords
  \/ Splits(text, "OR") # {} \/ Splits(text, "AND") # {}
  \/ Enclosed(text) /\ Grammatical(Inside(text))

TrueIn(text, active) ==
  IF Splits(text, "OR") # {}
    THEN \E i \in Splits(text, "OR") : TrueIn(Before(text, i), active) \/ TrueIn(After(text, i), active)
  ELSE IF Splits(text, "AND") # {}
    THEN \A i \in Splits(text, "AND") : TrueIn(Before(text, i), active) /\ TrueIn(After(text, i), active)
  ELSE IF Enclosed(text) THEN TrueIn(Inside(text), active)
  ELSE text[1] \in active

(* The parser reads the texts of the grammar and no others, and gives them *)
(* their meaning (_Parser, _eval_expr).                                    *)
ASSUME ParserIsRight ==
  \A text \in Texts :
    LET expr == Parse(text)
    IN /\ (expr # Raised.expr) = Grammatical(text)
       /\ expr # Raised.expr =>
            \A active \in SUBSET {"t", "u", "v"} : Evaluate(expr, active) = TrueIn(text, active)

(* An expression is its set of alternatives, as TriggerEngine has it.      *)
RECURSIVE Alternatives(_)
Alternatives(expr) ==
  CASE expr[1] = "TOKEN" -> {{expr[2]}}
    [] expr[1] = "OR" -> Alternatives(expr[2]) \union Alternatives(expr[3])
    [] expr[1] = "AND" -> {x \union y : x \in Alternatives(expr[2]), y \in Alternatives(expr[3])}

ASSUME AlternativesSuffice ==
  \A text \in {x \in Texts : Parse(x) # Raised.expr} :
    LET expr == Parse(text)
    IN /\ TokensOf(expr) = UNION Alternatives(expr)
       /\ \A active \in SUBSET {"t", "u", "v"} :
            Evaluate(expr, active) = \E one \in Alternatives(expr) : one \subseteq active

(* Schedules name weekdays from Monday = 0 to Sunday = 6 or 7.  The picker *)
(* of the console counts from Sunday = 0: what it inserts for Mondays or   *)
(* for working days fires a day late, and once only.                       *)
Weekly(days) == <<Is(0), Is(9), AnyValue, AnyValue, days>>
DaysOf(days) == {d \in 0..6 : CronMatches(Weekly(days), <<0, 9, 1, 1, d>>)}
ASSUME Weekdays ==
  /\ \A n \in 0..6 : DaysOf(Is(n)) = {n} /\ DaysOf(OneOf({Is(n), Is(7)})) = {n, 6}
  /\ DaysOf(From(1, 5)) = 1..5 /\ DaysOf(From(5, 7)) = {5, 6}
  /\ IsOneShot(Weekly(From(1, 5))) /\ ~IsOneShot(Weekly(AnyValue))
=============================================================================
