--------------------------- MODULE EdgeConditions ---------------------------
(***************************************************************************)
(* The conditions of edges (dag/conditions.py), as trees the Python parser *)
(* has built.  A custom evaluator and references to entities are left out. *)
(***************************************************************************)
EXTENDS Integers, Sequences

(* Values: numbers, truth values, None, mappings, and whatever comes of an *)
(* expression that raises.                                                 *)
Number(n) == <<"number", n>>
Truth(b) == <<"truth", b>>
Nothing == <<"none">>
Mapping(f) == <<"mapping", f>>
Raises == <<"raises">>

Truthy(v) ==
  CASE v[1] = "number" -> v[2] # 0
    [] v[1] = "truth" -> v[2]
    [] v[1] = "none" -> FALSE
    [] v[1] = "mapping" -> DOMAIN v[2] # {}

(* _field: a field that is not there, also of what has no fields, is None. *)
FieldOf(v, name) ==
  IF v[1] = "mapping" /\ name \in DOMAIN v[2] THEN v[2][name] ELSE Nothing

(* _compare: only numbers have an order, and truth values are numbers.     *)
AsNumber(v) == IF v[1] = "truth" THEN Number(IF v[2] THEN 1 ELSE 0) ELSE v
Compare(how, u, v) ==
  LET x == AsNumber(u)
      y == AsNumber(v)
  IN CASE how = "==" -> Truth(x = y)
       [] how = "!=" -> Truth(x # y)
       [] x[1] = "number" /\ y[1] = "number" ->
            Truth(CASE how = "<" -> x[2] < y[2] [] how = "<=" -> x[2] <= y[2]
                    [] how = ">" -> x[2] > y[2] [] how = ">=" -> x[2] >= y[2])
       [] OTHER -> Raises

(* _eval.  and, or evaluate all their operands before they look at one;    *)
(* a chain of comparisons stops at the first that fails.                   *)
RECURSIVE Eval(_, _), ChainOf(_, _, _, _)
Eval(node, output) ==
  CASE node.is \in {"and", "or"} ->
         LET values == [i \in DOMAIN node.args |-> Eval(node.args[i], output)]
         IN IF \E i \in DOMAIN values : values[i] = Raises THEN Raises
            ELSE IF node.is = "and" THEN Truth(\A i \in DOMAIN values : Truthy(values[i]))
            ELSE Truth(\E i \in DOMAIN values : Truthy(values[i]))
    [] node.is = "not" ->
         LET v == Eval(node.arg, output) IN IF v = Raises THEN Raises ELSE Truth(~Truthy(v))
    [] node.is = "compare" -> ChainOf(Eval(node.args[1], output), node, 1, output)
    [] node.is = "field" ->
         LET v == Eval(node.of, output) IN IF v = Raises THEN Raises ELSE FieldOf(v, node.name)
    [] node.is = "output" -> output
    [] node.is = "constant" -> node.value
    [] OTHER -> Raises

(* The comparisons from the i-th on, with what is left of it.              *)
ChainOf(left, node, i, output) ==
  IF left = Raises THEN Raises
  ELSE IF i > Len(node.hows) THEN Truth(TRUE)
  ELSE LET right == Eval(node.args[i + 1], output)
           holds == IF right = Raises THEN Raises ELSE Compare(node.hows[i], left, right)
       IN IF holds = Raises THEN Raises
          ELSE IF ~Truthy(holds) THEN Truth(FALSE)
          ELSE ChainOf(right, node, i + 1, output)

(* evaluate_condition                                                      *)
EvaluateCondition(node, output) ==
  LET v == Eval(node, output) IN IF v = Raises THEN Raises ELSE Truth(Truthy(v))

=============================================================================
