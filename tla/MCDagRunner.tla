---------------------------- MODULE MCDagRunner ----------------------------
(* The graphs on which TLC checks DagRunner.                               *)
EXTENDS DagRunner, EdgeConditions, TLC

(* Every node runs, nothing is optional, conditioned or rationed.          *)
Plain(order, edges) ==
  [order |-> order, edges |-> edges, optional |-> {}, conditioned |-> {},
   accumulate |-> {}, sources |-> {}, subdags |-> {}, needs |-> {}, loops |-> {},
   emits |-> {}, allowed |-> {order[i] : i \in DOMAIN order},
   prefilled |-> [n \in {} |-> "ok"]]

(* Two sources meet in a barrier: one may fail unnoticed (role source),    *)
(* the other is required; both sources and the barrier use the resource.   *)
Meet == [Plain(<<"a", "b", "c">>, {<<"a", "c">>, <<"b", "c">>}) EXCEPT
           !.sources = {"a"}, !.needs = {"a", "b", "c"}, !.emits = {"a"}]

(* A branch on conditions that joins again behind an optional edge; the    *)
(* node scanned first depends on the one scanned last.                     *)
Branch == [Plain(<<"c", "a", "b">>, {<<"a", "b">>, <<"a", "c">>, <<"b", "c">>}) EXCEPT
             !.conditioned = {<<"a", "b">>}, !.optional = {<<"b", "c">>},
             !.needs = {"b"}, !.loops = {"b"}]

(* An accumulate node over two upstreams, rationed, with a barrier behind. *)
Accumulate == [Plain(<<"a", "b", "c">>, {<<"a", "c">>, <<"b", "c">>}) EXCEPT
                 !.accumulate = {"c"}, !.needs = {"b", "c"}]

(* The same, not rationed, one upstream optional.                          *)
FreeAccumulate == [Plain(<<"a", "b", "c", "d">>,
                         {<<"a", "c">>, <<"b", "c">>, <<"c", "d">>}) EXCEPT
                     !.accumulate = {"c"}, !.optional = {<<"b", "c">>}]

(* A retry of c and d on top of a finished run.                            *)
Retry == [Plain(<<"a", "b", "c", "d">>,
                {<<"a", "c">>, <<"b", "c">>, <<"c", "d">>, <<"a", "d">>}) EXCEPT
            !.optional = {<<"b", "c">>}, !.conditioned = {<<"a", "d">>},
            !.allowed = {"c", "d"}, !.needs = {"c", "d"},
            !.prefilled = [n \in {"a", "b"} |-> IF n = "a" THEN "ok" ELSE "failed"]]

(* A sub-DAG and a source without a common successor; two accumulate nodes *)
(* in a row behind the source.                                             *)
Chain == [Plain(<<"a", "b", "c", "d">>, {<<"b", "c">>, <<"c", "d">>}) EXCEPT
            !.subdags = {"a"}, !.accumulate = {"c", "d"}, !.sources = {"b"},
            !.needs = {"b", "d"}]

(* A failure that travels against the scan order, beside a source that may *)
(* succeed: one scan fails only one node of the chain.                     *)
Backward == [Plain(<<"c", "b", "a", "d">>, {<<"a", "b">>, <<"b", "c">>}) EXCEPT
               !.needs = {"c", "d"}]

LiveGraphs == {Meet, Branch, Accumulate}
AccumulateGraphs == {FreeAccumulate, Chain}
AllGraphs == {Meet, Branch, Accumulate, FreeAccumulate, Retry, Chain, Backward}

-----------------------------------------------------------------------------
(* Conditions: comparisons of output.x with a number or None, and what     *)
(* and, or and not make of two of them.                                    *)
X == [is |-> "field", name |-> "x", of |-> [is |-> "output"]]
Constant(v) == [is |-> "constant", value |-> v]
Compared(how, v) == [is |-> "compare", args |-> <<X, Constant(v)>>, hows |-> <<how>>]
Between == [is |-> "compare", args |-> <<Constant(Number(0)), X, Constant(Number(2))>>,
            hows |-> <<"<", "<=">>]
Simple == {Between, X} \union {Compared(how, v) : how \in {"==", "!=", ">"}, v \in {Number(1), Nothing}}
Joined(word, one, two) == [is |-> word, args |-> <<one, two>>]
Negated(one) == [is |-> "not", arg |-> one]
Twofold == {Joined(word, one, two) : word \in {"and", "or"}, one, two \in Simple}
Conditions == Simple \union Twofold \union {Negated(one) : one \in Simple \union Twofold}
Outputs == {Mapping([n \in {} |-> Nothing])} \union
             {Mapping([n \in {"x"} |-> v]) : v \in {Nothing, Truth(TRUE)} \union {Number(n) : n \in 0..3}}

(* As Python would: the second operand is not looked at when the first     *)
(* decides.                                                                *)
RECURSIVE Lazily(_, _)
Lazily(node, output) ==
  CASE node.is \in {"and", "or"} ->
         LET v == Lazily(node.args[1], output)
         IN IF v = Raises THEN Raises
            ELSE IF Truthy(v) = (node.is = "or") THEN v ELSE Lazily(node.args[2], output)
    [] node.is = "not" ->
         LET v == Lazily(node.arg, output) IN IF v = Raises THEN Raises ELSE Truth(~Truthy(v))
    [] OTHER -> Eval(node, output)

(* A condition means what it means in Python, but that the operands behind *)
(* the one that decides may raise: "output.x != None and output.x > 1"     *)
(* fails the run when there is no x (_eval, evaluate_condition).           *)
Guarded == Joined("and", Compared("!=", Nothing), Compared(">", Number(1)))
ASSUME ConditionsMeanPython ==
  /\ \A c \in Conditions, output \in Outputs :
       LET v == EvaluateCondition(c, output)
       IN v # Raises => /\ Lazily(c, output) # Raises
                        /\ Truthy(v) = Truthy(Lazily(c, output))
  /\ \A output \in Outputs :
       (EvaluateCondition(Guarded, output) = Raises) = (Eval(X, output) = Nothing)
  /\ \A output \in Outputs : Lazily(Guarded, output) # Raises
=============================================================================
