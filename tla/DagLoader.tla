------------------------------ MODULE DagLoader ------------------------------
(***************************************************************************)
(* The pure checks of dag/loader.py and snapshot.py: whether a graph has a *)
(* cycle, its layers, which DAGs a run needs, and how deep they nest.      *)
(* Error texts and the order inside a layer are left out.                  *)
(***************************************************************************)
EXTENDS Naturals, Sequences, FiniteSets

Seqs == INSTANCE SequencesExt

CONSTANTS
  Dag,
  None        \* no DAG, no call

(* _assert_acyclic: depth first, with the nodes on the way down in         *)
(* `visiting' and the finished ones in `visited'.                          *)
AssertAcyclic(nodes, edges) ==
  LET names == {nodes[i] : i \in DOMAIN nodes}
      visit[n \in names, visiting \in SUBSET names, visited \in SUBSET names] ==
        IF n \in visiting THEN [ok |-> FALSE, visited |-> visited]
        ELSE IF n \in visited THEN [ok |-> TRUE, visited |-> visited]
        ELSE LET below == Seqs!FoldLeft(
                   LAMBDA acc, m : IF acc.ok THEN visit[m, visiting \union {n}, acc.visited] ELSE acc,
                   [ok |-> TRUE, visited |-> visited],
                   SelectSeq(nodes, LAMBDA m : <<n, m>> \in edges))
             IN  [below EXCEPT !.visited = @ \union {n}]
  IN  Seqs!FoldLeft(LAMBDA acc, n : IF acc.ok THEN visit[n, {}, acc.visited] ELSE acc,
               [ok |-> TRUE, visited |-> {}], nodes).ok

(* topological_layers: the nodes without an incoming edge, then those that *)
(* the layer before has relieved of their last one, and so on.             *)
Layers(names, edges) ==
  LET step[k \in 0 .. Cardinality(names)] ==
        IF k = 0
          THEN [incoming |-> [n \in names |-> Cardinality({m \in names : <<m, n>> \in edges})],
                ready    |-> {n \in names : \A m \in names : <<m, n>> \notin edges},
                layers   |-> <<>>]
          ELSE LET before  == step[k - 1]
                   relieve == [n \in names |->
                      before.incoming[n] - Cardinality({m \in before.ready : <<m, n>> \in edges})]
               IN  [incoming |-> relieve,
                    ready    |-> {n \in names : before.incoming[n] > 0 /\ relieve[n] = 0},
                    layers   |-> IF before.ready = {} THEN before.layers
                                 ELSE Append(before.layers, before.ready)]
  IN  step[Cardinality(names)].layers

(* What topological_layers refuses: nodes are left over.                   *)
Covers(layers, names) == UNION {layers[i] : i \in DOMAIN layers} = names

(* The chains of references that _visit_sub_dag walks from a DAG: one is   *)
(* followed on unless it names a DAG twice or is too long.                 *)
Repeats(chain) == \E i, j \in DOMAIN chain : i < j /\ chain[i] = chain[j]
Chains(refs, d, max) ==
  LET walk[k \in 0 .. max] ==
        IF k = 0 THEN {<<d>>}
        ELSE UNION {{Append(chain, e) : e \in refs[chain[k]]} :
                    chain \in {c \in walk[k - 1] : ~ Repeats(c)}}
  IN  UNION {walk[k] : k \in 0 .. max}

(* Mutant: the length of a chain counts references, not DAGs.              *)
ValidateSubDagNestingBySteps(refs, max) ==
  \A d \in DOMAIN refs : \A chain \in Chains(refs, d, max + 1) :
    ~ Repeats(chain) /\ Len(chain) <= max + 1

(* validate_sub_dag_nesting accepts                                        *)
ValidateSubDagNesting(refs, max) ==
  \A d \in DOMAIN refs : \A chain \in Chains(refs, d, max) :
    ~ Repeats(chain) /\ Len(chain) <= max

(* Mutant: the closure is the root and what it refers to.                  *)
DagClosureShallow(refs, root) == {root} \union refs[root]

(* build_dag_execution_closure: the DAGs of a run, {} if it refuses.       *)
DagClosure(refs, root) ==
  LET chains == Chains(refs, root, Cardinality(DOMAIN refs))
  IN  IF \E chain \in chains : Repeats(chain) THEN {}
      ELSE UNION {{chain[i] : i \in DOMAIN chain} : chain \in chains}
=============================================================================
