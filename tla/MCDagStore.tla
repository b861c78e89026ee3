----------------------------- MODULE MCDagStore ------------------------------
(***************************************************************************)
(* DagStore on three DAGs, and the checks of the edges of one DAG compared *)
(* with what they are for, on every relation of four nodes.                *)
(***************************************************************************)
EXTENDS DagStore, TLC

Node == 1 .. 4
Order == [i \in Node |-> i]
Relations == SUBSET (Node \X Node)

NoCycle(edges) ==
  \A S \in SUBSET Node : S # {} => \E n \in S : \A m \in S : <<m, n>> \notin edges

(* load_graph accepts exactly the graphs without a cycle, and those are    *)
(* the ones that topological_layers can sort.                              *)
ASSUME AcyclicDetected ==
  \A edges \in Relations :
    LET acyclic == NoCycle(edges)
    IN  /\ AssertAcyclic(Order, edges) <=> acyclic
        /\ Covers(Layers(Node, edges), Node) <=> acyclic

(* The layers are disjoint, every edge leads to a later one, and every     *)
(* node is in the earliest layer that its upstreams allow.                 *)
ASSUME LayersSound ==
  \A edges \in Relations :
    LET layers == Layers(Node, edges)
        at(n) == {i \in DOMAIN layers : n \in layers[i]}
    IN  Covers(layers, Node) =>
          \A n \in Node :
            /\ Cardinality(at(n)) = 1
            /\ \A i \in at(n) :
                 /\ \A m \in Node : <<m, n>> \in edges => \A j \in at(m) : j < i
                 /\ i > 1 => \E m \in layers[i - 1] : <<m, n>> \in edges

Symmetry == Permutations(Dag) \union Permutations(Call)
=============================================================================
