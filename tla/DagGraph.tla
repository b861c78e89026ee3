------------------------------- MODULE DagGraph -------------------------------
(***************************************************************************)
(* What load_graph of dag/loader.py hands to a run, with the parameters of *)
(* DagRunner.run: the data that the dispatcher (DagRunner) and the         *)
(* contract of a run (DagExecution) are about.                             *)
(***************************************************************************)
EXTENDS Naturals, Sequences, FiniteSets

CONSTANTS
  Node,        \* node instance ids
  Graphs       \* the runs to consider: a DAG and what of it is to be run

Edge == Node \X Node
Outcome == {"ok", "empty", "failed"}

(***************************************************************************)
(* A graph with the parameters of its run.                                 *)
(*   order        graph.nodes, the order in which the dispatcher scans     *)
(*   edges        graph.edges; optional and conditioned are subsets        *)
(*   accumulate   nodes whose effective fan_in_mode is accumulate          *)
(*   sources      nodes whose type has role "source"                       *)
(*   subdags      nodes that run another DAG                               *)
(*   needs        nodes that declare the resource; loops of them loop      *)
(*   emits        nodes that declare events                                *)
(*   allowed      retry_nodes, or every node                               *)
(*   prefilled    outputs taken over from the run that is retried          *)
(***************************************************************************)
GraphRecord ==
  [order : Seq(Node), edges : SUBSET Edge, optional : SUBSET Edge,
   conditioned : SUBSET Edge, accumulate : SUBSET Node, sources : SUBSET Node,
   subdags : SUBSET Node, needs : SUBSET Node, loops : SUBSET Node,
   emits : SUBSET Node, allowed : SUBSET Node,
   prefilled : UNION {[D -> Outcome] : D \in SUBSET Node}]

(* load_graph rejects cycles, duplicate ids and, unless a sub-DAG is at one *)
(* of its ends, edges into sources. An accumulate node that also loops over *)
(* its resource is outside this model.                                     *)
WellFormed(gr) ==
  /\ gr \in GraphRecord
  /\ \A i, j \in DOMAIN gr.order : gr.order[i] = gr.order[j] => i = j
  /\ \A e \in gr.edges :
       /\ e[1] # e[2]
       /\ e[2] \in gr.sources => {e[1], e[2]} \intersect gr.subdags # {}
  /\ gr.optional \subseteq gr.edges
  /\ gr.conditioned \subseteq gr.edges
  /\ gr.accumulate \intersect gr.loops \intersect gr.needs = {}

ASSUME NodeAssumption == IsFiniteSet(Node) /\ Node # {}
ASSUME GraphAssumption == \A gr \in Graphs : WellFormed(gr)
=============================================================================
