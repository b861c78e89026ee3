--------------------------- MODULE SubDagExecution ---------------------------
(***************************************************************************)
(* The child runs of sub-DAG nodes (runner.py, _execute_sub_dag).  Every   *)
(* run has a DagRunner of its own, but the runners share one executor and  *)
(* with it the table `instances', which each run replaces by the nodes of  *)
(* its own DAG and puts back when it ends; and they share the permits of a *)
(* resource, which the node that waits for a child run may hold.           *)
(*                                                                         *)
(* A node is a handler, or it names a DAG, or its type is a configuration  *)
(* of type `dag', which the executor hands to the runner that used it      *)
(* first, the one of the root.  How a run schedules its nodes is the       *)
(* business of DagRunner; all edges are required here.                     *)
(***************************************************************************)
EXTENDS DagLoader

CONSTANTS
  Node,
  Programs,    \* configurations of DAGs to consider
  Limit,       \* max_dag_depth
  Permits,     \* permits of the resource
  MaxFrames,   \* bound: child runs, and the root
  MaxFaults    \* bound: exceptions

ASSUME DagAssumption ==
  /\ IsFiniteSet(Dag) /\ IsFiniteSet(Node)
  /\ "not" \notin Dag \union {None}

ASSUME BoundAssumption ==
  /\ Limit \in Nat \ {0} /\ Permits \in Nat \ {0}
  /\ MaxFrames \in Nat \ {0} /\ MaxFaults \in Nat

NodeConfig == [kind : {"handler", "nested", "config"}, ref : Dag, resource : BOOLEAN]
Body == UNION {[S -> NodeConfig] : S \in SUBSET Node}
Program == [root : Dag, body : [Dag -> Body], edges : [Dag -> SUBSET (Node \X Node)]]

(* The DAGs that nodes name; configurations of type `dag' are not looked   *)
(* into (_dag_ref, _sub_dag_name).                                         *)
DagRefs(p) ==
  [d \in Dag |-> {p.body[d][n].ref : n \in {m \in DOMAIN p.body[d] : p.body[d][m].kind = "nested"}}]

(* A run begins with the closure of its DAG, so a program has one; the DAG *)
(* that a configuration names is in it (_execute_dag_node_config).         *)
ASSUME ProgramAssumption ==
  /\ Programs \subseteq Program
  /\ \A p \in Programs :
       LET closure == DagClosure(DagRefs(p), p.root)
       IN  /\ closure # {}
           /\ \A d \in closure : p.body[d] # << >> /\ \A n \in DOMAIN p.body[d] :
                /\ p.body[d][n].kind = "config" => p.body[d][n].ref \in closure
                /\ \A m \in Node : <<m, n>> \in p.edges[d] => m \in DOMAIN p.body[d]

VARIABLES
  program,
  frames,      \* the runs, root first; each with its runner and its nodes
  instances,   \* executor.instances: the DAG whose nodes it holds
  count,       \* permits on the table
  holding,     \* nodes, as <<frame, node>>, that hold a permit
  stopped,     \* the stop_event of the root
  faults

nestedVars == <<program, frames, instances, count, holding, stopped, faults>>

Frame == DOMAIN frames
Busy == {"recording", "executing", "nested"}
Settled == {"ok", "failed", "refused"}
Config(f, n) == program.body[frames[f].dag][n]
Nodes(f) == DOMAIN frames[f].node
Up(f, n) == {u \in Nodes(f) : <<u, n>> \in program.edges[frames[f].dag]}
Idle(f) == \A n \in Nodes(f) : frames[f].node[n] \notin Busy

(* A run of dag by a runner of this depth and path, for a node of parent.  *)
NewFrame(dag, body, parent, via, depth, path, phase) ==
  [dag |-> dag, parent |-> parent, via |-> via, depth |-> depth, path |-> path,
   previous |-> dag, phase |-> phase, row |-> "none",
   node |-> [n \in DOMAIN body |-> "waiting"], ran |-> [n \in DOMAIN body |-> "not"]]

NestedInit ==
  /\ program \in Programs
  /\ frames = <<NewFrame(program.root, program.body[program.root], 0, None, 1,
                         <<program.root>>, "running")>>
  /\ instances = program.root
  /\ count = Permits
  /\ holding = {}
  /\ stopped = FALSE
  /\ faults = 0

-----------------------------------------------------------------------------
SetNode(f, n, status) == frames' = [frames EXCEPT ![f].node[n] = status]

(* A node starts when its upstreams delivered; one that needs the resource *)
(* takes a permit, or is looked at again after a release.                  *)
StartNode(f, n) ==
  /\ frames[f].phase = "running"
  /\ frames[f].node[n] = "waiting"
  /\ f = 1 => ~ stopped
  /\ \A u \in Up(f, n) : frames[f].node[u] = "ok"
  /\ IF Config(f, n).resource
       THEN /\ count > 0
            /\ count' = count - 1
            /\ holding' = holding \union {<<f, n>>}
       ELSE UNCHANGED <<count, holding>>
  /\ SetNode(f, n, "recording")
  /\ UNCHANGED <<program, instances, stopped, faults>>

FailNode(f, n) ==
  /\ frames[f].phase = "running"
  /\ frames[f].node[n] = "waiting"
  /\ f = 1 => ~ stopped
  /\ \A u \in Up(f, n) : frames[f].node[u] \in Settled
  /\ \E u \in Up(f, n) : frames[f].node[u] # "ok"
  /\ SetNode(f, n, "failed")
  /\ UNCHANGED <<program, instances, count, holding, stopped, faults>>

(* The permit of a node goes back when the dispatcher takes its result.    *)
Ends(f, n, status) ==
  /\ SetNode(f, n, status)
  /\ holding' = holding \ {<<f, n>>}
  /\ count' = count + (IF <<f, n>> \in holding THEN 1 ELSE 0)
  /\ UNCHANGED <<program, instances, stopped, faults>>

(* Mutant: off by one level.                                               *)
RefusesEarly(r, ref) ==
  \/ \E i \in DOMAIN frames[r].path : frames[r].path[i] = ref
  \/ frames[r].depth + 1 >= Limit

(* _execute_sub_dag of runner r refuses.                                   *)
Refuses(r, ref) ==
  \/ \E i \in DOMAIN frames[r].path : frames[r].path[i] = ref
  \/ frames[r].depth >= Limit

(* _execute_sub_dag of runner r for a node of f: a node output that says   *)
(* why not, or a runner one level deeper.                                  *)
ExecuteSubDag(f, n, r, ref) ==
  \/ /\ Refuses(r, ref)
     /\ Ends(f, n, "refused")
  \/ /\ ~ Refuses(r, ref)
     /\ Len(frames) < MaxFrames
     /\ frames' = Append([frames EXCEPT ![f].node[n] = "nested"],
          NewFrame(ref, program.body[ref], f, n, frames[r].depth + 1,
                   Append(frames[r].path, ref), "opening"))
     /\ UNCHANGED <<program, instances, count, holding, stopped, faults>>

(* What executor.execute finds in executor.instances under the id of a     *)
(* node; its own type if there is nothing under that id.                   *)
Found(f, n) ==
  IF n \in DOMAIN program.body[instances] THEN program.body[instances][n] ELSE Config(f, n)
FoundIn(n) == IF n \in DOMAIN program.body[instances] THEN instances ELSE None

(* A node that names a DAG is recognised by its own runner; everything     *)
(* else is up to the executor.                                             *)
ExecuteNested(f, n) ==
  /\ frames[f].node[n] = "recording"
  /\ frames[f].phase = "running"
  /\ Config(f, n).kind = "nested"
  /\ ExecuteSubDag(f, n, f, Config(f, n).ref)

ExecuteConfig(f, n) ==
  /\ frames[f].node[n] = "recording"
  /\ frames[f].phase = "running"
  /\ Config(f, n).kind # "nested"
  /\ Found(f, n).kind = "config"
  /\ FoundIn(n) # None
  /\ ExecuteSubDag(f, n, 1, Found(f, n).ref)

(* No node type has the name `dag' or that of a DAG, and a configuration   *)
(* of type `dag' needs an instance.                                        *)
ExecuteUnknown(f, n) ==
  /\ frames[f].node[n] = "recording"
  /\ frames[f].phase = "running"
  /\ Config(f, n).kind # "nested"
  /\ \/ Found(f, n).kind = "nested"
     \/ Found(f, n).kind = "config" /\ FoundIn(n) = None
  /\ Ends(f, n, "failed")

ExecuteHandler(f, n) ==
  /\ frames[f].node[n] = "recording"
  /\ frames[f].phase = "running"
  /\ Config(f, n).kind # "nested"
  /\ Found(f, n).kind = "handler"
  /\ frames' = [frames EXCEPT ![f].node[n] = "executing", ![f].ran[n] = FoundIn(n)]
  /\ UNCHANGED <<program, instances, count, holding, stopped, faults>>

HandlerEnds(f, n) ==
  /\ frames[f].node[n] = "executing"
  /\ frames[f].phase = "running"
  /\ \E status \in {"ok", "failed"} : Ends(f, n, status)

(* The row of a child run: dag_lifecycle(..., "started").                  *)
OpenRow(g) ==
  /\ frames[g].phase = "opening"
  /\ frames' = [frames EXCEPT ![g].phase = "opened", ![g].row = "running"]
  /\ UNCHANGED <<program, instances, count, holding, stopped, faults>>

(* DagRunner.run of a child puts its own nodes into the executor.          *)
EnterRun(g) ==
  /\ frames[g].phase = "opened"
  /\ frames' = [frames EXCEPT ![g].phase = "running", ![g].previous = instances]
  /\ instances' = frames[g].dag
  /\ UNCHANGED <<program, count, holding, stopped, faults>>

(* Mutant: the table is put back only by runs that are broken off.         *)
LeaveRunAsIs(f) ==
  /\ frames[f].phase = "running"
  /\ Idle(f)
  /\ (f = 1 /\ stopped) \/ \A n \in Nodes(f) : frames[f].node[n] \in Settled
  /\ frames' = [frames EXCEPT ![f].phase = IF f = 1 THEN "ended" ELSE "closing"]
  /\ UNCHANGED <<program, instances, count, holding, stopped, faults>>

(* The dispatcher returns and puts back what it found.  The stop event of  *)
(* a child is its own and nobody sets it.                                  *)
LeaveRun(f) ==
  /\ frames[f].phase = "running"
  /\ Idle(f)
  /\ (f = 1 /\ stopped) \/ \A n \in Nodes(f) : frames[f].node[n] \in Settled
  /\ frames' = [frames EXCEPT ![f].phase = IF f = 1 THEN "ended" ELSE "closing"]
  /\ instances' = frames[f].previous
  /\ UNCHANGED <<program, count, holding, stopped, faults>>

(* Mutant: one failed node fails the run.                                  *)
ResultOkWhole(g) == \A n \in Nodes(g) : frames[g].node[n] = "ok"

(* DagRunResult.ok                                                         *)
ResultOk(g) == \E n \in Nodes(g) : frames[g].node[n] = "ok"

CloseRow(g) ==
  /\ frames[g].phase = "closing"
  /\ frames' = [frames EXCEPT ![g].phase = "closed",
                              ![g].row = IF ResultOk(g) THEN "succeeded" ELSE "failed"]
  /\ UNCHANGED <<program, instances, count, holding, stopped, faults>>

(* Mutant: the permit goes back with the results of handlers only.         *)
DeliversKeeping(g) ==
  LET f == frames[g].parent
      n == frames[g].via
  IN  /\ frames[g].phase = "closed"
      /\ frames[f].phase = "running"
      /\ frames' = [frames EXCEPT ![g].phase = "ended",
                                  ![f].node[n] = IF ResultOk(g) THEN "ok" ELSE "failed"]
      /\ UNCHANGED <<program, instances, count, holding, stopped, faults>>

(* The output of the sub-DAG node, and the permit goes back with it.       *)
Delivers(g) ==
  LET f == frames[g].parent
      n == frames[g].via
  IN  /\ frames[g].phase = "closed"
      /\ frames[f].phase = "running"
      /\ frames' = [frames EXCEPT ![g].phase = "ended",
                                  ![f].node[n] = IF ResultOk(g) THEN "ok" ELSE "failed"]
      /\ holding' = holding \ {<<f, n>>}
      /\ count' = count + (IF <<f, n>> \in holding THEN 1 ELSE 0)
      /\ UNCHANGED <<program, instances, stopped, faults>>

-----------------------------------------------------------------------------
(* Stops, exceptions and cancellations.                                    *)

Stop ==
  /\ frames[1].phase = "running"
  /\ stopped' = TRUE
  /\ UNCHANGED <<program, frames, instances, count, holding, faults>>

HardStop ==
  /\ frames[1].phase = "running"
  /\ frames' = [frames EXCEPT ![1].phase = "aborting"]
  /\ UNCHANGED <<program, instances, count, holding, stopped, faults>>

(* A node task raises, when a record is refused for instance, and its      *)
(* dispatcher cancels the others.                                          *)
NodeRaises(f, n) ==
  /\ faults < MaxFaults
  /\ faults' = faults + 1
  /\ frames[f].phase = "running"
  /\ frames[f].node[n] \in {"recording", "executing"}
  /\ frames' = [frames EXCEPT ![f].node[n] = "gone", ![f].phase = "aborting"]
  /\ UNCHANGED <<program, instances, count, holding, stopped>>

(* The node of an aborted child run is gone, too, and an exception goes on *)
(* in the dispatcher above.                                                *)
Passed(fs, g) ==
  LET f == fs[g].parent
  IN  IF g = 1 THEN fs
      ELSE [fs EXCEPT ![f].node[fs[g].via] = "gone",
                      ![f].phase = IF fs[f].phase = "running" THEN "aborting" ELSE fs[f].phase]

(* The row of a child cannot be written.                                   *)
LifecycleRaises(g) ==
  /\ faults < MaxFaults
  /\ faults' = faults + 1
  /\ frames[g].phase \in {"opening", "closing"}
  /\ frames' = Passed([frames EXCEPT ![g].phase = "aborted"], g)
  /\ UNCHANGED <<program, instances, count, holding, stopped>>

NodeCancelled(f, n) ==
  /\ frames[f].phase = "aborting"
  /\ frames[f].node[n] \in {"recording", "executing"}
  /\ SetNode(f, n, "gone")
  /\ UNCHANGED <<program, instances, count, holding, stopped, faults>>

(* The cancellation of a sub-DAG node reaches its child run.  Nothing      *)
(* closes the row then.                                                    *)
ChildCancelled(g) ==
  /\ g > 1
  /\ frames[frames[g].parent].phase = "aborting"
  /\ \/ /\ frames[g].phase = "running"
        /\ frames' = [frames EXCEPT ![g].phase = "aborting"]
     \/ /\ frames[g].phase \in {"opening", "opened", "closing", "closed"}
        /\ frames' = Passed([frames EXCEPT ![g].phase = "aborted"], g)
  /\ UNCHANGED <<program, instances, count, holding, stopped, faults>>

(* Mutant: a broken off run keeps its permits.                             *)
AbortEndsKeeping(f) ==
  /\ frames[f].phase = "aborting"
  /\ Idle(f)
  /\ frames' = Passed([frames EXCEPT ![f].phase = "aborted"], f)
  /\ instances' = frames[f].previous
  /\ UNCHANGED <<program, count, holding, stopped, faults>>

(* All node tasks have ended: _release_all, and the finally clause.        *)
AbortEnds(f) ==
  LET own == {h \in holding : h[1] = f}
  IN  /\ frames[f].phase = "aborting"
      /\ Idle(f)
      /\ frames' = Passed([frames EXCEPT ![f].phase = "aborted"], f)
      /\ instances' = frames[f].previous
      /\ holding' = holding \ own
      /\ count' = count + Cardinality(own)
      /\ UNCHANGED <<program, stopped, faults>>

NodeSteps(f, n) ==
  \/ StartNode(f, n) \/ FailNode(f, n) \/ ExecuteNested(f, n) \/ ExecuteConfig(f, n)
  \/ ExecuteUnknown(f, n) \/ ExecuteHandler(f, n) \/ HandlerEnds(f, n) \/ NodeCancelled(f, n)
RunSteps(f) ==
  \/ OpenRow(f) \/ EnterRun(f) \/ LeaveRun(f) \/ CloseRow(f) \/ Delivers(f)
  \/ ChildCancelled(f) \/ AbortEnds(f)
Steps == \E f \in Frame : RunSteps(f) \/ \E n \in Nodes(f) : NodeSteps(f, n)

NestedNext ==
  \/ Steps
  \/ Stop \/ HardStop
  \/ \E f \in Frame : LifecycleRaises(f) \/ \E n \in Nodes(f) : NodeRaises(f, n)

(* The event loop runs every task that can go on; handlers end, since they *)
(* have timeouts.  Finitely many runs leave finitely many steps.           *)
Fairness == WF_nestedVars(Steps)

NestedSpec == NestedInit /\ [][NestedNext]_nestedVars /\ Fairness
-----------------------------------------------------------------------------
(* What there is to say of a program before it runs.                       *)

Closure(p) == DagClosure(DagRefs(p), p.root)

(* All sub-DAGs are named by nodes.                                        *)
Plain(p) == \A d \in Closure(p) : \A n \in DOMAIN p.body[d] : p.body[d][n].kind # "config"

(* In each of its DAGs the edges leave one order of the nodes.             *)
Sequential(p) ==
  \A d \in Closure(p) :
    LET layers == Layers(DOMAIN p.body[d], p.edges[d])
    IN  \A i \in DOMAIN layers : Cardinality(layers[i]) = 1

(* A node would hold a permit while it waits for nodes that need one.      *)
SelfContended(p) ==
  \E d \in Closure(p) : \E n \in DOMAIN p.body[d] :
    /\ p.body[d][n].resource /\ p.body[d][n].kind # "handler"
    /\ \E e \in DagClosure(DagRefs(p), p.body[d][n].ref) :
         \E m \in DOMAIN p.body[e] : p.body[e][m].resource

(* The runs from a run up to the root.                                     *)
Line(f) ==
  LET up[g \in 0 .. Len(frames)] == IF g = 0 THEN {} ELSE {g} \union up[frames[g].parent]
  IN  up[f]

TypeOK ==
  /\ program \in Programs
  /\ instances \in Dag
  /\ count \in 0 .. Permits
  /\ holding \subseteq Frame \X Node
  /\ stopped \in BOOLEAN /\ faults \in 0 .. MaxFaults
  /\ Len(frames) \in 1 .. MaxFrames
  /\ \A f \in Frame :
       /\ frames[f].dag \in Dag /\ frames[f].previous \in Dag
       /\ frames[f].parent \in 0 .. f - 1
       /\ f > 1 => frames[f].via \in Nodes(frames[f].parent)
       /\ frames[f].phase \in {"opening", "opened", "running", "closing", "closed", "ended",
                               "aborting", "aborted"}
       /\ frames[f].row \in {"none", "running", "succeeded", "failed"}
       /\ \A n \in Nodes(f) :
            /\ frames[f].node[n] \in {"waiting", "gone"} \union Busy \union Settled
            /\ frames[f].ran[n] \in {"not", None} \union Dag

(* A handler runs with the configuration that its own DAG gives the node,  *)
(* however the runs above and below end, as long as no sub-DAG node has    *)
(* another node beside it (runner.py:104-106, 332; executor.py:132).       *)
OwnInstances ==
  Sequential(program) => \A f \in Frame : \A n \in Nodes(f) : frames[f].ran[n] \in {"not", frames[f].dag}

(* What the loader accepts is refused nowhere: its count of levels and the *)
(* runner's agree (loader.py:75, 146; runner.py:770).                      *)
AcceptedNeverRefused ==
  Plain(program) /\ ValidateSubDagNesting(DagRefs(program), Limit) =>
    \A f \in Frame : \A n \in Nodes(f) : frames[f].node[n] # "refused"

(* A success of a handler, at any depth, makes every run above succeed; a  *)
(* child run is failed if nothing in it succeeded; and when the root       *)
(* returns no row is left at `running' (runner.py:784-801, models.py:33).  *)
RowsTellOutcome ==
  /\ \A g \in Frame : frames[g].row \in {"succeeded", "failed"} =>
       (frames[g].row = "succeeded" <=>
         \E f \in Frame : g \in Line(f) /\ \E n \in Nodes(f) :
           frames[f].ran[n] # "not" /\ frames[f].node[n] = "ok")
  /\ frames[1].phase = "ended" => \A g \in Frame \ {1} : frames[g].row \in {"succeeded", "failed"}

(* No permit is lost or doubled, and none stays with a run that is over,   *)
(* its own or that of a child (runner.py:335, 1304-1315).                  *)
PermitsConserved ==
  /\ count + Cardinality(holding) = Permits
  /\ \A h \in holding : frames[h[1]].phase \in {"running", "aborting"}

(* The root comes to an end, with all runs that it has begun, unless nodes *)
(* wait below for a permit that is held above (runner.py:755).             *)
RunEnds ==
  ~ SelfContended(program) =>
    <>(\/ Len(frames) = MaxFrames
       \/ \A f \in Frame : frames[f].phase \in {"ended", "aborted"})

(* Every handler runs in its own DAG.                                      *)
Isolated == \A f \in Frame : \A n \in Nodes(f) : frames[f].ran[n] \in {"not", frames[f].dag}

(* Runs are nested max_dag_depth deep at most.                             *)
DepthLimited == \A f \in Frame : Cardinality(Line(f)) <= Limit
=============================================================================
