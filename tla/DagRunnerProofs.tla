--------------------------- MODULE DagRunnerProofs ---------------------------
(***************************************************************************)
(* Proofs of the safety properties of DagRunner, for every set of graphs,  *)
(* any number of permits, other runs, hard stops and any set of faults,    *)
(* and of its refinement of DagExecution.                                  *)
(***************************************************************************)
EXTENDS DagRunner, FiniteSetTheorems, TLAPS

-----------------------------------------------------------------------------
(* Facts about the graph and the keys.                                     *)

LEMMA GraphFacts ==
  ASSUME graph \in Graphs
  PROVE  /\ graph.order \in Seq(Node)
         /\ graph.edges \subseteq Edge
         /\ graph.optional \subseteq graph.edges
         /\ graph.conditioned \subseteq graph.edges
         /\ graph.allowed \subseteq Node
         /\ DOMAIN graph.prefilled \subseteq Node
         /\ \A n \in DOMAIN graph.prefilled : graph.prefilled[n] \in Outcome
         /\ \A e \in graph.edges : e[1] # e[2]
<1>1. WellFormed(graph) /\ graph \in GraphRecord
  BY GraphAssumption DEF WellFormed
<1>2. /\ graph.order \in Seq(Node)
      /\ graph.edges \subseteq Edge
      /\ graph.allowed \subseteq Node
      /\ graph.prefilled \in UNION {[D -> Outcome] : D \in SUBSET Node}
  BY <1>1 DEF GraphRecord
<1>3. PICK D \in SUBSET Node : graph.prefilled \in [D -> Outcome]
  BY <1>2
<1> QED BY <1>1, <1>2, <1>3 DEF WellFormed

LEMMA FiniteKeys ==
  ASSUME NEW K \in SUBSET Edge
  PROVE  IsFiniteSet(K) /\ Cardinality(K) \in Nat
BY NodeAssumption, FS_Product, FS_Subset, FS_CardinalityType DEF Edge

(* Giving permits back moves them to the table or to a waiting run.        *)
LEMMA ReleaseFacts ==
  ASSUME TypeOK, NEW K, ReleaseKeys(K)
  PROVE  /\ acquired' = acquired \ K
         /\ acquired' \subseteq Edge
         /\ count' \in Nat
         /\ released' \in BOOLEAN
         /\ other' \in [held : Nat, waiting : Nat, uses : Nat]
         /\ count' + Cardinality(acquired') + other'.held
              = count + Cardinality(acquired) + other.held
<1> DEFINE freed  == Cardinality(acquired \intersect K)
           handed == IF freed <= other.waiting THEN freed ELSE other.waiting
<1>1. /\ acquired' = acquired \ K
      /\ count' = count + (freed - handed)
      /\ other' = [other EXCEPT !.held = @ + handed, !.waiting = @ - handed]
      /\ released' = (released \/ freed > 0)
  BY DEF ReleaseKeys
<1>2. acquired \subseteq Edge /\ acquired \intersect K \subseteq Edge
  BY DEF TypeOK
<1>3. freed \in Nat /\ Cardinality(acquired) \in Nat /\ IsFiniteSet(acquired)
  BY <1>2, FiniteKeys
<1>4. Cardinality(acquired \ K) = Cardinality(acquired) - freed
  BY <1>3, FS_Difference
<1>5. /\ other.held \in Nat /\ other.waiting \in Nat /\ other.uses \in Nat
      /\ other \in [held : Nat, waiting : Nat, uses : Nat]
      /\ count \in Nat /\ released \in BOOLEAN
  BY DEF TypeOK
<1> HIDE DEF freed
<1>6. handed \in Nat /\ freed - handed \in Nat /\ other.waiting - handed \in Nat
  BY <1>3, <1>5
<1> HIDE DEF handed
<1>7. /\ other' \in [held : Nat, waiting : Nat, uses : Nat]
      /\ other'.held = other.held + handed
  <2>1. other' = [held |-> other.held + handed, waiting |-> other.waiting - handed,
                  uses |-> other.uses]
    BY <1>1, <1>5
  <2>2. other.held + handed \in Nat
    BY <1>5, <1>6
  <2> QED BY <2>1, <2>2, <1>5, <1>6
<1>8. count' \in Nat
  BY <1>1, <1>5, <1>6
<1>9. released' \in BOOLEAN
  BY <1>1, <1>5
<1> QED BY <1>1, <1>2, <1>3, <1>4, <1>5, <1>6, <1>7, <1>8, <1>9
-----------------------------------------------------------------------------
(* Type correctness.                                                       *)

LEMMA StoreFacts ==
  ASSUME TypeOK, NEW n \in Node, NEW outcome \in Outcome,
         NEW taken \in SUBSET graph.conditioned, StoreResult(n, outcome, taken)
  PROVE  /\ outputs' = [outputs EXCEPT ![n] = outcome]
         /\ outputs' \in [Node -> Outcome \union {"none"}]
         /\ routed' \subseteq Edge
         /\ acquired' \subseteq Edge /\ count' \in Nat /\ released' \in BOOLEAN
         /\ other' \in [held : Nat, waiting : Nat, uses : Nat]
<1>1. Out(n) \subseteq Edge /\ taken \subseteq Edge /\ graph.optional \subseteq Edge
  BY GraphFacts DEF TypeOK, Out
<1>2. ReleaseKeys({Key(n)})
  BY DEF StoreResult
<1> QED BY <1>1, <1>2, ReleaseFacts DEF StoreResult, TypeOK

(* Type correctness: in particular no acquire drives the counter of the    *)
(* semaphore below zero, whatever the dispatcher and the other runs do.    *)
THEOREM RunnerTypeOK == Spec => []TypeOK
<1>1. Init => TypeOK
  <2> SUFFICES ASSUME Init PROVE TypeOK
    OBVIOUS
  <2>1. cur \in Node
    BY NodeAssumption DEF Init
  <2>2. /\ outputs \in [Node -> Outcome \union {"none"}]
        /\ task \in [Node -> TaskState] /\ stream \in [Edge -> StreamState]
    BY DEF Init, TaskState, StreamState
  <2>3. count \in Nat /\ other \in [held : Nat, waiting : Nat, uses : Nat]
    BY NumberAssumption DEF Init
  <2>4. todo \in Seq(Node) /\ accTasks \in Seq(Node)
    BY DEF Init
  <2> QED BY <2>1, <2>2, <2>3, <2>4 DEF Init, TypeOK
<1>2. TypeOK /\ [Next]_vars => TypeOK'
  <2> SUFFICES ASSUME TypeOK, [Next]_vars PROVE TypeOK'
    OBVIOUS
  <2> USE DEF sched, results, tasks, loopVars, permits, control
  <2>1. ASSUME NEW taken \in SUBSET graph.conditioned, NEW lucky \in SUBSET Node,
               Begin(taken, lucky)
        PROVE  TypeOK'
    <3>1. DOMAIN graph.prefilled \subseteq Node /\ graph.edges \subseteq Edge
          /\ graph.conditioned \subseteq Edge /\ lucky \subseteq Node
          /\ graph.allowed \subseteq Node
          /\ \A n \in DOMAIN graph.prefilled : graph.prefilled[n] \in Outcome
      BY GraphFacts DEF TypeOK
    <3>2. IsFiniteSet(lucky) /\ Cardinality(lucky) \in Nat
      BY <3>1, NodeAssumption, FS_Subset, FS_CardinalityType
    <3>3. count' \in Nat
      BY <2>1, <3>2 DEF TypeOK, Begin
    <3>4. outputs' \in [Node -> Outcome \union {"none"}] /\ task' \in [Node -> TaskState]
      BY <2>1, <3>1 DEF Begin, TaskState
    <3>5. acquired' \subseteq Edge /\ routed' \subseteq Edge
      BY <2>1, <3>1 DEF Begin, Key, Edge
    <3>6. running' \subseteq Node /\ started' \subseteq Node
      BY <2>1, <3>1 DEF Begin, Allowed
    <3>7. pc' = "top" /\ UNCHANGED <<graph, caller, todo, cur, stream, accTasks, watched,
                                    loopVars, released, other, control>>
      BY <2>1 DEF Begin
    <3> QED BY <3>3, <3>4, <3>5, <3>6, <3>7 DEF TypeOK, Inline
  <2>2. CASE Finish \/ WaitWhileRunning \/ ScanWhenIdle
    BY <2>2, GraphFacts DEF TypeOK, Finish, WaitWhileRunning, ScanWhenIdle, BeginWait, EnterScan,
       PendingStreams, Order, Ended, Inline, AwaitPoints
  <2>3. CASE ScanSkip \/ ScanBlocked
    <3>1. Head(todo) \in Node /\ Tail(todo) \in Seq(Node)
      BY <2>3 DEF TypeOK, ScanSkip, ScanBlocked
    <3> QED BY <2>3, <3>1 DEF TypeOK, ScanSkip, ScanBlocked, AwaitPoints
  <2>4. CASE ScanReady
    <3>1. Head(todo) \in Node /\ Tail(todo) \in Seq(Node)
      BY <2>4 DEF TypeOK, ScanReady
    <3> QED BY <2>4, <3>1 DEF TypeOK, ScanReady, AcquireKey, AwaitPoints, Key, Edge
  <2>5. CASE StartNode
    BY <2>5 DEF TypeOK, StartNode, TaskState, Inline
  <2>6. CASE FailNode
    <3>1. StoreResult(cur, "failed", {}) /\ cur \in Node /\ "failed" \in Outcome
      BY <2>6 DEF FailNode, TypeOK, Outcome
    <3> QED BY <2>6, <3>1, StoreFacts DEF TypeOK, FailNode, Inline
  <2>7. CASE ScanEnd
    <3>1. /\ pc' \in {"events", "top", "parked", "waiting"}
          /\ relTask' \in {relTask, "waiting", "none"}
          /\ watched' = watched \/ watched' = PendingStreams
      BY <2>7 DEF ScanEnd, BeginWait
    <3>2. UNCHANGED <<graph, caller, todo, cur, results, running, task, stream, accTasks,
                      events, completed, permits, control>>
      BY <2>7 DEF ScanEnd
    <3> QED BY <3>1, <3>2 DEF TypeOK, PendingStreams, Inline, AwaitPoints
  <2>8. CASE Unpark
    BY <2>8 DEF TypeOK, Unpark, Inline
  <2>9. CASE ReleaseTaskClears \/ ReleaseTaskEnds
    BY <2>9 DEF TypeOK, ReleaseTaskClears, ReleaseTaskEnds
  <2>10. CASE WaitReturns
    BY <2>10 DEF TypeOK, WaitReturns, AwaitPoints, Inline
  <2>11. CASE ReleaseTaskDropped \/ CollectRaises
    BY <2>11 DEF TypeOK, ReleaseTaskDropped, CollectRaises, Inline, AwaitPoints
  <2>12. CASE Collect
    BY <2>12 DEF TypeOK, Collect, Inline
  <2>13. CASE MergeSkip \/ MergeGather \/ MergeRaises
    <3>1. todo # <<>> => Head(todo) \in Node /\ Tail(todo) \in Seq(Node)
      BY DEF TypeOK
    <3>2. CASE MergeSkip
      BY <3>1, <3>2 DEF TypeOK, MergeSkip, AwaitPoints
    <3>3. CASE MergeGather
      BY <3>1, <3>3 DEF TypeOK, MergeGather, AwaitPoints
    <3>4. CASE MergeRaises
      BY <3>1, <3>4 DEF TypeOK, MergeRaises, AwaitPoints
    <3> QED BY <2>13, <3>2, <3>3, <3>4
  <2>14. ASSUME NEW taken \in SUBSET graph.conditioned, MergeStore(taken) PROVE TypeOK'
    <3>1. PICK outcome \in Outcome : StoreResult(cur, outcome, taken)
      BY <2>14 DEF MergeStore, Outcome
    <3>2. cur \in Node
      BY DEF TypeOK
    <3> QED BY <2>14, <3>1, <3>2, StoreFacts DEF TypeOK, MergeStore, Inline
  <2>15. CASE MergeEnd
    BY <2>15, GraphFacts DEF TypeOK, MergeEnd, EnterScan, Order, Inline
  <2>16. ASSUME NEW n \in Node, NEW taken \in SUBSET graph.conditioned, StoreSuccess(n, taken)
         PROVE  TypeOK'
    <3>1. StoreResult(n, task[n], taken) /\ task[n] \in Outcome
      BY <2>16 DEF StoreSuccess, Outcome
    <3> QED BY <2>16, <3>1, StoreFacts, GraphFacts
            DEF TypeOK, StoreSuccess, Inline, AwaitPoints, Order
  <2>17. ASSUME NEW n \in Node, StoreFailure(n) PROVE TypeOK'
    <3>1. StoreResult(n, "failed", {}) /\ "failed" \in Outcome
      BY <2>17 DEF StoreFailure, Outcome
    <3> QED BY <2>17, <3>1, StoreFacts, GraphFacts
            DEF TypeOK, StoreFailure, EnterScan, Inline, Order
  <2>18. ASSUME NEW n \in Node, ConditionRaises(n) PROVE TypeOK'
    <3>1. ReleaseKeys({Key(n)}) /\ task[n] \in Outcome
      BY <2>18 DEF ConditionRaises, Outcome
    <3> QED BY <2>18, <3>1, ReleaseFacts DEF TypeOK, ConditionRaises, AwaitPoints
  <2>19. CASE Emitted \/ EmitRaises \/ RecordRaises
    BY <2>19 DEF TypeOK, Emitted, EmitRaises, RecordRaises, Inline, AwaitPoints
  <2>20. ASSUME NEW edges \in SUBSET graph.edges, Spawn(edges) PROVE TypeOK'
    <3>1. edges \subseteq Edge
      BY GraphFacts DEF TypeOK
    <3>2. Cardinality(edges) \in Nat
      BY <3>1, FiniteKeys
    <3>3. acquired' \subseteq Edge /\ count' \in Nat /\ UNCHANGED <<released, other>>
      BY <2>20, <3>1, <3>2 DEF Spawn, TypeOK
    <3>4. Head(todo) \in Node /\ todo' \in Seq(Node) /\ accTasks' \in Seq(Node)
      BY <2>20 DEF Spawn, TypeOK
    <3>5. stream' \in [Edge -> StreamState]
      BY <2>20 DEF Spawn, TypeOK, StreamState
    <3>6. UNCHANGED <<graph, pc, caller, cur, results, running, task, watched, loopVars, control>>
      BY <2>20 DEF Spawn
    <3> QED BY <3>3, <3>4, <3>5, <3>6 DEF TypeOK
  <2>21. CASE SpawnEnd \/ SpawnStopped
    BY <2>21 DEF TypeOK, SpawnEnd, SpawnStopped, Inline
  <2>22. CASE EventsEnd
    BY <2>22, GraphFacts DEF TypeOK, EventsEnd, EnterScan, Order, Inline
  <2>23. CASE Cancel \/ CancelHandler
    BY <2>23 DEF TypeOK, Cancel, CancelHandler, AwaitPoints, Ended
  <2>24. CASE AbortEnd
    BY <2>24, ReleaseFacts DEF TypeOK, AbortEnd, Ended
  <2>25. ASSUME NEW n \in Node, NEW end \in Finished, NodeTaskEnds(n, end) PROVE TypeOK'
    BY <2>25 DEF TypeOK, NodeTaskEnds, TaskState, Finished
  <2>26. ASSUME NEW e \in Edge, NEW end \in {"ok", "failed", "raised"}, StreamEnds(e, end)
         PROVE  TypeOK'
    BY <2>26, ReleaseFacts DEF TypeOK, StreamEnds, StreamState
  <2>27. CASE OtherAcquires \/ OtherReleases \/ OtherClears
    <3>0. /\ other \in [held : Nat, waiting : Nat, uses : Nat]
          /\ count \in Nat /\ released \in BOOLEAN
      BY DEF TypeOK
    <3>1. CASE OtherAcquires
      <4>1. other.held + 1 \in Nat /\ other.waiting + 1 \in Nat /\ other.uses + 1 \in Nat
        BY <3>0
      <4>2. \/ count' = count - 1 /\ count > 0
               /\ other' = [other EXCEPT !.held = other.held + 1, !.uses = other.uses + 1]
            \/ count' = count
               /\ other' = [other EXCEPT !.waiting = other.waiting + 1, !.uses = other.uses + 1]
        BY <3>1 DEF OtherAcquires
      <4>3. other' \in [held : Nat, waiting : Nat, uses : Nat]
        BY <3>0, <4>1, <4>2
      <4>4. count' \in Nat
        BY <3>0, <4>2
      <4> QED BY <3>1, <4>3, <4>4 DEF TypeOK, OtherAcquires
    <3>2. CASE OtherReleases
      <4>1. CASE /\ other' = [other EXCEPT !.waiting = other.waiting - 1] /\ UNCHANGED count
                 /\ other.waiting > 0
        <5>1. other' \in [held : Nat, waiting : Nat, uses : Nat]
          BY <3>0, <4>1
        <5> QED BY <3>2, <4>1, <5>1 DEF TypeOK, OtherReleases
      <4>2. CASE other' = [other EXCEPT !.held = other.held - 1] /\ count' = count + 1 /\ other.held > 0
        <5>1. other' \in [held : Nat, waiting : Nat, uses : Nat] /\ count' \in Nat
          BY <3>0, <4>2
        <5> QED BY <3>2, <4>2, <5>1 DEF TypeOK, OtherReleases
      <4> QED BY <3>2, <4>1, <4>2 DEF OtherReleases
    <3>3. CASE OtherClears
      BY <3>3 DEF TypeOK, OtherClears
    <3> QED BY <2>27, <3>1, <3>2, <3>3
  <2>28. CASE Stop
    BY <2>28 DEF TypeOK, Stop
  <2>29. CASE UNCHANGED vars
    BY <2>29 DEF TypeOK, vars
  <2> QED
    BY <2>1, <2>2, <2>3, <2>4, <2>5, <2>6, <2>7, <2>8, <2>9, <2>10, <2>11, <2>12, <2>13, <2>14,
       <2>15, <2>16, <2>17, <2>18, <2>19, <2>20, <2>21, <2>22, <2>23, <2>24, <2>25, <2>26, <2>27,
       <2>28, <2>29
       DEF Next, Dispatcher, Failure, ReleaseTask, NodeTasks, StreamTasks, Others, Operator
<1> QED BY <1>1, <1>2, PTL DEF Spec

-----------------------------------------------------------------------------
(***************************************************************************)
(* The control invariant: what the dispatcher knows of its nodes.          *)
(***************************************************************************)

(* A node with an output or a task was started. Its output is missing      *)
(* while it is in `running' or in the queue, and a node with sub-tasks is  *)
(* never there.                                                            *)
NodeInv ==
  /\ \A n \in Node : Settled(n) \/ task[n] # "none" => n \in started
  /\ \A n \in running \union events : task[n] # "none" /\ ~ Settled(n)
  /\ \A n \in Node : task[n] # "none" =>
       n \in Allowed /\ (Up(n) = {} \/ n \notin graph.accumulate)
  /\ \A e \in Edge : stream[e] # "none" => e \in graph.edges /\ e[2] \in graph.accumulate

Scanning == {"scan", "recording", "failing"}
Draining == {"merge", "gathering", "events", "emitting", "spawn"} \union Scanning
Drained == {"begin", "top", "waiting", "parked", "returned"}

(* The queue is filled from `running' and is empty when the loop goes      *)
(* round.                                                                  *)
QueueInv ==
  /\ pc \in Draining => events \intersect running = {}
  /\ pc \in Scanning => caller \in {"idle", "event", "tail"}
  /\ pc \in Drained \/ (pc \in Scanning /\ caller # "event") => events = {}
  /\ pc = "returned" => running = {}

(* Where the dispatcher holds a node between two steps of a scan or of a   *)
(* merge pass, and what it has established about that node.                *)
CurInv ==
  /\ pc = "recording" => Candidate(cur) /\ Ready(cur)
  /\ pc = "failing" => Candidate(cur) /\ BlockedByFailure(cur)
  /\ pc = "gathering" => ~ Settled(cur) /\ UpstreamsSettled(cur) /\ Streams(cur) # {}

ControlInv == NodeInv /\ QueueInv /\ CurInv

LEMMA ReadyFrame ==
  ASSUME UNCHANGED <<graph, outputs, routed>>
  PROVE  \A n \in Node : /\ Ready(n)' <=> Ready(n)
                         /\ BlockedByFailure(n)' <=> BlockedByFailure(n)
                         /\ Settled(n)' <=> Settled(n)
                         /\ UpstreamsSettled(n)' <=> UpstreamsSettled(n)
BY DEF Ready, BlockedByFailure, BlockingFailures, SourceFailureCanBeSkipped, UpstreamsSettled,
       Settled, Succeeded, Up

LEMMA CandidateFrame ==
  ASSUME UNCHANGED <<graph, started>>
  PROVE  \A n \in Node : Candidate(n)' <=> Candidate(n)
BY DEF Candidate, Allowed

(* The steps of the other actors that leave the nodes alone.               *)
LEMMA CurFrame ==
  ASSUME TypeOK, CurInv, UNCHANGED <<graph, pc, cur, outputs, routed, started>>,
         \A e \in Edge : stream[e] # "none" => stream'[e] # "none"
  PROVE  CurInv'
<1>1. cur \in Node
  BY DEF TypeOK
<1>2. Streams(cur) \subseteq Streams(cur)'
  BY <1>1 DEF Streams
<1> QED BY <1>1, <1>2, ReadyFrame, CandidateFrame DEF CurInv

LEMMA NodeFrame ==
  ASSUME NodeInv, UNCHANGED <<graph, outputs, started, running, events, task, stream>>
  PROVE  NodeInv'
BY DEF NodeInv, Settled, Allowed, Up

(* The steps that only move the dispatcher on.                             *)
LEMMA DispatcherMoves ==
  ASSUME TypeOK, ControlInv,
         \/ Finish \/ WaitWhileRunning \/ ScanWhenIdle \/ ScanSkip \/ ScanReady \/ ScanBlocked
         \/ ScanEnd \/ Unpark \/ ReleaseTaskDropped \/ CollectRaises \/ MergeSkip \/ MergeGather
         \/ MergeRaises \/ MergeEnd \/ Emitted \/ EmitRaises \/ SpawnEnd \/ SpawnStopped
         \/ EventsEnd \/ RecordRaises \/ Cancel \/ CancelHandler \/ AbortEnd
  PROVE  ControlInv'
<1> USE DEF ControlInv, sched, results, tasks, loopVars, permits, control, Scanning, Draining, Drained
<1>1. CASE Finish
  <2>1. running = {} /\ events = {}
    BY <1>1 DEF Finish, CanContinue, QueueInv
  <2> QED BY <1>1, <2>1, NodeFrame DEF Finish, QueueInv, CurInv
<1>2. CASE WaitWhileRunning \/ ScanWhenIdle
  BY <1>2, NodeFrame DEF WaitWhileRunning, ScanWhenIdle, BeginWait, EnterScan, QueueInv, CurInv
<1>3. CASE ScanSkip
  BY <1>3, NodeFrame DEF ScanSkip, QueueInv, CurInv
<1>4. CASE ScanReady
  <2>1. /\ UNCHANGED <<graph, outputs, routed, started, running, events, task, stream, caller>>
        /\ pc = "scan" /\ pc' = "recording"
        /\ cur' = Head(todo) /\ Candidate(cur') /\ Ready(cur')
    BY <1>4 DEF ScanReady
  <2>2. Candidate(cur)' /\ Ready(cur)'
    BY <2>1 DEF Candidate, Allowed, Ready, BlockingFailures, SourceFailureCanBeSkipped,
       UpstreamsSettled, Settled, Succeeded, Up
  <2> QED BY <2>1, <2>2, NodeFrame DEF QueueInv, CurInv
<1>5. CASE ScanBlocked
  <2>1. /\ UNCHANGED <<graph, outputs, routed, started, running, events, task, stream, caller>>
        /\ pc = "scan" /\ pc' = "failing"
        /\ cur' = Head(todo) /\ Candidate(cur') /\ BlockedByFailure(cur')
    BY <1>5 DEF ScanBlocked
  <2>2. Candidate(cur)' /\ BlockedByFailure(cur)'
    BY <2>1 DEF Candidate, Allowed, BlockedByFailure, BlockingFailures, SourceFailureCanBeSkipped,
       UpstreamsSettled, Settled, Succeeded, Up
  <2> QED BY <2>1, <2>2, NodeFrame DEF QueueInv, CurInv
<1>6. CASE ScanEnd
  <2>1. /\ UNCHANGED <<graph, outputs, routed, started, running, events, task, stream, caller>>
        /\ pc = "scan"
        /\ pc' \in {"events", "top", "parked", "waiting"}
        /\ caller = "event" => pc' = "events"
    BY <1>6 DEF ScanEnd, BeginWait
  <2> QED BY <2>1, NodeFrame DEF QueueInv, CurInv
<1>7. CASE Unpark \/ ReleaseTaskDropped \/ CollectRaises
  BY <1>7, NodeFrame DEF Unpark, ReleaseTaskDropped, CollectRaises, QueueInv, CurInv
<1>8. CASE MergeSkip \/ MergeRaises \/ MergeEnd
  BY <1>8, NodeFrame DEF MergeSkip, MergeRaises, MergeEnd, EnterScan, QueueInv, CurInv
<1>9. CASE MergeGather
  <2>1. /\ UNCHANGED <<graph, outputs, routed, started, running, events, task, stream, caller>>
        /\ pc = "merge" /\ pc' = "gathering"
        /\ ~ Settled(cur') /\ UpstreamsSettled(cur') /\ Streams(cur') # {}
    BY <1>9 DEF MergeGather, Mergeable
  <2>2. ~ Settled(cur)' /\ UpstreamsSettled(cur)' /\ Streams(cur)' # {}
    BY <2>1 DEF Settled, Streams, UpstreamsSettled, Up
  <2> QED BY <2>1, <2>2, NodeFrame DEF QueueInv, CurInv
<1>10. CASE Emitted \/ EmitRaises \/ SpawnEnd \/ SpawnStopped \/ EventsEnd
  BY <1>10, NodeFrame DEF Emitted, EmitRaises, SpawnEnd, SpawnStopped, EventsEnd, EnterScan,
     QueueInv, CurInv
<1>11. CASE RecordRaises \/ Cancel \/ CancelHandler \/ AbortEnd
  BY <1>11, NodeFrame DEF RecordRaises, Cancel, CancelHandler, AbortEnd, QueueInv, CurInv
<1> QED BY <1>1, <1>2, <1>3, <1>4, <1>5, <1>6, <1>7, <1>8, <1>9, <1>10, <1>11

(* Storing the output of a node that is nowhere in the queues any more.    *)
LEMMA NodeStored ==
  ASSUME TypeOK, NodeInv, NEW n \in Node, NEW outcome \in Outcome,
         outputs' = [outputs EXCEPT ![n] = outcome],
         UNCHANGED <<graph, task, stream>>,
         running' \union events' \subseteq (running \union events) \ {n},
         started \subseteq started', n \in started'
  PROVE  NodeInv'
<1>1. \A m \in Node : outputs'[m] = IF m = n THEN outcome ELSE outputs[m]
  BY DEF TypeOK
<1>2. running \subseteq Node /\ events \subseteq Node
  BY DEF TypeOK
<1> QED BY <1>1, <1>2 DEF NodeInv, Settled, Allowed, Up

(* A node with sub-tasks has upstreams and is of kind accumulate, so it    *)
(* never got a task of its own.                                            *)
LEMMA StreamsHaveNoTask ==
  ASSUME TypeOK, NodeInv, NEW n \in Node, Streams(n) # {}
  PROVE  task[n] = "none" /\ n \notin running \union events
<1>1. PICK e \in Edge : e[2] = n /\ stream[e] # "none"
  BY DEF Streams
<1>2. e \in graph.edges /\ n \in graph.accumulate
  BY <1>1 DEF NodeInv
<1>3. e[1] \in Node /\ e = <<e[1], n>>
  BY <1>1 DEF Edge
<1>4. e[1] \in Up(n)
  BY <1>2, <1>3 DEF Up
<1> QED BY <1>2, <1>4 DEF NodeInv

LEMMA ControlInvHolds == Spec => []ControlInv
<1>1. Init => ControlInv
  BY DEF Init, ControlInv, NodeInv, QueueInv, CurInv, Settled, Scanning, Draining, Drained
<1>2. TypeOK /\ ControlInv /\ [Next]_vars => ControlInv'
  <2> SUFFICES ASSUME TypeOK, ControlInv, [Next]_vars PROVE ControlInv'
    OBVIOUS
  <2> USE DEF sched, results, tasks, loopVars, permits, control, Scanning, Draining, Drained
  <2>0. NodeInv /\ QueueInv /\ CurInv /\ cur \in Node /\ running \subseteq Node /\ events \subseteq Node
    BY DEF ControlInv, TypeOK
  <2>1. ASSUME NEW taken \in SUBSET graph.conditioned, NEW lucky \in SUBSET Node,
               Begin(taken, lucky)
        PROVE  ControlInv'
    <3>1. /\ running' \subseteq Allowed \ DOMAIN graph.prefilled
          /\ started' = DOMAIN graph.prefilled \union running'
          /\ \A n \in running' : Up(n) = {} /\ n \in Node
          /\ \A n \in Node : task'[n] = IF n \in running' THEN "executing" ELSE "none"
          /\ \A n \in Node : outputs'[n] =
               IF n \in DOMAIN graph.prefilled THEN graph.prefilled[n] ELSE "none"
          /\ events = {} /\ pc' = "top" /\ UNCHANGED <<graph, events, stream>>
      BY <2>1, <2>0, GraphFacts DEF Begin, TypeOK, Allowed, QueueInv
    <3>2. NodeInv'
      BY <3>1, <2>0 DEF NodeInv, Settled, Allowed, Up
    <3> QED BY <3>1, <3>2 DEF ControlInv, QueueInv, CurInv
  <2>2. CASE StartNode
    <3>1. /\ pc = "recording" /\ pc' = "scan" /\ Candidate(cur)
          /\ running' = running \union {cur} /\ started' = started \union {cur}
          /\ task' = [task EXCEPT ![cur] = "executing"]
          /\ UNCHANGED <<graph, caller, outputs, events, stream>>
      BY <2>2, <2>0 DEF StartNode, CurInv
    <3>2. cur \notin started /\ cur \in Allowed /\ cur \notin graph.accumulate
      BY <3>1 DEF Candidate
    <3>3. NodeInv'
      BY <3>1, <3>2, <2>0 DEF NodeInv, Settled, Allowed, Up, TypeOK
    <3>4. cur \notin events
      BY <3>2, <2>0 DEF NodeInv
    <3> QED BY <3>1, <3>3, <3>4, <2>0 DEF ControlInv, QueueInv, CurInv
  <2>3. CASE FailNode
    <3>1. /\ pc = "failing" /\ pc' = "scan" /\ Candidate(cur)
          /\ outputs' = [outputs EXCEPT ![cur] = "failed"]
          /\ started' = started \union {cur}
          /\ UNCHANGED <<graph, caller, running, events, task, stream>>
      BY <2>3, <2>0 DEF FailNode, CurInv, StoreResult
    <3>2. cur \notin running \union events
      BY <3>1, <2>0 DEF Candidate, NodeInv
    <3>3. NodeInv'
      BY <3>1, <3>2, <2>0, NodeStored DEF Outcome
    <3> QED BY <3>1, <3>3, <2>0 DEF ControlInv, QueueInv, CurInv
  <2>4. CASE WaitReturns
    <3>1. /\ pc' \in {"dropping", "collect"} /\ events' \subseteq running
          /\ UNCHANGED <<graph, outputs, started, running, task, stream>>
      BY <2>4 DEF WaitReturns
    <3>2. NodeInv'
      BY <3>1, <2>0 DEF NodeInv, Settled, Allowed, Up
    <3> QED BY <3>1, <3>2 DEF ControlInv, QueueInv, CurInv
  <2>5. CASE Collect
    <3>1. /\ pc' = "merge" /\ running' = running \ events
          /\ UNCHANGED <<graph, outputs, started, events, task, stream>>
      BY <2>5 DEF Collect
    <3>2. NodeInv'
      BY <3>1, <2>0 DEF NodeInv, Settled, Allowed, Up
    <3> QED BY <3>1, <3>2 DEF ControlInv, QueueInv, CurInv
  <2>6. ASSUME NEW taken \in SUBSET graph.conditioned, MergeStore(taken) PROVE ControlInv'
    <3>1. PICK outcome \in Outcome : outputs' = [outputs EXCEPT ![cur] = outcome]
      BY <2>6 DEF MergeStore, StoreResult, Outcome
    <3>2. /\ pc = "gathering" /\ pc' = "merge" /\ started' = started \union {cur}
          /\ UNCHANGED <<graph, running, events, task, stream>>
      BY <2>6 DEF MergeStore
    <3>3. cur \notin running \union events
      BY <3>2, <2>0, StreamsHaveNoTask DEF CurInv
    <3>4. NodeInv'
      BY <3>1, <3>2, <3>3, <2>0, NodeStored
    <3> QED BY <3>2, <3>4, <2>0 DEF ControlInv, QueueInv, CurInv
  <2>7. ASSUME NEW n \in Node,
               \/ \E taken \in SUBSET graph.conditioned : StoreSuccess(n, taken)
               \/ StoreFailure(n) \/ ConditionRaises(n)
        PROVE  ControlInv'
    <3>1. /\ pc = "events" /\ n \in events /\ events' = events \ {n}
          /\ pc' \in {"events", "emitting", "spawn", "scan", "aborting"}
          /\ pc' = "scan" => caller' = "event"
          /\ UNCHANGED <<graph, started, running, task, stream>>
      BY <2>7 DEF StoreSuccess, StoreFailure, ConditionRaises, EnterScan
    <3>2. PICK outcome \in Outcome : outputs' = [outputs EXCEPT ![n] = outcome]
      BY <2>7 DEF StoreSuccess, StoreFailure, ConditionRaises, StoreResult, Outcome
    <3>3. n \notin running /\ n \in started
      BY <3>1, <2>0 DEF QueueInv, NodeInv
    <3>4. NodeInv'
      BY <3>1, <3>2, <3>3, <2>0, NodeStored
    <3> QED BY <3>1, <3>4, <2>0 DEF ControlInv, QueueInv, CurInv
  <2>8. ASSUME NEW edges \in SUBSET graph.edges, Spawn(edges) PROVE ControlInv'
    <3>1. /\ pc = "spawn" /\ pc' = pc /\ todo # <<>>
          /\ edges \subseteq (IF Head(todo) \in (Allowed \intersect graph.accumulate)
                                 /\ ~ Settled(Head(todo))
                              THEN Unstreamed(Head(todo)) ELSE {})
          /\ stream' = [e \in Edge |-> IF e \in edges THEN "executing" ELSE stream[e]]
          /\ UNCHANGED <<graph, outputs, started, running, events, task>>
      BY <2>8 DEF Spawn
    <3>2. \A e \in edges : e[2] \in graph.accumulate /\ e \in graph.edges
      BY <3>1 DEF Unstreamed
    <3>3. NodeInv'
      BY <3>1, <3>2, <2>0 DEF NodeInv, Settled, Allowed, Up
    <3> QED BY <3>1, <3>3, <2>0 DEF ControlInv, QueueInv, CurInv
  <2>9. ASSUME NEW n \in Node, NEW end \in Finished, NodeTaskEnds(n, end) PROVE ControlInv'
    <3>1. /\ task' = [task EXCEPT ![n] = end] /\ n \in running /\ end # "none"
          /\ UNCHANGED <<graph, pc, caller, cur, outputs, routed, started, running, events, stream>>
      BY <2>9 DEF NodeTaskEnds, Finished, Outcome
    <3>2. NodeInv'
      BY <3>1, <2>0 DEF NodeInv, Settled, Allowed, Up, TypeOK
    <3>3. CurInv'
      BY <3>1, <2>0, CurFrame
    <3> QED BY <3>1, <3>2, <3>3, <2>0 DEF ControlInv, QueueInv
  <2>10. ASSUME NEW e \in Edge, NEW end \in {"ok", "failed", "raised"}, StreamEnds(e, end)
         PROVE  ControlInv'
    <3>1. /\ stream[e] = "executing" /\ stream' = [stream EXCEPT ![e] = end]
          /\ UNCHANGED <<graph, pc, caller, cur, outputs, routed, started, running, events, task>>
      BY <2>10 DEF StreamEnds
    <3>2. \A f \in Edge : stream'[f] # "none" <=> stream[f] # "none"
      BY <3>1 DEF TypeOK
    <3>3. NodeInv'
      BY <3>1, <3>2, <2>0 DEF NodeInv, Settled, Allowed, Up
    <3>4. CurInv'
      BY <3>1, <3>2, <2>0, CurFrame
    <3> QED BY <3>1, <3>3, <3>4, <2>0 DEF ControlInv, QueueInv
  <2>11. CASE ReleaseTask \/ Others \/ Stop \/ UNCHANGED vars
    <3>1. UNCHANGED <<graph, pc, caller, cur, outputs, routed, started, running, events, task, stream>>
      BY <2>11 DEF ReleaseTask, ReleaseTaskClears, ReleaseTaskEnds, Others, OtherAcquires,
         OtherReleases, OtherClears, Stop, vars
    <3> QED BY <3>1, <2>0, NodeFrame, CurFrame DEF ControlInv, QueueInv
  <2> QED
    BY <2>1, <2>2, <2>3, <2>4, <2>5, <2>6, <2>7, <2>8, <2>9, <2>10, <2>11, DispatcherMoves
       DEF Next, Dispatcher, Failure, NodeTasks, StreamTasks, Operator
<1> QED BY <1>1, <1>2, RunnerTypeOK, PTL DEF Spec

(* Nothing has happened before the run begins.                             *)
BeginInv ==
  pc = "begin" =>
    /\ routed = {} /\ acquired = {} /\ running = {}
    /\ \A n \in Node : outputs[n] = "none" /\ task[n] = "none"
    /\ \A e \in Edge : stream[e] = "none"

LEMMA BeginInvHolds == Spec => []BeginInv
<1>1. Init => BeginInv
  BY DEF Init, BeginInv
<1>2. BeginInv /\ [Next]_vars => BeginInv'
  <2> SUFFICES ASSUME BeginInv, [Next]_vars PROVE BeginInv'
    OBVIOUS
  <2> USE DEF sched, results, tasks, loopVars, permits, control
  <2>1. CASE \/ \E taken \in SUBSET graph.conditioned, lucky \in SUBSET Node : Begin(taken, lucky)
             \/ Finish \/ WaitWhileRunning \/ ScanWhenIdle \/ ScanSkip \/ ScanReady \/ StartNode
             \/ ScanBlocked \/ FailNode \/ ScanEnd \/ Unpark
    <3>1. pc' # "begin"
      BY <2>1 DEF Begin, Finish, WaitWhileRunning, ScanWhenIdle, BeginWait, EnterScan, ScanSkip,
         ScanReady, StartNode, ScanBlocked, FailNode, ScanEnd, Unpark
    <3> QED BY <3>1 DEF BeginInv
  <2>2. CASE \/ WaitReturns \/ ReleaseTaskDropped \/ Collect \/ CollectRaises \/ MergeSkip
             \/ MergeGather \/ MergeRaises \/ MergeEnd
             \/ \E taken \in SUBSET graph.conditioned : MergeStore(taken)
    <3>1. pc' # "begin"
      BY <2>2 DEF WaitReturns, ReleaseTaskDropped, Collect, CollectRaises, MergeSkip, MergeGather,
         MergeRaises, MergeEnd, EnterScan, MergeStore
    <3> QED BY <3>1 DEF BeginInv
  <2>3. CASE \/ \E n \in Node : StoreFailure(n)
             \/ \E n \in Node, taken \in SUBSET graph.conditioned : StoreSuccess(n, taken)
             \/ Emitted \/ (\E edges \in SUBSET graph.edges : Spawn(edges))
             \/ SpawnEnd \/ SpawnStopped \/ EventsEnd \/ AbortEnd \/ Failure \/ Cancel
             \/ CancelHandler
    <3>1. pc' # "begin"
      BY <2>3 DEF StoreFailure, EnterScan, StoreSuccess, Emitted, Spawn, SpawnEnd, SpawnStopped,
         EventsEnd, AbortEnd, Failure, ConditionRaises, EmitRaises, RecordRaises, Cancel,
         CancelHandler
    <3> QED BY <3>1 DEF BeginInv
  <2>4. CASE NodeTasks \/ StreamTasks
    BY <2>4 DEF BeginInv, NodeTasks, NodeTaskEnds, StreamTasks, StreamEnds
  <2>5. CASE ReleaseTask \/ Others \/ Stop \/ UNCHANGED vars
    BY <2>5 DEF BeginInv, ReleaseTask, ReleaseTaskClears, ReleaseTaskEnds, Others, OtherAcquires,
       OtherReleases, OtherClears, Stop, vars
  <2> QED BY <2>1, <2>2, <2>3, <2>4, <2>5 DEF Next, Dispatcher, Operator
<1> QED BY <1>1, <1>2, PTL DEF Spec

-----------------------------------------------------------------------------
(***************************************************************************)
(* The steps, as far as outputs and tasks are concerned: a step leaves the *)
(* outputs alone, or begins the run, or stores one missing output.         *)
(***************************************************************************)
Stores(n, outcome) ==
  /\ ~ Settled(n)
  /\ outputs' = [outputs EXCEPT ![n] = outcome]
  /\ routed \subseteq routed'
  /\ \A e \in routed' \ routed :
       e \in graph.edges /\ e[1] = n /\ (outcome = "failed" => e \in graph.optional)
  /\ outcome = "failed" => task[n] # "none" \/ Streams(n) # {} \/ BlockedByFailure(n)
  /\ UNCHANGED <<graph, task, stream>>

LEMMA StoreResultStores ==
  ASSUME TypeOK, NEW n \in Node, NEW outcome \in Outcome, NEW taken \in SUBSET graph.conditioned,
         taken \subseteq Out(n), StoreResult(n, outcome, taken), ~ Settled(n),
         outcome = "failed" => task[n] # "none" \/ Streams(n) # {} \/ BlockedByFailure(n),
         UNCHANGED <<graph, task, stream>>
  PROVE  Stores(n, outcome)
BY DEF Stores, StoreResult, Out

LEMMA OutputStep ==
  ASSUME TypeOK, ControlInv, BeginInv, [Next]_vars
  PROVE  \/ UNCHANGED <<graph, outputs, routed>>
         \/ \E taken \in SUBSET graph.conditioned, lucky \in SUBSET Node : Begin(taken, lucky)
         \/ \E n \in Node, outcome \in Outcome : Stores(n, outcome)
<1> USE DEF sched, results, tasks, loopVars, permits, control
<1>0. NodeInv /\ CurInv /\ cur \in Node
  BY DEF ControlInv, TypeOK
<1> DEFINE Goal == \E n \in Node, outcome \in Outcome : Stores(n, outcome)
<1>1. CASE FailNode
  <2>1. StoreResult(cur, "failed", {}) /\ BlockedByFailure(cur) /\ Candidate(cur)
        /\ UNCHANGED <<graph, task, stream>>
    BY <1>1, <1>0 DEF FailNode, CurInv
  <2>2. ~ Settled(cur)
    BY <2>1, <1>0 DEF Candidate, NodeInv
  <2>3. Stores(cur, "failed")
    BY <2>1, <2>2, <1>0, StoreResultStores DEF Outcome
  <2> QED BY <2>3, <1>0 DEF Outcome
<1>2. ASSUME NEW taken \in SUBSET graph.conditioned, MergeStore(taken) PROVE Goal
  <2>1. PICK outcome \in Outcome : StoreResult(cur, outcome, taken)
    BY <1>2 DEF MergeStore, Outcome
  <2>2. /\ ~ Settled(cur) /\ Streams(cur) # {} /\ taken \subseteq Out(cur)
        /\ UNCHANGED <<graph, task, stream>>
    BY <1>2, <1>0 DEF MergeStore, CurInv
  <2>3. Stores(cur, outcome)
    BY <2>1, <2>2, <1>0, StoreResultStores
  <2> QED BY <2>3, <1>0
<1>3. ASSUME NEW n \in Node, NEW taken \in SUBSET graph.conditioned, StoreSuccess(n, taken)
      PROVE  Goal
  <2>1. /\ StoreResult(n, task[n], taken) /\ n \in events /\ taken \subseteq Out(n)
        /\ task[n] \in {"ok", "empty"}
        /\ UNCHANGED <<graph, task, stream>>
    BY <1>3 DEF StoreSuccess
  <2>2. ~ Settled(n) /\ task[n] # "none"
    BY <2>1, <1>0 DEF NodeInv
  <2>3. Stores(n, task[n]) /\ task[n] \in Outcome
    BY <2>1, <2>2, StoreResultStores DEF Outcome
  <2> QED BY <2>3
<1>4. ASSUME NEW n \in Node, StoreFailure(n) PROVE Goal
  <2>1. /\ StoreResult(n, "failed", {}) /\ n \in events /\ task[n] = "failed"
        /\ UNCHANGED <<graph, task, stream>>
    BY <1>4 DEF StoreFailure
  <2>2. ~ Settled(n)
    BY <2>1, <1>0 DEF NodeInv
  <2>3. Stores(n, "failed")
    BY <2>1, <2>2, StoreResultStores DEF Outcome
  <2> QED BY <2>3 DEF Outcome
<1>5. ASSUME NEW n \in Node, ConditionRaises(n) PROVE Goal
  <2>1. /\ outputs' = [outputs EXCEPT ![n] = task[n]] /\ task[n] \in {"ok", "empty"}
        /\ n \in events /\ UNCHANGED <<graph, routed, task, stream>>
    BY <1>5 DEF ConditionRaises
  <2>2. ~ Settled(n)
    BY <2>1, <1>0 DEF NodeInv
  <2>3. Stores(n, task[n])
    BY <2>1, <2>2 DEF Stores
  <2> QED BY <2>1, <2>3 DEF Outcome
<1>6. CASE \/ Finish \/ WaitWhileRunning \/ ScanWhenIdle \/ ScanSkip \/ ScanReady \/ StartNode
           \/ ScanBlocked \/ ScanEnd \/ Unpark
  BY <1>6 DEF Finish, WaitWhileRunning, ScanWhenIdle, ScanSkip, ScanReady, StartNode, ScanBlocked,
     ScanEnd, Unpark
<1>7. CASE \/ WaitReturns \/ ReleaseTaskDropped \/ Collect \/ CollectRaises \/ MergeSkip
           \/ MergeGather \/ MergeRaises \/ MergeEnd \/ Emitted
           \/ \E edges \in SUBSET graph.edges : Spawn(edges)
           \/ SpawnEnd \/ SpawnStopped \/ EventsEnd \/ AbortEnd
  BY <1>7 DEF WaitReturns, ReleaseTaskDropped, Collect, CollectRaises, MergeSkip, MergeGather,
     MergeRaises, MergeEnd, Emitted, Spawn, SpawnEnd, SpawnStopped, EventsEnd, AbortEnd
<1>8. CASE \/ EmitRaises \/ RecordRaises \/ ReleaseTask \/ NodeTasks \/ StreamTasks \/ Others
           \/ Operator \/ UNCHANGED vars
  BY <1>8 DEF EmitRaises, RecordRaises, ReleaseTask, ReleaseTaskClears, ReleaseTaskEnds, NodeTasks,
     NodeTaskEnds, StreamTasks, StreamEnds, Others, OtherAcquires, OtherReleases, OtherClears,
     Operator, Stop, Cancel, CancelHandler, vars
<1> QED BY <1>1, <1>2, <1>3, <1>4, <1>5, <1>6, <1>7, <1>8 DEF Next, Dispatcher, Failure

(* A task or sub-task begins once: a node task for a node without          *)
(* upstreams at the beginning of the run, or for the node of the scan.     *)
LEMMA TaskStep ==
  ASSUME TypeOK, ControlInv, BeginInv, [Next]_vars
  PROVE  /\ \A n \in Node : task'[n] # task[n] =>
              \/ task[n] = "executing" /\ task'[n] \in Finished
              \/ pc = "begin" /\ task[n] = "none" /\ Up(n) = {} /\ n \in Allowed
              \/ pc = "recording" /\ task[n] = "none" /\ n = cur /\ UNCHANGED <<outputs, routed>>
         /\ \A e \in Edge : stream'[e] # stream[e] =>
              \/ stream[e] = "executing" /\ stream'[e] # "none"
              \/ stream[e] = "none" /\ e \in routed /\ UNCHANGED <<outputs, routed>>
<1> USE DEF sched, results, tasks, loopVars, permits, control
<1>1. ASSUME NEW taken \in SUBSET graph.conditioned, NEW lucky \in SUBSET Node,
             Begin(taken, lucky)
      PROVE  /\ \A n \in Node : task'[n] # task[n] =>
                  pc = "begin" /\ task[n] = "none" /\ Up(n) = {} /\ n \in Allowed
             /\ stream' = stream
  BY <1>1 DEF BeginInv, Begin
<1>2. CASE StartNode
  <2>1. Candidate(cur) /\ cur \in Node /\ cur \notin started
    BY <1>2 DEF ControlInv, CurInv, StartNode, TypeOK, Candidate
  <2>2. task[cur] = "none"
    BY <2>1 DEF ControlInv, NodeInv
  <2> QED BY <1>2, <2>2 DEF StartNode, TypeOK
<1>3. ASSUME NEW edges \in SUBSET graph.edges, Spawn(edges)
      PROVE  /\ task' = task /\ UNCHANGED <<outputs, routed>>
             /\ \A e \in Edge : stream'[e] # stream[e] => stream[e] = "none" /\ e \in routed
  <2>1. \A e \in edges : stream[e] = "none" /\ e \in routed
    BY <1>3 DEF Spawn, Unstreamed
  <2> QED BY <1>3, <2>1 DEF Spawn
<1>4. ASSUME NEW n \in Node, NEW end \in Finished, NodeTaskEnds(n, end)
      PROVE  /\ stream' = stream
             /\ \A m \in Node : task'[m] # task[m] =>
                  task[m] = "executing" /\ task'[m] \in Finished
  BY <1>4 DEF NodeTaskEnds, TypeOK
<1>5. ASSUME NEW e \in Edge, NEW end \in {"ok", "failed", "raised"}, StreamEnds(e, end)
      PROVE  /\ task' = task
             /\ \A f \in Edge : stream'[f] # stream[f] =>
                  stream[f] = "executing" /\ stream'[f] # "none"
  BY <1>5 DEF StreamEnds, TypeOK
<1>6. CASE \/ Finish \/ WaitWhileRunning \/ ScanWhenIdle \/ ScanSkip \/ ScanReady
           \/ ScanBlocked \/ ScanEnd \/ Unpark \/ FailNode \/ ReleaseTask \/ Others
  BY <1>6 DEF Finish, WaitWhileRunning, ScanWhenIdle, ScanSkip, ScanReady, ScanBlocked,
     ScanEnd, Unpark, FailNode, ReleaseTask, ReleaseTaskClears, ReleaseTaskEnds, Others,
     OtherAcquires, OtherReleases, OtherClears
<1>7. CASE \/ WaitReturns \/ ReleaseTaskDropped \/ Collect \/ CollectRaises \/ MergeSkip
           \/ MergeGather \/ MergeRaises \/ MergeEnd \/ Emitted
           \/ (\E taken \in SUBSET graph.conditioned : MergeStore(taken))
           \/ SpawnEnd \/ SpawnStopped \/ EventsEnd \/ AbortEnd
  BY <1>7 DEF WaitReturns, ReleaseTaskDropped, Collect, CollectRaises, MergeSkip, MergeGather,
     MergeRaises, MergeEnd, MergeStore, Emitted, SpawnEnd, SpawnStopped, EventsEnd, AbortEnd
<1>8. CASE \/ (\E n \in Node, taken \in SUBSET graph.conditioned : StoreSuccess(n, taken))
           \/ (\E n \in Node : StoreFailure(n) \/ ConditionRaises(n))
           \/ EmitRaises \/ RecordRaises \/ Operator \/ UNCHANGED vars
  BY <1>8 DEF StoreSuccess, StoreFailure, ConditionRaises, EmitRaises, RecordRaises,
     Operator, Stop, Cancel, CancelHandler, vars
<1> QED BY <1>1, <1>2, <1>3, <1>4, <1>5, <1>6, <1>7, <1>8
        DEF Next, Dispatcher, Failure, NodeTasks, StreamTasks

-----------------------------------------------------------------------------
(* Outputs, dependencies and failures.                                     *)

(* Action property: an output is final, and no node is run a second time   *)
(* (_store_result, runner.py:335-354, and the `started' set).              *)
THEOREM RunnerSettledForever == Spec => SettledForever
<1>1. TypeOK /\ ControlInv /\ BeginInv /\ [Next]_vars => [SettledStep]_vars
  <2> SUFFICES ASSUME TypeOK, ControlInv, BeginInv, [Next]_vars,
                      NEW n \in Node
               PROVE  /\ Settled(n) => outputs'[n] = outputs[n]
                      /\ task[n] \in Finished => task'[n] = task[n]
    BY DEF SettledStep
  <2>1. Settled(n) => outputs'[n] = outputs[n]
    <3>1. ASSUME NEW taken \in SUBSET graph.conditioned, NEW lucky \in SUBSET Node,
                 Begin(taken, lucky)
          PROVE  ~ Settled(n)
      BY <3>1 DEF Begin, BeginInv, Settled
    <3>2. ASSUME NEW m \in Node, NEW outcome \in Outcome, Stores(m, outcome), Settled(n)
          PROVE  outputs'[n] = outputs[n]
      BY <3>2 DEF Stores, TypeOK
    <3> QED BY <3>1, <3>2, OutputStep
  <2>2. task[n] \in Finished => task'[n] = task[n]
    BY TaskStep DEF Finished, Outcome
  <2> QED BY <2>1, <2>2
<1> QED BY <1>1, RunnerTypeOK, ControlInvHolds, BeginInvHolds, PTL DEF Spec, SettledForever

(* Only the edges of stored outputs are routed: of all kinds on success,   *)
(* optional ones on failure.                                               *)
RoutedInv ==
  \A e \in routed :
    e \in graph.edges /\ (Succeeded(e[1]) \/ (outputs[e[1]] = "failed" /\ e \in graph.optional))

DependencyInv == RoutedInv /\ DependencyOrder /\ FailureJustified

(* Ready and BlockedByFailure, spelled out.                                *)
LEMMA ReadyMeans ==
  ASSUME TypeOK, NEW n \in Node, Ready(n)
  PROVE  \A u \in Up(n) :
           \/ Succeeded(u) /\ <<u, n>> \in routed
           \/ /\ outputs[u] = "failed"
              /\ \/ <<u, n>> \in graph.optional
                 \/ /\ u \in graph.sources
                    /\ \E o \in Up(n) : outputs[o] = "ok" /\ <<o, n>> \in routed
<1> SUFFICES ASSUME NEW u \in Up(n)
             PROVE  \/ Succeeded(u) /\ <<u, n>> \in routed
                    \/ /\ outputs[u] = "failed"
                       /\ \/ <<u, n>> \in graph.optional
                          \/ /\ u \in graph.sources
                             /\ \E o \in Up(n) : outputs[o] = "ok" /\ <<o, n>> \in routed
  OBVIOUS
<1>1. u \in Node /\ outputs[u] \in Outcome
  BY DEF Ready, UpstreamsSettled, Settled, Up, TypeOK
<1>2. CASE Succeeded(u)
  BY <1>2 DEF Ready
<1>3. CASE outputs[u] = "failed"
  BY <1>1, <1>3 DEF Ready, BlockingFailures, SourceFailureCanBeSkipped
<1> QED BY <1>1, <1>2, <1>3 DEF Succeeded, Outcome

LEMMA DependencyInvHolds == Spec => []DependencyInv
<1>1. Init => DependencyInv
  BY DEF Init, DependencyInv, RoutedInv, DependencyOrder, FailureJustified
<1>2. TypeOK /\ ControlInv /\ BeginInv /\ DependencyInv /\ [Next]_vars => DependencyInv'
  <2> SUFFICES ASSUME TypeOK, ControlInv, BeginInv, DependencyInv, [Next]_vars
               PROVE  DependencyInv'
    OBVIOUS
  <2>0. /\ TypeOK /\ graph.edges \subseteq Edge /\ graph.conditioned \subseteq graph.edges
        /\ RoutedInv /\ DependencyOrder /\ FailureJustified
    BY GraphFacts DEF TypeOK, DependencyInv
  <2>1. ASSUME NEW taken \in SUBSET graph.conditioned, NEW lucky \in SUBSET Node,
               Begin(taken, lucky)
        PROVE  DependencyInv'
    <3>1. /\ \A n \in Node : outputs'[n] =
               IF n \in DOMAIN graph.prefilled THEN graph.prefilled[n] ELSE "none"
          /\ \A e \in routed' : /\ e \in graph.edges
                                /\ e[1] \in DOMAIN graph.prefilled /\ graph.prefilled[e[1]] = "ok"
          /\ \A n \in Node : task'[n] # "none" => Up(n) = {} /\ n \in Allowed
          /\ \A e \in Edge : stream'[e] = "none"
          /\ graph' = graph
      BY <2>1, <2>0 DEF Begin, BeginInv, Allowed, Up
    <3>2. RoutedInv'
      BY <3>1, <2>0 DEF RoutedInv, Succeeded, Edge
    <3>3. DependencyOrder'
      BY <3>1 DEF DependencyOrder, Up, Allowed
    <3>4. FailureJustified'
      BY <3>1 DEF FailureJustified
    <3> QED BY <3>2, <3>3, <3>4 DEF DependencyInv
  <2>2. ASSUME NEW m \in Node, NEW outcome \in Outcome, Stores(m, outcome)
        PROVE  DependencyInv'
    <3>1. /\ \A n \in Node : outputs'[n] = IF n = m THEN outcome ELSE outputs[n]
          /\ outputs[m] = "none"
          /\ routed \subseteq routed'
          /\ \A e \in routed' \ routed :
               e \in graph.edges /\ e[1] = m /\ (outcome = "failed" => e \in graph.optional)
          /\ UNCHANGED <<graph, task, stream>>
      BY <2>2 DEF Stores, Settled, TypeOK
    <3>2. RoutedInv'
      BY <3>1, <2>0 DEF RoutedInv, Succeeded, Edge, Outcome
    <3>3. DependencyOrder'
      <4>1. ASSUME NEW n \in Node, task'[n] # "none"
            PROVE  /\ n \in Allowed'
                   /\ \A u \in Up(n)' :
                        \/ Succeeded(u)' /\ <<u, n>> \in routed'
                        \/ /\ outputs'[u] = "failed"
                           /\ \/ <<u, n>> \in graph'.optional
                              \/ /\ u \in graph'.sources
                                 /\ \E o \in Up(n)' : outputs'[o] = "ok" /\ <<o, n>> \in routed'
        BY <3>1, <4>1, <2>0 DEF DependencyOrder, Allowed, Up, Succeeded
      <4>2. ASSUME NEW e \in Edge, stream'[e] # "none"
            PROVE  e \in routed' /\ (Succeeded(e[1])' \/ e \in graph'.optional)
        BY <3>1, <4>2, <2>0 DEF DependencyOrder, Succeeded, Edge
      <4> QED BY <4>1, <4>2 DEF DependencyOrder
    <3>4. FailureJustified'
      <4> SUFFICES ASSUME NEW n \in Node \ DOMAIN graph'.prefilled,
                          outputs'[n] = "failed", task'[n] = "none", Streams(n)' = {}
                   PROVE  /\ \A u \in Up(n)' : Settled(u)'
                          /\ \E u \in Up(n)' : outputs'[u] = "failed" /\ <<u, n>> \notin graph'.optional
        BY DEF FailureJustified
      <4>1. Streams(n) = {} /\ task[n] = "none" /\ Up(n)' = Up(n) /\ graph' = graph
        BY <3>1 DEF Streams, Up
      <4>2. /\ \A u \in Up(n) : Settled(u)
            /\ \E u \in Up(n) : outputs[u] = "failed" /\ <<u, n>> \notin graph.optional
        <5>1. CASE n = m
          BY <5>1, <4>1, <3>1, <2>2 DEF Stores, BlockedByFailure, BlockingFailures, UpstreamsSettled
        <5>2. CASE n # m
          BY <5>2, <4>1, <3>1, <2>0 DEF FailureJustified
        <5> QED BY <5>1, <5>2
      <4>3. \A u \in Node : Settled(u) => Settled(u)' /\ outputs'[u] = outputs[u]
        BY <3>1 DEF Settled
      <4> QED BY <4>1, <4>2, <4>3 DEF Up
    <3> QED BY <3>2, <3>3, <3>4 DEF DependencyInv
  <2>3. CASE UNCHANGED <<graph, outputs, routed>>
    <3>1. RoutedInv'
      BY <2>3, <2>0 DEF RoutedInv, Succeeded
    <3>2. DependencyOrder'
      <4>1. ASSUME NEW n \in Node, task'[n] # "none"
            PROVE  /\ n \in Allowed
                   /\ \A u \in Up(n) :
                        \/ Succeeded(u) /\ <<u, n>> \in routed
                        \/ /\ outputs[u] = "failed"
                           /\ \/ <<u, n>> \in graph.optional
                              \/ /\ u \in graph.sources
                                 /\ \E o \in Up(n) : outputs[o] = "ok" /\ <<o, n>> \in routed
        <5>1. CASE task[n] # "none"
          BY <5>1, <2>0 DEF DependencyOrder
        <5>2. CASE pc = "begin" /\ Up(n) = {} /\ n \in Allowed
          BY <5>2
        <5>3. CASE pc = "recording" /\ n = cur
          BY <5>3, ReadyMeans DEF ControlInv, CurInv, Candidate
        <5> QED BY <4>1, <5>1, <5>2, <5>3, TaskStep
      <4>2. ASSUME NEW e \in Edge, stream'[e] # "none"
            PROVE  e \in routed /\ (Succeeded(e[1]) \/ e \in graph.optional)
        <5>1. CASE stream[e] # "none"
          BY <5>1, <2>0 DEF DependencyOrder
        <5>2. CASE e \in routed
          BY <5>2, <2>0 DEF RoutedInv
        <5> QED BY <4>2, <5>1, <5>2, TaskStep
      <4> QED BY <4>1, <4>2, <2>3 DEF DependencyOrder, Allowed, Up, Succeeded
    <3>3. FailureJustified'
      <4>1. \A n \in Node : task'[n] = "none" => task[n] = "none"
        BY TaskStep DEF Finished, Outcome
      <4>2. \A n \in Node : Streams(n)' = {} => Streams(n) = {}
        BY TaskStep DEF Streams
      <4> QED BY <4>1, <4>2, <2>3, <2>0 DEF FailureJustified, Settled, Up
    <3> QED BY <3>1, <3>2, <3>3 DEF DependencyInv
  <2> QED BY <2>1, <2>2, <2>3, OutputStep
<1> QED BY <1>1, <1>2, RunnerTypeOK, ControlInvHolds, BeginInvHolds, PTL DEF Spec

(* Safety: from the start of a node to the end of the run, every upstream  *)
(* delivered to it, or failed on an optional edge or as a source beside    *)
(* another upstream that delivered (_ready, runner.py:1002-1025).          *)
THEOREM RunnerDependencyOrder == Spec => []DependencyOrder
BY DependencyInvHolds, PTL DEF DependencyInv

(* Safety: a node is failed without being run only behind a failed         *)
(* upstream on a required edge (runner.py:416-433).                        *)
THEOREM RunnerFailureJustified == Spec => []FailureJustified
BY DependencyInvHolds, PTL DEF DependencyInv

(* What the loop condition says when the loop ends undisturbed.            *)
LoopExit ==
  (pc = "returned" /\ ~ stop) =>
    \A n \in Node : Candidate(n) => ~ Ready(n) /\ ~ BlockedByFailure(n)

LEMMA LoopExitHolds == Spec => []LoopExit
<1>1. Init => LoopExit
  BY DEF Init, LoopExit
<1>2. LoopExit /\ [Next]_vars => LoopExit'
  <2> SUFFICES ASSUME LoopExit, [Next]_vars, pc' = "returned" PROVE LoopExit'
    BY DEF LoopExit
  <2> USE DEF sched, results, tasks, loopVars, permits, control
  <2>1. CASE Finish
    <3>1. /\ pc = "top" /\ (~ stop => ~ CanContinue)
          /\ UNCHANGED <<graph, outputs, routed, started, stop>>
      BY <2>1 DEF Finish
    <3> QED BY <3>1, ReadyFrame, CandidateFrame DEF LoopExit, CanContinue
  <2>2. CASE NodeTasks \/ StreamTasks \/ ReleaseTask \/ Others \/ UNCHANGED vars
    <3>1. UNCHANGED <<graph, pc, outputs, routed, started, stop>>
      BY <2>2 DEF NodeTasks, NodeTaskEnds, StreamTasks, StreamEnds, ReleaseTask, ReleaseTaskClears,
         ReleaseTaskEnds, Others, OtherAcquires, OtherReleases, OtherClears, vars
    <3> QED BY <3>1, ReadyFrame, CandidateFrame DEF LoopExit
  <2>3. CASE \/ \E taken \in SUBSET graph.conditioned, lucky \in SUBSET Node : Begin(taken, lucky)
             \/ WaitWhileRunning \/ ScanWhenIdle \/ ScanSkip \/ ScanReady \/ StartNode
             \/ ScanBlocked \/ FailNode \/ ScanEnd \/ Unpark \/ AbortEnd \/ Operator
    BY <2>3 DEF Begin, WaitWhileRunning, ScanWhenIdle, BeginWait, EnterScan, ScanSkip, ScanReady,
       StartNode, ScanBlocked, FailNode, ScanEnd, Unpark, AbortEnd, Operator, Stop, Cancel,
       CancelHandler, Ended
  <2>4. CASE \/ WaitReturns \/ ReleaseTaskDropped \/ Collect \/ CollectRaises \/ MergeSkip
             \/ MergeGather \/ MergeRaises \/ MergeEnd
             \/ \E taken \in SUBSET graph.conditioned : MergeStore(taken)
    BY <2>4 DEF WaitReturns, ReleaseTaskDropped, Collect, CollectRaises, MergeSkip, MergeGather,
       MergeRaises, MergeEnd, EnterScan, MergeStore
  <2>5. CASE \/ \E n \in Node : StoreFailure(n)
             \/ \E n \in Node, taken \in SUBSET graph.conditioned : StoreSuccess(n, taken)
             \/ Emitted \/ (\E edges \in SUBSET graph.edges : Spawn(edges))
             \/ SpawnEnd \/ SpawnStopped \/ EventsEnd \/ Failure
    BY <2>5 DEF StoreFailure, EnterScan, StoreSuccess, Emitted, Spawn, SpawnEnd, SpawnStopped,
       EventsEnd, Failure, ConditionRaises, EmitRaises, RecordRaises
  <2> QED BY <2>1, <2>2, <2>3, <2>4, <2>5 DEF Next, Dispatcher
<1> QED BY <1>1, <1>2, PTL DEF Spec

(* A node that was started has its output, or is in `running' or in the    *)
(* queue: it is nowhere forgotten.                                         *)
StartedInv == \A n \in started : Settled(n) \/ n \in running \union events

LEMMA StartedInvHolds == Spec => []StartedInv
<1>1. Init => StartedInv
  BY DEF Init, StartedInv
<1>2. TypeOK /\ ControlInv /\ StartedInv /\ [Next]_vars => StartedInv'
  <2> SUFFICES ASSUME TypeOK, ControlInv, StartedInv, [Next]_vars PROVE StartedInv'
    OBVIOUS
  <2> USE DEF sched, results, tasks, loopVars, permits, control
  <2>0. QueueInv /\ cur \in Node /\ started \subseteq Node
    BY DEF ControlInv, TypeOK
  <2>1. ASSUME NEW taken \in SUBSET graph.conditioned, NEW lucky \in SUBSET Node,
               Begin(taken, lucky)
        PROVE  StartedInv'
    <3>1. started' = DOMAIN graph.prefilled \union running'
      BY <2>1 DEF Begin
    <3>2. \A n \in DOMAIN graph.prefilled : n \in Node /\ graph.prefilled[n] # "none"
      BY GraphFacts DEF TypeOK, Outcome
    <3>3. \A n \in DOMAIN graph.prefilled : outputs'[n] # "none"
      BY <2>1, <3>2 DEF Begin
    <3> QED BY <3>1, <3>3 DEF StartedInv, Settled
  <2>2. CASE StartNode
    BY <2>2 DEF StartNode, StartedInv, Settled
  <2>3. ASSUME NEW n \in Node, NEW outcome \in Outcome,
               outputs' = [outputs EXCEPT ![n] = outcome], running' = running,
               events \subseteq events' \union {n}, started' \subseteq started \union {n}
        PROVE  StartedInv'
    <3>1. \A m \in Node : outputs'[m] = IF m = n THEN outcome ELSE outputs[m]
      BY <2>3 DEF TypeOK
    <3> QED BY <2>3, <2>0, <3>1 DEF StartedInv, Settled, Outcome
  <2>4. CASE FailNode
    BY <2>4, <2>3, <2>0 DEF FailNode, StoreResult, Outcome
  <2>5. ASSUME NEW taken \in SUBSET graph.conditioned, MergeStore(taken) PROVE StartedInv'
    BY <2>5, <2>3, <2>0 DEF MergeStore, StoreResult, Outcome
  <2>6. ASSUME NEW n \in Node,
               \/ \E taken \in SUBSET graph.conditioned : StoreSuccess(n, taken)
               \/ StoreFailure(n) \/ ConditionRaises(n)
        PROVE  StartedInv'
    <3>1. events' = events \ {n} /\ UNCHANGED <<started, running>>
      BY <2>6 DEF StoreSuccess, StoreFailure, ConditionRaises
    <3>2. PICK outcome \in Outcome : outputs' = [outputs EXCEPT ![n] = outcome]
      BY <2>6 DEF StoreSuccess, StoreFailure, ConditionRaises, StoreResult, Outcome
    <3> QED BY <2>3, <3>1, <3>2
  <2>7. CASE WaitReturns
    <3>1. events = {} /\ UNCHANGED <<started, running, outputs>>
      BY <2>7, <2>0 DEF WaitReturns, QueueInv, Drained
    <3> QED BY <3>1 DEF StartedInv, Settled
  <2>8. CASE Collect
    BY <2>8 DEF Collect, StartedInv, Settled
  <2>9. CASE \/ Finish \/ WaitWhileRunning \/ ScanWhenIdle \/ ScanSkip \/ ScanReady \/ ScanBlocked
             \/ ScanEnd \/ Unpark \/ ReleaseTaskDropped \/ CollectRaises \/ MergeSkip
             \/ MergeGather \/ MergeRaises \/ MergeEnd
    <3>1. UNCHANGED <<started, running, events, outputs>>
      BY <2>9 DEF Finish, WaitWhileRunning, ScanWhenIdle, BeginWait, EnterScan, ScanSkip, ScanReady,
         ScanBlocked, ScanEnd, Unpark, ReleaseTaskDropped, CollectRaises, MergeSkip, MergeGather,
         MergeRaises, MergeEnd
    <3> QED BY <3>1 DEF StartedInv, Settled
  <2>10. CASE \/ Emitted \/ (\E edges \in SUBSET graph.edges : Spawn(edges)) \/ SpawnEnd
              \/ SpawnStopped \/ EventsEnd \/ AbortEnd \/ EmitRaises \/ RecordRaises
    <3>1. UNCHANGED <<started, running, events, outputs>>
      BY <2>10 DEF Emitted, Spawn, SpawnEnd, SpawnStopped, EventsEnd, EnterScan, AbortEnd,
         EmitRaises, RecordRaises
    <3> QED BY <3>1 DEF StartedInv, Settled
  <2>11. CASE NodeTasks \/ StreamTasks \/ ReleaseTask \/ Others \/ Operator \/ UNCHANGED vars
    <3>1. UNCHANGED <<started, running, events, outputs>>
      BY <2>11 DEF NodeTasks, NodeTaskEnds, StreamTasks, StreamEnds, ReleaseTask, ReleaseTaskClears,
         ReleaseTaskEnds, Others, OtherAcquires, OtherReleases, OtherClears, Operator, Stop, Cancel,
         CancelHandler, vars
    <3> QED BY <3>1 DEF StartedInv, Settled
  <2> QED
    BY <2>1, <2>2, <2>4, <2>5, <2>6, <2>7, <2>8, <2>9, <2>10, <2>11
       DEF Next, Dispatcher, Failure
<1> QED BY <1>1, <1>2, RunnerTypeOK, ControlInvHolds, PTL DEF Spec

(* Safety: a run that was not stopped returns only when each barrier node  *)
(* has its output, or waits for an upstream that has none or that          *)
(* succeeded without routing to it (_can_continue, runner.py:1189-1225).   *)
THEOREM RunnerNothingReadyLeft == Spec => []NothingReadyLeft
<1>1. TypeOK /\ ControlInv /\ StartedInv /\ LoopExit => NothingReadyLeft
  <2> SUFFICES ASSUME TypeOK, ControlInv, StartedInv, LoopExit, pc = "returned", ~ stop,
                      NEW n \in Allowed \ graph.accumulate, ~ Settled(n),
                      \A u \in Up(n) : Settled(u) /\ (Succeeded(u) => <<u, n>> \in routed)
               PROVE  FALSE
    BY DEF NothingReadyLeft
  <2>1. n \in Node
    BY GraphFacts DEF Allowed, TypeOK
  <2>2. running = {} /\ events = {}
    BY DEF ControlInv, QueueInv, Drained
  <2>3. Candidate(n)
    BY <2>2 DEF StartedInv, Candidate
  <2>4. Ready(n) \/ BlockedByFailure(n)
    BY DEF Ready, BlockedByFailure, UpstreamsSettled
  <2> QED BY <2>1, <2>3, <2>4 DEF LoopExit
<1> QED BY <1>1, RunnerTypeOK, ControlInvHolds, StartedInvHolds, LoopExitHolds, PTL

-----------------------------------------------------------------------------
(* The permits.                                                            *)

(***************************************************************************)
(* A permit is held for a running sub-task, for a node in `running' or in  *)
(* the queue, or for the node that is about to be started.                 *)
(***************************************************************************)
Starting(n) == n = cur /\ pc \in {"recording", "aborting", "interrupted"}
HolderInv ==
  /\ \A k \in acquired :
       \/ stream[k] = "executing"
       \/ \E n \in Node : k = Key(n) /\ (n \in running \union events \/ Starting(n))
  /\ pc \in {"returned", "raised"} => \A k \in acquired : stream[k] = "executing"
  /\ (pc = "recording" /\ Gated(cur)) => Key(cur) \in acquired

PermitInv == HolderInv /\ UsersHoldPermits /\ PermitAccounting

LEMMA KeyFacts ==
  ASSUME TypeOK, NodeInv
  PROVE  /\ \A n \in Node : Key(n) \in Edge
         /\ \A n, m \in Node : Key(n) = Key(m) => n = m
         /\ \A e \in Edge, n \in Node : stream[e] # "none" \/ e \in graph.edges => e # Key(n)
<1>1. \A e \in graph.edges : e[1] # e[2]
  BY GraphFacts DEF TypeOK
<1> QED BY <1>1 DEF Key, Edge, NodeInv

(* Giving back the permit of a node that is not running any more.          *)
LEMMA NodeReleases ==
  ASSUME TypeOK, NodeInv, PermitInv, NEW n \in Node, n \notin running,
         pc \in Draining \ {"recording"}, ReleaseKeys({Key(n)}),
         UNCHANGED <<graph, running, stream>>, events \ {n} \subseteq events',
         pc' \in Draining \union {"aborting"}, pc' # "recording"
  PROVE  PermitInv'
<1>1. /\ acquired' = acquired \ {Key(n)} /\ acquired \subseteq Edge
      /\ PermitAccounting'
  BY ReleaseFacts DEF PermitInv, PermitAccounting, TypeOK
<1>2. HolderInv'
  BY <1>1, KeyFacts DEF PermitInv, HolderInv, Starting, Draining, Scanning
<1>3. pc # "raised" /\ running \subseteq Node
  BY DEF Draining, Scanning, TypeOK
<1>4. \A m \in running : Gated(m) => Key(m) \in acquired'
  BY <1>1, <1>3, KeyFacts DEF PermitInv, UsersHoldPermits
<1>5. \A e \in PendingStreams : e[2] \in graph.needs => e \in acquired'
  BY <1>1, <1>3, KeyFacts DEF PermitInv, UsersHoldPermits, PendingStreams
<1>6. UsersHoldPermits'
  BY <1>4, <1>5 DEF UsersHoldPermits, PendingStreams, Gated
<1> QED BY <1>1, <1>2, <1>6 DEF PermitInv

(* Steps that neither take nor give back a permit of this run.             *)
LEMMA PermitFrame ==
  ASSUME TypeOK, TypeOK', NodeInv, PermitInv, UNCHANGED <<graph, acquired, stream>>,
         count' + other'.held = count + other.held,
         running' \union events' = running \union events,
         running' \subseteq running,
         pc' = "recording" => pc = "recording",
         pc \in {"recording", "aborting", "interrupted"} =>
           cur' = cur /\ pc' \in {"recording", "aborting", "interrupted"},
         pc' \in {"returned", "raised"} => \A k \in acquired : stream[k] = "executing",
         pc' # "raised" => pc # "raised"
  PROVE  PermitInv'
<1>1. HolderInv'
  BY DEF PermitInv, HolderInv, Starting, Gated
<1>2. UsersHoldPermits'
  BY DEF PermitInv, UsersHoldPermits, PendingStreams, Gated
<1>3. /\ Cardinality(acquired) \in Nat
      /\ count \in Nat /\ other.held \in Nat /\ count' \in Nat /\ other'.held \in Nat
  BY FiniteKeys DEF TypeOK
<1>4. PermitAccounting'
  BY <1>3 DEF PermitInv, PermitAccounting
<1> QED BY <1>1, <1>2, <1>4 DEF PermitInv

(* Begin: one permit for each of the nodes that were lucky.                *)
LEMMA BeginPermits ==
  ASSUME TypeOK, TypeOK', NodeInv, BeginInv, PermitInv, NEW taken \in SUBSET graph.conditioned,
         NEW lucky \in SUBSET Node, Begin(taken, lucky)
  PROVE  PermitInv'
<1> USE DEF sched, results, tasks, loopVars, permits, control
<1>1. /\ acquired = {} /\ acquired' = {Key(n) : n \in lucky}
      /\ count' = count - Cardinality(lucky)
      /\ lucky \subseteq running'
      /\ \A n \in running' : Gated(n) => n \in lucky
      /\ pc' = "top" /\ UNCHANGED <<graph, stream, other>>
      /\ \A e \in Edge : stream[e] = "none"
  BY DEF Begin, BeginInv
<1>2. Cardinality({Key(n) : n \in lucky}) = Cardinality(lucky)
  <2>1. IsFiniteSet(lucky)
    BY NodeAssumption, FS_Subset
  <2> DEFINE f == [n \in lucky |-> Key(n)]
  <2>2. f \in Bijection(lucky, {Key(n) : n \in lucky})
    BY KeyFacts DEF Bijection, Injection, Surjection, IsInjective
  <2> HIDE DEF f
  <2>3. ExistsBijection(lucky, {Key(n) : n \in lucky})
    BY <2>2 DEF ExistsBijection
  <2> QED BY <2>1, <2>3, FS_Bijection
<1>3. Cardinality({}) = 0
  BY FS_EmptySet
<1>4. Cardinality(lucky) \in Nat /\ count \in Nat /\ other.held \in Nat
  BY NodeAssumption, FS_Subset, FS_CardinalityType DEF TypeOK
<1>5. PermitAccounting'
  BY <1>1, <1>2, <1>3, <1>4 DEF PermitInv, PermitAccounting
<1>6. HolderInv'
  BY <1>1 DEF HolderInv, Starting
<1>7. UsersHoldPermits'
  BY <1>1 DEF UsersHoldPermits, PendingStreams, Gated
<1> QED BY <1>5, <1>6, <1>7 DEF PermitInv

(* ScanReady: one more permit, under a key that is not in use.             *)
LEMMA ScanReadyPermits ==
  ASSUME TypeOK, TypeOK', ControlInv, PermitInv, ScanReady
  PROVE  PermitInv'
<1> USE DEF sched, results, tasks, loopVars, permits, control
<1> DEFINE n == Head(todo)
<1>1. /\ pc = "scan" /\ pc' = "recording" /\ n \in Node /\ cur' = n
      /\ Candidate(n) /\ (Gated(n) => count > 0)
      /\ UNCHANGED <<graph, running, events, stream>>
  BY DEF ScanReady, TypeOK
<1>2. IF Gated(n)
        THEN /\ acquired' = acquired \union {Key(n)} /\ count' = count - 1
             /\ UNCHANGED other
        ELSE UNCHANGED <<acquired, count, other>>
  BY DEF ScanReady, AcquireKey
<1> HIDE DEF n
<1>3. n \notin running \union events
  BY <1>1 DEF Candidate, ControlInv, NodeInv
<1>4. Key(n) \notin acquired
  <2>1. \A k \in acquired : stream[k] = "executing"
                            \/ \E m \in Node : k = Key(m) /\ m \in running \union events
    BY <1>1 DEF PermitInv, HolderInv, Starting
  <2> QED BY <1>1, <1>3, <2>1, KeyFacts DEF ControlInv
<1>5. PermitAccounting'
  <2>1. /\ IsFiniteSet(acquired) /\ Cardinality(acquired) \in Nat
        /\ count \in Nat /\ other.held \in Nat
    BY FiniteKeys DEF TypeOK
  <2>2. Gated(n) => Cardinality(acquired') = Cardinality(acquired) + 1
    BY <1>2, <1>4, <2>1, FS_AddElement
  <2> QED BY <1>2, <2>1, <2>2 DEF PermitInv, PermitAccounting
<1>6. HolderInv'
  BY <1>1, <1>2 DEF PermitInv, HolderInv, Starting, Gated
<1>7. UsersHoldPermits'
  BY <1>1, <1>2 DEF PermitInv, UsersHoldPermits, PendingStreams, Gated
<1> QED BY <1>5, <1>6, <1>7 DEF PermitInv

(* Spawn: one permit for each new sub-task of a node that needs them.      *)
LEMMA SpawnPermits ==
  ASSUME TypeOK, TypeOK', ControlInv, PermitInv, NEW edges \in SUBSET graph.edges, Spawn(edges)
  PROVE  PermitInv'
<1> USE DEF sched, results, tasks, loopVars, permits, control
<1> DEFINE n == Head(todo)
<1>1. /\ pc = "spawn" /\ pc' = pc
      /\ \A e \in edges : e[2] = n /\ stream[e] = "none"
      /\ stream' = [e \in Edge |-> IF e \in edges THEN "executing" ELSE stream[e]]
      /\ UNCHANGED <<graph, running, events>>
  BY DEF Spawn, Unstreamed
<1>2. IF n \in graph.needs
        THEN /\ acquired' = acquired \union edges /\ count' = count - Cardinality(edges)
             /\ UNCHANGED other
        ELSE UNCHANGED <<acquired, count, other>>
  BY DEF Spawn
<1> HIDE DEF n
<1>3. edges \subseteq Edge
  BY GraphFacts DEF TypeOK
<1>4. acquired \intersect edges = {}
  <2>1. \A k \in acquired : stream[k] = "executing" \/ \E m \in Node : k = Key(m)
    BY DEF PermitInv, HolderInv
  <2> QED BY <1>1, <2>1, KeyFacts DEF ControlInv
<1>5. PermitAccounting'
  <2>1. /\ IsFiniteSet(acquired) /\ Cardinality(acquired) \in Nat
        /\ IsFiniteSet(edges) /\ Cardinality(edges) \in Nat
        /\ count \in Nat /\ other.held \in Nat
    BY <1>3, FiniteKeys DEF TypeOK
  <2>2. Cardinality(acquired \intersect edges) = 0
    BY <1>4, FS_EmptySet
  <2>3. Cardinality(acquired \union edges)
          = Cardinality(acquired) + Cardinality(edges) - Cardinality(acquired \intersect edges)
    BY <2>1, FS_Union
  <2>4. CASE n \in graph.needs
    <3>1. Cardinality(acquired') = Cardinality(acquired) + Cardinality(edges)
      <4>1. acquired' = acquired \union edges
        BY <2>4, <1>2
      <4>2. Cardinality(acquired \union edges) = Cardinality(acquired) + Cardinality(edges)
        BY <2>1, <2>2, <2>3
      <4> QED BY <4>1, <4>2
    <3>2. count' = count - Cardinality(edges) /\ other' = other
      BY <2>4, <1>2
    <3> QED BY <2>1, <3>1, <3>2 DEF PermitInv, PermitAccounting
  <2>5. CASE n \notin graph.needs
    BY <2>5, <1>2 DEF PermitInv, PermitAccounting
  <2> QED BY <2>4, <2>5
<1>6. HolderInv'
  BY <1>1, <1>2, <1>3 DEF PermitInv, HolderInv, Starting, TypeOK
<1>7. UsersHoldPermits'
  BY <1>1, <1>2, <1>3 DEF PermitInv, UsersHoldPermits, PendingStreams, Gated
<1> QED BY <1>5, <1>6, <1>7 DEF PermitInv

(* StreamEnds: the finally clause of a sub-task gives its permit back.     *)
LEMMA StreamEndPermits ==
  ASSUME TypeOK, ControlInv, PermitInv, NEW e \in Edge,
         NEW end \in {"ok", "failed", "raised"}, StreamEnds(e, end)
  PROVE  PermitInv'
<1> USE DEF sched, results, tasks, loopVars, permits, control
<1>1. /\ stream[e] = "executing" /\ stream' = [stream EXCEPT ![e] = end]
      /\ ReleaseKeys({e}) /\ UNCHANGED <<graph, pc, cur, running, events>>
  BY DEF StreamEnds
<1>2. acquired' = acquired \ {e} /\ acquired \subseteq Edge /\ PermitAccounting'
  BY <1>1, ReleaseFacts DEF PermitInv, PermitAccounting, TypeOK
<1>3. \A f \in Edge : f # e => stream'[f] = stream[f]
  BY <1>1 DEF TypeOK
<1>4. \A m \in Node : Key(m) # e
  BY <1>1, KeyFacts DEF ControlInv
<1>5. HolderInv'
  BY <1>1, <1>2, <1>3, <1>4 DEF PermitInv, HolderInv, Starting, Gated, TypeOK
<1>6. stream'[e] # "executing"
  BY <1>1 DEF TypeOK
<1>7. UsersHoldPermits'
  BY <1>1, <1>2, <1>3, <1>4, <1>6 DEF PermitInv, UsersHoldPermits, PendingStreams, Gated, TypeOK
<1> QED BY <1>2, <1>5, <1>7 DEF PermitInv

LEMMA PermitInvHolds == Spec => []PermitInv
<1>1. Init => PermitInv
  <2> SUFFICES ASSUME Init PROVE PermitInv
    OBVIOUS
  <2>1. PermitAccounting
    BY NumberAssumption, FS_EmptySet DEF Init, PermitAccounting
  <2> QED BY <2>1 DEF Init, PermitInv, HolderInv, UsersHoldPermits, PendingStreams
<1>2. TypeOK /\ TypeOK' /\ ControlInv /\ BeginInv /\ PermitInv /\ [Next]_vars => PermitInv'
  <2> SUFFICES ASSUME TypeOK, TypeOK', ControlInv, BeginInv, PermitInv, [Next]_vars
               PROVE  PermitInv'
    OBVIOUS
  <2> USE DEF sched, results, tasks, loopVars, permits, control
  <2>0. /\ NodeInv /\ QueueInv /\ CurInv /\ HolderInv
        /\ cur \in Node /\ running \subseteq Node /\ events \subseteq Node
    BY DEF ControlInv, PermitInv, TypeOK
  <2>1. CASE Finish
    <3>1. /\ pc = "top" /\ pc' \in {"raised", "returned"} /\ events = {} /\ running = {}
          /\ UNCHANGED <<graph, acquired, stream, count, other, running, events, cur>>
      BY <2>1, <2>0 DEF Finish, QueueInv, CanContinue, Drained
    <3>2. \A k \in acquired : stream[k] = "executing"
      BY <3>1, <2>0 DEF HolderInv, Starting
    <3> QED BY <3>1, <3>2, <2>0, PermitFrame
  <2>2. CASE WaitWhileRunning \/ ScanWhenIdle \/ ScanSkip \/ ScanBlocked \/ ScanEnd
    <3>1. /\ pc \in {"top", "scan"}
          /\ pc' \in {"waiting", "scan", "failing", "events", "top", "parked"}
          /\ UNCHANGED <<graph, acquired, stream, count, other, running, events>>
      BY <2>2 DEF WaitWhileRunning, ScanWhenIdle, BeginWait, EnterScan, ScanSkip, ScanBlocked, ScanEnd
    <3> QED BY <3>1, <2>0, PermitFrame
  <2>3. CASE StartNode
    <3>1. /\ pc = "recording" /\ pc' = "scan" /\ running' = running \union {cur}
          /\ UNCHANGED <<graph, acquired, stream, count, other, events, cur>>
      BY <2>3 DEF StartNode
    <3>2. HolderInv'
      BY <3>1, <2>0 DEF HolderInv, Starting
    <3>3. UsersHoldPermits'
      BY <3>1, <2>0 DEF PermitInv, HolderInv, UsersHoldPermits, PendingStreams, Gated
    <3>4. PermitAccounting'
      BY <3>1 DEF PermitInv, PermitAccounting
    <3> QED BY <3>2, <3>3, <3>4 DEF PermitInv
  <2>4. CASE FailNode
    <3>1. /\ pc = "failing" /\ pc' = "scan" /\ ReleaseKeys({Key(cur)})
          /\ UNCHANGED <<graph, running, stream, events>>
      BY <2>4 DEF FailNode, StoreResult
    <3>2. cur \notin running
      BY <3>1, <2>0 DEF CurInv, Candidate, NodeInv
    <3> QED BY <3>1, <3>2, <2>0, NodeReleases DEF Draining, Scanning
  <2>5. CASE Unpark \/ ReleaseTaskDropped \/ Emitted \/ SpawnEnd \/ SpawnStopped \/ EventsEnd
    <3>1. /\ pc \in {"parked", "dropping", "emitting", "spawn", "events"}
          /\ pc' \in {"top", "collect", "spawn", "merge", "events", "scan"}
          /\ UNCHANGED <<graph, acquired, stream, count, other, running, events>>
      BY <2>5 DEF Unpark, ReleaseTaskDropped, Emitted, SpawnEnd, SpawnStopped, EventsEnd, EnterScan
    <3> QED BY <3>1, <2>0, PermitFrame
  <2>6. CASE WaitReturns
    <3>1. /\ pc = "waiting" /\ pc' \in {"dropping", "collect"} /\ events' \subseteq running
          /\ UNCHANGED <<graph, acquired, stream, count, other, running>>
      BY <2>6 DEF WaitReturns
    <3>2. events = {}
      BY <3>1, <2>0 DEF QueueInv, Drained
    <3> QED BY <3>1, <3>2, <2>0, PermitFrame
  <2>7. CASE Collect
    <3>1. /\ pc = "collect" /\ pc' = "merge" /\ running' = running \ events
          /\ UNCHANGED <<graph, acquired, stream, count, other, events>>
      BY <2>7 DEF Collect
    <3> QED BY <3>1, <2>0, PermitFrame
  <2>8. CASE CollectRaises \/ MergeSkip \/ MergeGather \/ MergeRaises \/ MergeEnd \/ EmitRaises
             \/ RecordRaises
    <3>1. /\ pc \in {"collect", "merge", "gathering", "emitting", "recording", "failing"}
          /\ pc' \in {"aborting", "merge", "gathering", "events", "scan"}
          /\ pc = "recording" => cur' = cur /\ pc' = "aborting"
          /\ UNCHANGED <<graph, acquired, stream, count, other, running, events>>
      BY <2>8 DEF CollectRaises, MergeSkip, MergeGather, MergeRaises, MergeEnd, EnterScan,
         EmitRaises, RecordRaises
    <3> QED BY <3>1, <2>0, PermitFrame
  <2>9. ASSUME NEW taken \in SUBSET graph.conditioned, MergeStore(taken) PROVE PermitInv'
    <3>1. /\ pc = "gathering" /\ pc' = "merge" /\ ReleaseKeys({Key(cur)})
          /\ UNCHANGED <<graph, running, stream, events>>
      BY <2>9 DEF MergeStore, StoreResult
    <3>2. cur \notin running
      BY <3>1, <2>0, StreamsHaveNoTask DEF CurInv
    <3> QED BY <3>1, <3>2, <2>0, NodeReleases DEF Draining, Scanning
  <2>10. ASSUME NEW n \in Node,
                \/ \E taken \in SUBSET graph.conditioned : StoreSuccess(n, taken)
                \/ StoreFailure(n) \/ ConditionRaises(n)
         PROVE  PermitInv'
    <3>1. /\ pc = "events" /\ pc' \in {"events", "emitting", "spawn", "scan", "aborting"}
          /\ n \in events /\ events' = events \ {n} /\ ReleaseKeys({Key(n)})
          /\ UNCHANGED <<graph, running, stream>>
      BY <2>10 DEF StoreSuccess, StoreFailure, ConditionRaises, EnterScan, StoreResult
    <3>2. n \notin running
      BY <3>1, <2>0 DEF QueueInv, Draining
    <3> QED BY <3>1, <3>2, NodeReleases, <2>0 DEF Draining, Scanning
  <2>11. CASE Cancel \/ CancelHandler
    <3>1. /\ pc # "raised" /\ pc' \in {"aborting", "interrupted"}
          /\ UNCHANGED <<graph, acquired, stream, count, other, running, events, cur>>
      BY <2>11 DEF Cancel, CancelHandler, AwaitPoints
    <3> QED BY <3>1, <2>0, PermitFrame
  <2>12. CASE AbortEnd
    <3>1. pc' = "raised" /\ ReleaseKeys(acquired)
      BY <2>12 DEF AbortEnd
    <3>2. acquired' = {} /\ PermitAccounting'
      BY <3>1, ReleaseFacts DEF PermitInv, PermitAccounting
    <3> QED BY <3>1, <3>2 DEF PermitInv, HolderInv, UsersHoldPermits
  <2>13. CASE OtherAcquires \/ OtherReleases
    <3>1. UNCHANGED <<graph, pc, cur, acquired, stream, running, events>>
      BY <2>13 DEF OtherAcquires, OtherReleases
    <3>2. /\ other \in [held : Nat, waiting : Nat, uses : Nat] /\ other.held \in Nat
          /\ count \in Nat
      BY DEF TypeOK
    <3>3. \/ count' = count - 1 /\ other'.held = other.held + 1
          \/ count' = count /\ other'.held = other.held
          \/ count' = count + 1 /\ other'.held = other.held - 1
      BY <2>13, <3>2 DEF OtherAcquires, OtherReleases
    <3>4. count' + other'.held = count + other.held
      BY <3>2, <3>3
    <3> QED BY <3>1, <3>4, <2>0, PermitFrame DEF HolderInv
  <2>14. CASE NodeTasks \/ ReleaseTask \/ OtherClears \/ Stop \/ UNCHANGED vars
    <3>1. UNCHANGED <<graph, pc, cur, acquired, stream, count, other, running, events>>
      BY <2>14 DEF NodeTasks, NodeTaskEnds, ReleaseTask, ReleaseTaskClears, ReleaseTaskEnds,
         OtherClears, Stop, vars
    <3> QED BY <3>1, <2>0, PermitFrame DEF HolderInv
  <2> QED
    BY <2>1, <2>2, <2>3, <2>4, <2>5, <2>6, <2>7, <2>8, <2>9, <2>10, <2>11, <2>12, <2>13, <2>14,
       BeginPermits, ScanReadyPermits, SpawnPermits, StreamEndPermits, <2>0
       DEF Next, Dispatcher, Failure, StreamTasks, Others, Operator
<1> QED BY <1>1, <1>2, RunnerTypeOK, ControlInvHolds, BeginInvHolds, PTL DEF Spec

(* Safety: every permit is on the table, with this run or with another;    *)
(* none is lost or given back twice.                                       *)
THEOREM RunnerPermitAccounting == Spec => []PermitAccounting
BY PermitInvHolds, PTL DEF PermitInv

(* Safety: a permit never goes back while its user still runs, until an    *)
(* aborted run gives everything back.                                      *)
THEOREM RunnerUsersHoldPermits == Spec => []UsersHoldPermits
BY PermitInvHolds, PTL DEF PermitInv

(* Safety: when the run has ended and its last sub-task too, nothing is    *)
(* held (_store_result, _run_stream_node_releasing and _release_all).      *)
THEOREM RunnerPermitsReturned == Spec => []PermitsReturned
<1>1. TypeOK /\ PermitInv => PermitsReturned
  BY DEF PermitInv, HolderInv, PermitsReturned, PendingStreams, TypeOK
<1> QED BY <1>1, RunnerTypeOK, PermitInvHolds, PTL

-----------------------------------------------------------------------------
(* The dispatcher implements the contract of a run, DagExecution: its      *)
(* initial states are initial states there, and every step of it is a step *)
(* there or leaves the state of the contract alone.                        *)

RunInv == TypeOK /\ ControlInv /\ BeginInv /\ StartedInv

-----------------------------------------------------------------------------
(* The state of the contract.                                              *)

Active == Inline \union (AwaitPoints \ {"aborting"})

LEMMA PhaseIs ==
  /\ pc = "begin" => Phase = "idle"
  /\ pc \in Active => Phase = "active"
  /\ pc = "aborting" => Phase = "aborting"
  /\ pc = "returned" => Phase = "returned"
  /\ pc \in {"raised", "interrupted"} => Phase = "failed"
BY DEF Phase, Active, Inline, AwaitPoints

(* Settled nodes are not forgotten, and what is in the work of a node.     *)
LEMMA SameState ==
  ASSUME UNCHANGED <<graph, outputs, routed, stop>>, Phase' = Phase,
         Working' = Working, Fed' = Fed
  PROVE  UNCHANGED Contract!vars
BY DEF Contract!vars

LEMMA SameTasks ==
  /\ task' = task => Working' = Working
  /\ stream' = stream => Fed' = Fed
BY DEF Working, Fed

(* The conditions of the contract follow from those of the dispatcher.     *)
LEMMA ReadyMayRun ==
  ASSUME TypeOK, NEW n \in Node, Ready(n)
  PROVE  Contract!MayRun(n)
BY ReadyMeans DEF Contract!MayRun, Contract!Delivered, Contract!Excused, Contract!Up, Up, Succeeded

LEMMA BlockedMustFail ==
  ASSUME TypeOK, NEW n \in Node, BlockedByFailure(n)
  PROVE  Contract!MustFail(n)
<1>1. PICK u \in BlockingFailures(n) : TRUE
  BY DEF BlockedByFailure
<1>2. /\ u \in Up(n) /\ outputs[u] = "failed" /\ <<u, n>> \notin graph.optional
      /\ ~ SourceFailureCanBeSkipped(u, n)
  BY <1>1 DEF BlockingFailures
<1>3. ~ (u \in graph.sources /\ \E o \in Up(n) : outputs[o] = "ok" /\ <<o, n>> \in routed)
  BY <1>2 DEF SourceFailureCanBeSkipped
<1>4. ~ Contract!Excused(u, n)
  BY <1>2, <1>3 DEF Contract!Excused, Contract!Up, Up
<1> QED BY <1>2, <1>4 DEF Contract!MustFail, Contract!Up, Contract!Settled, Up, BlockedByFailure,
           UpstreamsSettled, Settled

LEMMA CandidateOpen ==
  ASSUME TypeOK, ControlInv, NEW n \in Node, Candidate(n)
  PROVE  Contract!Open(n) /\ n \notin Working
BY DEF Contract!Open, Contract!Settled, Candidate, Allowed, Working, ControlInv, NodeInv, Settled

LEMMA StoreIsStore ==
  ASSUME TypeOK, NEW n \in Node, NEW outcome \in Outcome, NEW taken \in SUBSET graph.conditioned,
         taken \subseteq Out(n), outcome = "failed" => taken = {},
         StoreResult(n, outcome, taken), ~ Settled(n),
         Phase' = Phase, UNCHANGED <<graph, task, stream, stop>>
  PROVE  Contract!Store(n, outcome)
<1>1. /\ outputs' = [outputs EXCEPT ![n] = outcome]
      /\ routed' = routed \union IF outcome = "failed" THEN Out(n) \intersect graph.optional
                                 ELSE (Out(n) \ graph.conditioned) \union taken
  BY DEF StoreResult
<1>2. Working' = Working /\ Fed' = Fed
  BY SameTasks
<1> QED BY <1>1, <1>2 DEF Contract!Store, Contract!Settled, Contract!Out, Settled, Out

-----------------------------------------------------------------------------
(* The steps.                                                              *)

(* The steps the contract does not see.                                    *)
LEMMA InvisibleStep ==
  ASSUME TypeOK,
         \/ WaitWhileRunning \/ ScanWhenIdle \/ ScanSkip \/ ScanReady \/ ScanBlocked \/ ScanEnd
         \/ Unpark \/ WaitReturns \/ ReleaseTaskDropped \/ Collect \/ MergeSkip \/ MergeGather
         \/ MergeEnd \/ Emitted \/ SpawnEnd \/ SpawnStopped \/ EventsEnd
         \/ ReleaseTask \/ NodeTasks \/ StreamTasks \/ Others \/ UNCHANGED vars
  PROVE  UNCHANGED Contract!vars
<1> USE DEF sched, results, tasks, loopVars, permits, control
<1>1. ASSUME pc \in Active, pc' \in Active, UNCHANGED <<graph, results, task, stream, stop>>
      PROVE  UNCHANGED Contract!vars
  <2>1. Phase' = Phase
    BY <1>1, PhaseIs DEF Phase, Active, Inline, AwaitPoints
  <2> QED BY <1>1, <2>1, SameTasks, SameState
<1>2. CASE \/ WaitWhileRunning \/ ScanWhenIdle \/ ScanSkip \/ ScanReady \/ ScanBlocked \/ ScanEnd
           \/ Unpark
  <2>1. pc \in Active /\ pc' \in Active /\ UNCHANGED <<graph, results, task, stream, stop>>
    BY <1>2 DEF WaitWhileRunning, ScanWhenIdle, BeginWait, EnterScan, ScanSkip, ScanReady,
       ScanBlocked, ScanEnd, Unpark, Active, Inline, AwaitPoints
  <2> QED BY <2>1, <1>1
<1>3. CASE \/ WaitReturns \/ ReleaseTaskDropped \/ Collect \/ MergeSkip \/ MergeGather
           \/ MergeEnd \/ Emitted \/ SpawnEnd \/ SpawnStopped \/ EventsEnd
  <2>1. pc \in Active /\ pc' \in Active /\ UNCHANGED <<graph, results, task, stream, stop>>
    BY <1>3 DEF WaitReturns, ReleaseTaskDropped, Collect, MergeSkip, MergeGather, MergeEnd,
       EnterScan, Emitted, SpawnEnd, SpawnStopped, EventsEnd, Active, Inline, AwaitPoints
  <2> QED BY <2>1, <1>1
<1>4. CASE NodeTasks
  <2>1. PICK n \in Node, end \in Finished : NodeTaskEnds(n, end)
    BY <1>4 DEF NodeTasks
  <2>2. \A m \in Node : task'[m] # "none" <=> task[m] # "none"
    BY <2>1 DEF NodeTaskEnds, Finished, Outcome, TypeOK
  <2>3. Working' = Working /\ UNCHANGED <<graph, pc, outputs, routed, stop, stream>>
    BY <2>1, <2>2 DEF Working, NodeTaskEnds
  <2> QED BY <2>3, SameTasks, SameState DEF Phase
<1>5. CASE StreamTasks
  <2>1. PICK e \in Edge, end \in {"ok", "failed", "raised"} : StreamEnds(e, end)
    BY <1>5 DEF StreamTasks
  <2>2. \A f \in Edge : stream'[f] # "none" <=> stream[f] # "none"
    BY <2>1 DEF StreamEnds, TypeOK
  <2>3. Fed' = Fed /\ UNCHANGED <<graph, pc, outputs, routed, stop, task>>
    BY <2>1, <2>2 DEF Fed, StreamEnds
  <2> QED BY <2>3, SameTasks, SameState DEF Phase
<1>6. CASE ReleaseTask \/ Others \/ UNCHANGED vars
  <2>1. UNCHANGED <<graph, pc, outputs, routed, stop, task, stream>>
    BY <1>6 DEF ReleaseTask, ReleaseTaskClears, ReleaseTaskEnds, Others, OtherAcquires,
       OtherReleases, OtherClears, vars
  <2> QED BY <2>1, SameTasks, SameState DEF Phase
<1> QED BY <1>2, <1>3, <1>4, <1>5, <1>6

(* The run begins: the outputs taken over and the first nodes.             *)
LEMMA BeginStep ==
  ASSUME RunInv, NEW taken \in SUBSET graph.conditioned, NEW lucky \in SUBSET Node,
         Begin(taken, lucky)
  PROVE  Contract!Begin
<1> USE DEF control
<1>0. TypeOK /\ BeginInv /\ graph.conditioned \subseteq graph.edges /\ graph.allowed \subseteq Node
  BY GraphFacts DEF RunInv, TypeOK
<1>1. Phase = "idle" /\ Phase' = "active"
  BY PhaseIs DEF Begin, Phase
<1>2. Working' = running'
  BY <1>0 DEF Working, Begin, Allowed
<1>3. Working' \subseteq {n \in graph.allowed \ DOMAIN graph.prefilled : Contract!Up(n) = {}}
  BY <1>2 DEF Begin, Allowed, Up, Contract!Up
<1>4. Fed' = Fed
  BY SameTasks DEF Begin
<1>5. /\ {e \in graph.edges : e[1] \in DOMAIN graph.prefilled /\ graph.prefilled[e[1]] = "ok"}
           \ graph.conditioned \subseteq routed'
      /\ routed' \subseteq
           {e \in graph.edges : e[1] \in DOMAIN graph.prefilled /\ graph.prefilled[e[1]] = "ok"}
  BY <1>0 DEF Begin
<1>6. UNCHANGED <<graph, stop>>
      /\ outputs' = [n \in Node |-> IF n \in DOMAIN graph.prefilled THEN graph.prefilled[n]
                                    ELSE "none"]
  BY DEF Begin
<1> QED BY <1>1, <1>3, <1>4, <1>5, <1>6 DEF Contract!Begin

(* The scan starts a node, or fails one.                                   *)
LEMMA ScanStep ==
  ASSUME RunInv, StartNode \/ FailNode
  PROVE  Contract!Run(cur) \/ Contract!GiveUp(cur)
<1> USE DEF sched, results, tasks, loopVars, permits, control
<1>0. TypeOK /\ ControlInv /\ CurInv /\ NodeInv /\ cur \in Node
  BY DEF RunInv, ControlInv, TypeOK
<1>1. CASE StartNode
  <2>1. Candidate(cur) /\ Ready(cur) /\ pc = "recording" /\ pc' = "scan"
    BY <1>0, <1>1 DEF StartNode, CurInv
  <2>2. Phase = "active" /\ Phase' = "active"
    BY <2>1 DEF Phase
  <2>3. Working' = Working \union {cur}
    BY <1>0, <1>1 DEF StartNode, Working, TypeOK
  <2>4. Fed' = Fed /\ UNCHANGED <<graph, stop, outputs, routed>>
    BY <1>1, SameTasks DEF StartNode
  <2> QED BY <1>0, <2>1, <2>2, <2>3, <2>4, ReadyMayRun, CandidateOpen DEF Contract!Run
<1>2. CASE FailNode
  <2>1. Candidate(cur) /\ BlockedByFailure(cur) /\ pc = "failing" /\ pc' = "scan"
    BY <1>0, <1>2 DEF FailNode, CurInv
  <2>2. Phase = "active" /\ Phase' = "active"
    BY <2>1 DEF Phase
  <2>3. StoreResult(cur, "failed", {}) /\ UNCHANGED <<graph, task, stream, stop>>
    BY <1>2 DEF FailNode
  <2>4. ~ Settled(cur)
    BY <1>0, <2>1 DEF Candidate, NodeInv
  <2>5. Contract!Store(cur, "failed")
    BY <1>0, <2>2, <2>3, <2>4, StoreIsStore DEF Outcome
  <2> QED BY <1>0, <2>1, <2>2, <2>5, BlockedMustFail, CandidateOpen DEF Contract!GiveUp
<1> QED BY <1>1, <1>2

(* The output of a node task is stored.                                    *)
LEMMA DeliverStep ==
  ASSUME RunInv, NEW n \in Node,
         \/ \E taken \in SUBSET graph.conditioned : StoreSuccess(n, taken)
         \/ StoreFailure(n)
  PROVE  Contract!Deliver(n)
<1> USE DEF sched, results, tasks, loopVars, permits, control
<1>0. TypeOK /\ NodeInv
  BY DEF RunInv, ControlInv
<1>1. /\ n \in events /\ task[n] \in Outcome /\ pc = "events"
      /\ pc' \in {"events", "emitting", "spawn", "scan"}
      /\ UNCHANGED <<graph, task, stream, stop>>
  BY DEF StoreSuccess, StoreFailure, EnterScan, Outcome
<1>2. PICK taken \in SUBSET graph.conditioned :
        /\ StoreResult(n, task[n], taken) /\ taken \subseteq Out(n)
        /\ task[n] = "failed" => taken = {}
  BY DEF StoreSuccess, StoreFailure
<1>3. Phase = "active" /\ Phase' = "active"
  BY <1>1 DEF Phase
<1>4. ~ Settled(n) /\ n \in Working
  BY <1>0, <1>1 DEF NodeInv, Working
<1>5. Contract!Store(n, task[n])
  BY <1>0, <1>1, <1>2, <1>3, <1>4, StoreIsStore
<1> QED BY <1>1, <1>3, <1>4, <1>5 DEF Contract!Deliver, Contract!Outcome, Outcome

(* An accumulate node takes up outputs; it is merged.                      *)
LEMMA FeedStep ==
  ASSUME RunInv, NEW edges \in SUBSET graph.edges, Spawn(edges)
  PROVE  (\E n \in Node : Contract!Feed(n)) \/ UNCHANGED Contract!vars
<1> USE DEF sched, results, tasks, loopVars, permits, control
<1>0. TypeOK /\ graph.edges \subseteq Edge
  BY GraphFacts DEF RunInv, TypeOK
<1> DEFINE n == Head(todo)
<1>1. /\ pc = "spawn" /\ pc' = "spawn" /\ todo # <<>>
      /\ edges \subseteq (IF n \in (Allowed \intersect graph.accumulate) /\ ~ Settled(n)
                          THEN Unstreamed(n) ELSE {})
      /\ stream' = [e \in Edge |-> IF e \in edges THEN "executing" ELSE stream[e]]
      /\ UNCHANGED <<graph, task, stop, outputs, routed>>
  BY DEF Spawn
<1>2. Phase = "active" /\ Phase' = "active"
  BY <1>1 DEF Phase
<1>3. Fed' = Fed \union edges /\ Working' = Working
  BY <1>0, <1>1, SameTasks DEF Fed, TypeOK
<1>4. n \in Node
  BY <1>0, <1>1 DEF TypeOK
<1>5. CASE edges = {}
  BY <1>1, <1>2, <1>3, <1>5, SameState
<1>6. CASE edges # {}
  <2>1. n \in graph.allowed \intersect graph.accumulate /\ ~ Settled(n) /\ edges \subseteq Unstreamed(n)
    BY <1>1, <1>6 DEF Allowed
  <2>2. \A e \in edges : e \in Contract!In(n) \intersect routed /\ Contract!Settled(e[1])
    BY <2>1 DEF Unstreamed, Contract!In, Contract!Settled, Settled
  <2>3. Contract!Feed(n)
    BY <1>1, <1>2, <1>3, <2>1, <2>2 DEF Contract!Feed, Contract!Settled, Settled
  <2> QED BY <1>4, <2>3
<1> QED BY <1>5, <1>6

LEMMA MergeStep ==
  ASSUME RunInv, NEW taken \in SUBSET graph.conditioned, MergeStore(taken)
  PROVE  Contract!Merge(cur)
<1> USE DEF sched, results, tasks, loopVars, permits, control
<1>0. TypeOK /\ NodeInv /\ CurInv /\ cur \in Node
  BY DEF RunInv, ControlInv, TypeOK
<1>1. PICK outcome \in {"ok", "failed"} :
        StoreResult(cur, outcome, IF outcome = "failed" THEN {} ELSE taken)
  BY DEF MergeStore, StoreResult
<1>2. /\ pc = "gathering" /\ pc' = "merge" /\ taken \subseteq Out(cur)
      /\ UNCHANGED <<graph, task, stream, stop>>
  BY DEF MergeStore
<1>3. Phase = "active" /\ Phase' = "active"
  BY <1>2 DEF Phase
<1>4. ~ Settled(cur) /\ UpstreamsSettled(cur) /\ Streams(cur) # {}
  BY <1>0, <1>2 DEF CurInv
<1>5. Contract!Store(cur, outcome)
  BY <1>0, <1>1, <1>2, <1>3, <1>4, StoreIsStore DEF Outcome
<1>6. \A u \in Contract!Up(cur) : Contract!Settled(u)
  BY <1>4 DEF UpstreamsSettled, Settled, Up, Contract!Up, Contract!Settled
<1>7. Fed \intersect Contract!In(cur) # {}
  BY <1>0, <1>4 DEF Streams, Fed, NodeInv, Contract!In
<1> QED BY <1>1, <1>3, <1>5, <1>6, <1>7 DEF Contract!Merge

(* Exceptions and hard stops, and their handler.                           *)
LEMMA AbortStep ==
  ASSUME RunInv,
         \/ CollectRaises \/ MergeRaises \/ EmitRaises \/ RecordRaises \/ Cancel
         \/ (\E n \in Node : ConditionRaises(n)) \/ AbortEnd \/ CancelHandler
  PROVE  Contract!Abort \/ Contract!Aborted
<1> USE DEF sched, results, tasks, loopVars, permits, control
<1>0. NodeInv
  BY DEF RunInv, ControlInv
<1>1. CASE CollectRaises \/ MergeRaises \/ EmitRaises \/ RecordRaises \/ Cancel
  <2>1. /\ pc \in Active /\ pc' = "aborting"
        /\ UNCHANGED <<graph, stop, outputs, routed, task, stream>>
    BY <1>1 DEF CollectRaises, MergeRaises, EmitRaises, RecordRaises, Cancel, Active, Inline,
       AwaitPoints
  <2>2. Phase = "active" /\ Phase' = "aborting"
    BY <2>1, PhaseIs DEF Phase
  <2> QED BY <2>1, <2>2, SameTasks DEF Contract!Abort
<1>2. ASSUME NEW n \in Node, ConditionRaises(n) PROVE Contract!Abort
  <2>1. /\ pc = "events" /\ pc' = "aborting" /\ n \in events /\ task[n] \in {"ok", "empty"}
        /\ outputs' = [outputs EXCEPT ![n] = task[n]]
        /\ UNCHANGED <<graph, stop, routed, task, stream>>
    BY <1>2 DEF ConditionRaises
  <2>2. Phase = "active" /\ Phase' = "aborting"
    BY <2>1 DEF Phase
  <2>3. ~ Contract!Settled(n) /\ n \in Working
    BY <1>0, <2>1 DEF NodeInv, Settled, Contract!Settled, Working
  <2> QED BY <2>1, <2>2, <2>3, SameTasks DEF Contract!Abort
<1>3. CASE AbortEnd \/ CancelHandler
  <2>1. /\ pc = "aborting" /\ pc' \in {"raised", "interrupted"}
        /\ UNCHANGED <<graph, stop, outputs, routed, task, stream>>
    BY <1>3 DEF AbortEnd, CancelHandler
  <2>2. Phase = "aborting" /\ Phase' = "failed"
    BY <2>1 DEF Phase
  <2> QED BY <2>1, <2>2, SameTasks DEF Contract!Aborted
<1> QED BY <1>1, <1>2, <1>3

(* The loop ends: whatever was started has its output, and every barrier   *)
(* node is at rest unless the run was stopped.                             *)
LEMMA EndStep ==
  ASSUME RunInv, Finish
  PROVE  Contract!End
<1> USE DEF sched, results, tasks, loopVars, permits, control
<1>0. /\ TypeOK /\ NodeInv /\ QueueInv /\ StartedInv
      /\ graph.allowed \subseteq Node
  BY GraphFacts DEF RunInv, ControlInv, TypeOK
<1>1. /\ pc = "top" /\ running = {} /\ (~ stop => ~ CanContinue)
      /\ pc' = IF AllSourcesFailed THEN "raised" ELSE "returned"
      /\ UNCHANGED <<graph, stop, outputs, routed, task, stream>>
  BY DEF Finish, CanContinue
<1>2. Phase = "active" /\ Phase' = IF AllSourcesFailed THEN "failed" ELSE "returned"
  BY <1>1 DEF Phase
<1>3. events = {}
  BY <1>0, <1>1 DEF QueueInv, Drained
<1>4. \A n \in started : Settled(n)
  BY <1>0, <1>1, <1>3 DEF StartedInv
<1>5. \A n \in Working : Contract!Settled(n)
  BY <1>0, <1>4 DEF Working, NodeInv, Settled, Contract!Settled
<1>6. ASSUME ~ stop, NEW n \in graph.allowed \ graph.accumulate, ~ Settled(n)
      PROVE  Contract!AtRest(n)
  <2>1. n \in Node /\ Candidate(n) /\ n \notin Working
    BY <1>0, <1>4, <1>6 DEF Candidate, Allowed, Working, NodeInv
  <2>2. ~ Ready(n) /\ ~ BlockedByFailure(n)
    BY <1>1, <1>6, <2>1 DEF CanContinue
  <2>3. PICK u \in Up(n) : ~ Settled(u) \/ (Succeeded(u) /\ <<u, n>> \notin routed)
    BY <2>2 DEF Ready, BlockedByFailure, UpstreamsSettled
  <2> QED BY <2>1, <2>3 DEF Contract!AtRest, Contract!Up, Contract!Settled, Up, Settled, Succeeded
<1>7. \A n \in graph.allowed \ graph.accumulate : ~ stop => Contract!AtRest(n)
  BY <1>6 DEF Contract!AtRest, Contract!Settled, Settled
<1>8. AllSourcesFailed <=>
        LET roots == {n \in graph.allowed : Contract!Up(n) = {}}
        IN  /\ ~ stop
            /\ roots # {}
            /\ roots \intersect graph.subdags = {}
            /\ \A n \in roots : outputs[n] = "failed"
  BY DEF AllSourcesFailed, Allowed, Up, Contract!Up
<1>9. Working' = Working /\ Fed' = Fed
  BY <1>1, SameTasks
<1> QED BY <1>1, <1>2, <1>5, <1>7, <1>8, <1>9 DEF Contract!End

-----------------------------------------------------------------------------
(* Refinement: whatever the interleaving of tasks, sub-tasks, stops and    *)
(* faults, run() (runner.py:82-334) does only what the contract of a run   *)
(* allows, for every set of graphs.                                        *)
THEOREM RunnerImplementsContract == Spec => RunContract
<1>1. Init => Contract!Init
  <2> SUFFICES ASSUME Init PROVE Contract!Init
    OBVIOUS
  <2>1. Phase = "idle" /\ Working = {} /\ Fed = {}
    BY DEF Init, Phase, Working, Fed
  <2> QED BY <2>1 DEF Init, Contract!Init
<1>2. RunInv /\ [Next]_vars => [Contract!Next]_Contract!vars
  <2> SUFFICES ASSUME RunInv, [Next]_vars, ~ UNCHANGED Contract!vars PROVE Contract!Next
    OBVIOUS
  <2>0. TypeOK /\ cur \in Node
    BY DEF RunInv, TypeOK
  <2>1. ASSUME NEW taken \in SUBSET graph.conditioned, NEW lucky \in SUBSET Node,
               Begin(taken, lucky)
        PROVE  Contract!Next
    BY <2>1, BeginStep DEF Contract!Next
  <2>2. CASE StartNode \/ FailNode
    BY <2>0, <2>2, ScanStep DEF Contract!Next
  <2>3. ASSUME NEW n \in Node,
               \/ \E taken \in SUBSET graph.conditioned : StoreSuccess(n, taken)
               \/ StoreFailure(n)
        PROVE  Contract!Next
    BY <2>3, DeliverStep DEF Contract!Next
  <2>4. ASSUME NEW edges \in SUBSET graph.edges, Spawn(edges) PROVE Contract!Next
    BY <2>4, FeedStep DEF Contract!Next
  <2>5. ASSUME NEW taken \in SUBSET graph.conditioned, MergeStore(taken) PROVE Contract!Next
    BY <2>0, <2>5, MergeStep DEF Contract!Next
  <2>6. CASE \/ CollectRaises \/ MergeRaises \/ EmitRaises \/ RecordRaises \/ Cancel
             \/ (\E n \in Node : ConditionRaises(n)) \/ AbortEnd \/ CancelHandler
    BY <2>6, AbortStep DEF Contract!Next
  <2>7. CASE Finish
    BY <2>7, EndStep DEF Contract!Next
  <2>8. CASE Stop
    <3>1. /\ UNCHANGED <<graph, pc, outputs, routed, task, stream>>
          /\ pc \notin Ended /\ stop' = TRUE
      BY <2>8 DEF Stop, sched, results, tasks
    <3>2. Phase' = Phase /\ Phase \notin {"returned", "failed"}
      BY <3>1 DEF Phase, Ended
    <3>3. Contract!Stop
      BY <3>1, <3>2, SameTasks DEF Contract!Stop
    <3> QED BY <3>3 DEF Contract!Next
  <2>9. CASE \/ WaitWhileRunning \/ ScanWhenIdle \/ ScanSkip \/ ScanReady \/ ScanBlocked \/ ScanEnd
             \/ Unpark \/ WaitReturns \/ ReleaseTaskDropped \/ Collect \/ MergeSkip \/ MergeGather
             \/ MergeEnd \/ Emitted \/ SpawnEnd \/ SpawnStopped \/ EventsEnd
             \/ ReleaseTask \/ NodeTasks \/ StreamTasks \/ Others \/ UNCHANGED vars
    BY <2>0, <2>9, InvisibleStep
  <2> QED BY <2>1, <2>2, <2>3, <2>4, <2>5, <2>6, <2>7, <2>8, <2>9
          DEF Next, Dispatcher, Failure, Operator
<1>3. Spec => []RunInv
  BY RunnerTypeOK, ControlInvHolds, BeginInvHolds, StartedInvHolds, PTL DEF RunInv
<1> QED BY <1>1, <1>2, <1>3, PTL DEF Spec, RunContract, Contract!Spec
=============================================================================
