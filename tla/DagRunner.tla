------------------------------ MODULE DagRunner ------------------------------
(***************************************************************************)
(* One run of the DAG dispatcher: DagRunner.run of dag/runner.py and the   *)
(* helpers it calls, against the semaphore of one Resource entity and the  *)
(* other runs of the process that use the same entity.                     *)
(*                                                                         *)
(* Everything happens on one asyncio event loop, so a coroutine gives way  *)
(* only where it awaits.  The dispatcher's program counter `pc' therefore  *)
(* has two kinds of values: at an AwaitPoint the other actors (the node    *)
(* tasks, the accumulate sub-tasks, the other runs, the operator) may take *)
(* steps; anywhere else only the dispatcher moves, and several small steps *)
(* of this module make up one uninterrupted stretch of the code.           *)
(*                                                                         *)
(* Payloads are abstracted to what routing and readiness distinguish: an   *)
(* output is "ok", "empty" (ok with payload None) or "failed".  Whether a  *)
(* conditioned edge is taken is a choice made when the output is stored.   *)
(* All nodes that declare a resource declare the same one.                 *)
(***************************************************************************)
EXTENDS DagGraph

CONSTANTS
  Permits,     \* permits of the resource
  MaxOther,    \* bound: permits the other runs take, over the whole behaviour
  MaxCancels,  \* bound: hard stops (task.cancel()) of this run
  Faults       \* which awaits and evaluations may raise

Fault == {"node", "stream", "record", "emit", "condition"}

ASSUME NumberAssumption ==
  /\ Permits \in Nat \ {0}
  /\ MaxOther \in Nat
  /\ MaxCancels \in Nat
ASSUME FaultAssumption == Faults \subseteq Fault

VARIABLES
  graph,       \* the graph and the parameters of run()
  pc,          \* where the dispatcher is
  caller,      \* what _start_ready_nodes / _complete_accumulate_tasks return to
  todo,        \* nodes the current scan has still to visit
  cur,         \* the node an await of the scan is about
  outputs,     \* outputs: node -> outcome, "none" when absent
  routed,      \* routed_edges
  started,     \* started
  running,     \* keys of `running'
  task,        \* state of each node task
  stream,      \* state of each accumulate sub-task, by edge
  accTasks,    \* keys of accumulate_tasks in insertion order, popped ones included
  events,      \* the _NodeDone events in the queue
  completed,   \* completed_accumulate
  relTask,     \* the release_task that watches `released' during asyncio.wait
  watched,     \* sub-tasks that the current asyncio.wait watches
  acquired,    \* keys of `acquired': <<n, n>> for a node, an edge for a sub-task
  count,       \* permits on the table
  released,    \* the semaphore's `released' event
  other,       \* the other runs: permits held, acquires waiting, permits used up
  stop,        \* stop_event
  cancels      \* hard stops so far

sched == <<pc, caller, todo, cur>>
results == <<outputs, routed, started>>
tasks == <<running, task, stream, accTasks, watched>>
loopVars == <<events, completed, relTask>>
permits == <<acquired, count, released, other>>
control == <<stop, cancels>>
vars == <<graph, sched, results, tasks, loopVars, permits, control>>

Order == graph.order
Allowed == graph.allowed
Up(n) == {u \in Node : <<u, n>> \in graph.edges}
Out(n) == {e \in graph.edges : e[1] = n}
Settled(n) == outputs[n] # "none"
Succeeded(n) == outputs[n] \in {"ok", "empty"}
Key(n) == <<n, n>>

AwaitPoints == {"recording", "failing", "parked", "waiting", "dropping",
                "gathering", "emitting", "aborting"}
Inline == {"top", "scan", "collect", "merge", "events", "spawn"}
Ended == {"returned", "raised", "interrupted"}
Suspended == pc \in AwaitPoints \union Ended \union {"begin"}

TaskState == {"none", "executing", "raised", "cancelled"} \union Outcome
StreamState == {"none", "executing", "ok", "failed", "raised"}
Finished == {"raised", "cancelled"} \union Outcome

TypeOK ==
  /\ graph \in Graphs
  /\ pc \in AwaitPoints \union Inline \union Ended \union {"begin"}
  /\ caller \in {"none", "idle", "collect", "event", "tail"}
  /\ todo \in Seq(Node)
  /\ cur \in Node
  /\ outputs \in [Node -> Outcome \union {"none"}]
  /\ routed \subseteq Edge
  /\ started \subseteq Node
  /\ running \subseteq Node
  /\ task \in [Node -> TaskState]
  /\ stream \in [Edge -> StreamState]
  /\ accTasks \in Seq(Node)
  /\ events \subseteq Node
  /\ completed \in BOOLEAN
  /\ relTask \in {"none", "waiting", "cleared", "done"}
  /\ watched \subseteq Edge
  /\ acquired \subseteq Edge
  /\ count \in Nat
  /\ released \in BOOLEAN
  /\ other \in [held : Nat, waiting : Nat, uses : Nat]
  /\ stop \in BOOLEAN
  /\ cancels \in Nat

Init ==
  /\ graph \in Graphs
  /\ pc = "begin"
  /\ caller = "none"
  /\ todo = <<>>
  /\ cur = CHOOSE n \in Node : TRUE
  /\ outputs = [n \in Node |-> "none"]
  /\ routed = {}
  /\ started = {}
  /\ running = {}
  /\ task = [n \in Node |-> "none"]
  /\ stream = [e \in Edge |-> "none"]
  /\ accTasks = <<>>
  /\ events = {}
  /\ completed = FALSE
  /\ relTask = "none"
  /\ watched = {}
  /\ acquired = {}
  /\ count = Permits
  /\ released = FALSE
  /\ other = [held |-> 0, waiting |-> 0, uses |-> 0]
  /\ stop = FALSE
  /\ cancels = 0

-----------------------------------------------------------------------------
(* Readiness.                                                              *)

(* A failed source does not block n when another upstream delivered.       *)
SourceFailureCanBeSkipped(u, n) ==
  /\ u \in graph.sources
  /\ \E o \in Up(n) \ {u} : outputs[o] = "ok" /\ <<o, n>> \in routed

(* Mutant: a failed upstream blocks over an optional edge as well.         *)
BlockingFailuresAnyEdge(n) ==
  {u \in Up(n) : outputs[u] = "failed" /\ ~ SourceFailureCanBeSkipped(u, n)}

BlockingFailures(n) ==
  {u \in Up(n) : /\ outputs[u] = "failed"
                 /\ <<u, n>> \notin graph.optional
                 /\ ~ SourceFailureCanBeSkipped(u, n)}

(* Mutant: one upstream that is in is enough.                              *)
UpstreamsSettledByOne(n) == Up(n) = {} \/ \E u \in Up(n) : Settled(u)

UpstreamsSettled(n) == \A u \in Up(n) : Settled(u)

Ready(n) ==
  /\ UpstreamsSettled(n)
  /\ BlockingFailures(n) = {}
  /\ \A u \in Up(n) : Succeeded(u) => <<u, n>> \in routed

BlockedByFailure(n) ==
  UpstreamsSettled(n) /\ BlockingFailures(n) # {}

(* Mutant: nodes that were started already are scanned again.              *)
CandidateAgain(n) == n \in Allowed \ graph.accumulate

(* Nodes a scan may act on: not started, part of the run, not accumulate.  *)
Candidate(n) == n \in Allowed \ (started \union graph.accumulate)

(* A node that loops takes its permits per iteration, not at its start.    *)
Gated(n) == n \in graph.needs \ graph.loops

Streams(n) == {e \in Edge : e[2] = n /\ stream[e] # "none"}
PendingStreams == {e \in Edge : stream[e] = "executing"}

(* Outputs of upstreams that an accumulate node has not taken up.          *)
Unstreamed(n) ==
  {e \in graph.edges :
     /\ e[2] = n
     /\ Settled(e[1])
     /\ e \in routed
     /\ stream[e] = "none"}

WaitingAccumulate(n) ==
  /\ n \in (Allowed \intersect graph.accumulate \intersect graph.needs) \ started
  /\ Unstreamed(n) # {}

BlockedStartable == \E n \in graph.needs : Candidate(n) /\ Ready(n) /\ count = 0
BlockedAccumulate == count = 0 /\ \E n \in Node : WaitingAccumulate(n)

(* Mutant: nodes that only have to be failed do not keep the loop going.   *)
CanContinueWhenReady ==
  \/ running # {}
  \/ PendingStreams # {}
  \/ \E n \in Node : Candidate(n) /\ Ready(n)
  \/ BlockedAccumulate

CanContinue ==
  \/ running # {}
  \/ PendingStreams # {}
  \/ \E n \in Node : Candidate(n) /\ (Ready(n) \/ BlockedByFailure(n))
  \/ BlockedAccumulate

(* _wait_for_resource_release finds a semaphore to wait for.               *)
SomethingToWaitFor ==
  \/ \E n \in graph.needs : Candidate(n) /\ Ready(n)
  \/ \E n \in Node : WaitingAccumulate(n)

AllSourcesFailed ==
  LET roots == {n \in Allowed : Up(n) = {}}
  IN  /\ roots # {}
      /\ ~ stop
      /\ \A n \in roots : outputs[n] = "failed"
      /\ roots \intersect graph.subdags = {}

-----------------------------------------------------------------------------
(* The shared semaphore.                                                   *)

(* Mutant: the permit goes back and its key stays in `acquired'.           *)
ReleaseKeysTwice(K) ==
  LET freed  == Cardinality(acquired \intersect K)
      handed == IF freed <= other.waiting THEN freed ELSE other.waiting
  IN  /\ acquired' = acquired
      /\ count' = count + (freed - handed)
      /\ other' = [other EXCEPT !.held = @ + handed, !.waiting = @ - handed]
      /\ released' = (released \/ freed > 0)

(***************************************************************************)
(* _release_resource for the keys in K: release() hands a permit straight  *)
(* to the first waiter, a blocked acquire() of another run, if any.        *)
(***************************************************************************)
ReleaseKeys(K) ==
  LET freed  == Cardinality(acquired \intersect K)
      handed == IF freed <= other.waiting THEN freed ELSE other.waiting
  IN  /\ acquired' = acquired \ K
      /\ count' = count + (freed - handed)
      /\ other' = [other EXCEPT !.held = @ + handed, !.waiting = @ - handed]
      /\ released' = (released \/ freed > 0)

(* _acquire_resource of one permit under a key; the caller checks count.   *)
AcquireKey(k) ==
  /\ acquired' = acquired \union {k}
  /\ count' = count - 1
  /\ UNCHANGED <<released, other>>

(* Mutant: a failed node keeps its permit.                                 *)
StoreResultKeepsOnFailure(n, outcome, taken) ==
  /\ ReleaseKeys(IF outcome = "failed" THEN {} ELSE {Key(n)})
  /\ outputs' = [outputs EXCEPT ![n] = outcome]
  /\ routed' = routed \union
       IF outcome = "failed"
         THEN Out(n) \intersect graph.optional
         ELSE (Out(n) \ graph.conditioned) \union taken

(* Mutant: a failure is passed on like a success.                          *)
StoreResultRoutesFailure(n, outcome, taken) ==
  /\ ReleaseKeys({Key(n)})
  /\ outputs' = [outputs EXCEPT ![n] = outcome]
  /\ routed' = routed \union (Out(n) \ graph.conditioned) \union taken

(***************************************************************************)
(* _store_result: the permit goes back, the output is recorded, and the    *)
(* outgoing edges are routed: on success the unconditioned ones and those  *)
(* whose condition holds (taken), on failure the optional ones.            *)
(***************************************************************************)
StoreResult(n, outcome, taken) ==
  /\ ReleaseKeys({Key(n)})
  /\ outputs' = [outputs EXCEPT ![n] = outcome]
  /\ routed' = routed \union
       IF outcome = "failed"
         THEN Out(n) \intersect graph.optional
         ELSE (Out(n) \ graph.conditioned) \union taken

-----------------------------------------------------------------------------
(* The dispatcher: start and loop head.                                    *)

(***************************************************************************)
(* run() up to the main loop: prefilled outputs are taken over and routed, *)
(* then the nodes without upstreams are started, those that need a permit  *)
(* (lucky is those that got one) in scan order until the permits run out.  *)
(***************************************************************************)
Begin(taken, lucky) ==
  LET pre   == DOMAIN graph.prefilled
      preOk == {n \in pre : graph.prefilled[n] = "ok"}
      roots == {n \in Allowed \ pre : Up(n) = {}}
      gated == {n \in roots : Gated(n)}
      first == (roots \ gated) \union lucky
  IN  /\ pc = "begin"
      /\ taken \subseteq {e \in graph.conditioned : e[1] \in preOk}
      /\ lucky \subseteq gated
      /\ Cardinality(lucky) <= count
      /\ lucky # gated => Cardinality(lucky) = count
      /\ \A i, j \in DOMAIN Order :
           (i < j /\ Order[i] \in gated /\ Order[j] \in lucky) => Order[i] \in lucky
      /\ outputs' = [n \in Node |-> IF n \in pre THEN graph.prefilled[n] ELSE "none"]
      /\ routed' = {e \in graph.edges \ graph.conditioned : e[1] \in preOk} \union taken
      /\ started' = pre \union first
      /\ running' = first
      /\ task' = [n \in Node |-> IF n \in first THEN "executing" ELSE "none"]
      /\ acquired' = {Key(n) : n \in lucky}
      /\ count' = count - Cardinality(lucky)
      /\ pc' = "top"
      /\ UNCHANGED <<graph, caller, todo, cur, stream, accTasks, watched, loopVars,
                     released, other, control>>

(* The loop ends: nothing can continue, or a soft stop with nothing        *)
(* running. Sources that all failed make the run itself fail.              *)
Finish ==
  /\ pc = "top"
  /\ ~ CanContinue \/ (stop /\ running = {})
  /\ pc' = IF AllSourcesFailed THEN "raised" ELSE "returned"
  /\ UNCHANGED <<graph, caller, todo, cur, results, tasks, loopVars, permits, control>>

(* asyncio.wait on the running tasks, the pending sub-tasks and, when      *)
(* someone lacks a permit, a release_task.                                 *)
BeginWait ==
  /\ pc' = "waiting"
  /\ watched' = PendingStreams
  /\ relTask' = IF BlockedStartable \/ BlockedAccumulate THEN "waiting" ELSE "none"

WaitWhileRunning ==
  /\ pc = "top"
  /\ CanContinue
  /\ running # {}
  /\ BeginWait
  /\ UNCHANGED <<graph, caller, todo, cur, results, running, task, stream, accTasks,
                 events, completed, permits, control>>

(* _start_ready_nodes: it looks at stop_event only here, on entry.         *)
EnterScan(from) ==
  /\ pc' = "scan"
  /\ caller' = from
  /\ todo' = Order

ScanWhenIdle ==
  /\ pc = "top"
  /\ CanContinue
  /\ running = {}
  /\ ~ stop
  /\ EnterScan("idle")
  /\ UNCHANGED <<graph, cur, results, tasks, loopVars, permits, control>>

-----------------------------------------------------------------------------
(* The dispatcher: _start_ready_nodes.                                     *)

ScanSkip ==
  /\ pc = "scan"
  /\ todo # <<>>
  /\ LET n == Head(todo)
     IN  /\ ~ (Candidate(n) /\ BlockedByFailure(n))
         /\ ~ (Candidate(n) /\ Ready(n) /\ (Gated(n) => count > 0))
  /\ todo' = Tail(todo)
  /\ UNCHANGED <<graph, pc, caller, cur, results, tasks, loopVars, permits, control>>

(* Mutant: a ready node starts whether or not there is a permit for it.    *)
ScanReadyRegardless ==
  /\ pc = "scan"
  /\ todo # <<>>
  /\ LET n == Head(todo)
     IN  /\ Candidate(n)
         /\ Ready(n)
         /\ cur' = n
         /\ IF Gated(n) THEN AcquireKey(Key(n)) ELSE UNCHANGED permits
  /\ todo' = Tail(todo)
  /\ pc' = "recording"
  /\ UNCHANGED <<graph, caller, results, tasks, loopVars, control>>

(* A ready node: take its permit, then await _record_edge_inputs.          *)
ScanReady ==
  /\ pc = "scan"
  /\ todo # <<>>
  /\ LET n == Head(todo)
     IN  /\ Candidate(n)
         /\ Ready(n)
         /\ Gated(n) => count > 0
         /\ cur' = n
         /\ IF Gated(n) THEN AcquireKey(Key(n)) ELSE UNCHANGED permits
  /\ todo' = Tail(todo)
  /\ pc' = "recording"
  /\ UNCHANGED <<graph, caller, results, tasks, loopVars, control>>

(* The facts are recorded: create the task and go on with the scan.        *)
StartNode ==
  /\ pc = "recording"
  /\ running' = running \union {cur}
  /\ task' = [task EXCEPT ![cur] = "executing"]
  /\ started' = started \union {cur}
  /\ pc' = "scan"
  /\ UNCHANGED <<graph, caller, todo, cur, outputs, routed, stream, accTasks, watched,
                 loopVars, permits, control>>

(* A node behind a required failure: await the records.                    *)
ScanBlocked ==
  /\ pc = "scan"
  /\ todo # <<>>
  /\ Candidate(Head(todo))
  /\ BlockedByFailure(Head(todo))
  /\ cur' = Head(todo)
  /\ todo' = Tail(todo)
  /\ pc' = "failing"
  /\ UNCHANGED <<graph, caller, results, tasks, loopVars, permits, control>>

(* The node fails as upstream_failed without ever running.                 *)
FailNode ==
  /\ pc = "failing"
  /\ StoreResult(cur, "failed", {})
  /\ started' = started \union {cur}
  /\ pc' = "scan"
  /\ UNCHANGED <<graph, caller, todo, cur, tasks, loopVars, control>>

(* The scan is over. An idle dispatcher with still nothing running and no  *)
(* sub-task pending parks in _wait_for_resource_release.                   *)
ScanEnd ==
  /\ pc = "scan"
  /\ todo = <<>>
  /\ CASE caller = "event" ->
            pc' = "events" /\ UNCHANGED <<watched, relTask>>
       [] caller = "tail" ->
            pc' = "top" /\ UNCHANGED <<watched, relTask>>
       [] caller = "idle" /\ running = {} /\ PendingStreams = {} ->
            /\ pc' = IF SomethingToWaitFor THEN "parked" ELSE "top"
            /\ UNCHANGED <<watched, relTask>>
       [] OTHER -> BeginWait
  /\ UNCHANGED <<graph, caller, todo, cur, results, running, task, stream, accTasks,
                 events, completed, permits, control>>

(* The inline _wait_for_resource_release returns and resets the event.     *)
Unpark ==
  /\ pc = "parked"
  /\ released \/ stop
  /\ released' = FALSE
  /\ pc' = "top"
  /\ UNCHANGED <<graph, caller, todo, cur, results, tasks, loopVars, acquired, count,
                 other, control>>

-----------------------------------------------------------------------------
(* The dispatcher: asyncio.wait and what it delivers.                      *)

(* The release_task notices a release (or the stop), resets the event, and *)
(* ends one turn of the event loop later.                                  *)
ReleaseTaskClears ==
  /\ Suspended
  /\ relTask = "waiting"
  /\ released \/ stop
  /\ released' = FALSE
  /\ relTask' = "cleared"
  /\ UNCHANGED <<graph, sched, results, tasks, events, completed, acquired, count,
                 other, control>>

ReleaseTaskEnds ==
  /\ Suspended
  /\ relTask = "cleared"
  /\ relTask' = "done"
  /\ UNCHANGED <<graph, sched, results, tasks, events, completed, permits, control>>

(* asyncio.wait returns with every task that is done by now; a release_task *)
(* that is not done is cancelled and awaited first.                        *)
WaitReturns ==
  /\ pc = "waiting"
  /\ \/ \E n \in running : task[n] \in Finished
     \/ \E e \in watched : stream[e] # "executing"
     \/ relTask = "done"
  /\ events' = {n \in running : task[n] \in Finished}
  /\ relTask' = "none"
  /\ pc' = IF relTask \in {"waiting", "cleared"} THEN "dropping" ELSE "collect"
  /\ UNCHANGED <<graph, caller, todo, cur, results, tasks, completed, permits, control>>

ReleaseTaskDropped ==
  /\ pc = "dropping"
  /\ pc' = "collect"
  /\ UNCHANGED <<graph, caller, todo, cur, results, tasks, loopVars, permits, control>>

(* Finished tasks leave `running' for the queue; accumulate nodes next.    *)
Collect ==
  /\ pc = "collect"
  /\ \A n \in events : task[n] # "raised"
  /\ running' = running \ events
  /\ completed' = FALSE
  /\ todo' = accTasks
  /\ caller' = "collect"
  /\ pc' = "merge"
  /\ UNCHANGED <<graph, cur, results, task, stream, accTasks, watched, events, relTask,
                 permits, control>>

(* task.result() raises: the run is aborted.                               *)
CollectRaises ==
  /\ pc = "collect"
  /\ \E n \in events : task[n] = "raised"
  /\ pc' = "aborting"
  /\ UNCHANGED <<graph, caller, todo, cur, results, tasks, loopVars, permits, control>>

-----------------------------------------------------------------------------
(* The dispatcher: _complete_accumulate_tasks, a pass over accumulate_tasks. *)

Mergeable(n) ==
  /\ ~ Settled(n)
  /\ UpstreamsSettled(n)
  /\ Streams(n) # {}
  /\ \A e \in Streams(n) : stream[e] # "executing"

MergeSkip ==
  /\ pc = "merge"
  /\ todo # <<>>
  /\ ~ Mergeable(Head(todo))
  /\ todo' = Tail(todo)
  /\ UNCHANGED <<graph, pc, caller, cur, results, tasks, loopVars, permits, control>>

(* All upstreams are in and all its sub-tasks are done: gather them.       *)
MergeGather ==
  /\ pc = "merge"
  /\ todo # <<>>
  /\ Mergeable(Head(todo))
  /\ cur' = Head(todo)
  /\ todo' = Tail(todo)
  /\ pc' = "gathering"
  /\ UNCHANGED <<graph, caller, results, tasks, loopVars, permits, control>>

(* _merge_stream_results: the node succeeds if one sub-task did.           *)
MergeStore(taken) ==
  LET merged == IF \E e \in Streams(cur) : stream[e] = "ok" THEN "ok" ELSE "failed"
  IN  /\ pc = "gathering"
      /\ \A e \in Streams(cur) : stream[e] # "raised"
      /\ taken \subseteq (Out(cur) \intersect graph.conditioned)
      /\ StoreResult(cur, merged, taken)
      /\ started' = started \union {cur}
      /\ completed' = TRUE
      /\ pc' = "merge"
      /\ UNCHANGED <<graph, caller, todo, cur, tasks, events, relTask, control>>

MergeRaises ==
  /\ pc = "gathering"
  /\ \E e \in Streams(cur) : stream[e] = "raised"
  /\ pc' = "aborting"
  /\ UNCHANGED <<graph, caller, todo, cur, results, tasks, loopVars, permits, control>>

(* The pass is over: back to the queue, or on to _start_ready_nodes for    *)
(* the event whose output was just spread (which a stop cuts short).       *)
MergeEnd ==
  /\ pc = "merge"
  /\ todo = <<>>
  /\ IF caller = "event" /\ ~ stop
       THEN EnterScan("event")
       ELSE pc' = "events" /\ UNCHANGED <<caller, todo>>
  /\ UNCHANGED <<graph, cur, results, tasks, loopVars, permits, control>>

-----------------------------------------------------------------------------
(* The dispatcher: the queue of finished nodes. asyncio.wait hands over a  *)
(* set, so finished nodes are taken in any order.                          *)

StoreSuccess(n, taken) ==
  /\ pc = "events"
  /\ n \in events
  /\ task[n] \in {"ok", "empty"}
  /\ taken \subseteq (Out(n) \intersect graph.conditioned)
  /\ StoreResult(n, task[n], taken)
  /\ events' = events \ {n}
  /\ pc' = IF n \in graph.emits THEN "emitting" ELSE "spawn"
  /\ todo' = Order
  /\ UNCHANGED <<graph, caller, cur, started, tasks, completed, relTask, control>>

StoreFailure(n) ==
  /\ pc = "events"
  /\ n \in events
  /\ task[n] = "failed"
  /\ StoreResult(n, "failed", {})
  /\ events' = events \ {n}
  /\ IF stop THEN UNCHANGED <<pc, caller, todo>> ELSE EnterScan("event")
  /\ UNCHANGED <<graph, cur, started, tasks, completed, relTask, control>>

(* evaluate_condition raises: the permit is back and the output is stored, *)
(* but nothing is routed and the run is aborted.                           *)
ConditionRaises(n) ==
  /\ "condition" \in Faults
  /\ pc = "events"
  /\ n \in events
  /\ task[n] \in {"ok", "empty"}
  /\ Out(n) \intersect graph.conditioned # {}
  /\ ReleaseKeys({Key(n)})
  /\ outputs' = [outputs EXCEPT ![n] = task[n]]
  /\ events' = events \ {n}
  /\ pc' = "aborting"
  /\ UNCHANGED <<graph, caller, todo, cur, routed, started, tasks, completed, relTask,
                 control>>

(* _emit_node_events returns.                                              *)
Emitted ==
  /\ pc = "emitting"
  /\ pc' = "spawn"
  /\ UNCHANGED <<graph, caller, todo, cur, results, tasks, loopVars, permits, control>>

EmitRaises ==
  /\ "emit" \in Faults
  /\ pc = "emitting"
  /\ pc' = "aborting"
  /\ UNCHANGED <<graph, caller, todo, cur, results, tasks, loopVars, permits, control>>

(***************************************************************************)
(* _run_accumulate_downstreams, one downstream at a time: a sub-task for   *)
(* each delivered edge not taken up yet, as far as the permits go. Which   *)
(* edges get the last permits depends on the order of the edges in the     *)
(* DAG file and is left open.                                              *)
(***************************************************************************)
Spawn(edges) ==
  /\ pc = "spawn"
  /\ ~ stop
  /\ todo # <<>>
  /\ LET n == Head(todo)
         open == IF n \in (Allowed \intersect graph.accumulate) /\ ~ Settled(n)
                   THEN Unstreamed(n) ELSE {}
     IN  /\ edges \subseteq open
         /\ IF n \in graph.needs
              THEN /\ Cardinality(edges) <= count
                   /\ edges # open => Cardinality(edges) = count
                   /\ acquired' = acquired \union edges
                   /\ count' = count - Cardinality(edges)
                   /\ UNCHANGED <<released, other>>
              ELSE /\ edges = open
                   /\ UNCHANGED permits
         /\ accTasks' = IF edges # {} /\ \A i \in DOMAIN accTasks : accTasks[i] # n
                          THEN Append(accTasks, n) ELSE accTasks
  /\ stream' = [e \in Edge |-> IF e \in edges THEN "executing" ELSE stream[e]]
  /\ todo' = Tail(todo)
  /\ UNCHANGED <<graph, pc, caller, cur, results, running, task, watched, loopVars, control>>

(* Every downstream was visited: a merge pass ends the call.               *)
SpawnEnd ==
  /\ pc = "spawn"
  /\ ~ stop
  /\ todo = <<>>
  /\ todo' = accTasks
  /\ caller' = "event"
  /\ completed' = TRUE
  /\ pc' = "merge"
  /\ UNCHANGED <<graph, cur, results, tasks, events, relTask, permits, control>>

(* After a stop neither the call nor the scan that follows does anything.  *)
SpawnStopped ==
  /\ pc = "spawn"
  /\ stop
  /\ completed' = TRUE
  /\ pc' = "events"
  /\ UNCHANGED <<graph, caller, todo, cur, results, tasks, events, relTask, permits, control>>

EventsEnd ==
  /\ pc = "events"
  /\ events = {}
  /\ IF completed /\ ~ stop
       THEN EnterScan("tail")
       ELSE pc' = "top" /\ UNCHANGED <<caller, todo>>
  /\ UNCHANGED <<graph, cur, results, tasks, loopVars, permits, control>>

-----------------------------------------------------------------------------
(* The dispatcher: the two except clauses.                                 *)

(* A database write of the scan raises.                                    *)
RecordRaises ==
  /\ "record" \in Faults
  /\ pc \in {"recording", "failing"}
  /\ pc' = "aborting"
  /\ UNCHANGED <<graph, caller, todo, cur, results, tasks, loopVars, permits, control>>

(* Mutant: the permits go back before the running tasks have ended.        *)
CancelReleasesFirst ==
  /\ pc \in AwaitPoints \ {"aborting"}
  /\ cancels < MaxCancels
  /\ cancels' = cancels + 1
  /\ pc' = "aborting"
  /\ ReleaseKeys(acquired)
  /\ UNCHANGED <<graph, caller, todo, cur, results, tasks, loopVars, stop>>

(* CancelledError at an await: the running tasks are cancelled as well.    *)
Cancel ==
  /\ pc \in AwaitPoints \ {"aborting"}
  /\ cancels < MaxCancels
  /\ cancels' = cancels + 1
  /\ pc' = "aborting"
  /\ UNCHANGED <<graph, caller, todo, cur, results, tasks, loopVars, permits, stop>>

(* Every running task has ended: all permits go back, the error goes on.   *)
AbortEnd ==
  /\ pc = "aborting"
  /\ \A n \in running : task[n] \in Finished
  /\ ReleaseKeys(acquired)
  /\ pc' = "raised"
  /\ UNCHANGED <<graph, caller, todo, cur, results, tasks, loopVars, control>>

(* A hard stop that reaches the handler itself: _release_all never runs.   *)
CancelHandler ==
  /\ pc = "aborting"
  /\ cancels < MaxCancels
  /\ cancels' = cancels + 1
  /\ pc' = "interrupted"
  /\ UNCHANGED <<graph, caller, todo, cur, results, tasks, loopVars, permits, stop>>

-----------------------------------------------------------------------------
(* The other actors.                                                       *)

NodeTaskEnds(n, end) ==
  /\ Suspended
  /\ n \in running
  /\ task[n] = "executing"
  /\ end = "raised" => "node" \in Faults
  /\ end = "cancelled" => pc \in {"aborting", "interrupted"}
  /\ task' = [task EXCEPT ![n] = end]
  /\ UNCHANGED <<graph, sched, results, running, stream, accTasks, watched, loopVars,
                 permits, control>>

(* _run_stream_node_releasing: the permit goes back in its `finally'.      *)
StreamEnds(e, end) ==
  /\ Suspended
  /\ stream[e] = "executing"
  /\ end = "raised" => "stream" \in Faults
  /\ stream' = [stream EXCEPT ![e] = end]
  /\ ReleaseKeys({e})
  /\ UNCHANGED <<graph, sched, results, running, task, accTasks, watched, loopVars, control>>

OtherAcquires ==
  /\ Suspended
  /\ other.uses < MaxOther
  /\ IF count > 0
       THEN /\ count' = count - 1
            /\ other' = [other EXCEPT !.held = @ + 1, !.uses = @ + 1]
       ELSE /\ other' = [other EXCEPT !.waiting = @ + 1, !.uses = @ + 1]
            /\ UNCHANGED count
  /\ UNCHANGED <<graph, sched, results, tasks, loopVars, acquired, released, control>>

(* Mutant: release() does not set the `released' event.                    *)
OtherReleasesSilently ==
  /\ Suspended
  /\ other.held > 0
  /\ IF other.waiting > 0
       THEN other' = [other EXCEPT !.waiting = @ - 1] /\ UNCHANGED count
       ELSE other' = [other EXCEPT !.held = @ - 1] /\ count' = count + 1
  /\ UNCHANGED <<graph, sched, results, tasks, loopVars, acquired, released, control>>

OtherReleases ==
  /\ Suspended
  /\ other.held > 0
  /\ IF other.waiting > 0
       THEN other' = [other EXCEPT !.waiting = @ - 1] /\ UNCHANGED count
       ELSE other' = [other EXCEPT !.held = @ - 1] /\ count' = count + 1
  /\ released' = TRUE
  /\ UNCHANGED <<graph, sched, results, tasks, loopVars, acquired, control>>

(* Another dispatcher resets the event while this one is not waiting on it. *)
OtherClears ==
  /\ Suspended
  /\ released
  /\ pc # "parked"
  /\ relTask # "waiting"
  /\ released' = FALSE
  /\ UNCHANGED <<graph, sched, results, tasks, loopVars, acquired, count, other, control>>

(* A soft stop of the run.                                                 *)
Stop ==
  /\ Suspended
  /\ pc \notin Ended
  /\ ~ stop
  /\ stop' = TRUE
  /\ UNCHANGED <<graph, sched, results, tasks, loopVars, permits, cancels>>

-----------------------------------------------------------------------------
Dispatcher ==
  \/ \E taken \in SUBSET graph.conditioned, lucky \in SUBSET Node : Begin(taken, lucky)
  \/ Finish \/ WaitWhileRunning \/ ScanWhenIdle
  \/ ScanSkip \/ ScanReady \/ StartNode \/ ScanBlocked \/ FailNode \/ ScanEnd \/ Unpark
  \/ WaitReturns \/ ReleaseTaskDropped \/ Collect \/ CollectRaises
  \/ MergeSkip \/ MergeGather \/ MergeRaises \/ MergeEnd
  \/ \E taken \in SUBSET graph.conditioned : MergeStore(taken)
  \/ \E n \in Node : StoreFailure(n)
  \/ \E n \in Node, taken \in SUBSET graph.conditioned : StoreSuccess(n, taken)
  \/ Emitted
  \/ \E edges \in SUBSET graph.edges : Spawn(edges)
  \/ SpawnEnd \/ SpawnStopped \/ EventsEnd
  \/ AbortEnd

Failure ==
  \/ \E n \in Node : ConditionRaises(n)
  \/ EmitRaises \/ RecordRaises

ReleaseTask == ReleaseTaskClears \/ ReleaseTaskEnds

NodeTasks == \E n \in Node, end \in Finished : NodeTaskEnds(n, end)
StreamTasks == \E e \in Edge, end \in {"ok", "failed", "raised"} : StreamEnds(e, end)
Others == OtherAcquires \/ OtherReleases \/ OtherClears
Operator == Stop \/ Cancel \/ CancelHandler

Next ==
  Dispatcher \/ Failure \/ ReleaseTask \/ NodeTasks \/ StreamTasks \/ Others \/ Operator

(***************************************************************************)
(* The event loop runs every coroutine that is ready, handlers end, and    *)
(* the other runs give their permits back.  What the other coroutines do   *)
(* is disabled whenever the dispatcher runs inline, hence strong fairness: *)
(* asyncio's ready queue is first in, first out.                           *)
(***************************************************************************)
Fairness ==
  /\ WF_vars(Dispatcher)
  /\ SF_vars(ReleaseTask)
  /\ SF_vars(NodeTasks)
  /\ SF_vars(StreamTasks)
  /\ SF_vars(OtherReleases)

Spec == Init /\ [][Next]_vars
FairSpec == Spec /\ Fairness

-----------------------------------------------------------------------------
(* Safety: from the start of a node to the end of the run, every upstream  *)
(* is in; one that succeeded was routed here, and one that failed is       *)
(* optional, or a source beside another upstream that delivered. A         *)
(* sub-task has a routed edge, whose upstream delivered or is optional     *)
(* (_ready, runner.py:1002-1025; _run_accumulate_downstreams, 435-493).    *)
DependencyOrder ==
  /\ \A n \in Node : task[n] # "none" =>
       /\ n \in Allowed
       /\ \A u \in Up(n) :
            \/ Succeeded(u) /\ <<u, n>> \in routed
            \/ /\ outputs[u] = "failed"
               /\ \/ <<u, n>> \in graph.optional
                  \/ /\ u \in graph.sources
                     /\ \E o \in Up(n) : outputs[o] = "ok" /\ <<o, n>> \in routed
  /\ \A e \in Edge : stream[e] # "none" =>
       e \in routed /\ (Succeeded(e[1]) \/ e \in graph.optional)

(* Safety: a node that failed without a task or sub-task of its own stands *)
(* behind a failed upstream on an edge that is not optional, with every    *)
(* upstream in (upstream_failed, runner.py:416-433).                       *)
FailureJustified ==
  \A n \in Node \ DOMAIN graph.prefilled :
    (outputs[n] = "failed" /\ task[n] = "none" /\ Streams(n) = {}) =>
      /\ \A u \in Up(n) : Settled(u)
      /\ \E u \in Up(n) : outputs[u] = "failed" /\ <<u, n>> \notin graph.optional

(* Action property: an output is final, and no node is run a second time   *)
(* (_store_result and the `started' set).                                  *)
SettledStep ==
  \A n \in Node :
    /\ Settled(n) => outputs'[n] = outputs[n]
    /\ task[n] \in Finished => task'[n] = task[n]
SettledForever == [][SettledStep]_vars

(* Safety: every permit is on the table, with this run or with another:    *)
(* none is lost or given back twice, whether by _store_result, the finally *)
(* of a sub-task or _release_all.                                          *)
PermitAccounting == count + Cardinality(acquired) + other.held = Permits

(* Safety: a permit never goes back while its user still runs, until an    *)
(* aborted run gives everything back.                                      *)
UsersHoldPermits ==
  pc # "raised" =>
    /\ \A n \in running : Gated(n) => Key(n) \in acquired
    /\ \A e \in PendingStreams : e[2] \in graph.needs => e \in acquired

(* Safety: when the run has ended and its last sub-task too, nothing is    *)
(* held, unless a hard stop interrupted the handler of an earlier error    *)
(* (_store_result, _run_stream_node_releasing and _release_all).           *)
PermitsReturned ==
  (pc \in {"returned", "raised"} /\ PendingStreams = {}) => acquired = {}

(* Safety: a run that was not stopped returns only when each barrier node  *)
(* has its output, or waits for an upstream that has none or that          *)
(* succeeded without routing to it: nothing that could run, had to be      *)
(* failed, or was started is left over (_can_continue, runner.py:1189-1225). *)
NothingReadyLeft ==
  (pc = "returned" /\ ~ stop) =>
    \A n \in Allowed \ graph.accumulate :
      \/ Settled(n)
      \/ \E u \in Up(n) : ~ Settled(u) \/ (Succeeded(u) /\ <<u, n>> \notin routed)

(* The dispatcher implements the contract of a run.                        *)
Phase ==
  CASE pc = "begin" -> "idle"
    [] pc = "aborting" -> "aborting"
    [] pc = "returned" -> "returned"
    [] pc \in {"raised", "interrupted"} -> "failed"
    [] OTHER -> "active"
Working == {n \in Node : task[n] # "none"}
Fed == {e \in Edge : stream[e] # "none"}
Contract == INSTANCE DagExecution
              WITH phase <- Phase, stopped <- stop, outcome <- outputs,
                   work <- Working, fed <- Fed

(* Refinement: whatever the interleaving of tasks, sub-tasks, stops and    *)
(* faults, run() begins, feeds, stores, merges, fails, aborts and ends     *)
(* only as the contract allows; permits, queues and scans are invisible.   *)
RunContract == Contract!Spec

(* Liveness: every run ends, stopped or not, once its tasks end and the    *)
(* other runs give back what they hold (the while loop of run()).          *)
Termination == <>(pc \in Ended)

(* openspec/specs/dag-event-driven-executor/spec.md: the run returns after *)
(* all reachable nodes have been executed. For accumulate nodes: one with  *)
(* an upstream that delivered has an output (runner.py:178-305).           *)
AccumulateSettled ==
  (pc = "returned" /\ ~ stop) =>
    \A n \in Allowed \intersect graph.accumulate :
      (\E u \in Up(n) : Succeeded(u) /\ <<u, n>> \in routed) => Settled(n)

(* openspec/specs/dag-resource-semaphore/spec.md: a node that was skipped  *)
(* for want of a permit is looked at again when a permit is released. The  *)
(* dispatcher never settles down to wait for other nodes, nobody watching  *)
(* the semaphore, while a ready node could have its permit.                *)
ReleaseReevaluated ==
  (pc = "waiting" /\ relTask = "none" /\ ~ stop /\ events = {}
     /\ \A n \in running : task[n] = "executing") =>
    \A n \in Node : (Candidate(n) /\ Ready(n) /\ Gated(n)) => count = 0
=============================================================================
