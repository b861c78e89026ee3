---------------------------- MODULE DagController ----------------------------
(***************************************************************************)
(* The runs of DagController (dag_controller.py) and their rows: a call    *)
(* starts a DAG, triggers one node of it, retries or resumes an earlier    *)
(* run, or stops the current one; the task it creates opens the row of the *)
(* run, works through the nodes, and closes the row.  Calls and tasks take *)
(* turns at the awaits of the code; the process may die at any moment.     *)
(*                                                                         *)
(* A call creates at most one task, and a fresh run id when it does not    *)
(* resume a run, so calls, tasks and run ids share the set Call.  All DAGs *)
(* have the same nodes and edges; every edge is required.  What happens    *)
(* inside a dispatcher and inside an emission is the business of DagRunner *)
(* and TriggerEngine.                                                      *)
(***************************************************************************)
EXTENDS Naturals, Sequences, FiniteSets

CONSTANTS
  Dag, Call, Node,
  None,        \* no call, no run
  Edges,       \* edges of every DAG
  Requests,    \* the requests that clients make
  Waits,       \* <<d, e>>: d is started once a node that e has is idle
  Triggers,    \* <<d, e>>: an event of d's nodes fires e
  Retention,   \* retention_count
  MaxCrashes,  \* bound: deaths of the process
  MaxFaults    \* bound: failures of nodes, the dispatcher and the database

ASSUME CallAssumption == None \notin Call
ASSUME NumberAssumption == Retention \in Nat /\ MaxCrashes \in Nat /\ MaxFaults \in Nat
ASSUME GraphAssumption ==
  /\ Dag # {}
  /\ Edges \subseteq Node \X Node
  /\ Waits \subseteq Dag \X Dag
  /\ Triggers \subseteq Dag \X Dag

VARIABLES
  req,         \* the request of a call
  at,          \* where the call is
  lock,        \* _locks: the call that holds the lock of a DAG
  active,      \* active_runs: the task registered for a DAG
  task,        \* where the task of a call is
  memory,      \* outputs of its dispatcher, prefilled ones included
  verdict,     \* the status it is about to write
  emission,    \* the call that an emission of the task waits for
  stop,        \* its stop_event
  cancel,      \* task.cancel() was called and is not delivered yet
  row,         \* dag_run.status
  nodeRow,     \* node_run.status
  outputs,     \* node outputs in the order of created_at: run, node, and the task
  facts,       \* nodes with an edge_input row that leaves them
  opened,      \* runs in the order of started_at
  orphan,      \* runs whose row nobody is going to close
  crashes, faults

calls == <<req, at, lock>>
tasks == <<active, task, memory, verdict, emission, stop, cancel>>
rows == <<row, nodeRow, outputs, facts, opened>>
misfortune == <<orphan, crashes, faults>>
vars == <<calls, tasks, rows, misfortune>>

Final == {"succeeded", "failed", "cancelled"}
Ended == {"returned", "raised", "interrupted", "lost"}
Begun == {"created", "opening", "opened"}
Trying == {"preparing", "running", "closing", "persisted", "closed"}
Request ==
  [kind : {"start", "node", "retry", "resume", "stop", "force"}, dag : Dag,
   run : Call \union {None}, nodes : SUBSET Node, cascade : BOOLEAN]
Start(d) == [kind |-> "start", dag |-> d, run |-> None, nodes |-> Node, cascade |-> FALSE]

ASSUME RequestAssumption ==
  /\ Requests \subseteq Request
  /\ \A q \in Requests : q.kind = "resume" => q.run # None
  /\ \A d \in Dag : Start(d) \in Request

Done(c) == task[c] \in Ended
Live(c) == task[c] # "none" /\ ~ Done(c)
Busy(d) == active[d] # None /\ ~ Done(active[d])

(* The run that the task of c drives: the resumed one or its own.          *)
RunOf(c) == IF req[c].kind = "resume" THEN req[c].run ELSE c
Drives(c, r) == Live(c) /\ RunOf(c) = r

(* _downstream_union                                                       *)
Downstream(ns) ==
  LET reach[k \in Nat] ==
        IF k = 0 THEN ns
        ELSE reach[k - 1] \union {n \in Node : \E m \in reach[k - 1] : <<m, n>> \in Edges}
  IN  reach[Cardinality(Node)]

(* The nodes that the task of c works on: retry_nodes, the node of a node  *)
(* trigger, or all of them.                                                *)
Scope(c) == IF req[c].cascade THEN Downstream(req[c].nodes) ELSE req[c].nodes

Init ==
  /\ req = [c \in Call |-> CHOOSE q \in Request : q.run = None]
  /\ at = [c \in Call |-> "idle"]
  /\ lock = [d \in Dag |-> None]
  /\ active = [d \in Dag |-> None]
  /\ task = [c \in Call |-> "none"]
  /\ memory = [c \in Call |-> [n \in Node |-> "none"]]
  /\ verdict = [c \in Call |-> "none"]
  /\ emission = [c \in Call |-> None]
  /\ stop = [c \in Call |-> FALSE]
  /\ cancel = [c \in Call |-> FALSE]
  /\ row = [c \in Call |-> "absent"]
  /\ nodeRow = [c \in Call |-> [n \in Node |-> "absent"]]
  /\ outputs = <<>>
  /\ facts = [c \in Call |-> {}]
  /\ opened = <<>>
  /\ orphan = {}
  /\ crashes = 0
  /\ faults = 0

-----------------------------------------------------------------------------
(* Calls.                                                                  *)

(* Mutant: the DAG of a resume is taken from the request.                  *)
AskAnyDag(c, q) ==
  /\ at[c] = "idle"
  /\ q.kind \in {"start", "node", "retry", "resume"}
  /\ q.run # None => q.run \in Call \ {c} /\ row[q.run] # "absent"
  /\ req' = [req EXCEPT ![c] = q]
  /\ at' = [at EXCEPT ![c] = IF q.kind \in {"start", "node"} THEN "polling" ELSE "asking"]
  /\ UNCHANGED <<lock, tasks, rows, misfortune>>

(* Starts and node triggers wait for an idle node first.  A resume arrives *)
(* with the DAG that the row of the run names (dag_for_run_node).          *)
Ask(c, q) ==
  /\ at[c] = "idle"
  /\ q.kind \in {"start", "node", "retry", "resume"}
  /\ q.run # None => q.run \in Call \ {c} /\ row[q.run] # "absent"
  /\ q.kind = "resume" => q.dag = req[q.run].dag
  /\ req' = [req EXCEPT ![c] = q]
  /\ at' = [at EXCEPT ![c] = IF q.kind \in {"start", "node"} THEN "polling" ELSE "asking"]
  /\ UNCHANGED <<lock, tasks, rows, misfortune>>

(* _wait_for_idle: one look every 0.1 s, before the lock is taken.         *)
FoundIdle(c) ==
  /\ at[c] = "polling"
  /\ \A e \in Dag : <<req[c].dag, e>> \in Waits => ~ Busy(e)
  /\ at' = [at EXCEPT ![c] = "asking"]
  /\ UNCHANGED <<req, lock, tasks, rows, misfortune>>

(* asyncio.create_task and the entry in active_runs.                       *)
Creates(c, prefilled) ==
  /\ active' = [active EXCEPT ![req[c].dag] = c]
  /\ task' = [task EXCEPT ![c] = "created"]
  /\ memory' = [memory EXCEPT ![c] = prefilled]
  /\ UNCHANGED <<verdict, emission, stop, cancel>>

(* Nothing is awaited between the lock and the check, or between the check *)
(* and the entry, so that _start_run_locked is one step.                   *)
StartRun(c) ==
  LET d == req[c].dag
  IN  /\ at[c] = "asking"
      /\ req[c].kind = "start"
      /\ lock[d] = None
      /\ \/ /\ Busy(d)
            /\ at' = [at EXCEPT ![c] = "refused"]
            /\ UNCHANGED tasks
         \/ /\ ~ Busy(d)
            /\ Creates(c, [n \in Node |-> "none"])
            /\ at' = [at EXCEPT ![c] = "replied"]
      /\ UNCHANGED <<req, lock, rows, misfortune>>

(* The other calls read the database while they hold the lock.  A node     *)
(* trigger looks for an active run only afterwards.                        *)
TakeLock(c) ==
  LET d == req[c].dag
  IN  /\ at[c] = "asking"
      /\ req[c].kind # "start"
      /\ lock[d] = None
      /\ \/ /\ req[c].kind # "node"
            /\ Busy(d)
            /\ at' = [at EXCEPT ![c] = "refused"]
            /\ UNCHANGED lock
         \/ /\ req[c].kind = "node" \/ ~ Busy(d)
            /\ at' = [at EXCEPT ![c] = "holding"]
            /\ lock' = [lock EXCEPT ![d] = c]
      /\ UNCHANGED <<req, tasks, rows, misfortune>>

(* Mutant: the lock is taken outside a with statement.                     *)
UnlocksNever(c, reply) ==
  /\ at[c] = "holding"
  /\ lock' = lock
  /\ at' = [at EXCEPT ![c] = reply]

Unlocks(c, reply) ==
  /\ at[c] = "holding"
  /\ lock' = [lock EXCEPT ![req[c].dag] = None]
  /\ at' = [at EXCEPT ![c] = reply]

RunNodeTrigger(c) ==
  /\ req[c].kind = "node"
  /\ \/ /\ Busy(req[c].dag)
        /\ Unlocks(c, "refused")
        /\ UNCHANGED tasks
     \/ /\ ~ Busy(req[c].dag)
        /\ Unlocks(c, "replied")
        /\ Creates(c, [n \in Node |-> "none"])
  /\ UNCHANGED <<req, rows, misfortune>>

(* latest_finished_dag_run *)
Finished(d) == SelectSeq(opened, LAMBDA r : req[r].dag = d /\ row[r] # "running")
LatestFinished(d) == IF Finished(d) = <<>> THEN None ELSE Finished(d)[Len(Finished(d))]

Stored(r, n) == \E i \in DOMAIN outputs : outputs[i].run = r /\ outputs[i].node = n

(* _prefilled_outputs: what was stored counts as succeeded, and what only  *)
(* an edge_input row tells of counts as failed.                            *)
PrefilledOutputs(r, scope) ==
  [n \in Node |-> IF n \in scope THEN "none"
                  ELSE IF Stored(r, n) THEN "ok"
                  ELSE IF n \in facts[r] THEN "failed" ELSE "none"]

MissingPrefilledInputs(scope, prefilled) ==
  {u \in Node \ scope : prefilled[u] = "none" /\ \E n \in scope : <<u, n>> \in Edges}

RetryNode(c) ==
  LET original  == IF req[c].run # None THEN req[c].run ELSE LatestFinished(req[c].dag)
      prefilled == PrefilledOutputs(original, Scope(c))
      usable    == original # None /\ MissingPrefilledInputs(Scope(c), prefilled) = {}
  IN  /\ req[c].kind = "retry"
      /\ \/ /\ ~ usable
            /\ Unlocks(c, "refused")
            /\ UNCHANGED tasks
         \/ /\ usable
            /\ Unlocks(c, "replied")
            /\ Creates(c, prefilled)
      /\ UNCHANGED <<req, rows, misfortune>>

(* The outputs at the indexes of K, in their order: what a DELETE leaves.  *)
Keep(K) ==
  LET rank(i) == Cardinality({j \in K : j <= i})
  IN  [k \in 1 .. Cardinality(K) |-> outputs[CHOOSE i \in K : rank(i) = k]]

(* Mutant: deletes the outputs of the named nodes only.                    *)
ResumeNodeAlone(c) ==
  LET r == req[c].run
  IN  /\ req[c].kind = "resume"
      /\ Unlocks(c, "replied")
      /\ Creates(c, PrefilledOutputs(r, Scope(c)))
      /\ outputs' = Keep({i \in DOMAIN outputs :
                            outputs[i].run = r => outputs[i].node \notin req[c].nodes})
      /\ UNCHANGED <<req, row, nodeRow, facts, opened, misfortune>>

(* The outputs that are going to be replaced are deleted and committed     *)
(* before the task exists.                                                 *)
ResumeNode(c) ==
  LET r == req[c].run
  IN  /\ req[c].kind = "resume"
      /\ Unlocks(c, "replied")
      /\ Creates(c, PrefilledOutputs(r, Scope(c)))
      /\ outputs' = Keep({i \in DOMAIN outputs :
                            outputs[i].run = r => outputs[i].node \notin Scope(c)})
      /\ UNCHANGED <<req, row, nodeRow, facts, opened, misfortune>>

(* stop_current: req[c].run becomes the task that is awaited.              *)
StopCurrent(c, q) ==
  LET t == active[q.dag]
  IN  /\ at[c] = "idle"
      /\ q.kind \in {"stop", "force"}
      /\ Busy(q.dag)
      /\ req' = [req EXCEPT ![c] = [q EXCEPT !.run = t]]
      /\ at' = [at EXCEPT ![c] = "awaiting"]
      /\ stop' = [stop EXCEPT ![t] = @ \/ q.kind = "stop"]
      /\ cancel' = [cancel EXCEPT ![t] = @ \/ q.kind = "force"]
      /\ UNCHANGED <<lock, active, task, memory, verdict, emission, rows, misfortune>>

(* The task's exception is the caller's, unless it is a CancelledError.    *)
StopReturns(c) ==
  /\ at[c] = "awaiting"
  /\ Done(req[c].run)
  /\ at' = [at EXCEPT ![c] = IF task[req[c].run] = "raised" THEN "refused" ELSE "replied"]
  /\ UNCHANGED <<req, lock, tasks, rows, misfortune>>

(* The caller of stop_current goes away: cancelling its await of the task  *)
(* cancels the task, also when the stop was a soft one.                    *)
StopAbandoned(c) ==
  /\ at[c] = "awaiting"
  /\ ~ Done(req[c].run)
  /\ at' = [at EXCEPT ![c] = "refused"]
  /\ cancel' = [cancel EXCEPT ![req[c].run] = TRUE]
  /\ UNCHANGED <<req, lock, active, task, memory, verdict, emission, stop, rows, misfortune>>

(* Mutant: does not look whose entry it is.                                *)
ClearFinishedTaskBlindly(c) ==
  /\ Done(c)
  /\ active[req[c].dag] # None
  /\ active' = [active EXCEPT ![req[c].dag] = None]
  /\ UNCHANGED <<calls, task, memory, verdict, emission, stop, cancel, rows, misfortune>>

(* _clear_finished_task, the done-callback.                                *)
ClearFinishedTask(c) ==
  /\ Done(c)
  /\ active[req[c].dag] = c
  /\ active' = [active EXCEPT ![req[c].dag] = None]
  /\ UNCHANGED <<calls, task, memory, verdict, emission, stop, cancel, rows, misfortune>>

-----------------------------------------------------------------------------
(* Tasks.                                                                  *)

Goes(c, from, to) ==
  /\ task[c] = from
  /\ task' = [task EXCEPT ![c] = to]

(* The DAG is read and loaded, before there is a row.                      *)
LoadGraph(c) ==
  /\ ~ cancel[c]
  /\ Goes(c, "created", "opening")
  /\ UNCHANGED <<calls, active, memory, verdict, emission, stop, cancel, rows, misfortune>>

(* create_dag_run with its node rows, or restart_dag_run.  The statement   *)
(* runs in the database thread: a cancellation does not take it back.      *)
OpenRow(c) ==
  LET r == RunOf(c)
      nodes == IF req[c].kind = "node" THEN Scope(c) ELSE Node
  IN  /\ Goes(c, "opening", "opened")
      /\ row' = [row EXCEPT ![r] = "running"]
      /\ IF r = c THEN /\ opened' = Append(opened, c)
                       /\ nodeRow' = [nodeRow EXCEPT ![c] =
                            [n \in Node |-> IF n \in nodes THEN "pending" ELSE "absent"]]
                  ELSE UNCHANGED <<opened, nodeRow>>
      /\ orphan' = orphan \ {r}
      /\ UNCHANGED <<calls, active, memory, verdict, emission, stop, cancel, outputs, facts,
                     crashes, faults>>

(* The try block begins by loading entities and building an executor.      *)
EnterTry(c) ==
  /\ ~ cancel[c]
  /\ Goes(c, "opened", "preparing")
  /\ UNCHANGED <<calls, active, memory, verdict, emission, stop, cancel, rows, misfortune>>

(* A node trigger runs its node on a graph of its own, without edges.      *)
Up(c, n) == IF req[c].kind = "node" THEN {} ELSE {u \in Node : <<u, n>> \in Edges}
Pending(c) == {n \in Scope(c) : memory[c][n] = "none"}
Ready(c) == {n \in Pending(c) : \A u \in Up(c, n) : memory[c][u] = "ok"}
Blocked(c) ==
  {n \in Pending(c) : /\ \E u \in Up(c, n) : memory[c][u] = "failed"
                      /\ \A u \in Up(c, n) : memory[c][u] \in {"ok", "failed"}}
Executing(c) == {n \in Node : memory[c][n] \in {"busy", "stored"}}
Roots(c) == {n \in Scope(c) : Up(c, n) = {}}

Dispatching(c) == task[c] = "running" /\ ~ cancel[c] /\ emission[c] = None

(* DagRunner.run gives the roots to their handlers before it looks whether *)
(* it was stopped.                                                         *)
Begin(c) ==
  /\ ~ cancel[c]
  /\ Goes(c, "preparing", "running")
  /\ memory' = [memory EXCEPT ![c] = [n \in Node |-> IF n \in Roots(c) THEN "busy" ELSE @[n]]]
  /\ nodeRow' = [nodeRow EXCEPT ![RunOf(c)] =
                   [n \in Node |-> IF n \in Roots(c) THEN "running" ELSE @[n]]]
  /\ UNCHANGED <<calls, active, verdict, emission, stop, cancel, row, outputs, facts, opened,
                 misfortune>>

NodeBegins(c, n) ==
  /\ Dispatching(c)
  /\ ~ stop[c]
  /\ n \in Ready(c)
  /\ memory' = [memory EXCEPT ![c][n] = "busy"]
  /\ nodeRow' = [nodeRow EXCEPT ![RunOf(c)][n] = "running"]
  /\ facts' = [facts EXCEPT ![RunOf(c)] = @ \union Up(c, n)]
  /\ UNCHANGED <<calls, active, task, verdict, emission, stop, cancel, row, outputs, opened,
                 misfortune>>

NodeBlocked(c, n) ==
  /\ Dispatching(c)
  /\ ~ stop[c]
  /\ n \in Blocked(c)
  /\ memory' = [memory EXCEPT ![c][n] = "failed"]
  /\ nodeRow' = [nodeRow EXCEPT ![RunOf(c)][n] = "failed"]
  /\ facts' = [facts EXCEPT ![RunOf(c)] = @ \union Up(c, n)]
  /\ UNCHANGED <<calls, active, task, verdict, emission, stop, cancel, row, outputs, opened,
                 misfortune>>

(* store_node_output_entities, called by the executor of the node.         *)
NodeStores(c, n) ==
  LET r == RunOf(c)
  IN  /\ task[c] = "running"
      /\ memory[c][n] = "busy"
      /\ memory' = [memory EXCEPT ![c][n] = "stored"]
      /\ outputs' = Append(outputs, [run |-> r, node |-> n, by |-> c])
      /\ UNCHANGED <<calls, active, task, verdict, emission, stop, cancel, row, nodeRow,
                     facts, opened, misfortune>>

NodeEnds(c, n) ==
  /\ task[c] = "running"
  /\ \/ /\ memory[c][n] = "stored"
        /\ memory' = [memory EXCEPT ![c][n] = "ok"]
        /\ nodeRow' = [nodeRow EXCEPT ![RunOf(c)][n] = "succeeded"]
        /\ UNCHANGED faults
     \/ /\ memory[c][n] = "busy"
        /\ faults < MaxFaults
        /\ faults' = faults + 1
        /\ memory' = [memory EXCEPT ![c][n] = "failed"]
        /\ nodeRow' = [nodeRow EXCEPT ![RunOf(c)][n] = "failed"]
  /\ UNCHANGED <<calls, active, task, verdict, emission, stop, cancel, row, outputs, facts,
                 opened, orphan, crashes>>

(* The dispatcher awaits the emission of a node's event, and with it the   *)
(* call that starts the triggered DAG.                                     *)
Emit(c, e, d) ==
  /\ Dispatching(c)
  /\ \E n \in Scope(c) : memory[c][n] = "ok"
  /\ <<req[c].dag, d>> \in Triggers
  /\ at[e] = "idle"
  /\ req' = [req EXCEPT ![e] = Start(d)]
  /\ at' = [at EXCEPT ![e] = "polling"]
  /\ emission' = [emission EXCEPT ![c] = e]
  /\ UNCHANGED <<lock, active, task, memory, verdict, stop, cancel, rows, misfortune>>

(* Mutant: a refusal does not reach the emitter.                           *)
EmittedReplied(c) ==
  /\ task[c] = "running"
  /\ ~ cancel[c]
  /\ emission[c] # None
  /\ at[emission[c]] = "replied"
  /\ emission' = [emission EXCEPT ![c] = None]
  /\ UNCHANGED <<calls, active, task, memory, verdict, stop, cancel, rows, misfortune>>

(* A refused call is an exception in the dispatcher of the emitter.        *)
Emitted(c) ==
  /\ task[c] = "running"
  /\ ~ cancel[c]
  /\ emission[c] # None
  /\ at[emission[c]] \in {"replied", "refused"}
  /\ emission' = [emission EXCEPT ![c] = None]
  /\ task' = [task EXCEPT ![c] = IF at[emission[c]] = "refused" THEN "failing" ELSE @]
  /\ UNCHANGED <<calls, active, memory, verdict, stop, cancel, rows, misfortune>>

(* _result_status *)
ResultStatus(c) == IF \E n \in Scope(c) : memory[c][n] = "ok" THEN "succeeded" ELSE "failed"

(* Nothing executes, and nothing is left over unless it was stopped.       *)
Drained(c) == Dispatching(c) /\ Executing(c) = {} /\ (stop[c] \/ Ready(c) \union Blocked(c) = {})

(* "all source nodes failed" is an exception.                              *)
SourcesFailed(c) ==
  ~ stop[c] /\ Roots(c) # {} /\ \A n \in Roots(c) : memory[c][n] = "failed"

Return(c) ==
  /\ Drained(c)
  /\ ~ SourcesFailed(c)
  /\ task' = [task EXCEPT ![c] = "closing"]
  /\ verdict' = [verdict EXCEPT ![c] = IF stop[c] THEN "cancelled" ELSE ResultStatus(c)]
  /\ UNCHANGED <<calls, active, memory, emission, stop, cancel, rows, misfortune>>

ReturnNothing(c) ==
  /\ Drained(c)
  /\ SourcesFailed(c)
  /\ task' = [task EXCEPT ![c] = "failing"]
  /\ UNCHANGED <<calls, active, memory, verdict, emission, stop, cancel, rows, misfortune>>

Cleans(c) == req[c].kind = "start" /\ verdict[c] = "succeeded" /\ Retention > 0

(* cleanup_node_output_entities: the outputs of the newest runs are kept,  *)
(* whichever DAG they belong to.                                           *)
Newer(r) ==
  {outputs[j].run : j \in {k \in DOMAIN outputs :
                            \A i \in DOMAIN outputs : outputs[i].run = r => i < k}}
PersistOutputs(c) ==
  /\ ~ cancel[c]
  /\ Cleans(c)
  /\ Goes(c, "closing", "persisted")
  /\ outputs' = Keep({i \in DOMAIN outputs : Cardinality(Newer(outputs[i].run)) < Retention})
  /\ UNCHANGED <<calls, active, memory, verdict, emission, stop, cancel, row, nodeRow,
                 facts, opened, misfortune>>

FinishDagRun(c) ==
  /\ ~ cancel[c]
  /\ IF Cleans(c) THEN Goes(c, "persisted", "closed") ELSE Goes(c, "closing", "closed")
  /\ row' = [row EXCEPT ![RunOf(c)] = verdict[c]]
  /\ UNCHANGED <<calls, active, memory, verdict, emission, stop, cancel, nodeRow, outputs,
                 facts, opened, misfortune>>

Leave(c) ==
  /\ ~ cancel[c]
  /\ Goes(c, "closed", "returned")
  /\ UNCHANGED <<calls, active, memory, verdict, emission, stop, cancel, rows, misfortune>>

(* An exception of the dispatcher or of the database inside the try block. *)
Raise(c) ==
  /\ ~ cancel[c]
  /\ task[c] \in {"preparing", "running", "closing", "persisted"}
  /\ emission[c] = None
  /\ faults < MaxFaults
  /\ faults' = faults + 1
  /\ task' = [task EXCEPT ![c] = "failing"]
  /\ UNCHANGED <<calls, active, memory, verdict, emission, stop, cancel, rows, orphan, crashes>>

(* An exception before the try block: the caller has long been answered.   *)
RaiseEarly(c) ==
  /\ task[c] = "opening" \/ (task[c] = "created" /\ req[c].kind = "start")
  /\ faults < MaxFaults
  /\ faults' = faults + 1
  /\ task' = [task EXCEPT ![c] = "raised"]
  /\ UNCHANGED <<calls, active, memory, verdict, emission, stop, cancel, rows, orphan, crashes>>

FinishFailed(c) ==
  /\ Goes(c, "failing", "raised")
  /\ row' = [row EXCEPT ![RunOf(c)] = "failed"]
  /\ UNCHANGED <<calls, active, memory, verdict, emission, stop, cancel, nodeRow, outputs,
                 facts, opened, misfortune>>

(* Cancelled inside the try block: the dispatcher takes its nodes along,   *)
(* and the call in which it is emitting.                                   *)
Interrupt(c) ==
  /\ cancel[c]
  /\ task[c] \in Trying
  /\ task' = [task EXCEPT ![c] = "cancelling"]
  /\ cancel' = [cancel EXCEPT ![c] = FALSE]
  /\ emission' = [emission EXCEPT ![c] = None]
  /\ at' = [e \in Call |-> IF e = emission[c] /\ at[e] # "replied" THEN "refused" ELSE at[e]]
  /\ UNCHANGED <<req, lock, active, memory, verdict, stop, rows, misfortune>>

(* Mutant: the cancellation is passed on at once.                          *)
FinishCancelledSilently(c) ==
  /\ Goes(c, "cancelling", "interrupted")
  /\ UNCHANGED <<calls, active, memory, verdict, emission, stop, cancel, rows, misfortune>>

FinishCancelled(c) ==
  /\ Goes(c, "cancelling", "interrupted")
  /\ row' = [row EXCEPT ![RunOf(c)] = "cancelled"]
  /\ UNCHANGED <<calls, active, memory, verdict, emission, stop, cancel, nodeRow, outputs,
                 facts, opened, misfortune>>

(* Cancelled where nothing catches it: before the try block, or while the  *)
(* row is closed after an exception or an earlier cancellation.            *)
Abandon(c) ==
  /\ cancel[c]
  /\ task[c] \in Begun \union {"failing", "cancelling"}
  /\ task' = [task EXCEPT ![c] = "interrupted"]
  /\ orphan' = IF row[RunOf(c)] = "running" THEN orphan \union {RunOf(c)} ELSE orphan
  /\ UNCHANGED <<calls, active, memory, verdict, emission, stop, cancel, rows, crashes, faults>>

(* The database refuses the statement that closes the row.                 *)
CloseFails(c) ==
  /\ task[c] \in {"failing", "cancelling"}
  /\ faults < MaxFaults
  /\ faults' = faults + 1
  /\ task' = [task EXCEPT ![c] = "raised"]
  /\ orphan' = IF row[RunOf(c)] = "running" THEN orphan \union {RunOf(c)} ELSE orphan
  /\ UNCHANGED <<calls, active, memory, verdict, emission, stop, cancel, rows, crashes>>

-----------------------------------------------------------------------------
(* The process dies and is started again: what is in memory is gone, and   *)
(* DagController.start leaves the rows as they are.                        *)
Crash ==
  /\ crashes < MaxCrashes
  /\ crashes' = crashes + 1
  /\ \E c \in Call : at[c] # "idle"
  /\ at' = [c \in Call |-> IF at[c] \in {"idle", "replied"} THEN at[c] ELSE "refused"]
  /\ lock' = [d \in Dag |-> None]
  /\ active' = [d \in Dag |-> None]
  /\ task' = [c \in Call |-> IF Live(c) THEN "lost" ELSE task[c]]
  /\ emission' = [c \in Call |-> None]
  /\ cancel' = [c \in Call |-> FALSE]
  /\ orphan' = {r \in Call : row[r] = "running"}
  /\ UNCHANGED <<req, memory, verdict, stop, rows, faults>>

NodeSteps(c) ==
  \E n \in Node : NodeBegins(c, n) \/ NodeBlocked(c, n) \/ NodeStores(c, n) \/ NodeEnds(c, n)
Opens(c) == LoadGraph(c) \/ OpenRow(c) \/ EnterTry(c) \/ Begin(c)
Closes(c) ==
  \/ Return(c) \/ ReturnNothing(c) \/ PersistOutputs(c) \/ FinishDagRun(c) \/ Leave(c) \/ FinishFailed(c)
  \/ Interrupt(c) \/ FinishCancelled(c) \/ Abandon(c)
TaskSteps(c) == Opens(c) \/ NodeSteps(c) \/ Emitted(c) \/ Closes(c)
CallSteps(c) ==
  \/ FoundIdle(c) \/ StartRun(c) \/ TakeLock(c) \/ RunNodeTrigger(c)
  \/ RetryNode(c) \/ ResumeNode(c) \/ StopReturns(c)
Mishaps(c) == Raise(c) \/ RaiseEarly(c) \/ CloseFails(c) \/ StopAbandoned(c)

Next ==
  \/ \E c \in Call, q \in Requests : Ask(c, q) \/ StopCurrent(c, q)
  \/ \E c, e \in Call, d \in Dag : Emit(c, e, d)
  \/ \E c \in Call : CallSteps(c) \/ TaskSteps(c) \/ ClearFinishedTask(c) \/ Mishaps(c)
  \/ Crash

(* The event loop runs every call and every task that can go on; handlers  *)
(* end, since they have timeouts of their own.                             *)
Fairness == \A c \in Call : WF_vars(CallSteps(c)) /\ WF_vars(TaskSteps(c))

Spec == Init /\ [][Next]_vars /\ Fairness

-----------------------------------------------------------------------------
(* Properties.                                                             *)

CallState == {"idle", "polling", "asking", "holding", "awaiting", "replied", "refused"}
TaskState ==
  {"none", "failing", "cancelling"} \union Begun \union Trying \union Ended
MemoryState == {"none", "busy", "stored", "ok", "failed"}
NodeStatus == {"absent", "pending", "running", "succeeded", "failed"}

TypeOK ==
  /\ req \in [Call -> Request]
  /\ at \in [Call -> CallState]
  /\ lock \in [Dag -> Call \union {None}]
  /\ active \in [Dag -> Call \union {None}]
  /\ task \in [Call -> TaskState]
  /\ memory \in [Call -> [Node -> MemoryState]]
  /\ verdict \in [Call -> Final \union {"none"}]
  /\ emission \in [Call -> Call \union {None}]
  /\ stop \in [Call -> BOOLEAN]
  /\ cancel \in [Call -> BOOLEAN]
  /\ row \in [Call -> Final \union {"absent", "running"}]
  /\ nodeRow \in [Call -> [Node -> NodeStatus]]
  /\ outputs \in Seq([run : Call, node : Node, by : Call])
  /\ facts \in [Call -> SUBSET Node]
  /\ opened \in Seq(Call)
  /\ orphan \subseteq Call
  /\ crashes \in Nat
  /\ faults \in Nat

(* A run that goes on is the one that active_runs shows for its DAG: the   *)
(* done-callback of an older run never takes the entry of a newer one away *)
(* (dag_controller.py:609), so no second run of the DAG is admitted beside *)
(* it (dag_controller.py:589).                                             *)
LiveIsRegistered == \A c \in Call : Live(c) => active[req[c].dag] = c

(* A run id is never driven by two tasks, although a resume takes the lock *)
(* of a DAG and not one of the run (dag_controller.py:472).                *)
OneDriver == \A c, e \in Call : Live(c) /\ Live(e) /\ c # e => RunOf(c) # RunOf(e)

(* A row says "running" only while a task is on the way to closing it; the *)
(* exceptions are a death of the process, a database that refuses the      *)
(* closing statement and a cancellation outside the try block              *)
(* (dag_controller.py:651, 711).                                           *)
RunningRowsAreDriven ==
  \A r \in Call : row[r] = "running" => r \in orphan \/ \E c \in Call : Drives(c, r)

(* A task has opened the row of its run.                                   *)
Opened(c) == task[c] \notin {"created", "opening"}

(* The state of DagRuns that a state of the controller stands for.         *)
Current == [d \in Dag |-> IF Busy(d) THEN RunOf(active[d]) ELSE None]
OpenDags == {d \in Dag : Busy(d) /\ Opened(active[d])}
Home == [r \in Call |-> IF row[r] = "absent" THEN None ELSE req[r].dag]

Runs == INSTANCE DagRuns WITH
  Run <- Call, current <- Current, open <- OpenDags, status <- row, home <- Home, left <- orphan

(* The controller keeps the promise of DagRuns through every overlap of    *)
(* calls and tasks: one run at a time for each DAG, each run on its own    *)
(* DAG and driven once, and every row that is opened is closed by its run  *)
(* or counted as left behind (dag_controller.py:472, 559, 589-720).        *)
RunContract == Runs!Spec

(* Outputs that a resumed run works out anew are never those of an earlier *)
(* attempt: resume_node deletes all that it is going to redo               *)
(* (dag_controller.py:488).                                                *)
FreshOutputs ==
  \A c \in Call : Live(c) =>
    \A i \in DOMAIN outputs :
      outputs[i].run = RunOf(c) /\ outputs[i].node \in Scope(c) => outputs[i].by = c

(* Every call is answered: nobody waits for ever for an idle node, a lock  *)
(* or the task that it stops (dag_controller.py:559, 381).                 *)
CallsAnswered == \A c \in Call : at[c] # "idle" ~> at[c] \in {"replied", "refused"}

(* Every run that was admitted comes to an end, whatever is stopped,       *)
(* resumed or triggered meanwhile (dag_controller.py:619).                 *)
RunsEnd == \A c \in Call : Live(c) ~> Done(c)
=============================================================================
