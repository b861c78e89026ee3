-------------------------- MODULE DagControllerProofs --------------------------
(***************************************************************************)
(* Proofs of the safety properties of DagController, for any numbers of    *)
(* DAGs, calls and nodes, any requests, and any number of crashes and      *)
(* faults.                                                                 *)
(***************************************************************************)
EXTENDS DagController, FiniteSetTheorems, TLAPS

Starting == {"start", "node", "retry", "resume"}

(* Type correctness, with what it rests on: a task belongs to a call that  *)
(* was answered, so that its request is fixed; a resume names a run; the   *)
(* status that a task is about to write is known when it writes it.        *)
TypeInv ==
  /\ TypeOK
  /\ \A c \in Call : task[c] # "none" => at[c] = "replied"
  /\ \A c \in Call : emission[c] # None => at[emission[c]] # "idle"
  /\ \A c \in Call : at[c] # "idle" /\ req[c].kind = "resume" => req[c].run \in Call
  /\ \A c \in Call : task[c] \in {"closing", "persisted", "closed"} => verdict[c] \in Final

(* Whoever holds the lock of a DAG for a retry or a resume still finds the *)
(* DAG without a run; a resume goes to a run that has a row, on the DAG of *)
(* that run; a run with a row had a task of its own.                       *)
CallInv ==
  /\ \A c \in Call : at[c] \in {"polling", "asking", "holding"} => req[c].kind \in Starting
  /\ \A c \in Call : at[c] = "holding" => lock[req[c].dag] = c
  /\ \A c \in Call : at[c] = "holding" /\ req[c].kind # "node" => ~ Busy(req[c].dag)
  /\ \A c \in Call : at[c] # "idle" /\ req[c].kind = "resume" =>
       row[req[c].run] # "absent" /\ req[c].dag = req[req[c].run].dag
  /\ \A r \in Call : row[r] # "absent" => task[r] # "none" /\ req[r].kind # "resume"

(* Before a task has opened its row, and after it has closed it, the row   *)
(* is nobody's if it says "running".                                       *)
RowInv ==
  /\ \A c \in Call : task[c] = "closed" => row[RunOf(c)] # "running"
  /\ \A c \in Call : task[c] \in {"created", "opening"} /\ row[RunOf(c)] = "running" =>
       RunOf(c) \in orphan

(* Outputs belong to runs that were started.                               *)
OutputInv == \A i \in DOMAIN outputs : task[outputs[i].run] # "none"

-----------------------------------------------------------------------------
(* What a DELETE leaves.                                                   *)

(* Keep returns a sequence of elements that it was told to keep.           *)
LEMMA KeepSelects ==
  ASSUME NEW S, outputs \in Seq(S), NEW K \in SUBSET DOMAIN outputs
  PROVE  /\ Keep(K) \in Seq(S)
         /\ \A k \in DOMAIN Keep(K) : \E i \in K : Keep(K)[k] = outputs[i]
<1> DEFINE n == Cardinality(K)
           upTo(i) == {j \in K : j <= i}
           rank == [i \in K |-> Cardinality(upTo(i))]
<1>1. IsFiniteSet(K) /\ K \subseteq Nat
  <2>1. DOMAIN outputs = 1 .. Len(outputs) /\ Len(outputs) \in Nat
    OBVIOUS
  <2>2. IsFiniteSet(1 .. Len(outputs))
    BY <2>1, FS_Interval
  <2> QED BY <2>1, <2>2, FS_Subset
<1>2. n \in Nat
  BY <1>1, FS_CardinalityType
<1>3. ASSUME NEW i \in K
      PROVE  /\ upTo(i) \subseteq K
             /\ IsFiniteSet(upTo(i))
             /\ Cardinality(upTo(i)) \in 1 .. n
  <2>1. upTo(i) \subseteq K /\ upTo(i) # {}
    BY <1>1
  <2>2. IsFiniteSet(upTo(i)) /\ Cardinality(upTo(i)) <= n
    BY <1>1, <2>1, FS_Subset
  <2>3. Cardinality(upTo(i)) \in Nat /\ Cardinality(upTo(i)) # 0
    BY <2>1, <2>2, FS_CardinalityType, FS_EmptySet
  <2> QED BY <1>2, <2>1, <2>2, <2>3
<1>4. ASSUME NEW i \in K, NEW j \in K, i < j PROVE rank[i] # rank[j]
  <2>1. upTo(i) \in SUBSET upTo(j) /\ j \in upTo(j) /\ j \notin upTo(i)
    BY <1>1, <1>4
  <2>2. Cardinality(upTo(i)) # Cardinality(upTo(j))
    BY <1>3, <2>1, FS_Subset
  <2> QED BY <2>2
<1>5. rank \in Injection(K, 1 .. n)
  <2>1. rank \in [K -> 1 .. n]
    BY <1>3
  <2>2. ASSUME NEW i \in K, NEW j \in K, rank[i] = rank[j] PROVE i = j
    <3>1. i \in Nat /\ j \in Nat /\ ~ (i < j) /\ ~ (j < i)
      BY <1>1, <1>4, <2>2
    <3> QED BY <3>1
  <2> QED BY <2>1, <2>2 DEF Injection, IsInjective
<1>6. rank \in Surjection(K, 1 .. n)
  <2>1. IsFiniteSet(1 .. n) /\ Cardinality(1 .. n) = n
    BY <1>2, FS_Interval
  <2> QED BY <1>5, <2>1, FS_Injection
<1>7. ASSUME NEW k \in 1 .. n
      PROVE  (CHOOSE i \in K : Cardinality(upTo(i)) = k) \in K
  <2>1. PICK i \in K : rank[i] = k
    BY <1>6 DEF Surjection
  <2>2. \E j \in K : Cardinality(upTo(j)) = k
    BY <2>1
  <2> QED BY <2>2
<1>8. Keep(K) = [k \in 1 .. n |-> outputs[CHOOSE i \in K : Cardinality(upTo(i)) = k]]
  BY DEF Keep
<1>9. \A k \in 1 .. n : \E i \in K : Keep(K)[k] = outputs[i]
  BY <1>7, <1>8
<1>10. Keep(K) \in [1 .. n -> S]
  <2>1. \A i \in K : outputs[i] \in S
    OBVIOUS
  <2> QED BY <1>7, <1>8, <2>1
<1>11. Keep(K) \in Seq(S) /\ DOMAIN Keep(K) = 1 .. n
  <2> HIDE DEF n
  <2> QED BY <1>2, <1>10
<1> QED BY <1>9, <1>11

-----------------------------------------------------------------------------
(* Type correctness.                                                       *)

LEMMA RequestFields ==
  ASSUME NEW q \in Request
  PROVE  /\ q.dag \in Dag /\ q.nodes \in SUBSET Node /\ q.run \in Call \union {None}
         /\ \A c \in Call : /\ [q EXCEPT !.run = c] \in Request
                            /\ [q EXCEPT !.run = c].kind = q.kind
BY DEF Request

LEMMA RunOfInCall ==
  ASSUME TypeInv, NEW c \in Call, task[c] # "none"
  PROVE  RunOf(c) \in Call
BY DEF TypeInv, RunOf

(* A call that is turned away changes nothing but its place and its lock.  *)
LEMMA RefusalTypes ==
  ASSUME TypeInv, NEW c \in Call, req[c].kind # "resume", at[c] \in {"asking", "holding"},
         at' = [at EXCEPT ![c] = "refused"], lock' \in [Dag -> Call \union {None}],
         UNCHANGED <<req, tasks, rows, misfortune>>
  PROVE  TypeInv'
<1>1. at \in [Call -> CallState]
  BY DEF TypeInv, TypeOK
<1>2. at' \in [Call -> CallState]
  BY <1>1 DEF CallState
<1>3. task[c] = "none"
  BY DEF TypeInv
<1>4. \A e \in Call : at'[e] = at[e] \/ (e = c /\ at'[e] = "refused")
  BY <1>1
<1>5. TypeOK'
  BY <1>2 DEF TypeInv, TypeOK, tasks, rows, misfortune
<1>6. UNCHANGED <<req, task, emission, verdict>>
  BY DEF tasks
<1>7. \A e \in Call : task'[e] # "none" => at'[e] = "replied"
  BY <1>3, <1>4, <1>6 DEF TypeInv
<1>8. \A e \in Call : emission'[e] # None => at'[emission'[e]] # "idle"
  <2> TAKE e \in Call
  <2> HAVE emission'[e] # None
  <2>1. emission[e] \in Call /\ at[emission[e]] # "idle" /\ emission'[e] = emission[e]
    BY <1>6 DEF TypeInv, TypeOK
  <2> QED BY <1>4, <2>1
<1>9. \A e \in Call : at'[e] # "idle" /\ req'[e].kind = "resume" => req'[e].run \in Call
  BY <1>4, <1>6 DEF TypeInv
<1>10. \A e \in Call : task'[e] \in {"closing", "persisted", "closed"} => verdict'[e] \in Final
  BY <1>6 DEF TypeInv
<1> QED BY <1>5, <1>7, <1>8, <1>9, <1>10 DEF TypeInv

LEMMA ControllerTypeInv == Spec => []TypeInv
<1>1. Init => TypeInv
  <2> SUFFICES ASSUME Init PROVE TypeInv
    OBVIOUS
  <2>1. PICK d \in Dag : Start(d) \in Request
    BY GraphAssumption, RequestAssumption
  <2>2. \E q \in Request : q.run = None
    BY <2>1 DEF Start
  <2>3. req \in [Call -> Request]
    BY <2>2 DEF Init
  <2>4. /\ at \in [Call -> CallState]
        /\ task \in [Call -> TaskState]
        /\ memory \in [Call -> [Node -> MemoryState]]
        /\ nodeRow \in [Call -> [Node -> NodeStatus]]
    BY DEF Init, CallState, TaskState, MemoryState, NodeStatus
  <2>5. outputs \in Seq([run : Call, node : Node, by : Call]) /\ opened \in Seq(Call)
    BY DEF Init
  <2> QED BY <2>3, <2>4, <2>5 DEF Init, TypeOK, TypeInv
<1>2. TypeInv /\ [Next]_vars => TypeInv'
  <2> SUFFICES ASSUME TypeInv, [Next]_vars PROVE TypeInv'
    OBVIOUS
  <2> USE DEF TypeInv, TypeOK, calls, tasks, rows, misfortune
  <2>1. ASSUME NEW c \in Call, NEW q \in Requests, Ask(c, q) PROVE TypeInv'
    BY <2>1, RequestAssumption DEF Ask, CallState
  <2>2. ASSUME NEW c \in Call, NEW q \in Requests, StopCurrent(c, q) PROVE TypeInv'
    BY <2>2, RequestAssumption, RequestFields DEF StopCurrent, CallState, Busy
  <2>3. ASSUME NEW c \in Call, NEW e \in Call, NEW d \in Dag, Emit(c, e, d) PROVE TypeInv'
    BY <2>3, RequestAssumption DEF Emit, CallState, Start
  <2>4. ASSUME NEW c \in Call, FoundIdle(c) PROVE TypeInv'
    BY <2>4 DEF FoundIdle, CallState
  <2>5. ASSUME NEW c \in Call, StartRun(c) PROVE TypeInv'
    <3>0. req[c].dag \in Dag /\ req[c].kind # "resume"
      BY <2>5, RequestFields DEF StartRun
    <3>1. CASE UNCHANGED tasks /\ at' = [at EXCEPT ![c] = "refused"]
      <4>1. at[c] \in {"asking", "holding"} /\ UNCHANGED <<req, tasks, rows, misfortune>>
        BY <2>5, <3>1 DEF StartRun, Unlocks
      <4>2. lock' \in [Dag -> Call \union {None}]
        BY <2>5 DEF StartRun, Unlocks
      <4> HIDE DEF TypeInv, TypeOK, tasks, rows, misfortune
      <4> QED BY <3>0, <3>1, <4>1, <4>2, RefusalTypes
    <3>2. CASE \E p \in [Node -> MemoryState] : Creates(c, p) /\ at' = [at EXCEPT ![c] = "replied"]
      <4>1. /\ at' \in [Call -> CallState] /\ task' \in [Call -> TaskState]
            /\ active' \in [Dag -> Call \union {None}]
            /\ memory' \in [Call -> [Node -> MemoryState]]
        BY <3>0, <3>2 DEF Creates, CallState, TaskState, Begun
      <4>2. lock' \in [Dag -> Call \union {None}]
        BY <2>5 DEF StartRun, Unlocks
      <4> QED BY <2>5, <3>0, <3>2, <4>1, <4>2 DEF StartRun, Creates
    <3> QED BY <2>5, <3>1, <3>2 DEF StartRun, Unlocks, MemoryState, PrefilledOutputs
  <2>6. ASSUME NEW c \in Call, TakeLock(c) PROVE TypeInv'
    <3>1. req[c].dag \in Dag
      BY RequestFields
    <3>a. at \in [Call -> CallState] /\ lock \in [Dag -> Call \union {None}]
      OBVIOUS
    <3>2. at' \in [Call -> CallState] /\ lock' \in [Dag -> Call \union {None}]
      <4> HIDE DEF TypeInv, TypeOK, calls, tasks, rows, misfortune
      <4>1. at' \in [Call -> CallState]
        BY <2>6, <3>a DEF TakeLock, CallState
      <4>2. lock' \in [Dag -> Call \union {None}]
        BY <2>6, <3>a, <3>1 DEF TakeLock
      <4> QED BY <4>1, <4>2
    <3>3. \A e \in Call : at'[e] = at[e] \/ (e = c /\ at[e] = "asking" /\ at'[e] # "idle")
      BY <2>6 DEF TakeLock
    <3> QED BY <2>6, <3>2, <3>3 DEF TakeLock
  <2>7. ASSUME NEW c \in Call, RunNodeTrigger(c) PROVE TypeInv'
    <3>0. req[c].dag \in Dag /\ req[c].kind # "resume"
      BY <2>7, RequestFields DEF RunNodeTrigger
    <3>1. CASE UNCHANGED tasks /\ at' = [at EXCEPT ![c] = "refused"]
      <4>1. at[c] \in {"asking", "holding"} /\ UNCHANGED <<req, tasks, rows, misfortune>>
        BY <2>7, <3>1 DEF RunNodeTrigger, Unlocks
      <4>2. lock' \in [Dag -> Call \union {None}]
        BY <2>7 DEF RunNodeTrigger, Unlocks
      <4> HIDE DEF TypeInv, TypeOK, tasks, rows, misfortune
      <4> QED BY <3>0, <3>1, <4>1, <4>2, RefusalTypes
    <3>2. CASE \E p \in [Node -> MemoryState] : Creates(c, p) /\ at' = [at EXCEPT ![c] = "replied"]
      <4>1. /\ at' \in [Call -> CallState] /\ task' \in [Call -> TaskState]
            /\ active' \in [Dag -> Call \union {None}]
            /\ memory' \in [Call -> [Node -> MemoryState]]
        BY <3>0, <3>2 DEF Creates, CallState, TaskState, Begun
      <4>2. lock' \in [Dag -> Call \union {None}]
        BY <2>7 DEF RunNodeTrigger, Unlocks
      <4> QED BY <2>7, <3>0, <3>2, <4>1, <4>2 DEF RunNodeTrigger, Creates
    <3> QED BY <2>7, <3>1, <3>2 DEF RunNodeTrigger, Unlocks, MemoryState, PrefilledOutputs
  <2>8. ASSUME NEW c \in Call, RetryNode(c) PROVE TypeInv'
    <3>0. req[c].dag \in Dag /\ req[c].kind # "resume"
      BY <2>8, RequestFields DEF RetryNode
    <3>1. CASE UNCHANGED tasks /\ at' = [at EXCEPT ![c] = "refused"]
      <4>1. at[c] \in {"asking", "holding"} /\ UNCHANGED <<req, tasks, rows, misfortune>>
        BY <2>8, <3>1 DEF RetryNode, Unlocks
      <4>2. lock' \in [Dag -> Call \union {None}]
        BY <2>8 DEF RetryNode, Unlocks
      <4> HIDE DEF TypeInv, TypeOK, tasks, rows, misfortune
      <4> QED BY <3>0, <3>1, <4>1, <4>2, RefusalTypes
    <3>2. CASE \E p \in [Node -> MemoryState] : Creates(c, p) /\ at' = [at EXCEPT ![c] = "replied"]
      <4>1. /\ at' \in [Call -> CallState] /\ task' \in [Call -> TaskState]
            /\ active' \in [Dag -> Call \union {None}]
            /\ memory' \in [Call -> [Node -> MemoryState]]
        BY <3>0, <3>2 DEF Creates, CallState, TaskState, Begun
      <4>2. lock' \in [Dag -> Call \union {None}]
        BY <2>8 DEF RetryNode, Unlocks
      <4> QED BY <2>8, <3>0, <3>2, <4>1, <4>2 DEF RetryNode, Creates
    <3> QED BY <2>8, <3>1, <3>2 DEF RetryNode, Unlocks, MemoryState, PrefilledOutputs
  <2>9. ASSUME NEW c \in Call, ResumeNode(c) PROVE TypeInv'
    <3> DEFINE K == {i \in DOMAIN outputs :
                       outputs[i].run = req[c].run => outputs[i].node \notin Scope(c)}
    <3>1. outputs' \in Seq([run : Call, node : Node, by : Call])
      <4>1. K \in SUBSET DOMAIN outputs /\ outputs' = Keep(K)
        BY <2>9 DEF ResumeNode
      <4> HIDE DEF K
      <4> QED BY <4>1, KeepSelects
    <3>2. /\ task' \in [Call -> TaskState] /\ at' \in [Call -> CallState]
          /\ memory' \in [Call -> [Node -> MemoryState]]
      BY <2>9 DEF ResumeNode, Unlocks, Creates, CallState, TaskState, Begun, MemoryState,
                  PrefilledOutputs
    <3> QED BY <2>9, <3>1, <3>2, RequestFields DEF ResumeNode, Unlocks, Creates
  <2>10. ASSUME NEW c \in Call, StopReturns(c) PROVE TypeInv'
    BY <2>10 DEF StopReturns, CallState
  <2>11. ASSUME NEW c \in Call, StopAbandoned(c) PROVE TypeInv'
    <3>1. /\ at' \in [Call -> CallState] /\ cancel' \in [Call -> BOOLEAN]
          /\ \A e \in Call : at'[e] = IF e = c THEN "refused" ELSE at[e]
      BY <2>11 DEF StopAbandoned, CallState
    <3>2. task[c] = "none"
      BY <2>11 DEF StopAbandoned
    <3> QED BY <2>11, <3>1, <3>2 DEF StopAbandoned
  <2>12. ASSUME NEW c \in Call, ClearFinishedTask(c) PROVE TypeInv'
    BY <2>12 DEF ClearFinishedTask
  <2>13. ASSUME NEW c \in Call, LoadGraph(c) PROVE TypeInv'
    BY <2>13 DEF LoadGraph, Goes, TaskState, Begun
  <2>14. ASSUME NEW c \in Call, OpenRow(c) PROVE TypeInv'
    <3>1. nodeRow' \in [Call -> [Node -> NodeStatus]] /\ opened' \in Seq(Call)
      <4>1. CASE RunOf(c) = c
        <5> DEFINE ns == IF req[c].kind = "node" THEN Scope(c) ELSE Node
                   opening == [n \in Node |-> IF n \in ns THEN "pending" ELSE "absent"]
        <5>1. opening \in [Node -> NodeStatus]
          BY DEF NodeStatus
        <5>2. nodeRow' = [nodeRow EXCEPT ![c] = opening] /\ opened' = Append(opened, c)
          BY <2>14, <4>1 DEF OpenRow
        <5> QED BY <5>1, <5>2
      <4> QED BY <2>14, <4>1 DEF OpenRow
    <3>2. task' \in [Call -> TaskState] /\ row' \in [Call -> Final \union {"absent", "running"}]
      BY <2>14 DEF OpenRow, Goes, TaskState, Begun
    <3> QED BY <2>14, <3>1, <3>2 DEF OpenRow, Goes
  <2>15. ASSUME NEW c \in Call, EnterTry(c) PROVE TypeInv'
    BY <2>15 DEF EnterTry, Goes, TaskState, Trying
  <2>16. ASSUME NEW c \in Call, NEW n \in Node, NodeBegins(c, n) PROVE TypeInv'
    <3>1. memory' \in [Call -> [Node -> MemoryState]] /\ nodeRow' \in [Call -> [Node -> NodeStatus]]
      BY <2>16 DEF NodeBegins, MemoryState, NodeStatus
    <3>2. facts' \in [Call -> SUBSET Node]
      BY <2>16 DEF NodeBegins, Up
    <3> QED BY <2>16, <3>1, <3>2 DEF NodeBegins
  <2>17. ASSUME NEW c \in Call, NEW n \in Node, NodeBlocked(c, n) PROVE TypeInv'
    <3>1. memory' \in [Call -> [Node -> MemoryState]] /\ nodeRow' \in [Call -> [Node -> NodeStatus]]
      BY <2>17 DEF NodeBlocked, MemoryState, NodeStatus
    <3>2. facts' \in [Call -> SUBSET Node]
      BY <2>17 DEF NodeBlocked, Up
    <3> QED BY <2>17, <3>1, <3>2 DEF NodeBlocked
  <2>18. ASSUME NEW c \in Call, NEW n \in Node, NodeStores(c, n) PROVE TypeInv'
    <3>1. memory' \in [Call -> [Node -> MemoryState]]
      BY <2>18 DEF NodeStores, MemoryState
    <3>2. outputs' \in Seq([run : Call, node : Node, by : Call])
      BY <2>18, RunOfInCall DEF NodeStores
    <3> QED BY <2>18, <3>1, <3>2 DEF NodeStores
  <2>19. ASSUME NEW c \in Call, NEW n \in Node, NodeEnds(c, n) PROVE TypeInv'
    <3>1. PICK m \in MemoryState, s \in NodeStatus :
            /\ memory' = [memory EXCEPT ![c][n] = m]
            /\ nodeRow' = [nodeRow EXCEPT ![RunOf(c)][n] = s]
            /\ faults' \in Nat
      BY <2>19 DEF NodeEnds, MemoryState, NodeStatus
    <3> QED BY <2>19, <3>1 DEF NodeEnds
  <2>20. ASSUME NEW c \in Call, Emitted(c) PROVE TypeInv'
    BY <2>20 DEF Emitted, TaskState
  <2>21. ASSUME NEW c \in Call, Return(c) PROVE TypeInv'
    <3>1. task' \in [Call -> TaskState]
      BY <2>21 DEF Return, Drained, TaskState, Trying
    <3>2. verdict' = [verdict EXCEPT ![c] = verdict'[c]] /\ verdict'[c] \in Final
      BY <2>21 DEF Return, Drained, ResultStatus, Final
    <3> QED BY <2>21, <3>1, <3>2 DEF Return, Drained, Dispatching
  <2>22. ASSUME NEW c \in Call, PersistOutputs(c) PROVE TypeInv'
    <3> DEFINE K == {i \in DOMAIN outputs : Cardinality(Newer(outputs[i].run)) < Retention}
    <3>1. outputs' \in Seq([run : Call, node : Node, by : Call])
      <4>1. K \in SUBSET DOMAIN outputs /\ outputs' = Keep(K)
        BY <2>22 DEF PersistOutputs
      <4> HIDE DEF K
      <4> QED BY <4>1, KeepSelects
    <3> QED BY <2>22, <3>1 DEF PersistOutputs, Goes, TaskState, Trying
  <2>23. ASSUME NEW c \in Call, FinishDagRun(c) PROVE TypeInv'
    BY <2>23 DEF FinishDagRun, Goes, TaskState, Trying
  <2>24. ASSUME NEW c \in Call, Leave(c) PROVE TypeInv'
    BY <2>24 DEF Leave, Goes, TaskState, Ended
  <2>25. ASSUME NEW c \in Call, FinishFailed(c) PROVE TypeInv'
    BY <2>25 DEF FinishFailed, Goes, TaskState, Ended, Final
  <2>26. ASSUME NEW c \in Call, Interrupt(c) PROVE TypeInv'
    <3>1. task' \in [Call -> TaskState] /\ at' \in [Call -> CallState]
      BY <2>26 DEF Interrupt, TaskState, CallState
    <3>2. \A e \in Call : /\ at[e] = "replied" => at'[e] = "replied"
                          /\ at[e] # "idle" => at'[e] # "idle"
                          /\ at'[e] # "idle" => at[e] # "idle"
      BY <2>26, CallAssumption DEF Interrupt
    <3>3. TypeOK'
      BY <2>26, <3>1 DEF Interrupt
    <3>4. \A e \in Call : task'[e] # "none" => at'[e] = "replied"
      BY <2>26, <3>2 DEF Interrupt, Trying
    <3>5. \A e \in Call : emission'[e] # None => at'[emission'[e]] # "idle"
      BY <2>26, <3>2 DEF Interrupt
    <3>6. \A e \in Call : at'[e] # "idle" /\ req'[e].kind = "resume" => req'[e].run \in Call
      BY <2>26, <3>2 DEF Interrupt
    <3>7. \A e \in Call : task'[e] \in {"closing", "persisted", "closed"} => verdict'[e] \in Final
      BY <2>26 DEF Interrupt
    <3> QED BY <3>3, <3>4, <3>5, <3>6, <3>7
  <2>27. ASSUME NEW c \in Call, FinishCancelled(c) PROVE TypeInv'
    BY <2>27 DEF FinishCancelled, Goes, TaskState, Ended, Final
  <2>28. ASSUME NEW c \in Call, Abandon(c) PROVE TypeInv'
    BY <2>28, RunOfInCall DEF Abandon, TaskState, Begun, Ended
  <2>29. ASSUME NEW c \in Call, Raise(c) PROVE TypeInv'
    BY <2>29 DEF Raise, TaskState
  <2>30. ASSUME NEW c \in Call, RaiseEarly(c) PROVE TypeInv'
    BY <2>30 DEF RaiseEarly, TaskState, Ended
  <2>31. ASSUME NEW c \in Call, CloseFails(c) PROVE TypeInv'
    BY <2>31, RunOfInCall DEF CloseFails, TaskState, Ended
  <2>32. CASE Crash
    BY <2>32, NumberAssumption DEF Crash, CallState, TaskState, Ended, Live
  <2>33. CASE UNCHANGED vars
    BY <2>33 DEF vars
  <2>34. ASSUME NEW c \in Call, Begin(c) PROVE TypeInv'
    <3>1. memory' \in [Call -> [Node -> MemoryState]]
      BY <2>34 DEF Begin, MemoryState
    <3>2. nodeRow' \in [Call -> [Node -> NodeStatus]]
      BY <2>34 DEF Begin, NodeStatus
    <3>3. task' = [task EXCEPT ![c] = "running"] /\ "running" \in TaskState
      BY <2>34 DEF Begin, Goes, TaskState, Trying
    <3> QED BY <2>34, <3>1, <3>2, <3>3 DEF Begin, Goes
  <2>35. ASSUME NEW c \in Call, ReturnNothing(c) PROVE TypeInv'
    <3>1. task' = [task EXCEPT ![c] = "failing"] /\ "failing" \in TaskState
      BY <2>35 DEF ReturnNothing, TaskState
    <3> QED BY <2>35, <3>1 DEF ReturnNothing, Drained, Dispatching
  <2> HIDE DEF TypeInv, TypeOK, calls, tasks, rows, misfortune
  <2> QED BY <2>1, <2>2, <2>3, <2>4, <2>5, <2>6, <2>7, <2>8, <2>9, <2>10, <2>11, <2>12,
             <2>13, <2>14, <2>15, <2>16, <2>17, <2>18, <2>19, <2>20, <2>21, <2>22, <2>23,
             <2>24, <2>25, <2>26, <2>27, <2>28, <2>29, <2>30, <2>31, <2>32, <2>33,
             <2>34, <2>35
       DEF Next, CallSteps, TaskSteps, Opens, NodeSteps, Closes, Mishaps
<1> QED BY <1>1, <1>2, PTL DEF Spec

(* Type correctness: what DagController keeps per call, run and DAG        *)
(* (dag_controller.py:169-640) has the shape the code gives it.            *)
THEOREM ControllerTypeOK == Spec => []TypeOK
BY ControllerTypeInv, PTL DEF TypeInv
-----------------------------------------------------------------------------
(* One run at a time.                                                      *)

AdmissionInv == CallInv /\ LiveIsRegistered

(* A task that goes on, or ends, lets nobody in by that and hides nobody.  *)
LEMMA TaskMoves ==
  ASSUME TypeInv, AdmissionInv, NEW c \in Call, Live(c),
         NEW s, s # "none", task' = [task EXCEPT ![c] = s],
         UNCHANGED <<req, at, lock, active>>,
         \/ row' = row
         \/ \E st : st # "absent" /\ row' = [row EXCEPT ![RunOf(c)] = st]
  PROVE  AdmissionInv'
<1> USE DEF TypeInv, TypeOK, AdmissionInv, CallInv, LiveIsRegistered, Live, Done, Busy
<1>1. \A e \in Call : task'[e] = "none" <=> task[e] = "none"
  OBVIOUS
<1>2. \A e \in Call : Live(e)' => Live(e)
  OBVIOUS
<1>3. RunOf(c) \in Call /\ task[RunOf(c)] # "none" /\ req[RunOf(c)].kind # "resume"
  BY RunOfInCall DEF RunOf
<1>4. \A r \in Call : /\ row'[r] # "absent" => row[r] # "absent" \/ r = RunOf(c)
                      /\ row[r] # "absent" => row'[r] # "absent"
  BY <1>3
<1>5. \A e \in Call : at[e] = "holding" /\ req[e].kind # "node" => ~ Busy(req[e].dag)'
  OBVIOUS
<1>6. \A r \in Call : row'[r] # "absent" => task'[r] # "none" /\ req'[r].kind # "resume"
  BY <1>1, <1>3, <1>4
<1>7. \A e \in Call : at'[e] # "idle" /\ req'[e].kind = "resume" =>
        row'[req'[e].run] # "absent" /\ req'[e].dag = req'[req'[e].run].dag
  BY <1>4
<1>8. LiveIsRegistered'
  BY <1>2
<1> QED BY <1>5, <1>6, <1>7, <1>8

(* A call that is admitted finds its DAG without a run, and no other call  *)
(* holds the lock of it.                                                   *)
LEMMA TaskCreated ==
  ASSUME TypeInv, AdmissionInv, NEW c \in Call,
         at[c] \in {"asking", "holding"}, ~ Busy(req[c].dag),
         lock[req[c].dag] \in {None, c},
         active' = [active EXCEPT ![req[c].dag] = c],
         task' = [task EXCEPT ![c] = "created"], at' = [at EXCEPT ![c] = "replied"],
         lock' \in {lock, [lock EXCEPT ![req[c].dag] = None]},
         UNCHANGED <<req, row>>
  PROVE  AdmissionInv'
<1> USE DEF TypeInv, TypeOK, AdmissionInv, CallInv, LiveIsRegistered, Live, Done
<1>1. req[c].kind \in Starting /\ task[c] = "none" /\ \A e \in Call : req[e].dag \in Dag
  BY RequestFields
<1>2. \A e \in Call : at'[e] = "holding" => at[e] = "holding" /\ req[e].dag # req[c].dag
  BY CallAssumption
<1>3. \A e \in Call : at'[e] = "holding" => lock'[req'[e].dag] = e
  BY <1>1, <1>2
<1>4. ASSUME NEW d \in Dag, d # req[c].dag PROVE Busy(d)' <=> Busy(d)
  BY <1>1, <1>4 DEF Busy, Ended
<1>5. \A e \in Call : at'[e] = "holding" /\ req'[e].kind # "node" => ~ Busy(req[e].dag)'
  BY <1>1, <1>2, <1>4
<1>6. LiveIsRegistered'
  <2>1. \A e \in Call : Live(e) => req[e].dag # req[c].dag
    BY CallAssumption DEF Busy
  <2> QED BY <1>1, <2>1
<1>7. \A e \in Call : at'[e] # "idle" /\ req'[e].kind = "resume" =>
        row'[req'[e].run] # "absent" /\ req'[e].dag = req'[req'[e].run].dag
  OBVIOUS
<1>8. \A r \in Call : row'[r] # "absent" => task'[r] # "none" /\ req'[r].kind # "resume"
  OBVIOUS
<1>9. \A e \in Call : at'[e] \in {"polling", "asking", "holding"} => req'[e].kind \in Starting
  OBVIOUS
<1> QED BY <1>3, <1>5, <1>6, <1>7, <1>8, <1>9

(* A call that has no task yet makes a request, waits or is answered.      *)
LEMMA CallMoves ==
  ASSUME TypeInv, AdmissionInv, NEW c \in Call, task[c] = "none",
         NEW s, at' = [at EXCEPT ![c] = s], s # "holding",
         s \in {"polling", "asking"} => req'[c].kind \in Starting,
         NEW q, req' = [req EXCEPT ![c] = q],
         s # "idle" /\ q.kind = "resume" =>
           q.run \in Call \ {c} /\ row[q.run] # "absent" /\ q.dag = req[q.run].dag,
         \A d \in Dag : lock'[d] = lock[d] \/ (at[c] = "holding" /\ d = req[c].dag),
         UNCHANGED <<active, task, row>>
  PROVE  AdmissionInv'
<1> USE DEF TypeInv, TypeOK, AdmissionInv, CallInv, LiveIsRegistered, Live, Done
<1>1. \A e \in Call \ {c} : at'[e] = at[e] /\ req'[e] = req[e]
  OBVIOUS
<1>2. at'[c] = s /\ req'[c] = q
  OBVIOUS
<1>3. \A d \in Dag : Busy(d)' <=> Busy(d)
  BY DEF Busy
<1>4. row[c] = "absent" /\ \A e \in Call : req[e].dag \in Dag
  BY RequestFields
<1>5. ASSUME NEW e \in Call, at'[e] = "holding" PROVE e # c /\ lock'[req'[e].dag] = e
  <2>1. e # c /\ at[e] = "holding" /\ req'[e] = req[e]
    BY <1>1, <1>2, <1>5
  <2>2. lock[req[e].dag] = e /\ req[e].dag \in Dag
    BY <1>4, <2>1
  <2>3. ~ (at[c] = "holding" /\ req[e].dag = req[c].dag)
    BY <2>1, <2>2
  <2> QED BY <2>1, <2>2, <2>3
<1>6. \A e \in Call : at'[e] = "holding" /\ req'[e].kind # "node" => ~ Busy(req[e].dag)'
  BY <1>1, <1>2, <1>3, <1>4
<1>7. \A e \in Call : at'[e] # "idle" /\ req'[e].kind = "resume" =>
        row'[req'[e].run] # "absent" /\ req'[e].dag = req'[req'[e].run].dag
  BY <1>1, <1>2, <1>4
<1>8. \A r \in Call : row'[r] # "absent" => task'[r] # "none" /\ req'[r].kind # "resume"
  BY <1>1, <1>4
<1>9. \A e \in Call : at'[e] \in {"polling", "asking", "holding"} => req'[e].kind \in Starting
  BY <1>1, <1>2
<1>10. LiveIsRegistered'
  BY <1>1
<1> QED BY <1>5, <1>6, <1>7, <1>8, <1>9, <1>10

LEMMA ControllerAdmissionInv == Spec => []AdmissionInv
<1>1. Init => AdmissionInv
  BY DEF Init, AdmissionInv, CallInv, LiveIsRegistered, Live
<1>2. TypeInv /\ AdmissionInv /\ [Next]_vars => AdmissionInv'
  <2> SUFFICES ASSUME TypeInv, AdmissionInv, [Next]_vars PROVE AdmissionInv'
    OBVIOUS
  <2> USE DEF calls, tasks, rows, misfortune
  <2>0. \A c \in Call : task[c] # "none" => at[c] = "replied" /\ task[c] \in TaskState
    BY DEF TypeInv, TypeOK
  <2>1. ASSUME NEW c \in Call, NEW q \in Requests, Ask(c, q) PROVE AdmissionInv'
    <3>1. task[c] = "none"
      BY <2>0, <2>1 DEF Ask
    <3>2. PICK s \in {"polling", "asking"} : at' = [at EXCEPT ![c] = s]
      BY <2>1 DEF Ask
    <3>3. q.kind \in Starting /\ (q.kind = "resume" => q.run # None)
      BY <2>1, RequestAssumption DEF Ask, Starting
    <3> QED BY <2>1, <3>1, <3>2, <3>3, CallMoves DEF Ask, TypeInv, TypeOK
  <2>2. ASSUME NEW c \in Call, NEW q \in Requests, StopCurrent(c, q) PROVE AdmissionInv'
    <3>1. task[c] = "none"
      BY <2>0, <2>2 DEF StopCurrent
    <3>2. q \in Request /\ active[q.dag] \in Call
      BY <2>2, RequestAssumption, RequestFields DEF StopCurrent, Busy, TypeInv, TypeOK
    <3>3. req' = [req EXCEPT ![c] = [q EXCEPT !.run = active[q.dag]]]
      BY <2>2 DEF StopCurrent
    <3>4. [q EXCEPT !.run = active[q.dag]].kind # "resume"
      BY <2>2, <3>2, RequestFields DEF StopCurrent
    <3> QED BY <2>2, <3>1, <3>3, <3>4, CallMoves DEF StopCurrent
  <2>3. ASSUME NEW c \in Call, NEW e \in Call, NEW d \in Dag, Emit(c, e, d) PROVE AdmissionInv'
    <3>1. task[e] = "none"
      BY <2>0, <2>3 DEF Emit
    <3>2. Start(d).kind = "start"
      BY DEF Start
    <3>3. req' = [req EXCEPT ![e] = Start(d)] /\ req'[e] = Start(d)
      BY <2>3 DEF Emit, TypeInv, TypeOK
    <3> QED BY <2>3, <3>1, <3>2, <3>3, CallMoves DEF Emit, Starting
  <2>4. ASSUME NEW c \in Call, FoundIdle(c) PROVE AdmissionInv'
    <3>1. task[c] = "none"
      BY <2>0, <2>4 DEF FoundIdle
    <3>2. req' = [req EXCEPT ![c] = req[c]]
      BY <2>4 DEF FoundIdle, TypeInv, TypeOK
    <3>3. req[c].kind = "resume" => /\ req[c].run \in Call \ {c} /\ row[req[c].run] # "absent"
                                    /\ req[c].dag = req[req[c].run].dag
      BY <2>4 DEF FoundIdle, TypeInv, AdmissionInv, CallInv
    <3>4. PICK s \in {"asking"} : at' = [at EXCEPT ![c] = s]
      BY <2>4 DEF FoundIdle
    <3>5. at[c] = "polling" => req[c].kind \in Starting
      BY DEF AdmissionInv, CallInv
    <3>6. UNCHANGED <<active, task, row>> /\ \A d \in Dag : lock'[d] = lock[d]
      BY <2>4 DEF FoundIdle
    <3>7. at[c] = "polling" \/ at'[c] \in {"replied", "refused"}
      BY <2>4 DEF FoundIdle, TypeInv, TypeOK
    <3>8. req'[c].kind = req[c].kind
      BY <3>2 DEF TypeInv, TypeOK
    <3>9. at'[c] \in {"polling", "asking"} => req'[c].kind \in Starting
      BY <3>5, <3>7, <3>8
    <3>10. \A to \in {"asking", "replied", "refused"} :
             at' = [at EXCEPT ![c] = to] => at'[c] = to
      BY DEF TypeInv, TypeOK
    <3> QED BY <3>1, <3>2, <3>3, <3>4, <3>6, <3>9, <3>10, CallMoves
  <2>5. ASSUME NEW c \in Call, StartRun(c) PROVE AdmissionInv'
    <3>1. CASE Busy(req[c].dag) /\ at' = [at EXCEPT ![c] = "refused"] /\ UNCHANGED tasks
      <4>1. task[c] = "none"
        BY <2>0, <2>5 DEF StartRun
      <4>2. req' = [req EXCEPT ![c] = req[c]] /\ req[c].kind = "start"
        BY <2>5 DEF StartRun, TypeInv, TypeOK
      <4> QED BY <2>5, <3>1, <4>1, <4>2, CallMoves DEF StartRun
    <3>2. CASE /\ ~ Busy(req[c].dag)
               /\ Creates(c, [n \in Node |-> "none"])
               /\ at' = [at EXCEPT ![c] = "replied"]
      <4>1. /\ at[c] \in {"asking", "holding"}
            /\ lock[req[c].dag] \in {None, c}
            /\ lock' \in {lock, [lock EXCEPT ![req[c].dag] = None]}
            /\ UNCHANGED <<req, row>>
        BY <2>5 DEF StartRun
      <4>2. active' = [active EXCEPT ![req[c].dag] = c] /\ task' = [task EXCEPT ![c] = "created"]
        BY <3>2 DEF Creates
      <4> QED BY <3>2, <4>1, <4>2, TaskCreated
    <3> QED BY <2>5, <3>1, <3>2 DEF StartRun
  <2>6. ASSUME NEW c \in Call, TakeLock(c) PROVE AdmissionInv'
    <3>1. CASE Busy(req[c].dag) /\ at' = [at EXCEPT ![c] = "refused"] /\ UNCHANGED lock
      <4>1. task[c] = "none"
        BY <2>0, <2>6 DEF TakeLock
      <4>2. req' = [req EXCEPT ![c] = req[c]]
        BY <2>6 DEF TakeLock, TypeInv, TypeOK
      <4>3. req[c].kind = "resume" => /\ req[c].run \in Call \ {c} /\ row[req[c].run] # "absent"
                                      /\ req[c].dag = req[req[c].run].dag
        BY <2>6 DEF TakeLock, TypeInv, AdmissionInv, CallInv
      <4>4. UNCHANGED <<active, task, row>>
        BY <2>6 DEF TakeLock, tasks, rows
      <4>5. \A d \in Dag : lock'[d] = lock[d]
        BY <3>1
      <4> QED BY <3>1, <4>1, <4>2, <4>3, <4>4, <4>5, CallMoves
    <3>2. CASE /\ req[c].kind = "node" \/ ~ Busy(req[c].dag)
               /\ at' = [at EXCEPT ![c] = "holding"]
               /\ lock' = [lock EXCEPT ![req[c].dag] = c]
      <4> USE DEF TypeInv, TypeOK, AdmissionInv, CallInv, LiveIsRegistered, Live
      <4>1. \A e \in Call : req[e].dag \in Dag
        BY RequestFields
      <4>2. \A e \in Call : at'[e] = "holding" =>
              e = c \/ (at[e] = "holding" /\ lock[req[e].dag] = e)
        BY <3>2
      <4>3. lock[req[c].dag] = None /\ at[c] = "asking" /\ UNCHANGED <<req, active, task, row>>
        BY <2>6 DEF TakeLock
      <4>4. \A e \in Call : at'[e] = "holding" => lock'[req'[e].dag] = e
        BY <3>2, <4>1, <4>2, <4>3, CallAssumption
      <4>5. \A d \in Dag : Busy(d)' <=> Busy(d)
        BY <4>3 DEF Busy, Done
      <4>6. \A e \in Call : at'[e] = "holding" /\ req'[e].kind # "node" => ~ Busy(req[e].dag)'
        BY <3>2, <4>1, <4>2, <4>3, <4>5
      <4>7. \A e \in Call : at'[e] # "idle" /\ req'[e].kind = "resume" =>
              row'[req'[e].run] # "absent" /\ req'[e].dag = req'[req'[e].run].dag
        BY <3>2, <4>3
      <4>8. \A r \in Call : row'[r] # "absent" => task'[r] # "none" /\ req'[r].kind # "resume"
        BY <4>3
      <4>9. \A e \in Call : at'[e] \in {"polling", "asking", "holding"} => req'[e].kind \in Starting
        BY <3>2, <4>3
      <4>10. LiveIsRegistered'
        BY <4>3 DEF Done
      <4> QED BY <4>3, <4>4, <4>6, <4>7, <4>8, <4>9, <4>10
    <3> QED BY <2>6, <3>1, <3>2 DEF TakeLock
  <2>7. ASSUME NEW c \in Call, RunNodeTrigger(c) PROVE AdmissionInv'
    <3>1. CASE at' = [at EXCEPT ![c] = "refused"] /\ UNCHANGED tasks
      <4>1. task[c] = "none"
        BY <2>0, <2>7 DEF RunNodeTrigger, Unlocks
      <4>2. req' = [req EXCEPT ![c] = req[c]] /\ req[c].kind # "resume"
        BY <2>7 DEF RunNodeTrigger, TypeInv, TypeOK
      <4>3. \A d \in Dag : lock'[d] = lock[d] \/ (at[c] = "holding" /\ d = req[c].dag)
        BY <2>7 DEF RunNodeTrigger, Unlocks, TypeInv, TypeOK
      <4> QED BY <2>7, <3>1, <4>1, <4>2, <4>3, CallMoves DEF RunNodeTrigger
    <3>2. CASE /\ \E prefilled : Creates(c, prefilled)
               /\ at' = [at EXCEPT ![c] = "replied"]
               /\ ~ Busy(req[c].dag)
      <4>1. lock[req[c].dag] = c /\ lock' = [lock EXCEPT ![req[c].dag] = None]
        BY <2>7 DEF RunNodeTrigger, Unlocks, AdmissionInv, CallInv
      <4>2. at[c] = "holding" /\ UNCHANGED <<req, row>>
        BY <2>7 DEF RunNodeTrigger, Unlocks
      <4>3. active' = [active EXCEPT ![req[c].dag] = c] /\ task' = [task EXCEPT ![c] = "created"]
        BY <3>2 DEF Creates
      <4> QED BY <3>2, <4>1, <4>2, <4>3, TaskCreated
    <3> QED BY <2>7, <3>1, <3>2 DEF RunNodeTrigger, Unlocks, AdmissionInv, CallInv
  <2>8. ASSUME NEW c \in Call, RetryNode(c) PROVE AdmissionInv'
    <3>1. CASE at' = [at EXCEPT ![c] = "refused"] /\ UNCHANGED tasks
      <4>1. task[c] = "none"
        BY <2>0, <2>8 DEF RetryNode, Unlocks
      <4>2. req' = [req EXCEPT ![c] = req[c]] /\ req[c].kind # "resume"
        BY <2>8 DEF RetryNode, TypeInv, TypeOK
      <4>3. \A d \in Dag : lock'[d] = lock[d] \/ (at[c] = "holding" /\ d = req[c].dag)
        BY <2>8 DEF RetryNode, Unlocks, TypeInv, TypeOK
      <4> QED BY <2>8, <3>1, <4>1, <4>2, <4>3, CallMoves DEF RetryNode
    <3>2. CASE /\ \E prefilled : Creates(c, prefilled)
               /\ at' = [at EXCEPT ![c] = "replied"]
               /\ ~ Busy(req[c].dag)
      <4>1. lock[req[c].dag] = c /\ lock' = [lock EXCEPT ![req[c].dag] = None]
        BY <2>8 DEF RetryNode, Unlocks, AdmissionInv, CallInv
      <4>2. at[c] = "holding" /\ UNCHANGED <<req, row>>
        BY <2>8 DEF RetryNode, Unlocks
      <4>3. active' = [active EXCEPT ![req[c].dag] = c] /\ task' = [task EXCEPT ![c] = "created"]
        BY <3>2 DEF Creates
      <4> QED BY <3>2, <4>1, <4>2, <4>3, TaskCreated
    <3> QED BY <2>8, <3>1, <3>2 DEF RetryNode, Unlocks, AdmissionInv, CallInv
  <2>9. ASSUME NEW c \in Call, ResumeNode(c) PROVE AdmissionInv'
    <3>1. ~ Busy(req[c].dag) /\ lock[req[c].dag] = c
      BY <2>9 DEF ResumeNode, Unlocks, AdmissionInv, CallInv
    <3>2. /\ at[c] = "holding" /\ at' = [at EXCEPT ![c] = "replied"]
          /\ lock' = [lock EXCEPT ![req[c].dag] = None]
          /\ UNCHANGED <<req, row>>
      BY <2>9 DEF ResumeNode, Unlocks
    <3>3. active' = [active EXCEPT ![req[c].dag] = c] /\ task' = [task EXCEPT ![c] = "created"]
      BY <2>9 DEF ResumeNode, Creates
    <3> QED BY <3>1, <3>2, <3>3, TaskCreated
  <2>10. ASSUME NEW c \in Call, StopReturns(c) PROVE AdmissionInv'
    <3>1. task[c] = "none"
      BY <2>0, <2>10 DEF StopReturns
    <3>2. req' = [req EXCEPT ![c] = req[c]]
      BY <2>10 DEF StopReturns, TypeInv, TypeOK
    <3>3. req[c].kind = "resume" => /\ req[c].run \in Call \ {c} /\ row[req[c].run] # "absent"
                                    /\ req[c].dag = req[req[c].run].dag
      BY <2>10 DEF StopReturns, TypeInv, AdmissionInv, CallInv
    <3>4. PICK s \in {"replied", "refused"} : at' = [at EXCEPT ![c] = s]
      BY <2>10 DEF StopReturns
    <3>5. at[c] = "polling" => req[c].kind \in Starting
      BY DEF AdmissionInv, CallInv
    <3>6. UNCHANGED <<active, task, row>> /\ \A d \in Dag : lock'[d] = lock[d]
      BY <2>10 DEF StopReturns
    <3>7. at[c] = "polling" \/ at'[c] \in {"replied", "refused"}
      BY <2>10 DEF StopReturns, TypeInv, TypeOK
    <3>8. req'[c].kind = req[c].kind
      BY <3>2 DEF TypeInv, TypeOK
    <3>9. at'[c] \in {"polling", "asking"} => req'[c].kind \in Starting
      BY <3>5, <3>7, <3>8
    <3>10. \A to \in {"asking", "replied", "refused"} :
             at' = [at EXCEPT ![c] = to] => at'[c] = to
      BY DEF TypeInv, TypeOK
    <3> QED BY <3>1, <3>2, <3>3, <3>4, <3>6, <3>9, <3>10, CallMoves
  <2>11. ASSUME NEW c \in Call, StopAbandoned(c) PROVE AdmissionInv'
    <3>1. task[c] = "none"
      BY <2>0, <2>11 DEF StopAbandoned
    <3>2. req' = [req EXCEPT ![c] = req[c]]
      BY <2>11 DEF StopAbandoned, TypeInv, TypeOK
    <3>3. req[c].kind = "resume" => /\ req[c].run \in Call \ {c} /\ row[req[c].run] # "absent"
                                    /\ req[c].dag = req[req[c].run].dag
      BY <2>11 DEF StopAbandoned, TypeInv, AdmissionInv, CallInv
    <3>4. PICK s \in {"refused"} : at' = [at EXCEPT ![c] = s]
      BY <2>11 DEF StopAbandoned
    <3>5. at[c] = "polling" => req[c].kind \in Starting
      BY DEF AdmissionInv, CallInv
    <3>6. UNCHANGED <<active, task, row>> /\ \A d \in Dag : lock'[d] = lock[d]
      BY <2>11 DEF StopAbandoned
    <3>7. at[c] = "polling" \/ at'[c] \in {"replied", "refused"}
      BY <2>11 DEF StopAbandoned, TypeInv, TypeOK
    <3>8. req'[c].kind = req[c].kind
      BY <3>2 DEF TypeInv, TypeOK
    <3>9. at'[c] \in {"polling", "asking"} => req'[c].kind \in Starting
      BY <3>5, <3>7, <3>8
    <3>10. \A to \in {"asking", "replied", "refused"} :
             at' = [at EXCEPT ![c] = to] => at'[c] = to
      BY DEF TypeInv, TypeOK
    <3> QED BY <3>1, <3>2, <3>3, <3>4, <3>6, <3>9, <3>10, CallMoves
  <2>12. ASSUME NEW c \in Call, ClearFinishedTask(c) PROVE AdmissionInv'
    <3> USE DEF TypeInv, TypeOK, AdmissionInv, CallInv, LiveIsRegistered, Live, Done
    <3>1. UNCHANGED <<req, at, lock, task, row>>
      BY <2>12 DEF ClearFinishedTask
    <3>2. \A d \in Dag : active'[d] = active[d] \/ (active[d] = c /\ active'[d] = None)
      BY <2>12 DEF ClearFinishedTask
    <3>3. LiveIsRegistered'
      BY <2>12, <3>1, <3>2, RequestFields DEF ClearFinishedTask
    <3>4. \A d \in Dag : Busy(d)' => Busy(d)
      BY <3>1, <3>2 DEF Busy
    <3>5. \A e \in Call : at'[e] = "holding" /\ req'[e].kind # "node" => ~ Busy(req[e].dag)'
      BY <3>1, <3>4, RequestFields
    <3> QED BY <3>1, <3>3, <3>5
  <2>13. ASSUME NEW c \in Call, LoadGraph(c) PROVE AdmissionInv'
    <3>1. Live(c) /\ UNCHANGED <<req, at, lock, active, row>>
      BY <2>13 DEF LoadGraph, Live, Done, Ended, Goes, Begun
    <3>2. PICK s \in TaskState \ {"none"} : task' = [task EXCEPT ![c] = s]
      BY <2>13 DEF LoadGraph, TaskState, Begun, Trying, Ended, Goes
    <3> QED BY <3>1, <3>2, TaskMoves
  <2>14. ASSUME NEW c \in Call, EnterTry(c) PROVE AdmissionInv'
    <3>1. Live(c) /\ UNCHANGED <<req, at, lock, active, row>>
      BY <2>14 DEF EnterTry, Live, Done, Ended, Goes, Begun
    <3>2. PICK s \in TaskState \ {"none"} : task' = [task EXCEPT ![c] = s]
      BY <2>14 DEF EnterTry, TaskState, Begun, Trying, Ended, Goes
    <3> QED BY <3>1, <3>2, TaskMoves
  <2>15. ASSUME NEW c \in Call, Return(c) PROVE AdmissionInv'
    <3>1. Live(c) /\ UNCHANGED <<req, at, lock, active, row>>
      BY <2>15 DEF Return, Drained, Live, Done, Ended, Dispatching
    <3>2. PICK s \in TaskState \ {"none"} : task' = [task EXCEPT ![c] = s]
      BY <2>15 DEF Return, Drained, TaskState, Begun, Trying, Ended
    <3> QED BY <3>1, <3>2, TaskMoves
  <2>16. ASSUME NEW c \in Call, PersistOutputs(c) PROVE AdmissionInv'
    <3>1. Live(c) /\ UNCHANGED <<req, at, lock, active, row>>
      BY <2>16 DEF PersistOutputs, Live, Done, Ended, Goes
    <3>2. PICK s \in TaskState \ {"none"} : task' = [task EXCEPT ![c] = s]
      BY <2>16 DEF PersistOutputs, TaskState, Begun, Trying, Ended, Goes
    <3> QED BY <3>1, <3>2, TaskMoves
  <2>17. ASSUME NEW c \in Call, Leave(c) PROVE AdmissionInv'
    <3>1. Live(c) /\ UNCHANGED <<req, at, lock, active, row>>
      BY <2>17 DEF Leave, Live, Done, Ended, Goes
    <3>2. PICK s \in TaskState \ {"none"} : task' = [task EXCEPT ![c] = s]
      BY <2>17 DEF Leave, TaskState, Begun, Trying, Ended, Goes
    <3> QED BY <3>1, <3>2, TaskMoves
  <2>18. ASSUME NEW c \in Call, Abandon(c) PROVE AdmissionInv'
    <3>1. Live(c) /\ UNCHANGED <<req, at, lock, active, row>>
      BY <2>18 DEF Abandon, Live, Done, Ended, Begun
    <3>2. PICK s \in TaskState \ {"none"} : task' = [task EXCEPT ![c] = s]
      BY <2>18 DEF Abandon, TaskState, Begun, Trying, Ended
    <3> QED BY <3>1, <3>2, TaskMoves
  <2>19. ASSUME NEW c \in Call, Raise(c) PROVE AdmissionInv'
    <3>1. Live(c) /\ UNCHANGED <<req, at, lock, active, row>>
      BY <2>19 DEF Raise, Live, Done, Ended
    <3>2. PICK s \in TaskState \ {"none"} : task' = [task EXCEPT ![c] = s]
      BY <2>19 DEF Raise, TaskState, Begun, Trying, Ended
    <3> QED BY <3>1, <3>2, TaskMoves
  <2>20. ASSUME NEW c \in Call, RaiseEarly(c) PROVE AdmissionInv'
    <3>1. Live(c) /\ UNCHANGED <<req, at, lock, active, row>>
      BY <2>20 DEF RaiseEarly, Live, Done, Ended
    <3>2. PICK s \in TaskState \ {"none"} : task' = [task EXCEPT ![c] = s]
      BY <2>20 DEF RaiseEarly, TaskState, Begun, Trying, Ended
    <3> QED BY <3>1, <3>2, TaskMoves
  <2>21. ASSUME NEW c \in Call, CloseFails(c) PROVE AdmissionInv'
    <3>1. Live(c) /\ UNCHANGED <<req, at, lock, active, row>>
      BY <2>21 DEF CloseFails, Live, Done, Ended
    <3>2. PICK s \in TaskState \ {"none"} : task' = [task EXCEPT ![c] = s]
      BY <2>21 DEF CloseFails, TaskState, Begun, Trying, Ended
    <3> QED BY <3>1, <3>2, TaskMoves
  <2>22. ASSUME NEW c \in Call, OpenRow(c) PROVE AdmissionInv'
    <3>1. Live(c) /\ UNCHANGED <<req, at, lock, active>>
      BY <2>22 DEF OpenRow, Goes, Live, Done, Ended
    <3>2. PICK s \in TaskState \ {"none"} : task' = [task EXCEPT ![c] = s]
      BY <2>22 DEF OpenRow, Goes, TaskState, Begun, Trying, Ended
    <3>3. PICK st \in Final \union {"running"} : row' = [row EXCEPT ![RunOf(c)] = st]
      BY <2>22 DEF OpenRow, Goes, Final, TypeInv
    <3> QED BY <3>1, <3>2, <3>3, TaskMoves DEF Final
  <2>23. ASSUME NEW c \in Call, FinishDagRun(c) PROVE AdmissionInv'
    <3>1. Live(c) /\ UNCHANGED <<req, at, lock, active>>
      BY <2>23 DEF FinishDagRun, Goes, Live, Done, Ended
    <3>2. PICK s \in TaskState \ {"none"} : task' = [task EXCEPT ![c] = s]
      BY <2>23 DEF FinishDagRun, Goes, TaskState, Begun, Trying, Ended
    <3>3. PICK st \in Final \union {"running"} : row' = [row EXCEPT ![RunOf(c)] = st]
      BY <2>23 DEF FinishDagRun, Goes, Final, TypeInv
    <3> QED BY <3>1, <3>2, <3>3, TaskMoves DEF Final
  <2>24. ASSUME NEW c \in Call, FinishFailed(c) PROVE AdmissionInv'
    <3>1. Live(c) /\ UNCHANGED <<req, at, lock, active>>
      BY <2>24 DEF FinishFailed, Goes, Live, Done, Ended
    <3>2. PICK s \in TaskState \ {"none"} : task' = [task EXCEPT ![c] = s]
      BY <2>24 DEF FinishFailed, Goes, TaskState, Begun, Trying, Ended
    <3>3. PICK st \in Final \union {"running"} : row' = [row EXCEPT ![RunOf(c)] = st]
      BY <2>24 DEF FinishFailed, Goes, Final, TypeInv
    <3> QED BY <3>1, <3>2, <3>3, TaskMoves DEF Final
  <2>25. ASSUME NEW c \in Call, FinishCancelled(c) PROVE AdmissionInv'
    <3>1. Live(c) /\ UNCHANGED <<req, at, lock, active>>
      BY <2>25 DEF FinishCancelled, Goes, Live, Done, Ended
    <3>2. PICK s \in TaskState \ {"none"} : task' = [task EXCEPT ![c] = s]
      BY <2>25 DEF FinishCancelled, Goes, TaskState, Begun, Trying, Ended
    <3>3. PICK st \in Final \union {"running"} : row' = [row EXCEPT ![RunOf(c)] = st]
      BY <2>25 DEF FinishCancelled, Goes, Final, TypeInv
    <3> QED BY <3>1, <3>2, <3>3, TaskMoves DEF Final
  <2>26. ASSUME NEW c \in Call, NEW n \in Node, NodeBegins(c, n) PROVE AdmissionInv'
    BY <2>26 DEF NodeBegins, AdmissionInv, CallInv, LiveIsRegistered, Busy, Live, Done
  <2>27. ASSUME NEW c \in Call, NEW n \in Node, NodeBlocked(c, n) PROVE AdmissionInv'
    BY <2>27 DEF NodeBlocked, AdmissionInv, CallInv, LiveIsRegistered, Busy, Live, Done
  <2>28. ASSUME NEW c \in Call, NEW n \in Node, NodeStores(c, n) PROVE AdmissionInv'
    BY <2>28 DEF NodeStores, AdmissionInv, CallInv, LiveIsRegistered, Busy, Live, Done
  <2>29. ASSUME NEW c \in Call, NEW n \in Node, NodeEnds(c, n) PROVE AdmissionInv'
    BY <2>29 DEF NodeEnds, AdmissionInv, CallInv, LiveIsRegistered, Busy, Live, Done
  <2>30. ASSUME NEW c \in Call, Emitted(c) PROVE AdmissionInv'
    <3>1. Live(c) /\ UNCHANGED <<req, at, lock, active, row>>
      BY <2>30 DEF Emitted, Live, Done, Ended
    <3>2. PICK s \in {"running", "failing"} : task' = [task EXCEPT ![c] = s]
      BY <2>30 DEF Emitted
    <3> QED BY <3>1, <3>2, TaskMoves
  <2>31. ASSUME NEW c \in Call, Interrupt(c) PROVE AdmissionInv'
    <3> USE DEF TypeInv, TypeOK, AdmissionInv, CallInv
    <3>1. /\ Live(c) /\ task' = [task EXCEPT ![c] = "cancelling"]
          /\ UNCHANGED <<req, lock, active, row>>
      BY <2>31 DEF Interrupt, Live, Done, Ended, Trying
    <3>2. \A e \in Call : at'[e] = at[e] \/ (at[e] # "idle" /\ at'[e] = "refused")
      BY <2>31, CallAssumption DEF Interrupt
    <3>3. \A e \in Call : Done(e)' <=> Done(e)
      BY <3>1 DEF Live, Done, Ended
    <3>4. \A e \in Call : Live(e)' <=> Live(e)
      BY <3>1, <3>3 DEF Live, Done
    <3>5. LiveIsRegistered'
      BY <3>1, <3>4 DEF LiveIsRegistered
    <3>6. \A d \in Dag : Busy(d)' <=> Busy(d)
      BY <3>1, <3>3 DEF Busy
    <3>7. \A e \in Call : at'[e] = "holding" /\ req'[e].kind # "node" => ~ Busy(req[e].dag)'
      BY <3>1, <3>2, <3>3, RequestFields DEF Busy
    <3>8. \A r \in Call : row'[r] # "absent" => task'[r] # "none" /\ req'[r].kind # "resume"
      BY <3>1 DEF Live
    <3> QED BY <3>1, <3>2, <3>5, <3>7, <3>8
  <2>32. CASE Crash
    <3> USE DEF TypeInv, TypeOK, AdmissionInv, CallInv
    <3>1. UNCHANGED <<req, row>> /\ \A c \in Call : ~ Live(c)'
      BY <2>32 DEF Crash, Live, Done, Ended
    <3>2. \A c \in Call : at'[c] # "idle" => at[c] # "idle" /\ at'[c] \in {"replied", "refused"}
      BY <2>32 DEF Crash
    <3>3. \A c \in Call : task[c] # "none" => task'[c] # "none"
      BY <2>32 DEF Crash
    <3> QED BY <3>1, <3>2, <3>3 DEF LiveIsRegistered
  <2>33. CASE UNCHANGED vars
    BY <2>33 DEF vars, AdmissionInv, CallInv, LiveIsRegistered, Busy, Live, Done
  <2>34. ASSUME NEW c \in Call, Begin(c) PROVE AdmissionInv'
    <3>1. Live(c) /\ UNCHANGED <<req, at, lock, active, row>>
      BY <2>34 DEF Begin, Live, Done, Ended, Goes, Begun
    <3>2. PICK s \in TaskState \ {"none"} : task' = [task EXCEPT ![c] = s]
      BY <2>34 DEF Begin, TaskState, Begun, Trying, Ended, Goes
    <3> QED BY <3>1, <3>2, TaskMoves
  <2>35. ASSUME NEW c \in Call, ReturnNothing(c) PROVE AdmissionInv'
    <3>1. Live(c) /\ UNCHANGED <<req, at, lock, active, row>>
      BY <2>35 DEF ReturnNothing, Drained, Live, Done, Ended, Dispatching
    <3>2. PICK s \in TaskState \ {"none"} : task' = [task EXCEPT ![c] = s]
      BY <2>35 DEF ReturnNothing, Drained, TaskState, Begun, Trying, Ended
    <3> QED BY <3>1, <3>2, TaskMoves
  <2> QED BY <2>1, <2>2, <2>3, <2>4, <2>5, <2>6, <2>7, <2>8, <2>9, <2>10, <2>11, <2>12,
             <2>13, <2>14, <2>15, <2>16, <2>17, <2>18, <2>19, <2>20, <2>21, <2>22, <2>23,
             <2>24, <2>25, <2>26, <2>27, <2>28, <2>29, <2>30, <2>31, <2>32, <2>33,
             <2>34, <2>35
       DEF Next, CallSteps, TaskSteps, Opens, NodeSteps, Closes, Mishaps
<1> QED BY <1>1, <1>2, ControllerTypeInv, PTL DEF Spec

(* Safety: a run that goes on is the one that active_runs shows for its    *)
(* DAG, whichever calls overlap and whatever they await while they hold    *)
(* the lock of the DAG (dag_controller.py:589, 609).                       *)
THEOREM ControllerLiveIsRegistered == Spec => []LiveIsRegistered
BY ControllerAdmissionInv, PTL DEF AdmissionInv

LEMMA RunOnDag ==
  ASSUME TypeInv, AdmissionInv, NEW c \in Call, task[c] # "none"
  PROVE  RunOf(c) \in Call /\ req[c].dag = req[RunOf(c)].dag
BY DEF RunOf, TypeInv, AdmissionInv, CallInv

LEMMA SingleDriver ==
  ASSUME TypeInv, AdmissionInv
  PROVE  OneDriver
<1> SUFFICES ASSUME NEW c \in Call, NEW e \in Call, Live(c), Live(e), RunOf(c) = RunOf(e)
             PROVE  c = e
  BY DEF OneDriver
<1>1. req[c].dag = req[e].dag
  BY RunOnDag DEF Live
<1> QED BY <1>1 DEF AdmissionInv, LiveIsRegistered

(* Safety: a run id has one driver, although a resume takes the lock of a  *)
(* DAG and not one of the run: the run of a resume belongs to that DAG     *)
(* (dag_controller.py:472).                                                *)
THEOREM ControllerOneDriver == Spec => []OneDriver
BY SingleDriver, ControllerTypeInv, ControllerAdmissionInv, PTL

-----------------------------------------------------------------------------
(* Rows that say "running".                                                *)

ClosingInv == RowInv /\ RunningRowsAreDriven

(* Steps of calls do not touch rows, and do not change what a task drives. *)
LEMMA ClosingFrame ==
  ASSUME TypeInv, ClosingInv, UNCHANGED <<task, row, orphan>>,
         \A c \in Call : task[c] # "none" => req'[c] = req[c]
  PROVE  ClosingInv'
BY DEF ClosingInv, RowInv, RunningRowsAreDriven, Drives, Live, Done, RunOf

(* The row of a run that is admitted does not say "running", unless nobody *)
(* is going to close it: its driver would keep the DAG busy.               *)
LEMMA ClosingCreated ==
  ASSUME TypeInv, AdmissionInv, ClosingInv, NEW c \in Call, task[c] = "none",
         at[c] # "idle", ~ Busy(req[c].dag),
         task' = [task EXCEPT ![c] = "created"], UNCHANGED <<req, row, orphan>>
  PROVE  ClosingInv'
<1> USE DEF ClosingInv, RowInv, RunningRowsAreDriven, Live, Done, Ended
<1>1. RunOf(c) \in Call /\ req[c].dag = req[RunOf(c)].dag
  BY DEF TypeInv, AdmissionInv, CallInv, RunOf
<1>2. ASSUME row[RunOf(c)] = "running", RunOf(c) \notin orphan PROVE FALSE
  <2>1. PICK e \in Call : Live(e) /\ RunOf(e) = RunOf(c)
    BY <1>1, <1>2 DEF Drives
  <2>2. active[req[c].dag] = e
    BY <1>1, <2>1, RunOnDag DEF AdmissionInv, LiveIsRegistered
  <2> QED BY <2>1, <2>2, CallAssumption DEF Busy
<1>3. \A e \in Call : RunOf(e)' = RunOf(e)
  BY DEF RunOf
<1>4. \A e \in Call : task'[e] = IF e = c THEN "created" ELSE task[e]
  BY DEF TypeInv, TypeOK
<1>5. \A e \in Call : Live(e) => Live(e)'
  BY <1>4
<1> QED BY <1>2, <1>3, <1>4, <1>5 DEF Drives

(* A task goes on without writing its row.                                 *)
LEMMA ClosingTaskMoves ==
  ASSUME TypeInv, AdmissionInv, ClosingInv, NEW c \in Call, Live(c),
         NEW s, s \notin {"none", "created", "closed"}, task' = [task EXCEPT ![c] = s],
         s = "opening" => task[c] = "created",
         s \in Ended /\ row[RunOf(c)] = "running" => RunOf(c) \in orphan',
         UNCHANGED <<req, row>>, orphan \subseteq orphan'
  PROVE  ClosingInv'
<1> USE DEF ClosingInv, RowInv, RunningRowsAreDriven, Live, Done
<1>1. \A e \in Call : RunOf(e)' = RunOf(e)
  BY DEF RunOf
<1>2. \A e \in Call : task'[e] = IF e = c THEN s ELSE task[e]
  BY DEF TypeInv, TypeOK
<1>3. ASSUME NEW r \in Call, row[r] = "running", r \notin orphan'
      PROVE  \E e \in Call : Drives(e, r)'
  <2>1. PICK e \in Call : Live(e) /\ RunOf(e) = r
    BY <1>3 DEF Drives
  <2>2. Live(e)'
    BY <1>2, <1>3, <2>1
  <2> QED BY <1>1, <2>1, <2>2 DEF Drives
<1> QED BY <1>1, <1>2, <1>3

(* A task writes its row: it opens it, or it closes it for good.  No other *)
(* task cares for the row.                                                 *)
LEMMA ClosingRowWritten ==
  ASSUME TypeInv, AdmissionInv, ClosingInv, NEW c \in Call, Live(c),
         NEW s, NEW st, task' = [task EXCEPT ![c] = s], row' = [row EXCEPT ![RunOf(c)] = st],
         \/ s = "opened" /\ orphan' = orphan \ {RunOf(c)}
         \/ s \in {"closed", "raised", "interrupted"} /\ st # "running" /\ orphan' = orphan,
         UNCHANGED req
  PROVE  ClosingInv'
<1> USE DEF ClosingInv, RowInv, RunningRowsAreDriven, Live, Done, Ended
<1>1. \A e \in Call : RunOf(e)' = RunOf(e)
  BY DEF RunOf
<1>2. \A e \in Call : task'[e] = IF e = c THEN s ELSE task[e]
  BY DEF TypeInv, TypeOK
<1>3. RunOf(c) \in Call
  BY RunOfInCall
<1>4. \A r \in Call : row'[r] = IF r = RunOf(c) THEN st ELSE row[r]
  BY <1>3 DEF TypeInv, TypeOK
<1>5. \A e \in Call : Live(e) /\ e # c => RunOf(e) # RunOf(c)
  BY SingleDriver DEF OneDriver
<1>6. ASSUME NEW r \in Call, row'[r] = "running", r \notin orphan'
      PROVE  \E e \in Call : Drives(e, r)'
  <2>1. CASE r = RunOf(c)
    BY <1>1, <1>2, <1>4, <1>6, <2>1 DEF Drives
  <2>2. CASE r # RunOf(c)
    <3>1. PICK e \in Call : Live(e) /\ RunOf(e) = r
      BY <1>4, <1>6, <2>2 DEF Drives
    <3>2. Live(e)'
      BY <1>2, <2>2, <3>1
    <3> QED BY <1>1, <3>1, <3>2 DEF Drives
  <2> QED BY <2>1, <2>2
<1>7. \A e \in Call : task'[e] = "closed" => row'[RunOf(e)] # "running"
  BY <1>2, <1>3, <1>4, <1>5, RunOfInCall
<1>8. \A e \in Call : task'[e] \in {"created", "opening"} /\ row'[RunOf(e)] = "running" =>
        RunOf(e) \in orphan'
  BY <1>2, <1>3, <1>4, <1>5, RunOfInCall
<1> QED BY <1>1, <1>6, <1>7, <1>8

LEMMA ControllerClosingInv == Spec => []ClosingInv
<1>1. Init => ClosingInv
  BY DEF Init, ClosingInv, RowInv, RunningRowsAreDriven
<1>2. TypeInv /\ AdmissionInv /\ ClosingInv /\ [Next]_vars => ClosingInv'
  <2> SUFFICES ASSUME TypeInv, AdmissionInv, ClosingInv, [Next]_vars PROVE ClosingInv'
    OBVIOUS
  <2> USE DEF calls, tasks, rows, misfortune
  <2>0. \A c \in Call : task[c] # "none" => at[c] = "replied" /\ task[c] \in TaskState
    BY DEF TypeInv, TypeOK
  <2>1. ASSUME NEW c \in Call, NEW q \in Requests, Ask(c, q) PROVE ClosingInv'
    <3>1. \A e \in Call : task[e] # "none" => req'[e] = req[e]
      BY <2>0, <2>1 DEF Ask, TypeInv, TypeOK
    <3> QED BY <2>1, <3>1, ClosingFrame DEF Ask
  <2>2. ASSUME NEW c \in Call, NEW q \in Requests, StopCurrent(c, q) PROVE ClosingInv'
    <3>1. \A e \in Call : task[e] # "none" => req'[e] = req[e]
      BY <2>0, <2>2 DEF StopCurrent, TypeInv, TypeOK
    <3> QED BY <2>2, <3>1, ClosingFrame DEF StopCurrent
  <2>3. ASSUME NEW c \in Call, NEW e \in Call, NEW d \in Dag, Emit(c, e, d) PROVE ClosingInv'
    <3>1. \A f \in Call : task[f] # "none" => req'[f] = req[f]
      BY <2>0, <2>3 DEF Emit, TypeInv, TypeOK
    <3> QED BY <2>3, <3>1, ClosingFrame DEF Emit
  <2>4. ASSUME NEW c \in Call, FoundIdle(c) PROVE ClosingInv'
    BY <2>4, ClosingFrame DEF FoundIdle
  <2>5. ASSUME NEW c \in Call, StartRun(c) PROVE ClosingInv'
    <3>1. CASE UNCHANGED <<req, task, row, orphan>>
      BY <3>1, ClosingFrame
    <3>2. CASE /\ ~ Busy(req[c].dag) /\ task' = [task EXCEPT ![c] = "created"]
               /\ UNCHANGED <<req, row, orphan>>
      <4>1. task[c] = "none" /\ at[c] # "idle"
        BY <2>0, <2>5 DEF StartRun, Unlocks
      <4> QED BY <3>2, <4>1, ClosingCreated
    <3> QED BY <2>5, <3>1, <3>2 DEF StartRun, Creates, Unlocks, AdmissionInv, CallInv
  <2>6. ASSUME NEW c \in Call, TakeLock(c) PROVE ClosingInv'
    BY <2>6, ClosingFrame DEF TakeLock
  <2>7. ASSUME NEW c \in Call, RunNodeTrigger(c) PROVE ClosingInv'
    <3>1. CASE UNCHANGED <<req, task, row, orphan>>
      BY <3>1, ClosingFrame
    <3>2. CASE /\ ~ Busy(req[c].dag) /\ task' = [task EXCEPT ![c] = "created"]
               /\ UNCHANGED <<req, row, orphan>>
      <4>1. task[c] = "none" /\ at[c] # "idle"
        BY <2>0, <2>7 DEF RunNodeTrigger, Unlocks
      <4> QED BY <3>2, <4>1, ClosingCreated
    <3> QED BY <2>7, <3>1, <3>2 DEF RunNodeTrigger, Creates, Unlocks, AdmissionInv, CallInv
  <2>8. ASSUME NEW c \in Call, RetryNode(c) PROVE ClosingInv'
    <3>1. CASE UNCHANGED <<req, task, row, orphan>>
      BY <3>1, ClosingFrame
    <3>2. CASE /\ ~ Busy(req[c].dag) /\ task' = [task EXCEPT ![c] = "created"]
               /\ UNCHANGED <<req, row, orphan>>
      <4>1. task[c] = "none" /\ at[c] # "idle"
        BY <2>0, <2>8 DEF RetryNode, Unlocks
      <4> QED BY <3>2, <4>1, ClosingCreated
    <3> QED BY <2>8, <3>1, <3>2 DEF RetryNode, Creates, Unlocks, AdmissionInv, CallInv
  <2>9. ASSUME NEW c \in Call, ResumeNode(c) PROVE ClosingInv'
    <3>1. CASE UNCHANGED <<req, task, row, orphan>>
      BY <3>1, ClosingFrame
    <3>2. CASE /\ ~ Busy(req[c].dag) /\ task' = [task EXCEPT ![c] = "created"]
               /\ UNCHANGED <<req, row, orphan>>
      <4>1. task[c] = "none" /\ at[c] # "idle"
        BY <2>0, <2>9 DEF ResumeNode, Unlocks
      <4> QED BY <3>2, <4>1, ClosingCreated
    <3> QED BY <2>9, <3>1, <3>2 DEF ResumeNode, Creates, Unlocks, AdmissionInv, CallInv
  <2>10. ASSUME NEW c \in Call, StopReturns(c) PROVE ClosingInv'
    BY <2>10, ClosingFrame DEF StopReturns
  <2>11. ASSUME NEW c \in Call, StopAbandoned(c) PROVE ClosingInv'
    BY <2>11, ClosingFrame DEF StopAbandoned
  <2>12. ASSUME NEW c \in Call, ClearFinishedTask(c) PROVE ClosingInv'
    BY <2>12, ClosingFrame DEF ClearFinishedTask
  <2>13. ASSUME NEW c \in Call, LoadGraph(c) PROVE ClosingInv'
    <3>1. Live(c) /\ UNCHANGED <<req, row>> /\ orphan \subseteq orphan'
      BY <2>13 DEF LoadGraph, Goes, Live, Done, Begun, Trying, Ended, Dispatching
    <3>2. PICK s \in {"opening"} : task' = [task EXCEPT ![c] = s]
      BY <2>13 DEF LoadGraph, Goes
    <3>3. task[c] = "created"
      BY <2>13 DEF LoadGraph, Goes
    <3> QED BY <3>1, <3>2, <3>3, ClosingTaskMoves DEF Ended
  <2>14. ASSUME NEW c \in Call, OpenRow(c) PROVE ClosingInv'
    <3>1. Live(c) /\ UNCHANGED req
      BY <2>14 DEF OpenRow, Goes, Live, Done, Ended
    <3>2. /\ task' = [task EXCEPT ![c] = "opened"]
          /\ row' = [row EXCEPT ![RunOf(c)] = "running"]
          /\ orphan' = orphan \ {RunOf(c)}
      BY <2>14 DEF OpenRow, Goes
    <3> QED BY <3>1, <3>2, ClosingRowWritten
  <2>15. ASSUME NEW c \in Call, EnterTry(c) PROVE ClosingInv'
    <3>1. Live(c) /\ UNCHANGED <<req, row>> /\ orphan \subseteq orphan'
      BY <2>15 DEF EnterTry, Goes, Live, Done, Begun, Trying, Ended, Dispatching
    <3>2. PICK s \in {"preparing"} : task' = [task EXCEPT ![c] = s]
      BY <2>15 DEF EnterTry, Goes
    <3> QED BY <3>1, <3>2, ClosingTaskMoves DEF Ended
  <2>16. ASSUME NEW c \in Call, NEW n \in Node, NodeBegins(c, n) PROVE ClosingInv'
    BY <2>16, ClosingFrame DEF NodeBegins
  <2>17. ASSUME NEW c \in Call, NEW n \in Node, NodeBlocked(c, n) PROVE ClosingInv'
    BY <2>17, ClosingFrame DEF NodeBlocked
  <2>18. ASSUME NEW c \in Call, NEW n \in Node, NodeStores(c, n) PROVE ClosingInv'
    BY <2>18, ClosingFrame DEF NodeStores
  <2>19. ASSUME NEW c \in Call, NEW n \in Node, NodeEnds(c, n) PROVE ClosingInv'
    BY <2>19, ClosingFrame DEF NodeEnds
  <2>20. ASSUME NEW c \in Call, Emitted(c) PROVE ClosingInv'
    <3>1. Live(c) /\ UNCHANGED <<req, row>> /\ orphan \subseteq orphan'
      BY <2>20 DEF Emitted, Goes, Live, Done, Begun, Trying, Ended, Dispatching
    <3>2. PICK s \in {"running", "failing"} : task' = [task EXCEPT ![c] = s]
      BY <2>20 DEF Emitted, Goes
    <3> QED BY <3>1, <3>2, ClosingTaskMoves DEF Ended
  <2>21. ASSUME NEW c \in Call, Return(c) PROVE ClosingInv'
    <3>1. Live(c) /\ UNCHANGED <<req, row>> /\ orphan \subseteq orphan'
      BY <2>21 DEF Return, Drained, Goes, Live, Done, Begun, Trying, Ended, Dispatching
    <3>2. PICK s \in {"closing"} : task' = [task EXCEPT ![c] = s]
      BY <2>21 DEF Return, Drained, Goes
    <3> QED BY <3>1, <3>2, ClosingTaskMoves DEF Ended
  <2>22. ASSUME NEW c \in Call, PersistOutputs(c) PROVE ClosingInv'
    <3>1. Live(c) /\ UNCHANGED <<req, row>> /\ orphan \subseteq orphan'
      BY <2>22 DEF PersistOutputs, Goes, Live, Done, Begun, Trying, Ended, Dispatching
    <3>2. PICK s \in {"persisted"} : task' = [task EXCEPT ![c] = s]
      BY <2>22 DEF PersistOutputs, Goes
    <3> QED BY <3>1, <3>2, ClosingTaskMoves DEF Ended
  <2>23. ASSUME NEW c \in Call, FinishDagRun(c) PROVE ClosingInv'
    <3>1. Live(c) /\ UNCHANGED req
      BY <2>23 DEF FinishDagRun, Goes, Live, Done, Ended
    <3>2. PICK s \in {"closed"}, st \in Final :
            /\ task' = [task EXCEPT ![c] = s]
            /\ row' = [row EXCEPT ![RunOf(c)] = st]
            /\ orphan' = orphan
      BY <2>23 DEF FinishDagRun, Goes, Final, TypeInv
    <3> QED BY <3>1, <3>2, ClosingRowWritten DEF Final
  <2>24. ASSUME NEW c \in Call, Leave(c) PROVE ClosingInv'
    <3>1. Live(c) /\ UNCHANGED <<req, row>> /\ orphan \subseteq orphan'
      BY <2>24 DEF Leave, Goes, Live, Done, Begun, Trying, Ended, Dispatching
    <3>2. PICK s \in {"returned"} : task' = [task EXCEPT ![c] = s]
      BY <2>24 DEF Leave, Goes
    <3>3. row[RunOf(c)] # "running"
      BY <2>24 DEF Leave, Goes, ClosingInv, RowInv
    <3> QED BY <3>1, <3>2, <3>3, ClosingTaskMoves DEF Ended
  <2>25. ASSUME NEW c \in Call, FinishFailed(c) PROVE ClosingInv'
    <3>1. Live(c) /\ UNCHANGED req
      BY <2>25 DEF FinishFailed, Goes, Live, Done, Ended
    <3>2. PICK s \in {"raised"}, st \in Final :
            /\ task' = [task EXCEPT ![c] = s]
            /\ row' = [row EXCEPT ![RunOf(c)] = st]
            /\ orphan' = orphan
      BY <2>25 DEF FinishFailed, Goes, Final, TypeInv
    <3> QED BY <3>1, <3>2, ClosingRowWritten DEF Final
  <2>26. ASSUME NEW c \in Call, Interrupt(c) PROVE ClosingInv'
    <3>1. Live(c) /\ UNCHANGED <<req, row>> /\ orphan \subseteq orphan'
      BY <2>26 DEF Interrupt, Goes, Live, Done, Begun, Trying, Ended, Dispatching
    <3>2. PICK s \in {"cancelling"} : task' = [task EXCEPT ![c] = s]
      BY <2>26 DEF Interrupt, Goes
    <3> QED BY <3>1, <3>2, ClosingTaskMoves DEF Ended
  <2>27. ASSUME NEW c \in Call, FinishCancelled(c) PROVE ClosingInv'
    <3>1. Live(c) /\ UNCHANGED req
      BY <2>27 DEF FinishCancelled, Goes, Live, Done, Ended
    <3>2. PICK s \in {"interrupted"}, st \in Final :
            /\ task' = [task EXCEPT ![c] = s]
            /\ row' = [row EXCEPT ![RunOf(c)] = st]
            /\ orphan' = orphan
      BY <2>27 DEF FinishCancelled, Goes, Final, TypeInv
    <3> QED BY <3>1, <3>2, ClosingRowWritten DEF Final
  <2>28. ASSUME NEW c \in Call, Abandon(c) PROVE ClosingInv'
    <3>1. Live(c) /\ UNCHANGED <<req, row>> /\ orphan \subseteq orphan'
      BY <2>28 DEF Abandon, Goes, Live, Done, Begun, Trying, Ended, Dispatching
    <3>2. PICK s \in {"interrupted"} : task' = [task EXCEPT ![c] = s]
      BY <2>28 DEF Abandon, Goes
    <3>3. row[RunOf(c)] = "running" => RunOf(c) \in orphan'
      BY <2>28 DEF Abandon
    <3> QED BY <3>1, <3>2, <3>3, ClosingTaskMoves DEF Ended
  <2>29. ASSUME NEW c \in Call, Raise(c) PROVE ClosingInv'
    <3>1. Live(c) /\ UNCHANGED <<req, row>> /\ orphan \subseteq orphan'
      BY <2>29 DEF Raise, Goes, Live, Done, Begun, Trying, Ended, Dispatching
    <3>2. PICK s \in {"failing"} : task' = [task EXCEPT ![c] = s]
      BY <2>29 DEF Raise, Goes
    <3> QED BY <3>1, <3>2, ClosingTaskMoves DEF Ended
  <2>30. ASSUME NEW c \in Call, RaiseEarly(c) PROVE ClosingInv'
    <3>1. Live(c) /\ UNCHANGED <<req, row>> /\ orphan \subseteq orphan'
      BY <2>30 DEF RaiseEarly, Goes, Live, Done, Begun, Trying, Ended, Dispatching
    <3>2. PICK s \in {"raised"} : task' = [task EXCEPT ![c] = s]
      BY <2>30 DEF RaiseEarly, Goes
    <3>3. row[RunOf(c)] = "running" => RunOf(c) \in orphan'
      BY <2>30 DEF RaiseEarly, ClosingInv, RowInv
    <3> QED BY <3>1, <3>2, <3>3, ClosingTaskMoves DEF Ended
  <2>31. ASSUME NEW c \in Call, CloseFails(c) PROVE ClosingInv'
    <3>1. Live(c) /\ UNCHANGED <<req, row>> /\ orphan \subseteq orphan'
      BY <2>31 DEF CloseFails, Goes, Live, Done, Begun, Trying, Ended, Dispatching
    <3>2. PICK s \in {"raised"} : task' = [task EXCEPT ![c] = s]
      BY <2>31 DEF CloseFails, Goes
    <3>3. row[RunOf(c)] = "running" => RunOf(c) \in orphan'
      BY <2>31 DEF CloseFails
    <3> QED BY <3>1, <3>2, <3>3, ClosingTaskMoves DEF Ended
  <2>32. CASE Crash
    <3>1. UNCHANGED row /\ orphan' = {r \in Call : row[r] = "running"}
      BY <2>32 DEF Crash
    <3>2. \A c \in Call : task'[c] \notin {"closed", "created", "opening"}
      BY <2>32 DEF Crash, Live, Done, Ended
    <3> QED BY <3>1, <3>2 DEF ClosingInv, RowInv, RunningRowsAreDriven
  <2>33. CASE UNCHANGED vars
    BY <2>33, ClosingFrame DEF vars
  <2>34. ASSUME NEW c \in Call, Begin(c) PROVE ClosingInv'
    <3>1. Live(c) /\ UNCHANGED <<req, row>> /\ orphan \subseteq orphan'
      BY <2>34 DEF Begin, Goes, Live, Done, Begun, Trying, Ended, Dispatching
    <3>2. PICK s \in {"running"} : task' = [task EXCEPT ![c] = s]
      BY <2>34 DEF Begin, Goes
    <3> QED BY <3>1, <3>2, ClosingTaskMoves DEF Ended
  <2>35. ASSUME NEW c \in Call, ReturnNothing(c) PROVE ClosingInv'
    <3>1. Live(c) /\ UNCHANGED <<req, row>> /\ orphan \subseteq orphan'
      BY <2>35 DEF ReturnNothing, Drained, Goes, Live, Done, Begun, Trying, Ended, Dispatching
    <3>2. PICK s \in {"failing"} : task' = [task EXCEPT ![c] = s]
      BY <2>35 DEF ReturnNothing, Drained, Goes
    <3> QED BY <3>1, <3>2, ClosingTaskMoves DEF Ended
  <2> QED BY <2>1, <2>2, <2>3, <2>4, <2>5, <2>6, <2>7, <2>8, <2>9, <2>10, <2>11, <2>12,
             <2>13, <2>14, <2>15, <2>16, <2>17, <2>18, <2>19, <2>20, <2>21, <2>22, <2>23,
             <2>24, <2>25, <2>26, <2>27, <2>28, <2>29, <2>30, <2>31, <2>32, <2>33,
             <2>34, <2>35
       DEF Next, CallSteps, TaskSteps, Opens, NodeSteps, Closes, Mishaps
<1> QED BY <1>1, <1>2, ControllerTypeInv, ControllerAdmissionInv, PTL DEF Spec

(* Safety: a row that says "running" is driven by a task, but for deaths   *)
(* of the process, a database that refuses to close it and cancellations   *)
(* outside the try block (dag_controller.py:651, 711).                     *)
THEOREM ControllerRunningRowsAreDriven == Spec => []RunningRowsAreDriven
BY ControllerClosingInv, PTL DEF ClosingInv

-----------------------------------------------------------------------------
(* Outputs that are worked out anew.                                       *)

OutputsInv == OutputInv /\ FreshOutputs

LEMMA OutputFields ==
  ASSUME TypeInv, NEW i \in DOMAIN outputs
  PROVE  outputs[i].run \in Call
<1> DEFINE S == [run : Call, node : Node, by : Call]
<1>1. outputs \in Seq(S)
  BY DEF TypeInv, TypeOK
<1>2. outputs[i] \in S
  <2> HIDE DEF S
  <2> QED BY <1>1
<1> QED BY <1>2

(* No output is added, and no task.                                        *)
LEMMA OutputsFrame ==
  ASSUME TypeInv, OutputsInv,
         \A k \in DOMAIN outputs' : \E i \in DOMAIN outputs : outputs'[k] = outputs[i],
         \A c \in Call : /\ Live(c)' => Live(c)
                         /\ task[c] # "none" => task'[c] # "none" /\ req'[c] = req[c]
  PROVE  OutputsInv'
<1> USE DEF OutputsInv, OutputInv, FreshOutputs
<1>1. \A i \in DOMAIN outputs : outputs[i].run \in Call
  BY OutputFields
<1>2. OutputInv'
  BY <1>1
<1>3. ASSUME NEW c \in Call, Live(c)',
             NEW k \in DOMAIN outputs', outputs'[k].run = RunOf(c)', outputs'[k].node \in Scope(c)'
      PROVE  outputs'[k].by = c
  <2>1. PICK i \in DOMAIN outputs : outputs'[k] = outputs[i]
    OBVIOUS
  <2>2. Live(c) /\ req'[c] = req[c]
    BY <1>3 DEF Live
  <2>3. RunOf(c)' = RunOf(c) /\ Scope(c)' = Scope(c)
    BY <2>2 DEF RunOf, Scope
  <2> QED BY <1>3, <2>1, <2>2, <2>3
<1> QED BY <1>2, <1>3

(* The outputs that a new task is going to replace are gone.               *)
LEMMA OutputsCreated ==
  ASSUME TypeInv, OutputsInv, NEW c \in Call, task' = [task EXCEPT ![c] = "created"],
         \A k \in DOMAIN outputs' :
           \E i \in DOMAIN outputs :
             /\ outputs'[k] = outputs[i]
             /\ outputs[i].run = RunOf(c) => outputs[i].node \notin Scope(c),
         UNCHANGED req
  PROVE  OutputsInv'
<1> USE DEF OutputsInv, OutputInv, FreshOutputs
<1>1. \A i \in DOMAIN outputs : outputs[i].run \in Call
  BY OutputFields
<1>2. \A e \in Call : task'[e] = IF e = c THEN "created" ELSE task[e]
  BY DEF TypeInv, TypeOK
<1>3. OutputInv'
  BY <1>1, <1>2
<1>4. ASSUME NEW e \in Call, Live(e)',
             NEW k \in DOMAIN outputs', outputs'[k].run = RunOf(e)', outputs'[k].node \in Scope(e)'
      PROVE  outputs'[k].by = e
  <2>1. PICK i \in DOMAIN outputs :
          /\ outputs'[k] = outputs[i]
          /\ outputs[i].run = RunOf(c) => outputs[i].node \notin Scope(c)
    OBVIOUS
  <2>2. RunOf(e)' = RunOf(e) /\ Scope(e)' = Scope(e)
    BY DEF RunOf, Scope
  <2>3. e # c
    BY <1>4, <2>1, <2>2
  <2>4. Live(e)
    BY <1>2, <1>4, <2>3 DEF Live, Done
  <2> QED BY <1>4, <2>1, <2>2, <2>4
<1> QED BY <1>3, <1>4

(* A new output is that of the only driver of its run.                     *)
LEMMA OutputsStored ==
  ASSUME TypeInv, AdmissionInv, OutputsInv, NEW c \in Call, Live(c), NEW n \in Node,
         outputs' = Append(outputs, [run |-> RunOf(c), node |-> n, by |-> c]),
         UNCHANGED <<task, req>>
  PROVE  OutputsInv'
<1> USE DEF OutputsInv, OutputInv, FreshOutputs
<1>1. RunOf(c) \in Call /\ task[RunOf(c)] # "none"
  BY RunOfInCall DEF RunOf, Live, TypeInv, AdmissionInv, CallInv
<1>2. \A k \in DOMAIN outputs' :
        \/ k \in DOMAIN outputs /\ outputs'[k] = outputs[k]
        \/ outputs'[k] = [run |-> RunOf(c), node |-> n, by |-> c]
  <2>1. outputs \in Seq([run : Call, node : Node, by : Call])
    BY DEF TypeInv, TypeOK
  <2> QED BY <2>1
<1>3. OutputInv'
  BY <1>1, <1>2
<1>4. ASSUME NEW e \in Call, Live(e)',
             NEW k \in DOMAIN outputs', outputs'[k].run = RunOf(e)', outputs'[k].node \in Scope(e)'
      PROVE  outputs'[k].by = e
  <2>1. RunOf(e)' = RunOf(e) /\ Scope(e)' = Scope(e) /\ Live(e)
    BY <1>4 DEF RunOf, Scope, Live, Done
  <2>2. CASE k \in DOMAIN outputs /\ outputs'[k] = outputs[k]
    BY <1>4, <2>1, <2>2
  <2>3. CASE outputs'[k] = [run |-> RunOf(c), node |-> n, by |-> c]
    <3>1. RunOf(e) = RunOf(c)
      BY <1>4, <2>1, <2>3
    <3>2. e = c
      BY <2>1, <3>1, SingleDriver DEF OneDriver
    <3> QED BY <2>3, <3>2
  <2> QED BY <1>2, <2>2, <2>3
<1> QED BY <1>3, <1>4

LEMMA ControllerOutputsInv == Spec => []OutputsInv
<1>1. Init => OutputsInv
  BY DEF Init, OutputsInv, OutputInv, FreshOutputs
<1>2. TypeInv /\ AdmissionInv /\ OutputsInv /\ [Next]_vars => OutputsInv'
  <2> SUFFICES ASSUME TypeInv, AdmissionInv, OutputsInv, [Next]_vars PROVE OutputsInv'
    OBVIOUS
  <2> USE DEF calls, tasks, rows, misfortune
  <2>0. \A c \in Call : task[c] # "none" => at[c] = "replied" /\ task[c] \in TaskState
    BY DEF TypeInv, TypeOK
  <2>1. ASSUME NEW c \in Call, NEW q \in Requests, Ask(c, q) PROVE OutputsInv'
    <3>1. /\ UNCHANGED <<task, outputs>>
          /\ \A e \in Call : task[e] # "none" => req'[e] = req[e]
      BY <2>0, <2>1 DEF Ask, TypeInv, TypeOK
    <3>2. \A e \in Call : Live(e)' => Live(e)
      BY <3>1 DEF Live, Done
    <3> QED BY <3>1, <3>2, OutputsFrame
  <2>2. ASSUME NEW c \in Call, NEW q \in Requests, StopCurrent(c, q) PROVE OutputsInv'
    <3>1. /\ UNCHANGED <<task, outputs>>
          /\ \A e \in Call : task[e] # "none" => req'[e] = req[e]
      BY <2>0, <2>2 DEF StopCurrent, TypeInv, TypeOK
    <3>2. \A e \in Call : Live(e)' => Live(e)
      BY <3>1 DEF Live, Done
    <3> QED BY <3>1, <3>2, OutputsFrame
  <2>3. ASSUME NEW c \in Call, NEW e \in Call, NEW d \in Dag, Emit(c, e, d) PROVE OutputsInv'
    <3>1. /\ UNCHANGED <<task, outputs>>
          /\ \A f \in Call : task[f] # "none" => req'[f] = req[f]
      BY <2>0, <2>3 DEF Emit, TypeInv, TypeOK
    <3>2. \A f \in Call : Live(f)' => Live(f)
      BY <3>1 DEF Live, Done
    <3> QED BY <3>1, <3>2, OutputsFrame
  <2>4. ASSUME NEW c \in Call, FoundIdle(c) PROVE OutputsInv'
    <3>1. /\ UNCHANGED <<task, outputs>>
          /\ UNCHANGED req
      BY <2>4 DEF FoundIdle
    <3>2. \A e \in Call : Live(e)' => Live(e)
      BY <3>1 DEF Live, Done
    <3> QED BY <3>1, <3>2, OutputsFrame
  <2>5. ASSUME NEW c \in Call, StartRun(c) PROVE OutputsInv'
    <3>1. CASE UNCHANGED <<req, task, outputs>>
      <4>1. \A e \in Call : Live(e)' => Live(e)
        BY <3>1 DEF Live, Done
      <4> QED BY <3>1, <4>1, OutputsFrame
    <3>2. CASE task' = [task EXCEPT ![c] = "created"] /\ UNCHANGED <<req, outputs>>
      <4>1. task[c] = "none" /\ RunOf(c) = c
        BY <2>0, <2>5 DEF StartRun, Unlocks, RunOf
      <4>2. \A i \in DOMAIN outputs : outputs[i].run # c
        BY <4>1 DEF OutputsInv, OutputInv
      <4> QED BY <3>2, <4>1, <4>2, OutputsCreated
    <3> QED BY <2>5, <3>1, <3>2 DEF StartRun, Creates, Unlocks
  <2>6. ASSUME NEW c \in Call, TakeLock(c) PROVE OutputsInv'
    <3>1. /\ UNCHANGED <<task, outputs>>
          /\ UNCHANGED req
      BY <2>6 DEF TakeLock
    <3>2. \A e \in Call : Live(e)' => Live(e)
      BY <3>1 DEF Live, Done
    <3> QED BY <3>1, <3>2, OutputsFrame
  <2>7. ASSUME NEW c \in Call, RunNodeTrigger(c) PROVE OutputsInv'
    <3>1. CASE UNCHANGED <<req, task, outputs>>
      <4>1. \A e \in Call : Live(e)' => Live(e)
        BY <3>1 DEF Live, Done
      <4> QED BY <3>1, <4>1, OutputsFrame
    <3>2. CASE task' = [task EXCEPT ![c] = "created"] /\ UNCHANGED <<req, outputs>>
      <4>1. task[c] = "none" /\ RunOf(c) = c
        BY <2>0, <2>7 DEF RunNodeTrigger, Unlocks, RunOf
      <4>2. \A i \in DOMAIN outputs : outputs[i].run # c
        BY <4>1 DEF OutputsInv, OutputInv
      <4> QED BY <3>2, <4>1, <4>2, OutputsCreated
    <3> QED BY <2>7, <3>1, <3>2 DEF RunNodeTrigger, Creates, Unlocks
  <2>8. ASSUME NEW c \in Call, RetryNode(c) PROVE OutputsInv'
    <3>1. CASE UNCHANGED <<req, task, outputs>>
      <4>1. \A e \in Call : Live(e)' => Live(e)
        BY <3>1 DEF Live, Done
      <4> QED BY <3>1, <4>1, OutputsFrame
    <3>2. CASE task' = [task EXCEPT ![c] = "created"] /\ UNCHANGED <<req, outputs>>
      <4>1. task[c] = "none" /\ RunOf(c) = c
        BY <2>0, <2>8 DEF RetryNode, Unlocks, RunOf
      <4>2. \A i \in DOMAIN outputs : outputs[i].run # c
        BY <4>1 DEF OutputsInv, OutputInv
      <4> QED BY <3>2, <4>1, <4>2, OutputsCreated
    <3> QED BY <2>8, <3>1, <3>2 DEF RetryNode, Creates, Unlocks
  <2>9. ASSUME NEW c \in Call, ResumeNode(c) PROVE OutputsInv'
    <3> DEFINE K == {i \in DOMAIN outputs :
                       outputs[i].run = req[c].run => outputs[i].node \notin Scope(c)}
    <3>1. /\ outputs' = Keep(K) /\ task' = [task EXCEPT ![c] = "created"]
          /\ UNCHANGED req /\ RunOf(c) = req[c].run
      BY <2>9 DEF ResumeNode, Creates, RunOf
    <3>2. \A k \in DOMAIN Keep(K) : \E i \in K : Keep(K)[k] = outputs[i]
      <4>1. K \in SUBSET DOMAIN outputs /\ outputs \in Seq([run : Call, node : Node, by : Call])
        BY DEF TypeInv, TypeOK
      <4> HIDE DEF K
      <4> QED BY <4>1, KeepSelects
    <3>3. \A k \in DOMAIN outputs' :
            \E i \in DOMAIN outputs :
              /\ outputs'[k] = outputs[i]
              /\ outputs[i].run = RunOf(c) => outputs[i].node \notin Scope(c)
      BY <3>1, <3>2
    <3> QED BY <3>1, <3>3, OutputsCreated
  <2>10. ASSUME NEW c \in Call, StopReturns(c) PROVE OutputsInv'
    <3>1. /\ UNCHANGED <<task, outputs>>
          /\ UNCHANGED req
      BY <2>10 DEF StopReturns
    <3>2. \A e \in Call : Live(e)' => Live(e)
      BY <3>1 DEF Live, Done
    <3> QED BY <3>1, <3>2, OutputsFrame
  <2>11. ASSUME NEW c \in Call, StopAbandoned(c) PROVE OutputsInv'
    <3>1. /\ UNCHANGED <<task, outputs>>
          /\ UNCHANGED req
      BY <2>11 DEF StopAbandoned
    <3>2. \A e \in Call : Live(e)' => Live(e)
      BY <3>1 DEF Live, Done
    <3> QED BY <3>1, <3>2, OutputsFrame
  <2>12. ASSUME NEW c \in Call, ClearFinishedTask(c) PROVE OutputsInv'
    <3>1. /\ UNCHANGED <<task, outputs>>
          /\ UNCHANGED req
      BY <2>12 DEF ClearFinishedTask
    <3>2. \A e \in Call : Live(e)' => Live(e)
      BY <3>1 DEF Live, Done
    <3> QED BY <3>1, <3>2, OutputsFrame
  <2>13. ASSUME NEW c \in Call, LoadGraph(c) PROVE OutputsInv'
    <3>1. Live(c) /\ UNCHANGED <<req, outputs>>
      BY <2>13 DEF LoadGraph, Goes, Live, Done, Begun, Trying, Ended, Dispatching
    <3>2. PICK s \in TaskState \ {"none"} : task' = [task EXCEPT ![c] = s]
      BY <2>13 DEF LoadGraph, Goes, TaskState, Begun, Trying, Ended
    <3>3. \A e \in Call : (Live(e)' => Live(e)) /\ (task[e] # "none" => task'[e] # "none")
      BY <3>1, <3>2 DEF Live, Done, TypeInv, TypeOK
    <3> QED BY <3>1, <3>3, OutputsFrame
  <2>14. ASSUME NEW c \in Call, OpenRow(c) PROVE OutputsInv'
    <3>1. Live(c) /\ UNCHANGED <<req, outputs>>
      BY <2>14 DEF OpenRow, Goes, Live, Done, Begun, Trying, Ended, Dispatching
    <3>2. PICK s \in TaskState \ {"none"} : task' = [task EXCEPT ![c] = s]
      BY <2>14 DEF OpenRow, Goes, TaskState, Begun, Trying, Ended
    <3>3. \A e \in Call : (Live(e)' => Live(e)) /\ (task[e] # "none" => task'[e] # "none")
      BY <3>1, <3>2 DEF Live, Done, TypeInv, TypeOK
    <3> QED BY <3>1, <3>3, OutputsFrame
  <2>15. ASSUME NEW c \in Call, EnterTry(c) PROVE OutputsInv'
    <3>1. Live(c) /\ UNCHANGED <<req, outputs>>
      BY <2>15 DEF EnterTry, Goes, Live, Done, Begun, Trying, Ended, Dispatching
    <3>2. PICK s \in TaskState \ {"none"} : task' = [task EXCEPT ![c] = s]
      BY <2>15 DEF EnterTry, Goes, TaskState, Begun, Trying, Ended
    <3>3. \A e \in Call : (Live(e)' => Live(e)) /\ (task[e] # "none" => task'[e] # "none")
      BY <3>1, <3>2 DEF Live, Done, TypeInv, TypeOK
    <3> QED BY <3>1, <3>3, OutputsFrame
  <2>16. ASSUME NEW c \in Call, NEW n \in Node, NodeBegins(c, n) PROVE OutputsInv'
    <3>1. /\ UNCHANGED <<task, outputs>>
          /\ UNCHANGED req
      BY <2>16 DEF NodeBegins
    <3>2. \A e \in Call : Live(e)' => Live(e)
      BY <3>1 DEF Live, Done
    <3> QED BY <3>1, <3>2, OutputsFrame
  <2>17. ASSUME NEW c \in Call, NEW n \in Node, NodeBlocked(c, n) PROVE OutputsInv'
    <3>1. /\ UNCHANGED <<task, outputs>>
          /\ UNCHANGED req
      BY <2>17 DEF NodeBlocked
    <3>2. \A e \in Call : Live(e)' => Live(e)
      BY <3>1 DEF Live, Done
    <3> QED BY <3>1, <3>2, OutputsFrame
  <2>18. ASSUME NEW c \in Call, NEW n \in Node, NodeStores(c, n) PROVE OutputsInv'
    <3>1. Live(c)
      BY <2>18 DEF NodeStores, Live, Done, Ended
    <3> QED BY <2>18, <3>1, OutputsStored DEF NodeStores
  <2>19. ASSUME NEW c \in Call, NEW n \in Node, NodeEnds(c, n) PROVE OutputsInv'
    <3>1. /\ UNCHANGED <<task, outputs>>
          /\ UNCHANGED req
      BY <2>19 DEF NodeEnds
    <3>2. \A e \in Call : Live(e)' => Live(e)
      BY <3>1 DEF Live, Done
    <3> QED BY <3>1, <3>2, OutputsFrame
  <2>20. ASSUME NEW c \in Call, Emitted(c) PROVE OutputsInv'
    <3>1. Live(c) /\ UNCHANGED <<req, outputs>>
      BY <2>20 DEF Emitted, Goes, Live, Done, Begun, Trying, Ended, Dispatching
    <3>2. PICK s \in {"running", "failing"} : task' = [task EXCEPT ![c] = s]
      BY <2>20 DEF Emitted, Goes, TaskState, Begun, Trying, Ended
    <3>3. \A e \in Call : (Live(e)' => Live(e)) /\ (task[e] # "none" => task'[e] # "none")
      BY <3>1, <3>2 DEF Live, Done, TypeInv, TypeOK
    <3> QED BY <3>1, <3>3, OutputsFrame
  <2>21. ASSUME NEW c \in Call, Return(c) PROVE OutputsInv'
    <3>1. Live(c) /\ UNCHANGED <<req, outputs>>
      BY <2>21 DEF Return, Drained, Goes, Live, Done, Begun, Trying, Ended, Dispatching
    <3>2. PICK s \in TaskState \ {"none"} : task' = [task EXCEPT ![c] = s]
      BY <2>21 DEF Return, Drained, Goes, TaskState, Begun, Trying, Ended
    <3>3. \A e \in Call : (Live(e)' => Live(e)) /\ (task[e] # "none" => task'[e] # "none")
      BY <3>1, <3>2 DEF Live, Done, TypeInv, TypeOK
    <3> QED BY <3>1, <3>3, OutputsFrame
  <2>22. ASSUME NEW c \in Call, PersistOutputs(c) PROVE OutputsInv'
    <3>1. Live(c) /\ UNCHANGED req
      BY <2>22 DEF PersistOutputs, Goes, Live, Done, Begun, Trying, Ended, Dispatching
    <3>2. PICK s \in TaskState \ {"none"} : task' = [task EXCEPT ![c] = s]
      BY <2>22 DEF PersistOutputs, Goes, TaskState, Begun, Trying, Ended
    <3>3. \A e \in Call : (Live(e)' => Live(e)) /\ (task[e] # "none" => task'[e] # "none")
      BY <3>1, <3>2 DEF Live, Done, TypeInv, TypeOK
    <3> DEFINE K == {i \in DOMAIN outputs : Cardinality(Newer(outputs[i].run)) < Retention}
    <3>4. \A k \in DOMAIN outputs' : \E i \in DOMAIN outputs : outputs'[k] = outputs[i]
      <4>1. outputs' = Keep(K) /\ outputs \in Seq([run : Call, node : Node, by : Call])
        BY <2>22 DEF PersistOutputs, TypeInv, TypeOK
      <4>2. K \in SUBSET DOMAIN outputs
        OBVIOUS
      <4> HIDE DEF K
      <4> QED BY <4>1, <4>2, KeepSelects
    <3> QED BY <3>1, <3>3, <3>4, OutputsFrame
  <2>23. ASSUME NEW c \in Call, FinishDagRun(c) PROVE OutputsInv'
    <3>1. Live(c) /\ UNCHANGED <<req, outputs>>
      BY <2>23 DEF FinishDagRun, Goes, Live, Done, Begun, Trying, Ended, Dispatching
    <3>2. PICK s \in TaskState \ {"none"} : task' = [task EXCEPT ![c] = s]
      BY <2>23 DEF FinishDagRun, Goes, TaskState, Begun, Trying, Ended
    <3>3. \A e \in Call : (Live(e)' => Live(e)) /\ (task[e] # "none" => task'[e] # "none")
      BY <3>1, <3>2 DEF Live, Done, TypeInv, TypeOK
    <3> QED BY <3>1, <3>3, OutputsFrame
  <2>24. ASSUME NEW c \in Call, Leave(c) PROVE OutputsInv'
    <3>1. Live(c) /\ UNCHANGED <<req, outputs>>
      BY <2>24 DEF Leave, Goes, Live, Done, Begun, Trying, Ended, Dispatching
    <3>2. PICK s \in TaskState \ {"none"} : task' = [task EXCEPT ![c] = s]
      BY <2>24 DEF Leave, Goes, TaskState, Begun, Trying, Ended
    <3>3. \A e \in Call : (Live(e)' => Live(e)) /\ (task[e] # "none" => task'[e] # "none")
      BY <3>1, <3>2 DEF Live, Done, TypeInv, TypeOK
    <3> QED BY <3>1, <3>3, OutputsFrame
  <2>25. ASSUME NEW c \in Call, FinishFailed(c) PROVE OutputsInv'
    <3>1. Live(c) /\ UNCHANGED <<req, outputs>>
      BY <2>25 DEF FinishFailed, Goes, Live, Done, Begun, Trying, Ended, Dispatching
    <3>2. PICK s \in TaskState \ {"none"} : task' = [task EXCEPT ![c] = s]
      BY <2>25 DEF FinishFailed, Goes, TaskState, Begun, Trying, Ended
    <3>3. \A e \in Call : (Live(e)' => Live(e)) /\ (task[e] # "none" => task'[e] # "none")
      BY <3>1, <3>2 DEF Live, Done, TypeInv, TypeOK
    <3> QED BY <3>1, <3>3, OutputsFrame
  <2>26. ASSUME NEW c \in Call, Interrupt(c) PROVE OutputsInv'
    <3>1. Live(c) /\ UNCHANGED <<req, outputs>>
      BY <2>26 DEF Interrupt, Goes, Live, Done, Begun, Trying, Ended, Dispatching
    <3>2. PICK s \in TaskState \ {"none"} : task' = [task EXCEPT ![c] = s]
      BY <2>26 DEF Interrupt, Goes, TaskState, Begun, Trying, Ended
    <3>3. \A e \in Call : (Live(e)' => Live(e)) /\ (task[e] # "none" => task'[e] # "none")
      BY <3>1, <3>2 DEF Live, Done, TypeInv, TypeOK
    <3> QED BY <3>1, <3>3, OutputsFrame
  <2>27. ASSUME NEW c \in Call, FinishCancelled(c) PROVE OutputsInv'
    <3>1. Live(c) /\ UNCHANGED <<req, outputs>>
      BY <2>27 DEF FinishCancelled, Goes, Live, Done, Begun, Trying, Ended, Dispatching
    <3>2. PICK s \in TaskState \ {"none"} : task' = [task EXCEPT ![c] = s]
      BY <2>27 DEF FinishCancelled, Goes, TaskState, Begun, Trying, Ended
    <3>3. \A e \in Call : (Live(e)' => Live(e)) /\ (task[e] # "none" => task'[e] # "none")
      BY <3>1, <3>2 DEF Live, Done, TypeInv, TypeOK
    <3> QED BY <3>1, <3>3, OutputsFrame
  <2>28. ASSUME NEW c \in Call, Abandon(c) PROVE OutputsInv'
    <3>1. Live(c) /\ UNCHANGED <<req, outputs>>
      BY <2>28 DEF Abandon, Goes, Live, Done, Begun, Trying, Ended, Dispatching
    <3>2. PICK s \in TaskState \ {"none"} : task' = [task EXCEPT ![c] = s]
      BY <2>28 DEF Abandon, Goes, TaskState, Begun, Trying, Ended
    <3>3. \A e \in Call : (Live(e)' => Live(e)) /\ (task[e] # "none" => task'[e] # "none")
      BY <3>1, <3>2 DEF Live, Done, TypeInv, TypeOK
    <3> QED BY <3>1, <3>3, OutputsFrame
  <2>29. ASSUME NEW c \in Call, Raise(c) PROVE OutputsInv'
    <3>1. Live(c) /\ UNCHANGED <<req, outputs>>
      BY <2>29 DEF Raise, Goes, Live, Done, Begun, Trying, Ended, Dispatching
    <3>2. PICK s \in TaskState \ {"none"} : task' = [task EXCEPT ![c] = s]
      BY <2>29 DEF Raise, Goes, TaskState, Begun, Trying, Ended
    <3>3. \A e \in Call : (Live(e)' => Live(e)) /\ (task[e] # "none" => task'[e] # "none")
      BY <3>1, <3>2 DEF Live, Done, TypeInv, TypeOK
    <3> QED BY <3>1, <3>3, OutputsFrame
  <2>30. ASSUME NEW c \in Call, RaiseEarly(c) PROVE OutputsInv'
    <3>1. Live(c) /\ UNCHANGED <<req, outputs>>
      BY <2>30 DEF RaiseEarly, Goes, Live, Done, Begun, Trying, Ended, Dispatching
    <3>2. PICK s \in TaskState \ {"none"} : task' = [task EXCEPT ![c] = s]
      BY <2>30 DEF RaiseEarly, Goes, TaskState, Begun, Trying, Ended
    <3>3. \A e \in Call : (Live(e)' => Live(e)) /\ (task[e] # "none" => task'[e] # "none")
      BY <3>1, <3>2 DEF Live, Done, TypeInv, TypeOK
    <3> QED BY <3>1, <3>3, OutputsFrame
  <2>31. ASSUME NEW c \in Call, CloseFails(c) PROVE OutputsInv'
    <3>1. Live(c) /\ UNCHANGED <<req, outputs>>
      BY <2>31 DEF CloseFails, Goes, Live, Done, Begun, Trying, Ended, Dispatching
    <3>2. PICK s \in TaskState \ {"none"} : task' = [task EXCEPT ![c] = s]
      BY <2>31 DEF CloseFails, Goes, TaskState, Begun, Trying, Ended
    <3>3. \A e \in Call : (Live(e)' => Live(e)) /\ (task[e] # "none" => task'[e] # "none")
      BY <3>1, <3>2 DEF Live, Done, TypeInv, TypeOK
    <3> QED BY <3>1, <3>3, OutputsFrame
  <2>32. CASE Crash
    <3>1. UNCHANGED <<req, outputs>> /\ \A c \in Call : ~ Live(c)'
      BY <2>32 DEF Crash, Live, Done, Ended
    <3>2. \A c \in Call : task[c] # "none" => task'[c] # "none"
      BY <2>32 DEF Crash, TypeInv, TypeOK
    <3> QED BY <3>1, <3>2, OutputsFrame
  <2>33. CASE UNCHANGED vars
    <3>1. /\ UNCHANGED <<task, outputs>>
          /\ UNCHANGED req
      BY <2>33 DEF vars
    <3>2. \A e \in Call : Live(e)' => Live(e)
      BY <3>1 DEF Live, Done
    <3> QED BY <3>1, <3>2, OutputsFrame
  <2>34. ASSUME NEW c \in Call, Begin(c) PROVE OutputsInv'
    <3>1. Live(c) /\ UNCHANGED <<req, outputs>>
      BY <2>34 DEF Begin, Goes, Live, Done, Begun, Trying, Ended, Dispatching
    <3>2. PICK s \in TaskState \ {"none"} : task' = [task EXCEPT ![c] = s]
      BY <2>34 DEF Begin, Goes, TaskState, Begun, Trying, Ended
    <3>3. \A e \in Call : (Live(e)' => Live(e)) /\ (task[e] # "none" => task'[e] # "none")
      BY <3>1, <3>2 DEF Live, Done, TypeInv, TypeOK
    <3> QED BY <3>1, <3>3, OutputsFrame
  <2>35. ASSUME NEW c \in Call, ReturnNothing(c) PROVE OutputsInv'
    <3>1. Live(c) /\ UNCHANGED <<req, outputs>>
      BY <2>35 DEF ReturnNothing, Drained, Goes, Live, Done, Begun, Trying, Ended, Dispatching
    <3>2. PICK s \in TaskState \ {"none"} : task' = [task EXCEPT ![c] = s]
      BY <2>35 DEF ReturnNothing, Drained, Goes, TaskState, Begun, Trying, Ended
    <3>3. \A e \in Call : (Live(e)' => Live(e)) /\ (task[e] # "none" => task'[e] # "none")
      BY <3>1, <3>2 DEF Live, Done, TypeInv, TypeOK
    <3> QED BY <3>1, <3>3, OutputsFrame
  <2> QED BY <2>1, <2>2, <2>3, <2>4, <2>5, <2>6, <2>7, <2>8, <2>9, <2>10, <2>11, <2>12,
             <2>13, <2>14, <2>15, <2>16, <2>17, <2>18, <2>19, <2>20, <2>21, <2>22, <2>23,
             <2>24, <2>25, <2>26, <2>27, <2>28, <2>29, <2>30, <2>31, <2>32, <2>33,
             <2>34, <2>35
       DEF Next, CallSteps, TaskSteps, Opens, NodeSteps, Closes, Mishaps
<1> QED BY <1>1, <1>2, ControllerTypeInv, ControllerAdmissionInv, PTL DEF Spec

(* Safety: an output that a run works out anew is never one of an earlier  *)
(* attempt (dag_controller.py:488).                                        *)
THEOREM ControllerFreshOutputs == Spec => []FreshOutputs
BY ControllerOutputsInv, PTL DEF OutputsInv
-----------------------------------------------------------------------------
(* The controller implements DagRuns.                                      *)

(* What active_runs shows for a DAG is a task of that DAG; a task that has *)
(* opened the row of its run finds it again.                               *)
RunsInv ==
  /\ \A d \in Dag : active[d] # None => task[active[d]] # "none" /\ req[active[d]].dag = d
  /\ \A c \in Call : Live(c) /\ Opened(c) => row[RunOf(c)] # "absent"

(* A task stays a task, and its request does not change; a row stays.      *)
Kept ==
  /\ \A c \in Call : task[c] # "none" => task'[c] # "none" /\ req'[c] = req[c]
  /\ \A r \in Call : row[r] # "absent" => row'[r] # "absent"

LEMMA KeptWithTask ==
  ASSUME TypeInv, NEW c \in Call, NEW s, s # "none",
         task' = task \/ task' = [task EXCEPT ![c] = s], req' = req,
         \/ row' = row
         \/ \E st : st # "absent" /\ row' = [row EXCEPT ![RunOf(c)] = st]
  PROVE  Kept
BY DEF Kept, TypeInv, TypeOK

LEMMA StepKeeps ==
  ASSUME TypeInv, [Next]_vars
  PROVE  Kept
<1> USE DEF calls, tasks, rows, misfortune
<1>0. \A c \in Call : task[c] # "none" => at[c] = "replied"
  BY DEF TypeInv
<1>1. ASSUME NEW c \in Call, NEW q \in Requests, Ask(c, q) PROVE Kept
  BY <1>0, <1>1 DEF Ask, Kept, TypeInv, TypeOK
<1>2. ASSUME NEW c \in Call, NEW q \in Requests, StopCurrent(c, q) PROVE Kept
  BY <1>0, <1>2 DEF StopCurrent, Kept, TypeInv, TypeOK
<1>3. ASSUME NEW c \in Call, NEW e \in Call, NEW d \in Dag, Emit(c, e, d) PROVE Kept
  BY <1>0, <1>3 DEF Emit, Kept, TypeInv, TypeOK
<1>4. ASSUME NEW c \in Call, FoundIdle(c) PROVE Kept
  BY <1>4 DEF FoundIdle, Kept
<1>5. ASSUME NEW c \in Call, StartRun(c) PROVE Kept
  <2>1. req' = req /\ row' = row /\ (task' = task \/ task' = [task EXCEPT ![c] = "created"])
    BY <1>5 DEF StartRun, Creates
  <2> QED BY <2>1, KeptWithTask
<1>6. ASSUME NEW c \in Call, TakeLock(c) PROVE Kept
  BY <1>6 DEF TakeLock, Kept
<1>7. ASSUME NEW c \in Call, RunNodeTrigger(c) PROVE Kept
  <2>1. req' = req /\ row' = row /\ (task' = task \/ task' = [task EXCEPT ![c] = "created"])
    BY <1>7 DEF RunNodeTrigger, Creates
  <2> QED BY <2>1, KeptWithTask
<1>8. ASSUME NEW c \in Call, RetryNode(c) PROVE Kept
  <2>1. req' = req /\ row' = row /\ (task' = task \/ task' = [task EXCEPT ![c] = "created"])
    BY <1>8 DEF RetryNode, Creates
  <2> QED BY <2>1, KeptWithTask
<1>9. ASSUME NEW c \in Call, ResumeNode(c) PROVE Kept
  <2>1. req' = req /\ row' = row /\ (task' = task \/ task' = [task EXCEPT ![c] = "created"])
    BY <1>9 DEF ResumeNode, Creates
  <2> QED BY <2>1, KeptWithTask
<1>10. ASSUME NEW c \in Call, StopReturns(c) PROVE Kept
  BY <1>10 DEF StopReturns, Kept
<1>11. ASSUME NEW c \in Call, StopAbandoned(c) PROVE Kept
  BY <1>11 DEF StopAbandoned, Kept
<1>12. ASSUME NEW c \in Call, ClearFinishedTask(c) PROVE Kept
  BY <1>12 DEF ClearFinishedTask, Kept
<1>13. ASSUME NEW c \in Call, LoadGraph(c) PROVE Kept
  <2>1. req' = req /\ row' = row /\ task' = [task EXCEPT ![c] = "opening"]
    BY <1>13 DEF LoadGraph, Goes
  <2> QED BY <2>1, KeptWithTask
<1>14. ASSUME NEW c \in Call, OpenRow(c) PROVE Kept
  <2>1. /\ req' = req /\ row' = [row EXCEPT ![RunOf(c)] = "running"]
        /\ task' = [task EXCEPT ![c] = "opened"]
    BY <1>14 DEF OpenRow, Goes
  <2> QED BY <2>1, KeptWithTask
<1>15. ASSUME NEW c \in Call, EnterTry(c) PROVE Kept
  <2>1. req' = req /\ row' = row /\ task' = [task EXCEPT ![c] = "preparing"]
    BY <1>15 DEF EnterTry, Goes
  <2> QED BY <2>1, KeptWithTask
<1>16. ASSUME NEW c \in Call, NEW n \in Node, NodeBegins(c, n) PROVE Kept
  BY <1>16 DEF NodeBegins, Kept
<1>17. ASSUME NEW c \in Call, NEW n \in Node, NodeBlocked(c, n) PROVE Kept
  BY <1>17 DEF NodeBlocked, Kept
<1>18. ASSUME NEW c \in Call, NEW n \in Node, NodeStores(c, n) PROVE Kept
  BY <1>18 DEF NodeStores, Kept
<1>19. ASSUME NEW c \in Call, NEW n \in Node, NodeEnds(c, n) PROVE Kept
  BY <1>19 DEF NodeEnds, Kept
<1>20. ASSUME NEW c \in Call, Emitted(c) PROVE Kept
  <2>1. PICK s \in {"failing", "running"} : task' = [task EXCEPT ![c] = s]
    BY <1>20 DEF Emitted
  <2>2. req' = req /\ row' = row
    BY <1>20 DEF Emitted
  <2> QED BY <2>1, <2>2, KeptWithTask
<1>21. ASSUME NEW c \in Call, Return(c) PROVE Kept
  <2>1. req' = req /\ row' = row /\ task' = [task EXCEPT ![c] = "closing"]
    BY <1>21 DEF Return, Drained, Goes
  <2> QED BY <2>1, KeptWithTask
<1>22. ASSUME NEW c \in Call, PersistOutputs(c) PROVE Kept
  <2>1. req' = req /\ row' = row /\ task' = [task EXCEPT ![c] = "persisted"]
    BY <1>22 DEF PersistOutputs, Goes
  <2> QED BY <2>1, KeptWithTask
<1>23. ASSUME NEW c \in Call, FinishDagRun(c) PROVE Kept
  <2>1. verdict[c] \in Final
    BY <1>23 DEF FinishDagRun, Goes, TypeInv
  <2>2. /\ req' = req /\ row' = [row EXCEPT ![RunOf(c)] = verdict[c]]
        /\ task' = [task EXCEPT ![c] = "closed"]
    BY <1>23 DEF FinishDagRun, Goes
  <2> QED BY <2>1, <2>2, KeptWithTask DEF Final
<1>24. ASSUME NEW c \in Call, Leave(c) PROVE Kept
  <2>1. req' = req /\ row' = row /\ task' = [task EXCEPT ![c] = "returned"]
    BY <1>24 DEF Leave, Goes
  <2> QED BY <2>1, KeptWithTask
<1>25. ASSUME NEW c \in Call, FinishFailed(c) PROVE Kept
  <2>1. /\ req' = req /\ row' = [row EXCEPT ![RunOf(c)] = "failed"]
        /\ task' = [task EXCEPT ![c] = "raised"]
    BY <1>25 DEF FinishFailed, Goes
  <2> QED BY <2>1, KeptWithTask
<1>26. ASSUME NEW c \in Call, Interrupt(c) PROVE Kept
  <2>1. req' = req /\ row' = row /\ task' = [task EXCEPT ![c] = "cancelling"]
    BY <1>26 DEF Interrupt, Goes
  <2> QED BY <2>1, KeptWithTask
<1>27. ASSUME NEW c \in Call, FinishCancelled(c) PROVE Kept
  <2>1. /\ req' = req /\ row' = [row EXCEPT ![RunOf(c)] = "cancelled"]
        /\ task' = [task EXCEPT ![c] = "interrupted"]
    BY <1>27 DEF FinishCancelled, Goes
  <2> QED BY <2>1, KeptWithTask
<1>28. ASSUME NEW c \in Call, Abandon(c) PROVE Kept
  <2>1. req' = req /\ row' = row /\ task' = [task EXCEPT ![c] = "interrupted"]
    BY <1>28 DEF Abandon, Goes
  <2> QED BY <2>1, KeptWithTask
<1>29. ASSUME NEW c \in Call, Raise(c) PROVE Kept
  <2>1. req' = req /\ row' = row /\ task' = [task EXCEPT ![c] = "failing"]
    BY <1>29 DEF Raise, Goes
  <2> QED BY <2>1, KeptWithTask
<1>30. ASSUME NEW c \in Call, RaiseEarly(c) PROVE Kept
  <2>1. req' = req /\ row' = row /\ task' = [task EXCEPT ![c] = "raised"]
    BY <1>30 DEF RaiseEarly, Goes
  <2> QED BY <2>1, KeptWithTask
<1>31. ASSUME NEW c \in Call, CloseFails(c) PROVE Kept
  <2>1. req' = req /\ row' = row /\ task' = [task EXCEPT ![c] = "raised"]
    BY <1>31 DEF CloseFails, Goes
  <2> QED BY <2>1, KeptWithTask
<1>32. CASE Crash
  BY <1>32 DEF Crash, Kept, TypeInv, TypeOK
<1>33. CASE UNCHANGED vars
  BY <1>33 DEF vars, Kept
<1>34. ASSUME NEW c \in Call, Begin(c) PROVE Kept
  <2>1. req' = req /\ row' = row /\ task' = [task EXCEPT ![c] = "running"]
    BY <1>34 DEF Begin, Goes
  <2> QED BY <2>1, KeptWithTask
<1>35. ASSUME NEW c \in Call, ReturnNothing(c) PROVE Kept
  <2>1. req' = req /\ row' = row /\ task' = [task EXCEPT ![c] = "failing"]
    BY <1>35 DEF ReturnNothing, Drained, Goes
  <2> QED BY <2>1, KeptWithTask
<1> QED BY <1>1, <1>2, <1>3, <1>4, <1>5, <1>6, <1>7, <1>8, <1>9, <1>10, <1>11, <1>12, <1>13,
        <1>14, <1>15, <1>16, <1>17, <1>18, <1>19, <1>20, <1>21, <1>22, <1>23, <1>24, <1>25,
        <1>26, <1>27, <1>28, <1>29, <1>30, <1>31, <1>32, <1>33,
         <1>34, <1>35
     DEF Next, CallSteps, TaskSteps, Opens, NodeSteps, Closes, Mishaps

(* No entry is made, and no row opened.                                    *)
LEMMA RunsInvKept ==
  ASSUME TypeInv, RunsInv, Kept,
         \A d \in Dag : active'[d] \in {active[d], None},
         \A c \in Call : (Live(c) /\ Opened(c))' => Live(c) /\ Opened(c)
  PROVE  RunsInv'
<1> USE DEF TypeInv, TypeOK, RunsInv, Kept, Live
<1>1. \A d \in Dag : active'[d] # None =>
        task'[active'[d]] # "none" /\ req'[active'[d]].dag = d
  OBVIOUS
<1>2. ASSUME NEW c \in Call, (Live(c) /\ Opened(c))' PROVE row'[RunOf(c)'] # "absent"
  <2>1. Live(c) /\ Opened(c) /\ RunOf(c)' = RunOf(c)
    BY <1>2 DEF RunOf
  <2> QED BY <2>1, RunOfInCall
<1> QED BY <1>1, <1>2

(* A task moves: a row is not forgotten once it is open.                   *)
LEMMA RunsInvTask ==
  ASSUME TypeInv, RunsInv, Kept, NEW c \in Call, Live(c), UNCHANGED active,
         NEW s, task' = [task EXCEPT ![c] = s],
         Opened(c) \/ s \in {"opening"} \union Ended \/ row'[RunOf(c)] # "absent"
  PROVE  RunsInv'
<1> USE DEF TypeInv, TypeOK, RunsInv, Kept, Live, Done, Opened
<1>1. \A d \in Dag : active'[d] # None =>
        task'[active'[d]] # "none" /\ req'[active'[d]].dag = d
  OBVIOUS
<1>2. ASSUME NEW e \in Call, (Live(e) /\ Opened(e))' PROVE row'[RunOf(e)'] # "absent"
  <2>1. task[e] # "none" /\ RunOf(e) \in Call /\ RunOf(e)' = RunOf(e)
    BY <1>2, RunOfInCall DEF RunOf
  <2>2. CASE e = c
    BY <1>2, <2>1, <2>2
  <2>3. CASE e # c
    BY <1>2, <2>1, <2>3
  <2> QED BY <2>2, <2>3
<1> QED BY <1>1, <1>2

LEMMA RunsInvCreated ==
  ASSUME TypeInv, RunsInv, Kept, NEW c \in Call, task[c] = "none", UNCHANGED req,
         active' = [active EXCEPT ![req[c].dag] = c],
         task' = [task EXCEPT ![c] = "created"]
  PROVE  RunsInv'
<1> USE DEF TypeInv, TypeOK, RunsInv, Kept, Live, Opened
<1>1. \A d \in Dag : active'[d] # None =>
        task'[active'[d]] # "none" /\ req'[active'[d]].dag = d
  OBVIOUS
<1>2. ASSUME NEW e \in Call, (Live(e) /\ Opened(e))' PROVE row'[RunOf(e)'] # "absent"
  <2>1. e # c /\ Live(e) /\ Opened(e) /\ RunOf(e)' = RunOf(e)
    BY <1>2 DEF Done, RunOf
  <2> QED BY <2>1, RunOfInCall
<1> QED BY <1>1, <1>2

LEMMA ControllerRunsInv == Spec => []RunsInv
<1>1. Init => RunsInv
  BY DEF Init, RunsInv, Live
<1>2. TypeInv /\ RunsInv /\ [Next]_vars => RunsInv'
  <2> SUFFICES ASSUME TypeInv, RunsInv, [Next]_vars PROVE RunsInv'
    OBVIOUS
  <2> USE DEF calls, tasks, rows, misfortune
  <2>0. Kept
    BY StepKeeps
  <2>00. \A c \in Call : task[c] # "none" => at[c] = "replied"
    BY DEF TypeInv
  <2>1. ASSUME NEW c \in Call, NEW q \in Requests, Ask(c, q) PROVE RunsInv'
    BY <2>0, <2>1, RunsInvKept DEF Ask, Live, Done, Opened
  <2>2. ASSUME NEW c \in Call, NEW q \in Requests, StopCurrent(c, q) PROVE RunsInv'
    BY <2>0, <2>2, RunsInvKept DEF StopCurrent, Live, Done, Opened
  <2>3. ASSUME NEW c \in Call, NEW e \in Call, NEW d \in Dag, Emit(c, e, d) PROVE RunsInv'
    BY <2>0, <2>3, RunsInvKept DEF Emit, Live, Done, Opened
  <2>4. ASSUME NEW c \in Call, FoundIdle(c) PROVE RunsInv'
    BY <2>0, <2>4, RunsInvKept DEF FoundIdle, Live, Done, Opened
  <2>5. ASSUME NEW c \in Call, StartRun(c) PROVE RunsInv'
    <3>1. CASE UNCHANGED tasks
      BY <2>0, <3>1, RunsInvKept DEF Live, Done, Opened
    <3>2. CASE \E mem : Creates(c, mem)
      <4>1. task[c] = "none" /\ req' = req
        BY <2>00, <2>5 DEF StartRun
      <4> QED BY <2>0, <3>2, <4>1, RunsInvCreated DEF Creates
    <3> QED BY <2>5, <3>1, <3>2 DEF StartRun
  <2>6. ASSUME NEW c \in Call, TakeLock(c) PROVE RunsInv'
    BY <2>0, <2>6, RunsInvKept DEF TakeLock, Live, Done, Opened
  <2>7. ASSUME NEW c \in Call, RunNodeTrigger(c) PROVE RunsInv'
    <3>1. CASE UNCHANGED tasks
      BY <2>0, <3>1, RunsInvKept DEF Live, Done, Opened
    <3>2. CASE \E mem : Creates(c, mem)
      <4>1. task[c] = "none" /\ req' = req
        BY <2>00, <2>7 DEF RunNodeTrigger, Unlocks
      <4> QED BY <2>0, <3>2, <4>1, RunsInvCreated DEF Creates
    <3> QED BY <2>7, <3>1, <3>2 DEF RunNodeTrigger
  <2>8. ASSUME NEW c \in Call, RetryNode(c) PROVE RunsInv'
    <3>1. CASE UNCHANGED tasks
      BY <2>0, <3>1, RunsInvKept DEF Live, Done, Opened
    <3>2. CASE \E mem : Creates(c, mem)
      <4>1. task[c] = "none" /\ req' = req
        BY <2>00, <2>8 DEF RetryNode, Unlocks
      <4> QED BY <2>0, <3>2, <4>1, RunsInvCreated DEF Creates
    <3> QED BY <2>8, <3>1, <3>2 DEF RetryNode
  <2>9. ASSUME NEW c \in Call, ResumeNode(c) PROVE RunsInv'
    <3>1. CASE UNCHANGED tasks
      BY <2>0, <3>1, RunsInvKept DEF Live, Done, Opened
    <3>2. CASE \E mem : Creates(c, mem)
      <4>1. task[c] = "none" /\ req' = req
        BY <2>00, <2>9 DEF ResumeNode, Unlocks
      <4> QED BY <2>0, <3>2, <4>1, RunsInvCreated DEF Creates
    <3> QED BY <2>9, <3>1, <3>2 DEF ResumeNode
  <2>10. ASSUME NEW c \in Call, StopReturns(c) PROVE RunsInv'
    BY <2>0, <2>10, RunsInvKept DEF StopReturns, Live, Done, Opened
  <2>11. ASSUME NEW c \in Call, StopAbandoned(c) PROVE RunsInv'
    BY <2>0, <2>11, RunsInvKept DEF StopAbandoned, Live, Done, Opened
  <2>12. ASSUME NEW c \in Call, ClearFinishedTask(c) PROVE RunsInv'
    BY <2>0, <2>12, RunsInvKept DEF ClearFinishedTask, Live, Done, Opened, TypeInv, TypeOK
  <2>13. ASSUME NEW c \in Call, LoadGraph(c) PROVE RunsInv'
    <3>1. active' = active /\ Live(c) /\ task' = [task EXCEPT ![c] = "opening"]
      BY <2>13 DEF LoadGraph, Goes, Live, Done, Ended, Begun
    <3>2. "opening" \in {"opening"} \union Ended
      BY DEF Ended
    <3> QED BY <2>0, <3>1, <3>2, RunsInvTask
  <2>14. ASSUME NEW c \in Call, OpenRow(c) PROVE RunsInv'
    <3>1. /\ active' = active /\ Live(c) /\ task' = [task EXCEPT ![c] = "opened"]
          /\ row' = [row EXCEPT ![RunOf(c)] = "running"]
      BY <2>14 DEF OpenRow, Goes, Live, Done, Ended
    <3>2. row'[RunOf(c)] # "absent"
      BY <2>14, <3>1, RunOfInCall DEF TypeInv, TypeOK, Live
    <3> QED BY <2>0, <3>1, <3>2, RunsInvTask
  <2>15. ASSUME NEW c \in Call, EnterTry(c) PROVE RunsInv'
    <3>1. active' = active /\ Live(c) /\ task' = [task EXCEPT ![c] = "preparing"]
      BY <2>15 DEF EnterTry, Goes, Live, Done, Ended, Trying
    <3>2. Opened(c)
      BY <2>15 DEF EnterTry, Goes, Opened, Trying
    <3> QED BY <2>0, <3>1, <3>2, RunsInvTask
  <2>16. ASSUME NEW c \in Call, NEW n \in Node, NodeBegins(c, n) PROVE RunsInv'
    BY <2>0, <2>16, RunsInvKept DEF NodeBegins, Live, Done, Opened
  <2>17. ASSUME NEW c \in Call, NEW n \in Node, NodeBlocked(c, n) PROVE RunsInv'
    BY <2>0, <2>17, RunsInvKept DEF NodeBlocked, Live, Done, Opened
  <2>18. ASSUME NEW c \in Call, NEW n \in Node, NodeStores(c, n) PROVE RunsInv'
    BY <2>0, <2>18, RunsInvKept DEF NodeStores, Live, Done, Opened
  <2>19. ASSUME NEW c \in Call, NEW n \in Node, NodeEnds(c, n) PROVE RunsInv'
    BY <2>0, <2>19, RunsInvKept DEF NodeEnds, Live, Done, Opened
  <2>20. ASSUME NEW c \in Call, Emitted(c) PROVE RunsInv'
    <3>1. PICK s \in {"failing", "running"} : task' = [task EXCEPT ![c] = s]
      BY <2>20 DEF Emitted
    <3>2. active' = active /\ Live(c) /\ Opened(c)
      BY <2>20 DEF Emitted, Live, Done, Ended, Opened
    <3> QED BY <2>0, <3>1, <3>2, RunsInvTask
  <2>21. ASSUME NEW c \in Call, Return(c) PROVE RunsInv'
    <3>1. active' = active /\ Live(c) /\ task' = [task EXCEPT ![c] = "closing"]
      BY <2>21 DEF Return, Drained, Goes, Live, Done, Ended, Trying, Dispatching
    <3>2. Opened(c)
      BY <2>21 DEF Return, Drained, Goes, Opened, Trying, Dispatching
    <3> QED BY <2>0, <3>1, <3>2, RunsInvTask
  <2>22. ASSUME NEW c \in Call, PersistOutputs(c) PROVE RunsInv'
    <3>1. active' = active /\ Live(c) /\ task' = [task EXCEPT ![c] = "persisted"]
      BY <2>22 DEF PersistOutputs, Goes, Live, Done, Ended, Trying
    <3>2. Opened(c)
      BY <2>22 DEF PersistOutputs, Goes, Opened, Trying
    <3> QED BY <2>0, <3>1, <3>2, RunsInvTask
  <2>23. ASSUME NEW c \in Call, FinishDagRun(c) PROVE RunsInv'
    <3>1. active' = active /\ Live(c) /\ task' = [task EXCEPT ![c] = "closed"]
      BY <2>23 DEF FinishDagRun, Goes, Live, Done, Ended, Trying
    <3>2. Opened(c)
      BY <2>23 DEF FinishDagRun, Goes, Opened, Trying
    <3> QED BY <2>0, <3>1, <3>2, RunsInvTask
  <2>24. ASSUME NEW c \in Call, Leave(c) PROVE RunsInv'
    <3>1. active' = active /\ Live(c) /\ task' = [task EXCEPT ![c] = "returned"]
      BY <2>24 DEF Leave, Goes, Live, Done, Ended, Begun
    <3>2. "returned" \in {"opening"} \union Ended
      BY DEF Ended
    <3> QED BY <2>0, <3>1, <3>2, RunsInvTask
  <2>25. ASSUME NEW c \in Call, FinishFailed(c) PROVE RunsInv'
    <3>1. active' = active /\ Live(c) /\ task' = [task EXCEPT ![c] = "raised"]
      BY <2>25 DEF FinishFailed, Goes, Live, Done, Ended, Begun
    <3>2. "raised" \in {"opening"} \union Ended
      BY DEF Ended
    <3> QED BY <2>0, <3>1, <3>2, RunsInvTask
  <2>26. ASSUME NEW c \in Call, Interrupt(c) PROVE RunsInv'
    <3>1. active' = active /\ Live(c) /\ task' = [task EXCEPT ![c] = "cancelling"]
      BY <2>26 DEF Interrupt, Goes, Live, Done, Ended, Trying
    <3>2. Opened(c)
      BY <2>26 DEF Interrupt, Goes, Opened, Trying
    <3> QED BY <2>0, <3>1, <3>2, RunsInvTask
  <2>27. ASSUME NEW c \in Call, FinishCancelled(c) PROVE RunsInv'
    <3>1. active' = active /\ Live(c) /\ task' = [task EXCEPT ![c] = "interrupted"]
      BY <2>27 DEF FinishCancelled, Goes, Live, Done, Ended, Begun
    <3>2. "interrupted" \in {"opening"} \union Ended
      BY DEF Ended
    <3> QED BY <2>0, <3>1, <3>2, RunsInvTask
  <2>28. ASSUME NEW c \in Call, Abandon(c) PROVE RunsInv'
    <3>1. active' = active /\ Live(c) /\ task' = [task EXCEPT ![c] = "interrupted"]
      BY <2>28 DEF Abandon, Goes, Live, Done, Ended, Begun
    <3>2. "interrupted" \in {"opening"} \union Ended
      BY DEF Ended
    <3> QED BY <2>0, <3>1, <3>2, RunsInvTask
  <2>29. ASSUME NEW c \in Call, Raise(c) PROVE RunsInv'
    <3>1. active' = active /\ Live(c) /\ task' = [task EXCEPT ![c] = "failing"]
      BY <2>29 DEF Raise, Goes, Live, Done, Ended, Trying
    <3>2. Opened(c)
      BY <2>29 DEF Raise, Goes, Opened, Trying
    <3> QED BY <2>0, <3>1, <3>2, RunsInvTask
  <2>30. ASSUME NEW c \in Call, RaiseEarly(c) PROVE RunsInv'
    <3>1. active' = active /\ Live(c) /\ task' = [task EXCEPT ![c] = "raised"]
      BY <2>30 DEF RaiseEarly, Goes, Live, Done, Ended, Begun
    <3>2. "raised" \in {"opening"} \union Ended
      BY DEF Ended
    <3> QED BY <2>0, <3>1, <3>2, RunsInvTask
  <2>31. ASSUME NEW c \in Call, CloseFails(c) PROVE RunsInv'
    <3>1. active' = active /\ Live(c) /\ task' = [task EXCEPT ![c] = "raised"]
      BY <2>31 DEF CloseFails, Goes, Live, Done, Ended, Begun
    <3>2. "raised" \in {"opening"} \union Ended
      BY DEF Ended
    <3> QED BY <2>0, <3>1, <3>2, RunsInvTask
  <2>32. CASE Crash
    BY <2>0, <2>32, RunsInvKept DEF Crash, Live, Done, Ended, TypeInv, TypeOK
  <2>33. CASE UNCHANGED vars
    BY <2>0, <2>33, RunsInvKept DEF vars, Live, Done, Opened
  <2>34. ASSUME NEW c \in Call, Begin(c) PROVE RunsInv'
    <3>1. active' = active /\ Live(c) /\ task' = [task EXCEPT ![c] = "running"]
      BY <2>34 DEF Begin, Goes, Live, Done, Ended, Trying
    <3>2. Opened(c)
      BY <2>34 DEF Begin, Goes, Opened, Trying
    <3> QED BY <2>0, <3>1, <3>2, RunsInvTask
  <2>35. ASSUME NEW c \in Call, ReturnNothing(c) PROVE RunsInv'
    <3>1. active' = active /\ Live(c) /\ task' = [task EXCEPT ![c] = "failing"]
      BY <2>35 DEF ReturnNothing, Drained, Goes, Live, Done, Ended, Trying, Dispatching
    <3>2. Opened(c)
      BY <2>35 DEF ReturnNothing, Drained, Goes, Opened, Trying, Dispatching
    <3> QED BY <2>0, <3>1, <3>2, RunsInvTask
  <2> QED BY <2>1, <2>2, <2>3, <2>4, <2>5, <2>6, <2>7, <2>8, <2>9, <2>10, <2>11, <2>12, <2>13,
           <2>14, <2>15, <2>16, <2>17, <2>18, <2>19, <2>20, <2>21, <2>22, <2>23, <2>24,
           <2>25, <2>26, <2>27, <2>28, <2>29, <2>30, <2>31, <2>32, <2>33,
             <2>34, <2>35
       DEF Next, CallSteps, TaskSteps, Opens, NodeSteps, Closes, Mishaps
<1> QED BY <1>1, <1>2, ControllerTypeInv, PTL DEF Spec

(* All that the steps below rest on.                                       *)
ContractInv == TypeInv /\ AdmissionInv /\ ClosingInv /\ RunsInv

(* Steps that change nothing that DagRuns speaks of.                       *)
LEMMA RunsFrame ==
  ASSUME ContractInv, Kept, UNCHANGED <<task, row, orphan>>,
         \A d \in Dag : active'[d] = active[d] \/ (active'[d] = None /\ ~ Busy(d))
  PROVE  UNCHANGED Runs!vars
<1> USE DEF ContractInv, TypeInv, TypeOK
<1>1. \A d \in Dag : Busy(d)' <=> Busy(d)
  BY DEF Busy, Done
<1>2. \A d \in Dag : Busy(d) => /\ active'[d] = active[d]
                                /\ RunOf(active[d])' = RunOf(active[d])
                                /\ Opened(active[d])' <=> Opened(active[d])
  BY DEF Busy, RunOf, Opened, RunsInv, Kept
<1>3. Current' = Current
  BY <1>1, <1>2 DEF Current, RunOf
<1>4. OpenDags' = OpenDags
  BY <1>1, <1>2 DEF OpenDags, Opened
<1>5. Home' = Home
  BY DEF Home, Kept, AdmissionInv, CallInv
<1> QED BY <1>3, <1>4, <1>5 DEF Runs!vars

(* A call that is admitted finds its DAG without a run, and the run that   *)
(* it takes up is driven from nowhere: a run stays on its DAG.             *)
LEMMA RunsAdmit ==
  ASSUME ContractInv, NEW c \in Call, task[c] = "none", at[c] # "idle", ~ Busy(req[c].dag),
         active' = [active EXCEPT ![req[c].dag] = c],
         task' = [task EXCEPT ![c] = "created"], UNCHANGED <<req, row, orphan>>
  PROVE  Runs!Next
<1> DEFINE D == req[c].dag
           R == RunOf(c)
<1> USE DEF ContractInv, TypeInv, TypeOK
<1>1. D \in Dag /\ R \in Call /\ D = req[R].dag
  BY RequestFields, RunOfInCall DEF RunOf, AdmissionInv, CallInv
<1>2. Current[D] = None
  BY <1>1 DEF Current
<1>3. ASSUME NEW d \in Dag, Current[d] = R PROVE FALSE
  <2>1. Busy(d) /\ RunOf(active[d]) = R
    BY <1>1, <1>3, CallAssumption DEF Current
  <2>2. active[d] \in Call /\ task[active[d]] # "none" /\ req[active[d]].dag = d
    BY <2>1 DEF Busy, RunsInv
  <2>3. req[active[d]].dag = D
    BY <1>1, <2>1, <2>2, RunOnDag
  <2> QED BY <2>1, <2>2, <2>3
<1>4. row[R] = "absent" \/ Home[R] = D
  BY <1>1 DEF Home
<1>5. ASSUME NEW d \in Dag, d # D
      PROVE  /\ active'[d] = active[d] /\ (Busy(d)' <=> Busy(d))
             /\ Busy(d) => /\ RunOf(active[d])' = RunOf(active[d])
                           /\ Opened(active[d])' <=> Opened(active[d])
  <2>1. active'[d] = active[d] /\ active[d] # c
    BY <1>1, <1>5, CallAssumption DEF RunsInv
  <2>2. active[d] # None => task'[active[d]] = task[active[d]]
    BY <2>1
  <2> QED BY <2>1, <2>2 DEF Busy, Done, RunOf, Opened
<1>6. active'[D] = c /\ Busy(D)' /\ RunOf(c)' = R /\ ~ Opened(c)'
  <2>1. active'[D] = c /\ task'[c] = "created"
    BY <1>1
  <2>2. RunOf(c)' = R
    BY DEF RunOf
  <2> QED BY <2>1, <2>2, CallAssumption DEF Busy, Done, Ended, Opened
<1>7. Current' = [Current EXCEPT ![D] = R]
  <2>1. \A d \in Dag : Current'[d] = IF d = D THEN R ELSE Current[d]
    BY <1>5, <1>6 DEF Current, RunOf
  <2> QED BY <2>1 DEF Current
<1>8. OpenDags' = OpenDags
  BY <1>5, <1>6 DEF OpenDags, Opened
<1>9. Home' = Home
  BY DEF Home
<1>10. Runs!Admit(D, R)
  BY <1>2, <1>3, <1>4, <1>7, <1>8, <1>9 DEF Runs!Admit
<1> QED BY <1>1, <1>10 DEF Runs!Next

(* What a step of a task is for the entry of its DAG, and for no other.    *)
LEMMA RunsTask ==
  ASSUME ContractInv, NEW c \in Call, Live(c), NEW s, s # "created",
         task' = [task EXCEPT ![c] = s], UNCHANGED <<req, active>>
  PROVE  LET d == req[c].dag
         IN  /\ d \in Dag /\ RunOf(c) \in Call /\ Current[d] = RunOf(c) /\ RunOf(c) # None
             /\ d \in OpenDags <=> Opened(c)
             /\ s \in Ended => /\ Current' = [Current EXCEPT ![d] = None]
                               /\ OpenDags' = OpenDags \ {d}
             /\ s \notin Ended =>
                  /\ Current' = Current
                  /\ OpenDags' = IF s = "opening" THEN OpenDags \ {d} ELSE OpenDags \union {d}
<1> DEFINE D == req[c].dag
           R == RunOf(c)
<1> USE DEF ContractInv, TypeInv, TypeOK
<1>1. D \in Dag /\ R \in Call /\ R # None
  BY RequestFields, RunOfInCall, CallAssumption DEF Live
<1>2. active[D] = c /\ Busy(D)
  BY CallAssumption DEF AdmissionInv, LiveIsRegistered, Live, Busy
<1>3. Current[D] = R /\ (D \in OpenDags <=> Opened(c))
  BY <1>1, <1>2 DEF Current, OpenDags
<1>4. RunOf(c)' = R /\ (Busy(D)' <=> s \notin Ended) /\ (Opened(c)' <=> s # "opening")
  BY <1>2, CallAssumption DEF RunOf, Busy, Done, Opened
<1>5. ASSUME NEW d \in Dag, d # D
      PROVE  /\ Busy(d)' <=> Busy(d)
             /\ Busy(d) => /\ RunOf(active[d])' = RunOf(active[d])
                           /\ Opened(active[d])' <=> Opened(active[d])
  <2>1. active[d] # c
    BY <1>5, CallAssumption DEF RunsInv
  <2>2. active[d] # None => task'[active[d]] = task[active[d]]
    BY <2>1
  <2> QED BY <2>2 DEF Busy, Done, RunOf, Opened
<1>6. \A d \in Dag \ {D} : Current'[d] = Current[d] /\ (d \in OpenDags' <=> d \in OpenDags)
  BY <1>5 DEF Current, OpenDags, RunOf, Opened
<1>7. Current'[D] = (IF s \in Ended THEN None ELSE R)
  BY <1>1, <1>2, <1>4 DEF Current, RunOf
<1>8. D \in OpenDags' <=> s \notin Ended \union {"opening"}
  BY <1>1, <1>2, <1>4 DEF OpenDags, Opened
<1>9. s \in Ended => Current' = [Current EXCEPT ![D] = None]
  <2>1. s \in Ended => \A d \in Dag : Current'[d] = IF d = D THEN None ELSE Current[d]
    BY <1>6, <1>7
  <2> QED BY <2>1 DEF Current
<1>10. s \notin Ended => Current' = Current
  <2>1. s \notin Ended => \A d \in Dag : Current'[d] = Current[d]
    BY <1>3, <1>6, <1>7
  <2> QED BY <2>1 DEF Current
<1>11. OpenDags \subseteq Dag /\ OpenDags' \subseteq Dag
  BY DEF OpenDags
<1>12. s \in Ended => OpenDags' = OpenDags \ {D}
  BY <1>1, <1>6, <1>8, <1>11
<1>13. s \notin Ended =>
         OpenDags' = IF s = "opening" THEN OpenDags \ {D} ELSE OpenDags \union {D}
  BY <1>1, <1>6, <1>8, <1>11
<1> QED BY <1>1, <1>3, <1>9, <1>10, <1>12, <1>13

(* A task moves and leaves its row alone.                                  *)
LEMMA RunsSilent ==
  ASSUME ContractInv, NEW c \in Call, Live(c), NEW s, s \notin Ended \union {"created"},
         task' = [task EXCEPT ![c] = s], UNCHANGED <<req, active, row, orphan>>,
         Opened(c) <=> s # "opening"
  PROVE  UNCHANGED Runs!vars
<1> DEFINE D == req[c].dag
<1>0. /\ D \in OpenDags <=> Opened(c)
      /\ Current' = Current
      /\ OpenDags' = IF s = "opening" THEN OpenDags \ {D} ELSE OpenDags \union {D}
  BY RunsTask
<1>1. Current' = Current /\ OpenDags' = OpenDags
  BY <1>0
<1>2. Home' = Home
  BY DEF Home
<1> QED BY <1>1, <1>2 DEF Runs!vars

(* A task writes the final status of its run, and ends with that or not.   *)
LEMMA RunsClose ==
  ASSUME ContractInv, NEW c \in Call, Live(c), Opened(c), NEW s, NEW st \in Final,
         s \notin {"created", "opening"}, task' = [task EXCEPT ![c] = s],
         row' = [row EXCEPT ![RunOf(c)] = st], UNCHANGED <<req, active, orphan>>
  PROVE  Runs!Next
<1> DEFINE D == req[c].dag
           R == RunOf(c)
<1>1. /\ D \in Dag /\ R \in Call /\ Current[D] = R /\ D \in OpenDags
      /\ s \in Ended => Current' = [Current EXCEPT ![D] = None] /\ OpenDags' = OpenDags \ {D}
      /\ s \notin Ended => Current' = Current /\ OpenDags' = OpenDags \union {D}
  BY RunsTask
<1>2. /\ row[R] # "absent" /\ st # "absent"
      /\ row \in [Call -> Final \union {"absent", "running"}]
  BY DEF ContractInv, RunsInv, TypeInv, TypeOK, Final
<1>3. Home' = Home
  BY <1>1, <1>2 DEF Home
<1>4. Runs!Close(D, st)
  BY <1>1, <1>3 DEF Runs!Close, Runs!Ends
<1> QED BY <1>1, <1>4 DEF Runs!Next

(* A task ends without a last word on its row.                             *)
LEMMA RunsLeave ==
  ASSUME ContractInv, NEW c \in Call, Live(c), NEW s \in Ended,
         task' = [task EXCEPT ![c] = s], UNCHANGED <<req, active, row>>,
         orphan' = IF row[RunOf(c)] = "running" THEN orphan \union {RunOf(c)} ELSE orphan
  PROVE  Runs!Next
<1> DEFINE D == req[c].dag
           R == RunOf(c)
<1>0. s # "created"
  BY DEF Ended
<1>1. /\ D \in Dag /\ R \in Call /\ R # None /\ Current[D] = R /\ (D \in OpenDags <=> Opened(c))
      /\ Current' = [Current EXCEPT ![D] = None] /\ OpenDags' = OpenDags \ {D}
  BY <1>0, RunsTask
<1>2. Home' = Home
  BY DEF Home
<1>3. CASE Opened(c) /\ row[R] = "running"
  <2>1. Runs!Lose(D)
    BY <1>1, <1>2, <1>3 DEF Runs!Lose, Runs!Ends
  <2> QED BY <1>1, <2>1 DEF Runs!Next
<1>4. CASE ~ (Opened(c) /\ row[R] = "running")
  <2>1. orphan' = orphan
    BY <1>1, <1>4 DEF ContractInv, ClosingInv, RowInv, Opened
  <2>2. Runs!End(D)
    BY <1>1, <1>2, <1>4, <2>1 DEF Runs!End, Runs!Ends
  <2> QED BY <1>1, <2>2 DEF Runs!Next
<1> QED BY <1>3, <1>4

(* A row that is opened is no longer one that was left behind.             *)
LEMMA RunsOpen ==
  ASSUME ContractInv, NEW c \in Call, OpenRow(c)
  PROVE  Runs!Next
<1> DEFINE D == req[c].dag
           R == RunOf(c)
<1>1. /\ Live(c) /\ ~ Opened(c) /\ task' = [task EXCEPT ![c] = "opened"]
      /\ UNCHANGED <<req, active>>
      /\ row' = [row EXCEPT ![R] = "running"] /\ orphan' = orphan \ {R}
  BY DEF OpenRow, Goes, Live, Done, Ended, Opened, calls
<1>2. "opened" \notin Ended \union {"created", "opening"}
  BY DEF Ended
<1>3. /\ D \in Dag /\ R \in Call /\ R # None /\ Current[D] = R /\ D \notin OpenDags
      /\ Current' = Current /\ OpenDags' = OpenDags \union {D}
  BY <1>1, <1>2, RunsTask
<1>4. req[R].dag = D
  BY <1>1, RunOnDag DEF ContractInv, Live
<1>5. Home' = [Home EXCEPT ![R] = D]
  <2>1. \A r \in Call : Home'[r] = IF r = R THEN D ELSE Home[r]
    BY <1>1, <1>3, <1>4 DEF Home, ContractInv, TypeInv, TypeOK
  <2> QED BY <2>1 DEF Home
<1>6. Runs!Open(D)
  BY <1>1, <1>3, <1>5 DEF Runs!Open
<1> QED BY <1>3, <1>6 DEF Runs!Next

(* Every step of the controller is a step of DagRuns, or none.             *)
LEMMA RunsStep ==
  ASSUME ContractInv, [Next]_vars
  PROVE  [Runs!Next]_(Runs!vars)
<1> USE DEF calls, tasks, rows, misfortune
<1>0. Kept
  BY StepKeeps DEF ContractInv
<1>00. \A c \in Call : task[c] # "none" => at[c] = "replied"
  BY DEF ContractInv, TypeInv
<1>1. ASSUME NEW c \in Call, NEW q \in Requests, Ask(c, q) PROVE [Runs!Next]_(Runs!vars)
  BY <1>0, <1>1, RunsFrame DEF Ask
<1>2. ASSUME NEW c \in Call, NEW q \in Requests, StopCurrent(c, q)
      PROVE  [Runs!Next]_(Runs!vars)
  BY <1>0, <1>2, RunsFrame DEF StopCurrent
<1>3. ASSUME NEW c \in Call, NEW e \in Call, NEW d \in Dag, Emit(c, e, d)
      PROVE  [Runs!Next]_(Runs!vars)
  BY <1>0, <1>3, RunsFrame DEF Emit
<1>4. ASSUME NEW c \in Call, FoundIdle(c) PROVE [Runs!Next]_(Runs!vars)
  BY <1>0, <1>4, RunsFrame DEF FoundIdle
<1>5. ASSUME NEW c \in Call, StartRun(c) PROVE [Runs!Next]_(Runs!vars)
  <2>1. CASE UNCHANGED <<active, task, row, orphan>>
    BY <1>0, <2>1, RunsFrame
  <2>2. CASE \E mem : ~ Busy(req[c].dag) /\ Creates(c, mem)
    <3>1. task[c] = "none" /\ at[c] # "idle" /\ UNCHANGED <<req, row, orphan>>
      BY <1>00, <1>5 DEF StartRun
    <3> QED BY <2>2, <3>1, RunsAdmit DEF Creates
  <2> QED BY <1>5, <2>1, <2>2 DEF StartRun, ContractInv, AdmissionInv, CallInv
<1>6. ASSUME NEW c \in Call, TakeLock(c) PROVE [Runs!Next]_(Runs!vars)
  BY <1>0, <1>6, RunsFrame DEF TakeLock
<1>7. ASSUME NEW c \in Call, RunNodeTrigger(c) PROVE [Runs!Next]_(Runs!vars)
  <2>1. CASE UNCHANGED <<active, task, row, orphan>>
    BY <1>0, <2>1, RunsFrame
  <2>2. CASE \E mem : ~ Busy(req[c].dag) /\ Creates(c, mem)
    <3>1. task[c] = "none" /\ at[c] # "idle" /\ UNCHANGED <<req, row, orphan>>
      BY <1>00, <1>7 DEF RunNodeTrigger, Unlocks
    <3> QED BY <2>2, <3>1, RunsAdmit DEF Creates
  <2> QED BY <1>7, <2>1, <2>2 DEF RunNodeTrigger, Unlocks, ContractInv, AdmissionInv, CallInv
<1>8. ASSUME NEW c \in Call, RetryNode(c) PROVE [Runs!Next]_(Runs!vars)
  <2>1. CASE UNCHANGED <<active, task, row, orphan>>
    BY <1>0, <2>1, RunsFrame
  <2>2. CASE \E mem : ~ Busy(req[c].dag) /\ Creates(c, mem)
    <3>1. task[c] = "none" /\ at[c] # "idle" /\ UNCHANGED <<req, row, orphan>>
      BY <1>00, <1>8 DEF RetryNode, Unlocks
    <3> QED BY <2>2, <3>1, RunsAdmit DEF Creates
  <2> QED BY <1>8, <2>1, <2>2 DEF RetryNode, Unlocks, ContractInv, AdmissionInv, CallInv
<1>9. ASSUME NEW c \in Call, ResumeNode(c) PROVE [Runs!Next]_(Runs!vars)
  <2>1. CASE UNCHANGED <<active, task, row, orphan>>
    BY <1>0, <2>1, RunsFrame
  <2>2. CASE \E mem : ~ Busy(req[c].dag) /\ Creates(c, mem)
    <3>1. task[c] = "none" /\ at[c] # "idle" /\ UNCHANGED <<req, row, orphan>>
      BY <1>00, <1>9 DEF ResumeNode, Unlocks
    <3> QED BY <2>2, <3>1, RunsAdmit DEF Creates
  <2> QED BY <1>9, <2>1, <2>2 DEF ResumeNode, Unlocks, ContractInv, AdmissionInv, CallInv
<1>10. ASSUME NEW c \in Call, StopReturns(c) PROVE [Runs!Next]_(Runs!vars)
  BY <1>0, <1>10, RunsFrame DEF StopReturns
<1>11. ASSUME NEW c \in Call, StopAbandoned(c) PROVE [Runs!Next]_(Runs!vars)
  BY <1>0, <1>11, RunsFrame DEF StopAbandoned
<1>12. ASSUME NEW c \in Call, ClearFinishedTask(c) PROVE [Runs!Next]_(Runs!vars)
  <2>1. \A d \in Dag : active'[d] = active[d] \/ (active'[d] = None /\ ~ Busy(d))
    BY <1>12 DEF ClearFinishedTask, Busy, ContractInv, TypeInv, TypeOK
  <2> QED BY <1>0, <1>12, <2>1, RunsFrame DEF ClearFinishedTask
<1>13. ASSUME NEW c \in Call, LoadGraph(c) PROVE [Runs!Next]_(Runs!vars)
  <2>1. Live(c) /\ UNCHANGED <<req, active, row, orphan>> /\ task' = [task EXCEPT ![c] = "opening"]
    BY <1>13 DEF LoadGraph, Goes, Live, Done, Ended, Trying
  <2>2. "opening" \notin Ended \union {"created"} /\ (Opened(c) <=> "opening" # "opening")
    BY <1>13 DEF LoadGraph, Goes, Ended, Opened, Trying
  <2> QED BY <2>1, <2>2, RunsSilent
<1>14. ASSUME NEW c \in Call, OpenRow(c) PROVE [Runs!Next]_(Runs!vars)
  BY <1>14, RunsOpen
<1>15. ASSUME NEW c \in Call, EnterTry(c) PROVE [Runs!Next]_(Runs!vars)
  <2>1. Live(c) /\ UNCHANGED <<req, active, row, orphan>> /\ task' = [task EXCEPT ![c] = "preparing"]
    BY <1>15 DEF EnterTry, Goes, Live, Done, Ended, Trying
  <2>2. "preparing" \notin Ended \union {"created"} /\ (Opened(c) <=> "preparing" # "opening")
    BY <1>15 DEF EnterTry, Goes, Ended, Opened, Trying
  <2> QED BY <2>1, <2>2, RunsSilent
<1>16. ASSUME NEW c \in Call, NEW n \in Node, NodeBegins(c, n) PROVE [Runs!Next]_(Runs!vars)
  BY <1>0, <1>16, RunsFrame DEF NodeBegins
<1>17. ASSUME NEW c \in Call, NEW n \in Node, NodeBlocked(c, n) PROVE [Runs!Next]_(Runs!vars)
  BY <1>0, <1>17, RunsFrame DEF NodeBlocked
<1>18. ASSUME NEW c \in Call, NEW n \in Node, NodeStores(c, n) PROVE [Runs!Next]_(Runs!vars)
  BY <1>0, <1>18, RunsFrame DEF NodeStores
<1>19. ASSUME NEW c \in Call, NEW n \in Node, NodeEnds(c, n) PROVE [Runs!Next]_(Runs!vars)
  BY <1>0, <1>19, RunsFrame DEF NodeEnds
<1>20. ASSUME NEW c \in Call, Emitted(c) PROVE [Runs!Next]_(Runs!vars)
  <2>1. PICK s \in {"failing", "running"} : task' = [task EXCEPT ![c] = s]
    BY <1>20 DEF Emitted
  <2>2. Live(c) /\ Opened(c) /\ UNCHANGED <<req, active, row, orphan>>
    BY <1>20 DEF Emitted, Live, Done, Ended, Opened
  <2> QED BY <2>1, <2>2, RunsSilent DEF Ended
<1>21. ASSUME NEW c \in Call, Return(c) PROVE [Runs!Next]_(Runs!vars)
  <2>1. Live(c) /\ UNCHANGED <<req, active, row, orphan>> /\ task' = [task EXCEPT ![c] = "closing"]
    BY <1>21 DEF Return, Drained, Goes, Live, Done, Ended, Trying, Dispatching
  <2>2. "closing" \notin Ended \union {"created"} /\ (Opened(c) <=> "closing" # "opening")
    BY <1>21 DEF Return, Drained, Goes, Ended, Opened, Trying, Dispatching
  <2> QED BY <2>1, <2>2, RunsSilent
<1>22. ASSUME NEW c \in Call, PersistOutputs(c) PROVE [Runs!Next]_(Runs!vars)
  <2>1. Live(c) /\ UNCHANGED <<req, active, row, orphan>> /\ task' = [task EXCEPT ![c] = "persisted"]
    BY <1>22 DEF PersistOutputs, Goes, Live, Done, Ended, Trying
  <2>2. "persisted" \notin Ended \union {"created"} /\ (Opened(c) <=> "persisted" # "opening")
    BY <1>22 DEF PersistOutputs, Goes, Ended, Opened, Trying
  <2> QED BY <2>1, <2>2, RunsSilent
<1>23. ASSUME NEW c \in Call, FinishDagRun(c) PROVE [Runs!Next]_(Runs!vars)
  <2>1. verdict[c] \in Final
    BY <1>23 DEF FinishDagRun, ContractInv, TypeInv, Goes
  <2>2. /\ Live(c) /\ Opened(c) /\ UNCHANGED <<req, active, orphan>>
        /\ task' = [task EXCEPT ![c] = "closed"] /\ row' = [row EXCEPT ![RunOf(c)] = verdict[c]]
    BY <1>23 DEF FinishDagRun, Goes, Live, Done, Ended, Opened
  <2> QED BY <2>1, <2>2, RunsClose
<1>24. ASSUME NEW c \in Call, Leave(c) PROVE [Runs!Next]_(Runs!vars)
  <2>1. Live(c) /\ UNCHANGED <<req, active, row>> /\ task' = [task EXCEPT ![c] = "returned"]
    BY <1>24 DEF Leave, Goes, Live, Done, Ended
  <2>2. orphan' = IF row[RunOf(c)] = "running" THEN orphan \union {RunOf(c)} ELSE orphan
    BY <1>24 DEF Leave, Goes, ContractInv, ClosingInv, RowInv
  <2>3. "returned" \in Ended
    BY DEF Ended
  <2> QED BY <2>1, <2>2, <2>3, RunsLeave
<1>25. ASSUME NEW c \in Call, FinishFailed(c) PROVE [Runs!Next]_(Runs!vars)
  <2>1. "failed" \in Final
    BY <1>25 DEF FinishFailed, Final
  <2>2. /\ Live(c) /\ Opened(c) /\ UNCHANGED <<req, active, orphan>>
        /\ task' = [task EXCEPT ![c] = "raised"] /\ row' = [row EXCEPT ![RunOf(c)] = "failed"]
    BY <1>25 DEF FinishFailed, Goes, Live, Done, Ended, Opened
  <2> QED BY <2>1, <2>2, RunsClose
<1>26. ASSUME NEW c \in Call, Interrupt(c) PROVE [Runs!Next]_(Runs!vars)
  <2>1. Live(c) /\ UNCHANGED <<req, active, row, orphan>> /\ task' = [task EXCEPT ![c] = "cancelling"]
    BY <1>26 DEF Interrupt, Goes, Live, Done, Ended, Trying
  <2>2. "cancelling" \notin Ended \union {"created"} /\ (Opened(c) <=> "cancelling" # "opening")
    BY <1>26 DEF Interrupt, Goes, Ended, Opened, Trying
  <2> QED BY <2>1, <2>2, RunsSilent
<1>27. ASSUME NEW c \in Call, FinishCancelled(c) PROVE [Runs!Next]_(Runs!vars)
  <2>1. "cancelled" \in Final
    BY <1>27 DEF FinishCancelled, Final
  <2>2. /\ Live(c) /\ Opened(c) /\ UNCHANGED <<req, active, orphan>>
        /\ task' = [task EXCEPT ![c] = "interrupted"] /\ row' = [row EXCEPT ![RunOf(c)] = "cancelled"]
    BY <1>27 DEF FinishCancelled, Goes, Live, Done, Ended, Opened
  <2> QED BY <2>1, <2>2, RunsClose
<1>28. ASSUME NEW c \in Call, Abandon(c) PROVE [Runs!Next]_(Runs!vars)
  <2>1. Live(c) /\ UNCHANGED <<req, active, row>> /\ task' = [task EXCEPT ![c] = "interrupted"]
    BY <1>28 DEF Abandon, Live, Done, Ended, Begun
  <2>2. orphan' = IF row[RunOf(c)] = "running" THEN orphan \union {RunOf(c)} ELSE orphan
    BY <1>28 DEF Abandon
  <2>3. "interrupted" \in Ended
    BY DEF Ended
  <2> QED BY <2>1, <2>2, <2>3, RunsLeave
<1>29. ASSUME NEW c \in Call, Raise(c) PROVE [Runs!Next]_(Runs!vars)
  <2>1. Live(c) /\ UNCHANGED <<req, active, row, orphan>> /\ task' = [task EXCEPT ![c] = "failing"]
    BY <1>29 DEF Raise, Goes, Live, Done, Ended, Trying
  <2>2. "failing" \notin Ended \union {"created"} /\ (Opened(c) <=> "failing" # "opening")
    BY <1>29 DEF Raise, Goes, Ended, Opened, Trying
  <2> QED BY <2>1, <2>2, RunsSilent
<1>30. ASSUME NEW c \in Call, RaiseEarly(c) PROVE [Runs!Next]_(Runs!vars)
  <2>1. Live(c) /\ UNCHANGED <<req, active, row>> /\ task' = [task EXCEPT ![c] = "raised"]
    BY <1>30 DEF RaiseEarly, Goes, Live, Done, Ended
  <2>2. orphan' = IF row[RunOf(c)] = "running" THEN orphan \union {RunOf(c)} ELSE orphan
    BY <1>30 DEF RaiseEarly, Goes, ContractInv, ClosingInv, RowInv
  <2>3. "raised" \in Ended
    BY DEF Ended
  <2> QED BY <2>1, <2>2, <2>3, RunsLeave
<1>31. ASSUME NEW c \in Call, CloseFails(c) PROVE [Runs!Next]_(Runs!vars)
  <2>1. Live(c) /\ UNCHANGED <<req, active, row>> /\ task' = [task EXCEPT ![c] = "raised"]
    BY <1>31 DEF CloseFails, Live, Done, Ended, Begun
  <2>2. orphan' = IF row[RunOf(c)] = "running" THEN orphan \union {RunOf(c)} ELSE orphan
    BY <1>31 DEF CloseFails
  <2>3. "raised" \in Ended
    BY DEF Ended
  <2> QED BY <2>1, <2>2, <2>3, RunsLeave
<1>32. CASE Crash
  <2>1. \A d \in Dag : ~ Busy(d)'
    BY <1>32 DEF Crash, Busy
  <2>2. Current' = [d \in Dag |-> None] /\ OpenDags' = {}
    BY <2>1 DEF Current, OpenDags
  <2>3. Home' = Home
    BY <1>32 DEF Crash, Home
  <2>4. Runs!LoseAll
    BY <1>32, <2>2, <2>3 DEF Crash, Runs!LoseAll
  <2> QED BY <2>4 DEF Runs!Next
<1>33. CASE UNCHANGED vars
  BY <1>0, <1>33, RunsFrame DEF vars
<1>34. ASSUME NEW c \in Call, Begin(c) PROVE [Runs!Next]_(Runs!vars)
  <2>1. Live(c) /\ UNCHANGED <<req, active, row, orphan>> /\ task' = [task EXCEPT ![c] = "running"]
    BY <1>34 DEF Begin, Goes, Live, Done, Ended, Trying
  <2>2. "running" \notin Ended \union {"created"} /\ (Opened(c) <=> "running" # "opening")
    BY <1>34 DEF Begin, Goes, Ended, Opened, Trying
  <2> QED BY <2>1, <2>2, RunsSilent
<1>35. ASSUME NEW c \in Call, ReturnNothing(c) PROVE [Runs!Next]_(Runs!vars)
  <2>1. Live(c) /\ UNCHANGED <<req, active, row, orphan>> /\ task' = [task EXCEPT ![c] = "failing"]
    BY <1>35 DEF ReturnNothing, Drained, Goes, Live, Done, Ended, Trying, Dispatching
  <2>2. "failing" \notin Ended \union {"created"} /\ (Opened(c) <=> "failing" # "opening")
    BY <1>35 DEF ReturnNothing, Drained, Goes, Ended, Opened, Trying, Dispatching
  <2> QED BY <2>1, <2>2, RunsSilent
<1> QED BY <1>1, <1>2, <1>3, <1>4, <1>5, <1>6, <1>7, <1>8, <1>9, <1>10, <1>11, <1>12, <1>13,
         <1>14, <1>15, <1>16, <1>17, <1>18, <1>19, <1>20, <1>21, <1>22, <1>23, <1>24,
         <1>25, <1>26, <1>27, <1>28, <1>29, <1>30, <1>31, <1>32, <1>33,
         <1>34, <1>35
     DEF Next, CallSteps, TaskSteps, Opens, NodeSteps, Closes, Mishaps

(* Refinement: the controller implements DagRuns.  Whatever calls overlap  *)
(* and whenever a task is cancelled, raises or dies, a DAG has one run at  *)
(* a time, a run stays on its DAG and is driven from one place, and a row  *)
(* that was opened is closed by its run or counted as left behind          *)
(* (dag_controller.py:472, 559, 589-720).                                  *)
THEOREM ControllerImplementsRuns == Spec => RunContract
<1>1. Init => Runs!Init
  BY DEF Init, Runs!Init, Current, OpenDags, Home, Busy
<1>2. ContractInv /\ [Next]_vars => [Runs!Next]_(Runs!vars)
  BY RunsStep
<1>3. Spec => []ContractInv
  BY ControllerTypeInv, ControllerAdmissionInv, ControllerClosingInv, ControllerRunsInv, PTL
     DEF ContractInv
<1> QED BY <1>1, <1>2, <1>3, PTL DEF Spec, RunContract, Runs!Spec
=============================================================================
