------------------------- MODULE LoopExecutionProofs -------------------------
(***************************************************************************)
(* Proofs of the safety properties of LoopExecution, for any number of     *)
(* loops, iterations, permits and cancellations.                           *)
(***************************************************************************)
EXTENDS LoopExecution, FiniteSetTheorems, TLAPS

ShellStage == {"collecting", "gathering", "raised", "returned", "interrupted"}
Result == {"none", "ok", "failed", "match", "raised", "cancelled"}

TypeInv ==
  /\ Sem!TypeOK
  /\ shell \in [Loop -> ShellStage]
  /\ interrupted \subseteq Loop
  /\ interrupts \in [Loop \union Serial -> Nat]
  /\ result \in [Iteration -> Result]
  /\ finished \in [Loop -> Seq(Iteration)]
  /\ left \in [Loop -> Nat]
  /\ taken \in [Loop -> SUBSET Iteration]
  /\ matched \in [Loop -> BOOLEAN]
  /\ round \in [Serial -> Nat]
  /\ \A l \in Loop : shell[l] = "collecting" => left[l] # 0

(* Only a client that waits, and is not cancelled, has a pending future;   *)
(* so a grant always makes an owner, and permits are conserved.            *)
SemInv ==
  /\ \A c \in Client : fut[c] = "pending" => pc[c] = "waiting" /\ c \notin cancelled
  /\ count + Cardinality(Sem!Owners) <= Permits
  /\ cancelled = {} => count + Cardinality(Sem!Owners) = Permits
  /\ Sem!Live # {} => count = 0

(* The task of an iteration has ended exactly when it has a result, and    *)
(* what has ended is yielded at most once.                                 *)
EndInv ==
  /\ \A c \in Iteration : pc[c] = "done" <=> result[c] # "none"
  /\ \A l \in Loop :
       /\ \A i \in DOMAIN finished[l] :
            /\ LoopOf[finished[l][i]] = l
            /\ result[finished[l][i]] # "none"
            /\ finished[l][i] \notin taken[l]
       /\ \A i, j \in DOMAIN finished[l] : finished[l][i] = finished[l][j] => i = j

(* What the shell has collected: only results, as many as it no longer     *)
(* waits for, or the one that matched.                                     *)
TakenInv ==
  /\ \A l \in interrupted : interrupts[l] # 0
  /\ \A l \in Loop :
       /\ \A c \in taken[l] : LoopOf[c] = l /\ result[c] \in {"ok", "failed", "match"}
       /\ matched[l] => /\ shell[l] # "collecting"
                        /\ \E c \in Of(l) : taken[l] = {c} /\ result[c] = "match"
       /\ ~matched[l] /\ interrupts[l] = 0 =>
            /\ shell[l] = "collecting" =>
                 left[l] + Cardinality(taken[l]) = Cardinality(Of(l))
            /\ shell[l] \in {"gathering", "returned"} => taken[l] = Of(l)
       /\ shell[l] \in {"returned", "interrupted"} => Undone(l) = {}

LoopInv == TypeInv /\ SemInv /\ EndInv /\ TakenInv

User == Client \union Scheduler

LEMMA FiniteUsers ==
  ASSUME NEW S \in SUBSET User
  PROVE  IsFiniteSet(S)
BY LoopAssumption, FS_Union, FS_Subset DEF User, Client

-----------------------------------------------------------------------------
(* What a step may do to the semaphore.                                    *)

SemStep ==
  \/ \E s \in Scheduler : Sem!AcquireNowait(s)
  \/ \E c \in Client : Sem!AcquireAtOnce(c) \/ Sem!Resume(c) \/ Sem!HandleCancel(c)
  \/ \E c \in Client \ cancelled : Sem!AcquireBlocks(c)
  \/ \E u \in User : Sem!Release(u)
  \/ \E tasks \in SUBSET Client : CancelTasks(tasks)
  \/ \E s \in Serial : SerialGoesOn(s)
  \/ \E c \in Client : NeverRan(c)
  \/ UNCHANGED semVars

LEMMA UndoneTasks ==
  ASSUME NEW l \in Loop
  PROVE  Undone(l) \in SUBSET Client
BY DEF Undone, Of, Client

LEMMA StepOnSem == [Next]_vars => SemStep
<1> SUFFICES ASSUME [Next]_vars PROVE SemStep
  OBVIOUS
<1>1. ASSUME NEW c \in Client, TaskSteps(c) PROVE SemStep
  <2>1. CASE Acquires(c)
    BY <1>1, <2>1 DEF Acquires, SemStep
  <2>2. CASE ExecuteEnds(c)
    <3>1. Sem!Release(c) /\ c \in User
      BY <2>2 DEF ExecuteEnds, User
    <3> QED BY <3>1 DEF SemStep
  <2>3. CASE ExecuteCancelled(c)
    <3>1. Sem!Release(c) /\ c \in User
      BY <2>3 DEF ExecuteCancelled, User
    <3> QED BY <3>1 DEF SemStep
  <2>4. CASE AcquireCancelled(c)
    BY <2>4 DEF AcquireCancelled, SemStep
  <2>5. CASE NeverRan(c)
    BY <2>5 DEF SemStep
  <2> QED BY <1>1, <2>1, <2>2, <2>3, <2>4, <2>5 DEF TaskSteps
<1>2. ASSUME NEW s \in Serial, SerialGoesOn(s) \/ InterruptSerial(s) PROVE SemStep
  <2>1. CASE SerialGoesOn(s)
    BY <2>1 DEF SemStep
  <2>2. CASE InterruptSerial(s)
    <3>1. CancelTasks({s}) /\ {s} \in SUBSET Client
      BY <2>2 DEF InterruptSerial, Client
    <3> QED BY <3>1 DEF SemStep
  <2> QED BY <1>2, <2>1, <2>2
<1>3. ASSUME NEW l \in Loop, ShellSteps(l) \/ Interrupt(l) PROVE SemStep
  <2>1. Undone(l) \in SUBSET Client
    BY UndoneTasks
  <2>2. CancelTasks(Undone(l)) \/ UNCHANGED semVars
    BY <1>3 DEF ShellSteps, Interrupt, IgnoreInterrupt, GatherEnds, TakeResult, Match,
                ShellRaises, semVars
  <2> QED BY <2>1, <2>2 DEF SemStep
<1>4. ASSUME NEW s \in Scheduler, NodeStarts(s) \/ NodeEnds(s) PROVE SemStep
  BY <1>4 DEF NodeStarts, NodeEnds, SemStep, User
<1>5. CASE UNCHANGED vars
  BY <1>5 DEF vars, semVars, SemStep
<1> QED BY <1>1, <1>2, <1>3, <1>4, <1>5 DEF Next

(* What _wakeup_next() does: nothing, or it grants a pending future.       *)
LEMMA WakeupGrants ==
  ASSUME Sem!TypeOK, NEW n \in Nat, Sem!WakeupNext(n)
  PROVE  /\ count' \in Nat
         /\ waiters' \in Seq(Client)
         /\ fut' \in [Client -> Sem!FutureState]
         /\ \/ count' = n /\ fut' = fut
            \/ /\ n > 0
               /\ count' = n - 1
               /\ \E c \in Client : /\ fut[c] = "pending"
                                    /\ fut' = [fut EXCEPT ![c] = "granted"]
<1>1. CASE n = 0 /\ count' = n /\ UNCHANGED <<waiters, fut>>
  BY <1>1 DEF Sem!TypeOK
<1>3. CASE n > 0 /\ Sem!Live = {} /\ count' = n /\ waiters' = <<>> /\ UNCHANGED fut
  BY <1>3 DEF Sem!TypeOK
<1>2. CASE /\ n > 0
           /\ \E i \in Sem!Live :
                /\ \A j \in Sem!Live : i <= j
                /\ count' = n - 1
                /\ waiters' = SubSeq(waiters, i + 1, Len(waiters))
                /\ fut' = [fut EXCEPT ![waiters[i]] = "granted"]
  <2>1. PICK i \in Sem!Live : /\ count' = n - 1
                              /\ waiters' = SubSeq(waiters, i + 1, Len(waiters))
                              /\ fut' = [fut EXCEPT ![waiters[i]] = "granted"]
    BY <1>2
  <2>2. waiters \in Seq(Client) /\ i \in 1 .. Len(waiters) /\ fut[waiters[i]] = "pending"
    BY <2>1 DEF Sem!TypeOK, Sem!Live
  <2>3. waiters[i] \in Client
    BY <2>2
  <2>4. waiters' \in Seq(Client) /\ count' \in Nat
    BY <1>2, <2>1, <2>2
  <2>5. fut' \in [Client -> Sem!FutureState]
    BY <2>1 DEF Sem!TypeOK, Sem!FutureState
  <2> QED BY <1>2, <2>1, <2>2, <2>3, <2>4, <2>5
<1> QED BY <1>1, <1>2, <1>3 DEF Sem!WakeupNext

LEMMA FiniteOwners == IsFiniteSet(Sem!Owners) /\ IsFiniteSet(Sem!Owners')
<1>1. Sem!Owners \in SUBSET User /\ Sem!Owners' \in SUBSET User
  BY DEF Sem!Owners, Sem!Holding, Sem!Granted, User, Sem!User
<1> QED BY <1>1, FiniteUsers

(* u leaves while _wakeup_next() runs with n permits on the table.         *)
LEMMA WakeupOwners ==
  ASSUME Sem!TypeOK, SemInv, NEW u \in User, NEW n \in Nat, Sem!WakeupNext(n),
         u \in Client => fut[u] # "pending",
         NEW stage \in {"idle", "done"}, pc' = [pc EXCEPT ![u] = stage]
  PROVE  /\ \A c \in Client : fut'[c] = "pending" => pc'[c] = "waiting" /\ c \notin cancelled
         /\ count' + Cardinality(Sem!Owners') = n + Cardinality(Sem!Owners \ {u})
<1> USE DEF Sem!TypeOK, User, Sem!User
<1> DEFINE rest == Sem!Owners \ {u}
<1>0. IsFiniteSet(rest)
  BY FiniteOwners, FS_Subset
<1>1. CASE count' = n /\ fut' = fut
  <2>1. Sem!Owners' = rest
    BY <1>1 DEF Sem!Owners, Sem!Holding, Sem!Granted
  <2>2. \A c \in Client : fut'[c] = "pending" => pc'[c] = "waiting" /\ c \notin cancelled
    BY <1>1 DEF SemInv
  <2> QED BY <1>1, <2>1, <2>2
<1>2. CASE /\ n > 0
           /\ count' = n - 1
           /\ \E c \in Client : fut[c] = "pending" /\ fut' = [fut EXCEPT ![c] = "granted"]
  <2>1. PICK c \in Client : fut[c] = "pending" /\ fut' = [fut EXCEPT ![c] = "granted"]
    BY <1>2
  <2>2. c # u /\ pc[c] = "waiting" /\ pc'[c] = "waiting"
    BY <2>1 DEF SemInv
  <2>3. c \notin rest
    BY <2>1, <2>2 DEF Sem!Owners, Sem!Holding, Sem!Granted
  <2>4. Sem!Owners' = rest \union {c}
    BY <2>1, <2>2 DEF Sem!Owners, Sem!Holding, Sem!Granted
  <2>5. Cardinality(Sem!Owners') = Cardinality(rest) + 1
    BY <1>0, <2>3, <2>4, FS_AddElement
  <2>6. Cardinality(rest) \in Nat
    BY <1>0, FS_CardinalityType
  <2>7. \A d \in Client : fut'[d] = "pending" => pc'[d] = "waiting" /\ d \notin cancelled
    BY <2>1, <2>2 DEF SemInv
  <2>8. count' + Cardinality(Sem!Owners') = n + Cardinality(rest)
    BY <1>2, <2>5, <2>6
  <2> QED BY <2>7, <2>8
<1> HIDE DEF rest
<1>3. \/ count' = n /\ fut' = fut
      \/ /\ n > 0
         /\ count' = n - 1
         /\ \E c \in Client : fut[c] = "pending" /\ fut' = [fut EXCEPT ![c] = "granted"]
  BY WakeupGrants
<1> QED BY <1>1, <1>2, <1>3

-----------------------------------------------------------------------------
(* Type correctness.                                                       *)

LEMMA SemTypeStep ==
  ASSUME Sem!TypeOK, SemStep
  PROVE  Sem!TypeOK'
<1> USE DEF Sem!TypeOK, Sem!User, Client
<1>1. ASSUME NEW s \in Scheduler, Sem!AcquireNowait(s) PROVE Sem!TypeOK'
  BY <1>1 DEF Sem!AcquireNowait, Sem!Stage
<1>2. ASSUME NEW c \in Client, Sem!AcquireAtOnce(c) PROVE Sem!TypeOK'
  BY <1>2 DEF Sem!AcquireAtOnce, Sem!Stage
<1>3. ASSUME NEW c \in Client, Sem!AcquireBlocks(c) PROVE Sem!TypeOK'
  BY <1>3 DEF Sem!AcquireBlocks, Sem!Stage, Sem!FutureState
<1>4. ASSUME NEW c \in Client, Sem!Resume(c) PROVE Sem!TypeOK'
  BY <1>4 DEF Sem!Resume, Sem!Stage
<1>5. ASSUME NEW c \in Client, Sem!HandleCancel(c) PROVE Sem!TypeOK'
  <2>1. pc' \in [Sem!User -> Sem!Stage] /\ cancelled' \subseteq Client /\ released' \in BOOLEAN
    BY <1>5 DEF Sem!HandleCancel, Sem!Stage
  <2>2. CASE count > 0 /\ Sem!WakeupNext(count - 1)
    <3>1. count - 1 \in Nat
      BY <2>2
    <3>2. count' \in Nat /\ waiters' \in Seq(Client) /\ fut' \in [Client -> Sem!FutureState]
      BY <2>2, <3>1, WakeupGrants
    <3> QED BY <2>1, <3>2
  <2>3. CASE count = 0 /\ UNCHANGED <<count, waiters, fut>>
    BY <2>1, <2>3
  <2> QED BY <1>5, <2>2, <2>3 DEF Sem!HandleCancel
<1>6. ASSUME NEW u \in User, Sem!Release(u) PROVE Sem!TypeOK'
  <2>1. pc' \in [Sem!User -> Sem!Stage] /\ cancelled' \subseteq Client /\ released' \in BOOLEAN
    BY <1>6 DEF Sem!Release, Sem!Stage
  <2>2. count + 1 \in Nat /\ Sem!WakeupNext(count + 1)
    BY <1>6 DEF Sem!Release
  <2>3. count' \in Nat /\ waiters' \in Seq(Client) /\ fut' \in [Client -> Sem!FutureState]
    BY <2>2, WakeupGrants
  <2> QED BY <2>1, <2>3
<1>7. ASSUME NEW tasks \in SUBSET Client, CancelTasks(tasks) PROVE Sem!TypeOK'
  BY <1>7 DEF CancelTasks, Sem!FutureState
<1>8. ASSUME NEW s \in Serial, SerialGoesOn(s) PROVE Sem!TypeOK'
  <2>1. cancelled' \subseteq Client /\ released' \in BOOLEAN
    BY <1>8 DEF SerialGoesOn
  <2>2. CASE waiters' = <<>> /\ UNCHANGED <<count, fut, pc>>
    BY <2>1, <2>2
  <2>3. ASSUME NEW i \in Sem!Live, UNCHANGED count, pc' = [pc EXCEPT ![s] = "waiting"],
               waiters' = Append(SubSeq(waiters, i + 1, Len(waiters)), s),
               fut' = [fut EXCEPT ![waiters[i]] = "granted", ![s] = "pending"]
        PROVE  Sem!TypeOK'
    <3>1. i \in 1 .. Len(waiters)
      BY DEF Sem!Live
    <3>2. SubSeq(waiters, i + 1, Len(waiters)) \in Seq(Client)
      BY <3>1
    <3>3. waiters' \in Seq(Client)
      BY <2>3, <3>2
    <3>4. fut' \in [Client -> Sem!FutureState] /\ pc' \in [Sem!User -> Sem!Stage]
      BY <2>3 DEF Sem!FutureState, Sem!Stage
    <3> QED BY <2>1, <2>3, <3>3, <3>4
  <2> QED BY <1>8, <2>2, <2>3 DEF SerialGoesOn
<1>9. ASSUME NEW c \in Client, NeverRan(c) PROVE Sem!TypeOK'
  BY <1>9 DEF NeverRan, Sem!Stage
<1>10. CASE UNCHANGED semVars
  BY <1>10 DEF semVars
<1> QED BY <1>1, <1>2, <1>3, <1>4, <1>5, <1>6, <1>7, <1>8, <1>9, <1>10 DEF SemStep

(* A task that ends, and whose end the shell is told of.                   *)
LEMMA EndedType ==
  ASSUME TypeInv, Sem!TypeOK', NEW c \in Client, NEW outcome \in Result, Ended(c, outcome)
  PROVE  TypeInv'
<1>1. result' \in [Iteration -> Result] /\ finished' \in [Loop -> Seq(Iteration)]
  <2>1. CASE c \in Iteration
    <3>1. result' = [result EXCEPT ![c] = outcome]
      BY <2>1 DEF Ended
    <3>2. LoopOf[c] \in Loop
      BY <2>1, LoopAssumption
    <3>3. finished' = [finished EXCEPT ![LoopOf[c]] = Append(@, c)]
      BY <2>1 DEF Ended
    <3>4. \A l \in Loop : /\ finished[l] \in Seq(Iteration)
                          /\ Append(finished[l], c) \in Seq(Iteration)
      BY <2>1 DEF TypeInv
    <3> QED BY <3>1, <3>2, <3>3, <3>4 DEF TypeInv
  <2>2. CASE c \notin Iteration
    BY <2>2 DEF Ended, taskVars, TypeInv
  <2> QED BY <2>1, <2>2
<1>2. UNCHANGED <<shell, interrupted, interrupts, left, taken, matched, round>>
  BY DEF Ended, shellVars
<1> QED BY <1>1, <1>2 DEF TypeInv

(* A result that as_completed() yields.                                    *)
LEMMA YieldedType ==
  ASSUME TypeInv, NEW l \in Loop, NEW c \in Of(l), Yielded(l, c)
  PROVE  /\ finished' \in [Loop -> Seq(Iteration)]
         /\ left[l] - 1 \in Nat
<1>1. finished[l] \in Seq(Iteration) /\ finished[l] # <<>>
  BY DEF Yielded, TypeInv
<1>2. Tail(finished[l]) \in Seq(Iteration)
  BY <1>1
<1>3. finished' \in [Loop -> Seq(Iteration)]
  BY <1>2 DEF Yielded, TypeInv
<1>4. left[l] \in Nat /\ left[l] # 0
  BY DEF Yielded, TypeInv
<1> QED BY <1>3, <1>4

(* Type correctness: whatever happens the shell waits for no more results  *)
(* than there are iterations left (runner.py:640-669).                     *)
THEOREM LoopTypeOK == Spec => []TypeInv
<1>1. Init => TypeInv
  <2> SUFFICES ASSUME Init PROVE TypeInv
    OBVIOUS
  <2>1. Sem!TypeOK
    <3>1. count \in Nat /\ waiters \in Seq(Client) /\ cancelled \subseteq Client
      BY LoopAssumption DEF Init, Sem!Init
    <3>2. fut \in [Client -> Sem!FutureState] /\ pc \in [Sem!User -> Sem!Stage]
      BY DEF Init, Sem!Init, Sem!FutureState, Sem!Stage
    <3>3. released \in BOOLEAN
      BY DEF Init, Sem!Init
    <3> QED BY <3>1, <3>2, <3>3 DEF Sem!TypeOK
  <2>2. \A l \in Loop : Cardinality(Of(l)) \in Nat /\ Cardinality(Of(l)) # 0
    <3> TAKE l \in Loop
    <3>1. IsFiniteSet(Of(l)) /\ Of(l) # {}
      BY LoopAssumption, FS_Subset DEF Of
    <3> QED BY <3>1, FS_EmptySet, FS_CardinalityType
  <2>3. finished \in [Loop -> Seq(Iteration)]
    BY DEF Init
  <2>4. left \in [Loop -> Nat] /\ \A l \in Loop : left[l] # 0
    BY <2>2 DEF Init
  <2> QED BY <2>1, <2>3, <2>4 DEF Init, TypeInv, ShellStage, Result
<1>2. TypeInv /\ [Next]_vars => TypeInv'
  <2> SUFFICES ASSUME TypeInv, [Next]_vars PROVE TypeInv'
    OBVIOUS
  <2>0. Sem!TypeOK'
    BY StepOnSem, SemTypeStep DEF TypeInv
  <2>1. ASSUME NEW c \in Client, TaskSteps(c) PROVE TypeInv'
    <3>1. CASE Acquires(c)
      BY <2>0, <3>1 DEF Acquires, shellVars, taskVars, TypeInv
    <3>2. CASE ~Acquires(c)
      <4>1. \A outcome \in Outcomes(c) : outcome \in Result
        BY DEF Outcomes, Result
      <4>2. "cancelled" \in Result
        BY DEF Result
      <4>3. \E outcome \in Result : Ended(c, outcome)
        BY <2>1, <3>2, <4>1, <4>2
           DEF TaskSteps, ExecuteEnds, ExecuteCancelled, AcquireCancelled, NeverRan
      <4> QED BY <2>0, <4>3, EndedType
    <3> QED BY <3>1, <3>2
  <2>2. ASSUME NEW s \in Serial, SerialGoesOn(s) PROVE TypeInv'
    <3>1. round' \in [Serial -> Nat]
      BY <2>2 DEF SerialGoesOn, TypeInv
    <3> QED BY <2>0, <2>2, <3>1 DEF SerialGoesOn, shellVars, taskVars, TypeInv
  <2>3. ASSUME NEW s \in Serial, InterruptSerial(s) PROVE TypeInv'
    <3>1. interrupts' \in [Loop \union Serial -> Nat]
      BY <2>3 DEF InterruptSerial, TypeInv
    <3> QED BY <2>0, <2>3, <3>1 DEF InterruptSerial, taskVars, TypeInv
  <2>4. ASSUME NEW l \in Loop, NEW c \in Of(l), TakeResult(l, c) PROVE TypeInv'
    <3>1. finished' \in [Loop -> Seq(Iteration)] /\ left[l] - 1 \in Nat
      BY <2>4, YieldedType DEF TakeResult
    <3>2. taken' \in [Loop -> SUBSET Iteration]
      BY <2>4 DEF TakeResult, TypeInv, Of
    <3>3. /\ left' = [left EXCEPT ![l] = @ - 1]
          /\ shell' = [shell EXCEPT ![l] = IF left[l] = 1 THEN "gathering" ELSE @]
      BY <2>4 DEF TakeResult, Yields
    <3>4. /\ left' \in [Loop -> Nat]
          /\ shell' \in [Loop -> ShellStage]
          /\ \A m \in Loop : shell'[m] = "collecting" => left'[m] # 0
      BY <3>1, <3>3 DEF TypeInv, ShellStage
    <3> QED BY <2>0, <2>4, <3>1, <3>2, <3>4 DEF TakeResult, TypeInv
  <2>5. ASSUME NEW l \in Loop, NEW c \in Of(l), Match(l, c) PROVE TypeInv'
    <3>1. finished' \in [Loop -> Seq(Iteration)] /\ left[l] - 1 \in Nat
      BY <2>5, YieldedType DEF Match
    <3>2. taken' \in [Loop -> SUBSET Iteration] /\ matched' \in [Loop -> BOOLEAN]
      BY <2>5 DEF Match, TypeInv, Of
    <3>3. /\ left' \in [Loop -> Nat]
          /\ shell' \in [Loop -> ShellStage]
          /\ \A m \in Loop : shell'[m] = "collecting" => left'[m] # 0
      BY <2>5, <3>1 DEF Match, TypeInv, ShellStage
    <3> QED BY <2>0, <2>5, <3>1, <3>2, <3>3 DEF Match, TypeInv
  <2>6. ASSUME NEW l \in Loop, NEW c \in Of(l), ShellRaises(l, c) PROVE TypeInv'
    <3>1. finished' \in [Loop -> Seq(Iteration)] /\ left[l] - 1 \in Nat
      BY <2>6, YieldedType DEF ShellRaises
    <3>2. /\ left' \in [Loop -> Nat]
          /\ shell' \in [Loop -> ShellStage]
          /\ \A m \in Loop : shell'[m] = "collecting" => left'[m] # 0
      BY <2>6, <3>1 DEF ShellRaises, TypeInv, ShellStage
    <3> QED BY <2>0, <2>6, <3>1, <3>2 DEF ShellRaises, TypeInv
  <2>7. ASSUME NEW l \in Loop, IgnoreInterrupt(l) PROVE TypeInv'
    <3>1. left[l] \in Nat /\ left[l] # 0
      BY <2>7 DEF IgnoreInterrupt, TypeInv
    <3>2. /\ left' = [left EXCEPT ![l] = @ - 1]
          /\ shell' = [shell EXCEPT ![l] = IF left[l] = 1 THEN "gathering" ELSE @]
      BY <2>7 DEF IgnoreInterrupt, Yields
    <3>3. /\ left' \in [Loop -> Nat]
          /\ shell' \in [Loop -> ShellStage]
          /\ \A m \in Loop : shell'[m] = "collecting" => left'[m] # 0
      BY <3>1, <3>2 DEF TypeInv, ShellStage
    <3> QED BY <2>0, <2>7, <3>3 DEF IgnoreInterrupt, taskVars, TypeInv
  <2>8. ASSUME NEW l \in Loop, GatherEnds(l) PROVE TypeInv'
    <3>1. /\ shell' \in [Loop -> ShellStage]
          /\ \A m \in Loop : shell'[m] = "collecting" => left'[m] # 0
      BY <2>8 DEF GatherEnds, TypeInv, ShellStage
    <3> QED BY <2>0, <2>8, <3>1 DEF GatherEnds, taskVars, TypeInv
  <2>9. ASSUME NEW l \in Loop, Interrupt(l) PROVE TypeInv'
    <3>1. interrupts' \in [Loop \union Serial -> Nat]
      BY <2>9 DEF Interrupt, TypeInv
    <3> QED BY <2>0, <2>9, <3>1 DEF Interrupt, taskVars, TypeInv
  <2>10. ASSUME NEW s \in Scheduler, NodeStarts(s) \/ NodeEnds(s) PROVE TypeInv'
    BY <2>0, <2>10 DEF NodeStarts, NodeEnds, shellVars, taskVars, TypeInv
  <2>11. CASE UNCHANGED vars
    BY <2>0, <2>11 DEF vars, TypeInv
  <2> QED BY <2>1, <2>2, <2>3, <2>4, <2>5, <2>6, <2>7, <2>8, <2>9, <2>10, <2>11
          DEF Next, ShellSteps
<1> QED BY <1>1, <1>2, PTL DEF Spec

-----------------------------------------------------------------------------
(* The permits.                                                            *)

LEMMA SemInvStep ==
  ASSUME Sem!TypeOK, SemInv, SemStep
  PROVE  SemInv'
<1> USE DEF Sem!TypeOK, Sem!User, User
<1>0. /\ Permits \in Nat
      /\ Cardinality(Sem!Owners) \in Nat
      /\ Cardinality(Sem!Owners') \in Nat
      /\ User = Client \union Scheduler
      /\ Client \intersect Scheduler = {}
  BY LoopAssumption, FiniteOwners, FS_CardinalityType DEF Client
<1> DEFINE Served == \A c \in Client :
                     fut'[c] = "pending" => pc'[c] = "waiting" /\ c \notin cancelled'
           Conserved == count' + Cardinality(Sem!Owners') = count + Cardinality(Sem!Owners)
           NoneIdle == Sem!Live' # {} => count' = 0
<1>a. ASSUME Served, Conserved, NoneIdle, cancelled \subseteq cancelled'
      PROVE  SemInv'
  BY <1>a, <1>0 DEF SemInv
<1>b. ASSUME NEW u \in User, pc[u] = "idle", pc' = [pc EXCEPT ![u] = "holding"],
             count > 0, count' = count - 1, UNCHANGED <<waiters, fut, cancelled>>
      PROVE  SemInv'
  <2>1. Sem!Live = {} /\ Sem!Live' = Sem!Live
    BY <1>b DEF Sem!Live, SemInv
  <2>2. u \notin Sem!Owners /\ Sem!Owners' = Sem!Owners \union {u}
    BY <1>b DEF Sem!Owners, Sem!Holding, Sem!Granted
  <2>3. Cardinality(Sem!Owners') = Cardinality(Sem!Owners) + 1
    BY <2>2, FiniteOwners, FS_AddElement
  <2>4. Conserved
    BY <1>b, <1>0, <2>3
  <2>5. Served
    BY <1>b DEF SemInv
  <2> HIDE DEF Served, Conserved
  <2> QED BY <1>a, <1>b, <2>1, <2>4, <2>5
<1>c. ASSUME NEW n \in Nat, Sem!WakeupNext(n), n > 0 => Sem!Live = {} \/ n = 1
      PROVE  NoneIdle
  <2>1. CASE n = 0
    BY <1>c, <2>1 DEF Sem!WakeupNext
  <2>2. CASE n > 0 /\ Sem!Live = {}
    <3>1. waiters' = <<>>
      BY <1>c, <2>2 DEF Sem!WakeupNext
    <3> QED BY <3>1 DEF Sem!Live
  <2>3. CASE n = 1 /\ Sem!Live # {}
    BY <1>c, <2>3 DEF Sem!WakeupNext
  <2> QED BY <1>c, <2>1, <2>2, <2>3
<1>1. ASSUME NEW s \in Scheduler, Sem!AcquireNowait(s) PROVE SemInv'
  BY <1>1, <1>b DEF Sem!AcquireNowait
<1>2. ASSUME NEW c \in Client, Sem!AcquireAtOnce(c) PROVE SemInv'
  BY <1>2, <1>b DEF Sem!AcquireAtOnce
<1>3. ASSUME NEW c \in Client \ cancelled, Sem!AcquireBlocks(c) PROVE SemInv'
  <2>1. Sem!Owners' = Sem!Owners
    BY <1>3 DEF Sem!AcquireBlocks, Sem!Owners, Sem!Holding, Sem!Granted
  <2>2. Served
    BY <1>3 DEF Sem!AcquireBlocks, SemInv
  <2> QED BY <1>3, <1>a, <2>1, <2>2 DEF Sem!AcquireBlocks
<1>4. ASSUME NEW c \in Client, Sem!Resume(c) PROVE SemInv'
  <2>1. Sem!Owners' = Sem!Owners
    BY <1>4 DEF Sem!Resume, Sem!Owners, Sem!Holding, Sem!Granted
  <2>2. Served /\ Sem!Live' = Sem!Live
    BY <1>4 DEF Sem!Resume, SemInv, Sem!Live
  <2> QED BY <1>4, <1>a, <2>1, <2>2 DEF Sem!Resume, SemInv
<1>5. ASSUME NEW c \in Client, Sem!HandleCancel(c) PROVE SemInv'
  <2>0. cancelled' = cancelled /\ cancelled # {} /\ c \in User
    BY <1>5 DEF Sem!HandleCancel
  <2>1. /\ Cardinality(Sem!Owners \ {c}) <= Cardinality(Sem!Owners)
        /\ Cardinality(Sem!Owners \ {c}) \in Nat
    BY FiniteOwners, FS_Subset, FS_CardinalityType
  <2>2. CASE count > 0 /\ Sem!WakeupNext(count - 1)
    <3>1. count - 1 \in Nat /\ Sem!Live = {}
      BY <2>2 DEF SemInv
    <3>2. pc' = [pc EXCEPT ![c] = "done"] /\ pc[c] = "waiting"
      BY <1>5 DEF Sem!HandleCancel
    <3>3. fut[c] # "pending"
      BY <2>0, <1>5 DEF Sem!HandleCancel, SemInv
    <3>4. /\ \A d \in Client : fut'[d] = "pending" => pc'[d] = "waiting" /\ d \notin cancelled
          /\ count' + Cardinality(Sem!Owners') = (count - 1) + Cardinality(Sem!Owners \ {c})
      BY <2>0, <2>2, <3>1, <3>2, <3>3, WakeupOwners
    <3>5. NoneIdle
      BY <2>2, <3>1, <1>c
    <3>6. Served
      BY <2>0, <3>4
    <3>7. count' + Cardinality(Sem!Owners') <= Permits
      BY <1>0, <2>1, <3>1, <3>4 DEF SemInv
    <3> QED BY <2>0, <3>5, <3>6, <3>7
            DEF SemInv
  <2>3. CASE count = 0 /\ UNCHANGED <<count, waiters, fut>>
    <3>1. Sem!Owners' = Sem!Owners \ {c}
      BY <1>5, <2>3 DEF Sem!HandleCancel, Sem!Owners, Sem!Holding, Sem!Granted
    <3>2. Served
      BY <1>5, <2>0, <2>3 DEF Sem!HandleCancel, SemInv
    <3>3. count' + Cardinality(Sem!Owners') <= Permits /\ count' = 0
      BY <1>0, <2>1, <2>3, <3>1 DEF SemInv
    <3> QED BY <2>0, <3>2, <3>3
            DEF SemInv
  <2> QED BY <1>5, <2>2, <2>3 DEF Sem!HandleCancel
<1>6. ASSUME NEW u \in User, Sem!Release(u) PROVE SemInv'
  <2>1. count + 1 \in Nat /\ Sem!WakeupNext(count + 1) /\ cancelled' = cancelled
    BY <1>6 DEF Sem!Release
  <2>2. u \in Client => fut[u] # "pending"
    BY <1>6 DEF Sem!Release, SemInv
  <2>3. \E stage \in {"idle", "done"} : pc' = [pc EXCEPT ![u] = stage]
    BY <1>6 DEF Sem!Release
  <2>4. /\ \A d \in Client : fut'[d] = "pending" => pc'[d] = "waiting" /\ d \notin cancelled
        /\ count' + Cardinality(Sem!Owners') = (count + 1) + Cardinality(Sem!Owners \ {u})
    BY <2>1, <2>2, <2>3, WakeupOwners
  <2>5. Cardinality(Sem!Owners \ {u}) = Cardinality(Sem!Owners) - 1
    <3>1. u \in Sem!Owners
      BY <1>6 DEF Sem!Release, Sem!Owners, Sem!Holding
    <3> QED BY <3>1, FiniteOwners, FS_RemoveElement
  <2>6. Conserved
    BY <1>0, <2>1, <2>4, <2>5
  <2>7. NoneIdle
    <3>1. Sem!Live = {} \/ count = 0
      BY DEF SemInv
    <3>2. count + 1 > 0 => Sem!Live = {} \/ count + 1 = 1
      BY <3>1
    <3> HIDE DEF NoneIdle
    <3> QED BY <2>1, <3>2, <1>c
  <2>8. Served
    BY <2>1, <2>4
  <2> HIDE DEF Served, Conserved, NoneIdle
  <2> QED BY <1>a, <2>1, <2>6, <2>7, <2>8
<1>7. ASSUME NEW tasks \in SUBSET Client, CancelTasks(tasks) PROVE SemInv'
  <2>1. /\ cancelled' = cancelled \union tasks
        /\ fut' = [c \in Client |-> IF c \in tasks /\ pc[c] = "waiting" /\ fut[c] = "pending"
                                      THEN "cancelled" ELSE fut[c]]
        /\ UNCHANGED <<count, waiters, pc, released>>
    BY <1>7 DEF CancelTasks
  <2>2. Sem!Owners' = Sem!Owners
    BY <2>1 DEF Sem!Owners, Sem!Holding, Sem!Granted
  <2>3. Served
    BY <2>1 DEF SemInv
  <2>4. Sem!Live' \subseteq Sem!Live
    <3>1. \A i \in DOMAIN waiters : waiters[i] \in Client
      OBVIOUS
    <3> QED BY <2>1, <3>1 DEF Sem!Live
  <2>5. NoneIdle
    BY <2>1, <2>4 DEF SemInv
  <2> QED BY <1>a, <2>1, <2>2, <2>3, <2>5
<1>8. ASSUME NEW s \in Serial, SerialGoesOn(s) PROVE SemInv'
  <2>0. s \in Client /\ pc[s] = "holding" /\ s \notin cancelled /\ cancelled' = cancelled
    BY <1>8 DEF SerialGoesOn, Client
  <2>1. CASE Sem!Live = {} /\ waiters' = <<>> /\ UNCHANGED <<count, fut, pc>>
    <3>1. Sem!Owners' = Sem!Owners /\ Sem!Live' = {}
      BY <2>1 DEF Sem!Owners, Sem!Holding, Sem!Granted, Sem!Live
    <3>2. Served
      BY <2>0, <2>1 DEF SemInv
    <3> QED BY <1>a, <2>0, <2>1, <3>1, <3>2
  <2>2. ASSUME NEW i \in Sem!Live, count = 0, UNCHANGED count,
               pc' = [pc EXCEPT ![s] = "waiting"],
               fut' = [fut EXCEPT ![waiters[i]] = "granted", ![s] = "pending"]
        PROVE  SemInv'
    <3> DEFINE d == waiters[i]
    <3>1. d \in Client /\ fut[d] = "pending"
      BY DEF Sem!Live
    <3>2. d # s /\ pc[d] = "waiting" /\ d \notin cancelled
      BY <2>0, <3>1 DEF SemInv
    <3> HIDE DEF d
    <3>3. fut' = [fut EXCEPT ![d] = "granted", ![s] = "pending"]
      BY <2>2 DEF d
    <3>4. Sem!Owners' = (Sem!Owners \ {s}) \union {d} /\ s \in Sem!Owners /\ d \notin Sem!Owners
      BY <2>0, <2>2, <3>1, <3>2, <3>3 DEF Sem!Owners, Sem!Holding, Sem!Granted
    <3>5. IsFiniteSet(Sem!Owners \ {s})
      BY FiniteOwners, FS_Subset
    <3>6. Cardinality(Sem!Owners \ {s}) = Cardinality(Sem!Owners) - 1
      BY <3>4, FiniteOwners, FS_RemoveElement
    <3>7. d \notin Sem!Owners \ {s}
      BY <3>4
    <3>8. Cardinality(Sem!Owners') = Cardinality(Sem!Owners \ {s}) + 1
      BY <3>4, <3>5, <3>7, FS_AddElement
    <3>9. Conserved
      BY <1>0, <2>2, <3>6, <3>8
    <3>10. Served
      BY <2>0, <2>2, <3>1, <3>2, <3>3 DEF SemInv
    <3>11. NoneIdle
      BY <2>2
    <3> HIDE DEF Served, Conserved, NoneIdle
    <3> QED BY <1>a, <2>0, <3>9, <3>10, <3>11
  <2> QED BY <1>8, <2>1, <2>2 DEF SerialGoesOn
<1>9. ASSUME NEW c \in Client, NeverRan(c) PROVE SemInv'
  <2>1. Sem!Owners' = Sem!Owners /\ Sem!Live' = Sem!Live
    BY <1>9 DEF NeverRan, Sem!Owners, Sem!Holding, Sem!Granted, Sem!Live
  <2>2. Served
    BY <1>9 DEF NeverRan, SemInv
  <2> QED BY <1>9, <1>a, <2>1, <2>2 DEF NeverRan, SemInv
<1>10. CASE UNCHANGED semVars
  <2>1. Sem!Owners' = Sem!Owners /\ Sem!Live' = Sem!Live
    BY <1>10 DEF semVars, Sem!Owners, Sem!Holding, Sem!Granted, Sem!Live
  <2>2. Served
    BY <1>10 DEF semVars, SemInv
  <2> QED BY <1>10, <1>a, <2>1, <2>2 DEF semVars, SemInv
<1> QED BY <1>1, <1>2, <1>3, <1>4, <1>5, <1>6, <1>7, <1>8, <1>9, <1>10 DEF SemStep

LEMMA LoopSemInv == Spec => []SemInv
<1>1. Init => SemInv
  <2> SUFFICES ASSUME Init PROVE SemInv
    OBVIOUS
  <2>1. Sem!Owners = {} /\ Sem!Live = {}
    BY DEF Init, Sem!Init, Sem!Owners, Sem!Holding, Sem!Granted, Sem!User, Sem!Live
  <2>2. Cardinality(Sem!Owners) = 0
    BY <2>1, FS_EmptySet
  <2> QED BY <2>1, <2>2, LoopAssumption
          DEF Init, Sem!Init, SemInv
<1>2. TypeInv /\ SemInv /\ [Next]_vars => SemInv'
  BY StepOnSem, SemInvStep DEF TypeInv
<1> QED BY <1>1, <1>2, LoopTypeOK, PTL DEF Spec

-----------------------------------------------------------------------------
(* The results.                                                            *)

(* A step that ends no iteration, and touches nothing of the shells.       *)
LEMMA QuietKeeps ==
  ASSUME EndInv, TakenInv, TypeInv, TypeInv',
         UNCHANGED <<shell, interrupted, interrupts, left, taken, matched, taskVars>>,
         \A c \in Iteration : pc'[c] = "done" <=> pc[c] = "done"
  PROVE  EndInv' /\ TakenInv'
<1>1. EndInv'
  BY DEF EndInv, taskVars
<1>2. \A l \in Loop : Undone(l)' = Undone(l)
  BY DEF Undone, Of
<1>3. \A l \in Loop : Of(l)' = Of(l)
  BY DEF Of
<1>4. TakenInv'
  BY <1>2, <1>3 DEF TakenInv, taskVars
<1> QED BY <1>1, <1>4

LEMMA OfIsFinite ==
  ASSUME NEW l \in Loop
  PROVE  IsFiniteSet(Of(l)) /\ Cardinality(Of(l)) \in Nat
BY LoopAssumption, FS_Subset, FS_CardinalityType DEF Of

(* The task of an iteration ends: its result joins the queue of its loop.  *)
LEMMA EndKeeps ==
  ASSUME EndInv, TakenInv, TypeInv, TypeInv',
         NEW c \in Client, NEW outcome \in Result \ {"none"}, Ended(c, outcome),
         pc[c] # "done", pc' = [pc EXCEPT ![c] = "done"]
  PROVE  EndInv' /\ TakenInv'
<1>0. UNCHANGED <<shell, interrupted, interrupts, left, taken, matched, round>>
  BY DEF Ended, shellVars
<1>p. \A d \in Iteration : pc'[d] = "done" <=> d = c \/ pc[d] = "done"
  BY DEF TypeInv, Sem!TypeOK, Sem!User, Client
<1>1. CASE c \notin Iteration
  <2>1. UNCHANGED taskVars
    BY <1>1 DEF Ended
  <2>2. \A d \in Iteration : pc'[d] = "done" <=> pc[d] = "done"
    BY <1>1, <1>p
  <2> QED BY <1>0, <2>1, <2>2, QuietKeeps
<1>2. CASE c \in Iteration
  <2> DEFINE l == LoopOf[c]
  <2>1. l \in Loop /\ result[c] = "none"
    BY <1>2, LoopAssumption DEF EndInv
  <2> HIDE DEF l
  <2>2. /\ result' = [result EXCEPT ![c] = outcome]
        /\ finished' = [finished EXCEPT ![l] = Append(finished[l], c)]
    BY <1>2 DEF Ended, l
  <2>3. \A d \in Iteration : result'[d] = IF d = c THEN outcome ELSE result[d]
    BY <1>2, <2>2 DEF TypeInv
  <2>4. \A d \in Iteration : pc'[d] = "done" <=> result'[d] # "none"
    BY <1>p, <2>3 DEF EndInv
  <2>5. \A m \in Loop : c \notin taken[m]
    BY <2>1 DEF TakenInv
  <2>6. ASSUME NEW m \in Loop
        PROVE  /\ \A i \in DOMAIN finished'[m] :
                    /\ LoopOf[finished'[m][i]] = m
                    /\ result'[finished'[m][i]] # "none"
                    /\ finished'[m][i] \notin taken'[m]
               /\ \A i, j \in DOMAIN finished'[m] : finished'[m][i] = finished'[m][j] => i = j
    <3>0. finished[m] \in Seq(Iteration)
      BY DEF TypeInv
    <3>1. \A i \in DOMAIN finished[m] :
            finished[m][i] \in Iteration /\ finished[m][i] # c
      BY <2>1, <3>0 DEF EndInv
    <3>2. CASE m # l
      <4>1. finished'[m] = finished[m]
        BY <2>1, <2>2, <3>2 DEF TypeInv
      <4> QED BY <1>0, <2>3, <3>1, <4>1 DEF EndInv
    <3>3. CASE m = l
      <4>1. finished'[m] = Append(finished[m], c)
        BY <2>1, <2>2, <3>3 DEF TypeInv
      <4>2. /\ DOMAIN finished'[m] = 1 .. (Len(finished[m]) + 1)
            /\ DOMAIN finished[m] = 1 .. Len(finished[m])
            /\ Len(finished[m]) \in Nat
            /\ finished'[m][Len(finished[m]) + 1] = c
            /\ \A i \in DOMAIN finished[m] : finished'[m][i] = finished[m][i]
        BY <1>2, <3>0, <4>1
      <4>3. \A i \in DOMAIN finished'[m] : i \in DOMAIN finished[m] \/ i = Len(finished[m]) + 1
        BY <4>2
      <4>4. result'[c] # "none" /\ LoopOf[c] = m /\ c \notin taken'[m]
        BY <1>0, <1>2, <2>3, <2>5, <3>3 DEF l
      <4>5. \A i \in DOMAIN finished[m] :
              /\ LoopOf[finished[m][i]] = m
              /\ result'[finished[m][i]] # "none"
              /\ finished[m][i] \notin taken'[m]
        BY <1>0, <2>3, <3>1 DEF EndInv
      <4>6. \A i, j \in DOMAIN finished[m] : finished[m][i] = finished[m][j] => i = j
        BY DEF EndInv
      <4> QED BY <3>1, <4>2, <4>3, <4>4, <4>5, <4>6
    <3> QED BY <3>2, <3>3
  <2>7. EndInv'
    BY <2>4, <2>6 DEF EndInv
  <2>8. \A m \in Loop : \A d \in taken[m] : d \in Iteration /\ result'[d] = result[d]
    BY <2>3, <2>5 DEF TypeInv
  <2>9. ASSUME NEW m \in Loop
        PROVE  /\ \A d \in taken'[m] : LoopOf[d] = m /\ result'[d] \in {"ok", "failed", "match"}
               /\ matched'[m] => /\ shell'[m] # "collecting"
                                 /\ \E d \in Of(m) : taken'[m] = {d} /\ result'[d] = "match"
               /\ shell'[m] \in {"returned", "interrupted"} => Undone(m)' = {}
    <3>1. \A d \in taken'[m] : LoopOf[d] = m /\ result'[d] \in {"ok", "failed", "match"}
      BY <1>0, <2>8 DEF TakenInv
    <3>2. ASSUME matched'[m]
          PROVE  /\ shell'[m] # "collecting"
                 /\ \E d \in Of(m) : taken'[m] = {d} /\ result'[d] = "match"
      <4>1. shell[m] # "collecting" /\ \E d \in Of(m) : taken[m] = {d} /\ result[d] = "match"
        BY <1>0, <3>2 DEF TakenInv
      <4> QED BY <1>0, <2>8, <4>1
    <3>3. Undone(m)' \subseteq Undone(m)
      BY <1>p DEF Undone, Of
    <3> QED BY <1>0, <3>1, <3>2, <3>3 DEF TakenInv
  <2>10. ASSUME NEW m \in Loop, ~matched'[m], interrupts'[m] = 0
         PROVE  /\ shell'[m] = "collecting" =>
                     left'[m] + Cardinality(taken'[m]) = Cardinality(Of(m))
                /\ shell'[m] \in {"gathering", "returned"} => taken'[m] = Of(m)
    BY <1>0, <2>10 DEF TakenInv
  <2>11. \A m \in Loop : Of(m)' = Of(m)
    BY DEF Of
  <2>12. TakenInv'
    BY <1>0, <2>9, <2>10, <2>11 DEF TakenInv
  <2> QED BY <2>7, <2>12
<1> QED BY <1>1, <1>2

(* What is yielded was not taken before, and does not come again.          *)
LEMMA YieldedOnce ==
  ASSUME EndInv, TypeInv, NEW l \in Loop, NEW c \in Of(l), Yielded(l, c)
  PROVE  /\ c \notin taken[l]
         /\ \A m \in Loop :
              /\ \A i \in DOMAIN finished'[m] :
                   /\ LoopOf[finished'[m][i]] = m
                   /\ result[finished'[m][i]] # "none"
                   /\ finished'[m][i] \notin taken[m]
                   /\ m = l => finished'[m][i] # c
              /\ \A i, j \in DOMAIN finished'[m] : finished'[m][i] = finished'[m][j] => i = j
<1>1. finished[l] \in Seq(Iteration) /\ finished[l] # <<>> /\ c = Head(finished[l])
  BY DEF Yielded, TypeInv
<1>2. /\ 1 \in DOMAIN finished[l] /\ c = finished[l][1]
      /\ DOMAIN finished[l] = 1 .. Len(finished[l]) /\ Len(finished[l]) \in Nat
  BY <1>1
<1>3. c \notin taken[l]
  BY <1>2 DEF EndInv
<1>4. ASSUME NEW m \in Loop
      PROVE  /\ \A i \in DOMAIN finished'[m] :
                  /\ LoopOf[finished'[m][i]] = m
                  /\ result[finished'[m][i]] # "none"
                  /\ finished'[m][i] \notin taken[m]
                  /\ m = l => finished'[m][i] # c
             /\ \A i, j \in DOMAIN finished'[m] : finished'[m][i] = finished'[m][j] => i = j
  <2>1. CASE m # l
    <3>1. finished'[m] = finished[m]
      BY <2>1 DEF Yielded, TypeInv
    <3> QED BY <2>1, <3>1 DEF EndInv
  <2>2. CASE m = l
    <3>1. finished'[m] = Tail(finished[l])
      BY <2>2 DEF Yielded, TypeInv
    <3>2. /\ DOMAIN finished'[m] = 1 .. (Len(finished[l]) - 1)
          /\ \A i \in DOMAIN finished'[m] : finished'[m][i] = finished[l][i + 1]
      BY <1>1, <3>1
    <3>3. \A i \in DOMAIN finished'[m] :
            i \in Nat /\ i + 1 \in DOMAIN finished[l] /\ i + 1 # 1
      BY <1>2, <3>2
    <3>4. \A i, j \in DOMAIN finished[l] : finished[l][i] = finished[l][j] => i = j
      BY DEF EndInv
    <3>5. \A i \in DOMAIN finished[l] :
            /\ LoopOf[finished[l][i]] = l
            /\ result[finished[l][i]] # "none"
            /\ finished[l][i] \notin taken[l]
      BY DEF EndInv
    <3>6. \A i, j \in DOMAIN finished'[m] : finished'[m][i] = finished'[m][j] => i = j
      <4> SUFFICES ASSUME NEW i \in DOMAIN finished'[m], NEW j \in DOMAIN finished'[m],
                          finished'[m][i] = finished'[m][j]
                   PROVE  i = j
        OBVIOUS
      <4>1. i + 1 = j + 1
        BY <3>2, <3>3, <3>4
      <4> QED BY <3>3, <4>1
    <3>7. \A i \in DOMAIN finished'[m] : finished'[m][i] # c
      BY <1>2, <3>2, <3>3, <3>4
    <3> QED BY <2>2, <3>2, <3>3, <3>5, <3>6, <3>7
  <2> QED BY <2>1, <2>2
<1> QED BY <1>3, <1>4

(* A step of the shell of l: the tasks do not move, and what the other     *)
(* shells hold stays.                                                      *)
LEMMA ShellKeeps ==
  ASSUME EndInv, TakenInv, TypeInv, TypeInv', NEW l \in Loop,
         UNCHANGED <<pc, interrupted, interrupts, result>>,
         \A m \in Loop \ {l} : /\ shell'[m] = shell[m] /\ left'[m] = left[m]
                               /\ taken'[m] = taken[m] /\ matched'[m] = matched[m],
         \A m \in Loop :
           /\ \A i \in DOMAIN finished'[m] :
                /\ LoopOf[finished'[m][i]] = m
                /\ result[finished'[m][i]] # "none"
                /\ finished'[m][i] \notin taken'[m]
           /\ \A i, j \in DOMAIN finished'[m] : finished'[m][i] = finished'[m][j] => i = j,
         \A c \in taken'[l] : LoopOf[c] = l /\ result[c] \in {"ok", "failed", "match"},
         matched'[l] => /\ shell'[l] # "collecting"
                        /\ \E c \in Of(l) : taken'[l] = {c} /\ result[c] = "match",
         ~matched'[l] /\ interrupts[l] = 0 =>
           /\ shell'[l] = "collecting" =>
                left'[l] + Cardinality(taken'[l]) = Cardinality(Of(l))
           /\ shell'[l] \in {"gathering", "returned"} => taken'[l] = Of(l),
         shell'[l] \in {"returned", "interrupted"} => Undone(l) = {}
  PROVE  EndInv' /\ TakenInv'
<1>1. EndInv'
  BY DEF EndInv
<1>2. \A m \in Loop : Of(m)' = Of(m) /\ Undone(m)' = Undone(m)
  BY DEF Of, Undone
<1>3. ASSUME NEW m \in Loop \ {l}
      PROVE  /\ \A c \in taken'[m] : LoopOf[c] = m /\ result[c] \in {"ok", "failed", "match"}
             /\ matched'[m] => /\ shell'[m] # "collecting"
                               /\ \E c \in Of(m) : taken'[m] = {c} /\ result[c] = "match"
             /\ ~matched'[m] /\ interrupts[m] = 0 =>
                  /\ shell'[m] = "collecting" =>
                       left'[m] + Cardinality(taken'[m]) = Cardinality(Of(m))
                  /\ shell'[m] \in {"gathering", "returned"} => taken'[m] = Of(m)
             /\ shell'[m] \in {"returned", "interrupted"} => Undone(m) = {}
  BY <1>3 DEF TakenInv
<1>4. TakenInv'
  BY <1>2, <1>3 DEF TakenInv
<1> QED BY <1>1, <1>4

(* The shell takes a result: it waits for one less, and has one more.      *)
LEMMA TakeKeeps ==
  ASSUME EndInv, TakenInv, TypeInv, TypeInv', NEW l \in Loop, NEW c \in Of(l), TakeResult(l, c)
  PROVE  EndInv' /\ TakenInv'
<1>1. Yielded(l, c) /\ shell[l] = "collecting" /\ c \in Iteration /\ LoopOf[c] = l
  BY DEF TakeResult, Yielded, Of
<1>2. /\ UNCHANGED <<pc, interrupted, interrupts, result, matched>>
      /\ taken' = [taken EXCEPT ![l] = taken[l] \union {c}]
      /\ left' = [left EXCEPT ![l] = left[l] - 1]
      /\ shell' = [shell EXCEPT ![l] = IF left[l] = 1 THEN "gathering" ELSE shell[l]]
  BY DEF TakeResult, Yields, semVars
<1>3. /\ taken'[l] = taken[l] \union {c}
      /\ left'[l] = left[l] - 1
      /\ shell'[l] = IF left[l] = 1 THEN "gathering" ELSE "collecting"
      /\ matched'[l] = FALSE
      /\ \A m \in Loop \ {l} : /\ shell'[m] = shell[m] /\ left'[m] = left[m]
                               /\ taken'[m] = taken[m] /\ matched'[m] = matched[m]
  BY <1>1, <1>2 DEF TypeInv, TakenInv
<1>4. taken[l] \subseteq Of(l) /\ taken'[l] \subseteq Of(l)
  <2>1. taken[l] \subseteq Iteration /\ \A d \in taken[l] : LoopOf[d] = l
    BY DEF TakenInv, TypeInv
  <2> QED BY <1>1, <1>3, <2>1 DEF Of
<1>5. Cardinality(taken'[l]) = Cardinality(taken[l]) + 1
  <2>1. c \notin taken[l]
    BY <1>1, YieldedOnce
  <2>2. IsFiniteSet(taken[l])
    BY <1>4, OfIsFinite, FS_Subset
  <2> QED BY <1>3, <2>1, <2>2, FS_AddElement
<1>6. \A m \in Loop :
        /\ \A i \in DOMAIN finished'[m] :
             /\ LoopOf[finished'[m][i]] = m
             /\ result[finished'[m][i]] # "none"
             /\ finished'[m][i] \notin taken'[m]
        /\ \A i, j \in DOMAIN finished'[m] : finished'[m][i] = finished'[m][j] => i = j
  BY <1>1, <1>3, YieldedOnce
<1>7. \A d \in taken'[l] : LoopOf[d] = l /\ result[d] \in {"ok", "failed", "match"}
  BY <1>1, <1>3 DEF TakenInv, TakeResult
<1>8. ASSUME interrupts[l] = 0
      PROVE  /\ shell'[l] = "collecting" =>
                  left'[l] + Cardinality(taken'[l]) = Cardinality(Of(l))
             /\ shell'[l] \in {"gathering", "returned"} => taken'[l] = Of(l)
  <2>1. left[l] + Cardinality(taken[l]) = Cardinality(Of(l)) /\ left[l] \in Nat
    BY <1>1, <1>2, <1>3, <1>8 DEF TakenInv, TypeInv
  <2>2. Cardinality(taken[l]) \in Nat
    BY <1>4, OfIsFinite, FS_Subset, FS_CardinalityType
  <2>3. left'[l] + Cardinality(taken'[l]) = Cardinality(Of(l))
    BY <1>3, <1>5, <2>1, <2>2
  <2>4. ASSUME left[l] = 1
        PROVE  taken'[l] = Of(l)
    <3>1. Cardinality(taken'[l]) = Cardinality(Of(l))
      BY <1>5, <2>1, <2>2, <2>4
    <3> QED BY <1>4, <3>1, OfIsFinite, FS_Subset
  <2> QED BY <1>3, <2>3, <2>4
<1>9. ~matched'[l] /\ shell'[l] \notin {"returned", "interrupted"}
  BY <1>3
<1>10. ~matched'[l] /\ interrupts[l] = 0 =>
         /\ shell'[l] = "collecting" =>
              left'[l] + Cardinality(taken'[l]) = Cardinality(Of(l))
         /\ shell'[l] \in {"gathering", "returned"} => taken'[l] = Of(l)
  BY <1>8
<1>11. /\ UNCHANGED <<pc, interrupted, interrupts, result>>
       /\ \A m \in Loop \ {l} : /\ shell'[m] = shell[m] /\ left'[m] = left[m]
                                /\ taken'[m] = taken[m] /\ matched'[m] = matched[m]
  BY <1>2, <1>3
<1> HIDE DEF TakenInv, EndInv, TypeInv
<1> QED BY <1>6, <1>7, <1>9, <1>10, <1>11, ShellKeeps

(* The first result that matches is the only one.                          *)
LEMMA MatchKeeps ==
  ASSUME EndInv, TakenInv, TypeInv, TypeInv', NEW l \in Loop, NEW c \in Of(l), Match(l, c)
  PROVE  EndInv' /\ TakenInv'
<1>1. Yielded(l, c) /\ c \in Iteration /\ LoopOf[c] = l /\ result[c] = "match"
  BY DEF Match, Of
<1>2. UNCHANGED <<pc, interrupted, interrupts, result>>
  BY DEF Match, CancelTasks
<1>3. /\ taken'[l] = {c} /\ shell'[l] = "gathering" /\ matched'[l]
      /\ \A m \in Loop \ {l} : /\ shell'[m] = shell[m] /\ left'[m] = left[m]
                               /\ taken'[m] = taken[m] /\ matched'[m] = matched[m]
  BY DEF Match, TypeInv
<1>4. \A m \in Loop :
        /\ \A i \in DOMAIN finished'[m] :
             /\ LoopOf[finished'[m][i]] = m
             /\ result[finished'[m][i]] # "none"
             /\ finished'[m][i] \notin taken'[m]
        /\ \A i, j \in DOMAIN finished'[m] : finished'[m][i] = finished'[m][j] => i = j
  BY <1>1, <1>3, YieldedOnce
<1> QED BY <1>1, <1>2, <1>3, <1>4, ShellKeeps

(* The loop is left by an exception, and with it what was collected.       *)
LEMMA RaiseKeeps ==
  ASSUME EndInv, TakenInv, TypeInv, TypeInv', NEW l \in Loop, NEW c \in Of(l), ShellRaises(l, c)
  PROVE  EndInv' /\ TakenInv'
<1>1. Yielded(l, c) /\ shell[l] = "collecting"
  BY DEF ShellRaises, Yielded
<1>2. UNCHANGED <<pc, interrupted, interrupts, result, taken, matched>>
  BY DEF ShellRaises, semVars
<1>3. /\ shell'[l] = "raised" /\ matched'[l] = FALSE
      /\ \A m \in Loop \ {l} : shell'[m] = shell[m] /\ left'[m] = left[m]
  BY <1>1, <1>2 DEF ShellRaises, TypeInv, TakenInv
<1>4. \A m \in Loop :
        /\ \A i \in DOMAIN finished'[m] :
             /\ LoopOf[finished'[m][i]] = m
             /\ result[finished'[m][i]] # "none"
             /\ finished'[m][i] \notin taken'[m]
        /\ \A i, j \in DOMAIN finished'[m] : finished'[m][i] = finished'[m][j] => i = j
  BY <1>1, <1>2, YieldedOnce
<1>5. \A d \in taken'[l] : LoopOf[d] = l /\ result[d] \in {"ok", "failed", "match"}
  BY <1>2 DEF TakenInv
<1> QED BY <1>2, <1>3, <1>4, <1>5, ShellKeeps

(* A cancellation that the shell passes over was counted before.           *)
LEMMA IgnoreKeeps ==
  ASSUME EndInv, TakenInv, TypeInv, TypeInv', NEW l \in Loop, IgnoreInterrupt(l)
  PROVE  EndInv' /\ TakenInv'
<1>1. UNCHANGED <<pc, interrupts, taken, matched, result, finished>>
  BY DEF IgnoreInterrupt, semVars, taskVars
<1>2. interrupted' \subseteq interrupted /\ interrupts[l] # 0 /\ matched[l] = FALSE
  BY DEF IgnoreInterrupt, TakenInv, TypeInv
<1>3. shell'[l] \in {"collecting", "gathering"}
  BY DEF IgnoreInterrupt, Yields, TypeInv
<1>4. \A m \in Loop \ {l} : shell'[m] = shell[m] /\ left'[m] = left[m]
  BY DEF IgnoreInterrupt, Yields, TypeInv
<1>5. \A m \in Loop : Of(m)' = Of(m) /\ Undone(m)' = Undone(m)
  BY <1>1 DEF Of, Undone
<1>6. EndInv'
  BY <1>1 DEF EndInv
<1>7. TakenInv'
  BY <1>1, <1>2, <1>3, <1>4, <1>5 DEF TakenInv
<1> QED BY <1>6, <1>7

(* The task of a node is cancelled: of that loop nothing is promised.      *)
LEMMA InterruptKeeps ==
  ASSUME EndInv, TakenInv, TypeInv, TypeInv', NEW x \in Loop \union Serial,
         UNCHANGED <<pc, shell, left, taken, matched, taskVars>>,
         interrupts' = [interrupts EXCEPT ![x] = @ + 1],
         interrupted' \subseteq interrupted \union {x}
  PROVE  EndInv' /\ TakenInv'
<1>1. /\ interrupts'[x] # 0
      /\ \A y \in Loop : interrupts'[y] # 0 <=> interrupts[y] # 0 \/ y = x
  BY DEF TypeInv
<1>2. \A m \in Loop : Of(m)' = Of(m) /\ Undone(m)' = Undone(m)
  BY DEF Of, Undone
<1>3. EndInv'
  BY DEF EndInv, taskVars
<1>4. \A m \in interrupted' : interrupts'[m] # 0
  BY <1>1 DEF TakenInv, TypeInv
<1>5. TakenInv'
  BY <1>1, <1>2, <1>4 DEF TakenInv, taskVars
<1> QED BY <1>3, <1>5

(* The shell returns once nothing of its loop is left.                     *)
LEMMA GatherKeeps ==
  ASSUME EndInv, TakenInv, TypeInv, TypeInv', NEW l \in Loop, GatherEnds(l)
  PROVE  EndInv' /\ TakenInv'
<1>1. UNCHANGED <<pc, interrupted, interrupts, left, taken, matched, result, finished>>
  BY DEF GatherEnds, semVars, taskVars
<1>2. /\ shell[l] = "gathering" /\ Undone(l) = {}
      /\ shell'[l] \in {"interrupted", "returned"}
      /\ \A m \in Loop \ {l} : shell'[m] = shell[m]
  BY DEF GatherEnds, TypeInv
<1>3. EndInv'
  BY <1>1 DEF EndInv
<1>4. \A m \in Loop : Of(m)' = Of(m) /\ Undone(m)' = Undone(m)
  BY <1>1 DEF Of, Undone
<1>5. TakenInv'
  BY <1>1, <1>2, <1>4 DEF TakenInv
<1> QED BY <1>3, <1>5

LEMMA LoopCollects == Spec => [](EndInv /\ TakenInv)
<1>1. Init => EndInv /\ TakenInv
  <2> SUFFICES ASSUME Init PROVE EndInv /\ TakenInv
    OBVIOUS
  <2>1. \A c \in Iteration : pc[c] = "idle" /\ result[c] = "none"
    BY DEF Init, Sem!Init, Sem!User, Client
  <2>2. \A l \in Loop :
          /\ finished[l] = <<>> /\ taken[l] = {} /\ matched[l] = FALSE
          /\ shell[l] = "collecting" /\ left[l] = Cardinality(Of(l))
    BY DEF Init
  <2>3. interrupted = {}
    BY DEF Init
  <2>4. \A l \in Loop : left[l] + Cardinality(taken[l]) = Cardinality(Of(l))
    <3> TAKE l \in Loop
    <3>1. Cardinality(taken[l]) = 0 /\ Cardinality(Of(l)) \in Nat
      BY <2>2, OfIsFinite, FS_EmptySet
    <3> QED BY <2>2, <3>1
  <2>5. EndInv
    BY <2>1, <2>2 DEF EndInv
  <2>6. TakenInv
    BY <2>2, <2>3, <2>4 DEF TakenInv
  <2> QED BY <2>5, <2>6
<1>2. TypeInv /\ TypeInv' /\ EndInv /\ TakenInv /\ [Next]_vars => EndInv' /\ TakenInv'
  <2> SUFFICES ASSUME TypeInv, TypeInv', EndInv, TakenInv, [Next]_vars
               PROVE  EndInv' /\ TakenInv'
    OBVIOUS
  <2> DEFINE Quiet == /\ UNCHANGED <<shell, interrupted, interrupts, left, taken, matched,
                                     taskVars>>
                      /\ \A c \in Iteration : pc'[c] = "done" <=> pc[c] = "done"
  <2>a. Quiet => EndInv' /\ TakenInv'
    BY QuietKeeps
  <2>p. pc \in [User -> Sem!Stage] /\ Iteration \subseteq User /\ Client \subseteq User
    BY DEF TypeInv, Sem!TypeOK, Sem!User, User, Client
  <2>1. ASSUME NEW c \in Client, TaskSteps(c) PROVE EndInv' /\ TakenInv'
    <3>1. CASE Acquires(c)
      <4>1. pc[c] # "done" /\ \E stage \in {"holding", "waiting"} : pc' = [pc EXCEPT ![c] = stage]
        BY <3>1 DEF Acquires, Sem!AcquireAtOnce, Sem!AcquireBlocks, Sem!Resume
      <4>2. \A d \in Iteration : pc'[d] = "done" <=> pc[d] = "done"
        BY <2>p, <4>1
      <4>3. Quiet
        BY <3>1, <4>2 DEF Acquires, shellVars
      <4> HIDE DEF Quiet
      <4> QED BY <2>a, <4>3
    <3>2. CASE ~Acquires(c)
      <4>1. pc[c] # "done" /\ pc' = [pc EXCEPT ![c] = "done"]
        BY <2>1, <3>2 DEF TaskSteps, ExecuteEnds, ExecuteCancelled, AcquireCancelled, NeverRan,
                          Sem!Release, Sem!HandleCancel
      <4>2. \A outcome \in Outcomes(c) : outcome \in Result \ {"none"}
        BY DEF Outcomes, Result
      <4>3. "cancelled" \in Result \ {"none"}
        BY DEF Result
      <4>4. \E outcome \in Result \ {"none"} : Ended(c, outcome)
        BY <2>1, <3>2, <4>2, <4>3
           DEF TaskSteps, ExecuteEnds, ExecuteCancelled, AcquireCancelled, NeverRan
      <4> QED BY <4>1, <4>4, EndKeeps
    <3> QED BY <3>1, <3>2
  <2>2. ASSUME NEW s \in Serial, SerialGoesOn(s) PROVE EndInv' /\ TakenInv'
    <3>1. pc' = pc \/ pc' = [pc EXCEPT ![s] = "waiting"]
      BY <2>2 DEF SerialGoesOn
    <3>2. \A d \in Iteration : d # s
      BY LoopAssumption
    <3>3. \A d \in Iteration : pc'[d] = pc[d]
      BY <2>p, <3>1, <3>2
    <3>4. Quiet
      BY <2>2, <3>3 DEF SerialGoesOn, shellVars
    <3> HIDE DEF Quiet
    <3> QED BY <2>a, <3>4
  <2>3. ASSUME NEW s \in Serial, InterruptSerial(s) PROVE EndInv' /\ TakenInv'
    <3>1. /\ UNCHANGED <<pc, shell, left, taken, matched, taskVars>>
          /\ interrupts' = [interrupts EXCEPT ![s] = @ + 1]
          /\ interrupted' \subseteq interrupted \union {s}
      BY <2>3 DEF InterruptSerial, CancelTasks
    <3>2. s \in Loop \union Serial
      OBVIOUS
    <3> QED BY <3>1, <3>2, InterruptKeeps
  <2>4. ASSUME NEW l \in Loop, ShellSteps(l) PROVE EndInv' /\ TakenInv'
    BY <2>4, IgnoreKeeps, GatherKeeps, TakeKeeps, MatchKeeps, RaiseKeeps DEF ShellSteps
  <2>5. ASSUME NEW l \in Loop, Interrupt(l) PROVE EndInv' /\ TakenInv'
    <3>1. UNCHANGED pc
      BY <2>5 DEF Interrupt, CancelTasks, semVars
    <3>2. /\ UNCHANGED <<shell, left, taken, matched, taskVars>>
          /\ interrupts' = [interrupts EXCEPT ![l] = @ + 1]
          /\ interrupted' \subseteq interrupted \union {l}
      BY <2>5 DEF Interrupt
    <3>3. l \in Loop \union Serial
      OBVIOUS
    <3> QED BY <3>1, <3>2, <3>3, InterruptKeeps
  <2>6. ASSUME NEW s \in Scheduler, NodeStarts(s) \/ NodeEnds(s) PROVE EndInv' /\ TakenInv'
    <3>1. \A d \in Iteration : d # s
      BY LoopAssumption
    <3>2. \E stage \in Sem!Stage : pc' = [pc EXCEPT ![s] = stage]
      BY <2>6 DEF NodeStarts, NodeEnds, Sem!AcquireNowait, Sem!Release, Sem!Stage
    <3>3. \A d \in Iteration : pc'[d] = pc[d]
      BY <2>p, <3>1, <3>2
    <3>4. Quiet
      BY <2>6, <3>3 DEF NodeStarts, NodeEnds, shellVars
    <3> HIDE DEF Quiet
    <3> QED BY <2>a, <3>4
  <2>7. CASE UNCHANGED vars
    <3>1. Quiet
      BY <2>7 DEF vars, taskVars
    <3> HIDE DEF Quiet
    <3> QED BY <2>a, <3>1
  <2> HIDE DEF Quiet
  <2> QED BY <2>1, <2>2, <2>3, <2>4, <2>5, <2>6, <2>7 DEF Next
<1> QED BY <1>1, <1>2, LoopTypeOK, PTL DEF Spec

(* A loop that has returned, or was interrupted, has left nothing behind   *)
(* that still runs or waits for a permit; and whatever is cancelled, there *)
(* are no more nodes in execution than permits (runner.py:636-646, 671).   *)
THEOREM LoopNothingLeftBehind == Spec => []NothingLeftBehind
<1>1. TypeInv /\ SemInv /\ EndInv /\ TakenInv => NothingLeftBehind
  <2> SUFFICES ASSUME TypeInv, SemInv, TakenInv PROVE NothingLeftBehind
    OBVIOUS
  <2> DEFINE Executing == {u \in Client \union Scheduler : pc[u] = "holding"}
  <2>1. Executing \subseteq Sem!Owners
    BY DEF Sem!Owners, Sem!Holding, Sem!User
  <2>2. /\ Cardinality(Executing) <= Cardinality(Sem!Owners)
        /\ Cardinality(Executing) \in Nat /\ Cardinality(Sem!Owners) \in Nat
    BY <2>1, FiniteOwners, FS_Subset, FS_CardinalityType
  <2> HIDE DEF Executing
  <2>3. Cardinality(Executing) <= Permits
    BY <2>2, LoopAssumption DEF SemInv, TypeInv, Sem!TypeOK
  <2>4. \A l \in Loop : shell[l] \in {"returned", "interrupted"} => Undone(l) = {}
    BY DEF TakenInv
  <2> QED BY <2>3, <2>4 DEF NothingLeftBehind, Executing
<1> QED BY <1>1, LoopTypeOK, LoopSemInv, LoopCollects, PTL

(* A loop that was left alone returns the one result that satisfied its    *)
(* condition, or every result; and whatever happened, only results of      *)
(* iterations that ended by themselves (runner.py:651-671).                *)
THEOREM LoopResultsComplete == Spec => []ResultsComplete
<1>1. TypeInv /\ EndInv /\ TakenInv => ResultsComplete
  <2> SUFFICES ASSUME TypeInv, TakenInv PROVE ResultsComplete
    OBVIOUS
  <2> QED BY DEF ResultsComplete, TakenInv
<1> QED BY <1>1, LoopTypeOK, LoopCollects, PTL

(* No lost wakeup and no lost permit among loops, serial loops and         *)
(* dispatchers: a permit never lies on the table while an iteration waits  *)
(* for one, and as long as nobody was cancelled the owners and the permits *)
(* on the table are as many as there are (resources.py:30-58).             *)
THEOREM LoopPermitsConserved ==
  Spec => [](/\ Sem!Live # {} => count = 0
             /\ cancelled = {} => count + Cardinality(Sem!Owners) = Permits)
BY LoopSemInv, PTL DEF SemInv

-----------------------------------------------------------------------------
(* The loops use the semaphore as a pool of permits.                       *)

(* The lemmas on the semaphore, for the users of this module.              *)
SemProofs == INSTANCE ResourceSemaphoreProofs

LEMMA SemaphoreAssumptions ==
  /\ MaxCancels \in Nat
  /\ SemProofs!IsFiniteSet(Client) /\ SemProofs!IsFiniteSet(Scheduler)
  /\ Client \intersect Scheduler = {}
  /\ Permits \in Nat \ {0}
<1>1. IsFiniteSet(Client) /\ IsFiniteSet(Scheduler)
  BY LoopAssumption, FS_Union DEF Client
<1>2. MaxCancels \in Nat
  BY <1>1, FS_CardinalityType DEF MaxCancels
<1>3. SemProofs!IsFiniteSet(Client) /\ SemProofs!IsFiniteSet(Scheduler)
  BY <1>1 DEF IsFiniteSet, SemProofs!IsFiniteSet
<1> QED BY <1>2, <1>3, LoopAssumption DEF Client

LEMMA SameSemaphore ==
  /\ Sem!User = SemProofs!User /\ Sem!Live = SemProofs!Live
  /\ Sem!TypeOK = SemProofs!TypeOK
  /\ Sem!NoIdlePermit = SemProofs!NoIdlePermit
BY DEF Sem!User, SemProofs!User, Sem!Live, SemProofs!Live, Sem!TypeOK, SemProofs!TypeOK,
       Sem!FutureState, SemProofs!FutureState, Sem!Stage, SemProofs!Stage,
       Sem!NoIdlePermit, SemProofs!NoIdlePermit

LEMMA SamePool ==
  ASSUME SemProofs!PoolMove
  PROVE  SemProofs!LineInv' /\ [Sem!Pool!Next]_(Sem!Pool!vars)
<1>1. /\ Sem!User = SemProofs!User
      /\ Sem!Holding = SemProofs!Holding /\ Sem!Holding' = SemProofs!Holding'
      /\ Sem!Granted = SemProofs!Granted /\ Sem!Granted' = SemProofs!Granted'
      /\ Sem!Waiting = SemProofs!Waiting /\ Sem!Waiting' = SemProofs!Waiting'
      /\ Sem!Leaving = SemProofs!Leaving /\ Sem!Leaving' = SemProofs!Leaving'
  BY DEF Sem!User, SemProofs!User, Sem!Holding, SemProofs!Holding, Sem!Granted,
         SemProofs!Granted, Sem!Waiting, SemProofs!Waiting, Sem!Leaving, SemProofs!Leaving
<1>2. Sem!Ahead = SemProofs!Ahead /\ Sem!Ahead' = SemProofs!Ahead'
  BY <1>1 DEF Sem!Ahead, SemProofs!Ahead
<1>3. ASSUME NEW u \in Sem!User, NEW v \in Sem!User
      PROVE  /\ SemProofs!Pool!Outside(u) = Sem!Pool!Outside(u)
             /\ SemProofs!Pool!First(v) = Sem!Pool!First(v)
  BY <1>1, <1>2 DEF Sem!Pool!Outside, SemProofs!Pool!Outside, Sem!Pool!First,
                    SemProofs!Pool!First
<1>4. \A users : SemProofs!Pool!Among(users) = Sem!Pool!Among(users)
  BY <1>2 DEF Sem!Pool!Among, SemProofs!Pool!Among
<1>5. ASSUME NEW u \in Sem!User
      PROVE  /\ SemProofs!Pool!Take(u) => Sem!Pool!Take(u)
             /\ SemProofs!Pool!Queue(u) => Sem!Pool!Queue(u)
  BY <1>1, <1>2, <1>3
     DEF Sem!Pool!Take, SemProofs!Pool!Take, Sem!Pool!Queue, SemProofs!Pool!Queue
<1>6. ASSUME NEW u \in Sem!User
      PROVE  /\ SemProofs!Pool!Enter(u) => Sem!Pool!Enter(u)
             /\ SemProofs!Pool!Return(u) => Sem!Pool!Return(u)
             /\ SemProofs!Pool!Leave(u) => Sem!Pool!Leave(u)
  BY <1>1, <1>2
     DEF Sem!Pool!Enter, SemProofs!Pool!Enter, Sem!Pool!Return, SemProofs!Pool!Return,
         Sem!Pool!Leave, SemProofs!Pool!Leave
<1>7. ASSUME NEW u \in Sem!User, NEW v \in Sem!User
      PROVE  /\ SemProofs!Pool!HandOver(u, v) => Sem!Pool!HandOver(u, v)
             /\ SemProofs!Pool!Renew(u, v) => Sem!Pool!Renew(u, v)
  BY <1>1, <1>2, <1>3, <1>4
     DEF Sem!Pool!HandOver, SemProofs!Pool!HandOver, Sem!Pool!Renew, SemProofs!Pool!Renew
<1>8. ASSUME NEW users \in SUBSET Sem!User
      PROVE  SemProofs!Pool!Cancel(users) => Sem!Pool!Cancel(users)
  BY <1>1, <1>2, <1>4 DEF Sem!Pool!Cancel, SemProofs!Pool!Cancel
<1>9. SemProofs!Pool!Next => Sem!Pool!Next
  BY <1>1, <1>5, <1>6, <1>7, <1>8 DEF Sem!Pool!Next, SemProofs!Pool!Next
<1>10. UNCHANGED SemProofs!Pool!vars => UNCHANGED Sem!Pool!vars
  BY <1>1, <1>2 DEF Sem!Pool!vars, SemProofs!Pool!vars
<1> QED BY <1>9, <1>10 DEF SemProofs!PoolMove


LEMMA SameSteps ==
  /\ \A u : Sem!AcquireNowait(u) <=> SemProofs!AcquireNowait(u)
  /\ \A c : Sem!AcquireAtOnce(c) <=> SemProofs!AcquireAtOnce(c)
  /\ \A c : Sem!AcquireBlocks(c) <=> SemProofs!AcquireBlocks(c)
  /\ \A c : Sem!Resume(c) <=> SemProofs!Resume(c)
  /\ \A c : Sem!HandleCancel(c) <=> SemProofs!HandleCancel(c)
  /\ \A u : Sem!Release(u) <=> SemProofs!Release(u)
<1>1. \A n : Sem!WakeupNext(n) <=> SemProofs!WakeupNext(n)
  BY SameSemaphore DEF Sem!WakeupNext, SemProofs!WakeupNext
<1>2. /\ \A u : Sem!AcquireNowait(u) <=> SemProofs!AcquireNowait(u)
      /\ \A c : Sem!AcquireAtOnce(c) <=> SemProofs!AcquireAtOnce(c)
      /\ \A c : Sem!AcquireBlocks(c) <=> SemProofs!AcquireBlocks(c)
      /\ \A c : Sem!Resume(c) <=> SemProofs!Resume(c)
  BY DEF Sem!AcquireNowait, SemProofs!AcquireNowait, Sem!AcquireAtOnce,
         SemProofs!AcquireAtOnce, Sem!AcquireBlocks, SemProofs!AcquireBlocks,
         Sem!Resume, SemProofs!Resume
<1>3. /\ \A c : Sem!HandleCancel(c) <=> SemProofs!HandleCancel(c)
      /\ \A u : Sem!Release(u) <=> SemProofs!Release(u)
  BY <1>1 DEF Sem!HandleCancel, SemProofs!HandleCancel, Sem!Release, SemProofs!Release
<1> QED BY <1>2, <1>3

(* A serial loop that goes on takes its permit again, or hands it to the   *)
(* first in the queue and joins it at the end.                             *)
LEMMA RenewMoves ==
  ASSUME Sem!TypeOK, SemProofs!LineInv, NEW s \in Serial, SerialGoesOn(s)
  PROVE  SemProofs!PoolMove
<1> USE DEF Sem!TypeOK, Sem!User
<1>0. /\ SemProofs!TypeOK /\ s \in Client /\ pc[s] = "holding" /\ s \notin cancelled
      /\ fut[s] \notin {"pending", "cancelled"} /\ UNCHANGED <<count, cancelled>>
  BY SameSemaphore DEF SerialGoesOn, Client, SemProofs!LineInv
<1>1. CASE Sem!Live = {} /\ waiters' = <<>> /\ UNCHANGED <<count, fut, pc>>
  <2>1. SemProofs!Waiting = {}
    BY <1>0, <1>1, SameSemaphore, SemaphoreAssumptions, SemProofs!NobodyWaits
  <2>2. /\ SemProofs!Holding' = SemProofs!Holding /\ SemProofs!Granted' = SemProofs!Granted
        /\ SemProofs!Leaving' = SemProofs!Leaving /\ SemProofs!Waiting' = SemProofs!Waiting
    BY <1>0, <1>1
       DEF SemProofs!Holding, SemProofs!Granted, SemProofs!Leaving, SemProofs!Waiting
  <2>3. SemProofs!Ahead' = SemProofs!Ahead
    BY <2>1, <2>2 DEF SemProofs!Ahead
  <2>4. \A c \in Client : fut'[c] # "pending"
    BY <2>1, <2>2 DEF SemProofs!Waiting
  <2>5. SemProofs!LineInv'
    BY <1>0, <1>1, <2>4 DEF SemProofs!LineInv
  <2> QED BY <1>1, <2>2, <2>3, <2>5 DEF SemProofs!PoolMove, SemProofs!Pool!vars
<1>2. ASSUME count = 0, NEW i \in Sem!Live, \A j \in Sem!Live : i <= j,
             waiters' = Append(SubSeq(waiters, i + 1, Len(waiters)), s),
             fut' = [fut EXCEPT ![waiters[i]] = "granted", ![s] = "pending"],
             pc' = [pc EXCEPT ![s] = "waiting"]
      PROVE  SemProofs!PoolMove
  <2> DEFINE v == waiters[i]
             t == SubSeq(waiters, i + 1, Len(waiters))
             rest == SemProofs!Waiting \ {v}
  <2>1. SemProofs!HeadServed(v, t)
    BY <1>0, <1>2, SameSemaphore, SemaphoreAssumptions, SemProofs!FirstLive
  <2>2. fut[v] = "pending" /\ waiters' = Append(t, s)
    BY <1>2 DEF Sem!Live
  <2>3. fut' = [fut EXCEPT ![v] = "granted", ![s] = "pending"]
    BY <1>2
  <2> HIDE DEF v, t
  <2>4. /\ v \in Client
        /\ SemProofs!Pool!First(v)
        /\ t \in Seq(Client)
        /\ \A j, k \in DOMAIN t : t[j] = t[k] => j = k
        /\ \A k \in DOMAIN t : t[k] # v /\ fut[t[k]] \in {"pending", "cancelled"}
        /\ \A x \in rest : SemProofs!InLine(t, x)
        /\ \A x, y \in rest : SemProofs!Behind(t, x, y) <=> <<x, y>> \in SemProofs!Ahead
    BY <2>1 DEF SemProofs!HeadServed
  <2>5. ~SemProofs!InLine(t, s) /\ ~SemProofs!InLine(t, v) /\ v # s
    BY <1>0, <2>2, <2>4 DEF SemProofs!InLine
  <2>6. waiters' \in Seq(Client) /\ SemProofs!Lengthens(waiters', t, s)
    BY <1>0, <2>2, <2>4, <2>5, SemaphoreAssumptions, SemProofs!LineWithLast
  <2>7. /\ \A j, k \in DOMAIN waiters' : waiters'[j] = waiters'[k] => j = k
        /\ \A x : SemProofs!InLine(waiters', x) <=> SemProofs!InLine(t, x) \/ x = s
        /\ \A x, y : SemProofs!Behind(waiters', x, y)
                       <=> SemProofs!Behind(t, x, y) \/ (SemProofs!InLine(t, x) /\ y = s)
    BY <2>6 DEF SemProofs!Lengthens
  <2>8. pc[v] = "waiting" /\ s \notin SemProofs!Waiting
    BY <1>0, <2>2, <2>4 DEF SemProofs!LineInv, SemProofs!Waiting
  <2>9. SemProofs!Waiting' = rest \union {s}
    BY <1>0, <2>3, <2>4, <2>5 DEF SemProofs!Waiting
  <2>10. /\ SemProofs!Holding' = SemProofs!Holding \ {s}
         /\ SemProofs!Leaving' = SemProofs!Leaving
    BY <1>0, <1>2 DEF SemProofs!Holding, SemProofs!Leaving, SemProofs!User
  <2>11. SemProofs!Granted' = SemProofs!Granted \union {v}
    BY <1>0, <1>2, <2>3, <2>4, <2>5, <2>8 DEF SemProofs!Granted
  <2>12. SemProofs!Ahead' = SemProofs!Pool!Among(rest) \union (rest \X {s})
    <3>1. SemProofs!Ahead' = {p \in (rest \union {s}) \X (rest \union {s}) :
                                SemProofs!Behind(waiters', p[1], p[2])}
      BY <2>9 DEF SemProofs!Ahead, SemProofs!Behind
    <3>2. SemProofs!Pool!Among(rest) = SemProofs!Ahead \intersect (rest \X rest)
      BY DEF SemProofs!Pool!Among
    <3>3. s \notin rest
      BY <2>8
    <3>4. \A x, y : SemProofs!Behind(t, x, y) =>
                      SemProofs!InLine(t, x) /\ SemProofs!InLine(t, y)
      BY DEF SemProofs!Behind, SemProofs!InLine
    <3> HIDE DEF rest
    <3>5. ASSUME NEW x \in rest \union {s}, NEW y \in rest \union {s}
          PROVE  SemProofs!Behind(waiters', x, y)
                   <=> <<x, y>> \in (SemProofs!Ahead \intersect (rest \X rest)) \union (rest \X {s})
      <4>1. CASE x \in rest /\ y \in rest
        BY <2>4, <2>7, <3>3, <4>1
      <4>2. CASE y = s
        BY <2>4, <2>5, <2>7, <3>3, <3>4, <4>2
      <4>3. CASE x = s
        BY <2>5, <2>7, <3>3, <3>4, <4>3
      <4> QED BY <4>1, <4>2, <4>3
    <3> QED BY <3>1, <3>2, <3>5
  <2>13. SemProofs!Pool!Renew(s, v)
    <3>1. s \in SemProofs!Holding
      BY <1>0 DEF SemProofs!Holding, SemProofs!User
    <3> QED BY <1>0, <2>4, <2>9, <2>10, <2>11, <2>12, <3>1 DEF SemProofs!Pool!Renew
  <2>14. SemProofs!LineInv'
    <3>1. \A c \in Client :
            /\ fut'[c] = "pending" => /\ pc'[c] = "waiting" /\ c \notin cancelled'
                                      /\ SemProofs!InLine(waiters', c)
            /\ fut'[c] = "cancelled" => c \in cancelled'
            /\ pc'[c] = "waiting" => fut'[c] # "none"
      BY <1>0, <1>2, <2>3, <2>4, <2>5, <2>7 DEF SemProofs!LineInv, SemProofs!Waiting
    <3>2. ASSUME NEW c \in Client, SemProofs!InLine(waiters', c)
          PROVE  fut'[c] \in {"pending", "cancelled"}
      <4>1. CASE c = s
        BY <1>0, <2>3, <4>1
      <4>2. CASE c # s
        <5>1. SemProofs!InLine(t, c)
          BY <2>7, <3>2, <4>2
        <5>2. fut[c] \in {"pending", "cancelled"} /\ c # v
          BY <2>4, <5>1 DEF SemProofs!InLine
        <5> QED BY <2>3, <4>2, <5>2
      <4> QED BY <4>1, <4>2
    <3>3. \A k \in DOMAIN waiters' :
            waiters'[k] \in Client /\ SemProofs!InLine(waiters', waiters'[k])
      BY <2>6 DEF SemProofs!InLine
    <3> QED BY <2>7, <3>1, <3>2, <3>3 DEF SemProofs!LineInv, SemProofs!InLine
  <2>15. s \in SemProofs!User /\ v \in SemProofs!User
    BY <1>0, <2>4 DEF SemProofs!User
  <2> QED BY <2>13, <2>14, <2>15 DEF SemProofs!PoolMove, SemProofs!Pool!Next
<1> QED BY <1>1, <1>2 DEF SerialGoesOn

(* A task that was cancelled before it ran has nothing to do with the pool. *)
LEMMA NeverRanMoves ==
  ASSUME Sem!TypeOK, SemProofs!LineInv, NEW c \in Client, NeverRan(c)
  PROVE  SemProofs!PoolMove
<1> USE DEF Sem!TypeOK, Sem!User
<1>1. /\ pc[c] = "idle" /\ pc' = [pc EXCEPT ![c] = "done"]
      /\ UNCHANGED <<count, waiters, fut, cancelled>>
  BY DEF NeverRan
<1>2. /\ SemProofs!Holding' = SemProofs!Holding /\ SemProofs!Granted' = SemProofs!Granted
      /\ SemProofs!Leaving' = SemProofs!Leaving /\ SemProofs!Waiting' = SemProofs!Waiting
  BY <1>1 DEF SemProofs!Holding, SemProofs!Granted, SemProofs!Leaving, SemProofs!Waiting,
              SemProofs!User
<1>3. SemProofs!Ahead' = SemProofs!Ahead
  BY <1>1 DEF SemProofs!Ahead, SemProofs!Waiting
<1>4. SemProofs!LineInv'
  BY <1>1 DEF SemProofs!LineInv
<1> QED BY <1>1, <1>2, <1>3, <1>4 DEF SemProofs!PoolMove, SemProofs!Pool!vars

LEMMA PoolSteps ==
  ASSUME Sem!TypeOK, SemInv, SemProofs!LineInv, SemStep
  PROVE  SemProofs!PoolMove
<1>0. SemProofs!TypeOK /\ SemProofs!NoIdlePermit /\ User = SemProofs!User
  BY SameSemaphore DEF SemInv, Sem!NoIdlePermit, User, SemProofs!User
<1>1. ASSUME NEW s \in Scheduler, Sem!AcquireNowait(s) PROVE SemProofs!PoolMove
  BY <1>0, <1>1, SemaphoreAssumptions, SemProofs!TakeMoves DEF Sem!AcquireNowait, SemProofs!User
<1>2. ASSUME NEW c \in Client, Sem!AcquireAtOnce(c) PROVE SemProofs!PoolMove
  BY <1>0, <1>2, SemaphoreAssumptions, SemProofs!TakeMoves DEF Sem!AcquireAtOnce, SemProofs!User
<1>3. ASSUME NEW c \in Client \ cancelled, Sem!AcquireBlocks(c) PROVE SemProofs!PoolMove
  BY <1>0, <1>3, SameSteps, SemaphoreAssumptions, SemProofs!QueueMoves
<1>4. ASSUME NEW c \in Client, Sem!Resume(c) PROVE SemProofs!PoolMove
  BY <1>0, <1>4, SameSteps, SemaphoreAssumptions, SemProofs!ResumeMoves
<1>5. ASSUME NEW c \in Client, Sem!HandleCancel(c) PROVE SemProofs!PoolMove
  BY <1>0, <1>5, SameSteps, SemaphoreAssumptions, SemProofs!LeaveMoves
<1>6. ASSUME NEW u \in User, Sem!Release(u) PROVE SemProofs!PoolMove
  BY <1>0, <1>6, SameSteps, SemaphoreAssumptions, SemProofs!ReleaseMoves
<1>7. ASSUME NEW tasks \in SUBSET Client, CancelTasks(tasks) PROVE SemProofs!PoolMove
  BY <1>0, <1>7, SemaphoreAssumptions, SemProofs!CancelMoves DEF CancelTasks
<1>8. ASSUME NEW s \in Serial, SerialGoesOn(s) PROVE SemProofs!PoolMove
  BY <1>8, RenewMoves
<1>9. ASSUME NEW c \in Client, NeverRan(c) PROVE SemProofs!PoolMove
  BY <1>9, NeverRanMoves
<1>10. CASE UNCHANGED semVars
  BY <1>10, SemaphoreAssumptions, SemProofs!StillMoves DEF semVars
<1> QED BY <1>1, <1>2, <1>3, <1>4, <1>5, <1>6, <1>7, <1>8, <1>9, <1>10 DEF SemStep

(* Refinement: iterations, serial loops and dispatcher slots use the       *)
(* resource as a pool of permits handed out first come, first served,      *)
(* whatever is cancelled (runner.py:620-671, 721-753; resources.py:21-58). *)
THEOREM LoopImplementsPool == Spec => PoolContract
<1>1. Init => Sem!Pool!Init /\ SemProofs!LineInv
  <2> SUFFICES ASSUME Init PROVE Sem!Pool!Init /\ SemProofs!LineInv
    OBVIOUS
  <2>1. /\ Sem!Holding = {} /\ Sem!Granted = {} /\ Sem!Leaving = {} /\ Sem!Waiting = {}
        /\ Sem!Ahead = {}
    BY DEF Init, Sem!Init, Sem!Holding, Sem!Granted, Sem!Leaving, Sem!Waiting, Sem!Ahead, Sem!User
  <2>2. SemProofs!LineInv
    BY DEF Init, Sem!Init, SemProofs!LineInv, Sem!User
  <2> QED BY <2>1, <2>2 DEF Init, Sem!Init, Sem!Pool!Init
<1>2. TypeInv /\ SemInv /\ SemProofs!LineInv /\ [Next]_vars
        => SemProofs!LineInv' /\ [Sem!Pool!Next]_(Sem!Pool!vars)
  <2> SUFFICES ASSUME TypeInv, SemInv, SemProofs!LineInv, [Next]_vars
               PROVE  SemProofs!LineInv' /\ [Sem!Pool!Next]_(Sem!Pool!vars)
    OBVIOUS
  <2>1. SemStep
    BY StepOnSem
  <2>2. SemProofs!PoolMove
    BY <2>1, PoolSteps DEF TypeInv
  <2> QED BY <2>2, SamePool
<1> QED BY <1>1, <1>2, LoopTypeOK, LoopSemInv, PTL DEF Spec, PoolContract, Sem!Pool!Spec
=============================================================================
