---------------------------- MODULE LoopExecution ----------------------------
(***************************************************************************)
(* The loops of single nodes (runner.py, _execute_parallel_loop and        *)
(* _execute_serial_loop) over the semaphore of their resource, which they  *)
(* share with the dispatchers.                                             *)
(*                                                                         *)
(* A parallel loop is a shell and one task per iteration; every iteration  *)
(* takes a permit, executes the node and gives the permit back.  The shell *)
(* takes the results in the order in which the iterations end, cancels the *)
(* rest when one satisfies `until', and waits for all.  A serial loop is   *)
(* one task that takes a permit anew for each iteration.  A node without a *)
(* resource behaves like one whose permits suffice for everybody.          *)
(***************************************************************************)
EXTENDS Naturals, Sequences, FiniteSets

CONSTANTS
  Loop,           \* parallel loops
  Iteration,      \* their iterations, numbered in order
  LoopOf,         \* the loop of an iteration
  Until,          \* loops with a condition to stop at
  Serial,         \* serial loops
  Count,          \* iterations of a serial loop
  Scheduler,      \* node slots of dispatchers
  Permits,
  MaxInterrupts   \* bound: cancellations of one node task

(* Every loop has an iteration at least (config/schema.py:352, ge=1).      *)
ASSUME LoopAssumption ==
  /\ IsFiniteSet(Iteration) /\ IsFiniteSet(Serial) /\ IsFiniteSet(Scheduler)
  /\ Iteration \subseteq Nat /\ LoopOf \in [Iteration -> Loop]
  /\ \A l \in Loop : \E c \in Iteration : LoopOf[c] = l
  /\ Until \subseteq Loop
  /\ Iteration \intersect Serial = {} /\ Loop \intersect Serial = {}
  /\ (Iteration \union Serial) \intersect Scheduler = {}
  /\ Permits \in Nat \ {0} /\ Count \in Nat \ {0} /\ MaxInterrupts \in Nat

VARIABLES
  count, waiters, fut, pc, cancelled, released,   \* the semaphore and its users
  shell,         \* where the task of a parallel loop stands
  interrupted,   \* loops on whose task cancel() was called, and not yet delivered
  interrupts,    \* how often it was called on the task of a loop
  result,        \* how the task of an iteration ended
  finished,      \* iterations of a loop in the order they ended, not yet yielded
  left,          \* what as_completed has still to yield
  taken,         \* iterations whose results are in completed_results
  matched,
  round          \* iterations that a serial loop has begun

semVars == <<count, waiters, fut, pc, cancelled, released>>
shellVars == <<shell, interrupted, interrupts, left, taken, matched>>
taskVars == <<result, finished>>
vars == <<count, waiters, fut, pc, cancelled, released, shell, interrupted, interrupts,
          left, taken, matched, result, finished, round>>

Client == Iteration \union Serial
MaxCancels == Cardinality(Client)
Sem == INSTANCE ResourceSemaphore

Of(l) == {c \in Iteration : LoopOf[c] = l}
Undone(l) == {c \in Of(l) : pc[c] # "done"}

Init ==
  /\ Sem!Init
  /\ shell = [l \in Loop |-> "collecting"]
  /\ interrupted = {}
  /\ interrupts = [x \in Loop \union Serial |-> 0]
  /\ result = [c \in Iteration |-> "none"]
  /\ finished = [l \in Loop |-> <<>>]
  /\ left = [l \in Loop |-> Cardinality(Of(l))]
  /\ taken = [l \in Loop |-> {}]
  /\ matched = [l \in Loop |-> FALSE]
  /\ round = [s \in Serial |-> 1]

-----------------------------------------------------------------------------
(* The tasks of iterations, and serial loops.                              *)

(* The event loop runs new tasks in the order in which they were created.  *)
Turn(c) ==
  pc[c] = "idle" /\ c \in Iteration =>
    \A d \in Of(LoopOf[c]) : d < c => pc[d] # "idle"

(* acquire() returns at once, or later, and the node is executed.          *)
Acquires(c) ==
  /\ c \notin cancelled
  /\ Turn(c)
  /\ Sem!AcquireAtOnce(c) \/ Sem!AcquireBlocks(c) \/ Sem!Resume(c)
  /\ UNCHANGED <<shellVars, taskVars, round>>

Ended(c, outcome) ==
  /\ IF c \in Iteration
       THEN /\ result' = [result EXCEPT ![c] = outcome]
            /\ finished' = [finished EXCEPT ![LoopOf[c]] = Append(@, c)]
       ELSE UNCHANGED taskVars
  /\ UNCHANGED <<shellVars, round>>

(* Of a serial loop it does not matter here how it ended.                  *)
Outcomes(c) ==
  IF c \in Serial THEN {"ok"}
  ELSE {"ok", "failed", "raised"} \union {o \in {"match"} : LoopOf[c] \in Until}

(* Mutant: an exception of the node passes by the release.                 *)
ExecuteEndsUnguarded(c) ==
  /\ pc[c] = "holding"
  /\ c \notin cancelled
  /\ \E outcome \in Outcomes(c) :
       /\ Ended(c, outcome)
       /\ \/ outcome # "raised" /\ Sem!Release(c)
          \/ /\ outcome = "raised"
             /\ pc' = [pc EXCEPT ![c] = "done"]
             /\ UNCHANGED <<count, waiters, fut, cancelled, released>>

(* The node returns or raises, and the permit goes back.  A serial loop is *)
(* over then: it failed, met its condition, or this was its last round.    *)
ExecuteEnds(c) ==
  /\ pc[c] = "holding"
  /\ c \notin cancelled
  /\ Sem!Release(c)
  /\ \E outcome \in Outcomes(c) : Ended(c, outcome)

(* A serial loop goes on.  It gives its permit to the first in the queue   *)
(* and joins it, or takes it again.                                        *)
SerialGoesOn(s) ==
  /\ pc[s] = "holding"
  /\ s \notin cancelled
  /\ round[s] < Count
  /\ round' = [round EXCEPT ![s] = @ + 1]
  /\ released' = TRUE
  /\ \/ /\ Sem!Live = {}
        /\ waiters' = <<>>
        /\ UNCHANGED <<count, fut, pc>>
     \/ /\ count = 0
        /\ \E i \in Sem!Live :
             /\ \A j \in Sem!Live : i <= j
             /\ waiters' = Append(SubSeq(waiters, i + 1, Len(waiters)), s)
             /\ fut' = [fut EXCEPT ![waiters[i]] = "granted", ![s] = "pending"]
        /\ pc' = [pc EXCEPT ![s] = "waiting"]
        /\ UNCHANGED count
  /\ UNCHANGED <<cancelled, shellVars, taskVars>>

(* A task that was cancelled: in execute(), in acquire(), or before it ran *)
(* for the first time.                                                     *)
ExecuteCancelled(c) ==
  /\ pc[c] = "holding"
  /\ c \in cancelled
  /\ Sem!Release(c)
  /\ Ended(c, "cancelled")

AcquireCancelled(c) ==
  /\ Sem!HandleCancel(c)
  /\ Ended(c, "cancelled")

NeverRan(c) ==
  /\ pc[c] = "idle"
  /\ c \in cancelled
  /\ Turn(c)
  /\ pc' = [pc EXCEPT ![c] = "done"]
  /\ Ended(c, "cancelled")
  /\ UNCHANGED <<count, waiters, fut, cancelled, released>>

-----------------------------------------------------------------------------
(* The shell of a parallel loop.                                           *)

CancelTasks(tasks) ==
  /\ cancelled' = cancelled \union tasks
  /\ fut' = [c \in Client |-> IF c \in tasks /\ pc[c] = "waiting" /\ fut[c] = "pending"
                                THEN "cancelled" ELSE fut[c]]
  /\ UNCHANGED <<count, waiters, pc, released>>

Yields(l) ==
  /\ left' = [left EXCEPT ![l] = @ - 1]
  /\ shell' = [shell EXCEPT ![l] = IF left[l] = 1 THEN "gathering" ELSE @]

Yielded(l, c) ==
  /\ shell[l] = "collecting"
  /\ l \notin interrupted
  /\ finished[l] # <<>>
  /\ c = Head(finished[l])
  /\ finished' = [finished EXCEPT ![l] = Tail(@)]

(* Mutant: a failed iteration throws away what was collected.              *)
TakeResultOk(l, c) ==
  /\ Yielded(l, c)
  /\ result[c] \in {"ok", "failed"}
  /\ taken' = [taken EXCEPT ![l] = IF result[c] = "ok" THEN @ \union {c} ELSE {}]
  /\ Yields(l)
  /\ UNCHANGED <<semVars, interrupted, interrupts, matched, result, round>>

TakeResult(l, c) ==
  /\ Yielded(l, c)
  /\ result[c] \in {"ok", "failed"}
  /\ taken' = [taken EXCEPT ![l] = @ \union {c}]
  /\ Yields(l)
  /\ UNCHANGED <<semVars, interrupted, interrupts, matched, result, round>>

(* The first result that satisfies `until' is the only one, and whatever   *)
(* has not ended is cancelled.                                             *)
Match(l, c) ==
  /\ Yielded(l, c)
  /\ result[c] = "match"
  /\ matched' = [matched EXCEPT ![l] = TRUE]
  /\ CancelTasks(Undone(l))
  /\ taken' = [taken EXCEPT ![l] = {c}]
  /\ left' = [left EXCEPT ![l] = @ - 1]
  /\ shell' = [shell EXCEPT ![l] = "gathering"]
  /\ UNCHANGED <<interrupted, interrupts, result, round>>

(* An exception of an iteration, or of the condition, leaves the loop; the *)
(* other iterations are left to themselves.                                *)
ShellRaises(l, c) ==
  /\ Yielded(l, c)
  /\ result[c] = "raised" \/ (l \in Until /\ result[c] \in {"ok", "match"})
  /\ left' = [left EXCEPT ![l] = @ - 1]
  /\ shell' = [shell EXCEPT ![l] = "raised"]
  /\ UNCHANGED <<semVars, interrupted, interrupts, taken, matched, result, round>>

(* The dispatcher cancels the task of the node.  gather() hands it on to   *)
(* the iterations.                                                         *)
Interrupt(l) ==
  /\ interrupts[l] < MaxInterrupts
  /\ interrupts' = [interrupts EXCEPT ![l] = @ + 1]
  /\ shell[l] \in {"collecting", "gathering"}
  /\ interrupted' = interrupted \union {l}
  /\ IF shell[l] = "gathering" THEN CancelTasks(Undone(l)) ELSE UNCHANGED semVars
  /\ UNCHANGED <<shell, left, taken, matched, taskVars, round>>

InterruptSerial(s) ==
  /\ interrupts[s] < MaxInterrupts
  /\ interrupts' = [interrupts EXCEPT ![s] = @ + 1]
  /\ pc[s] \in {"waiting", "holding"}
  /\ s \notin cancelled
  /\ CancelTasks({s})
  /\ UNCHANGED <<shell, interrupted, left, taken, matched, taskVars, round>>

(* While it collects, the shell ignores a cancellation; what it waited for *)
(* counts as yielded.                                                      *)
IgnoreInterrupt(l) ==
  /\ shell[l] = "collecting"
  /\ l \in interrupted
  /\ interrupted' = interrupted \ {l}
  /\ Yields(l)
  /\ UNCHANGED <<semVars, interrupts, taken, matched, taskVars, round>>

(* Mutant: the results are enough.                                         *)
GatherEndsAtOnce(l) ==
  /\ shell[l] = "gathering"
  /\ shell' = [shell EXCEPT ![l] = IF l \in interrupted THEN "interrupted" ELSE "returned"]
  /\ UNCHANGED <<semVars, interrupted, interrupts, left, taken, matched, taskVars, round>>

GatherEnds(l) ==
  /\ shell[l] = "gathering"
  /\ Undone(l) = {}
  /\ shell' = [shell EXCEPT ![l] = IF l \in interrupted THEN "interrupted" ELSE "returned"]
  /\ UNCHANGED <<semVars, interrupted, interrupts, left, taken, matched, taskVars, round>>

(* A dispatcher takes a permit for an ordinary node, and gives it back.    *)
NodeStarts(s) == Sem!AcquireNowait(s) /\ UNCHANGED <<shellVars, taskVars, round>>
NodeEnds(s) == Sem!Release(s) /\ UNCHANGED <<shellVars, taskVars, round>>

TaskSteps(c) ==
  Acquires(c) \/ ExecuteEnds(c) \/ ExecuteCancelled(c) \/ AcquireCancelled(c) \/ NeverRan(c)
ShellSteps(l) ==
  \/ IgnoreInterrupt(l) \/ GatherEnds(l)
  \/ \E c \in Of(l) : TakeResult(l, c) \/ Match(l, c) \/ ShellRaises(l, c)

Next ==
  \/ \E c \in Client : TaskSteps(c)
  \/ \E s \in Serial : SerialGoesOn(s) \/ InterruptSerial(s)
  \/ \E l \in Loop : ShellSteps(l) \/ Interrupt(l)
  \/ \E s \in Scheduler : NodeStarts(s) \/ NodeEnds(s)

(* The event loop runs every task that can go on; nodes end.               *)
Fairness ==
  /\ \A c \in Client : WF_vars(TaskSteps(c))
  /\ \A l \in Loop : WF_vars(ShellSteps(l))
  /\ \A s \in Scheduler : WF_vars(NodeEnds(s))

Spec == Init /\ [][Next]_vars /\ Fairness

-----------------------------------------------------------------------------
(* A loop that has returned, or was interrupted, has left nothing behind   *)
(* that still runs or waits for a permit; and whatever is cancelled, there *)
(* are no more nodes in execution than permits (runner.py:636-646, 671).   *)
NothingLeftBehind ==
  /\ \A l \in Loop : shell[l] \in {"returned", "interrupted"} => Undone(l) = {}
  /\ Cardinality({u \in Client \union Scheduler : pc[u] = "holding"}) <= Permits

(* A loop that was left alone returns the one result that satisfied its    *)
(* condition, or every result; and whatever happened, only results of      *)
(* iterations that ended by themselves (runner.py:651-671).                *)
ResultsComplete ==
  \A l \in Loop :
    /\ \A c \in taken[l] : result[c] \in {"ok", "failed", "match"}
    /\ shell[l] = "returned" /\ interrupts[l] = 0 =>
         IF matched[l] THEN \E c \in Of(l) : taken[l] = {c} /\ result[c] = "match"
                       ELSE taken[l] = Of(l)

(* Refinement: iterations, serial loops and dispatcher slots use the       *)
(* resource as a pool of permits handed out first come, first served.  A   *)
(* serial loop that goes on queues behind everybody, and an iteration that *)
(* is cancelled while its node executes gives its permit back              *)
(* (runner.py:620-671, 721-753; resources.py:21-58).                       *)
PoolContract == Sem!Pool!Spec

(* A permit that a cancelled waiter took away (resources.py:39-45).        *)
Leaked == cancelled # {} /\ count + Cardinality(Sem!Owners) < Permits

(* Every loop comes to an end, at one permit as well and beside nodes that *)
(* do not queue, unless a cancellation has taken a permit away             *)
(* (runner.py:628-688, 721-753).                                           *)
LoopsEnd ==
  <>(\/ Leaked
     \/ /\ \A l \in Loop : shell[l] \notin {"collecting", "gathering"}
        /\ \A c \in Client : pc[c] = "done")

(* A hard stop interrupts: no iteration of a loop begins to execute after  *)
(* the cancellation has reached the task of its node (runner.py:668-669).  *)
HardStopInterrupts ==
  [][\A c \in Iteration :
       interrupts[LoopOf[c]] > 0 /\ LoopOf[c] \notin interrupted /\ pc[c] # "holding" => pc'[c] # "holding"]_vars
=============================================================================
