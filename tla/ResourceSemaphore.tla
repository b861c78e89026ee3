-------------------------- MODULE ResourceSemaphore --------------------------
(***************************************************************************)
(* The counting semaphore of dag/resources.py, which rations a Resource    *)
(* entity among every DAG run of the process.  It has two kinds of users:  *)
(*                                                                         *)
(*   Client     a loop iteration: it takes one permit with the blocking    *)
(*              acquire(), works, gives the permit back and ends.  It is   *)
(*              an asyncio task and may be cancelled at any await.         *)
(*   Scheduler  a node slot of a DAG dispatcher: it takes permits with     *)
(*              acquire_nowait() only, again and again, and never waits.   *)
(*                                                                         *)
(* A blocked client waits on a future in the deque `waiters'.  Cancelling  *)
(* a task that waits on a pending future cancels the future at once, and   *)
(* the task sees CancelledError only when the event loop next runs it;     *)
(* cancelling a task whose future was already granted leaves the future    *)
(* alone and marks the task (asyncio's _must_cancel).  Both windows are    *)
(* modelled: Cancel(c) and HandleCancel(c) are separate steps.             *)
(***************************************************************************)
EXTENDS Naturals, Sequences, FiniteSets

CONSTANTS
  Client,      \* tasks that use the blocking acquire()
  Scheduler,   \* users of acquire_nowait()
  Permits,     \* the `permits' attribute of the Resource entity
  MaxCancels   \* bound: how many clients get cancelled

ASSUME PermitsAssumption == Permits \in Nat \ {0}
ASSUME UsersAssumption ==
  /\ IsFiniteSet(Client)
  /\ IsFiniteSet(Scheduler)
  /\ Client \intersect Scheduler = {}
ASSUME CancelsAssumption == MaxCancels \in Nat

User == Client \union Scheduler

VARIABLES
  count,       \* _count: the permits on the table
  waiters,     \* _waiters: the deque of futures, named by the client that waits
  fut,         \* state of each client's future
  pc,          \* where each user stands
  cancelled,   \* clients on which task.cancel() was called
  released     \* the `released' event

vars == <<count, waiters, fut, pc, cancelled, released>>

FutureState == {"none", "pending", "granted", "cancelled"}
Stage == {"idle", "waiting", "holding", "done"}

TypeOK ==
  /\ count \in Nat
  /\ waiters \in Seq(Client)
  /\ fut \in [Client -> FutureState]
  /\ pc \in [User -> Stage]
  /\ cancelled \subseteq Client
  /\ released \in BOOLEAN

Init ==
  /\ count = Permits
  /\ waiters = <<>>
  /\ fut = [c \in Client |-> "none"]
  /\ pc = [u \in User |-> "idle"]
  /\ cancelled = {}
  /\ released = FALSE

-----------------------------------------------------------------------------
(* Positions of the deque whose future nobody has completed or cancelled.  *)
Live == {i \in DOMAIN waiters : fut[waiters[i]] = "pending"}

(* Mutant: the queue is popped from the wrong end.                         *)
WakeupNextLifo(n) ==
  IF n = 0 \/ Live = {}
    THEN count' = n /\ UNCHANGED <<waiters, fut>>
    ELSE \E i \in Live :
           /\ \A j \in Live : i >= j
           /\ count' = n - 1
           /\ waiters' = SubSeq(waiters, 1, i - 1)
           /\ fut' = [fut EXCEPT ![waiters[i]] = "granted"]

(* Mutant: the permit is granted and also left on the table.               *)
WakeupNextKeepsPermit(n) ==
  IF n = 0 \/ Live = {}
    THEN count' = n /\ UNCHANGED <<waiters, fut>>
    ELSE \E i \in Live :
           /\ \A j \in Live : i <= j
           /\ count' = n
           /\ waiters' = SubSeq(waiters, i + 1, Len(waiters))
           /\ fut' = [fut EXCEPT ![waiters[i]] = "granted"]

(***************************************************************************)
(* _wakeup_next() entered with n permits on the table: futures that are    *)
(* already done are popped and thrown away, the first live one is granted  *)
(* a permit, and the loop stops there.                                     *)
(***************************************************************************)
WakeupNext(n) ==
  \/ /\ n = 0
     /\ count' = n
     /\ UNCHANGED <<waiters, fut>>
  \/ /\ n > 0
     /\ Live = {}
     /\ count' = n
     /\ waiters' = <<>>
     /\ UNCHANGED fut
  \/ /\ n > 0
     /\ \E i \in Live :
          /\ \A j \in Live : i <= j
          /\ count' = n - 1
          /\ waiters' = SubSeq(waiters, i + 1, Len(waiters))
          /\ fut' = [fut EXCEPT ![waiters[i]] = "granted"]

(* acquire_nowait() that succeeds; one that fails changes nothing.         *)
AcquireNowait(s) ==
  /\ pc[s] = "idle"
  /\ count > 0
  /\ count' = count - 1
  /\ pc' = [pc EXCEPT ![s] = "holding"]
  /\ UNCHANGED <<waiters, fut, cancelled, released>>

(* acquire() with a permit on the table returns without suspending.        *)
AcquireAtOnce(c) ==
  /\ pc[c] = "idle"
  /\ count > 0
  /\ count' = count - 1
  /\ pc' = [pc EXCEPT ![c] = "holding"]
  /\ UNCHANGED <<waiters, fut, cancelled, released>>

(* acquire() with none left queues a new future and suspends.              *)
AcquireBlocks(c) ==
  /\ pc[c] = "idle"
  /\ count = 0
  /\ waiters' = Append(waiters, c)
  /\ fut' = [fut EXCEPT ![c] = "pending"]
  /\ pc' = [pc EXCEPT ![c] = "waiting"]
  /\ UNCHANGED <<count, cancelled, released>>

(* Mutant: a resumed client takes a permit although one was granted to it. *)
ResumeTakesAgain(c) ==
  /\ pc[c] = "waiting"
  /\ fut[c] = "granted"
  /\ c \notin cancelled
  /\ count' = IF count > 0 THEN count - 1 ELSE 0
  /\ pc' = [pc EXCEPT ![c] = "holding"]
  /\ UNCHANGED <<waiters, fut, cancelled, released>>

(* The event loop resumes a client whose future was granted.               *)
Resume(c) ==
  /\ pc[c] = "waiting"
  /\ fut[c] = "granted"
  /\ c \notin cancelled
  /\ pc' = [pc EXCEPT ![c] = "holding"]
  /\ UNCHANGED <<count, waiters, fut, cancelled, released>>

(* Mutant: release() forgets _wakeup_next().                               *)
ReleaseWithoutWakeup(u) ==
  /\ pc[u] = "holding"
  /\ count' = count + 1
  /\ released' = TRUE
  /\ pc' = [pc EXCEPT ![u] = IF u \in Client THEN "done" ELSE "idle"]
  /\ UNCHANGED <<waiters, fut, cancelled>>

(* release(): the `finally' of an iteration, or the dispatcher's release.  *)
(* A client ends afterwards; a scheduler slot can be used again.           *)
Release(u) ==
  /\ pc[u] = "holding"
  /\ WakeupNext(count + 1)
  /\ released' = TRUE
  /\ pc' = [pc EXCEPT ![u] = IF u \in Client THEN "done" ELSE "idle"]
  /\ UNCHANGED cancelled

(* task.cancel() on a client inside acquire().                             *)
Cancel(c) ==
  /\ pc[c] = "waiting"
  /\ c \notin cancelled
  /\ Cardinality(cancelled) < MaxCancels
  /\ cancelled' = cancelled \union {c}
  /\ fut' = [fut EXCEPT ![c] = IF @ = "pending" THEN "cancelled" ELSE @]
  /\ UNCHANGED <<count, waiters, pc, released>>

(* Mutant: the handler takes a permit back without looking for one.        *)
HandleCancelUnguarded(c) ==
  /\ pc[c] = "waiting"
  /\ c \in cancelled
  /\ pc' = [pc EXCEPT ![c] = "done"]
  /\ count' = count - 1
  /\ UNCHANGED <<waiters, fut, cancelled, released>>

(***************************************************************************)
(* The CancelledError reaches the handler of acquire().  The future is     *)
(* done in both windows, so its first branch (remove from the deque) is    *)
(* never taken: with a permit on the table the handler takes one away and  *)
(* calls _wakeup_next(), with none it does nothing.                        *)
(***************************************************************************)
HandleCancel(c) ==
  /\ pc[c] = "waiting"
  /\ c \in cancelled
  /\ pc' = [pc EXCEPT ![c] = "done"]
  /\ \/ count > 0 /\ WakeupNext(count - 1)
     \/ count = 0 /\ UNCHANGED <<count, waiters, fut>>
  /\ UNCHANGED <<cancelled, released>>

(* A dispatcher about to wait for a release resets the event when it wakes. *)
ClearReleased ==
  /\ released
  /\ released' = FALSE
  /\ UNCHANGED <<count, waiters, fut, pc, cancelled>>

Next ==
  \/ \E s \in Scheduler : AcquireNowait(s)
  \/ \E c \in Client :
       AcquireAtOnce(c) \/ AcquireBlocks(c) \/ Resume(c) \/ Cancel(c) \/ HandleCancel(c)
  \/ \E u \in User : Release(u)
  \/ ClearReleased

(* Handlers end, and the event loop runs every task that is ready.         *)
Fairness ==
  /\ \A c \in Client : WF_vars(Resume(c)) /\ WF_vars(HandleCancel(c))
  /\ \A u \in User : WF_vars(Release(u))

Spec == Init /\ [][Next]_vars /\ Fairness

-----------------------------------------------------------------------------
(* The users inside, and the clients whose permit was granted but who have *)
(* not run since.                                                          *)
Holding == {u \in User : pc[u] = "holding"}
Granted == {c \in Client : pc[c] = "waiting" /\ fut[c] = "granted"}
Owners == Holding \union Granted

(* Safety: the users inside and the permits on their way to a client never *)
(* exceed `permits', whatever is cancelled and whenever                    *)
(* (resources.py:21-58, the promise of the Resource entity).               *)
NeverOvercommitted == count + Cardinality(Owners) <= Permits

(* Safety: as long as no waiter was cancelled no permit is lost, with the  *)
(* blocking and the non-blocking acquire mixed in any order                *)
(* (resources.py:21-58).                                                   *)
ConservedWithoutCancel ==
  cancelled = {} => count + Cardinality(Owners) = Permits

(* Safety: no lost wakeup. A permit never lies on the table while a client *)
(* waits for one, so release() may wake a single waiter                    *)
(* (resources.py:47-58).                                                   *)
NoIdlePermit == Live # {} => count = 0

(* Action property: a permit goes to the client that queued first          *)
(* (resources.py:52-58).                                                   *)
FifoStep ==
  \A i, j \in DOMAIN waiters :
    (i < j /\ fut[waiters[i]] = "pending" /\ fut[waiters[j]] = "pending"
       /\ fut'[waiters[j]] = "granted")
      => fut'[waiters[i]] = "granted"
Fifo == [][FifoStep]_vars

(* The permits and the queue without the futures: who waits, and who of    *)
(* two queued first.                                                       *)
Waiting == {c \in Client : fut[c] = "pending"}
Ahead ==
  {p \in Waiting \X Waiting :
     \E i, j \in DOMAIN waiters : i < j /\ waiters[i] = p[1] /\ waiters[j] = p[2]}
Leaving == {c \in cancelled : pc[c] = "waiting"}

Pool == INSTANCE PermitPool
          WITH spare <- count, inside <- Holding, promised <- Granted,
               waiting <- Waiting, ahead <- Ahead, leaving <- Leaving

(* Refinement: with its deque, its futures and both windows of a           *)
(* cancellation the semaphore is a pool of permits handed out first come,  *)
(* first served, in which only a cancelled waiter can lose a permit, its   *)
(* own and one more (resources.py:21-58).                                  *)
PoolContract == Pool!Spec

(* Liveness: a client that waits gets its permit, even with schedulers     *)
(* that keep taking permits without queueing, unless someone is cancelled  *)
(* (resources.py:30-58).                                                   *)
WaiterServed ==
  \A c \in Client : pc[c] = "waiting" ~> (pc[c] # "waiting" \/ cancelled # {})

(* What tests/core/integration/test_resource_semaphore.py:515 promises     *)
(* (test_blocking_acquire_cancel_no_leak): when nobody holds a permit or   *)
(* waits for one, every permit is back on the table (resources.py:39-45).  *)
CancelDoesNotLeak ==
  (\A u \in User : pc[u] \in {"idle", "done"}) => count = Permits
=============================================================================
