------------------------ MODULE ResourceSemaphoreProofs ------------------------
(***************************************************************************)
(* Proofs of the safety properties of ResourceSemaphore, for any number of *)
(* clients, schedulers, permits and cancellations.                         *)
(***************************************************************************)
EXTENDS ResourceSemaphore, FiniteSetTheorems, TLAPS

(* A client that is queued or cancelled has begun, its future is pending   *)
(* only while it waits undisturbed, and it queues at most once.            *)
QueueInv ==
  /\ \A c \in Client : fut[c] = "pending" => pc[c] = "waiting" /\ c \notin cancelled
  /\ \A c \in cancelled : pc[c] # "idle"
  /\ \A i \in DOMAIN waiters : pc[waiters[i]] # "idle"
  /\ \A i, j \in DOMAIN waiters : waiters[i] = waiters[j] => i = j

LEMMA FiniteUsers ==
  ASSUME NEW S \in SUBSET User
  PROVE  IsFiniteSet(S)
BY UsersAssumption, FS_Union, FS_Subset DEF User

-----------------------------------------------------------------------------
(* Type correctness.                                                       *)

(* What _wakeup_next() does: nothing, or it grants a pending future.       *)
LEMMA WakeupGrants ==
  ASSUME TypeOK, NEW n \in Nat, WakeupNext(n)
  PROVE  /\ waiters' \in Seq(Client)
         /\ \/ count' = n /\ fut' = fut
            \/ /\ n > 0
               /\ count' = n - 1
               /\ \E c \in Client : /\ fut[c] = "pending"
                                    /\ fut' = [fut EXCEPT ![c] = "granted"]
<1>1. CASE n = 0 /\ count' = n /\ UNCHANGED <<waiters, fut>>
  BY <1>1 DEF TypeOK
<1>2. CASE n > 0 /\ Live = {} /\ count' = n /\ waiters' = <<>> /\ UNCHANGED fut
  BY <1>2
<1>3. CASE /\ n > 0
           /\ \E i \in Live :
                /\ \A j \in Live : i <= j
                /\ count' = n - 1
                /\ waiters' = SubSeq(waiters, i + 1, Len(waiters))
                /\ fut' = [fut EXCEPT ![waiters[i]] = "granted"]
  <2>1. PICK i \in Live : /\ count' = n - 1
                          /\ waiters' = SubSeq(waiters, i + 1, Len(waiters))
                          /\ fut' = [fut EXCEPT ![waiters[i]] = "granted"]
    BY <1>3
  <2>2. waiters \in Seq(Client) /\ i \in 1 .. Len(waiters) /\ fut[waiters[i]] = "pending"
    BY <2>1 DEF TypeOK, Live
  <2>3. waiters[i] \in Client
    BY <2>2
  <2>4. waiters' \in Seq(Client)
    BY <2>1, <2>2
  <2> QED BY <1>3, <2>1, <2>2, <2>3, <2>4
<1> QED BY <1>1, <1>2, <1>3 DEF WakeupNext

(* Type correctness: the counter of resources.py:22-58 stays a natural     *)
(* number, in every order of acquires, releases and cancellations.         *)
THEOREM SemaphoreTypeOK == Spec => []TypeOK
<1>1. Init => TypeOK
  <2> SUFFICES ASSUME Init PROVE TypeOK
    OBVIOUS
  <2>1. count \in Nat /\ waiters \in Seq(Client)
    BY PermitsAssumption DEF Init
  <2>2. fut \in [Client -> FutureState] /\ pc \in [User -> Stage]
    BY DEF Init, FutureState, Stage
  <2>3. cancelled \subseteq Client /\ released \in BOOLEAN
    BY DEF Init
  <2> QED BY <2>1, <2>2, <2>3 DEF TypeOK
<1>2. TypeOK /\ [Next]_vars => TypeOK'
  <2> SUFFICES ASSUME TypeOK, [Next]_vars PROVE TypeOK'
    OBVIOUS
  <2> USE DEF TypeOK, User
  <2>1. ASSUME NEW s \in Scheduler, AcquireNowait(s) PROVE TypeOK'
    BY <2>1 DEF AcquireNowait, Stage
  <2>2. ASSUME NEW c \in Client, AcquireAtOnce(c) PROVE TypeOK'
    BY <2>2 DEF AcquireAtOnce, Stage
  <2>3. ASSUME NEW c \in Client, AcquireBlocks(c) PROVE TypeOK'
    BY <2>3 DEF AcquireBlocks, Stage, FutureState
  <2>4. ASSUME NEW c \in Client, Resume(c) PROVE TypeOK'
    BY <2>4 DEF Resume, Stage
  <2>5. ASSUME NEW c \in Client, Cancel(c) PROVE TypeOK'
    BY <2>5 DEF Cancel, FutureState
  <2>6. ASSUME NEW c \in Client, HandleCancel(c) PROVE TypeOK'
    <3>1. pc' \in [User -> Stage] /\ cancelled' \subseteq Client /\ released' \in BOOLEAN
      BY <2>6 DEF HandleCancel, Stage
    <3>2. CASE count > 0 /\ WakeupNext(count - 1)
      <4>1. count - 1 \in Nat
        BY <3>2
      <4>2. count' \in Nat /\ waiters' \in Seq(Client) /\ fut' \in [Client -> FutureState]
        BY <3>2, <4>1, WakeupGrants DEF FutureState
      <4> QED BY <3>1, <4>2
    <3>3. CASE count = 0 /\ UNCHANGED <<count, waiters, fut>>
      BY <3>1, <3>3
    <3> QED BY <2>6, <3>2, <3>3 DEF HandleCancel
  <2>7. ASSUME NEW u \in User, Release(u) PROVE TypeOK'
    <3>1. pc' \in [User -> Stage] /\ cancelled' \subseteq Client /\ released' \in BOOLEAN
      BY <2>7 DEF Release, Stage
    <3>2. count + 1 \in Nat /\ WakeupNext(count + 1)
      BY <2>7 DEF Release
    <3>3. count' \in Nat /\ waiters' \in Seq(Client) /\ fut' \in [Client -> FutureState]
      BY <3>2, WakeupGrants DEF FutureState
    <3> QED BY <3>1, <3>3
  <2>8. CASE ClearReleased
    BY <2>8 DEF ClearReleased
  <2>9. CASE UNCHANGED vars
    BY <2>9 DEF vars
  <2> QED BY <2>1, <2>2, <2>3, <2>4, <2>5, <2>6, <2>7, <2>8, <2>9 DEF Next
<1> QED BY <1>1, <1>2, PTL DEF Spec

-----------------------------------------------------------------------------
(* No lost wakeup.                                                         *)

(* Safety: a permit never lies on the table while a client waits for one,  *)
(* so release() may wake a single waiter (resources.py:47-58).             *)
THEOREM SemaphoreNoIdlePermit == Spec => []NoIdlePermit
<1>1. Init => NoIdlePermit
  BY DEF Init, NoIdlePermit, Live
<1>2. TypeOK /\ NoIdlePermit /\ [Next]_vars => NoIdlePermit'
  <2> SUFFICES ASSUME TypeOK, NoIdlePermit, [Next]_vars PROVE NoIdlePermit'
    OBVIOUS
  <2> USE DEF TypeOK, NoIdlePermit
  <2>1. ASSUME NEW s \in Scheduler, AcquireNowait(s) PROVE NoIdlePermit'
    <3>1. Live = {} /\ Live' = Live
      BY <2>1 DEF AcquireNowait, Live
    <3> QED BY <3>1
  <2>2. ASSUME NEW c \in Client, AcquireAtOnce(c) PROVE NoIdlePermit'
    <3>1. Live = {} /\ Live' = Live
      BY <2>2 DEF AcquireAtOnce, Live
    <3> QED BY <3>1
  <2>3. ASSUME NEW c \in Client, AcquireBlocks(c) PROVE NoIdlePermit'
    BY <2>3 DEF AcquireBlocks
  <2>4. ASSUME NEW c \in Client, Resume(c) PROVE NoIdlePermit'
    BY <2>4 DEF Resume, Live
  <2>5. ASSUME NEW c \in Client, Cancel(c) PROVE NoIdlePermit'
    <3>1. \A d \in Client : fut'[d] = "pending" => fut[d] = "pending"
      BY <2>5 DEF Cancel
    <3>2. \A i \in DOMAIN waiters : waiters[i] \in Client
      OBVIOUS
    <3>3. Live' \subseteq Live
      BY <2>5, <3>1, <3>2 DEF Cancel, Live
    <3> QED BY <2>5, <3>3 DEF Cancel
  <2>6. ASSUME NEW c \in Client, HandleCancel(c) PROVE NoIdlePermit'
    <3>1. CASE count > 0 /\ WakeupNext(count - 1)
      <4>1. Live = {}
        BY <3>1
      <4>2. fut' = fut /\ (waiters' = waiters \/ waiters' = <<>>)
        BY <3>1, <4>1 DEF WakeupNext
      <4>3. Live' = {}
        BY <4>1, <4>2 DEF Live
      <4> QED BY <4>3
    <3>2. CASE count = 0 /\ UNCHANGED <<count, waiters, fut>>
      BY <3>2
    <3> QED BY <2>6, <3>1, <3>2 DEF HandleCancel
  <2>7. ASSUME NEW u \in User, Release(u) PROVE NoIdlePermit'
    <3>1. count + 1 > 0 /\ WakeupNext(count + 1)
      BY <2>7 DEF Release
    <3>2. CASE Live = {}
      <4>1. waiters' = <<>>
        BY <3>1, <3>2 DEF WakeupNext
      <4> QED BY <4>1 DEF Live
    <3>3. CASE Live # {}
      <4>1. count = 0
        BY <3>3
      <4>2. count' = count
        BY <3>1, <3>3, <4>1 DEF WakeupNext
      <4> QED BY <4>1, <4>2
    <3> QED BY <3>2, <3>3
  <2>8. CASE ClearReleased
    BY <2>8 DEF ClearReleased, Live
  <2>9. CASE UNCHANGED vars
    BY <2>9 DEF vars, Live
  <2> QED BY <2>1, <2>2, <2>3, <2>4, <2>5, <2>6, <2>7, <2>8, <2>9 DEF Next
<1> QED BY <1>1, <1>2, SemaphoreTypeOK, PTL DEF Spec
-----------------------------------------------------------------------------
(* The queue.                                                              *)

LEMMA QueueInvHolds == Spec => []QueueInv
<1>1. Init => QueueInv
  BY DEF Init, QueueInv
<1>2. TypeOK /\ QueueInv /\ [Next]_vars => QueueInv'
  <2> SUFFICES ASSUME TypeOK, QueueInv, [Next]_vars PROVE QueueInv'
    OBVIOUS
  <2> USE DEF TypeOK, QueueInv, User
  <2>0. ASSUME NEW n \in Nat, WakeupNext(n)
        PROVE  /\ \A i \in DOMAIN waiters' :
                    \E k \in Nat : i + k \in DOMAIN waiters /\ waiters'[i] = waiters[i + k]
               /\ \A i, j \in DOMAIN waiters' : waiters'[i] = waiters'[j] => i = j
               /\ \A c \in Client : fut'[c] = "pending" => fut[c] = "pending"
    <3>1. CASE waiters' = waiters /\ fut' = fut
      <4>1. \A i \in DOMAIN waiters' : 0 \in Nat /\ i + 0 = i
        BY <3>1
      <4> QED BY <3>1, <4>1
    <3>2. CASE waiters' = <<>> /\ fut' = fut
      BY <3>2
    <3>3. CASE \E i \in Live : /\ waiters' = SubSeq(waiters, i + 1, Len(waiters))
                               /\ fut' = [fut EXCEPT ![waiters[i]] = "granted"]
      <4>1. PICK i \in Live : /\ waiters' = SubSeq(waiters, i + 1, Len(waiters))
                              /\ fut' = [fut EXCEPT ![waiters[i]] = "granted"]
        BY <3>3
      <4>2. i \in 1 .. Len(waiters)
        BY DEF Live
      <4>3. /\ DOMAIN waiters' = 1 .. (Len(waiters) - i)
            /\ \A j \in DOMAIN waiters' : waiters'[j] = waiters[j + i]
        BY <4>1, <4>2
      <4>4. \A j \in DOMAIN waiters' :
              j + i \in DOMAIN waiters /\ waiters'[j] = waiters[j + i]
        <5>1. Len(waiters) \in Nat /\ DOMAIN waiters = 1 .. Len(waiters)
          OBVIOUS
        <5> QED BY <4>2, <4>3, <5>1
      <4>5. \A c \in Client : fut'[c] = "pending" => fut[c] = "pending"
        BY <4>1
      <4>6. \A j, k \in DOMAIN waiters' : waiters'[j] = waiters'[k] => j = k
        <5> SUFFICES ASSUME NEW j \in DOMAIN waiters', NEW k \in DOMAIN waiters',
                            waiters'[j] = waiters'[k]
                     PROVE  j = k
          OBVIOUS
        <5>1. j + i = k + i
          BY <4>4
        <5> QED BY <5>1, <4>2, <4>3
      <4>7. i \in Nat
        BY <4>2
      <4> QED BY <4>4, <4>5, <4>6, <4>7
    <3> QED BY <2>0, <3>1, <3>2, <3>3 DEF WakeupNext
  <2>1. ASSUME NEW s \in Scheduler, AcquireNowait(s) PROVE QueueInv'
    BY <2>1, UsersAssumption DEF AcquireNowait
  <2>2. ASSUME NEW c \in Client, AcquireAtOnce(c) PROVE QueueInv'
    BY <2>2 DEF AcquireAtOnce
  <2>3. ASSUME NEW c \in Client, AcquireBlocks(c) PROVE QueueInv'
    <3>1. /\ waiters' \in Seq(Client)
          /\ DOMAIN waiters' = 1 .. (Len(waiters) + 1)
          /\ DOMAIN waiters = 1 .. Len(waiters)
          /\ waiters'[Len(waiters) + 1] = c
          /\ \A i \in DOMAIN waiters : waiters'[i] = waiters[i] /\ waiters[i] # c
      BY <2>3 DEF AcquireBlocks
    <3>2. \A i, j \in DOMAIN waiters' : waiters'[i] = waiters'[j] => i = j
      BY <3>1
    <3>3. \A i \in DOMAIN waiters' : pc'[waiters'[i]] # "idle"
      BY <2>3, <3>1 DEF AcquireBlocks
    <3>4. /\ \A d \in Client : fut'[d] = "pending" => pc'[d] = "waiting" /\ d \notin cancelled'
          /\ \A d \in cancelled' : pc'[d] # "idle"
      BY <2>3 DEF AcquireBlocks
    <3> QED BY <3>2, <3>3, <3>4
  <2>4. ASSUME NEW c \in Client, Resume(c) PROVE QueueInv'
    BY <2>4 DEF Resume
  <2>5. ASSUME NEW c \in Client, Cancel(c) PROVE QueueInv'
    BY <2>5 DEF Cancel
  <2>6. ASSUME NEW c \in Client, HandleCancel(c) PROVE QueueInv'
    <3>1. CASE count > 0 /\ WakeupNext(count - 1)
      <4>1. count - 1 \in Nat
        BY <3>1
      <4> QED BY <2>6, <3>1, <4>1, <2>0 DEF HandleCancel
    <3>2. CASE count = 0 /\ UNCHANGED <<count, waiters, fut>>
      BY <2>6, <3>2 DEF HandleCancel
    <3> QED BY <2>6, <3>1, <3>2 DEF HandleCancel
  <2>7. ASSUME NEW u \in User, Release(u) PROVE QueueInv'
    <3>1. count + 1 \in Nat /\ WakeupNext(count + 1)
      BY <2>7 DEF Release
    <3>2. \A c \in Client : fut'[c] = "pending" => pc'[c] = "waiting" /\ c \notin cancelled'
      BY <2>7, <3>1, <2>0 DEF Release
    <3>3. \A i \in DOMAIN waiters' : pc'[waiters'[i]] # "idle"
      <4> SUFFICES ASSUME NEW i \in DOMAIN waiters' PROVE pc'[waiters'[i]] # "idle"
        OBVIOUS
      <4>1. PICK k \in Nat : i + k \in DOMAIN waiters /\ waiters'[i] = waiters[i + k]
        BY <3>1, <2>0
      <4>2. waiters'[i] \in Client /\ pc[waiters'[i]] # "idle"
        BY <4>1
      <4> QED BY <2>7, <4>2 DEF Release
    <3>4. \A i, j \in DOMAIN waiters' : waiters'[i] = waiters'[j] => i = j
      BY <3>1, <2>0
    <3>5. \A c \in cancelled' : pc'[c] # "idle"
      BY <2>7 DEF Release
    <3> QED BY <3>2, <3>3, <3>4, <3>5
  <2>8. CASE ClearReleased
    BY <2>8 DEF ClearReleased
  <2>9. CASE UNCHANGED vars
    BY <2>9 DEF vars
  <2> QED BY <2>1, <2>2, <2>3, <2>4, <2>5, <2>6, <2>7, <2>8, <2>9 DEF Next
<1> QED BY <1>1, <1>2, SemaphoreTypeOK, PTL DEF Spec

(* Action property: a permit goes to the client that queued first          *)
(* (resources.py:52-58).                                                   *)
THEOREM SemaphoreFifo == Spec => Fifo
<1>1. TypeOK /\ QueueInv /\ [Next]_vars => [FifoStep]_vars
  <2> SUFFICES ASSUME TypeOK, QueueInv, [Next]_vars PROVE FifoStep
    OBVIOUS
  <2> USE DEF TypeOK, User
  <2>1. CASE fut' = fut
    BY <2>1 DEF FifoStep
  <2>2. CASE \E n \in Nat : WakeupNext(n)
    <3>1. CASE \E k \in Live : /\ \A j \in Live : k <= j
                               /\ fut' = [fut EXCEPT ![waiters[k]] = "granted"]
      <4>1. PICK k \in Live : /\ \A j \in Live : k <= j
                              /\ fut' = [fut EXCEPT ![waiters[k]] = "granted"]
        BY <3>1
      <4> SUFFICES ASSUME NEW i \in DOMAIN waiters, NEW j \in DOMAIN waiters, i < j,
                          fut[waiters[i]] = "pending", fut[waiters[j]] = "pending",
                          fut'[waiters[j]] = "granted"
                   PROVE  FALSE
        BY DEF FifoStep
      <4>2. waiters[j] \in Client /\ waiters[k] \in Client /\ k \in DOMAIN waiters
        BY DEF Live
      <4>3. waiters[j] = waiters[k]
        BY <4>1, <4>2
      <4>4. j = k
        BY <4>2, <4>3 DEF QueueInv
      <4>5. k <= i
        BY <4>1 DEF Live
      <4>6. i \in Int /\ j \in Int
        OBVIOUS
      <4> QED BY <4>4, <4>5, <4>6
    <3> QED BY <2>1, <2>2, <3>1 DEF WakeupNext
  <2>3. ASSUME NEW c \in Client, AcquireBlocks(c) PROVE FifoStep
    <3>1. \A d \in Client : fut'[d] = "granted" => fut[d] = "granted"
      BY <2>3 DEF AcquireBlocks
    <3>2. \A j \in DOMAIN waiters : waiters[j] \in Client
      OBVIOUS
    <3> QED BY <3>1, <3>2 DEF FifoStep
  <2>4. ASSUME NEW c \in Client, Cancel(c) PROVE FifoStep
    <3>1. \A d \in Client : fut'[d] = "granted" => fut[d] = "granted"
      BY <2>4 DEF Cancel
    <3>2. \A j \in DOMAIN waiters : waiters[j] \in Client
      OBVIOUS
    <3> QED BY <3>1, <3>2 DEF FifoStep
  <2>5. ASSUME NEW c \in Client, HandleCancel(c) PROVE FifoStep
    <3>1. count > 0 => count - 1 \in Nat
      OBVIOUS
    <3> QED BY <2>1, <2>2, <2>5, <3>1 DEF HandleCancel
  <2>6. ASSUME NEW u \in User, Release(u) PROVE FifoStep
    <3>1. count + 1 \in Nat
      OBVIOUS
    <3> QED BY <2>2, <2>6, <3>1 DEF Release
  <2> QED BY <2>1, <2>3, <2>4, <2>5, <2>6
          DEF Next, vars, AcquireNowait, AcquireAtOnce, Resume, ClearReleased
<1> QED BY <1>1, SemaphoreTypeOK, QueueInvHolds, PTL DEF Spec, Fifo

-----------------------------------------------------------------------------
(* The permits.                                                            *)

LEMMA FiniteOwners == IsFiniteSet(Owners) /\ IsFiniteSet(Owners')
<1>1. Owners \in SUBSET User /\ Owners' \in SUBSET User
  BY DEF Owners, Holding, Granted, User
<1> QED BY <1>1, FiniteUsers

(* u leaves while _wakeup_next() runs with n permits on the table.         *)
LEMMA WakeupOwners ==
  ASSUME TypeOK, QueueInv, NEW u \in User, NEW n \in Nat, WakeupNext(n),
         u \in Client => fut[u] # "pending",
         NEW left \in {"idle", "done"}, pc' = [pc EXCEPT ![u] = left]
  PROVE  count' + Cardinality(Owners') = n + Cardinality(Owners \ {u})
<1> USE DEF TypeOK, User
<1> DEFINE rest == Owners \ {u}
<1>0. IsFiniteSet(rest)
  BY FiniteOwners, FS_Subset
<1>1. CASE count' = n /\ fut' = fut
  <2>1. Owners' = rest
    BY <1>1 DEF Owners, Holding, Granted
  <2> QED BY <1>1, <2>1
<1>2. CASE /\ n > 0
           /\ count' = n - 1
           /\ \E c \in Client : fut[c] = "pending" /\ fut' = [fut EXCEPT ![c] = "granted"]
  <2>1. PICK c \in Client : fut[c] = "pending" /\ fut' = [fut EXCEPT ![c] = "granted"]
    BY <1>2
  <2>2. c # u /\ pc[c] = "waiting" /\ pc'[c] = "waiting"
    BY <2>1 DEF QueueInv
  <2>3. c \notin rest
    BY <2>1, <2>2 DEF Owners, Holding, Granted
  <2>4. Owners' = rest \union {c}
    BY <2>1, <2>2 DEF Owners, Holding, Granted
  <2>5. Cardinality(Owners') = Cardinality(rest) + 1
    BY <1>0, <2>3, <2>4, FS_AddElement
  <2>6. Cardinality(rest) \in Nat
    BY <1>0, FS_CardinalityType
  <2> QED BY <1>2, <2>5, <2>6
<1> HIDE DEF rest
<1> QED BY <1>1, <1>2, WakeupGrants

PermitInv == NeverOvercommitted /\ ConservedWithoutCancel

LEMMA PermitInvHolds == Spec => []PermitInv
<1>1. Init => PermitInv
  <2> SUFFICES ASSUME Init PROVE PermitInv
    OBVIOUS
  <2>1. Owners = {}
    BY DEF Init, Owners, Holding, Granted, User
  <2>2. Cardinality(Owners) = 0
    BY <2>1, FS_EmptySet
  <2> QED BY <2>2, PermitsAssumption DEF Init, PermitInv, NeverOvercommitted, ConservedWithoutCancel
<1>2. TypeOK /\ QueueInv /\ PermitInv /\ [Next]_vars => PermitInv'
  <2> SUFFICES ASSUME TypeOK, QueueInv, PermitInv, [Next]_vars PROVE PermitInv'
    OBVIOUS
  <2> USE DEF TypeOK, User
  <2>0. Permits \in Nat /\ Cardinality(Owners) \in Nat /\ Cardinality(Owners') \in Nat
    BY PermitsAssumption, FiniteOwners, FS_CardinalityType
  <2>a. ASSUME count' + Cardinality(Owners') = count + Cardinality(Owners),
               cancelled \subseteq cancelled'
        PROVE  PermitInv'
    BY <2>a DEF PermitInv, NeverOvercommitted, ConservedWithoutCancel
  <2>b. ASSUME NEW u \in User, pc[u] = "idle", pc' = [pc EXCEPT ![u] = "holding"],
               count' = count - 1, fut' = fut
        PROVE  count' + Cardinality(Owners') = count + Cardinality(Owners)
    <3>1. u \notin Owners
      BY <2>b DEF Owners, Holding, Granted
    <3>2. Owners' = Owners \union {u}
      BY <2>b DEF Owners, Holding, Granted
    <3>3. Cardinality(Owners') = Cardinality(Owners) + 1
      BY <3>1, <3>2, FiniteOwners, FS_AddElement
    <3> QED BY <2>b, <2>0, <3>3
  <2>1. ASSUME NEW s \in Scheduler, AcquireNowait(s) PROVE PermitInv'
    BY <2>1, <2>a, <2>b DEF AcquireNowait
  <2>2. ASSUME NEW c \in Client, AcquireAtOnce(c) PROVE PermitInv'
    BY <2>2, <2>a, <2>b DEF AcquireAtOnce
  <2>3. ASSUME NEW c \in Client, AcquireBlocks(c) PROVE PermitInv'
    <3>1. Owners' = Owners
      BY <2>3 DEF AcquireBlocks, Owners, Holding, Granted
    <3> QED BY <2>3, <3>1, <2>a DEF AcquireBlocks
  <2>4. ASSUME NEW c \in Client, Resume(c) PROVE PermitInv'
    <3>1. Owners' = Owners
      BY <2>4 DEF Resume, Owners, Holding, Granted
    <3> QED BY <2>4, <3>1, <2>a DEF Resume
  <2>5. ASSUME NEW c \in Client, Cancel(c) PROVE PermitInv'
    <3>1. Owners' = Owners
      BY <2>5 DEF Cancel, Owners, Holding, Granted
    <3> QED BY <2>5, <3>1, <2>a DEF Cancel
  <2>6. ASSUME NEW c \in Client, HandleCancel(c) PROVE PermitInv'
    <3>0. cancelled' # {}
      BY <2>6 DEF HandleCancel
    <3>1. Cardinality(Owners \ {c}) <= Cardinality(Owners)
      BY FiniteOwners, FS_Subset
    <3>2. Cardinality(Owners \ {c}) \in Nat
      BY FiniteOwners, FS_Subset, FS_CardinalityType
    <3>3. CASE count > 0 /\ WakeupNext(count - 1)
      <4>1. count - 1 \in Nat
        BY <3>3
      <4>2. fut[c] # "pending" /\ pc' = [pc EXCEPT ![c] = "done"]
        BY <2>6 DEF HandleCancel, QueueInv
      <4>3. count' + Cardinality(Owners') = (count - 1) + Cardinality(Owners \ {c})
        BY <3>3, <4>1, <4>2, WakeupOwners
      <4> QED BY <2>0, <3>0, <3>1, <3>2, <4>1, <4>3
              DEF PermitInv, NeverOvercommitted, ConservedWithoutCancel
    <3>4. CASE count = 0 /\ UNCHANGED <<count, waiters, fut>>
      <4>1. Owners' = Owners \ {c}
        BY <2>6, <3>4 DEF HandleCancel, Owners, Holding, Granted
      <4> QED BY <2>0, <3>0, <3>1, <3>2, <3>4, <4>1
              DEF PermitInv, NeverOvercommitted, ConservedWithoutCancel
    <3> QED BY <2>6, <3>3, <3>4 DEF HandleCancel
  <2>7. ASSUME NEW u \in User, Release(u) PROVE PermitInv'
    <3>1. count + 1 \in Nat /\ WakeupNext(count + 1)
      BY <2>7 DEF Release
    <3>2. u \in Client => fut[u] # "pending"
      BY <2>7 DEF Release, QueueInv
    <3>3. \E left \in {"idle", "done"} : pc' = [pc EXCEPT ![u] = left]
      BY <2>7 DEF Release
    <3>4. count' + Cardinality(Owners') = (count + 1) + Cardinality(Owners \ {u})
      BY <3>1, <3>2, <3>3, WakeupOwners
    <3>5. u \in Owners
      BY <2>7 DEF Release, Owners, Holding
    <3>6. Cardinality(Owners \ {u}) = Cardinality(Owners) - 1
      BY <3>5, FiniteOwners, FS_RemoveElement
    <3> QED BY <2>0, <2>7, <2>a, <3>4, <3>6 DEF Release
  <2>8. CASE ClearReleased
    <3>1. Owners' = Owners
      BY <2>8 DEF ClearReleased, Owners, Holding, Granted
    <3> QED BY <2>8, <3>1, <2>a DEF ClearReleased
  <2>9. CASE UNCHANGED vars
    <3>1. Owners' = Owners
      BY <2>9 DEF vars, Owners, Holding, Granted
    <3> QED BY <2>9, <3>1, <2>a DEF vars
  <2> QED BY <2>1, <2>2, <2>3, <2>4, <2>5, <2>6, <2>7, <2>8, <2>9 DEF Next
<1> QED BY <1>1, <1>2, SemaphoreTypeOK, QueueInvHolds, PTL DEF Spec

(* Safety: the users inside and the permits on their way to a client never *)
(* exceed `permits', whatever is cancelled and whenever (resources.py:21-58). *)
THEOREM SemaphoreNeverOvercommitted == Spec => []NeverOvercommitted
BY PermitInvHolds, PTL DEF PermitInv

(* Safety: as long as no waiter was cancelled no permit is lost, with both *)
(* kinds of acquire mixed in any order (resources.py:21-58).               *)
THEOREM SemaphoreConservedWithoutCancel == Spec => []ConservedWithoutCancel
BY PermitInvHolds, PTL DEF PermitInv

-----------------------------------------------------------------------------
(* The semaphore is a pool of permits.                                     *)

(* A future is in the deque as long as nobody has granted it: a client     *)
(* that waits undisturbed can be found there, and only once, and what else *)
(* is there was cancelled.                                                 *)
LineInv ==
  /\ \A c \in Client : fut[c] = "pending" => pc[c] = "waiting" /\ c \notin cancelled
  /\ \A c \in Client : fut[c] = "pending" => \E i \in DOMAIN waiters : waiters[i] = c
  /\ \A c \in Client : fut[c] = "cancelled" => c \in cancelled
  /\ \A c \in Client : pc[c] = "waiting" => fut[c] # "none"
  /\ \A i \in DOMAIN waiters : fut[waiters[i]] \in {"pending", "cancelled"}
  /\ \A i, j \in DOMAIN waiters : waiters[i] = waiters[j] => i = j

InLine(w, x) == \E i \in DOMAIN w : w[i] = x
Behind(w, x, y) == \E i, j \in DOMAIN w : i < j /\ w[i] = x /\ w[j] = y

(* The line t is w without its first i members, in the same order.         *)
Shortens(t, w, i) ==
  /\ \A j, k \in DOMAIN t : t[j] = t[k] => j = k
  /\ \A k \in DOMAIN t : k + i \in DOMAIN w /\ t[k] = w[k + i]
  /\ \A k \in DOMAIN w : k > i => InLine(t, w[k])
  /\ \A j, k \in DOMAIN w : i < j /\ j < k => Behind(t, w[j], w[k])
  /\ \A x, y : Behind(t, x, y) => Behind(w, x, y)

LEMMA LineWithoutFirst ==
  ASSUME NEW S, NEW w \in Seq(S), NEW i \in DOMAIN w,
         \A j, k \in DOMAIN w : w[j] = w[k] => j = k
  PROVE  /\ SubSeq(w, i + 1, Len(w)) \in Seq(S)
         /\ Shortens(SubSeq(w, i + 1, Len(w)), w, i)
<1> DEFINE t == SubSeq(w, i + 1, Len(w))
<1>1. Len(w) \in Nat /\ i \in Nat /\ i \in 1 .. Len(w) /\ DOMAIN w = 1 .. Len(w)
  OBVIOUS
<1>2. t \in Seq(S) /\ DOMAIN t = 1 .. (Len(w) - i)
  BY <1>1
<1> HIDE DEF t
<1>t. \A k \in DOMAIN t : t[k] = w[k + i]
  BY <1>1, <1>2 DEF t
<1>3. \A k \in DOMAIN t : k \in Nat /\ k + i \in DOMAIN w /\ t[k] = w[k + i]
  BY <1>1, <1>2, <1>t
<1>4. \A j, k \in DOMAIN t : t[j] = t[k] => j = k
  <2> SUFFICES ASSUME NEW j \in DOMAIN t, NEW k \in DOMAIN t, t[j] = t[k] PROVE j = k
    OBVIOUS
  <2>1. j + i = k + i
    BY <1>3
  <2> QED BY <2>1, <1>1, <1>3
<1>5. \A k \in DOMAIN w : k > i => k - i \in DOMAIN t /\ t[k - i] = w[k]
  <2> SUFFICES ASSUME NEW k \in DOMAIN w, k > i PROVE k - i \in DOMAIN t /\ t[k - i] = w[k]
    OBVIOUS
  <2>1. k - i \in DOMAIN t
    BY <1>1, <1>2
  <2>2. (k - i) + i = k
    BY <1>1
  <2> QED BY <2>1, <2>2, <1>3
<1>6. \A k \in DOMAIN w : k > i => InLine(t, w[k])
  BY <1>5 DEF InLine
<1>7. ASSUME NEW j \in DOMAIN w, NEW k \in DOMAIN w, i < j, j < k
      PROVE  Behind(t, w[j], w[k])
  <2>1. j - i < k - i /\ i < k
    BY <1>1, <1>7
  <2> QED BY <2>1, <1>5, <1>7 DEF Behind
<1>8. ASSUME NEW x, NEW y, Behind(t, x, y) PROVE Behind(w, x, y)
  <2>1. PICK j \in DOMAIN t, k \in DOMAIN t : j < k /\ t[j] = x /\ t[k] = y
    BY <1>8 DEF Behind
  <2>2. j + i < k + i
    BY <2>1, <1>1, <1>3
  <2> QED BY <2>1, <2>2, <1>3 DEF Behind
<1>9. Shortens(t, w, i)
  BY <1>3, <1>4, <1>6, <1>7, <1>8 DEF Shortens
<1> QED BY <1>2, <1>9 DEF t

(* Who joins a line is behind everybody.                                   *)
Lengthens(t, w, c) ==
  /\ \A j, k \in DOMAIN t : t[j] = t[k] => j = k
  /\ \A x : InLine(t, x) <=> InLine(w, x) \/ x = c
  /\ \A x, y : Behind(t, x, y) <=> Behind(w, x, y) \/ (InLine(w, x) /\ y = c)

LEMMA LineWithLast ==
  ASSUME NEW S, NEW w \in Seq(S), NEW c \in S, ~InLine(w, c),
         \A j, k \in DOMAIN w : w[j] = w[k] => j = k
  PROVE  Append(w, c) \in Seq(S) /\ Lengthens(Append(w, c), w, c)
<1> DEFINE t == Append(w, c)
           n == Len(w) + 1
<1>1. /\ t \in Seq(S)
      /\ n \in Nat
      /\ DOMAIN w = 1 .. Len(w)
      /\ DOMAIN t = DOMAIN w \union {n}
      /\ t[n] = c
      /\ \A i \in DOMAIN w : i \in Nat /\ i < n /\ t[i] = w[i]
  OBVIOUS
<1> HIDE DEF n, t
<1>2. \A x : InLine(t, x) <=> InLine(w, x) \/ x = c
  BY <1>1 DEF InLine
<1>3. ASSUME NEW x, NEW y, Behind(t, x, y) PROVE Behind(w, x, y) \/ (InLine(w, x) /\ y = c)
  <2>1. PICK i \in DOMAIN t, j \in DOMAIN t : i < j /\ t[i] = x /\ t[j] = y
    BY <1>3 DEF Behind
  <2>2. i \in DOMAIN w
    BY <2>1, <1>1
  <2> QED BY <2>1, <2>2, <1>1 DEF Behind, InLine
<1>4. ASSUME NEW x, NEW y, Behind(w, x, y) PROVE Behind(t, x, y)
  <2>1. PICK i \in DOMAIN w, j \in DOMAIN w : i < j /\ w[i] = x /\ w[j] = y
    BY <1>4 DEF Behind
  <2>2. i \in DOMAIN t /\ j \in DOMAIN t /\ t[i] = x /\ t[j] = y
    BY <2>1, <1>1
  <2> QED BY <2>1, <2>2 DEF Behind
<1>5. ASSUME NEW x, InLine(w, x) PROVE Behind(t, x, c)
  <2>1. PICK i \in DOMAIN w : w[i] = x
    BY <1>5 DEF InLine
  <2>2. i \in DOMAIN t /\ n \in DOMAIN t /\ i < n /\ t[i] = x /\ t[n] = c
    BY <2>1, <1>1
  <2> QED BY <2>2 DEF Behind
<1>6. \A j, k \in DOMAIN t : t[j] = t[k] => j = k
  BY <1>1 DEF InLine
<1>7. Lengthens(t, w, c)
  BY <1>2, <1>3, <1>4, <1>5, <1>6 DEF Lengthens
<1> QED BY <1>1, <1>7 DEF t

-----------------------------------------------------------------------------
(* What the steps of the semaphore do to the pool.                         *)

LEMMA NobodyWaits ==
  ASSUME TypeOK, LineInv
  PROVE  Waiting = {} <=> Live = {}
BY DEF TypeOK, LineInv, Waiting, Live

(* The first live future of the deque belongs to the first in the queue;   *)
(* behind it the order stays what it was.                                  *)
HeadServed(v, t) ==
  /\ v \in Client
  /\ Pool!First(v)
  /\ t \in Seq(Client)
  /\ \A j, k \in DOMAIN t : t[j] = t[k] => j = k
  /\ \A k \in DOMAIN t : t[k] # v /\ fut[t[k]] \in {"pending", "cancelled"}
  /\ \A x \in Waiting \ {v} : InLine(t, x)
  /\ \A x, y \in Waiting \ {v} : Behind(t, x, y) <=> <<x, y>> \in Ahead

LEMMA FirstLive ==
  ASSUME TypeOK, LineInv, NEW i \in Live, \A j \in Live : i <= j
  PROVE  HeadServed(waiters[i], SubSeq(waiters, i + 1, Len(waiters)))
<1> DEFINE v == waiters[i]
           t == SubSeq(waiters, i + 1, Len(waiters))
<1>1. i \in DOMAIN waiters /\ i \in Nat /\ v \in Client /\ fut[v] = "pending"
  BY DEF TypeOK, Live
<1>2. \A j, k \in DOMAIN waiters : waiters[j] = waiters[k] => j = k
  BY DEF LineInv
<1>3. t \in Seq(Client) /\ Shortens(t, waiters, i)
  <2>1. waiters \in Seq(Client)
    BY DEF TypeOK
  <2> QED BY <1>1, <1>2, <2>1, LineWithoutFirst
<1> HIDE DEF t
<1>t. /\ \A j, k \in DOMAIN t : t[j] = t[k] => j = k
      /\ \A k \in DOMAIN t : k + i \in DOMAIN waiters /\ t[k] = waiters[k + i]
      /\ \A k \in DOMAIN waiters : k > i => InLine(t, waiters[k])
      /\ \A j, k \in DOMAIN waiters : i < j /\ j < k => Behind(t, waiters[j], waiters[k])
      /\ \A x, y : Behind(t, x, y) => Behind(waiters, x, y)
  BY <1>3 DEF Shortens
<1>4. ASSUME NEW x \in Waiting \ {v}
      PROVE  \E k \in DOMAIN waiters : k > i /\ k \in Nat /\ waiters[k] = x
  <2>1. PICK k \in DOMAIN waiters : waiters[k] = x
    BY <1>4 DEF LineInv, Waiting
  <2>2. k \in Live /\ k # i
    BY <1>4, <2>1 DEF Waiting, Live
  <2>3. k \in Nat /\ i <= k
    BY <2>2 DEF TypeOK, Live
  <2> QED BY <1>1, <2>1, <2>2, <2>3
<1>5. Pool!First(v)
  <2>1. v \in Waiting
    BY <1>1 DEF Waiting
  <2>2. ASSUME NEW x \in Waiting, <<x, v>> \in Ahead PROVE FALSE
    <3>1. PICK j \in DOMAIN waiters, k \in DOMAIN waiters :
            j < k /\ waiters[j] = x /\ waiters[k] = v
      BY <2>2 DEF Ahead
    <3>2. k = i
      BY <3>1, <1>1, <1>2
    <3>3. j \in Live
      BY <3>1, <2>2 DEF Waiting, Live
    <3>4. i <= j /\ j \in Nat
      BY <3>3 DEF TypeOK, Live
    <3> QED BY <3>1, <3>2, <3>4, <1>1
  <2> QED BY <2>1, <2>2 DEF Pool!First
<1>6. ASSUME NEW k \in DOMAIN t PROVE t[k] # v /\ fut[t[k]] \in {"pending", "cancelled"}
  <2>1. k \in Nat /\ k # 0
    BY <1>3, <1>t
  <2>2. k + i # i
    BY <1>1, <2>1
  <2>3. k + i \in DOMAIN waiters /\ t[k] = waiters[k + i]
    BY <1>3, <1>t
  <2>4. fut[t[k]] \in {"pending", "cancelled"}
    BY <2>3 DEF LineInv
  <2>5. t[k] # v
    BY <1>1, <1>2, <2>2, <2>3
  <2> QED BY <2>4, <2>5
<1>7. \A x \in Waiting \ {v} : InLine(t, x)
  BY <1>t, <1>4
<1>8. ASSUME NEW x \in Waiting \ {v}, NEW y \in Waiting \ {v}
      PROVE  Behind(t, x, y) <=> <<x, y>> \in Ahead
  <2>1. <<x, y>> \in Ahead <=> Behind(waiters, x, y)
    BY DEF Ahead, Behind
  <2>2. ASSUME Behind(waiters, x, y) PROVE Behind(t, x, y)
    <3>1. PICK j \in DOMAIN waiters, k \in DOMAIN waiters :
            j < k /\ waiters[j] = x /\ waiters[k] = y
      BY <2>2 DEF Behind
    <3>2. j > i
      BY <3>1, <1>2, <1>4
    <3> QED BY <3>1, <3>2, <1>1, <1>t
  <2> QED BY <1>t, <2>1, <2>2
<1>9. HeadServed(v, t)
  BY <1>1, <1>3, <1>t, <1>5, <1>6, <1>7, <1>8 DEF HeadServed
<1> QED BY <1>9 DEF t

(* u leaves while _wakeup_next() runs with n permits on the table.         *)
LEMMA WakeupPool ==
  ASSUME TypeOK, LineInv, NEW u \in User, NEW n \in Nat, WakeupNext(n),
         u \in Client => fut[u] # "pending", UNCHANGED cancelled,
         NEW stage \in {"idle", "done"}, pc' = [pc EXCEPT ![u] = stage]
  PROVE  /\ LineInv'
         /\ Leaving' = Leaving \ {u}
         /\ Holding' = Holding \ {u}
         /\ \/ /\ count' = n
               /\ n = 0 \/ Waiting = {}
               /\ Granted' = Granted \ {u} /\ Waiting' = Waiting /\ Ahead' = Ahead
            \/ /\ n > 0 /\ count' = n - 1
               /\ \E v \in Client : /\ Pool!First(v)
                                    /\ Granted' = (Granted \ {u}) \union {v}
                                    /\ Waiting' = Waiting \ {v}
                                    /\ Ahead' = Pool!Among(Waiting \ {v})
<1>0. Leaving' = Leaving \ {u} /\ Holding' = Holding \ {u}
  BY DEF Leaving, Holding, TypeOK, User
<1>1. CASE n = 0 /\ count' = n /\ UNCHANGED <<waiters, fut>>
  <2>1. Granted' = Granted \ {u} /\ Waiting' = Waiting
    BY <1>1 DEF Granted, Waiting, TypeOK, User
  <2>2. Ahead' = Ahead
    BY <1>1 DEF Ahead, Waiting
  <2>3. LineInv'
    BY <1>1 DEF LineInv, TypeOK, User
  <2> QED BY <1>0, <1>1, <2>1, <2>2, <2>3
<1>2. CASE n > 0 /\ Live = {} /\ count' = n /\ waiters' = <<>> /\ UNCHANGED fut
  <2>1. Waiting = {}
    BY <1>2, NobodyWaits
  <2>2. Granted' = Granted \ {u} /\ Waiting' = Waiting
    BY <1>2 DEF Granted, Waiting, TypeOK, User
  <2>3. Ahead' = Ahead
    BY <2>1, <2>2 DEF Ahead
  <2>4. \A c \in Client : fut'[c] # "pending"
    BY <2>1, <2>2 DEF Waiting
  <2>5. LineInv'
    BY <1>2, <2>4 DEF LineInv, TypeOK, User
  <2> QED BY <1>0, <1>2, <2>1, <2>2, <2>3, <2>5
<1>3. ASSUME n > 0, NEW i \in Live, \A j \in Live : i <= j, count' = n - 1,
             waiters' = SubSeq(waiters, i + 1, Len(waiters)),
             fut' = [fut EXCEPT ![waiters[i]] = "granted"]
      PROVE  /\ LineInv'
             /\ \E v \in Client : /\ Pool!First(v)
                                  /\ Granted' = (Granted \ {u}) \union {v}
                                  /\ Waiting' = Waiting \ {v}
                                  /\ Ahead' = Pool!Among(Waiting \ {v})
  <2> DEFINE v == waiters[i]
  <2>0. HeadServed(v, waiters')
    BY <1>3, FirstLive
  <2>1. /\ v \in Client
        /\ Pool!First(v)
        /\ waiters' \in Seq(Client)
        /\ \A j, k \in DOMAIN waiters' : waiters'[j] = waiters'[k] => j = k
        /\ \A k \in DOMAIN waiters' :
             waiters'[k] # v /\ fut[waiters'[k]] \in {"pending", "cancelled"}
        /\ \A x \in Waiting \ {v} : InLine(waiters', x)
        /\ \A x, y \in Waiting \ {v} : Behind(waiters', x, y) <=> <<x, y>> \in Ahead
    BY <2>0 DEF HeadServed
  <2>2. fut' = [fut EXCEPT ![v] = "granted"] /\ fut[v] = "pending"
    BY <1>3 DEF Live
  <2> HIDE DEF v
  <2>3. v # u /\ pc[v] = "waiting" /\ pc'[v] = "waiting"
    BY <2>1, <2>2 DEF LineInv, TypeOK, User
  <2>4. Waiting' = Waiting \ {v}
    BY <2>2 DEF Waiting, TypeOK
  <2>5. Granted' = (Granted \ {u}) \union {v}
    BY <2>1, <2>2, <2>3 DEF Granted, TypeOK, User
  <2>6. Ahead' = Pool!Among(Waiting \ {v})
    <3>1. Ahead' = {p \in (Waiting \ {v}) \X (Waiting \ {v}) : Behind(waiters', p[1], p[2])}
      BY <2>4 DEF Ahead, Behind
    <3>2. Pool!Among(Waiting \ {v}) = Ahead \intersect ((Waiting \ {v}) \X (Waiting \ {v}))
      BY DEF Pool!Among
    <3>3. \A p \in (Waiting \ {v}) \X (Waiting \ {v}) :
            Behind(waiters', p[1], p[2]) <=> p \in Ahead
      BY <2>1
    <3> QED BY <3>1, <3>2, <3>3
  <2>7. LineInv'
    <3>1. \A c \in Client : fut'[c] = "pending" =>
            pc'[c] = "waiting" /\ c \notin cancelled' /\ InLine(waiters', c)
      BY <2>1, <2>2 DEF LineInv, Waiting, TypeOK, User
    <3>2. \A c \in Client : /\ fut'[c] = "cancelled" => c \in cancelled'
                            /\ pc'[c] = "waiting" => fut'[c] # "none"
      BY <2>1, <2>2 DEF LineInv, TypeOK, User
    <3>3. \A k \in DOMAIN waiters' : fut'[waiters'[k]] \in {"pending", "cancelled"}
      BY <2>1, <2>2 DEF TypeOK
    <3> QED BY <2>1, <3>1, <3>2, <3>3 DEF LineInv, InLine
  <2> QED BY <2>1, <2>4, <2>5, <2>6, <2>7
<1> QED BY <1>0, <1>1, <1>2, <1>3 DEF WakeupNext

-----------------------------------------------------------------------------
(* Every step of the semaphore is a step of the pool, or none.             *)

PoolMove == LineInv' /\ [Pool!Next]_(Pool!vars)

LEMMA TakeMoves ==
  ASSUME TypeOK, LineInv, NoIdlePermit, NEW u \in User,
         pc[u] = "idle", count > 0, count' = count - 1, pc' = [pc EXCEPT ![u] = "holding"],
         UNCHANGED <<waiters, fut, cancelled>>
  PROVE  PoolMove
<1> USE DEF TypeOK, User
<1>1. Live = {}
  BY DEF NoIdlePermit
<1>2. Waiting = {}
  BY <1>1, NobodyWaits
<1>3. Pool!Outside(u)
  BY <1>2 DEF Pool!Outside, Holding, Granted, Leaving
<1>4. Holding' = Holding \union {u} /\ Granted' = Granted /\ Leaving' = Leaving
  BY DEF Holding, Granted, Leaving
<1>5. Waiting' = Waiting /\ Ahead' = Ahead
  BY DEF Waiting, Ahead
<1>6. Pool!Take(u)
  BY <1>2, <1>3, <1>4, <1>5 DEF Pool!Take
<1>7. LineInv'
  BY DEF LineInv
<1> QED BY <1>6, <1>7 DEF PoolMove, Pool!Next

LEMMA QueueMoves ==
  ASSUME TypeOK, LineInv, NEW c \in Client \ cancelled, AcquireBlocks(c)
  PROVE  PoolMove
<1> USE DEF TypeOK, User
<1>1. /\ pc[c] = "idle" /\ count = 0 /\ waiters' = Append(waiters, c)
      /\ fut' = [fut EXCEPT ![c] = "pending"] /\ pc' = [pc EXCEPT ![c] = "waiting"]
      /\ UNCHANGED <<count, cancelled>>
  BY DEF AcquireBlocks
<1>2. fut[c] \notin {"pending", "cancelled"}
  BY <1>1 DEF LineInv
<1>3. ~InLine(waiters, c)
  BY <1>2 DEF LineInv, InLine
<1>4. c \notin Waiting /\ \A x \in Waiting : InLine(waiters, x)
  BY <1>2 DEF Waiting, LineInv, InLine
<1>5. \A j, k \in DOMAIN waiters : waiters[j] = waiters[k] => j = k
  BY DEF LineInv
<1>6. /\ waiters' \in Seq(Client)
      /\ \A x : InLine(waiters', x) <=> InLine(waiters, x) \/ x = c
      /\ \A x, y : Behind(waiters', x, y)
                     <=> Behind(waiters, x, y) \/ (InLine(waiters, x) /\ y = c)
      /\ \A j, k \in DOMAIN waiters' : waiters'[j] = waiters'[k] => j = k
  <2>1. waiters' \in Seq(Client) /\ Lengthens(waiters', waiters, c)
    BY <1>1, <1>3, <1>5, LineWithLast
  <2> QED BY <2>1 DEF Lengthens
<1>7. Holding' = Holding /\ Granted' = Granted /\ Leaving' = Leaving
  BY <1>1, <1>2 DEF Holding, Granted, Leaving
<1>8. Waiting' = Waiting \union {c}
  BY <1>1 DEF Waiting
<1>9. Ahead' = Ahead \union (Waiting \X {c})
  <2>1. \A x, y : Behind(waiters, x, y) => InLine(waiters, x) /\ InLine(waiters, y)
    BY DEF Behind, InLine
  <2>2. Ahead' = {p \in (Waiting \union {c}) \X (Waiting \union {c}) :
                    Behind(waiters', p[1], p[2])}
    BY <1>8 DEF Ahead, Behind
  <2>3. Ahead = {p \in Waiting \X Waiting : Behind(waiters, p[1], p[2])}
    BY DEF Ahead, Behind
  <2>4. ASSUME NEW x \in Waiting \union {c}, NEW y \in Waiting \union {c}
        PROVE  <<x, y>> \in Ahead' <=> <<x, y>> \in Ahead \union (Waiting \X {c})
    <3>1. <<x, y>> \in Ahead' <=> Behind(waiters, x, y) \/ (InLine(waiters, x) /\ y = c)
      BY <1>6, <2>2
    <3>2. <<x, y>> \in Ahead <=> x # c /\ y # c /\ Behind(waiters, x, y)
      BY <1>4, <2>3
    <3> QED BY <1>3, <1>4, <2>1, <3>1, <3>2
  <2>5. Ahead \union (Waiting \X {c}) \subseteq (Waiting \union {c}) \X (Waiting \union {c})
    BY <2>3
  <2> QED BY <2>2, <2>4, <2>5
<1>10. Pool!Outside(c)
  BY <1>1, <1>4 DEF Pool!Outside, Holding, Granted, Leaving
<1>11. Pool!Queue(c)
  BY <1>1, <1>7, <1>8, <1>9, <1>10 DEF Pool!Queue
<1>12. LineInv'
  <2>1. \A d \in Client : fut'[d] = "pending" =>
          pc'[d] = "waiting" /\ d \notin cancelled' /\ InLine(waiters', d)
    BY <1>1, <1>4, <1>6 DEF LineInv, Waiting
  <2>2. \A d \in Client : /\ fut'[d] = "cancelled" => d \in cancelled'
                          /\ pc'[d] = "waiting" => fut'[d] # "none"
    BY <1>1 DEF LineInv
  <2>3. \A x \in Client : InLine(waiters', x) => fut'[x] \in {"pending", "cancelled"}
    BY <1>1, <1>6 DEF LineInv, InLine
  <2>4. \A k \in DOMAIN waiters' : waiters'[k] \in Client /\ InLine(waiters', waiters'[k])
    BY <1>6 DEF InLine
  <2> QED BY <1>6, <2>1, <2>2, <2>3, <2>4 DEF LineInv, InLine
<1> QED BY <1>11, <1>12 DEF PoolMove, Pool!Next

LEMMA ResumeMoves ==
  ASSUME TypeOK, LineInv, NEW c \in Client, Resume(c)
  PROVE  PoolMove
<1> USE DEF TypeOK, User, Resume
<1>1. c \in Granted \ Leaving
  BY DEF Granted, Leaving
<1>2. /\ Holding' = Holding \union {c} /\ Granted' = Granted \ {c}
      /\ Leaving' = Leaving /\ Waiting' = Waiting
  BY DEF Holding, Granted, Leaving, Waiting
<1>3. Ahead' = Ahead
  BY DEF Ahead, Waiting
<1>4. Pool!Enter(c)
  BY <1>1, <1>2, <1>3 DEF Pool!Enter
<1>5. LineInv'
  BY DEF LineInv
<1> QED BY <1>4, <1>5 DEF PoolMove, Pool!Next

LEMMA ReleaseMoves ==
  ASSUME TypeOK, LineInv, NoIdlePermit, NEW u \in User, Release(u)
  PROVE  PoolMove
<1>1. /\ count \in Nat /\ count + 1 \in Nat /\ WakeupNext(count + 1)
      /\ pc[u] = "holding" /\ UNCHANGED cancelled
      /\ u \in Client => fut[u] # "pending"
  BY DEF TypeOK, Release, LineInv
<1>2. \E stage \in {"idle", "done"} : pc' = [pc EXCEPT ![u] = stage]
  BY DEF Release
<1>3. u \in Holding /\ u \notin Granted /\ u \notin Leaving
  BY <1>1 DEF Holding, Granted, Leaving
<1>4. /\ LineInv'
      /\ Leaving' = Leaving /\ Holding' = Holding \ {u}
      /\ \/ /\ count' = count + 1
            /\ count + 1 = 0 \/ Waiting = {}
            /\ Granted' = Granted \ {u} /\ Waiting' = Waiting /\ Ahead' = Ahead
         \/ /\ count' = (count + 1) - 1
            /\ \E v \in Client : /\ Pool!First(v)
                                 /\ Granted' = (Granted \ {u}) \union {v}
                                 /\ Waiting' = Waiting \ {v}
                                 /\ Ahead' = Pool!Among(Waiting \ {v})
  <2>1. PICK stage \in {"idle", "done"} : pc' = [pc EXCEPT ![u] = stage]
    BY <1>2
  <2>2. Leaving \ {u} = Leaving
    BY <1>3
  <2> QED BY <1>1, <2>1, <2>2, WakeupPool
<1>5. CASE /\ count' = count + 1
           /\ count + 1 = 0 \/ Waiting = {}
           /\ Granted' = Granted \ {u} /\ Waiting' = Waiting /\ Ahead' = Ahead
  <2>1. Pool!Return(u)
    BY <1>1, <1>3, <1>4, <1>5 DEF Pool!Return
  <2> QED BY <1>4, <2>1 DEF PoolMove, Pool!Next
<1>6. ASSUME count' = (count + 1) - 1, NEW v \in Client, Pool!First(v),
             Granted' = (Granted \ {u}) \union {v}, Waiting' = Waiting \ {v},
             Ahead' = Pool!Among(Waiting \ {v})
      PROVE  PoolMove
  <2>1. Pool!HandOver(u, v) /\ v \in User
    BY <1>1, <1>3, <1>4, <1>6 DEF Pool!HandOver, User
  <2> QED BY <1>4, <2>1 DEF PoolMove, Pool!Next
<1> QED BY <1>4, <1>5, <1>6

LEMMA LeaveMoves ==
  ASSUME TypeOK, LineInv, NoIdlePermit, NEW c \in Client, HandleCancel(c)
  PROVE  PoolMove
<1>1. /\ c \in User /\ pc[c] = "waiting" /\ c \in cancelled /\ UNCHANGED cancelled
      /\ pc' = [pc EXCEPT ![c] = "done"] /\ count \in Nat /\ fut[c] # "pending"
  BY DEF TypeOK, User, HandleCancel, LineInv
<1>2. c \in Leaving /\ c \notin Holding
  BY <1>1 DEF Leaving, Holding
<1>3. CASE count > 0 /\ WakeupNext(count - 1)
  <2>1. count - 1 \in Nat /\ Live = {}
    BY <1>1, <1>3 DEF NoIdlePermit
  <2>2. \A v \in Client : ~Pool!First(v)
    BY <2>1, NobodyWaits DEF Pool!First
  <2>3. /\ LineInv'
        /\ Leaving' = Leaving \ {c} /\ Holding' = Holding \ {c}
        /\ count' = count - 1
        /\ Granted' = Granted \ {c} /\ Waiting' = Waiting /\ Ahead' = Ahead
    BY <1>1, <1>3, <2>1, <2>2, WakeupPool
  <2>4. Pool!Leave(c)
    BY <1>2, <1>3, <2>3 DEF Pool!Leave
  <2> QED BY <1>1, <2>3, <2>4 DEF PoolMove, Pool!Next
<1>4. CASE count = 0 /\ UNCHANGED <<count, waiters, fut>>
  <2>1. Leaving' = Leaving \ {c} /\ Holding' = Holding /\ Granted' = Granted \ {c}
    BY <1>1, <1>4 DEF Leaving, Holding, Granted, TypeOK, User
  <2>2. Waiting' = Waiting /\ Ahead' = Ahead
    BY <1>4 DEF Waiting, Ahead
  <2>3. Pool!Leave(c)
    BY <1>2, <1>4, <2>1, <2>2 DEF Pool!Leave
  <2>4. LineInv'
    BY <1>1, <1>4 DEF LineInv, TypeOK, User
  <2> QED BY <1>1, <2>3, <2>4 DEF PoolMove, Pool!Next
<1> QED BY <1>3, <1>4 DEF HandleCancel

(* Tasks are cancelled: the futures of those that wait are, and a task     *)
(* that is inside, or has not begun, learns of it later.                   *)
LEMMA CancelMoves ==
  ASSUME TypeOK, LineInv, NEW tasks \in SUBSET Client,
         cancelled' = cancelled \union tasks, UNCHANGED <<count, waiters, pc>>,
         fut' = [c \in Client |-> IF c \in tasks /\ pc[c] = "waiting" /\ fut[c] = "pending"
                                    THEN "cancelled" ELSE fut[c]]
  PROVE  PoolMove
<1> USE DEF TypeOK, User
<1> DEFINE users == {c \in tasks \ cancelled : pc[c] = "waiting"}
<1>1. users \subseteq Waiting \union Granted
  BY DEF LineInv, Waiting, Granted, FutureState
<1>2. Waiting' = Waiting \ users
  BY DEF LineInv, Waiting
<1>3. Leaving' = Leaving \union users
  BY DEF Leaving
<1>4. Holding' = Holding /\ Granted' = Granted
  BY DEF Holding, Granted
<1>5. Ahead' = Pool!Among(Waiting \ users)
  <2> HIDE DEF users
  <2>1. Ahead' = {p \in (Waiting \ users) \X (Waiting \ users) : Behind(waiters, p[1], p[2])}
    BY <1>2 DEF Ahead, Behind
  <2>2. Ahead = {p \in Waiting \X Waiting : Behind(waiters, p[1], p[2])}
    BY DEF Ahead, Behind
  <2> QED BY <2>1, <2>2 DEF Pool!Among
<1>6. users \in SUBSET User
  OBVIOUS
<1>7. LineInv'
  <2>1. \A c \in Client :
          /\ fut'[c] = "pending" => /\ pc'[c] = "waiting" /\ c \notin cancelled'
                                    /\ InLine(waiters', c)
          /\ fut'[c] = "cancelled" => c \in cancelled'
          /\ pc'[c] = "waiting" => fut'[c] # "none"
          /\ fut[c] \in {"pending", "cancelled"} => fut'[c] \in {"pending", "cancelled"}
    BY DEF LineInv, InLine
  <2>2. \A i \in DOMAIN waiters' : fut'[waiters'[i]] \in {"pending", "cancelled"}
    BY <2>1 DEF LineInv
  <2>3. \A i, j \in DOMAIN waiters' : waiters'[i] = waiters'[j] => i = j
    BY DEF LineInv
  <2> QED BY <2>1, <2>2, <2>3 DEF LineInv, InLine
<1> HIDE DEF users
<1>8. Pool!Cancel(users)
  BY <1>1, <1>2, <1>3, <1>4, <1>5 DEF Pool!Cancel
<1> QED BY <1>6, <1>7, <1>8 DEF PoolMove, Pool!Next

LEMMA StillMoves ==
  ASSUME LineInv, UNCHANGED <<count, waiters, fut, pc, cancelled>>
  PROVE  PoolMove
<1>1. /\ Holding' = Holding /\ Granted' = Granted /\ Leaving' = Leaving
      /\ Waiting' = Waiting /\ Ahead' = Ahead
  BY DEF Holding, Granted, Leaving, Waiting, Ahead
<1>2. LineInv'
  BY DEF LineInv
<1> QED BY <1>1, <1>2 DEF PoolMove, Pool!vars

(* Refinement: with its deque, its futures and both windows of a           *)
(* cancellation the semaphore is a pool of permits handed out first come,  *)
(* first served, in which only a cancelled waiter can lose a permit, its   *)
(* own and one more (resources.py:21-58).                                  *)
THEOREM SemaphoreImplementsPool == Spec => PoolContract
<1>1. Init => Pool!Init /\ LineInv
  <2> SUFFICES ASSUME Init PROVE Pool!Init /\ LineInv
    OBVIOUS
  <2>1. Holding = {} /\ Granted = {} /\ Leaving = {} /\ Waiting = {} /\ Ahead = {}
    BY DEF Init, Holding, Granted, Leaving, Waiting, Ahead, User
  <2>2. LineInv
    BY DEF Init, LineInv, User
  <2> QED BY <2>1, <2>2 DEF Init, Pool!Init
<1>2. ASSUME TypeOK, QueueInv, NoIdlePermit, LineInv, [Next]_vars PROVE PoolMove
  <2>1. ASSUME NEW s \in Scheduler, AcquireNowait(s) PROVE PoolMove
    BY <1>2, <2>1, TakeMoves DEF AcquireNowait, User
  <2>2. ASSUME NEW c \in Client, AcquireAtOnce(c) PROVE PoolMove
    BY <1>2, <2>2, TakeMoves DEF AcquireAtOnce, User
  <2>3. ASSUME NEW c \in Client, AcquireBlocks(c) PROVE PoolMove
    <3>1. c \notin cancelled
      BY <1>2, <2>3 DEF QueueInv, AcquireBlocks
    <3> QED BY <1>2, <2>3, <3>1, QueueMoves
  <2>4. ASSUME NEW c \in Client, Resume(c) PROVE PoolMove
    BY <1>2, <2>4, ResumeMoves
  <2>5. ASSUME NEW c \in Client, Cancel(c) PROVE PoolMove
    <3>1. {c} \in SUBSET Client /\ cancelled' = cancelled \union {c}
      BY <2>5 DEF Cancel
    <3>2. fut' = [d \in Client |-> IF d \in {c} /\ pc[d] = "waiting" /\ fut[d] = "pending"
                                     THEN "cancelled" ELSE fut[d]]
      <4> DEFINE after(d) == IF d = c /\ fut[d] = "pending" THEN "cancelled" ELSE fut[d]
      <4>1. fut \in [Client -> FutureState] /\ pc[c] = "waiting"
        BY <1>2, <2>5 DEF Cancel, TypeOK
      <4>2. fut' = [d \in Client |-> after(d)]
        BY <2>5, <4>1 DEF Cancel
      <4>3. \A d \in Client :
              after(d) = IF d \in {c} /\ pc[d] = "waiting" /\ fut[d] = "pending"
                           THEN "cancelled" ELSE fut[d]
        BY <4>1
      <4> HIDE DEF after
      <4> QED BY <4>2, <4>3
    <3>3. UNCHANGED <<count, waiters, pc>>
      BY <2>5 DEF Cancel
    <3> QED BY <1>2, <3>1, <3>2, <3>3, CancelMoves
  <2>6. ASSUME NEW c \in Client, HandleCancel(c) PROVE PoolMove
    BY <1>2, <2>6, LeaveMoves
  <2>7. ASSUME NEW u \in User, Release(u) PROVE PoolMove
    BY <1>2, <2>7, ReleaseMoves
  <2>8. CASE ClearReleased \/ UNCHANGED vars
    BY <1>2, <2>8, StillMoves DEF ClearReleased, vars
  <2> QED BY <1>2, <2>1, <2>2, <2>3, <2>4, <2>5, <2>6, <2>7, <2>8 DEF Next
<1>3. TypeOK /\ QueueInv /\ NoIdlePermit /\ LineInv /\ [Next]_vars
        => LineInv' /\ [Pool!Next]_(Pool!vars)
  BY <1>2 DEF PoolMove
<1> QED BY <1>1, <1>3, SemaphoreTypeOK, QueueInvHolds, SemaphoreNoIdlePermit, PTL
        DEF Spec, PoolContract, Pool!Spec
=============================================================================
