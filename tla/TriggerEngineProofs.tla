------------------------- MODULE TriggerEngineProofs -------------------------
(***************************************************************************)
(* Theorems about TriggerEngine, for any events, expressions, triggers,    *)
(* emissions, wait nodes and number of generations.                        *)
(***************************************************************************)
EXTENDS TriggerEngine, TLAPS

(* What the stages say about the rest: an emission that has not begun has  *)
(* no event, one that invokes was asked to, a firing one holds a trigger,  *)
(* nobody uses a generation before it is published, and a wait node that   *)
(* has not looked at the bits has no future.                               *)
StageInv ==
  /\ \A m \in Emission : pc[m] = "idle" => op[m] = NoOp
  /\ \A m \in Emission : pc[m] = "invoking" => op[m].kind = "manual"
  /\ \A m \in Emission : pc[m] \in {"firing", "consuming"} => trig[m] \in Trigger
  /\ \A x \in Task : gen[x] <= cur
  /\ loaded => cur < MaxGen
  /\ \A w \in Waiter : wpc[w] \in {"new", "ready"} => fut[w] = "none"

EngineInv == TypeOK /\ StageInv

-----------------------------------------------------------------------------
(***************************************************************************)
(* Types of what the helpers assign                                        *)
(***************************************************************************)
BitsTyped ==
  /\ mem' \in [Gen -> SUBSET Event]
  /\ sess' \in [Task -> Session]
  /\ due' \in [Gen -> SUBSET Trigger]

LEMMA OpenedType ==
  ASSUME NEW kind \in {"set", "clear"}, NEW e \in Event
  PROVE  Opened(kind, e) \in Session
BY DEF Opened, Session

LEMMA SetBitType ==
  ASSUME TypeOK, NEW x \in Task, NEW e \in Event, SetBit(x, e)
  PROVE  BitsTyped
<1>1. gen[x] \in Gen
  BY DEF TypeOK
<1>2. mem[gen[x]] \union {e} \in SUBSET Event
  BY <1>1 DEF TypeOK
<1>3. mem' \in [Gen -> SUBSET Event]
  BY <1>1, <1>2 DEF TypeOK, SetBit
<1>4. sess' \in [Task -> Session]
  BY OpenedType DEF TypeOK, SetBit
<1>5. due' \in [Gen -> SUBSET Trigger]
  BY <1>1 DEF TypeOK, SetBit
<1>. QED
  BY <1>3, <1>4, <1>5 DEF BitsTyped

LEMMA ClearBitType ==
  ASSUME TypeOK, NEW x \in Task, NEW e \in Event, NEW rest \in SUBSET Trigger,
         ClearBit(x, e, rest)
  PROVE  BitsTyped
<1>1. gen[x] \in Gen
  BY DEF TypeOK
<1>2. mem[gen[x]] \ {e} \in SUBSET Event
  BY <1>1 DEF TypeOK
<1>3. mem' \in [Gen -> SUBSET Event]
  BY <1>1, <1>2 DEF TypeOK, ClearBit
<1>4. sess' \in [Task -> Session]
  BY OpenedType DEF TypeOK, ClearBit
<1>5. due' \in [Gen -> SUBSET Trigger]
  BY <1>1 DEF TypeOK, ClearBit
<1>. QED
  BY <1>3, <1>4, <1>5 DEF BitsTyped

(* Only the session of x has changed, and it is none now.                  *)
LEMMA NoSessionType ==
  ASSUME TypeOK, NEW x \in Task,
         sess' = [sess EXCEPT ![x] = NoSession]
  PROVE  sess' \in [Task -> Session]
BY DEF TypeOK, Session

(* The variables an emission moves through, typed, with the trigger of a   *)
(* firing emission.                                                        *)
EmissionTyped(m) ==
  /\ BitsTyped
  /\ pc' \in [Emission -> EmissionStage]
  /\ todo' \in [Emission -> SUBSET (DOMAIN Listing)]
  /\ trig' \in [Emission -> Trigger \union {Run}]
  /\ spend' \in [Task -> SUBSET Event]
  /\ pc'[m] \in {"firing", "consuming"} => trig'[m] \in Trigger
  /\ pc'[m] \notin {"idle", "invoking"}
  /\ \A n \in Emission \ {m} : pc'[n] = pc[n] /\ trig'[n] = trig[n]

LEMMA EndsType ==
  ASSUME TypeOK, NEW m \in Emission, NEW how \in {"done", "raised", "broken"},
         Ends(m, how)
  PROVE  EmissionTyped(m)
<1>1. m \in Task
  BY DEF Task
<1>2. BitsTyped
  BY <1>1, NoSessionType DEF Ends, TypeOK, BitsTyped
<1>3. /\ pc' \in [Emission -> EmissionStage]
      /\ todo' \in [Emission -> SUBSET (DOMAIN Listing)]
      /\ trig' \in [Emission -> Trigger \union {Run}]
      /\ spend' \in [Task -> SUBSET Event]
  BY <1>1 DEF Ends, TypeOK, EmissionStage
<1>4. /\ pc'[m] = how
      /\ \A n \in Emission \ {m} : pc'[n] = pc[n] /\ trig'[n] = trig[n]
  BY DEF Ends, TypeOK
<1>. QED
  BY <1>2, <1>3, <1>4 DEF EmissionTyped

LEMMA FireType ==
  ASSUME TypeOK, NEW m \in Emission, NEW t \in Trigger,
         NEW rest \in SUBSET (DOMAIN Listing), Fire(m, t, rest)
  PROVE  EmissionTyped(m)
<1>1. m \in Task /\ gen[m] \in Gen
  BY DEF Task, TypeOK
<1>2. due[gen[m]] \ {t} \in SUBSET Trigger
  BY <1>1 DEF TypeOK
<1>3. BitsTyped
  <2>1. CASE Target[t] = Run
    <3>1. sess' \in [Task -> Session]
      BY <1>1, <2>1, NoSessionType DEF Fire
    <3>2. due' \in [Gen -> SUBSET Trigger]
      BY <1>1, <1>2, <2>1 DEF Fire, TypeOK
    <3>3. mem' \in [Gen -> SUBSET Event]
      BY <2>1 DEF Fire, TypeOK
    <3>. QED
      BY <3>1, <3>2, <3>3 DEF BitsTyped
  <2>2. CASE Target[t] # Run
    <3>1. Target[t] \in Event
      BY <2>2, TriggerAssumption
    <3>2. ClearBit(m, Target[t], due[gen[m]] \ {t})
      BY <2>2 DEF Fire
    <3>. QED
      BY <1>1, <1>2, <3>1, <3>2, ClearBitType
  <2>. QED
    BY <2>1, <2>2
<1>4. /\ pc' \in [Emission -> EmissionStage]
      /\ todo' \in [Emission -> SUBSET (DOMAIN Listing)]
      /\ trig' \in [Emission -> Trigger \union {Run}]
      /\ spend' \in [Task -> SUBSET Event]
      /\ pc'[m] = "firing" /\ trig'[m] = t
      /\ \A n \in Emission \ {m} : pc'[n] = pc[n] /\ trig'[n] = trig[n]
  BY <1>1 DEF Fire, TypeOK, EmissionStage
<1>. QED
  BY <1>3, <1>4 DEF EmissionTyped

LEMMA SweepType ==
  ASSUME TypeOK, NEW m \in Emission, NEW list \in SUBSET (DOMAIN Listing),
         Sweep(m, list)
  PROVE  EmissionTyped(m)
<1>1. CASE Ends(m, "done")
  BY <1>1, EndsType
<1>2. CASE \E i \in list : Fire(m, Listing[i], {j \in list : i < j})
  <2>1. PICK i \in list : Fire(m, Listing[i], {j \in list : i < j})
    BY <1>2
  <2>2. Listing[i] \in Trigger
    BY TriggerAssumption
  <2>. QED
    BY <2>1, <2>2, FireType
<1>. QED
  BY <1>1, <1>2 DEF Sweep

LEMMA ConsumeType ==
  ASSUME TypeOK, NEW m \in Emission, trig[m] \in Trigger,
         NEW tokens \in SUBSET Event, Consume(m, tokens)
  PROVE  EmissionTyped(m) /\ enabled' \in [Gen -> SUBSET Trigger]
<1>1. m \in Task /\ gen[m] \in Gen
  BY DEF Task, TypeOK
<1>2. CASE tokens = {} /\ Sweep(m, todo[m])
  <2>1. todo[m] \in SUBSET (DOMAIN Listing)
    BY DEF TypeOK
  <2>2. enabled' \in [Gen -> SUBSET Trigger]
    BY <1>1, <1>2 DEF TypeOK, Consume
  <2>. QED
    BY <1>2, <2>1, <2>2, SweepType
<1>3. CASE \E e \in tokens :
             /\ pc' = [pc EXCEPT ![m] = "consuming"]
             /\ spend' = [spend EXCEPT ![m] = tokens \ {e}]
             /\ ClearBit(m, e, due[gen[m]])
             /\ UNCHANGED <<enabled, todo, trig>>
  <2>1. PICK e \in tokens :
             /\ pc' = [pc EXCEPT ![m] = "consuming"]
             /\ spend' = [spend EXCEPT ![m] = tokens \ {e}]
             /\ ClearBit(m, e, due[gen[m]])
             /\ UNCHANGED <<enabled, todo, trig>>
    BY <1>3
  <2>2. e \in Event /\ due[gen[m]] \in SUBSET Trigger
    BY <1>1 DEF TypeOK
  <2>3. BitsTyped
    BY <1>1, <2>1, <2>2, ClearBitType
  <2>4. /\ pc' \in [Emission -> EmissionStage]
        /\ todo' \in [Emission -> SUBSET (DOMAIN Listing)]
        /\ trig' \in [Emission -> Trigger \union {Run}]
        /\ spend' \in [Task -> SUBSET Event]
        /\ pc'[m] = "consuming" /\ trig'[m] \in Trigger
        /\ \A n \in Emission \ {m} : pc'[n] = pc[n] /\ trig'[n] = trig[n]
    BY <1>1, <2>1 DEF TypeOK, EmissionStage
  <2>. QED
    BY <2>1, <2>3, <2>4 DEF EmissionTyped, TypeOK
<1>. QED
  BY <1>2, <1>3 DEF Consume

-----------------------------------------------------------------------------
(***************************************************************************)
(* Every step keeps EngineInv                                              *)
(***************************************************************************)
LEMMA ReadsKeep ==
  ASSUME EngineInv, NEW x \in Task, SessionReads(x)
  PROVE  EngineInv'
<1>1. sess[x] \in Session /\ sess[x] # NoSession
  BY DEF EngineInv, TypeOK, SessionReads, NoSession
<1>2. /\ sess[x].event \in Event
      /\ rows[sess[x].event] \in Nat
  BY <1>1 DEF Session, EngineInv, TypeOK
<1>3. [sess[x] EXCEPT !.key = rows[sess[x].event], !.at = "committing"] \in Session
  BY <1>1, <1>2 DEF Session
<1>4. sess' = [sess EXCEPT ![x] =
                 [sess[x] EXCEPT !.key = rows[sess[x].event], !.at = "committing"]]
  BY DEF SessionReads, EngineInv, TypeOK
<1>5. sess' \in [Task -> Session]
  BY <1>3, <1>4 DEF EngineInv, TypeOK
<1>. QED
  BY <1>5 DEF SessionReads, EngineInv, TypeOK, StageInv, engine, emission, node

LEMMA CommitsKeep ==
  ASSUME EngineInv, NEW x \in Task, SessionCommits(x)
  PROVE  EngineInv'
<1>1. sess[x] \in Session /\ sess[x] # NoSession
  BY DEF EngineInv, TypeOK, SessionCommits, NoSession
<1>2. \A at \in {"closed", "refused"} : [sess[x] EXCEPT !.at = at] \in Session
  BY <1>1 DEF Session
<1>3. PICK at \in {"closed", "refused"} : sess' = [sess EXCEPT ![x].at = at]
  BY DEF SessionCommits
<1>4. sess' = [sess EXCEPT ![x] = [sess[x] EXCEPT !.at = at]]
  BY <1>3 DEF EngineInv, TypeOK
<1>5. sess' \in [Task -> Session]
  BY <1>2, <1>4 DEF EngineInv, TypeOK
<1>6. rows' \in [Event -> Nat]
  <2>1. rows \in [Event -> Nat]
    BY DEF EngineInv, TypeOK
  <2>2. \A d \in Event : rows[d] + 1 \in Nat
    BY <2>1
  <2>. QED
    BY <2>1, <2>2 DEF SessionCommits
<1>. QED
  BY <1>5, <1>6 DEF SessionCommits, EngineInv, TypeOK, StageInv, engine, emission, node

LEMMA CallKeeps ==
  ASSUME EngineInv, NEW m \in Emission,
         \/ \E o \in Calls[m] : Begin(m, o)
         \/ TooDeep(m)
         \/ Invokes(m)
  PROVE  EngineInv'
<1>1. m \in Task
  BY DEF Task
<1>2. CASE \E o \in Calls[m] : Begin(m, o)
  <2>1. PICK o \in Calls[m] : Begin(m, o)
    BY <1>2
  <2>2. o \in Op
    BY TaskAssumption DEF Op
  <2>3. op' \in [Emission -> Op] /\ pc' \in [Emission -> EmissionStage]
    BY <2>1, <2>2 DEF Begin, EngineInv, TypeOK, EmissionStage
  <2>4. gen' \in [Task -> Gen] /\ \A x \in Task : gen'[x] <= cur
    BY <1>1, <2>1, GenAssumption DEF Begin, EngineInv, TypeOK, StageInv, Gen
  <2>5. \A n \in Emission :
          /\ pc'[n] \in {"firing", "consuming"} => trig[n] \in Trigger
          /\ pc'[n] = "idle" => op'[n] = NoOp
          /\ pc'[n] = "invoking" => op'[n].kind = "manual"
    BY <2>1 DEF Begin, EngineInv, TypeOK, StageInv
  <2>. QED
    BY <2>1, <2>3, <2>4, <2>5
    DEF Begin, EngineInv, TypeOK, StageInv, bits, engine, node
<1>3. CASE TooDeep(m)
  BY <1>3 DEF TooDeep, EngineInv, TypeOK, StageInv, EmissionStage, bits, engine, node
<1>4. CASE Invokes(m)
  BY <1>4 DEF Invokes, EngineInv, TypeOK, StageInv, EmissionStage, bits, engine, node
<1>. QED
  BY <1>2, <1>3, <1>4

LEMMA RecordedKeeps ==
  ASSUME EngineInv, NEW m \in Emission, Recorded(m)
  PROVE  EngineInv'
<1>1. m \in Task /\ gen[m] \in Gen
  BY DEF Task, EngineInv, TypeOK
<1>2. op[m].event \in Event
  BY DEF Recorded, EngineInv, TypeOK, Op, NoOp, Request
<1>3. due[gen[m]] \in SUBSET Trigger
  BY <1>1 DEF EngineInv, TypeOK
<1>4. BitsTyped
  BY <1>1, <1>2, <1>3, SetBitType, ClearBitType DEF Recorded, EngineInv
<1>5. /\ pc' \in [Emission -> EmissionStage]
      /\ \A n \in Emission :
           /\ pc'[n] \in {"firing", "consuming"} => trig[n] \in Trigger
           /\ pc'[n] = "idle" => op[n] = NoOp
           /\ pc'[n] = "invoking" => op[n].kind = "manual"
  BY DEF Recorded, EngineInv, TypeOK, StageInv, EmissionStage
<1>. QED
  BY <1>4, <1>5 DEF Recorded, BitsTyped, EngineInv, TypeOK, StageInv, engine, node

(* What the later steps of an emission have in common.                     *)
LEMMA EmissionKeeps ==
  ASSUME EngineInv, NEW m \in Emission, EmissionTyped(m),
         enabled' \in [Gen -> SUBSET Trigger],
         fired' \in [Emission -> SUBSET Trigger],
         fut' \in [Waiter -> FutureState],
         matched' \in [Waiter -> SUBSET Event],
         \A w \in Waiter : fut'[w] # fut[w] => fut[w] = "pending",
         UNCHANGED <<rows, cur, loaded, gen, op, wpc>>
  PROVE  EngineInv'
<1>1. TypeOK'
  BY DEF EmissionTyped, BitsTyped, EngineInv, TypeOK
<1>2. \A n \in Emission :
        /\ pc'[n] \in {"firing", "consuming"} => trig'[n] \in Trigger
        /\ pc'[n] = "idle" => op'[n] = NoOp
        /\ pc'[n] = "invoking" => op'[n].kind = "manual"
  BY DEF EmissionTyped, EngineInv, StageInv
<1>3. \A w \in Waiter : wpc'[w] \in {"new", "ready"} => fut'[w] = "none"
  BY DEF EngineInv, StageInv
<1>. QED
  BY <1>1, <1>2, <1>3 DEF EngineInv, StageInv

LEMMA StoredKeeps ==
  ASSUME EngineInv, NEW m \in Emission, Stored(m)
  PROVE  EngineInv'
<1>1. Affected(m) \in SUBSET (DOMAIN Listing)
  BY DEF Affected
<1>2. EmissionTyped(m)
  BY <1>1, SweepType DEF Stored, EngineInv
<1>3. /\ fut' \in [Waiter -> FutureState]
      /\ \A w \in Waiter : fut'[w] # fut[w] => fut[w] = "pending"
  BY DEF Stored, Woken, EngineInv, TypeOK, FutureState
<1>4. \A w \in Waiter : Tokens(WaitFor[w]) \in SUBSET Event
  BY TriggerAssumption DEF Tokens, Expression
<1>5. matched' \in [Waiter -> SUBSET Event]
  BY <1>4 DEF Stored, EngineInv, TypeOK
<1>. QED
  BY <1>2, <1>3, <1>5, EmissionKeeps DEF Stored, EngineInv, TypeOK, engine

LEMMA EndsKeeps ==
  ASSUME EngineInv, NEW m \in Emission, NEW how \in {"done", "raised", "broken"},
         Ends(m, how), UNCHANGED <<rows, engine, gen, op, fired, node>>
  PROVE  EngineInv'
<1>1. EmissionTyped(m)
  BY EndsType DEF EngineInv
<1>. QED
  BY <1>1, EmissionKeeps DEF EngineInv, TypeOK, engine, node

LEMMA ConsumeKeeps ==
  ASSUME EngineInv, NEW m \in Emission, FireReturns(m) \/ Consumed(m)
  PROVE  EngineInv'
<1>1. trig[m] \in Trigger /\ m \in Task
  BY DEF FireReturns, Consumed, EngineInv, StageInv, Task
<1>2. CASE FireReturns(m)
  <2>. DEFINE tokens == ((Tokens(WaitFor[trig[m]]) \intersect mem[gen[m]])
                          \ Withheld(gen[m])) \ Broadcast
  <2>1. tokens \in SUBSET Event
    BY <1>1 DEF EngineInv, TypeOK
  <2>2. Consume(m, tokens)
    BY <1>2 DEF FireReturns
  <2>3. EmissionTyped(m) /\ enabled' \in [Gen -> SUBSET Trigger]
    BY <1>1, <2>1, <2>2, ConsumeType DEF EngineInv
  <2>4. fired' \in [Emission -> SUBSET Trigger]
    BY <1>1, <1>2 DEF FireReturns, EngineInv, TypeOK
  <2>. QED
    BY <1>2, <2>3, <2>4, EmissionKeeps DEF FireReturns, EngineInv, TypeOK, node
<1>3. CASE Consumed(m)
  <2>1. spend[m] \in SUBSET Event
    BY <1>1 DEF EngineInv, TypeOK
  <2>2. EmissionTyped(m) /\ enabled' \in [Gen -> SUBSET Trigger]
    BY <1>1, <1>3, <2>1, ConsumeType DEF Consumed, EngineInv
  <2>. QED
    BY <1>3, <2>2, EmissionKeeps DEF Consumed, EngineInv, TypeOK, node
<1>. QED
  BY <1>2, <1>3

(* A wait node moves on to a stage in which it has looked at the bits.     *)
LEMMA NodeMovesKeeps ==
  ASSUME EngineInv, NEW w \in Waiter,
         NEW to \in NodeStage \ {"new", "ready"},
         wpc' = [wpc EXCEPT ![w] = to],
         fut' \in [Waiter -> FutureState],
         \A v \in Waiter \ {w} : fut'[v] = fut[v],
         matched' \in [Waiter -> SUBSET Event],
         spend' \in [Task -> SUBSET Event],
         BitsTyped,
         UNCHANGED <<rows, engine, gen, emission>>
  PROVE  EngineInv'
<1>1. TypeOK'
  BY DEF BitsTyped, EngineInv, TypeOK, engine, emission
<1>2. \A v \in Waiter : wpc'[v] \in {"new", "ready"} => fut'[v] = "none"
  BY DEF EngineInv, TypeOK, StageInv
<1>. QED
  BY <1>1, <1>2 DEF EngineInv, StageInv, engine, emission

LEMMA LeavesKeeps ==
  ASSUME EngineInv, NEW w \in Waiter, Leaves(w),
         UNCHANGED <<mem, rows, engine, gen, emission, due>>
  PROVE  EngineInv'
<1>1. w \in Task
  BY DEF Task
<1>2. BitsTyped
  BY <1>1, NoSessionType DEF Leaves, BitsTyped, EngineInv, TypeOK
<1>3. /\ fut' \in [Waiter -> FutureState]
      /\ \A v \in Waiter \ {w} : fut'[v] = fut[v]
      /\ matched' \in [Waiter -> SUBSET Event]
      /\ spend' \in [Task -> SUBSET Event]
  BY <1>1 DEF Leaves, EngineInv, TypeOK, FutureState
<1>4. "done" \in NodeStage \ {"new", "ready"}
  BY DEF NodeStage
<1>. QED
  BY <1>2, <1>3, <1>4, NodeMovesKeeps DEF Leaves

LEMMA SpendsKeeps ==
  ASSUME EngineInv, NEW w \in Waiter, Takes(w) \/ Spent(w)
  PROVE  EngineInv'
<1>1. w \in Task /\ gen[w] \in Gen
  BY DEF Task, EngineInv, TypeOK
<1>2. PICK tokens \in SUBSET Event : Spends(w, tokens)
  <2>1. spend[w] \in SUBSET Event
    BY <1>1 DEF EngineInv, TypeOK
  <2>. QED
    BY <2>1 DEF Takes, Spent
<1>3. UNCHANGED <<rows, engine, gen, emission>>
  BY DEF Takes, Spent
<1>4. CASE Leaves(w) /\ UNCHANGED <<mem, due>>
  BY <1>3, <1>4, LeavesKeeps
<1>5. CASE \E e \in tokens :
             /\ wpc' = [wpc EXCEPT ![w] = "consuming"]
             /\ spend' = [spend EXCEPT ![w] = tokens \ {e}]
             /\ ClearBit(w, e, due[gen[w]])
             /\ UNCHANGED <<fut, matched>>
  <2>1. PICK e \in tokens :
             /\ wpc' = [wpc EXCEPT ![w] = "consuming"]
             /\ spend' = [spend EXCEPT ![w] = tokens \ {e}]
             /\ ClearBit(w, e, due[gen[w]])
             /\ UNCHANGED <<fut, matched>>
    BY <1>5
  <2>2. due[gen[w]] \in SUBSET Trigger
    BY <1>1 DEF EngineInv, TypeOK
  <2>3. BitsTyped
    BY <1>1, <2>1, <2>2, ClearBitType DEF EngineInv
  <2>4. spend' \in [Task -> SUBSET Event]
    BY <1>1, <2>1 DEF EngineInv, TypeOK
  <2>5. "consuming" \in NodeStage \ {"new", "ready"}
    BY DEF NodeStage
  <2>. QED
    BY <1>3, <2>1, <2>3, <2>4, <2>5, NodeMovesKeeps DEF EngineInv, TypeOK
<1>. QED
  BY <1>2, <1>4, <1>5 DEF Spends

LEMMA NodeKeeps ==
  ASSUME EngineInv, NEW w \in Waiter,
         \/ RunStarts(w) \/ NodeStep(w)
         \/ WaitStopped(w) \/ TimesOut(w) \/ CancelNode(w)
  PROVE  EngineInv'
<1>1. w \in Task
  BY DEF Task
<1>2. UNCHANGED bits /\ UNCHANGED due => BitsTyped
  BY DEF bits, BitsTyped, EngineInv, TypeOK
<1>3. Tokens(WaitFor[w]) \in SUBSET Event
  BY TriggerAssumption DEF Tokens, Expression
<1>4. CASE RunStarts(w)
  <2>1. gen' \in [Task -> Gen] /\ \A x \in Task : gen'[x] <= cur
    BY <1>1, <1>4, GenAssumption DEF RunStarts, EngineInv, TypeOK, StageInv, Gen
  <2>2. /\ wpc' \in [Waiter -> NodeStage]
        /\ \A v \in Waiter : wpc'[v] \in {"new", "ready"} => fut[v] = "none"
    BY <1>4 DEF RunStarts, EngineInv, TypeOK, StageInv, NodeStage
  <2>. QED
    BY <1>4, <2>1, <2>2
    DEF RunStarts, EngineInv, TypeOK, StageInv, bits, engine, emission
<1>5. CASE PeekHits(w)
  <2>1. spend' \in [Task -> SUBSET Event]
    BY <1>1, <1>3, <1>5 DEF PeekHits, EngineInv, TypeOK
  <2>. QED
    BY <1>2, <1>5, <2>1, NodeMovesKeeps
    DEF PeekHits, EngineInv, TypeOK, NodeStage, bits
<1>6. CASE Registers(w)
  <2>1. /\ fut' \in [Waiter -> FutureState]
        /\ \A v \in Waiter \ {w} : fut'[v] = fut[v]
    BY <1>6 DEF Registers, EngineInv, TypeOK, FutureState
  <2>. QED
    BY <1>2, <1>6, <2>1, NodeMovesKeeps
    DEF Registers, EngineInv, TypeOK, NodeStage, bits
<1>7. CASE Announced(w)
  BY <1>2, <1>7, NodeMovesKeeps DEF Announced, EngineInv, TypeOK, NodeStage, bits
<1>8. CASE WaitReturns(w)
  BY <1>2, <1>8, NodeMovesKeeps DEF WaitReturns, EngineInv, TypeOK, NodeStage, bits
<1>9. CASE Resumes(w)
  <2>1. spend' \in [Task -> SUBSET Event]
    BY <1>1, <1>9 DEF Resumes, EngineInv, TypeOK
  <2>. QED
    BY <1>2, <1>9, <2>1, NodeMovesKeeps
    DEF Resumes, EngineInv, TypeOK, NodeStage, bits
<1>10. CASE TimesOut(w)
  BY <1>2, <1>10, NodeMovesKeeps DEF TimesOut, EngineInv, TypeOK, NodeStage, bits
<1>11. CASE Expires(w) \/ WaitStopped(w) \/ CancelNode(w)
  BY <1>11, LeavesKeeps DEF Expires, WaitStopped, CancelNode
<1>. QED
  BY <1>4, <1>5, <1>6, <1>7, <1>8, <1>9, <1>10, <1>11, SpendsKeeps DEF NodeStep

LEMMA ReloadKeeps ==
  ASSUME EngineInv, Load \/ Publish
  PROVE  EngineInv'
<1>1. CASE Load
  <2>1. mem' \in [Gen -> SUBSET Event]
    BY <1>1 DEF Load, EngineInv, TypeOK
  <2>. QED
    BY <1>1, <2>1, GenAssumption
    DEF Load, EngineInv, TypeOK, StageInv, Gen, emission, node
<1>2. CASE Publish
  <2>1. cur' \in Gen /\ \A x \in Task : gen[x] <= cur'
    BY <1>2, GenAssumption DEF Publish, EngineInv, TypeOK, StageInv, Gen
  <2>. QED
    BY <1>2, <2>1 DEF Publish, EngineInv, TypeOK, StageInv, bits, emission, node
<1>. QED
  BY <1>1, <1>2

LEMMA EngineInvStep ==
  ASSUME EngineInv, [Next]_vars
  PROVE  EngineInv'
<1>1. ASSUME NEW m \in Emission,
             \/ \E o \in Calls[m] : Begin(m, o)
             \/ TooDeep(m) \/ EmissionStep(m) \/ FireRaises(m) \/ CancelEmission(m)
      PROVE  EngineInv'
  <2>1. Completed(m) \/ Refused(m) \/ FireRaises(m) \/ CancelEmission(m)
          => EngineInv'
    BY EndsKeeps DEF Completed, Refused, FireRaises, CancelEmission
  <2>. QED
    BY <1>1, <2>1, CallKeeps, RecordedKeeps, StoredKeeps, ConsumeKeeps
    DEF EmissionStep
<1>2. CASE UNCHANGED vars
  BY <1>2 DEF vars, bits, engine, emission, node, EngineInv, TypeOK, StageInv
<1>. QED
  BY <1>1, <1>2, NodeKeeps, ReadsKeep, CommitsKeep, ReloadKeeps DEF Next

LEMMA EngineInvInit ==
  ASSUME Init
  PROVE  EngineInv
<1>1. TypeOK
  <2>1. 1 \in Gen
    BY GenAssumption DEF Gen
  <2>2. NoSession \in Session /\ NoOp \in Op
    BY DEF Session, Op
  <2>3. "idle" \in EmissionStage /\ "new" \in NodeStage /\ "none" \in FutureState
    BY DEF EmissionStage, NodeStage, FutureState
  <2>. QED
    BY <2>1, <2>2, <2>3 DEF Init, TypeOK
<1>2. StageInv
  BY GenAssumption DEF Init, StageInv
<1>. QED
  BY <1>1, <1>2 DEF EngineInv

LEMMA EngineInvHolds == Spec => []EngineInv
  BY EngineInvInit, EngineInvStep, PTL DEF Spec

(* The state stays well typed: in particular no event without a name enters*)
(* the rows or the bits, and no generation beyond the bound is published.  *)
THEOREM EngineTypeOK == Spec => []TypeOK
  BY EngineInvHolds, PTL DEF EngineInv

-----------------------------------------------------------------------------
(***************************************************************************)
(* No wakeup is lost                                                       *)
(***************************************************************************)
LEMMA SatGrows ==
  ASSUME NEW x, NEW S, NEW T, S \subseteq T, Sat(x, S)
  PROVE  Sat(x, T)
BY DEF Sat

LEMMA SatNeedsToken ==
  ASSUME NEW x, NEW S, NEW e, Sat(x, S \union {e}), ~ Sat(x, S)
  PROVE  e \in Tokens(x)
BY DEF Sat, Tokens

MemShrinks == \A g \in Gen : mem'[g] \subseteq mem[g]

LEMMA ClearBitShrinks ==
  ASSUME TypeOK, NEW x \in Task, NEW e, NEW rest, ClearBit(x, e, rest)
  PROVE  MemShrinks
BY DEF TypeOK, ClearBit, MemShrinks

LEMMA SweepShrinks ==
  ASSUME TypeOK, NEW m \in Emission, NEW list, Sweep(m, list)
  PROVE  MemShrinks
BY ClearBitShrinks DEF Sweep, Ends, Fire, MemShrinks, Task

LEMMA ConsumeShrinks ==
  ASSUME TypeOK, NEW m \in Emission, NEW tokens, Consume(m, tokens)
  PROVE  MemShrinks
BY ClearBitShrinks, SweepShrinks DEF Consume, Task

(* An emission that is storing an event, or was broken off, stays so.      *)
StoringKept(m) ==
  pc[m] \in {"writing", "broken"} /\ op[m].kind = "set"
    => /\ pc'[m] \in {"writing", "broken"}
       /\ op'[m] = op[m]
       /\ gen'[m] = gen[m]

(* A step that sets no bit, makes no waiter pending and keeps the emissions*)
(* that will call ready().                                                 *)
LEMMA WakeupKept ==
  ASSUME EngineInv, NoLostWakeup, MemShrinks,
         \A w \in Waiter : fut'[w] = "pending" => fut[w] = "pending" /\ gen'[w] = gen[w],
         \A m \in Emission : StoringKept(m)
  PROVE  NoLostWakeup'
<1>. SUFFICES ASSUME NEW w \in Waiter, fut'[w] = "pending",
                     Sat(WaitFor[w], mem'[gen'[w]])
              PROVE  \E m \in Emission :
                       /\ gen'[m] = gen'[w]
                       /\ Emits(m, WaitFor[w])'
                       /\ pc'[m] \in {"writing", "broken"}
  BY DEF NoLostWakeup
<1>1. gen[w] \in Gen /\ gen'[w] = gen[w] /\ fut[w] = "pending"
  BY DEF EngineInv, TypeOK, Task
<1>2. Sat(WaitFor[w], mem[gen[w]])
  BY <1>1, SatGrows DEF MemShrinks
<1>3. PICK m \in Emission : /\ gen[m] = gen[w]
                            /\ Emits(m, WaitFor[w])
                            /\ pc[m] \in {"writing", "broken"}
  BY <1>1, <1>2 DEF NoLostWakeup
<1>. QED
  BY <1>1, <1>3 DEF StoringKept, Emits

LEMMA RecordedWakes ==
  ASSUME EngineInv, NoLostWakeup, NEW m \in Emission, Recorded(m)
  PROVE  NoLostWakeup'
<1>1. m \in Task /\ gen[m] \in Gen
  BY DEF EngineInv, TypeOK, Task
<1>2. \A n \in Emission : StoringKept(n)
  BY DEF StoringKept, Recorded, EngineInv, TypeOK
<1>3. CASE op[m].kind = "clear" /\ ClearBit(m, op[m].event, due[gen[m]])
  BY <1>1, <1>2, <1>3, ClearBitShrinks, WakeupKept DEF Recorded, EngineInv, node
<1>4. CASE op[m].kind = "set" /\ SetBit(m, op[m].event)
  <2>. SUFFICES ASSUME NEW w \in Waiter, fut[w] = "pending",
                       Sat(WaitFor[w], mem'[gen[w]])
                PROVE  \E n \in Emission :
                         /\ gen[n] = gen[w]
                         /\ Emits(n, WaitFor[w])
                         /\ pc'[n] \in {"writing", "broken"}
    BY DEF NoLostWakeup, Recorded, node, Emits
  <2>1. CASE Sat(WaitFor[w], mem[gen[w]])
    BY <1>2, <2>1 DEF NoLostWakeup, StoringKept, Emits
  <2>2. CASE ~ Sat(WaitFor[w], mem[gen[w]])
    <3>1. gen[w] = gen[m] /\ mem'[gen[w]] = mem[gen[w]] \union {op[m].event}
      BY <1>1, <1>4, <2>2 DEF SetBit, EngineInv, TypeOK, Task
    <3>2. op[m].event \in Tokens(WaitFor[w])
      BY <2>2, <3>1, SatNeedsToken
    <3>3. pc'[m] = "writing"
      BY DEF Recorded, EngineInv, TypeOK
    <3>. QED
      BY <1>4, <3>1, <3>2, <3>3 DEF Emits
  <2>. QED
    BY <2>1, <2>2
<1>. QED
  BY <1>3, <1>4 DEF Recorded

LEMMA StoredWakes ==
  ASSUME EngineInv, NoLostWakeup, NEW m \in Emission, Stored(m)
  PROVE  NoLostWakeup'
<1>1. MemShrinks
  BY SweepShrinks DEF Stored, EngineInv
<1>2. \A n \in Emission \ {m} : pc'[n] = pc[n]
  BY DEF Stored, Sweep, Ends, Fire, EngineInv, TypeOK
<1>. SUFFICES ASSUME NEW w \in Waiter, fut'[w] = "pending",
                     Sat(WaitFor[w], mem'[gen[w]])
              PROVE  \E n \in Emission :
                       /\ gen[n] = gen[w]
                       /\ Emits(n, WaitFor[w])
                       /\ pc'[n] \in {"writing", "broken"}
  BY DEF NoLostWakeup, Stored, Emits
<1>3. fut[w] = "pending" /\ w \notin Woken(gen[m])
  BY DEF Stored
<1>4. Sat(WaitFor[w], mem[gen[w]])
  BY <1>1, SatGrows DEF MemShrinks, EngineInv, TypeOK, Task
<1>5. gen[w] # gen[m]
  BY <1>3, <1>4 DEF Woken
<1>. QED
  BY <1>2, <1>3, <1>4, <1>5 DEF NoLostWakeup

LEMMA EmissionWakes ==
  ASSUME EngineInv, NoLostWakeup, NEW m \in Emission,
         \/ \E o \in Calls[m] : Begin(m, o)
         \/ TooDeep(m) \/ EmissionStep(m) \/ FireRaises(m) \/ CancelEmission(m)
  PROVE  NoLostWakeup'
<1>. USE DEF EngineInv
<1>1. m \in Task /\ \A w \in Waiter : m # w
  BY TaskAssumption DEF Task
<1>2. CASE \E o \in Calls[m] : Begin(m, o)
  BY <1>1, <1>2, WakeupKept
  DEF Begin, MemShrinks, StoringKept, bits, node, TypeOK, StageInv, NoOp
<1>3. CASE TooDeep(m) \/ Invokes(m)
  BY <1>3, WakeupKept
  DEF TooDeep, Invokes, MemShrinks, StoringKept, bits, node, TypeOK
<1>4. CASE Completed(m)
  BY <1>4, WakeupKept
  DEF Completed, Ends, MemShrinks, StoringKept, node, TypeOK
<1>5. CASE Refused(m) \/ CancelEmission(m)
  BY <1>5, WakeupKept
  DEF Refused, CancelEmission, Ends, MemShrinks, StoringKept, node, TypeOK
<1>6. CASE FireRaises(m)
  BY <1>6, WakeupKept
  DEF FireRaises, Ends, MemShrinks, StoringKept, node, TypeOK
<1>7. CASE FireReturns(m) \/ Consumed(m)
  <2>1. MemShrinks
    BY <1>7, ConsumeShrinks DEF FireReturns, Consumed
  <2>2. \A n \in Emission : StoringKept(n)
    BY <1>7
    DEF FireReturns, Consumed, Consume, Sweep, Ends, Fire, StoringKept, TypeOK
  <2>. QED
    BY <1>7, <2>1, <2>2, WakeupKept DEF FireReturns, Consumed, node
<1>. QED
  BY <1>2, <1>3, <1>4, <1>5, <1>6, <1>7, RecordedWakes, StoredWakes DEF EmissionStep

LEMMA NodeWakes ==
  ASSUME EngineInv, NoLostWakeup, NEW w \in Waiter,
         \/ RunStarts(w) \/ NodeStep(w)
         \/ WaitStopped(w) \/ TimesOut(w) \/ CancelNode(w)
  PROVE  NoLostWakeup'
<1>. USE DEF EngineInv
<1>1. w \in Task /\ \A m \in Emission : m # w
  BY TaskAssumption DEF Task
<1>2. CASE RunStarts(w)
  BY <1>1, <1>2, WakeupKept
  DEF RunStarts, MemShrinks, StoringKept, bits, emission, TypeOK, StageInv
<1>3. CASE Registers(w)
  <2>1. \A v \in Waiter \ {w} : fut'[v] = fut[v]
    BY <1>3 DEF Registers, TypeOK
  <2>2. ~ Sat(WaitFor[w], mem'[gen'[w]])
    BY <1>3 DEF Registers, bits
  <2>. QED
    BY <1>3, <2>1, <2>2 DEF Registers, NoLostWakeup, Emits, bits, emission
<1>4. CASE PeekHits(w) \/ Announced(w) \/ WaitReturns(w) \/ Resumes(w) \/ TimesOut(w)
  BY <1>4, WakeupKept
  DEF PeekHits, Announced, WaitReturns, Resumes, TimesOut, MemShrinks, StoringKept,
      bits, emission, TypeOK
<1>5. CASE Expires(w) \/ WaitStopped(w) \/ CancelNode(w)
  BY <1>5, WakeupKept
  DEF Expires, WaitStopped, CancelNode, Leaves, MemShrinks, StoringKept, emission, TypeOK
<1>6. CASE Takes(w) \/ Spent(w)
  <2>1. PICK tokens : Spends(w, tokens)
    BY <1>6 DEF Takes, Spent
  <2>2. MemShrinks
    BY <1>1, <2>1, ClearBitShrinks DEF Spends, MemShrinks
  <2>3. \A v \in Waiter : fut'[v] = "pending" => fut[v] = "pending"
    BY <2>1 DEF Spends, Leaves, TypeOK
  <2>. QED
    BY <1>6, <2>2, <2>3, WakeupKept DEF Takes, Spent, StoringKept, emission
<1>. QED
  BY <1>2, <1>3, <1>4, <1>5, <1>6 DEF NodeStep

LEMMA OtherWakes ==
  ASSUME EngineInv, NoLostWakeup,
         \/ \E x \in Task : SessionReads(x) \/ SessionCommits(x)
         \/ Load \/ Publish \/ UNCHANGED vars
  PROVE  NoLostWakeup'
<1>1. CASE Load
  <2>1. \A w \in Waiter : gen[w] # cur + 1 /\ gen[w] \in Gen
    BY DEF EngineInv, StageInv, TypeOK, Task, Gen
  <2>2. \A w \in Waiter : mem'[gen[w]] = mem[gen[w]]
    BY <1>1, <2>1 DEF Load, EngineInv, TypeOK
  <2>. QED
    BY <1>1, <2>2 DEF Load, NoLostWakeup, Emits, emission, node
<1>2. CASE \/ \E x \in Task : SessionReads(x) \/ SessionCommits(x)
           \/ Publish \/ UNCHANGED vars
  <2>1. UNCHANGED <<mem, gen, emission, node>>
    BY <1>2 DEF SessionReads, SessionCommits, Publish, vars, bits
  <2>. QED
    BY <2>1 DEF emission, node, NoLostWakeup, Emits
<1>. QED
  BY <1>1, <1>2

(* No wait node is forgotten: one that is registered while its expression  *)
(* holds has an emission that is about to wake it, unless that was broken  *)
(* off.  The wait node may register, and the bits may be consumed and set  *)
(* again, at any await of emit().                                          *)
THEOREM EngineNoLostWakeup == Spec => []NoLostWakeup
<1>1. Init => NoLostWakeup
  BY DEF Init, NoLostWakeup
<1>2. EngineInv /\ NoLostWakeup /\ [Next]_vars => NoLostWakeup'
  BY EmissionWakes, NodeWakes, OtherWakes DEF Next
<1>. QED
  BY <1>1, <1>2, EngineInvHolds, PTL DEF Spec

-----------------------------------------------------------------------------
(***************************************************************************)
(* No firing is lost                                                       *)
(***************************************************************************)

(* A due trigger has an expression that holds; an engine that is not yet   *)
(* published has made none due.                                            *)
DueInv ==
  /\ \A g \in Gen : \A t \in due[g] : Sat(WaitFor[t], mem[g])
  /\ \A g \in Gen : cur < g => due[g] = {}

FireInv == EngineInv /\ DueInv /\ NoLostFire

DueShrinks ==
  \A g \in Gen : /\ due'[g] \subseteq due[g]
                 /\ \A t \in due'[g] : Sat(WaitFor[t], mem'[g])

LEMMA ClearBitDue ==
  ASSUME EngineInv, DueInv, NEW x \in Task, NEW e,
         NEW rest \in SUBSET due[gen[x]], ClearBit(x, e, rest)
  PROVE  DueShrinks
<1>1. gen[x] \in Gen
  BY DEF EngineInv, TypeOK
<1>. SUFFICES ASSUME NEW g \in Gen
              PROVE  /\ due'[g] \subseteq due[g]
                     /\ \A t \in due'[g] : Sat(WaitFor[t], mem'[g])
  BY DEF DueShrinks
<1>2. CASE g = gen[x]
  BY <1>1, <1>2 DEF ClearBit, EngineInv, TypeOK
<1>3. CASE g # gen[x]
  BY <1>1, <1>3 DEF ClearBit, EngineInv, TypeOK, DueInv
<1>. QED
  BY <1>2, <1>3

LEMMA SameDue ==
  ASSUME DueInv, UNCHANGED <<mem, due>>
  PROVE  DueShrinks
BY DEF DueInv, DueShrinks

LEMMA FireDue ==
  ASSUME EngineInv, DueInv, NEW m \in Emission, NEW t, NEW rest, Fire(m, t, rest)
  PROVE  /\ DueShrinks
         /\ t \notin due'[gen[m]]
<1>1. m \in Task /\ gen[m] \in Gen
  BY DEF EngineInv, TypeOK, Task
<1>2. CASE Target[t] = Run
  BY <1>1, <1>2 DEF Fire, EngineInv, TypeOK, DueInv, DueShrinks
<1>3. CASE Target[t] # Run
  <2>1. ClearBit(m, Target[t], due[gen[m]] \ {t})
    BY <1>3 DEF Fire
  <2>2. due'[gen[m]] \subseteq due[gen[m]] \ {t}
    BY <1>1, <2>1 DEF ClearBit, EngineInv, TypeOK
  <2>. QED
    BY <1>1, <2>1, <2>2, ClearBitDue
<1>. QED
  BY <1>2, <1>3

(* What an emission owes stays on its account.                             *)
DutyKept(m) ==
  op[m].kind = "set" =>
    /\ op'[m] = op[m]
    /\ gen'[m] = gen[m]
    /\ pc[m] \in {"writing", "broken", "raised"}
         => pc'[m] \in {"writing", "broken", "raised"}
    /\ \/ todo[m] \subseteq todo'[m]
       \/ pc'[m] \in {"broken", "raised"}

EnabledShrinks == \A g \in Gen : enabled'[g] \subseteq enabled[g]

LEMMA FireKept ==
  ASSUME NoLostFire, DueShrinks, EnabledShrinks,
         \A m \in Emission : DutyKept(m)
  PROVE  NoLostFire'
<1>. SUFFICES ASSUME NEW g \in Gen, NEW t \in due'[g] \intersect enabled'[g]
              PROVE  \E m \in Emission :
                       /\ gen'[m] = g
                       /\ Emits(m, WaitFor[t])'
                       /\ \/ pc'[m] \in {"writing", "broken", "raised"}
                          \/ \E i \in todo'[m] : Listing[i] = t
  BY DEF NoLostFire
<1>1. t \in due[g] \intersect enabled[g]
  BY DEF DueShrinks, EnabledShrinks
<1>2. PICK m \in Emission : /\ gen[m] = g
                            /\ Emits(m, WaitFor[t])
                            /\ \/ pc[m] \in {"writing", "broken", "raised"}
                               \/ \E i \in todo[m] : Listing[i] = t
  BY <1>1 DEF NoLostFire
<1>. QED
  BY <1>2 DEF DutyKept, Emits

(* The sweep over `list' serves every due trigger on it: it passes over no *)
(* trigger whose expression holds, and keeps those after the one it fires. *)
LEMMA SweepFires ==
  ASSUME FireInv, NEW m \in Emission, NEW list \in SUBSET (DOMAIN Listing),
         Sweep(m, list), EnabledShrinks, UNCHANGED <<gen, op>>,
         pc[m] \notin {"broken", "raised"},
         \A t \in due[gen[m]] \intersect enabled[gen[m]] :
           /\ Emits(m, WaitFor[t])
           /\ pc[m] = "writing" \/ \E i \in todo[m] : Listing[i] = t
           => \E i \in list : Listing[i] = t
  PROVE  NoLostFire' /\ DueShrinks
<1>1. gen[m] \in Gen
  BY DEF FireInv, EngineInv, TypeOK, Task
<1>2. DueShrinks
  BY FireDue, SameDue DEF Sweep, Ends, FireInv
<1>3. \A n \in Emission \ {m} : pc'[n] = pc[n] /\ todo'[n] = todo[n]
  BY DEF Sweep, Ends, Fire, FireInv, EngineInv, TypeOK
<1>. SUFFICES ASSUME NEW g \in Gen, NEW t \in due'[g] \intersect enabled'[g]
              PROVE  \E n \in Emission :
                       /\ gen[n] = g
                       /\ Emits(n, WaitFor[t])
                       /\ \/ pc'[n] \in {"writing", "broken", "raised"}
                          \/ \E i \in todo'[n] : Listing[i] = t
  BY <1>2 DEF NoLostFire, Emits
<1>4. t \in due[g] \intersect enabled[g] /\ Sat(WaitFor[t], mem[g])
  BY <1>2 DEF DueShrinks, EnabledShrinks, FireInv, DueInv
<1>5. PICK n \in Emission : /\ gen[n] = g
                            /\ Emits(n, WaitFor[t])
                            /\ \/ pc[n] \in {"writing", "broken", "raised"}
                               \/ \E i \in todo[n] : Listing[i] = t
  BY <1>4 DEF FireInv, NoLostFire
<1>6. CASE n # m
  BY <1>3, <1>5, <1>6
<1>7. CASE n = m
  <2>1. PICK i \in list : Listing[i] = t
    BY <1>4, <1>5, <1>7
  <2>2. PICK first \in list :
          /\ \A j \in {k \in list : Sat(WaitFor[Listing[k]], mem[gen[m]])} : first <= j
          /\ Fire(m, Listing[first], {j \in list : first < j})
    BY <1>4, <1>5, <1>7, <2>1 DEF Sweep
  <2>3. first <= i
    BY <1>4, <1>5, <1>7, <2>1, <2>2
  <2>4. Listing[first] # t
    BY <1>5, <1>7, <2>2, FireDue DEF FireInv
  <2>5. first \in Nat /\ i \in Nat
    BY TriggerAssumption
  <2>6. first < i
    BY <2>1, <2>3, <2>4, <2>5
  <2>7. todo'[m] = {j \in list : first < j}
    BY <2>2 DEF Fire, FireInv, EngineInv, TypeOK
  <2>. QED
    BY <1>5, <1>7, <2>1, <2>6, <2>7
<1>. QED
  BY <1>2, <1>6, <1>7

LEMMA DueInvKept ==
  ASSUME EngineInv, DueInv, DueShrinks, cur' \in Gen, cur <= cur'
  PROVE  DueInv'
BY DEF DueInv, DueShrinks, EngineInv, TypeOK, Gen

LEMMA RecordedFires ==
  ASSUME FireInv, NEW m \in Emission, Recorded(m)
  PROVE  NoLostFire' /\ DueInv'
<1>. USE DEF FireInv, EngineInv
<1>1. m \in Task /\ gen[m] \in Gen /\ gen[m] <= cur /\ cur \in Gen
  BY DEF TypeOK, StageInv, Task
<1>2. \A n \in Emission : DutyKept(n)
  BY DEF DutyKept, Recorded, TypeOK
<1>3. EnabledShrinks
  BY DEF EnabledShrinks, Recorded, engine
<1>4. CASE op[m].kind = "clear" /\ ClearBit(m, op[m].event, due[gen[m]])
  <2>1. DueShrinks
    BY <1>1, <1>4, ClearBitDue
  <2>. QED
    BY <1>1, <1>2, <1>3, <2>1, FireKept, DueInvKept DEF Recorded, engine, Gen
<1>5. CASE op[m].kind = "set" /\ SetBit(m, op[m].event)
  <2>. DEFINE e == op[m].event
              active == mem[gen[m]] \union {e}
              new == {t \in Trigger : e \in Tokens(WaitFor[t]) /\ Sat(WaitFor[t], active)}
  <2>1. /\ mem'[gen[m]] = active
        /\ due'[gen[m]] = due[gen[m]] \union new
        /\ \A g \in Gen \ {gen[m]} : mem'[g] = mem[g] /\ due'[g] = due[g]
    BY <1>1, <1>5 DEF SetBit, TypeOK
  <2>2. DueInv'
    <3>1. \A g \in Gen : \A t \in due'[g] : Sat(WaitFor[t], mem'[g])
      BY <2>1, SatGrows DEF DueInv
    <3>2. \A g \in Gen : cur < g => due'[g] = {}
      BY <1>1, <2>1 DEF DueInv, Gen
    <3>. QED
      BY <3>1, <3>2 DEF DueInv, Recorded, engine
  <2>3. pc'[m] = "writing"
    BY DEF Recorded, TypeOK
  <2>. SUFFICES ASSUME NEW g \in Gen, NEW t \in due'[g] \intersect enabled[g]
                PROVE  \E n \in Emission :
                         /\ gen[n] = g
                         /\ Emits(n, WaitFor[t])
                         /\ \/ pc'[n] \in {"writing", "broken", "raised"}
                            \/ \E i \in todo[n] : Listing[i] = t
    BY <2>2 DEF NoLostFire, Recorded, engine, Emits
  <2>4. CASE t \in due[g]
    BY <1>2, <2>4 DEF NoLostFire, DutyKept, Emits
  <2>5. CASE t \notin due[g]
    <3>1. g = gen[m] /\ e \in Tokens(WaitFor[t])
      BY <2>1, <2>5
    <3>. QED
      BY <1>5, <2>3, <3>1 DEF Emits
  <2>. QED
    BY <2>4, <2>5
<1>. QED
  BY <1>4, <1>5 DEF Recorded

LEMMA StoredFires ==
  ASSUME FireInv, NEW m \in Emission, Stored(m)
  PROVE  NoLostFire' /\ DueInv'
<1>. USE DEF FireInv, EngineInv
<1>1. Affected(m) \in SUBSET (DOMAIN Listing)
  BY DEF Affected
<1>2. \A t \in enabled[gen[m]] :
        Emits(m, WaitFor[t]) => \E i \in Affected(m) : Listing[i] = t
  <2>1. gen[m] \in Gen
    BY DEF TypeOK, Task
  <2>. QED
    BY <2>1, TriggerAssumption DEF Affected, Emits, TypeOK
<1>3. NoLostFire' /\ DueShrinks
  BY <1>1, <1>2, SweepFires DEF Stored, EnabledShrinks, engine
<1>. QED
  BY <1>3, DueInvKept DEF Stored, engine, TypeOK, Gen

LEMMA ConsumeFires ==
  ASSUME FireInv, NEW m \in Emission, FireReturns(m) \/ Consumed(m)
  PROVE  NoLostFire' /\ DueInv'
<1>. USE DEF FireInv, EngineInv
<1>1. m \in Task /\ gen[m] \in Gen /\ todo[m] \in SUBSET (DOMAIN Listing)
  BY DEF Task, TypeOK
<1>2. PICK tokens : Consume(m, tokens)
  BY DEF FireReturns, Consumed
<1>3. pc[m] \in {"firing", "consuming"} /\ UNCHANGED <<rows, cur, loaded, gen, op>>
  BY DEF FireReturns, Consumed
<1>4. CASE tokens = {} /\ Sweep(m, todo[m])
  <2>1. EnabledShrinks
    <3>1. enabled' = [enabled EXCEPT ![gen[m]] = @ \ ({trig[m]} \intersect OneShot)]
      BY <1>2, <1>4 DEF Consume
    <3>. QED
      BY <3>1 DEF EnabledShrinks, TypeOK
  <2>2. \A t \in due[gen[m]] \intersect enabled[gen[m]] :
          /\ Emits(m, WaitFor[t])
          /\ pc[m] = "writing" \/ \E i \in todo[m] : Listing[i] = t
          => \E i \in todo[m] : Listing[i] = t
    BY <1>3
  <2>3. pc[m] \notin {"broken", "raised"} /\ UNCHANGED <<gen, op>>
    BY <1>3
  <2>4. NoLostFire' /\ DueShrinks
    BY <1>1, <1>4, <2>1, <2>2, <2>3, SweepFires
  <2>. QED
    BY <1>3, <2>4, DueInvKept DEF TypeOK, Gen
<1>5. CASE \E e \in tokens :
             /\ pc' = [pc EXCEPT ![m] = "consuming"]
             /\ spend' = [spend EXCEPT ![m] = tokens \ {e}]
             /\ ClearBit(m, e, due[gen[m]])
             /\ UNCHANGED <<enabled, todo, trig>>
  <2>1. DueShrinks
    BY <1>1, <1>5, ClearBitDue
  <2>2. EnabledShrinks
    BY <1>5 DEF EnabledShrinks
  <2>3. \A n \in Emission : DutyKept(n)
    BY <1>3, <1>5 DEF DutyKept, TypeOK
  <2>. QED
    BY <1>3, <2>1, <2>2, <2>3, FireKept, DueInvKept DEF TypeOK, Gen
<1>. QED
  BY <1>2, <1>4, <1>5 DEF Consume

LEMMA EmissionFires ==
  ASSUME FireInv, NEW m \in Emission,
         \/ \E o \in Calls[m] : Begin(m, o)
         \/ TooDeep(m) \/ EmissionStep(m) \/ FireRaises(m) \/ CancelEmission(m)
  PROVE  NoLostFire' /\ DueInv'
<1>. USE DEF FireInv, EngineInv
<1>1. m \in Task /\ cur \in Gen /\ cur <= cur
  BY DEF Task, TypeOK, Gen
<1>2. CASE \E o \in Calls[m] : Begin(m, o)
  BY <1>1, <1>2, FireKept, SameDue, DueInvKept
  DEF Begin, DutyKept, EnabledShrinks, bits, engine, TypeOK, StageInv, NoOp
<1>3. CASE TooDeep(m) \/ Invokes(m)
  BY <1>1, <1>3, FireKept, SameDue, DueInvKept
  DEF TooDeep, Invokes, DutyKept, EnabledShrinks, bits, engine, TypeOK
<1>4. CASE Refused(m) \/ CancelEmission(m) \/ FireRaises(m)
  <2>1. \A n \in Emission : DutyKept(n)
    BY <1>4
    DEF Refused, CancelEmission, FireRaises, Ends, DutyKept, TypeOK
  <2>2. UNCHANGED <<mem, due, engine>>
    BY <1>4 DEF Refused, CancelEmission, FireRaises, Ends
  <2>. QED
    BY <1>1, <2>1, <2>2, FireKept, SameDue, DueInvKept DEF EnabledShrinks, engine
<1>5. CASE Completed(m)
  <2>1. UNCHANGED <<mem, due, engine>> /\ op[m].kind # "set"
    BY <1>5 DEF Completed, Ends, StageInv
  <2>2. \A n \in Emission : DutyKept(n)
    BY <1>5, <2>1 DEF Completed, Ends, DutyKept, TypeOK
  <2>. QED
    BY <1>1, <2>1, <2>2, FireKept, SameDue, DueInvKept DEF EnabledShrinks, engine
<1>. QED
  BY <1>2, <1>3, <1>4, <1>5, RecordedFires, StoredFires, ConsumeFires DEF EmissionStep

LEMMA NodeFires ==
  ASSUME FireInv, NEW w \in Waiter,
         \/ RunStarts(w) \/ NodeStep(w)
         \/ WaitStopped(w) \/ TimesOut(w) \/ CancelNode(w)
  PROVE  NoLostFire' /\ DueInv'
<1>. USE DEF FireInv, EngineInv
<1>1. w \in Task /\ cur \in Gen /\ cur <= cur /\ \A m \in Emission : m # w
  BY TaskAssumption DEF Task, TypeOK, Gen
<1>2. /\ UNCHANGED <<engine, emission>>
      /\ \A m \in Emission : gen'[m] = gen[m]
  BY <1>1
  DEF RunStarts, NodeStep, PeekHits, Registers, Announced, WaitReturns, Resumes,
      Takes, Spent, Expires, WaitStopped, TimesOut, CancelNode, TypeOK, Task
<1>3. EnabledShrinks /\ \A m \in Emission : DutyKept(m)
  BY <1>2 DEF EnabledShrinks, DutyKept, engine, emission
<1>4. CASE Takes(w) \/ Spent(w)
  <2>1. PICK tokens : Spends(w, tokens)
    BY <1>4 DEF Takes, Spent
  <2>2. DueShrinks
    BY <1>1, <2>1, ClearBitDue, SameDue DEF Spends
  <2>. QED
    BY <1>1, <1>2, <1>3, <2>2, FireKept, DueInvKept DEF engine
<1>5. CASE ~ (Takes(w) \/ Spent(w))
  <2>1. UNCHANGED <<mem, due>>
    BY <1>5
    DEF RunStarts, NodeStep, PeekHits, Registers, Announced, WaitReturns, Resumes,
        Expires, WaitStopped, TimesOut, CancelNode, bits
  <2>. QED
    BY <1>1, <1>2, <1>3, <2>1, SameDue, FireKept, DueInvKept DEF engine
<1>. QED
  BY <1>4, <1>5

LEMMA OtherFires ==
  ASSUME FireInv,
         \/ \E x \in Task : SessionReads(x) \/ SessionCommits(x)
         \/ Load \/ Publish \/ UNCHANGED vars
  PROVE  NoLostFire' /\ DueInv'
<1>. USE DEF FireInv, EngineInv
<1>1. UNCHANGED <<enabled, gen, pc, op, todo, due>>
  BY DEF SessionReads, SessionCommits, Load, Publish, vars, bits, engine, emission
<1>2. EnabledShrinks
  BY <1>1 DEF EnabledShrinks
<1>3. NoLostFire'
  BY <1>1 DEF NoLostFire, Emits
<1>4. CASE Load
  BY <1>1, <1>3, <1>4 DEF Load, DueInv, TypeOK, Gen
<1>5. CASE Publish
  <2>1. UNCHANGED mem /\ cur' = cur + 1 /\ cur < MaxGen
    BY <1>5 DEF Publish, bits, StageInv
  <2>2. cur' \in Gen /\ cur <= cur'
    BY <2>1, GenAssumption DEF TypeOK, Gen
  <2>. QED
    BY <1>1, <1>3, <2>1, <2>2, SameDue, DueInvKept
<1>6. CASE (\E x \in Task : SessionReads(x) \/ SessionCommits(x)) \/ UNCHANGED vars
  <2>1. UNCHANGED <<mem, cur>>
    BY <1>6 DEF SessionReads, SessionCommits, vars, bits, engine
  <2>. QED
    BY <1>1, <1>3, <2>1 DEF DueInv
<1>. QED
  BY <1>4, <1>5, <1>6

(* No firing is lost: a trigger that an emission made due is fired by it or*)
(* by another, unless its bits are consumed first or the emission is broken*)
(* off.  Emissions, wait nodes and reloads interleave at every await.      *)
THEOREM EngineNoLostFire == Spec => []NoLostFire
<1>1. Init => DueInv /\ NoLostFire
  BY DEF Init, DueInv, NoLostFire
<1>2. EngineInv /\ (DueInv /\ NoLostFire) /\ [Next]_vars => (DueInv /\ NoLostFire)'
  BY EmissionFires, NodeFires, OtherFires DEF Next, FireInv
<1>. QED
  BY <1>1, <1>2, EngineInvHolds, PTL DEF Spec
=============================================================================
