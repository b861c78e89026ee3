---------------------------- MODULE TriggerEngine ----------------------------
(***************************************************************************)
(* The trigger engine of trigger.py: the event group with its rows in the  *)
(* database, emit(), the triggers it fires, and the wait nodes of          *)
(* node/executor.py that register with it.                                 *)
(*                                                                         *)
(* Everything runs on one event loop, so a step lasts from one await to    *)
(* the next.  A bit changes in memory before the session that stores the   *)
(* change is opened; that session reads the row, commits and closes, each  *)
(* with an await of its own (`sess').  Emissions and wait nodes are the    *)
(* tasks that interleave there.                                            *)
(*                                                                         *)
(* install_snapshot() of dag_controller.py replaces the engine: the next   *)
(* generation reads its bits from the rows and knows neither the waiters   *)
(* of the one before nor which triggers that one disabled.  Emissions and  *)
(* wait nodes stay with the generation they started in.                    *)
(*                                                                         *)
(* A boolean expression is its set of alternatives: it holds if all tokens *)
(* of one of them are set.  Payloads, emit records and sources are left    *)
(* out.                                                                    *)
(***************************************************************************)
EXTENDS Integers, Sequences, FiniteSets

CONSTANTS
  Event,       \* tokens
  Broadcast,   \* the tokens that are never consumed: `startup'
  Trigger,     \* trigger entities
  Listing,     \* all of them in the order of the store
  WaitFor,     \* the expression of each trigger and each wait node
  Target,      \* what a trigger fires: Run, or the event it clears
  Run,         \* a target dag:<name> or node:<dag>/<node>
  OneShot,     \* triggers whose cron token is not for every day (IsOneShot)
  Emission,    \* calls of emit(), each made once
  Breakable,   \* those made inside a DAG run, which may be cancelled
  Calls,       \* what each call may emit
  Waiter,      \* wait nodes, each executed once
  Consuming,   \* wait nodes with consume = true
  Timed,       \* wait nodes with timeout_seconds
  MaxGen       \* bound: generations of the engine

Gen == 1..MaxGen
Task == Emission \union Waiter
Expression == SUBSET (SUBSET Event)

(* emit(<event>), emit(clear:<event>) and emit(manual:<target>)            *)
Request == [kind : {"set", "clear"}, event : Event]
             \union [kind : {"manual"}, event : {Run}]

ASSUME TokenAssumption ==
  /\ Broadcast \subseteq Event
  /\ Run \notin Event
ASSUME TriggerAssumption ==
  /\ Listing \in Seq(Trigger)
  /\ \A t \in Trigger : \E i \in DOMAIN Listing : Listing[i] = t
  /\ WaitFor \in [Trigger \union Waiter -> Expression]
  /\ Target \in [Trigger -> Event \union {Run}]
  /\ OneShot \subseteq Trigger
ASSUME TaskAssumption ==
  /\ Emission \intersect Waiter = {}
  /\ Breakable \subseteq Emission
  /\ Calls \in [Emission -> SUBSET Request]
  /\ Consuming \subseteq Waiter
  /\ Timed \subseteq Waiter
ASSUME GenAssumption == MaxGen \in Nat \ {0}

VARIABLES
  mem,       \* EventGroup.events of each generation
  rows,      \* event_group_bits: the id of an event's row, 0 if it has none
  enabled,   \* triggers each generation holds enabled
  cur,       \* the generation of the current snapshot
  loaded,    \* the next generation has its bits but is not yet published
  gen,       \* the generation a task uses
  sess,      \* the session a task has open on event_group_bits
  spend,     \* tokens consume() still has to clear
  pc,        \* where an emission stands
  op,        \* what it emits
  todo,      \* triggers it has listed and not yet looked at, by position
  trig,      \* the trigger it fires or consumes for
  fired,     \* the triggers it has fired, emit()'s result
  wpc,       \* where a wait node stands
  fut,       \* its future in the WaitRegistry
  matched,   \* tokens recorded when its future was set, or read by its peek
  due        \* history: triggers that became due and have not fired since

bits == <<mem, rows, sess>>
engine == <<enabled, cur, loaded>>
emission == <<pc, op, todo, trig, fired>>
node == <<wpc, fut, matched>>
vars == <<bits, engine, gen, spend, emission, node, due>>

Tokens(x) == UNION x
Sat(x, active) == \E alternative \in x : alternative \subseteq active

NoSession == [kind |-> "none", event |-> Run, key |-> 0, at |-> "none"]
Session == {NoSession} \union
  [kind : {"set", "clear"}, event : Event, key : Nat,
   at : {"reading", "committing", "closed", "refused"}]
NoOp == [kind |-> "none", event |-> Run]
Op == {NoOp} \union Request
EmissionStage == {"idle", "recording", "invoking", "writing", "firing",
                  "consuming", "done", "raised", "broken"}
NodeStage == {"new", "ready", "announcing", "waiting", "expiring", "resuming",
              "taking", "consuming", "done"}
FutureState == {"none", "pending", "set"}

TypeOK ==
  /\ mem \in [Gen -> SUBSET Event]
  /\ rows \in [Event -> Nat]
  /\ enabled \in [Gen -> SUBSET Trigger]
  /\ cur \in Gen
  /\ loaded \in BOOLEAN
  /\ gen \in [Task -> Gen]
  /\ sess \in [Task -> Session]
  /\ spend \in [Task -> SUBSET Event]
  /\ pc \in [Emission -> EmissionStage]
  /\ op \in [Emission -> Op]
  /\ todo \in [Emission -> SUBSET (DOMAIN Listing)]
  /\ trig \in [Emission -> Trigger \union {Run}]
  /\ fired \in [Emission -> SUBSET Trigger]
  /\ wpc \in [Waiter -> NodeStage]
  /\ fut \in [Waiter -> FutureState]
  /\ matched \in [Waiter -> SUBSET Event]
  /\ due \in [Gen -> SUBSET Trigger]

Init ==
  /\ mem = [g \in Gen |-> {}]
  /\ rows = [e \in Event |-> 0]
  /\ enabled = [g \in Gen |-> Trigger]
  /\ cur = 1
  /\ loaded = FALSE
  /\ gen = [x \in Task |-> 1]
  /\ sess = [x \in Task |-> NoSession]
  /\ spend = [x \in Task |-> {}]
  /\ pc = [m \in Emission |-> "idle"]
  /\ op = [m \in Emission |-> NoOp]
  /\ todo = [m \in Emission |-> {}]
  /\ trig = [m \in Emission |-> Run]
  /\ fired = [m \in Emission |-> {}]
  /\ wpc = [w \in Waiter |-> "new"]
  /\ fut = [w \in Waiter |-> "none"]
  /\ matched = [w \in Waiter |-> {}]
  /\ due = [g \in Gen |-> {}]

-----------------------------------------------------------------------------
(***************************************************************************)
(* The event group.  SetBit and ClearBit are set() and clear() up to their *)
(* first await: memory changes, a session opens.  `due' records which      *)
(* triggers an emission has made due.                                      *)
(***************************************************************************)
Opened(kind, e) == [kind |-> kind, event |-> e, key |-> 0, at |-> "reading"]

SetBit(x, e) ==
  LET active == mem[gen[x]] \union {e} IN
  /\ mem' = [mem EXCEPT ![gen[x]] = active]
  /\ sess' = [sess EXCEPT ![x] = Opened("set", e)]
  /\ due' = [due EXCEPT ![gen[x]] =
               @ \union {t \in Trigger : e \in Tokens(WaitFor[t])
                                           /\ Sat(WaitFor[t], active)}]

(* `rest' are the triggers still due but for those the clearing disarms.   *)
ClearBit(x, e, rest) ==
  LET active == mem[gen[x]] \ {e} IN
  /\ mem' = [mem EXCEPT ![gen[x]] = active]
  /\ sess' = [sess EXCEPT ![x] = Opened("clear", e)]
  /\ due' = [due EXCEPT ![gen[x]] = {t \in rest : Sat(WaitFor[t], active)}]

(* The SELECT of set() and clear().                                        *)
SessionReads(x) ==
  /\ sess[x].at = "reading"
  /\ sess' = [sess EXCEPT ![x].key = rows[sess[x].event],
                          ![x].at = "committing"]
  /\ UNCHANGED <<mem, rows, engine, gen, spend, emission, node, due>>

(* SQLite hands out the id after the largest one in the table.             *)
NewKey(k) == \A e \in Event : rows[e] < k

(***************************************************************************)
(* The commit.  The column `event' is unique, so an insert is refused when *)
(* the row has appeared since the SELECT.  A delete names the id the       *)
(* SELECT returned, whatever the table holds under it by now.              *)
(***************************************************************************)
SessionCommits(x) ==
  LET e == sess[x].event
      key == sess[x].key
      Ends(at) == sess' = [sess EXCEPT ![x].at = at]
  IN
  /\ sess[x].at = "committing"
  /\ \/ /\ sess[x].kind = "set"
        /\ key = 0
        /\ rows[e] = 0
        /\ \E k \in {rows[d] + 1 : d \in Event} :
             NewKey(k) /\ rows' = [rows EXCEPT ![e] = k]
        /\ Ends("closed")
     \/ /\ sess[x].kind = "set"
        /\ key = 0
        /\ rows[e] # 0
        /\ Ends("refused")
        /\ UNCHANGED rows
     \/ /\ sess[x].kind = "clear"
        /\ key # 0
        /\ rows' = [d \in Event |-> IF rows[d] = key THEN 0 ELSE rows[d]]
        /\ Ends("closed")
     \/ /\ (sess[x].kind = "set") = (key # 0)
        /\ Ends("closed")
        /\ UNCHANGED rows
  /\ UNCHANGED <<mem, engine, gen, spend, emission, node, due>>

-----------------------------------------------------------------------------
(***************************************************************************)
(* emit()                                                                  *)
(***************************************************************************)

(* A call reaches the current engine and records itself.                   *)
Begin(m, o) ==
  /\ pc[m] = "idle"
  /\ pc' = [pc EXCEPT ![m] = "recording"]
  /\ op' = [op EXCEPT ![m] = o]
  /\ gen' = [gen EXCEPT ![m] = cur]
  /\ UNCHANGED <<bits, engine, spend, todo, trig, fired, node, due>>

(* ConfigError: the call is nested too deeply.                             *)
TooDeep(m) ==
  /\ pc[m] = "idle"
  /\ pc' = [pc EXCEPT ![m] = "raised"]
  /\ UNCHANGED <<bits, engine, gen, spend, op, todo, trig, fired, node, due>>

(* The record of manual:<target> is written; the target is fired.          *)
Invokes(m) ==
  /\ pc[m] = "recording"
  /\ op[m].kind = "manual"
  /\ pc' = [pc EXCEPT ![m] = "invoking"]
  /\ UNCHANGED <<bits, engine, gen, spend, op, todo, trig, fired, node, due>>

(* The record is written; the event is set, or cleared for clear:<event>.  *)
Recorded(m) ==
  /\ pc[m] = "recording"
  /\ pc' = [pc EXCEPT ![m] = "writing"]
  /\ \/ op[m].kind = "set" /\ SetBit(m, op[m].event)
     \/ op[m].kind = "clear" /\ ClearBit(m, op[m].event, due[gen[m]])
  /\ UNCHANGED <<rows, engine, gen, spend, op, todo, trig, fired, node>>

Ends(m, how) ==
  /\ pc' = [pc EXCEPT ![m] = how]
  /\ todo' = [todo EXCEPT ![m] = {}]
  /\ trig' = [trig EXCEPT ![m] = Run]
  /\ spend' = [spend EXCEPT ![m] = {}]
  /\ sess' = [sess EXCEPT ![m] = NoSession]
  /\ UNCHANGED <<mem, due>>

(* fire() up to its first await.                                           *)
Fire(m, t, rest) ==
  LET undue == due[gen[m]] \ {t} IN
  /\ pc' = [pc EXCEPT ![m] = "firing"]
  /\ todo' = [todo EXCEPT ![m] = rest]
  /\ trig' = [trig EXCEPT ![m] = t]
  /\ spend' = [spend EXCEPT ![m] = {}]
  /\ IF Target[t] = Run
       THEN /\ sess' = [sess EXCEPT ![m] = NoSession]
            /\ due' = [due EXCEPT ![gen[m]] = undue]
            /\ UNCHANGED mem
       ELSE ClearBit(m, Target[t], undue)

(* Mutant: the loop ends at the first trigger that does not match.         *)
SweepStops(m, list) ==
  \/ /\ \A i \in list : \/ ~ Sat(WaitFor[Listing[i]], mem[gen[m]])
                        \/ \E j \in list : j < i
     /\ Ends(m, "done")
  \/ \E i \in list :
       /\ \A j \in list : i <= j
       /\ Sat(WaitFor[Listing[i]], mem[gen[m]])
       /\ Fire(m, Listing[i], {j \in list : i < j})

(***************************************************************************)
(* The loop of emit() over the triggers at the positions `list', from the  *)
(* evaluation of the first one to the next await or the end.               *)
(***************************************************************************)
Sweep(m, list) ==
  LET hits == {i \in list : Sat(WaitFor[Listing[i]], mem[gen[m]])} IN
  \/ hits = {} /\ Ends(m, "done")
  \/ \E i \in hits :
       /\ \A j \in hits : i <= j
       /\ Fire(m, Listing[i], {j \in list : i < j})

(* ready(): every waiting future whose expression holds is set.            *)
Woken(g) == {w \in Waiter : gen[w] = g /\ fut[w] = "pending"
                              /\ Sat(WaitFor[w], mem[g])}

(* _affected_triggers(), without the disabled ones the loop passes over.   *)
Affected(m) ==
  {i \in DOMAIN Listing : /\ op[m].event \in Tokens(WaitFor[Listing[i]])
                          /\ Listing[i] \in enabled[gen[m]]}

(* set() has returned: waiters are woken, and the triggers looked at.      *)
Stored(m) ==
  /\ pc[m] = "writing"
  /\ op[m].kind = "set"
  /\ sess[m].at = "closed"
  /\ fut' = [w \in Waiter |-> IF w \in Woken(gen[m]) THEN "set" ELSE fut[w]]
  /\ matched' = [w \in Waiter |->
                   IF w \in Woken(gen[m])
                     THEN Tokens(WaitFor[w]) \intersect mem[gen[m]]
                     ELSE matched[w]]
  /\ Sweep(m, Affected(m))
  /\ UNCHANGED <<rows, engine, gen, op, fired, wpc>>

(* clear:<event> is cleared, or the manual target has returned.            *)
Completed(m) ==
  /\ \/ pc[m] = "writing" /\ op[m].kind = "clear" /\ sess[m].at = "closed"
     \/ pc[m] = "invoking"
  /\ Ends(m, "done")
  /\ UNCHANGED <<rows, engine, gen, op, fired, node>>

(* IntegrityError out of set().                                            *)
Refused(m) ==
  /\ sess[m].at = "refused"
  /\ Ends(m, "broken")
  /\ UNCHANGED <<rows, engine, gen, op, fired, node>>

(* active_tokens(): what waiters that were woken hold back.                *)
Withheld(g) == UNION {matched[w] : w \in {v \in Waiter : gen[v] = g}}

(***************************************************************************)
(* consume() before each clear(), and what emit() does when it returns: a  *)
(* one-shot trigger is disabled, and the loop goes on.                     *)
(***************************************************************************)
Consume(m, tokens) ==
  \/ \E e \in tokens :
       /\ pc' = [pc EXCEPT ![m] = "consuming"]
       /\ spend' = [spend EXCEPT ![m] = tokens \ {e}]
       /\ ClearBit(m, e, due[gen[m]])
       /\ UNCHANGED <<enabled, todo, trig>>
  \/ /\ tokens = {}
     /\ enabled' = [enabled EXCEPT ![gen[m]] = @ \ ({trig[m]} \intersect OneShot)]
     /\ Sweep(m, todo[m])

FireReturns(m) ==
  /\ pc[m] = "firing"
  /\ sess[m].at \in {"none", "closed"}
  /\ fired' = [fired EXCEPT ![m] = @ \union {trig[m]}]
  /\ Consume(m, ((Tokens(WaitFor[trig[m]]) \intersect mem[gen[m]])
                   \ Withheld(gen[m])) \ Broadcast)
  /\ UNCHANGED <<rows, cur, loaded, gen, op, node>>

(* start_run() refuses a DAG that is still running, or fails otherwise.    *)
FireRaises(m) ==
  /\ \/ pc[m] = "firing" /\ Target[trig[m]] = Run
     \/ pc[m] = "invoking"
  /\ Ends(m, "raised")
  /\ UNCHANGED <<rows, engine, gen, op, fired, node>>

Consumed(m) ==
  /\ pc[m] = "consuming"
  /\ sess[m].at = "closed"
  /\ Consume(m, spend[m])
  /\ UNCHANGED <<rows, cur, loaded, gen, op, fired, node>>

(* The run an emission belongs to is cancelled.                            *)
CancelEmission(m) ==
  /\ m \in Breakable
  /\ pc[m] \in {"recording", "invoking", "writing", "firing", "consuming"}
  /\ Ends(m, "broken")
  /\ UNCHANGED <<rows, engine, gen, op, fired, node>>

-----------------------------------------------------------------------------
(***************************************************************************)
(* A wait node: _execute_wait() and _await_waiter()                        *)
(***************************************************************************)

(* Its run starts and keeps the engine of the snapshot it starts with.     *)
RunStarts(w) ==
  /\ wpc[w] = "new"
  /\ wpc' = [wpc EXCEPT ![w] = "ready"]
  /\ gen' = [gen EXCEPT ![w] = cur]
  /\ UNCHANGED <<bits, engine, spend, emission, fut, matched, due>>

(* wait_payload() finds the expression satisfied and fetches the payload.  *)
PeekHits(w) ==
  /\ wpc[w] = "ready"
  /\ Sat(WaitFor[w], mem[gen[w]])
  /\ wpc' = [wpc EXCEPT ![w] = "taking"]
  /\ spend' = [spend EXCEPT ![w] = Tokens(WaitFor[w]) \intersect mem[gen[w]]]
  /\ UNCHANGED <<bits, engine, gen, emission, fut, matched, due>>

(* Mutant: the node registers without looking at the bits.                 *)
RegistersBlind(w) ==
  /\ wpc[w] = "ready"
  /\ wpc' = [wpc EXCEPT ![w] = "announcing"]
  /\ fut' = [fut EXCEPT ![w] = "pending"]
  /\ UNCHANGED <<bits, engine, gen, spend, emission, matched, due>>

(* It does not: the node registers.  Nothing awaits before the second call *)
(* of wait_payload(), which therefore misses too.                          *)
Registers(w) ==
  /\ wpc[w] = "ready"
  /\ ~ Sat(WaitFor[w], mem[gen[w]])
  /\ wpc' = [wpc EXCEPT ![w] = "announcing"]
  /\ fut' = [fut EXCEPT ![w] = "pending"]
  /\ UNCHANGED <<bits, engine, gen, spend, emission, matched, due>>

(* The node is recorded and published as waiting.                          *)
Announced(w) ==
  /\ wpc[w] = "announcing"
  /\ wpc' = [wpc EXCEPT ![w] = "waiting"]
  /\ UNCHANGED <<bits, engine, gen, spend, emission, fut, matched, due>>

(* Mutant: the woken node looks at the bits again.                         *)
WaitRechecks(w) ==
  /\ wpc[w] = "waiting"
  /\ fut[w] = "set"
  /\ Sat(WaitFor[w], mem[gen[w]])
  /\ wpc' = [wpc EXCEPT ![w] = "resuming"]
  /\ UNCHANGED <<bits, engine, gen, spend, emission, fut, matched, due>>

(* asyncio.wait() returns with the future alone; the stop task is drained. *)
WaitReturns(w) ==
  /\ wpc[w] = "waiting"
  /\ fut[w] = "set"
  /\ wpc' = [wpc EXCEPT ![w] = "resuming"]
  /\ UNCHANGED <<bits, engine, gen, spend, emission, fut, matched, due>>

(* The node is recorded as running again, then its matched tokens are read.*)
Resumes(w) ==
  /\ wpc[w] = "resuming"
  /\ wpc' = [wpc EXCEPT ![w] = "taking"]
  /\ spend' = [spend EXCEPT ![w] = matched[w]]
  /\ UNCHANGED <<bits, engine, gen, emission, fut, matched, due>>

(* The node leaves _execute_wait; its `finally' unregisters the future.    *)
Leaves(w) ==
  /\ wpc' = [wpc EXCEPT ![w] = "done"]
  /\ fut' = [fut EXCEPT ![w] = "none"]
  /\ matched' = [matched EXCEPT ![w] = {}]
  /\ spend' = [spend EXCEPT ![w] = {}]
  /\ sess' = [sess EXCEPT ![w] = NoSession]

(* consume() before each clear(), and the return of the node.              *)
Spends(w, tokens) ==
  \/ \E e \in tokens :
       /\ wpc' = [wpc EXCEPT ![w] = "consuming"]
       /\ spend' = [spend EXCEPT ![w] = tokens \ {e}]
       /\ ClearBit(w, e, due[gen[w]])
       /\ UNCHANGED <<fut, matched>>
  \/ /\ tokens = {}
     /\ Leaves(w)
     /\ UNCHANGED <<mem, due>>

(* The output is recorded.                                                 *)
Takes(w) ==
  /\ wpc[w] = "taking"
  /\ Spends(w, IF w \in Consuming THEN spend[w] \ Broadcast ELSE {})
  /\ UNCHANGED <<rows, engine, gen, emission>>

Spent(w) ==
  /\ wpc[w] = "consuming"
  /\ sess[w].at = "closed"
  /\ Spends(w, spend[w])
  /\ UNCHANGED <<rows, engine, gen, emission>>

(* The stop event of the run is set, alone or together with the future:    *)
(* the node returns "cancelled".  The event is looked at here only, so it  *)
(* does not matter when it was set.                                        *)
WaitStopped(w) ==
  /\ wpc[w] = "waiting"
  /\ Leaves(w)
  /\ UNCHANGED <<mem, rows, engine, gen, emission, due>>

(* The timeout passes with nothing done; draining the stop task awaits.    *)
TimesOut(w) ==
  /\ wpc[w] = "waiting"
  /\ w \in Timed
  /\ fut[w] = "pending"
  /\ wpc' = [wpc EXCEPT ![w] = "expiring"]
  /\ UNCHANGED <<bits, engine, gen, spend, emission, fut, matched, due>>

Expires(w) ==
  /\ wpc[w] = "expiring"
  /\ Leaves(w)
  /\ UNCHANGED <<mem, rows, engine, gen, emission, due>>

(* The task of the node is cancelled at an await.                          *)
CancelNode(w) ==
  /\ wpc[w] \notin {"new", "done"}
  /\ Leaves(w)
  /\ UNCHANGED <<mem, rows, engine, gen, emission, due>>

-----------------------------------------------------------------------------
(***************************************************************************)
(* install_snapshot(): the new engine loads its bits from the rows, and    *)
(* is published when the session is closed.                                *)
(***************************************************************************)
Load ==
  /\ ~ loaded
  /\ cur < MaxGen
  /\ loaded' = TRUE
  /\ mem' = [mem EXCEPT ![cur + 1] = {e \in Event : rows[e] # 0}]
  /\ UNCHANGED <<rows, sess, enabled, cur, gen, spend, emission, node, due>>

(* Mutant: the loaded engine stays to be published again.                  *)
PublishAgain ==
  /\ loaded
  /\ cur' = cur + 1
  /\ UNCHANGED <<bits, enabled, loaded, gen, spend, emission, node, due>>

Publish ==
  /\ loaded
  /\ loaded' = FALSE
  /\ cur' = cur + 1
  /\ UNCHANGED <<bits, enabled, gen, spend, emission, node, due>>

EmissionStep(m) ==
  \/ Invokes(m) \/ Recorded(m) \/ Stored(m) \/ Completed(m) \/ Refused(m)
  \/ FireReturns(m) \/ Consumed(m)

NodeStep(w) ==
  \/ PeekHits(w) \/ Registers(w) \/ Announced(w) \/ WaitReturns(w)
  \/ Resumes(w) \/ Takes(w) \/ Spent(w) \/ Expires(w)

Next ==
  \/ \E m \in Emission :
       \/ \E o \in Calls[m] : Begin(m, o)
       \/ TooDeep(m)
       \/ EmissionStep(m)
       \/ FireRaises(m)
       \/ CancelEmission(m)
  \/ \E w \in Waiter :
       \/ RunStarts(w) \/ NodeStep(w)
       \/ WaitStopped(w) \/ TimesOut(w) \/ CancelNode(w)
  \/ \E x \in Task : SessionReads(x) \/ SessionCommits(x)
  \/ Load
  \/ Publish

(* The event loop runs every ready task and the database answers; a target *)
(* returns or raises.                                                      *)
Fairness ==
  /\ \A m \in Emission : WF_vars(EmissionStep(m) \/ FireRaises(m))
  /\ \A w \in Waiter : WF_vars(NodeStep(w))
  /\ \A x \in Task : WF_vars(SessionReads(x) \/ SessionCommits(x))

Spec == Init /\ [][Next]_vars /\ Fairness

-----------------------------------------------------------------------------
(* m sets a token of the expression x.                                     *)
Emits(m, x) == op[m].kind = "set" /\ op[m].event \in Tokens(x)

(* A registered wait node whose expression holds is not forgotten: the     *)
(* emission that set the last token is still storing it and will call      *)
(* ready(), or was broken off before it could.                             *)
NoLostWakeup ==
  \A w \in Waiter :
    fut[w] = "pending" /\ Sat(WaitFor[w], mem[gen[w]])
      => \E m \in Emission :
           /\ gen[m] = gen[w]
           /\ Emits(m, WaitFor[w])
           /\ pc[m] \in {"writing", "broken"}

(* A trigger that an emission made due and that is still due is fired: an  *)
(* emission of one of its tokens is still storing it or has the trigger on *)
(* its list, or was broken off or stopped by a target that raised.         *)
NoLostFire ==
  \A g \in Gen : \A t \in due[g] \intersect enabled[g] :
    \E m \in Emission :
      /\ gen[m] = g
      /\ Emits(m, WaitFor[t])
      /\ \/ pc[m] \in {"writing", "broken", "raised"}
         \/ \E i \in todo[m] : Listing[i] = t

(* A set future is taken up: the wait node leaves, whatever else happens.  *)
WokenLeaves ==
  \A w \in Waiter : fut[w] = "set" ~> wpc[w] = "done"

(* A trigger never fires more often than one of its tokens was emitted,    *)
(* unless the token is a broadcast.                                        *)
FiresArePaid ==
  \A t \in Trigger :
    \A e \in {d \in Event \ Broadcast : \A alt \in WaitFor[t] : d \in alt} :
      Cardinality({m \in Emission : t \in fired[m]})
        <= Cardinality({m \in Emission : op[m] = [kind |-> "set", event |-> e]})

(* An event set in the current engine wakes every wait node whose          *)
(* expression it satisfies, or is about to.                                *)
SignalReachesWaiter ==
  \A w \in Waiter :
    fut[w] = "pending" /\ Sat(WaitFor[w], mem[cur])
      => \E m \in Emission : pc[m] \in {"writing", "broken"}

(* While no session is open, the rows are the bits of the current engine.  *)
RowsFollowMemory ==
  (\A x \in Task : sess[x] = NoSession) /\ ~ loaded
    => \A e \in Event : e \in mem[cur] <=> rows[e] # 0
=============================================================================
