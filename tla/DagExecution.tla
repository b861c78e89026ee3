---------------------------- MODULE DagExecution ----------------------------
(***************************************************************************)
(* The contract of one run of a DAG, without queues, scans, permits and    *)
(* tasks: which nodes may be worked on when, when an output is stored and  *)
(* where it goes, and in which condition the run ends.  DagRunner          *)
(* implements it.                                                          *)
(***************************************************************************)
EXTENDS DagGraph

VARIABLES
  graph,       \* the graph and the parameters of run()
  phase,       \* "idle", "active", "aborting", "returned" or "failed"
  stopped,     \* a soft stop was asked for
  outcome,     \* outputs: node -> outcome, "none" when absent
  routed,      \* edges over which an output was passed on
  work,        \* nodes that were given to a handler
  fed          \* edges whose output an accumulate node has taken up

vars == <<graph, phase, stopped, outcome, routed, work, fed>>

Up(n) == {u \in Node : <<u, n>> \in graph.edges}
Out(n) == {e \in graph.edges : e[1] = n}
In(n) == {e \in graph.edges : e[2] = n}
Settled(n) == outcome[n] # "none"
Delivered(u, n) == outcome[u] \in {"ok", "empty"} /\ <<u, n>> \in routed

(* The failure of u does not concern n: the edge is optional, or u is a    *)
(* source and another upstream delivered a payload.                        *)
Excused(u, n) ==
  /\ outcome[u] = "failed"
  /\ \/ <<u, n>> \in graph.optional
     \/ /\ u \in graph.sources
        /\ \E o \in Up(n) : outcome[o] = "ok" /\ <<o, n>> \in routed

MayRun(n) == \A u \in Up(n) : Delivered(u, n) \/ Excused(u, n)

MustFail(n) ==
  /\ \A u \in Up(n) : Settled(u)
  /\ \E u \in Up(n) : outcome[u] = "failed" /\ ~ Excused(u, n)

(* A barrier node that nothing more will happen to.                        *)
AtRest(n) ==
  \/ Settled(n)
  \/ n \notin work /\ \E u \in Up(n) : ~ Settled(u) \/ (outcome[u] # "failed" /\ <<u, n>> \notin routed)

Open(n) == n \in graph.allowed \ (work \union graph.accumulate) /\ ~ Settled(n)

Init ==
  /\ graph \in Graphs
  /\ phase = "idle"
  /\ stopped = FALSE
  /\ outcome = [n \in Node |-> "none"]
  /\ routed = {}
  /\ work = {}
  /\ fed = {}

(* The outputs of an earlier run are taken over; some roots are begun.     *)
Begin ==
  LET pre   == DOMAIN graph.prefilled
      passed == {e \in graph.edges : e[1] \in pre /\ graph.prefilled[e[1]] = "ok"}
      roots == {n \in graph.allowed \ pre : Up(n) = {}}
  IN  /\ phase = "idle"
      /\ phase' = "active"
      /\ outcome' = [n \in Node |-> IF n \in pre THEN graph.prefilled[n] ELSE "none"]
      /\ passed \ graph.conditioned \subseteq routed'
      /\ routed' \subseteq passed
      /\ work' \subseteq roots
      /\ UNCHANGED <<graph, stopped, fed>>

Run(n) ==
  /\ phase = "active"
  /\ Open(n)
  /\ MayRun(n)
  /\ work' = work \union {n}
  /\ UNCHANGED <<graph, phase, stopped, outcome, routed, fed>>

(* An accumulate node takes up outputs as they are routed to it.           *)
Feed(n) ==
  /\ phase = "active"
  /\ n \in graph.allowed \intersect graph.accumulate
  /\ ~ Settled(n)
  /\ fed \subseteq fed'
  /\ \A e \in fed' \ fed : e \in In(n) \intersect routed /\ Settled(e[1])
  /\ UNCHANGED <<graph, phase, stopped, outcome, routed, work>>

(* An output is stored and passed on: on success over every edge without   *)
(* a condition and some of the others, on failure over the optional ones.  *)
Store(n, result) ==
  /\ ~ Settled(n)
  /\ outcome' = [outcome EXCEPT ![n] = result]
  /\ routed \subseteq routed'
  /\ routed' \ routed \subseteq Out(n)
  /\ IF result = "failed"
       THEN routed' = routed \union (Out(n) \intersect graph.optional)
       ELSE Out(n) \ graph.conditioned \subseteq routed'
  /\ UNCHANGED <<graph, phase, stopped, work, fed>>

Deliver(n) ==
  /\ phase = "active"
  /\ n \in work
  /\ \E result \in Outcome : Store(n, result)

(* An accumulate node ends when every upstream has an output.              *)
Merge(n) ==
  /\ phase = "active"
  /\ \A u \in Up(n) : Settled(u)
  /\ fed \intersect In(n) # {}
  /\ \E result \in {"ok", "failed"} : Store(n, result)

GiveUp(n) ==
  /\ phase = "active"
  /\ Open(n)
  /\ MustFail(n)
  /\ Store(n, "failed")

Stop ==
  /\ phase \notin {"returned", "failed"}
  /\ stopped' = TRUE
  /\ UNCHANGED <<graph, phase, outcome, routed, work, fed>>

(* An exception or a hard stop; an output whose routing raised is kept.    *)
Abort ==
  /\ phase = "active"
  /\ phase' = "aborting"
  /\ \/ outcome' = outcome
     \/ \E n \in work, result \in {"ok", "empty"} :
          ~ Settled(n) /\ outcome' = [outcome EXCEPT ![n] = result]
  /\ UNCHANGED <<graph, stopped, routed, work, fed>>

Aborted ==
  /\ phase = "aborting"
  /\ phase' = "failed"
  /\ UNCHANGED <<graph, stopped, outcome, routed, work, fed>>

(* The run ends by itself: everything given to a handler has its output    *)
(* and, unless it was stopped, nothing is left over. It fails if it has    *)
(* roots and all of them failed, none of them a sub-DAG.                   *)
End ==
  LET roots == {n \in graph.allowed : Up(n) = {}}
      failed == /\ ~ stopped
                /\ roots # {}
                /\ roots \intersect graph.subdags = {}
                /\ \A n \in roots : outcome[n] = "failed"
  IN  /\ phase = "active"
      /\ \A n \in work : Settled(n)
      /\ ~ stopped => \A n \in graph.allowed \ graph.accumulate : AtRest(n)
      /\ phase' = IF failed THEN "failed" ELSE "returned"
      /\ UNCHANGED <<graph, stopped, outcome, routed, work, fed>>

Next ==
  \/ Begin \/ Stop \/ Abort \/ Aborted \/ End
  \/ \E n \in Node : Run(n) \/ Feed(n) \/ Deliver(n) \/ Merge(n) \/ GiveUp(n)

Spec == Init /\ [][Next]_vars
=============================================================================
