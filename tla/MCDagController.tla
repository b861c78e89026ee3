-------------------------- MODULE MCDagController --------------------------
(***************************************************************************)
(* DagController on a small instance: two DAGs with the edge a -> b; nodes *)
(* of d2 fire d1, and d2 waits for a node of d1 to be idle.                *)
(***************************************************************************)
EXTENDS DagController, TLC

CONSTANTS d1, d2, a, b, c1, c2, c3

MCEdges == {<<a, b>>}
MCWaits == {<<d2, d1>>}
MCTriggers == {<<d2, d1>>}

Ask1(k, d, r, ns, cas) == [kind |-> k, dag |-> d, run |-> r, nodes |-> ns, cascade |-> cas]
MCRequests ==
  {Start(d1), Start(d2), Ask1("node", d1, None, {b}, FALSE),
   Ask1("retry", d1, None, {b}, FALSE), Ask1("force", d1, None, {}, FALSE),
   Ask1("stop", d1, None, {}, FALSE)}
  \union {Ask1("resume", d1, r, {a}, TRUE) : r \in Call}

(* One node, no edge: enough for what must happen in the end.              *)
NoEdges == {}
FewRequests ==
  {Start(d1), Start(d2), Ask1("force", d1, None, {}, FALSE), Ask1("stop", d1, None, {}, FALSE)}
  \union {Ask1("resume", d1, r, {a}, FALSE) : r \in Call}

Calls == Permutations(Call)
=============================================================================
