-------------------------- MODULE MCSubDagExecution --------------------------
(***************************************************************************)
(* Small configurations of DAGs that nest.  Nodes of different DAGs have   *)
(* the same ids, as they well may.                                         *)
(***************************************************************************)
EXTENDS SubDagExecution, TLC

CONSTANTS A, B, C, x, y

Handler(resource) == [kind |-> "handler", ref |-> A, resource |-> resource]
Nested(d, resource) == [kind |-> "nested", ref |-> d, resource |-> resource]
ConfigOf(d) == [kind |-> "config", ref |-> d, resource |-> FALSE]

(* A, B and C with these nodes, the edge x -> y in the DAGs of `ordered'.  *)
Of(a, b, c, ordered) ==
  [root |-> A, body |-> (A :> a @@ B :> b @@ C :> c),
   edges |-> [d \in {A, B, C} |-> IF d \in ordered THEN {<<x, y>>} ELSE {}]]

(* A has the sub-DAG B and another node: a handler, a sub-DAG, or one with *)
(* a DAG as its type.  B may have C below it.  Any of them may share the   *)
(* resource, with the sub-DAG node or with each other; five runs at once   *)
(* are left out.                                                           *)
Nestings ==
  {Of(x :> Nested(B, r[1]) @@ y :> other,
      x :> Handler(r[3]) @@ (IF deep THEN y :> Nested(C, FALSE) ELSE << >>),
      x :> Handler(r[3]), ordered) :
     <<other, r, deep, ordered>> \in
       {<<o, q, k, e>> \in
          {Handler(FALSE), Handler(TRUE), Nested(B, FALSE), Nested(C, FALSE), ConfigOf(B)}
            \X [1 .. 3 -> BOOLEAN] \X BOOLEAN \X {{}, {A, B}} :
        q[2] = o.resource /\ (k /\ e = {} => o # Nested(B, FALSE))}}

(* Two sub-DAG nodes side by side.                                         *)
Twins == Of(x :> Nested(B, FALSE) @@ y :> Nested(C, FALSE), x :> Handler(FALSE), x :> Handler(FALSE), {})

(* A node of B whose type is a configuration that names B.                 *)
Loop == Of(x :> Nested(B, FALSE), x :> ConfigOf(B), x :> Handler(FALSE), {})

CONSTANT Select    \* which of them a run considers
MCPrograms ==
  CASE Select = "nestings" -> Nestings
    [] Select = "twins"    -> {Twins}
    [] Select = "loop"     -> {Loop}
=============================================================================
