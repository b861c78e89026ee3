--------------------------- MODULE MCEntityRecords ---------------------------
(***************************************************************************)
(* One entity whose fields are written and promoted, and a second one that *)
(* relations lead to.  "odd" does not fit into the column of "b".          *)
(***************************************************************************)
EXTENDS EntityRecords, TLC

MCField == {"a", "b"}
MCValue == {"v", "w", "odd"}
MCEncode == [f \in MCField |-> [v \in MCValue |->
               IF f = "b" /\ v = "odd" THEN Refused ELSE v]]

MCEntity == {"x", "y"}
MCName == {"nx", "ny"}
MCOriginal == [e \in MCEntity |-> IF e = "x" THEN "nx" ELSE "ny"]
MCGiven == [e \in MCEntity |-> [f \in MCField |->
              IF e = "y" THEN None ELSE IF f = "a" THEN "v" ELSE "odd"]]

Type(materialized, deprecated) ==
  [there |-> TRUE, materialized |-> materialized, deprecated |-> deprecated]

Change(f, v) == [kind |-> "update", entity |-> "x", attributes |-> f :> v, name |-> None]

FieldRequests ==
  {[kind |-> "create", entity |-> "x", name |-> "nx", attributes |-> ("b" :> "v")],
   Change("a", "w"), Change("b", "w"), Change("a", Null),
   [kind |-> "delete", entity |-> "x"],
   [kind |-> "materialize", field |-> "a"], [kind |-> "materialize", field |-> "b"]}

TypeRequests ==
  {[kind |-> "saveType", type |-> Type({"a"}, {})],
   [kind |-> "saveType", type |-> Type({"b"}, {"a"})],
   [kind |-> "createType", type |-> Type({}, {})],
   [kind |-> "deleteType"], [kind |-> "cascadeType"]}

RelationRequests ==
  {[kind |-> "relate", relation |-> <<<<"id", "x">>, <<"id", "y">>>>],
   [kind |-> "relate", relation |-> <<<<"ref", "nx">>, <<"id", "y">>>>],
   [kind |-> "relate", relation |-> <<<<"bare", "nx">>, <<"ref", "ny">>>>],
   [kind |-> "unrelate", relation |-> <<<<"id", "x">>, <<"id", "y">>>>],
   [kind |-> "force", entity |-> "x"],
   [kind |-> "delete", entity |-> "y"],
   [kind |-> "create", entity |-> "y", name |-> "nx", attributes |-> << >>],
   [kind |-> "update", entity |-> "x", attributes |-> << >>, name |-> "ny"]}

MCRequests == FieldRequests \union TypeRequests \union RelationRequests

=============================================================================
