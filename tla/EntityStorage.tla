---------------------------- MODULE EntityStorage ----------------------------
(***************************************************************************)
(* The row of an ordinary entity (storage/repository/_ordinary.py and      *)
(* storage/materialization.py).  A field lives in attributes_json until    *)
(* its type is told to materialize it; then it has a column of its own,    *)
(* which a read prefers and a save fills instead.  How a row is read and   *)
(* saved depends on the type as the caller knows it.                       *)
(***************************************************************************)
EXTENDS FiniteSets

CONSTANTS
  Field,
  Value,
  Encode     \* what encode_value makes of a value for the column of a field

None == "none"          \* in JSON: no such field; in a column: NULL
Null == "null"          \* in JSON: the field is there, and null
Refused == "refused"    \* encode_value raises

ASSUME StorageAssumption ==
  /\ Value \intersect {None, Null, Refused} = {}
  /\ Encode \in [Field -> [Value -> Value \union {Refused}]]

Types == [there : BOOLEAN, materialized : SUBSET Field, deprecated : SUBSET Field]
NoType == [there |-> FALSE, materialized |-> {}, deprecated |-> {}]

(* The fields whose columns are read and filled.                           *)
InColumns(T) == T.materialized \ T.deprecated

(* What a given attribute looks like in its column.                        *)
Encoded(f, v) == IF v = Null THEN None ELSE Encode[f][v]

Lossless(f) == \A v \in Value : Encode[f][v] \in {v, Refused}

(* An entity read from its row, as a function on its attributes.           *)
Attributes(row, T) ==
  LET found == [f \in Field |-> IF f \in InColumns(T) /\ row.column[f] # None
                                  THEN row.column[f] ELSE row.json[f]]
  IN [f \in {g \in Field : found[g] # None} |-> found[f]]

(* The value of a field; one that is null has none.                        *)
ValueOf(attributes, f) ==
  IF f \in DOMAIN attributes /\ attributes[f] # Null THEN attributes[f] ELSE None

(* Attributes after a change: the new values, and the others as they were. *)
Changed(attributes, change) ==
  [f \in DOMAIN attributes \union DOMAIN change |->
     IF f \in DOMAIN change THEN change[f] ELSE attributes[f]]

Saveable(attributes, T) ==
  \A f \in InColumns(T) \intersect DOMAIN attributes : Encoded(f, attributes[f]) # Refused

(* Mutant: a null leaves the column as it was.                             *)
SavedUnlessNull(name, column, attributes, T) ==
  [name |-> name,
   json |-> [f \in Field |-> IF f \in DOMAIN attributes \ (T.materialized \union T.deprecated)
                               THEN attributes[f] ELSE None],
   column |-> [f \in Field |-> IF f \in InColumns(T) /\ ValueOf(attributes, f) # None
                                 THEN Encoded(f, attributes[f]) ELSE column[f]]]

(* The row after a save.  The JSON is written anew; a column that the      *)
(* attributes do not mention is left as it was, also when it is no longer, *)
(* or not yet, one that this type knows.                                   *)
Saved(name, column, attributes, T) ==
  [name |-> name,
   json |-> [f \in Field |-> IF f \in DOMAIN attributes \ (T.materialized \union T.deprecated)
                               THEN attributes[f] ELSE None],
   column |-> [f \in Field |-> IF f \in InColumns(T) \intersect DOMAIN attributes
                                 THEN Encoded(f, attributes[f]) ELSE column[f]]]

NoColumn == [f \in Field |-> None]

(* The backfill of a column with what the JSON of the row held when the    *)
(* rows were listed.                                                       *)
Backfilled(row, f, v) == [row EXCEPT !.column[f] = Encoded(f, v)]

(* The record of a type after upsert_entity_type_record: an empty list or  *)
(* mapping means that the caller says nothing about it.                    *)
Upserted(record, T) ==
  [there |-> TRUE,
   materialized |-> IF T.materialized # {} THEN T.materialized ELSE record.materialized,
   deprecated |-> IF T.deprecated # {} THEN T.deprecated ELSE record.deprecated]

=============================================================================
