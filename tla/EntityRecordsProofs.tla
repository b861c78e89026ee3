-------------------------- MODULE EntityRecordsProofs --------------------------
(***************************************************************************)
(* Proofs of the safety properties of EntityRecords, for any fields,       *)
(* values and encodings, any entities and business ids, and any number of  *)
(* calls that overlap.                                                     *)
(***************************************************************************)
EXTENDS EntityRecords, TLAPS

(* Type correctness, with what it rests on: which kinds of calls come to   *)
(* which places, and what a call knows there.  An update and a forced      *)
(* deletion have found their entity, and what the latter has listed are    *)
(* relations that name it.                                                 *)
Consistent(k) ==
  k.at # "idle" =>
    /\ k.at \in {"resolve", "check", "select", "purge", "erase"} =>
         k.req.kind \in {"update", "delete", "force"}
    /\ k.at \in {"from", "to", "insert"} => k.req.kind = "relate"
    /\ k.at = "list" => k.req.kind = "materialize"
    /\ k.at = "look" => k.req.kind # "update"
    /\ k.at = "write" /\ k.req.kind = "update" => k.row # NoRow
    /\ k.at \in {"select", "purge"} => k.row # NoRow
    /\ k.at = "purge" =>
         \A r \in k.seen : \E ref \in RefsOf(k.req.entity, k.row.name) : ref \in {r[1], r[2]}

TypeInv == TypeOK /\ \A c \in Call : Consistent(call[c])

(* A deletion that was not blocked saw no relation; the relations that are *)
(* not loose name their ends by id or by type:business_id.                 *)
AnchorInv ==
  /\ \A c \in Call : At(c, "erase") => call[c].seen = {}
  /\ \A r \in relations \ loose : r[1][1] # "bare" /\ r[2][1] # "bare"
  /\ RelationsAnchored

(* The value of a field is the one that was last written, by every view of *)
(* the type; its column is empty unless the record of the type knows it,   *)
(* and says what the JSON says if both speak.                              *)
Views == {record, snapshot, loaded} \ {NoLoad}

Read(row, T, f) ==
  LET v == IF f \in InColumns(T) /\ row.column[f] # None THEN row.column[f] ELSE row.json[f]
  IN IF v = Null THEN None ELSE v

Settled(x, f) ==
  /\ \A S \in Views : f \notin S.deprecated /\ Read(rows[x], S, f) = last[x][f]
  /\ rows[x].column[f] # None =>
       f \in record.materialized /\ rows[x].json[f] \in {None, rows[x].column[f]}

FieldInv ==
  \A x \in Existing, f \in {g \in Field : Lossless(g)} : <<x, f>> \notin blurred => Settled(x, f)

-----------------------------------------------------------------------------
(* Rows and the record of the type.                                        *)

(* What a request says, by its kind.                                       *)
LEMMA RequestFields ==
  ASSUME NEW q \in Requests
  PROVE  /\ q.kind \in {"create", "update", "delete", "force", "relate", "unrelate",
                        "materialize", "createType", "saveType", "deleteType", "cascadeType"}
         /\ q.kind \in {"create", "update", "delete", "force"} => q.entity \in Entity
         /\ q.kind = "create" => q.name \in Name
         /\ q.kind = "update" => q.name \in Name \union {None}
         /\ q.kind \in {"create", "update"} => q.attributes \in AttributeSets
         /\ q.kind \in {"relate", "unrelate"} => q.relation \in References \X References
         /\ q.kind = "materialize" => q.field \in Field
         /\ q.kind \in {"createType", "saveType"} => q.type \in Types
BY RequestsAssumption

(* Nothing that has a name is a missing row, and no type a missing one.    *)
LEMMA NoRowIsNoRow == NoRow \notin Rows
BY RecordsAssumption DEF NoRow, Rows

LEMMA NoLoadIsNoType == NoLoad \notin Types
<1>1. DOMAIN NoLoad = {"there"}
  BY DEF NoLoad
<1>2. \A T \in Types : "materialized" \in DOMAIN T
  BY DEF Types
<1> QED BY <1>1, <1>2

(* Null is not a value of a field, nor is the word that stands for none.   *)
LEMMA WordsAreNotValues ==
  None \notin Value /\ Null \notin Value /\ Refused \notin Value
BY StorageAssumption DEF None, Null, Refused

LEMMA EncodedType ==
  ASSUME NEW f \in Field, NEW v \in Value \union {Null}
  PROVE  Encoded(f, v) \in Value \union {None, Refused}
<1>1. v \in Value => Encode[f][v] \in Value \union {Refused}
  BY StorageAssumption
<1> QED BY <1>1 DEF Encoded

LEMMA AttributesType ==
  ASSUME NEW row \in Rows, NEW T \in Types
  PROVE  Attributes(row, T) \in AttributeSets
<1> DEFINE found == [f \in Field |-> IF f \in InColumns(T) /\ row.column[f] # None
                                       THEN row.column[f] ELSE row.json[f]]
           D == {g \in Field : found[g] # None}
<1>1. \A f \in Field : found[f] \in Value \union {None, Null}
  BY DEF Rows
<1>2. [f \in D |-> found[f]] \in [D -> Value \union {Null}]
  BY <1>1
<1>3. D \in SUBSET Field
  OBVIOUS
<1> QED BY <1>2, <1>3 DEF Attributes, AttributeSets

LEMMA ChangedType ==
  ASSUME NEW A \in AttributeSets, NEW B \in AttributeSets
  PROVE  Changed(A, B) \in AttributeSets
<1>1. PICK D \in SUBSET Field : A \in [D -> Value \union {Null}]
  BY DEF AttributeSets
<1>2. PICK E \in SUBSET Field : B \in [E -> Value \union {Null}]
  BY DEF AttributeSets
<1>3. Changed(A, B) \in [D \union E -> Value \union {Null}]
  BY <1>1, <1>2 DEF Changed
<1> QED BY <1>3 DEF AttributeSets

LEMMA ValueOfType ==
  ASSUME NEW A \in AttributeSets, NEW f \in Field
  PROVE  ValueOf(A, f) \in Value \union {None}
<1>1. PICK D \in SUBSET Field : A \in [D -> Value \union {Null}]
  BY DEF AttributeSets
<1> QED BY <1>1 DEF ValueOf

(* A save that is not refused makes a row.                                 *)
LEMMA SavedType ==
  ASSUME NEW name \in Name, NEW column \in [Field -> Value \union {None}],
         NEW A \in AttributeSets, NEW T \in Types, Saveable(A, T)
  PROVE  Saved(name, column, A, T) \in Rows
<1>1. PICK D \in SUBSET Field : A \in [D -> Value \union {Null}]
  BY DEF AttributeSets
<1>2. \A f \in D : Encoded(f, A[f]) \in Value \union {None, Refused}
  BY <1>1, EncodedType
<1>3. \A f \in InColumns(T) \intersect D : Encoded(f, A[f]) \in Value \union {None}
  BY <1>1, <1>2 DEF Saveable
<1>4. [f \in Field |-> IF f \in InColumns(T) \intersect DOMAIN A
                        THEN Encoded(f, A[f]) ELSE column[f]] \in [Field -> Value \union {None}]
  BY <1>1, <1>3
<1>5. [f \in Field |-> IF f \in DOMAIN A \ (T.materialized \union T.deprecated)
                        THEN A[f] ELSE None] \in [Field -> Value \union {None, Null}]
  BY <1>1
<1> QED BY <1>4, <1>5 DEF Saved, Rows

LEMMA UpsertedType ==
  ASSUME NEW R \in Types, NEW T \in Types
  PROVE  Upserted(R, T) \in Types
BY DEF Types, Upserted

LEMMA NoTypeType == NoType \in Types
BY DEF Types, NoType

-----------------------------------------------------------------------------
(* Type correctness.                                                       *)

Places == {"resolve", "check", "select", "purge", "erase", "from", "to", "insert", "list",
           "look", "write"}

(* The fields of a call under way.                                         *)
LEMMA CallFields ==
  ASSUME TypeInv, NEW c \in Call, call[c] # Idle
  PROVE  /\ call[c].at \in Places /\ call[c].at # "idle"
         /\ call[c].req \in Requests
         /\ call[c].type \in Types
         /\ call[c].row \in Rows \union {NoRow}
         /\ call[c].seen \subseteq References \X References
         /\ call[c].values \in [Entity -> Value \union {None, Null}]
         /\ Consistent(call[c])
<1>1. call[c] \in CallTypes /\ Consistent(call[c])
  BY DEF TypeInv, TypeOK
<1>2. call[c] \in
        [at : Places, req : Requests, type : Types, row : {NoRow} \union Rows,
         seen : SUBSET (References \X References), values : [Entity -> Value \union {None, Null}]]
  BY <1>1 DEF CallTypes, Places
<1> QED BY <1>1, <1>2 DEF Places

LEMMA PlaceIsBusy ==
  ASSUME NEW c \in Call, NEW place \in Places, At(c, place)
  PROVE  call[c] # Idle
BY DEF At, Places, Idle

LEMMA CallStep ==
  ASSUME TypeInv, NEW c \in Call, NEW k \in CallTypes, Consistent(k),
         call' = [call EXCEPT ![c] = k]
  PROVE  call' \in [Call -> CallTypes] /\ \A d \in Call : Consistent(call'[d])
<1>1. call \in [Call -> CallTypes] /\ \A d \in Call : Consistent(call[d])
  BY DEF TypeInv, TypeOK
<1>2. \A d \in Call : call'[d] = IF d = c THEN k ELSE call[d]
  BY <1>1
<1>3. call' \in [Call -> CallTypes]
  BY <1>1
<1> QED BY <1>1, <1>2, <1>3

LEMMA CallEnds ==
  ASSUME TypeInv, NEW c \in Call, Ends(c)
  PROVE  call' \in [Call -> CallTypes] /\ \A d \in Call : Consistent(call'[d])
<1>1. Idle \in CallTypes /\ Consistent(Idle)
  BY DEF CallTypes, Consistent, Idle
<1>2. call' = [call EXCEPT ![c] = Idle]
  BY DEF Ends
<1> QED BY <1>1, <1>2, CallStep

(* A call that goes on with what it knows.                                 *)
LEMMA CallGoesOn ==
  ASSUME TypeInv, NEW c \in Call, call[c] # Idle,
         NEW place \in Places, NEW row \in Rows \union {NoRow},
         NEW seen \in SUBSET (References \X References),
         NEW values \in [Entity -> Value \union {None, Null}],
         Consistent([call[c] EXCEPT !.at = place, !.row = row, !.seen = seen, !.values = values]),
         call' = [call EXCEPT ![c] = [call[c] EXCEPT !.at = place, !.row = row, !.seen = seen,
                                                     !.values = values]]
  PROVE  call' \in [Call -> CallTypes] /\ \A d \in Call : Consistent(call'[d])
<1> DEFINE k == [call[c] EXCEPT !.at = place, !.row = row, !.seen = seen, !.values = values]
<1>1. call[c] \in CallTypes
  BY DEF TypeInv, TypeOK
<1>2. k \in CallTypes
  BY <1>1 DEF CallTypes, Places
<1>3. Consistent(k) /\ call' = [call EXCEPT ![c] = k]
  OBVIOUS
<1> HIDE DEF k
<1> QED BY <1>2, <1>3, CallStep

LEMMA RelationsOfType ==
  ASSUME TypeInv, NEW refs
  PROVE  /\ RelationsOf(refs) \subseteq relations
         /\ RelationsOf(refs) \in SUBSET (References \X References)
         /\ \A r \in RelationsOf(refs) : \E ref \in refs : ref \in {r[1], r[2]}
BY DEF RelationsOf, TypeInv, TypeOK

(* What a save makes of the variables.                                     *)
LEMMA SaveType ==
  ASSUME TypeInv, NEW c \in Call, call[c] # Idle, NEW x \in Entity, NEW name \in Name,
         NEW A \in AttributeSets, Accepts(x, name, A, call[c].type),
         NEW unseen \in SUBSET Field, NEW written \in [Field -> Value \union {None}],
         Save(c, x, name, A, unseen, written), UNCHANGED relations
  PROVE  /\ rows' \in [Entity -> Rows \union {NoRow}]
         /\ last' \in [Entity -> [Field -> Value \union {None}]]
         /\ blurred' \subseteq Entity \X Field
         /\ loose' \subseteq relations'
<1> DEFINE T == call[c].type
           column == IF Exists(x) THEN rows[x].column ELSE NoColumn
<1>1. T \in Types
  BY CallFields
<1>2. rows[x] \in Rows \union {NoRow}
  BY DEF TypeInv, TypeOK
<1>3. column \in [Field -> Value \union {None}]
  BY <1>2 DEF Exists, Rows, NoColumn
<1>4. Saveable(A, T)
  BY DEF Accepts
<1>5. Saved(name, column, A, T) \in Rows
  BY <1>1, <1>3, <1>4, SavedType
<1>6. rows' = [rows EXCEPT ![x] = Saved(name, column, A, T)]
  BY DEF Save
<1>7. rows' \in [Entity -> Rows \union {NoRow}]
  <2> HIDE DEF column, T
  <2> QED BY <1>5, <1>6 DEF TypeInv, TypeOK
<1>8. last' \in [Entity -> [Field -> Value \union {None}]]
  BY DEF Save, TypeInv, TypeOK
<1>9. T.deprecated \subseteq Field /\ \A S : Moved(T, S) \subseteq Field
  BY <1>1 DEF Moved, Types
<1>10. blurred' \subseteq Entity \X Field
  <2>1. UNION {Moved(T, S) : S \in {record, snapshot, loaded} \ {NoLoad}} \subseteq Field
    BY <1>9
  <2>2. unseen \union T.deprecated
          \union UNION {Moved(T, S) : S \in {record, snapshot, loaded} \ {NoLoad}} \subseteq Field
    BY <1>9, <2>1
  <2>3. blurred \subseteq Entity \X Field
    BY DEF TypeInv, TypeOK
  <2> QED BY <2>2, <2>3 DEF Save
<1>11. loose' \subseteq relations'
  <2>1. RelationsOf({<<"ref", rows[x].name>>}) \subseteq relations
    BY RelationsOfType
  <2> QED BY <2>1 DEF Save, TypeInv, TypeOK
<1> QED BY <1>7, <1>8, <1>10, <1>11

LEMMA RecordsTypeInv == Spec => []TypeInv
<1>1. Init => TypeInv
  <2> SUFFICES ASSUME Init PROVE TypeInv
    OBVIOUS
  <2>1. record \in Types /\ snapshot \in Types /\ loaded \in Types \union {NoLoad}
    BY DEF Init, Types, NoType
  <2>2. rows \in [Entity -> Rows \union {NoRow}]
    BY RecordsAssumption DEF Init, Rows, NoColumn
  <2>3. call \in [Call -> CallTypes] /\ \A c \in Call : Consistent(call[c])
    BY DEF Init, CallTypes, Idle, Consistent
  <2>4. last \in [Entity -> [Field -> Value \union {None}]]
    BY RecordsAssumption DEF Init
  <2> QED BY <2>1, <2>2, <2>3, <2>4, RecordsAssumption DEF Init, TypeInv, TypeOK
<1>2. TypeInv /\ [Next]_vars => TypeInv'
  <2> SUFFICES ASSUME TypeInv, [Next]_vars PROVE TypeInv'
    OBVIOUS
  <2> DEFINE CallGood == call' \in [Call -> CallTypes] /\ \A c \in Call : Consistent(call'[c])
             TypesGood == record' \in Types /\ snapshot' \in Types
                            /\ loaded' \in Types \union {NoLoad}
             RowsGood == rows' \in [Entity -> Rows \union {NoRow}]
             RelationsGood == relations' \subseteq References \X References
                                /\ loose' \subseteq relations'
             HistoryGood == last' \in [Entity -> [Field -> Value \union {None}]]
                              /\ blurred' \subseteq Entity \X Field
  <2>0. ASSUME CallGood, TypesGood, RowsGood, RelationsGood, HistoryGood, calls' \in 0..MaxCalls
        PROVE  TypeInv'
    BY <2>0 DEF TypeInv, TypeOK
  <2>a. /\ record \in Types /\ snapshot \in Types /\ loaded \in Types \union {NoLoad}
        /\ rows \in [Entity -> Rows \union {NoRow}]
        /\ relations \subseteq References \X References /\ loose \subseteq relations
        /\ last \in [Entity -> [Field -> Value \union {None}]]
        /\ blurred \subseteq Entity \X Field
        /\ calls \in 0..MaxCalls /\ MaxCalls \in Nat
        /\ call \in [Call -> CallTypes]
    BY RecordsAssumption DEF TypeInv, TypeOK
  <2>b. UNCHANGED types => TypesGood
    BY <2>a DEF types
  <2>c. UNCHANGED data => RowsGood
    BY <2>a DEF data
  <2>d. UNCHANGED <<data, history>> => RelationsGood /\ HistoryGood
    BY <2>a DEF data, history
  <2>e. \A x \in Entity : Exists(x) => rows[x] \in Rows
    BY <2>a DEF Exists
  <2>1. ASSUME NEW c \in Call, NEW q \in Requests, Start(c, q) PROVE TypeInv'
    <3> DEFINE k == [at |-> FirstPlace[q.kind], req |-> q, type |-> snapshot, row |-> NoRow,
                     seen |-> {}, values |-> [x \in Entity |-> None]]
    <3>1. k \in CallTypes
      BY <2>a, RequestFields DEF CallTypes, FirstPlace
    <3>2. Consistent(k)
      BY RequestFields DEF Consistent, FirstPlace
    <3>3. call' = [call EXCEPT ![c] = k]
      BY <2>1 DEF Start
    <3>4. CallGood
      <4> HIDE DEF k
      <4> QED BY <3>1, <3>2, <3>3, CallStep
    <3>5. calls' \in 0..MaxCalls
      BY <2>1, <2>a DEF Start
    <3> QED BY <2>0, <2>1, <2>b, <2>c, <2>d, <3>4, <3>5 DEF Start
  <2>2. ASSUME NEW c \in Call, Raises(c) PROVE TypeInv'
    BY <2>0, <2>2, <2>a, <2>b, <2>c, <2>d, CallEnds DEF Raises
  <2>3. ASSUME NEW c \in Call, Create(c) PROVE TypeInv'
    <3> DEFINE x == Req(c).entity
               given == Req(c).attributes
               unseen == IF Exists(x) THEN InColumns(call[c].type) \ DOMAIN given ELSE {}
               written == [f \in Field |-> ValueOf(given, f)]
    <3>1. call[c] # Idle /\ call[c].req \in Requests /\ call[c].type \in Types
      BY <2>3, PlaceIsBusy, CallFields DEF Create, Places
    <3>2. x \in Entity /\ Req(c).name \in Name /\ given \in AttributeSets
      BY <2>3, <3>1, RequestFields DEF Create, Kind, Req
    <3>3. written \in [Field -> Value \union {None}]
      BY <3>2, ValueOfType
    <3>4. unseen \in SUBSET Field
      BY <3>1 DEF InColumns, Types
    <3>5. RowsGood /\ RelationsGood /\ HistoryGood
      <4>1. CASE Accepts(x, Req(c).name, given, call[c].type)
        <5>1. Save(c, x, Req(c).name, given, unseen, written) /\ UNCHANGED relations
          BY <2>3, <4>1 DEF Create
        <5> HIDE DEF x, given, unseen, written
        <5> QED BY <2>a, <3>1, <3>2, <3>3, <3>4, <4>1, <5>1, SaveType
      <4>2. CASE ~ Accepts(x, Req(c).name, given, call[c].type)
        BY <2>3, <4>2, <2>a DEF Create, history
      <4> QED BY <4>1, <4>2
    <3> QED BY <2>0, <2>3, <2>a, <2>b, <3>5, CallEnds DEF Create
  <2>4. ASSUME NEW c \in Call, Resolve(c) PROVE TypeInv'
    <3>1. call[c] # Idle
      BY <2>4, PlaceIsBusy DEF Resolve, Places
    <3>2. Consistent(call[c]) /\ call[c].req \in Requests /\ call[c].at = "resolve"
      BY <2>4, <3>1, CallFields DEF Resolve, At
    <3>3. Kind(c) \in {"update", "delete", "force"}
      BY <3>2 DEF Consistent, Kind
    <3>4. Req(c).entity \in Entity
      BY <3>2, <3>3, RequestFields DEF Kind, Req
    <3>5. CallGood
      <4>1. CASE ~ Exists(Req(c).entity)
        BY <2>4, <4>1, CallEnds DEF Resolve, Ends
      <4>2. CASE Exists(Req(c).entity)
        <5> DEFINE place == IF Kind(c) = "update" THEN "write"
                            ELSE IF Kind(c) = "delete" THEN "check" ELSE "select"
                   row == rows[Req(c).entity]
        <5>1. row \in Rows /\ row # NoRow
          BY <2>e, <3>4, <4>2, NoRowIsNoRow
        <5>2. call' = [call EXCEPT ![c] = [call[c] EXCEPT !.at = place, !.row = row,
                           !.seen = call[c].seen, !.values = call[c].values]]
          <6>1. [call[c] EXCEPT !.at = place, !.row = row]
                  = [call[c] EXCEPT !.at = place, !.row = row,
                           !.seen = call[c].seen, !.values = call[c].values]
            BY <2>a, <3>1 DEF CallTypes
          <6>2. call' = [call EXCEPT ![c] = [call[c] EXCEPT !.row = row, !.at = place]]
            BY <2>4, <4>2, <2>a DEF Resolve
          <6>3. [call[c] EXCEPT !.row = row, !.at = place]
                  = [call[c] EXCEPT !.at = place, !.row = row]
            BY <2>a, <3>1 DEF CallTypes
          <6> HIDE DEF place, row
          <6> QED BY <6>1, <6>2, <6>3
        <5>3. place \in Places
          BY DEF Places
        <5>4. Consistent([call[c] EXCEPT !.at = place, !.row = row,
                           !.seen = call[c].seen, !.values = call[c].values])
          BY <2>a, <3>1, <3>3, <5>1 DEF Consistent, CallTypes, Kind
        <5> HIDE DEF place, row
        <5> QED BY <3>1, <5>1, <5>2, <5>3, <5>4, CallFields, CallGoesOn
      <4> QED BY <4>1, <4>2
    <3> QED BY <2>0, <2>4, <2>a, <2>b, <2>c, <2>d, <3>5 DEF Resolve
  <2>5. ASSUME NEW c \in Call, Update(c) PROVE TypeInv'
    <3> DEFINE x == Req(c).entity
               change == Req(c).attributes
               name == IF Req(c).name # None THEN Req(c).name ELSE call[c].row.name
               attributes == Changed(Attributes(call[c].row, call[c].type), change)
               unseen == {f \in Field \ DOMAIN change :
                            /\ Exists(x)
                            /\ ValueOf(Attributes(rows[x], call[c].type), f)
                                 # ValueOf(attributes, f)}
               written == [f \in Field |-> IF f \in DOMAIN change THEN ValueOf(change, f)
                                           ELSE IF Exists(x) THEN last[x][f]
                                           ELSE ValueOf(attributes, f)]
    <3>1. call[c] # Idle /\ At(c, "write") /\ Kind(c) = "update"
      BY <2>5, PlaceIsBusy DEF Update, Places
    <3>2. /\ call[c].req \in Requests /\ call[c].type \in Types
          /\ call[c].row \in Rows \union {NoRow} /\ Consistent(call[c])
      BY <3>1, CallFields
    <3>3. call[c].row \in Rows
      BY <3>1, <3>2 DEF Consistent, At, Kind
    <3>4. x \in Entity /\ Req(c).name \in Name \union {None} /\ change \in AttributeSets
      BY <3>1, <3>2, RequestFields DEF Kind, Req
    <3>5. name \in Name
      BY <3>3, <3>4 DEF Rows
    <3>6. attributes \in AttributeSets
      BY <3>2, <3>3, <3>4, AttributesType, ChangedType
    <3>7. written \in [Field -> Value \union {None}]
      <4>1. \A f \in Field : /\ ValueOf(change, f) \in Value \union {None}
                             /\ ValueOf(attributes, f) \in Value \union {None}
                             /\ last[x][f] \in Value \union {None}
        <5> HIDE DEF x, change, attributes
        <5> QED BY <2>a, <3>4, <3>6, ValueOfType
      <4> HIDE DEF x, change, attributes
      <4> QED BY <4>1
    <3>8. unseen \in SUBSET Field
      OBVIOUS
    <3>9. RowsGood /\ RelationsGood /\ HistoryGood
      <4>1. CASE Accepts(x, name, attributes, call[c].type)
        <5>1. Save(c, x, name, attributes, unseen, written) /\ UNCHANGED relations
          BY <2>5, <4>1 DEF Update
        <5> HIDE DEF x, name, attributes, unseen, written
        <5> QED BY <2>a, <3>1, <3>4, <3>5, <3>6, <3>7, <3>8, <4>1, <5>1, SaveType
      <4>2. CASE ~ Accepts(x, name, attributes, call[c].type)
        <5>1. UNCHANGED <<rows, history, relations>>
          BY <2>5, <4>2 DEF Update
        <5> QED BY <5>1, <2>a DEF history
      <4> QED BY <4>1, <4>2
    <3> QED BY <2>0, <2>5, <2>a, <2>b, <3>9, CallEnds DEF Update
  <2>6. ASSUME NEW c \in Call, CheckBlocked(c) PROVE TypeInv'
    <3> DEFINE x == Req(c).entity
               refused == ~Exists(x) \/ RelationsOf(RefsOf(x, rows[x].name)) # {}
    <3>1. call[c] # Idle /\ At(c, "check")
      BY <2>6, PlaceIsBusy DEF CheckBlocked, Places
    <3>2. CallGood
      <4>1. CASE refused
        BY <2>6, <4>1, CallEnds DEF CheckBlocked, Ends
      <4>2. CASE ~ refused
        <5> DEFINE seen == Naming(x)
        <5>1. call' = [call EXCEPT ![c] = [call[c] EXCEPT !.at = "erase", !.row = call[c].row,
                           !.seen = seen, !.values = call[c].values]]
          <6>1. [call[c] EXCEPT !.at = "erase", !.seen = seen]
                  = [call[c] EXCEPT !.at = "erase", !.row = call[c].row,
                           !.seen = seen, !.values = call[c].values]
            BY <2>a, <3>1 DEF CallTypes
          <6>2. call' = [call EXCEPT ![c] = [call[c] EXCEPT !.at = "erase", !.seen = seen]]
            BY <2>6, <4>2, <2>a DEF CheckBlocked
          <6> HIDE DEF seen
          <6> QED BY <6>1, <6>2
        <5>2. seen \in SUBSET (References \X References)
          BY RelationsOfType DEF Naming
        <5>3. Consistent([call[c] EXCEPT !.at = "erase", !.row = call[c].row,
                           !.seen = seen, !.values = call[c].values])
          BY <2>a, <3>1, CallFields DEF Consistent, CallTypes, At
        <5> HIDE DEF seen
        <5> QED BY <3>1, <5>1, <5>2, <5>3, CallFields, CallGoesOn DEF Places
      <4> QED BY <4>1, <4>2
    <3> QED BY <2>0, <2>6, <2>a, <2>b, <2>c, <2>d, <3>2 DEF CheckBlocked
  <2>7. ASSUME NEW c \in Call, Erase(c) PROVE TypeInv'
    <3>1. rows' = [rows EXCEPT ![Req(c).entity] = NoRow] /\ Ends(c)
      BY <2>7 DEF Erase
    <3>2. RowsGood
      BY <2>a, <3>1
    <3>3. RelationsGood /\ HistoryGood
      <4>1. Naming(Req(c).entity) \subseteq relations
        BY RelationsOfType DEF Naming
      <4> QED BY <2>7, <2>a, <4>1 DEF Erase
    <3> QED BY <2>0, <2>7, <2>a, <2>b, <3>1, <3>2, <3>3, CallEnds DEF Erase
  <2>8. ASSUME NEW c \in Call, SelectRelations(c) PROVE TypeInv'
    <3> DEFINE mine == RelationsOf(RefsOf(Req(c).entity, call[c].row.name))
               place == IF mine = {} THEN "check" ELSE "purge"
    <3>1. call[c] # Idle /\ At(c, "select")
      BY <2>8, PlaceIsBusy DEF SelectRelations, Places
    <3>2. call' = [call EXCEPT ![c] = [call[c] EXCEPT !.at = place, !.row = call[c].row,
                       !.seen = mine, !.values = call[c].values]]
      <4>1. [[call[c] EXCEPT !.seen = mine] EXCEPT !.at = place]
              = [call[c] EXCEPT !.at = place, !.row = call[c].row,
                       !.seen = mine, !.values = call[c].values]
        <5> HIDE DEF mine, place
        <5> QED BY <2>a, <3>1 DEF CallTypes
      <4>2. call' = [call EXCEPT ![c].seen = mine, ![c].at = place]
        BY <2>8 DEF SelectRelations
      <4>3. call' = [call EXCEPT ![c] = [[call[c] EXCEPT !.seen = mine] EXCEPT !.at = place]]
        <5> HIDE DEF mine, place
        <5> QED BY <2>a, <4>2
      <4> HIDE DEF mine, place
      <4> QED BY <4>1, <4>3
    <3>3. mine \in SUBSET (References \X References) /\ place \in Places
      BY RelationsOfType DEF Places
    <3>4. /\ call[c].row # NoRow
          /\ call[c].req.kind \in {"update", "delete", "force"}
      BY <3>1, CallFields DEF Consistent, At
    <3>5. \A r \in mine : \E ref \in RefsOf(Req(c).entity, call[c].row.name) : ref \in {r[1], r[2]}
      BY RelationsOfType
    <3>6. Consistent([call[c] EXCEPT !.at = place, !.row = call[c].row,
                       !.seen = mine, !.values = call[c].values])
      BY <2>a, <3>1, <3>4, <3>5 DEF Consistent, CallTypes, Req
    <3>7. CallGood
      <4> HIDE DEF mine, place
      <4> QED BY <3>1, <3>2, <3>3, <3>6, CallFields, CallGoesOn
    <3> QED BY <2>0, <2>8, <2>a, <2>b, <2>c, <2>d, <3>7 DEF SelectRelations
  <2>9. ASSUME NEW c \in Call, Purge(c) PROVE TypeInv'
    <3>1. RowsGood
      BY <2>9, <2>a DEF Purge
    <3> QED BY <2>0, <2>9, <2>a, <2>b, <3>1, CallEnds DEF Purge
  <2>10. ASSUME NEW c \in Call, CheckEnd(c) PROVE TypeInv'
    <3> DEFINE place == IF At(c, "from") THEN "to" ELSE "insert"
               k == [call[c] EXCEPT !.at = place]
    <3>1. call[c] # Idle /\ (At(c, "from") \/ At(c, "to"))
      BY <2>10, PlaceIsBusy DEF CheckEnd, Places
    <3>2. k \in CallTypes
      <4>1. place \in Places /\ call[c] \in CallTypes
        BY <2>a DEF Places
      <4> HIDE DEF place
      <4> QED BY <3>1, <4>1 DEF CallTypes, Places
    <3>3. Consistent(k)
      BY <2>a, <3>1, CallFields DEF Consistent, CallTypes, At
    <3>4. call' = [call EXCEPT ![c] = k] \/ call' = [call EXCEPT ![c] = Idle]
      BY <2>10, <2>a DEF CheckEnd, At
    <3>5. CallGood
      <4> HIDE DEF k
      <4> QED BY <3>2, <3>3, <3>4, CallStep, CallEnds DEF Ends
    <3> QED BY <2>0, <2>10, <2>a, <2>b, <2>c, <2>d, <3>5 DEF CheckEnd
  <2>11. ASSUME NEW c \in Call, Relate(c) PROVE TypeInv'
    <3>1. call[c] # Idle /\ At(c, "insert")
      BY <2>11, PlaceIsBusy DEF Relate, Places
    <3>2. Req(c).relation \in References \X References
      BY <3>1, CallFields, RequestFields DEF Consistent, At, Req
    <3>3. RelationsGood
      BY <2>11, <2>a, <3>2 DEF Relate
    <3> QED BY <2>0, <2>11, <2>a, <2>b, <3>3, CallEnds DEF Relate
  <2>12. ASSUME NEW c \in Call, Unrelate(c) PROVE TypeInv'
    BY <2>0, <2>12, <2>a, <2>b, CallEnds DEF Unrelate
  <2>13. ASSUME NEW c \in Call, ListRows(c) PROVE TypeInv'
    <3> DEFINE values == [x \in Entity |->
                            IF Exists(x) THEN rows[x].json[Req(c).field] ELSE None]
               k == [call[c] EXCEPT !.at = "write", !.values = values]
    <3>1. call[c] # Idle /\ At(c, "list")
      BY <2>13, PlaceIsBusy DEF ListRows, Places
    <3>2. Kind(c) = "materialize" /\ Req(c).field \in Field
      BY <3>1, CallFields, RequestFields DEF Consistent, At, Kind, Req
    <3>3. values \in [Entity -> Value \union {None, Null}]
      BY <2>e, <3>2 DEF Rows
    <3>4. k \in CallTypes
      <4> HIDE DEF values
      <4>1. call[c] \in
              [at : Places, req : Requests, type : Types, row : {NoRow} \union Rows,
               seen : SUBSET (References \X References),
               values : [Entity -> Value \union {None, Null}]]
        BY <2>a, <3>1 DEF CallTypes, Places
      <4>2. k \in
              [at : Places, req : Requests, type : Types, row : {NoRow} \union Rows,
               seen : SUBSET (References \X References),
               values : [Entity -> Value \union {None, Null}]]
        BY <3>3, <4>1 DEF Places
      <4>3. k.at # "idle"
        BY <4>1
      <4> QED BY <4>2, <4>3 DEF CallTypes, Places
    <3>5. Consistent(k)
      <4> HIDE DEF values
      <4> QED BY <2>a, <3>1, <3>2 DEF Consistent, CallTypes, Kind
    <3>6. call' = [call EXCEPT ![c] = k]
      <4>1. call' = [call EXCEPT ![c].at = "write", ![c].values = values]
        BY <2>13 DEF ListRows
      <4> HIDE DEF values
      <4> QED BY <2>a, <4>1
    <3>7. CallGood
      <4> HIDE DEF k
      <4> QED BY <3>4, <3>5, <3>6, CallStep
    <3> QED BY <2>0, <2>13, <2>a, <2>b, <2>c, <2>d, <3>7 DEF ListRows
  <2>14. ASSUME NEW c \in Call, Materialize(c) PROVE TypeInv'
    <3> DEFINE f == Req(c).field
               values == call[c].values
               promoted == [call[c].type EXCEPT !.materialized = @ \union {f}]
               filled == {x \in Existing : values[x] # None}
               fits == \A x \in Entity : values[x] # None => Encoded(f, values[x]) # Refused
    <3>1. call[c] # Idle /\ At(c, "write") /\ Kind(c) = "materialize"
      BY <2>14, PlaceIsBusy DEF Materialize, Places
    <3>2. f \in Field /\ call[c].type \in Types /\ values \in [Entity -> Value \union {None, Null}]
      BY <3>1, CallFields, RequestFields DEF Kind, Req
    <3>3. promoted \in Types
      BY <3>2 DEF Types
    <3>4. CASE fits
      <4>1. /\ rows' = [x \in Entity |-> IF x \in filled THEN Backfilled(rows[x], f, values[x])
                                          ELSE rows[x]]
            /\ record' = Upserted(record, promoted)
            /\ blurred' = blurred \union Withdrawn(record')
                            \union ({x \in filled : rows[x].json[f] # values[x]} \X {f})
        BY <2>14, <3>4 DEF Materialize
      <4>2. record' \in Types
        BY <2>a, <3>3, <4>1, UpsertedType
      <4>3. ASSUME NEW x \in filled PROVE Backfilled(rows[x], f, values[x]) \in Rows
        <5>1. rows[x] \in Rows
          BY <2>e DEF Existing
        <5>2. Encoded(f, values[x]) \in Value \union {None}
          BY <3>2, <3>4, EncodedType DEF Existing
        <5> QED BY <3>2, <5>1, <5>2 DEF Backfilled, Rows
      <4>4. RowsGood
        BY <2>a, <4>1, <4>3
      <4>5. Withdrawn(record') \subseteq Entity \X Field
        BY <2>a, <4>2 DEF Withdrawn, Existing, InColumns, Types
      <4>6. blurred' \subseteq Entity \X Field
        <5>1. {x \in filled : rows[x].json[f] # values[x]} \X {f} \subseteq Entity \X Field
          BY <3>2 DEF Existing
        <5> QED BY <2>a, <4>1, <4>5, <5>1
      <4> QED BY <2>0, <2>14, <2>a, <4>2, <4>4, <4>6, CallEnds DEF Materialize
    <3>5. CASE ~ fits
      <4>1. UNCHANGED <<rows, record, blurred>>
        BY <2>14, <3>5 DEF Materialize
      <4> QED BY <2>0, <2>14, <2>a, <4>1, CallEnds DEF Materialize
    <3> QED BY <3>4, <3>5
  <2>15. ASSUME NEW c \in Call, LookAtType(c) PROVE TypeInv'
    <3> DEFINE k == [call[c] EXCEPT !.at = "write"]
    <3>1. call[c] # Idle /\ At(c, "look")
      BY <2>15, PlaceIsBusy DEF LookAtType, Places
    <3>2. CASE Ends(c)
      BY <2>0, <2>15, <3>2, <2>a, <2>b, <2>c, <2>d, CallEnds DEF LookAtType
    <3>3. CASE Goes(c, "write")
      <4>1. k \in CallTypes
        BY <2>a, <3>1 DEF CallTypes
      <4>2. Consistent(k)
        BY <2>a, <3>1, CallFields DEF Consistent, CallTypes, At
      <4>3. call' = [call EXCEPT ![c] = k]
        BY <2>a, <3>3 DEF Goes
      <4>4. CallGood
        <5> HIDE DEF k
        <5> QED BY <4>1, <4>2, <4>3, CallStep
      <4> QED BY <2>0, <2>15, <2>a, <2>b, <2>c, <2>d, <4>4 DEF LookAtType
    <3> QED BY <2>15, <3>2, <3>3 DEF LookAtType
  <2>16. ASSUME NEW c \in Call, WriteType(c) PROVE TypeInv'
    <3>1. call[c] # Idle /\ At(c, "write")
      BY <2>16, PlaceIsBusy DEF WriteType, Places
    <3>2. record' \in Types
      <4>1. CASE Kind(c) \in {"createType", "saveType"}
        <5>1. Req(c).type \in Types
          BY <3>1, <4>1, CallFields, RequestFields DEF Kind, Req
        <5> QED BY <2>16, <2>a, <4>1, <5>1, UpsertedType DEF WriteType
      <4>2. CASE Kind(c) \notin {"createType", "saveType"}
        BY <2>16, <4>2, NoTypeType DEF WriteType
      <4> QED BY <4>1, <4>2
    <3>3. Withdrawn(record') \subseteq Entity \X Field
      BY <2>a, <3>2 DEF Withdrawn, Existing, InColumns, Types
    <3>4. blurred' \subseteq Entity \X Field
      BY <2>16, <2>a, <3>3 DEF WriteType
    <3> QED BY <2>0, <2>16, <2>a, <2>c, <3>2, <3>4, CallEnds DEF WriteType, data
  <2>17. ASSUME ReloadReads PROVE TypeInv'
    <3>1. record' \in Types
      BY <2>17, <2>a, NoTypeType, UpsertedType DEF ReloadReads
    <3> QED BY <2>17, <2>a, <3>1 DEF ReloadReads, TypeInv, TypeOK, data, history
  <2>18. ASSUME ReloadPublishes PROVE TypeInv'
    BY <2>18, <2>a DEF ReloadPublishes, TypeInv, TypeOK, data, history
  <2>19. ASSUME UNCHANGED vars PROVE TypeInv'
    BY <2>19 DEF vars, TypeInv, TypeOK
  <2> QED BY <2>1, <2>2, <2>3, <2>4, <2>5, <2>6, <2>7, <2>8, <2>9, <2>10, <2>11, <2>12, <2>13,
             <2>14, <2>15, <2>16, <2>17, <2>18, <2>19 DEF Next, Reads, Writes
<1> QED BY <1>1, <1>2, PTL DEF Spec

(* The records keep their types: calls are in the places that their kinds  *)
(* go through, rows hold values of fields, relations are of references.    *)
THEOREM RecordsTypeOK == Spec => []TypeOK
<1>1. TypeInv => TypeOK
  BY DEF TypeInv
<1> QED BY <1>1, RecordsTypeInv, PTL

-----------------------------------------------------------------------------
(* Relations.                                                              *)

(* An id leads to the entity, and type:business_id to whoever has it.      *)
LEMMA FoundById ==
  ASSUME TypeInv, NEW x \in Entity
  PROVE  Found(<<"id", x>>) <=> Exists(x)
<1>1. \A y \in Existing : rows[y].name \in Name
  BY DEF TypeInv, TypeOK, Existing, Exists, Rows
<1>2. \A y \in Existing : x \in {y, rows[y].name} <=> x = y
  BY <1>1, RecordsAssumption
<1> QED BY <1>2 DEF Found, Existing

LEMMA FoundByName ==
  ASSUME TypeInv, NEW n \in Name
  PROVE  Found(<<"ref", n>>) <=> \E y \in Existing : rows[y].name = n
<1>1. \A y \in Existing : n # y
  BY RecordsAssumption DEF Existing
<1> QED BY <1>1 DEF Found

(* A reference that was found is found, unless the entity it leads to is   *)
(* gone, or goes by another name.                                          *)
LEMMA StillFound ==
  ASSUME TypeInv, TypeInv', NEW ref \in References, ref[1] # "bare", Found(ref),
         NEW x \in Entity, \A y \in Entity \ {x} : rows'[y] = rows[y],
         Exists(x) => /\ rows'[x] # NoRow \/ ref # <<"id", x>>
                      /\ \/ rows'[x] # NoRow /\ rows'[x].name = rows[x].name
                         \/ ref # <<"ref", rows[x].name>>
  PROVE  Found(ref)'
<1>1. \A y \in Existing : y # x => Exists(y)' /\ rows'[y] = rows[y]
  BY DEF Existing, Exists
<1>2. CASE \E y \in Entity : ref = <<"id", y>>
  <2>1. PICK y \in Entity : ref = <<"id", y>>
    BY <1>2
  <2>2. Exists(y)
    BY <2>1, FoundById
  <2>3. y \in Existing'
    BY <1>1, <2>1, <2>2 DEF Existing, Exists
  <2> QED BY <2>1, <2>3 DEF Found
<1>3. CASE \E n \in Name : ref = <<"ref", n>>
  <2>1. PICK n \in Name : ref = <<"ref", n>>
    BY <1>3
  <2>2. PICK y \in Existing : rows[y].name = n
    BY <2>1, FoundByName
  <2>3. y \in Existing' /\ rows'[y].name = n
    BY <1>1, <2>1, <2>2 DEF Existing, Exists
  <2> QED BY <2>1, <2>3 DEF Found
<1> QED BY <1>2, <1>3 DEF References

LEMMA NotLooseStillFound ==
  ASSUME TypeInv, TypeInv', AnchorInv, relations' \ loose' \subseteq relations \ loose,
         NEW x \in Entity, \A y \in Entity \ {x} : rows'[y] = rows[y],
         \A r \in relations' \ loose' : Exists(x) =>
           /\ rows'[x] # NoRow \/ <<"id", x>> \notin {r[1], r[2]}
           /\ \/ rows'[x] # NoRow /\ rows'[x].name = rows[x].name
              \/ <<"ref", rows[x].name>> \notin {r[1], r[2]}
  PROVE  /\ \A r \in relations' \ loose' : r[1][1] # "bare" /\ r[2][1] # "bare"
         /\ RelationsAnchored'
<1>1. ASSUME NEW r \in relations' \ loose', NEW i \in {1, 2}
      PROVE  r[i][1] # "bare" /\ Found(r[i])'
  <2>1. r \in relations \ loose /\ r \in References \X References
    BY DEF TypeInv, TypeOK
  <2>2. r[i] \in References /\ r[i] \in {r[1], r[2]}
    BY <2>1
  <2>3. r[i][1] # "bare" /\ Found(r[i])
    BY <2>1 DEF AnchorInv, RelationsAnchored
  <2>4. Exists(x) => /\ rows'[x] # NoRow \/ r[i] # <<"id", x>>
                     /\ \/ rows'[x] # NoRow /\ rows'[x].name = rows[x].name
                        \/ r[i] # <<"ref", rows[x].name>>
    BY <2>2
  <2>5. Found(r[i])'
    BY <2>2, <2>3, <2>4, StillFound
  <2> QED BY <2>3, <2>5
<1>2. \A r \in relations' \ loose' : Found(r[1])' /\ Found(r[2])'
  BY <1>1
<1> QED BY <1>1, <1>2 DEF RelationsAnchored

(* A deletion looks for every relation that names its entity, by the id or *)
(* by the business id that the entity has.                                 *)
LEMMA ErasesUnnamed ==
  ASSUME TypeInv, Next, \A d \in Call : At(d, "erase") => call[d].seen = {}
  PROVE  \A d \in Call : At(d, "erase")' => call'[d].seen = {}
<1> DEFINE Good == \A d \in Call : At(d, "erase")' => call'[d].seen = {}
<1>a. call \in [Call -> CallTypes] /\ \A d \in Call : call[d].at = "erase" => call[d].seen = {}
  BY DEF TypeInv, TypeOK, At
<1>b. UNCHANGED call => Good
  BY <1>a DEF At
<1>c. \A d \in Call : Ends(d) => Good
  BY <1>a DEF Ends, Idle, At
<1>d. ASSUME NEW d \in Call, NEW k, k.at # "erase" \/ k.seen = {}, call' = [call EXCEPT ![d] = k]
      PROVE  Good
  BY <1>a, <1>d DEF At
<1>1. ASSUME NEW d \in Call, NEW q \in Requests, Start(d, q) PROVE Good
  <2> DEFINE k == [at |-> FirstPlace[q.kind], req |-> q, type |-> snapshot, row |-> NoRow,
                   seen |-> {}, values |-> [x \in Entity |-> None]]
  <2>1. k.seen = {} /\ call' = [call EXCEPT ![d] = k]
    BY <1>1 DEF Start
  <2> HIDE DEF k, Good
  <2> QED BY <2>1, <1>d
<1>2. ASSUME NEW d \in Call, Resolve(d) PROVE Good
  <2> DEFINE k == IF ~Exists(Req(d).entity) THEN Idle
                  ELSE [call[d] EXCEPT !.row = rows[Req(d).entity],
                         !.at = IF Kind(d) = "update" THEN "write"
                                ELSE IF Kind(d) = "delete" THEN "check" ELSE "select"]
  <2>1. call[d] # Idle
    BY <1>2, PlaceIsBusy DEF Resolve, Places
  <2>2. k.at # "erase"
    BY <1>a, <2>1 DEF CallTypes, Idle
  <2>3. call' = [call EXCEPT ![d] = k]
    BY <1>2, <1>a DEF Resolve
  <2> HIDE DEF k, Good
  <2> QED BY <2>2, <2>3, <1>d
<1>3. ASSUME NEW d \in Call, CheckBlocked(d) PROVE Good
  <2> DEFINE x == Req(d).entity
             k == IF ~Exists(x) \/ RelationsOf(RefsOf(x, rows[x].name)) # {} THEN Idle
                  ELSE [call[d] EXCEPT !.at = "erase", !.seen = Naming(x)]
  <2>1. call[d] # Idle
    BY <1>3, PlaceIsBusy DEF CheckBlocked, Places
  <2>2. k.at # "erase" \/ k.seen = {}
    <3>1. Naming(x) = RelationsOf(RefsOf(x, rows[x].name))
      BY DEF Naming, RefsOf
    <3> QED BY <1>a, <2>1, <3>1 DEF CallTypes, Idle
  <2>3. call' = [call EXCEPT ![d] = k]
    BY <1>3, <1>a DEF CheckBlocked
  <2> HIDE DEF k, Good
  <2> QED BY <2>2, <2>3, <1>d
<1>4. ASSUME NEW d \in Call, SelectRelations(d) PROVE Good
  BY <1>4, <1>a DEF SelectRelations, At
<1>5. ASSUME NEW d \in Call, CheckEnd(d) PROVE Good
  BY <1>5, <1>a DEF CheckEnd, At, Idle
<1>6. ASSUME NEW d \in Call, ListRows(d) PROVE Good
  BY <1>6, <1>a DEF ListRows, At
<1>7. ASSUME NEW d \in Call, LookAtType(d) PROVE Good
  <2>1. CASE Ends(d)
    BY <2>1, <1>c
  <2>2. CASE Goes(d, "write")
    BY <2>2, <1>a DEF Goes, At
  <2> QED BY <1>7, <2>1, <2>2 DEF LookAtType
<1>8. ASSUME NEW d \in Call, Writes(d) \/ Raises(d) PROVE Good
  BY <1>8, <1>c DEF Writes, Create, Update, Erase, Purge, Relate, Unrelate, Materialize, WriteType,
                    Raises
<1> QED BY <1>b, <1>1, <1>2, <1>3, <1>4, <1>5, <1>6, <1>7, <1>8
    DEF Next, Reads, ReloadReads, ReloadPublishes

LEMMA RecordsAnchorInv == Spec => []AnchorInv
<1>1. Init => AnchorInv
  BY DEF Init, AnchorInv, RelationsAnchored, At, Idle
<1>2. TypeInv /\ TypeInv' /\ AnchorInv /\ [Next]_vars => AnchorInv'
  <2> SUFFICES ASSUME TypeInv, TypeInv', AnchorInv, [Next]_vars PROVE AnchorInv'
    OBVIOUS
  <2> DEFINE Good == /\ \A r \in relations' \ loose' : r[1][1] # "bare" /\ r[2][1] # "bare"
                     /\ RelationsAnchored'
  <2>a. /\ \A r \in relations \ loose : /\ r[1][1] # "bare" /\ r[2][1] # "bare"
                                        /\ Found(r[1]) /\ Found(r[2])
        /\ rows \in [Entity -> Rows \union {NoRow}]
    BY DEF AnchorInv, RelationsAnchored, TypeInv, TypeOK
  <2>b. ASSUME UNCHANGED rows, relations' \ loose' \subseteq relations \ loose PROVE Good
    BY <2>a, <2>b DEF RelationsAnchored, Found, Existing, Exists
  <2>1. CASE UNCHANGED vars
    BY <2>1, <2>b DEF vars, AnchorInv, At
  <2>2. ASSUME NEW c \in Call, NEW x \in Entity, NEW name \in Name,
               NEW A, NEW unseen, NEW written,
               Save(c, x, name, A, unseen, written), UNCHANGED relations
        PROVE  Good
    <3> DEFINE column == IF Exists(x) THEN rows[x].column ELSE NoColumn
               T == call[c].type
    <3>1. rows' = [rows EXCEPT ![x] = Saved(name, column, A, T)]
      BY <2>2 DEF Save
    <3>2. rows'[x] # NoRow /\ rows'[x].name = name /\ \A y \in Entity \ {x} : rows'[y] = rows[y]
      <4>1. Saved(name, column, A, T).name = name
        BY DEF Saved
      <4>2. name # NoRow.name
        BY RecordsAssumption DEF NoRow
      <4> HIDE DEF column, T
      <4> QED BY <2>a, <3>1, <4>1, <4>2
    <3>3. relations' \ loose' \subseteq relations \ loose
      BY <2>2 DEF Save
    <3>4. ASSUME NEW r \in relations' \ loose', Exists(x)
          PROVE  rows'[x].name = rows[x].name \/ <<"ref", rows[x].name>> \notin {r[1], r[2]}
      BY <2>2, <3>2, <3>4 DEF Save, RelationsOf
    <3> QED BY <3>2, <3>3, <3>4, NotLooseStillFound
  <2>3. ASSUME NEW c \in Call, Create(c) PROVE Good
    <3> DEFINE x == Req(c).entity
               given == Req(c).attributes
    <3>1. call[c] # Idle /\ Kind(c) = "create"
      BY <2>3, PlaceIsBusy DEF Create, Places
    <3>2. x \in Entity /\ Req(c).name \in Name
      BY <3>1, CallFields, RequestFields DEF Kind, Req
    <3>3. CASE Accepts(x, Req(c).name, given, call[c].type)
      BY <2>2, <2>3, <3>2, <3>3 DEF Create
    <3>4. CASE ~ Accepts(x, Req(c).name, given, call[c].type)
      BY <2>3, <2>b, <3>4 DEF Create, history
    <3> QED BY <3>3, <3>4
  <2>4. ASSUME NEW c \in Call, Update(c) PROVE Good
    <3> DEFINE x == Req(c).entity
               change == Req(c).attributes
               name == IF Req(c).name # None THEN Req(c).name ELSE call[c].row.name
               attributes == Changed(Attributes(call[c].row, call[c].type), change)
    <3>1. call[c] # Idle /\ At(c, "write") /\ Kind(c) = "update"
      BY <2>4, PlaceIsBusy DEF Update, Places
    <3>2. x \in Entity /\ Req(c).name \in Name \union {None}
      BY <3>1, CallFields, RequestFields DEF Kind, Req
    <3>3. call[c].row \in Rows
      BY <3>1, CallFields DEF Consistent, At, Kind
    <3>4. name \in Name
      BY <3>2, <3>3 DEF Rows
    <3>5. CASE Accepts(x, name, attributes, call[c].type)
      BY <2>2, <2>4, <3>2, <3>4, <3>5 DEF Update
    <3>6. CASE ~ Accepts(x, name, attributes, call[c].type)
      <4>1. UNCHANGED <<rows, history, relations>>
        BY <2>4, <3>6 DEF Update
      <4> QED BY <4>1, <2>b DEF history
    <3> QED BY <3>5, <3>6
  <2>5. ASSUME NEW c \in Call, Erase(c) PROVE Good
    <3> DEFINE x == Req(c).entity
    <3>1. call[c] # Idle /\ At(c, "erase")
      BY <2>5, PlaceIsBusy DEF Erase, Places
    <3>2. x \in Entity
      BY <3>1, CallFields, RequestFields DEF Consistent, At, Req
    <3>3. call[c].seen = {}
      BY <3>1 DEF AnchorInv
    <3>4. relations' \ loose' \subseteq relations \ loose
      BY <2>5 DEF Erase
    <3>5. ASSUME NEW r \in relations' \ loose', Exists(x)
          PROVE  <<"id", x>> \notin {r[1], r[2]} /\ <<"ref", rows[x].name>> \notin {r[1], r[2]}
      BY <2>5, <3>3, <3>5 DEF Erase, Naming, RelationsOf
    <3>6. \A y \in Entity \ {x} : rows'[y] = rows[y]
      BY <2>5, <2>a DEF Erase
    <3> QED BY <3>2, <3>4, <3>5, <3>6, NotLooseStillFound
  <2>6. ASSUME NEW c \in Call, Purge(c) PROVE Good
    <3> DEFINE x == Req(c).entity
               blocking == RelationsOf(RefsOf(x, rows[x].name)) \ call[c].seen
    <3>1. call[c] # Idle /\ At(c, "purge")
      BY <2>6, PlaceIsBusy DEF Purge, Places
    <3>2. x \in Entity
      BY <3>1, CallFields, RequestFields DEF Consistent, At, Req
    <3>3. relations' \ loose' \subseteq relations \ loose
      BY <2>6 DEF Purge
    <3>4. CASE Exists(x) /\ blocking = {}
      <4>1. ASSUME NEW r \in relations' \ loose'
            PROVE  <<"id", x>> \notin {r[1], r[2]} /\ <<"ref", rows[x].name>> \notin {r[1], r[2]}
        BY <2>6, <3>4, <4>1 DEF Purge, RelationsOf, RefsOf
      <4>2. \A y \in Entity \ {x} : rows'[y] = rows[y]
        BY <2>6, <2>a, <3>4 DEF Purge
      <4> QED BY <3>2, <3>3, <4>1, <4>2, NotLooseStillFound
    <3>5. CASE ~ (Exists(x) /\ blocking = {})
      BY <2>6, <2>b, <3>3, <3>5 DEF Purge
    <3> QED BY <3>4, <3>5
  <2>7. ASSUME NEW c \in Call, Relate(c) PROVE Good
    <3> DEFINE r == Req(c).relation
    <3>1. ASSUME NEW s \in relations' \ loose'
          PROVE  s[1][1] # "bare" /\ s[2][1] # "bare" /\ Found(s[1]) /\ Found(s[2])
      BY <2>7, <2>a, <3>1 DEF Relate
    <3>2. UNCHANGED rows
      BY <2>7 DEF Relate
    <3> QED BY <3>1, <3>2 DEF RelationsAnchored, Found, Existing, Exists
  <2>8. ASSUME NEW c \in Call, Unrelate(c) PROVE Good
    BY <2>8, <2>b DEF Unrelate
  <2>9. ASSUME NEW c \in Call, Materialize(c) PROVE Good
    <3>1. \A x \in Entity : rows[x] # NoRow => rows'[x] # NoRow /\ rows'[x].name = rows[x].name
      <4>1. \A x \in Existing : \A f, v : /\ Backfilled(rows[x], f, v).name = rows[x].name
                                        /\ Backfilled(rows[x], f, v) # NoRow
        BY <2>a DEF Existing, Exists, Backfilled, Rows, NoRow
      <4> QED BY <2>9, <2>a, <4>1 DEF Materialize, Existing, Exists
    <3>2. UNCHANGED <<relations, loose>>
      BY <2>9 DEF Materialize
    <3> QED BY <2>a, <3>1, <3>2 DEF RelationsAnchored, Found, Existing, Exists
  <2>10. ASSUME NEW c \in Call, WriteType(c) \/ Raises(c) \/ Reads(c) PROVE Good
    BY <2>10, <2>b DEF WriteType, Raises, Reads, Resolve, CheckBlocked, SelectRelations, CheckEnd,
                      ListRows, LookAtType, data, history
  <2>11. ASSUME NEW c \in Call, NEW q \in Requests, Start(c, q) PROVE Good
    BY <2>11, <2>b DEF Start, data, history
  <2>12. ASSUME ReloadReads \/ ReloadPublishes PROVE Good
    BY <2>12, <2>b DEF ReloadReads, ReloadPublishes, data, history
  <2>13. CASE Next
    <3>1. Good
      <4> HIDE DEF Good
      <4> QED BY <2>13, <2>3, <2>4, <2>5, <2>6, <2>7, <2>8, <2>9, <2>10, <2>11, <2>12
          DEF Next, Writes
    <3>2. \A c \in Call : At(c, "erase")' => call'[c].seen = {}
      BY <2>13, ErasesUnnamed DEF AnchorInv
    <3> QED BY <3>1, <3>2 DEF AnchorInv, At
  <2> QED BY <2>1, <2>13
<1> QED BY <1>1, <1>2, RecordsTypeInv, PTL DEF Spec

(* Whatever is deleted, created or renamed, by calls that overlap as they  *)
(* may: a relation that names its ends by id or by the business ids they   *)
(* have leads to things that exist.                                        *)
THEOREM RecordsRelationsAnchored == Spec => []RelationsAnchored
<1>1. AnchorInv => RelationsAnchored
  BY DEF AnchorInv
<1> QED BY <1>1, RecordsAnchorInv, PTL

(* No call takes a relation away but the one that is asked to, or together *)
(* with an entity that the relation names: a forced deletion that is not   *)
(* overtaken deletes its entity, if it deletes relations.                  *)
THEOREM RecordsRelationsGoWithEnds == Spec => RelationsGoWithEnds
<1> DEFINE Accounted ==
      \A r \in relations \ relations' :
        \/ \E c \in Call : Unrelate(c) /\ Req(c).relation = r
        \/ \E x \in Existing : /\ rows'[x] = NoRow
                               /\ r \in RelationsOf(RefsOf(x, rows[x].name))
        \/ \E c \in Call : Purge(c) /\ Overtaken(c)
<1>1. TypeInv /\ [Next]_vars => [Accounted]_vars
  <2> SUFFICES ASSUME TypeInv, [Next]_vars, NEW r \in relations \ relations'
               PROVE  \/ \E c \in Call : Unrelate(c) /\ Req(c).relation = r
                      \/ \E x \in Existing : /\ rows'[x] = NoRow
                                             /\ r \in RelationsOf(RefsOf(x, rows[x].name))
                      \/ \E c \in Call : Purge(c) /\ Overtaken(c)
    OBVIOUS
  <2>1. \E c \in Call : Unrelate(c) \/ Purge(c)
    <3>1. UNCHANGED vars => UNCHANGED relations
      BY DEF vars
    <3>2. \A c \in Call : Create(c) \/ Update(c) \/ Erase(c) \/ Materialize(c) \/ WriteType(c)
                          \/ Raises(c) => UNCHANGED relations
      BY DEF Create, Update, Erase, Materialize, WriteType, Raises, data
    <3>3. \A c \in Call : Reads(c) => UNCHANGED relations
      BY DEF Reads, Resolve, CheckBlocked, SelectRelations, CheckEnd, ListRows, LookAtType, data
    <3>4. \A c \in Call : Relate(c) => relations \subseteq relations'
      BY DEF Relate
    <3>5. \A c \in Call, q \in Requests : Start(c, q) => UNCHANGED relations
      BY DEF Start, data
    <3>6. ReloadReads \/ ReloadPublishes => UNCHANGED relations
      BY DEF ReloadReads, ReloadPublishes, data
    <3> QED BY <3>1, <3>2, <3>3, <3>4, <3>5, <3>6 DEF Next, Writes
  <2>2. PICK c \in Call : Unrelate(c) \/ Purge(c)
    BY <2>1
  <2>3. CASE Unrelate(c)
    BY <2>3 DEF Unrelate
  <2>4. CASE Purge(c) /\ ~ Overtaken(c)
    <3> DEFINE x == Req(c).entity
    <3>1. call[c] # Idle /\ At(c, "purge")
      BY <2>4, PlaceIsBusy DEF Purge, Places
    <3>2. x \in Entity /\ call[c].row \in Rows
      BY <3>1, CallFields, RequestFields DEF Consistent, At, Req
    <3>3. \E ref \in RefsOf(x, call[c].row.name) : ref \in {r[1], r[2]}
      <4>1. r \in call[c].seen
        BY <2>4 DEF Purge
      <4> QED BY <3>1, <4>1, CallFields DEF Consistent, At, Req
    <3>4. /\ rows[x].name = call[c].row.name
          /\ RelationsOf(RefsOf(x, rows[x].name)) \subseteq call[c].seen
      BY <2>4 DEF Overtaken
    <3>5. Exists(x)
      BY <3>2, <3>4, RecordsAssumption DEF Exists, NoRow, Rows
    <3>6. rows'[x] = NoRow
      <4>1. rows' = [rows EXCEPT ![x] = NoRow]
        BY <2>4, <3>4, <3>5 DEF Purge
      <4> QED BY <3>2, <4>1 DEF TypeInv, TypeOK
    <3>7. r \in RelationsOf(RefsOf(x, rows[x].name))
      BY <3>3, <3>4 DEF RelationsOf
    <3> QED BY <3>2, <3>5, <3>6, <3>7 DEF Existing
  <2> QED BY <2>2, <2>3, <2>4
<1>2. RelationsGoWithEnds <=> [][Accounted]_vars
  BY DEF RelationsGoWithEnds
<1> QED BY <1>1, <1>2, RecordsTypeInv, PTL DEF Spec

-----------------------------------------------------------------------------
(* Fields.                                                                 *)

(* What a field of an entity reads as, attribute by attribute.             *)
LEMMA ReadIsValueOf ==
  ASSUME NEW row \in Rows, NEW T, NEW f \in Field
  PROVE  ValueOf(Attributes(row, T), f) = Read(row, T, f)
<1> DEFINE found == [g \in Field |-> IF g \in InColumns(T) /\ row.column[g] # None
                                       THEN row.column[g] ELSE row.json[g]]
           A == [g \in {h \in Field : found[h] # None} |-> found[g]]
<1>1. Attributes(row, T) = A
  BY DEF Attributes
<1>2. f \in DOMAIN A <=> found[f] # None
  OBVIOUS
<1>3. f \in DOMAIN A => A[f] = found[f]
  OBVIOUS
<1>4. Read(row, T, f) = IF found[f] = Null THEN None ELSE found[f]
  BY DEF Read
<1>5. ValueOf(A, f) = IF f \in DOMAIN A /\ A[f] # Null THEN A[f] ELSE None
  BY DEF ValueOf
<1> HIDE DEF found, A
<1> QED BY <1>1, <1>2, <1>3, <1>4, <1>5

(* A field reads the same by types that place it alike.                    *)
LEMMA ReadAlike ==
  ASSUME NEW row, NEW S, NEW T, NEW f,
         f \in S.materialized <=> f \in T.materialized, f \in S.deprecated <=> f \in T.deprecated
  PROVE  Read(row, S, f) = Read(row, T, f)
BY DEF Read, InColumns

LEMMA ViewsAreTypes ==
  ASSUME TypeInv
  PROVE  /\ record \in Views /\ snapshot \in Views
         /\ loaded # NoLoad => loaded \in Views
         /\ Views \subseteq Types
BY NoLoadIsNoType DEF Views, TypeInv, TypeOK

LEMMA ColumnValues ==
  ASSUME TypeInv, NEW x \in Entity, Exists(x), NEW f \in Field
  PROVE  /\ rows[x] \in Rows
         /\ rows[x].column[f] \in Value \union {None}
         /\ rows[x].json[f] \in Value \union {None, Null}
BY DEF TypeInv, TypeOK, Exists, Rows

(* Nothing changes for a field while its entity and the views of the type  *)
(* stay as they are.                                                       *)
LEMMA FieldsStay ==
  ASSUME TypeInv, FieldInv, blurred \subseteq blurred', last' = last,
         \A x \in Entity : Exists(x)' => rows'[x] = rows[x],
         record'.materialized = record.materialized,
         \A S \in Views' : \E R \in Views : /\ S.materialized = R.materialized
                                            /\ S.deprecated = R.deprecated
  PROVE  FieldInv'
<1> SUFFICES ASSUME NEW x \in Existing', NEW f \in Field, Lossless(f), <<x, f>> \notin blurred'
             PROVE  Settled(x, f)'
  BY DEF FieldInv
<1>1. rows'[x] = rows[x] /\ x \in Existing
  BY DEF Existing, Exists
<1>2. Settled(x, f)
  BY <1>1 DEF FieldInv
<1>3. ASSUME NEW S \in Views'
      PROVE  f \notin S.deprecated /\ Read(rows'[x], S, f) = last'[x][f]
  <2>1. PICK R \in Views : S.materialized = R.materialized /\ S.deprecated = R.deprecated
    OBVIOUS
  <2>2. Read(rows[x], S, f) = Read(rows[x], R, f)
    BY <2>1, ReadAlike
  <2> QED BY <1>1, <1>2, <2>1, <2>2 DEF Settled
<1> QED BY <1>1, <1>2, <1>3 DEF Settled

(* A field whose column is not withdrawn is read as before by the new      *)
(* record of the type, if the entity has the same in it.                   *)
LEMMA RecordChanges ==
  ASSUME TypeInv, TypeInv', UNCHANGED <<snapshot, loaded, last>>,
         NEW x \in Existing, NEW f \in Field, Settled(x, f), <<x, f>> \notin Withdrawn(record'),
         rows'[x].json[f] = rows[x].json[f], rows'[x].column[f] = rows[x].column[f]
  PROVE  Settled(x, f)'
<1>1. f \notin record'.deprecated /\ (f \in InColumns(record) => f \in InColumns(record'))
  BY DEF Withdrawn
<1>2. \A S : Read(rows'[x], S, f) = Read(rows[x], S, f)
  BY DEF Read
<1>3. /\ f \notin record.deprecated /\ Read(rows[x], record, f) = last[x][f]
      /\ rows[x].column[f] # None => f \in record.materialized
  BY ViewsAreTypes DEF Settled
<1>4. Read(rows[x], record', f) = Read(rows[x], record, f)
  BY <1>1, <1>3 DEF Read, InColumns
<1>5. \A S \in Views' : S = record' \/ S \in Views
  BY DEF Views
<1>6. \A S \in Views' : f \notin S.deprecated /\ Read(rows'[x], S, f) = last'[x][f]
  BY <1>1, <1>2, <1>3, <1>4, <1>5 DEF Settled
<1>7. rows'[x].column[f] # None =>
        f \in record'.materialized /\ rows'[x].json[f] \in {None, rows'[x].column[f]}
  BY <1>1, <1>3 DEF Settled, InColumns
<1> QED BY <1>6, <1>7 DEF Settled

(* A save puts a value where every view of the type looks for it, unless   *)
(* they disagree about the field.                                          *)
LEMMA SaveSettles ==
  ASSUME TypeInv, FieldInv, NEW c \in Call, call[c] # Idle, NEW x \in Entity, NEW name \in Name,
         NEW A \in AttributeSets, Accepts(x, name, A, call[c].type), NEW unseen, NEW written,
         Save(c, x, name, A, unseen, written), UNCHANGED types,
         NEW f \in Field, Lossless(f), <<x, f>> \notin blurred',
         written \in [Field -> Value \union {None}], written[f] = ValueOf(A, f),
         f \in InColumns(call[c].type) \ DOMAIN A => ~Exists(x) \/ rows[x].column[f] = None
  PROVE  Settled(x, f)'
<1> DEFINE T == call[c].type
           column == IF Exists(x) THEN rows[x].column ELSE NoColumn
           saved == Saved(name, column, A, T)
<1>1. /\ rows' = [rows EXCEPT ![x] = saved]
      /\ last' = [last EXCEPT ![x] = written]
      /\ blurred' = (IF Exists(x) THEN blurred ELSE blurred \ ({x} \X Field))
                       \union ({x} \X (unseen \union T.deprecated
                                        \union UNION {Moved(T, S) : S \in Views}))
  BY DEF Save, Views
<1>2. rows'[x] = saved /\ last'[x] = written
  <2> HIDE DEF saved
  <2> QED BY <1>1 DEF TypeInv, TypeOK
<1>3. f \notin T.deprecated /\ \A S \in Views : f \notin Moved(T, S)
  BY <1>1
<1>4. \A S \in Views : f \notin S.deprecated /\ (f \in S.materialized <=> f \in T.materialized)
  BY <1>3 DEF Moved
<1>5. f \in InColumns(T) <=> f \in T.materialized
  BY <1>3 DEF InColumns
<1>6. Views' = Views /\ record' = record /\ record \in Views
  BY ViewsAreTypes DEF Views, types
<1>7. /\ saved.json[f] = IF f \in DOMAIN A /\ f \notin T.materialized THEN A[f] ELSE None
      /\ saved.column[f] = IF f \in DOMAIN A /\ f \in T.materialized
                             THEN Encoded(f, A[f]) ELSE column[f]
  BY <1>3, <1>5 DEF Saved
<1>8. f \notin T.materialized => column[f] = None
  <2>1. Exists(x) /\ column[f] # None => f \in record.materialized
    <3> SUFFICES ASSUME Exists(x), column[f] # None PROVE f \in record.materialized
      OBVIOUS
    <3>1. <<x, f>> \notin blurred
      BY <1>1
    <3> QED BY <3>1 DEF FieldInv, Settled, Existing
  <2> QED BY <1>4, <1>6, <2>1 DEF NoColumn
<1>9. f \in T.materialized /\ f \notin DOMAIN A => column[f] = None
  BY <1>5 DEF NoColumn
<1>10. f \in DOMAIN A => A[f] \in Value \union {Null}
  BY DEF AttributeSets
<1>11. f \in DOMAIN A /\ f \in T.materialized =>
         Encoded(f, A[f]) = IF A[f] = Null THEN None ELSE A[f]
  <2> SUFFICES ASSUME f \in DOMAIN A, f \in T.materialized
               PROVE  Encoded(f, A[f]) = IF A[f] = Null THEN None ELSE A[f]
    OBVIOUS
  <2>1. Encoded(f, A[f]) # Refused
    BY <1>5 DEF Accepts, Saveable
  <2> QED BY <1>10, <2>1 DEF Encoded, Lossless
<1>12. \A S \in Views : Read(saved, S, f) = written[f]
  <2> SUFFICES ASSUME NEW S \in Views PROVE Read(saved, S, f) = written[f]
    OBVIOUS
  <2>0. f \in InColumns(S) <=> f \in T.materialized
    BY <1>4 DEF InColumns
  <2>a. None # Null /\ None \notin Value /\ Null \notin Value
    BY WordsAreNotValues DEF None, Null
  <2>b. written[f] = IF f \in DOMAIN A /\ A[f] # Null THEN A[f] ELSE None
    BY DEF ValueOf
  <2>c. Read(saved, S, f) =
          LET v == IF f \in InColumns(S) /\ saved.column[f] # None
                     THEN saved.column[f] ELSE saved.json[f]
          IN IF v = Null THEN None ELSE v
    BY DEF Read
  <2> HIDE DEF saved, column, T
  <2>1. CASE f \in T.materialized /\ f \in DOMAIN A
    BY <1>7, <1>10, <1>11, <2>0, <2>1, <2>a, <2>b, <2>c
  <2>2. CASE f \in T.materialized /\ f \notin DOMAIN A
    BY <1>7, <1>9, <2>0, <2>2, <2>a, <2>b, <2>c
  <2>3. CASE f \notin T.materialized
    BY <1>7, <1>8, <2>0, <2>3, <2>a, <2>b, <2>c
  <2> QED BY <2>1, <2>2, <2>3
<1>13. saved.column[f] # None => f \in record.materialized /\ saved.json[f] = None
  <2> HIDE DEF saved, column, T
  <2> QED BY <1>4, <1>6, <1>7, <1>8
<1> QED
  <2> HIDE DEF saved, column, T
  <2> QED BY <1>2, <1>4, <1>6, <1>12, <1>13 DEF Settled

(* The other entities stay as they are.                                    *)
LEMMA SaveKeepsOthers ==
  ASSUME TypeInv, FieldInv, NEW c \in Call, NEW x \in Entity, NEW name, NEW A, NEW unseen,
         NEW written, Save(c, x, name, A, unseen, written), UNCHANGED types,
         NEW y \in Existing', y # x, NEW f \in Field, Lossless(f), <<y, f>> \notin blurred'
  PROVE  Settled(y, f)'
<1>1. rows'[y] = rows[y] /\ last'[y] = last[y]
  BY DEF Save, TypeInv, TypeOK, Existing
<1>2. <<y, f>> \notin blurred
  BY DEF Save
<1>3. Settled(y, f)
  BY <1>1, <1>2 DEF FieldInv, Existing, Exists
<1>4. Views' = Views /\ record' = record
  BY DEF Views, types
<1> QED BY <1>1, <1>3, <1>4 DEF Settled

(* A backfill copies what the JSON says into the column: both say the same *)
(* to whoever reads them.                                                  *)
LEMMA BackfillSettles ==
  ASSUME TypeInv, UNCHANGED <<snapshot, loaded, last>>,
         NEW x \in Existing, NEW f \in Field, Lossless(f), Settled(x, f),
         rows[x].json[f] # None, Encoded(f, rows[x].json[f]) # Refused,
         f \in record'.materialized, f \notin record'.deprecated,
         rows'[x] = Backfilled(rows[x], f, rows[x].json[f])
  PROVE  Settled(x, f)'
<1> DEFINE v == rows[x].json[f]
<1>1. /\ rows[x] \in Rows
      /\ rows[x].column[f] \in Value \union {None}
      /\ v \in Value \union {Null}
  BY ColumnValues DEF Existing
<1>2. rows'[x].json[f] = v /\ rows'[x].column[f] = Encoded(f, v)
  BY <1>1 DEF Backfilled, Rows
<1>3. Encoded(f, v) = IF v = Null THEN None ELSE v
  BY <1>1 DEF Encoded, Lossless
<1>4. None # Null /\ None \notin Value /\ Null \notin Value
  BY WordsAreNotValues DEF None, Null
<1>5. \A S : Read(rows'[x], S, f) = IF v = Null THEN None ELSE v
  <2> HIDE DEF v
  <2> QED BY <1>1, <1>2, <1>3, <1>4 DEF Read
<1>6. rows[x].column[f] # None => v = rows[x].column[f]
  BY DEF Settled
<1>7. \A S : Read(rows[x], S, f) = IF v = Null THEN None ELSE v
  <2>1. rows[x].json[f] = v
    OBVIOUS
  <2> HIDE DEF v
  <2> QED BY <1>1, <1>4, <1>6, <2>1 DEF Read
<1>8. last[x][f] = IF v = Null THEN None ELSE v
  BY <1>7, ViewsAreTypes DEF Settled
<1>9. \A S \in Views' : f \notin S.deprecated
  BY DEF Views, Settled
<1>10. rows'[x].column[f] # None =>
         f \in record'.materialized /\ rows'[x].json[f] \in {None, rows'[x].column[f]}
  <2> HIDE DEF v
  <2> QED BY <1>2, <1>3
<1> QED BY <1>5, <1>8, <1>9, <1>10 DEF Settled

LEMMA RecordsFieldInv == Spec => []FieldInv
<1>1. Init => FieldInv
  <2> SUFFICES ASSUME Init, NEW x \in Existing, NEW f \in Field PROVE Settled(x, f)
    BY DEF FieldInv
  <2>1. rows[x] = [name |-> Original[x], json |-> Given[x], column |-> NoColumn]
    BY DEF Init, Existing, Exists
  <2>2. Given[x][f] \in Value \union {None} /\ None # Null /\ Null \notin Value
    BY RecordsAssumption, WordsAreNotValues DEF Existing, None, Null
  <2>3. \A S : Read(rows[x], S, f) = Given[x][f]
    BY <2>1, <2>2 DEF Read, NoColumn
  <2>4. \A S \in Views : S.deprecated = {}
    BY DEF Views, Init, NoType
  <2> QED BY <2>1, <2>3, <2>4 DEF Settled, NoColumn, Init
<1>2. TypeInv /\ TypeInv' /\ FieldInv /\ [Next]_vars => FieldInv'
  <2> SUFFICES ASSUME TypeInv, TypeInv', FieldInv, [Next]_vars PROVE FieldInv'
    OBVIOUS
  <2>a. rows \in [Entity -> Rows \union {NoRow}]
    BY DEF TypeInv, TypeOK
  <2>b. ASSUME UNCHANGED <<types, last>>, blurred \subseteq blurred',
               \A x \in Entity : Exists(x)' => rows'[x] = rows[x]
        PROVE  FieldInv'
    <3>1. record' = record /\ Views' = Views
      BY <2>b DEF types, Views
    <3> QED BY <2>b, <3>1, FieldsStay
  <2>1. CASE UNCHANGED vars
    BY <2>1, <2>b DEF vars, types
  <2>2. ASSUME NEW c \in Call, Create(c) PROVE FieldInv'
    <3>1. call[c] # Idle /\ Kind(c) = "create"
      BY <2>2, PlaceIsBusy DEF Create, Places
    <3>0. PICK x \in Entity : x = Req(c).entity
      BY <3>1, CallFields, RequestFields DEF Kind, Req
    <3> DEFINE given == Req(c).attributes
               unseen == IF Exists(x) THEN InColumns(call[c].type) \ DOMAIN given ELSE {}
               written == [f \in Field |-> ValueOf(given, f)]
    <3>2. Req(c).name \in Name /\ given \in AttributeSets
      BY <3>1, CallFields, RequestFields DEF Kind, Req
    <3>3. CASE ~ Accepts(x, Req(c).name, given, call[c].type)
      BY <2>2, <2>b, <3>0, <3>3 DEF Create, history
    <3>4. CASE Accepts(x, Req(c).name, given, call[c].type)
      <4>1. Save(c, x, Req(c).name, given, unseen, written) /\ UNCHANGED types
        BY <2>2, <3>0, <3>4 DEF Create
      <4>2. written \in [Field -> Value \union {None}]
        BY <3>2, ValueOfType
      <4>3. ASSUME NEW f \in Field, Lossless(f), <<x, f>> \notin blurred'
            PROVE  Settled(x, f)'
        <5>1. written[f] = ValueOf(given, f)
          OBVIOUS
        <5>2. f \notin unseen
          <6> HIDE DEF unseen, written
          <6> QED BY <4>1, <4>3 DEF Save
        <5>3. f \in InColumns(call[c].type) \ DOMAIN given => ~Exists(x) \/ rows[x].column[f] = None
          BY <5>2
        <5> HIDE DEF given, unseen, written
        <5> QED BY <3>1, <3>2, <3>4, <4>1, <4>2, <4>3, <5>1, <5>3, SaveSettles
      <4>4. ASSUME NEW y \in Existing', y # x, NEW f \in Field, Lossless(f),
                   <<y, f>> \notin blurred'
            PROVE  Settled(y, f)'
        <5> HIDE DEF given, unseen, written
        <5> QED BY <3>2, <4>1, <4>4, SaveKeepsOthers
      <4> QED BY <4>3, <4>4 DEF FieldInv
    <3> QED BY <3>3, <3>4
  <2>3. ASSUME NEW c \in Call, Update(c) PROVE FieldInv'
    <3>1. call[c] # Idle /\ At(c, "write") /\ Kind(c) = "update"
      BY <2>3, PlaceIsBusy DEF Update, Places
    <3>2. /\ call[c].req \in Requests /\ call[c].type \in Types
          /\ call[c].row \in Rows
      BY <3>1, CallFields DEF Consistent, At, Kind
    <3>0. PICK x \in Entity : x = Req(c).entity
      BY <3>1, <3>2, RequestFields DEF Kind, Req
    <3> DEFINE change == Req(c).attributes
               name == IF Req(c).name # None THEN Req(c).name ELSE call[c].row.name
               attributes == Changed(Attributes(call[c].row, call[c].type), change)
               unseen == {f \in Field \ DOMAIN change :
                            /\ Exists(x)
                            /\ ValueOf(Attributes(rows[x], call[c].type), f)
                                 # ValueOf(attributes, f)}
               written == [f \in Field |-> IF f \in DOMAIN change THEN ValueOf(change, f)
                                           ELSE IF Exists(x) THEN last[x][f]
                                           ELSE ValueOf(attributes, f)]
    <3>3. Req(c).name \in Name \union {None} /\ change \in AttributeSets
      BY <3>1, <3>2, RequestFields DEF Kind, Req
    <3>4. name \in Name /\ attributes \in AttributeSets
      BY <3>2, <3>3, AttributesType, ChangedType DEF Rows
    <3>5. CASE ~ Accepts(x, name, attributes, call[c].type)
      <4>1. UNCHANGED <<rows, history, types>>
        BY <2>3, <3>0, <3>5 DEF Update
      <4> QED BY <4>1, <2>b DEF history
    <3>6. CASE Accepts(x, name, attributes, call[c].type)
      <4>1. Save(c, x, name, attributes, unseen, written) /\ UNCHANGED types
        BY <2>3, <3>0, <3>6 DEF Update
      <4>2. written \in [Field -> Value \union {None}]
        <5>1. \A f \in Field : /\ ValueOf(change, f) \in Value \union {None}
                               /\ ValueOf(attributes, f) \in Value \union {None}
                               /\ last[x][f] \in Value \union {None}
          <6> HIDE DEF change, attributes
          <6> QED BY <3>3, <3>4, ValueOfType DEF TypeInv, TypeOK
        <5> HIDE DEF change, attributes
        <5> QED BY <5>1
      <4>3. ASSUME NEW f \in Field, Lossless(f), <<x, f>> \notin blurred'
            PROVE  Settled(x, f)'
        <5> DEFINE T == call[c].type
        <5>0. f \notin unseen /\ f \notin T.deprecated /\ f \notin Moved(T, record)
              /\ (Exists(x) => <<x, f>> \notin blurred)
          <6>1. record \in {record, snapshot, loaded} \ {NoLoad}
            BY ViewsAreTypes DEF Views
          <6> HIDE DEF unseen, written
          <6> QED BY <4>1, <4>3, <6>1 DEF Save
        <5>1. f \notin DOMAIN change /\ Exists(x) =>
                /\ Read(rows[x], T, f) = last[x][f]
                /\ Read(rows[x], T, f) = ValueOf(attributes, f)
          <6> SUFFICES ASSUME f \notin DOMAIN change, Exists(x)
                       PROVE  /\ Read(rows[x], T, f) = last[x][f]
                              /\ Read(rows[x], T, f) = ValueOf(attributes, f)
            OBVIOUS
          <6>1. Settled(x, f)
            BY <3>3, <4>3, <5>0 DEF FieldInv, Existing
          <6>2. Read(rows[x], T, f) = Read(rows[x], record, f)
            <7>1. (f \in T.materialized <=> f \in record.materialized)
                  /\ (f \in T.deprecated <=> f \in record.deprecated)
              BY <5>0 DEF Moved
            <7> HIDE DEF T
            <7> QED BY <7>1, ReadAlike
          <6>3. Read(rows[x], record, f) = last[x][f]
            BY <6>1, ViewsAreTypes DEF Settled
          <6>4. ValueOf(Attributes(rows[x], T), f) = Read(rows[x], T, f)
            BY <3>3, ColumnValues, ReadIsValueOf
          <6>5. ValueOf(Attributes(rows[x], T), f) = ValueOf(attributes, f)
            BY <5>0
          <6> QED BY <6>2, <6>3, <6>4, <6>5
        <5>2. f \in DOMAIN change => f \in DOMAIN attributes /\ attributes[f] = change[f]
          BY DEF Changed
        <5>3. written[f] = ValueOf(attributes, f)
          <6>1. f \in DOMAIN change => ValueOf(change, f) = ValueOf(attributes, f)
            BY <5>2 DEF ValueOf
          <6>2. written[f] = IF f \in DOMAIN change THEN ValueOf(change, f)
                             ELSE IF Exists(x) THEN last[x][f] ELSE ValueOf(attributes, f)
            OBVIOUS
          <6> HIDE DEF change, attributes, written, T
          <6> QED BY <5>1, <6>1, <6>2
        <5>4. f \in InColumns(T) \ DOMAIN attributes => ~Exists(x) \/ rows[x].column[f] = None
          <6> SUFFICES ASSUME f \in InColumns(T), f \notin DOMAIN attributes, Exists(x)
                       PROVE  rows[x].column[f] = None
            OBVIOUS
          <6>1. ValueOf(attributes, f) = None
            BY DEF ValueOf
          <6>2. Read(rows[x], T, f) = None
            BY <5>1, <5>2, <6>1
          <6>3. rows[x].column[f] \in Value \union {None}
            BY <3>3, ColumnValues
          <6> HIDE DEF attributes, T
          <6> QED BY <6>2, <6>3, WordsAreNotValues DEF Read
        <5> HIDE DEF name, change, attributes, unseen, written
        <5> QED BY <3>1, <3>3, <3>4, <3>6, <4>1, <4>2, <4>3, <5>3, <5>4, SaveSettles
      <4>4. ASSUME NEW y \in Existing', y # x, NEW f \in Field, Lossless(f),
                   <<y, f>> \notin blurred'
            PROVE  Settled(y, f)'
        <5> HIDE DEF name, change, attributes, unseen, written
        <5> QED BY <3>3, <4>1, <4>4, SaveKeepsOthers
      <4> QED BY <4>3, <4>4 DEF FieldInv
    <3> QED BY <3>5, <3>6
  <2>4. ASSUME NEW c \in Call, Erase(c) \/ Purge(c) PROVE FieldInv'
    BY <2>4, <2>a, <2>b DEF Erase, Purge, Exists
  <2>5. ASSUME NEW c \in Call, Relate(c) \/ Unrelate(c) \/ Raises(c) \/ Reads(c) PROVE FieldInv'
    BY <2>5, <2>b DEF Relate, Unrelate, Raises, Reads, Resolve, CheckBlocked,
                      SelectRelations, CheckEnd, ListRows, LookAtType, data, history
  <2>6. ASSUME NEW c \in Call, NEW q \in Requests, Start(c, q) PROVE FieldInv'
    BY <2>6, <2>b DEF Start, data, history
  <2>7. ASSUME NEW c \in Call, Materialize(c) PROVE FieldInv'
    <3> DEFINE f0 == Req(c).field
               values == call[c].values
               promoted == [call[c].type EXCEPT !.materialized = @ \union {f0}]
               filled == {x \in Existing : values[x] # None}
               fits == \A x \in Entity : values[x] # None => Encoded(f0, values[x]) # Refused
    <3>1. call[c] # Idle /\ Kind(c) = "materialize" /\ call[c].type \in Types
      BY <2>7, PlaceIsBusy, CallFields DEF Materialize, Places
    <3>2. f0 \in Field
      BY <3>1, CallFields, RequestFields DEF Kind, Req
    <3>3. CASE ~ fits
      <4>1. UNCHANGED <<rows, record, blurred>>
        BY <2>7, <3>3 DEF Materialize
      <4> QED BY <2>7, <2>b, <4>1 DEF Materialize, types
    <3>4. CASE fits
      <4>1. /\ rows' = [x \in Entity |-> IF x \in filled THEN Backfilled(rows[x], f0, values[x])
                                          ELSE rows[x]]
            /\ record' = Upserted(record, promoted)
            /\ blurred' = blurred \union Withdrawn(record')
                            \union ({x \in filled : rows[x].json[f0] # values[x]} \X {f0})
            /\ UNCHANGED <<snapshot, loaded, last>>
        BY <2>7, <3>4 DEF Materialize
      <4>2. SUFFICES ASSUME NEW x \in Existing', NEW f \in Field, Lossless(f),
                            <<x, f>> \notin blurred'
                     PROVE  Settled(x, f)'
        BY DEF FieldInv
      <4>3. x \in Existing
        BY <4>1 DEF Existing, Exists
      <4>4. Settled(x, f) /\ <<x, f>> \notin Withdrawn(record')
        BY <4>1, <4>2, <4>3 DEF FieldInv
      <4>5. CASE f = f0 /\ x \in filled
        <5>1. rows[x].json[f] = values[x]
          BY <4>1, <4>2, <4>5
        <5>2. rows'[x] = Backfilled(rows[x], f, rows[x].json[f])
          BY <4>1, <4>5, <5>1 DEF Existing
        <5>3. rows[x].json[f] # None /\ Encoded(f, rows[x].json[f]) # Refused
          BY <3>4, <4>5, <5>1 DEF Existing
        <5>4. f \in record'.materialized
          <6>1. f0 \in promoted.materialized
            BY <3>1 DEF Types
          <6>2. record'.materialized = IF promoted.materialized # {}
                                         THEN promoted.materialized ELSE record.materialized
            BY <4>1 DEF Upserted
          <6> HIDE DEF promoted
          <6> QED BY <4>5, <6>1, <6>2
        <5>5. f \notin record'.deprecated
          BY <4>3, <4>4 DEF Withdrawn
        <5> QED BY <4>1, <4>2, <4>3, <4>4, <5>2, <5>3, <5>4, <5>5, BackfillSettles
      <4>6. CASE ~ (f = f0 /\ x \in filled)
        <5>1. rows'[x].json[f] = rows[x].json[f] /\ rows'[x].column[f] = rows[x].column[f]
          <6>1. rows[x] \in Rows
            BY <4>3, ColumnValues DEF Existing
          <6> QED BY <4>1, <4>3, <4>6, <6>1 DEF Backfilled, Rows, Existing
        <5> QED BY <4>1, <4>2, <4>3, <4>4, <5>1, RecordChanges
      <4> QED BY <4>5, <4>6
    <3> QED BY <3>3, <3>4
  <2>8. ASSUME NEW c \in Call, WriteType(c) PROVE FieldInv'
    <3>1. /\ UNCHANGED <<rows, snapshot, loaded, last>>
          /\ blurred' = blurred \union Withdrawn(record')
      BY <2>8 DEF WriteType, data
    <3>2. SUFFICES ASSUME NEW x \in Existing', NEW f \in Field, Lossless(f),
                          <<x, f>> \notin blurred'
                   PROVE  Settled(x, f)'
      BY DEF FieldInv
    <3>3. x \in Existing
      BY <3>1 DEF Existing, Exists
    <3>4. Settled(x, f) /\ <<x, f>> \notin Withdrawn(record')
      BY <3>1, <3>2, <3>3 DEF FieldInv
    <3> QED BY <3>1, <3>3, <3>4, RecordChanges
  <2>9. ASSUME ReloadReads PROVE FieldInv'
    <3>1. record'.materialized = record.materialized /\ record'.deprecated = record.deprecated
      BY <2>9 DEF ReloadReads, Upserted, NoType
    <3>2. \A S \in Views' : S = record' \/ S \in Views
      BY <2>9 DEF ReloadReads, Views
    <3>3. \A S \in Views' : \E R \in Views : /\ S.materialized = R.materialized
                                             /\ S.deprecated = R.deprecated
      BY <3>1, <3>2, ViewsAreTypes
    <3> QED BY <2>9, <3>1, <3>3, FieldsStay DEF ReloadReads, data, history
  <2>10. ASSUME ReloadPublishes PROVE FieldInv'
    <3>1. \A S \in Views' : S \in Views
      BY <2>10 DEF ReloadPublishes, Views
    <3> QED BY <2>10, <3>1, FieldsStay DEF ReloadPublishes, data, history
  <2> QED BY <2>1, <2>2, <2>3, <2>4, <2>5, <2>6, <2>7, <2>8, <2>9, <2>10 DEF Next, Writes
<1> QED BY <1>1, <1>2, RecordsTypeInv, PTL DEF Spec

(* What was last saved into a field is what is read, by the type in memory *)
(* as by its record, wherever the field has moved: for fields whose column *)
(* keeps values as they are, and that no save or backfill has blurred.     *)
THEOREM RecordsReadsBack == Spec => []ReadsBack
<1>1. TypeInv /\ FieldInv => ReadsBack
  <2> SUFFICES ASSUME TypeInv, FieldInv,
                      NEW x \in Existing, NEW f \in Field, Lossless(f), <<x, f>> \notin blurred
               PROVE  /\ ValueOf(Attributes(rows[x], snapshot), f) = last[x][f]
                      /\ ValueOf(Attributes(rows[x], record), f) = last[x][f]
    BY DEF ReadsBack
  <2>1. \A S \in Views : Read(rows[x], S, f) = last[x][f]
    BY DEF FieldInv, Settled
  <2>2. rows[x] \in Rows
    BY ColumnValues DEF Existing
  <2> QED BY <2>1, <2>2, ViewsAreTypes, ReadIsValueOf
<1> QED BY <1>1, RecordsTypeInv, RecordsFieldInv, PTL

=============================================================================
