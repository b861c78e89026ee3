---------------------------- MODULE EntityRecords ----------------------------
(***************************************************************************)
(* The entities of one ordinary type, their relations, and the record of   *)
(* the type, under calls that overlap: Create, Update, Delete and          *)
(* Materialize of the entity service, the calls of the config service on   *)
(* types and relations, and reloads.                                       *)
(*                                                                         *)
(* Calls work with the type as the last reload left it in memory           *)
(* (`snapshot`); a call that changes the record of the type changes only   *)
(* the database.  Reads and DDL run outside of transactions, the first     *)
(* write of a session takes SQLite's write lock until its commit: what a   *)
(* session does from there on is one step.                                 *)
(***************************************************************************)
EXTENDS EntityStorage, Naturals

CONSTANTS
  Entity,
  Name,       \* business ids
  Original,   \* the business id and the attributes that the entities have
  Given,      \*   that exist in the beginning
  InFiles,    \* whether the type is defined in a configuration file
  Call,       \* slots of calls
  Requests,   \* what calls may ask for
  MaxCalls    \* bound: calls that are ever made

ASSUME RecordsAssumption ==
  /\ Original \in [Entity -> Name]
  /\ \A x, y \in Entity : x # y => Original[x] # Original[y]
  /\ Given \in [Entity -> [Field -> Value \union {None}]]
  /\ InFiles \in BOOLEAN
  /\ Entity \intersect Name = {} /\ None \notin Name
  /\ MaxCalls \in Nat

(* References: an id, type:business_id, or the business id alone.          *)
References == ({"id"} \X Entity) \union ({"ref", "bare"} \X Name)

AttributeSets == UNION {[D -> Value \union {Null}] : D \in SUBSET Field}

ASSUME RequestsAssumption ==
  Requests \subseteq
    [kind : {"create"}, entity : Entity, name : Name, attributes : AttributeSets]
    \union [kind : {"update"}, entity : Entity, name : Name \union {None},
            attributes : AttributeSets]
    \union [kind : {"delete", "force"}, entity : Entity]
    \union [kind : {"relate", "unrelate"}, relation : References \X References]
    \union [kind : {"materialize"}, field : Field]
    \union [kind : {"createType", "saveType"}, type : Types]
    \union [kind : {"deleteType", "cascadeType"}]

VARIABLES
  record,      \* the row of the type in entity_types
  snapshot,    \* the type in the store of the controller
  loaded,      \* what a reload has read and not published yet, or NoLoad
  rows,        \* of an entity: its row, or NoRow
  relations,   \* pairs of references
  call, calls,
  last,        \* history: what was last written to a field of an entity
  blurred,     \* history: fields that were written or backfilled by somebody who
               \* did not know of a change, or whose column was withdrawn
  loose        \* history: relations with an end that deletions do not look for

types == <<record, snapshot, loaded>>
data == <<rows, relations>>
history == <<last, blurred, loose>>
vars == <<record, snapshot, loaded, rows, relations, call, calls, last, blurred, loose>>

NoRow == [name |-> None]
Rows == [name : Name, json : [Field -> Value \union {None, Null}],
         column : [Field -> Value \union {None}]]
NoLoad == [there |-> "nothing"]
Idle == [at |-> "idle"]

Exists(x) == rows[x] # NoRow
Existing == {x \in Entity : Exists(x)}

(* What a relation's end is looked up by: find_ordinary_entity accepts all *)
(* three forms of a reference,                                             *)
Found(ref) == \E x \in Existing : ref[2] \in {x, rows[x].name}

(* Mutant: type:business_id is not looked for.                             *)
RefsById(x, name) == {<<"id", x>>}

(* while a deletion looks for two of them (_entity_refs).                  *)
RefsOf(x, name) == {<<"id", x>>, <<"ref", name>>}
RelationsOf(refs) == {r \in relations : r[1] \in refs \/ r[2] \in refs}
Naming(x) == RelationsOf({<<"id", x>>, <<"ref", rows[x].name>>})

-----------------------------------------------------------------------------
Init ==
  /\ record = [NoType EXCEPT !.there = TRUE]
  /\ snapshot = record
  /\ loaded = NoLoad
  /\ \E present \in SUBSET Entity :
       rows = [x \in Entity |->
                 IF x \in present
                   THEN [name |-> Original[x], json |-> Given[x], column |-> NoColumn]
                   ELSE NoRow]
  /\ relations = {}
  /\ call = [c \in Call |-> Idle]
  /\ calls = 0
  /\ last = Given
  /\ blurred = {}
  /\ loose = {}

At(c, place) == call[c].at = place
Req(c) == call[c].req
Kind(c) == call[c].req.kind
Goes(c, place) == call' = [call EXCEPT ![c].at = place]
Ends(c) == call' = [call EXCEPT ![c] = Idle]

FirstPlace ==
  [create |-> "write", update |-> "resolve", delete |-> "resolve", force |-> "resolve",
   relate |-> "from", unrelate |-> "write", materialize |-> "list",
   createType |-> "look", saveType |-> "look", deleteType |-> "look", cascadeType |-> "look"]

(* A call on entities refuses when the store does not know the type.       *)
Start(c, req) ==
  /\ At(c, "idle")
  /\ calls < MaxCalls
  /\ req.kind \in {"create", "update", "delete", "force", "relate", "materialize"}
       => snapshot.there
  /\ call' = [call EXCEPT ![c] = [at |-> FirstPlace[req.kind], req |-> req,
                                  type |-> snapshot, row |-> NoRow, seen |-> {},
                                  values |-> [x \in Entity |-> None]]]
  /\ calls' = calls + 1
  /\ UNCHANGED <<types, data, history>>

(* An exception or a cancellation at any statement: nothing is committed.  *)
Raises(c) ==
  /\ call[c] # Idle
  /\ Ends(c)
  /\ UNCHANGED <<types, data, calls, history>>

-----------------------------------------------------------------------------
(* Saves of an entity.                                                     *)

(* Fields that two views of the type place differently.                    *)
Moved(S, T) ==
  {f \in Field : \/ (f \in S.materialized) # (f \in T.materialized)
                 \/ (f \in S.deprecated) # (f \in T.deprecated)}

(* A save names a business id that is unique in its table.                 *)
Accepts(x, name, attributes, T) ==
  /\ Saveable(attributes, T)
  /\ \A y \in Existing \ {x} : rows[y].name # name

(* save_ordinary_entity: INSERT ... ON CONFLICT DO UPDATE.  `unseen` are   *)
(* the fields whose present values the caller does not know of.            *)
Save(c, x, name, attributes, unseen, written) ==
  LET T == call[c].type
      column == IF Exists(x) THEN rows[x].column ELSE NoColumn
      renamed == Exists(x) /\ rows[x].name # name
      views == {record, snapshot, loaded} \ {NoLoad}
      doubtful == unseen \union T.deprecated \union UNION {Moved(T, S) : S \in views}
  IN /\ rows' = [rows EXCEPT ![x] = Saved(name, column, attributes, T)]
     /\ last' = [last EXCEPT ![x] = written]
     /\ blurred' = (IF Exists(x) THEN blurred ELSE blurred \ ({x} \X Field))
                     \union ({x} \X doubtful)
     /\ loose' = loose \union IF renamed THEN RelationsOf({<<"ref", rows[x].name>>}) ELSE {}

(* Create, and an import: an entity that exists is overwritten, but for    *)
(* the columns that the new attributes do not mention.                     *)
Create(c) ==
  /\ At(c, "write") /\ Kind(c) = "create"
  /\ LET x == Req(c).entity
         given == Req(c).attributes
     IN IF Accepts(x, Req(c).name, given, call[c].type)
          THEN Save(c, x, Req(c).name, given,
                    IF Exists(x) THEN InColumns(call[c].type) \ DOMAIN given ELSE {},
                    [f \in Field |-> ValueOf(given, f)])
          ELSE UNCHANGED <<rows, history>>
  /\ Ends(c)
  /\ UNCHANGED <<types, relations, calls>>

(* Update and Delete look the entity up first.                             *)
Resolve(c) ==
  /\ At(c, "resolve")
  /\ LET x == Req(c).entity
     IN call' = [call EXCEPT ![c] =
          IF ~Exists(x) THEN Idle
          ELSE [@ EXCEPT !.row = rows[x],
                         !.at = IF Kind(c) = "update" THEN "write"
                                ELSE IF Kind(c) = "delete" THEN "check" ELSE "select"]]
  /\ UNCHANGED <<types, data, calls, history>>

(* Update writes all attributes: the new one, and the others as read.      *)
Update(c) ==
  /\ At(c, "write") /\ Kind(c) = "update"
  /\ LET x == Req(c).entity
         change == Req(c).attributes
         name == IF Req(c).name # None THEN Req(c).name ELSE call[c].row.name
         attributes == Changed(Attributes(call[c].row, call[c].type), change)
         unseen == {f \in Field \ DOMAIN change :
                      /\ Exists(x)
                      /\ ValueOf(Attributes(rows[x], call[c].type), f) # ValueOf(attributes, f)}
     IN IF Accepts(x, name, attributes, call[c].type)
          THEN Save(c, x, name, attributes, unseen,
                    [f \in Field |-> IF f \in DOMAIN change THEN ValueOf(change, f)
                                     ELSE IF Exists(x) THEN last[x][f]
                                     ELSE ValueOf(attributes, f)])
          ELSE UNCHANGED <<rows, history>>
  /\ Ends(c)
  /\ UNCHANGED <<types, relations, calls>>

-----------------------------------------------------------------------------
(* Deletion.                                                               *)

(* delete_ordinary_entity: relations block it.                             *)
CheckBlocked(c) ==
  /\ At(c, "check")
  /\ LET x == Req(c).entity
     IN call' = [call EXCEPT ![c] =
          IF ~Exists(x) \/ RelationsOf(RefsOf(x, rows[x].name)) # {} THEN Idle
          ELSE [@ EXCEPT !.at = "erase", !.seen = Naming(x)]]
  /\ UNCHANGED <<types, data, calls, history>>

Erase(c) ==
  /\ At(c, "erase")
  /\ LET x == Req(c).entity
     IN /\ rows' = [rows EXCEPT ![x] = NoRow]
        /\ loose' = loose \union IF Exists(x) THEN Naming(x) \ call[c].seen ELSE {}
  /\ Ends(c)
  /\ UNCHANGED <<types, relations, calls, last, blurred>>

(* force_delete_entity_relations lists the relations first.  Without any,  *)
(* the deletion goes on like one that is not forced,                       *)
SelectRelations(c) ==
  /\ At(c, "select")
  /\ LET mine == RelationsOf(RefsOf(Req(c).entity, call[c].row.name))
     IN call' = [call EXCEPT ![c].seen = mine,
                             ![c].at = IF mine = {} THEN "check" ELSE "purge"]
  /\ UNCHANGED <<types, data, calls, history>>

(* Mutant: the deletion still sees the relations it has just deleted.      *)
PurgeUnflushed(c) ==
  /\ At(c, "purge")
  /\ LET x == Req(c).entity
     IN /\ relations' = relations \ call[c].seen
        /\ loose' = loose \ call[c].seen
        /\ rows' = IF Exists(x) /\ RelationsOf(RefsOf(x, rows[x].name)) = {}
                     THEN [rows EXCEPT ![x] = NoRow] ELSE rows
  /\ Ends(c)
  /\ UNCHANGED <<types, calls, last, blurred>>

(* and with some it holds the write lock from the first on.  A relation    *)
(* that came in between blocks the entity, and the others stay deleted.    *)
Purge(c) ==
  /\ At(c, "purge")
  /\ LET x == Req(c).entity
         blocking == RelationsOf(RefsOf(x, rows[x].name)) \ call[c].seen
     IN /\ relations' = relations \ call[c].seen
        /\ loose' = loose \ call[c].seen
        /\ rows' = IF Exists(x) /\ blocking = {} THEN [rows EXCEPT ![x] = NoRow] ELSE rows
  /\ Ends(c)
  /\ UNCHANGED <<types, calls, last, blurred>>

-----------------------------------------------------------------------------
(* Relations.                                                              *)

CheckEnd(c) ==
  /\ \/ At(c, "from")
     \/ At(c, "to")
  /\ call' = [call EXCEPT ![c] =
       IF At(c, "from")
         THEN IF Found(Req(c).relation[1]) THEN [@ EXCEPT !.at = "to"] ELSE Idle
         ELSE IF Found(Req(c).relation[2]) THEN [@ EXCEPT !.at = "insert"] ELSE Idle]
  /\ UNCHANGED <<types, data, calls, history>>

Relate(c) ==
  /\ At(c, "insert")
  /\ LET r == Req(c).relation
         unanchored == \E i \in {1, 2} : r[i][1] = "bare" \/ ~Found(r[i])
     IN /\ relations' = relations \union {r}
        /\ loose' = IF r \notin relations /\ unanchored THEN loose \union {r} ELSE loose
  /\ Ends(c)
  /\ UNCHANGED <<types, rows, calls, last, blurred>>

Unrelate(c) ==
  /\ At(c, "write") /\ Kind(c) = "unrelate"
  /\ relations' = relations \ {Req(c).relation}
  /\ loose' = loose \ {Req(c).relation}
  /\ Ends(c)
  /\ UNCHANGED <<types, rows, calls, last, blurred>>

-----------------------------------------------------------------------------
(* The type.                                                               *)

(* What becomes doubtful with a new record of the type: the columns that   *)
(* nobody will read, and the deprecated fields.                            *)
Withdrawn(S) == Existing \X ((InColumns(record) \ InColumns(S)) \union S.deprecated)

(* apply_materialization lists the rows before its first write;            *)
ListRows(c) ==
  /\ At(c, "list")
  /\ call' = [call EXCEPT ![c].at = "write",
                          ![c].values = [x \in Entity |->
                             IF Exists(x) THEN rows[x].json[Req(c).field] ELSE None]]
  /\ UNCHANGED <<types, data, calls, history>>

(* it fills the column and adds the field to the type as the caller knew   *)
(* it.  A value that the column refuses undoes everything but the column.  *)
Materialize(c) ==
  /\ At(c, "write") /\ Kind(c) = "materialize"
  /\ LET f == Req(c).field
         values == call[c].values
         promoted == [call[c].type EXCEPT !.materialized = @ \union {f}]
         filled == {x \in Existing : values[x] # None}
     IN IF \A x \in Entity : values[x] # None => Encoded(f, values[x]) # Refused
          THEN /\ rows' = [x \in Entity |->
                             IF x \in filled THEN Backfilled(rows[x], f, values[x]) ELSE rows[x]]
               /\ record' = Upserted(record, promoted)
               /\ blurred' = blurred \union Withdrawn(record')
                               \union ({x \in filled : rows[x].json[f] # values[x]} \X {f})
          ELSE UNCHANGED <<rows, record, blurred>>
  /\ Ends(c)
  /\ UNCHANGED <<snapshot, loaded, relations, calls, last, loose>>

(* CreateEntityType, SaveEntityType and DeleteEntityType read the record   *)
(* first; a deletion counts the instances as well, unless it cascades.     *)
LookAtType(c) ==
  /\ At(c, "look")
  /\ LET refused == \/ record.there = (Kind(c) = "createType")
                    \/ Kind(c) = "deleteType" /\ Existing # {}
     IN IF refused THEN Ends(c) ELSE Goes(c, "write")
  /\ UNCHANGED <<types, data, calls, history>>

(* A deletion removes the record only: tables and rows stay.               *)
WriteType(c) ==
  /\ At(c, "write") /\ Kind(c) \in {"createType", "saveType", "deleteType", "cascadeType"}
  /\ record' = IF Kind(c) \in {"createType", "saveType"}
                 THEN Upserted(record, Req(c).type) ELSE NoType
  /\ blurred' = blurred \union Withdrawn(record')
  /\ Ends(c)
  /\ UNCHANGED <<snapshot, loaded, data, calls, last, loose>>

(* install_snapshot: seeds the types of the configuration files, reads all *)
(* types, and publishes them when the new trigger engine is ready.         *)
ReloadReads ==
  /\ loaded = NoLoad
  /\ record' = IF InFiles THEN Upserted(record, NoType) ELSE record
  /\ loaded' = record'
  /\ UNCHANGED <<snapshot, data, call, calls, history>>

ReloadPublishes ==
  /\ loaded # NoLoad
  /\ snapshot' = loaded
  /\ loaded' = NoLoad
  /\ UNCHANGED <<record, data, call, calls, history>>

-----------------------------------------------------------------------------
Writes(c) ==
  \/ Create(c) \/ Update(c) \/ Erase(c) \/ Purge(c) \/ Relate(c) \/ Unrelate(c)
  \/ Materialize(c) \/ WriteType(c)

Reads(c) ==
  \/ Resolve(c) \/ CheckBlocked(c) \/ SelectRelations(c) \/ CheckEnd(c) \/ ListRows(c)
  \/ LookAtType(c)

Next ==
  \/ \E c \in Call, req \in Requests : Start(c, req)
  \/ \E c \in Call : Reads(c) \/ Writes(c) \/ Raises(c)
  \/ ReloadReads
  \/ ReloadPublishes

Spec == Init /\ [][Next]_vars

-----------------------------------------------------------------------------
CallTypes ==
  {Idle} \union
  [at : {"resolve", "check", "select", "purge", "erase", "from", "to", "insert", "list",
         "look", "write"},
   req : Requests, type : Types, row : {NoRow} \union Rows,
   seen : SUBSET (References \X References), values : [Entity -> Value \union {None, Null}]]

TypeOK ==
  /\ record \in Types /\ snapshot \in Types /\ loaded \in Types \union {NoLoad}
  /\ rows \in [Entity -> Rows \union {NoRow}]
  /\ relations \subseteq References \X References
  /\ call \in [Call -> CallTypes]
  /\ calls \in 0..MaxCalls
  /\ last \in [Entity -> [Field -> Value \union {None}]]
  /\ blurred \subseteq Entity \X Field
  /\ loose \subseteq relations

(* What was saved is what is read, by the type in memory as by the one     *)
(* that the next reload brings, while fields move into columns and back.   *)
(* Excepted are the fields of a save or of a backfill that had been        *)
(* overtaken, or whose column was withdrawn, and columns that change the   *)
(* values they are given (_ordinary_entity_from_row, save_ordinary_entity, *)
(* apply_materialization).                                                 *)
ReadsBack ==
  \A x \in Existing, f \in {g \in Field : Lossless(g)} :
    <<x, f>> \notin blurred =>
      /\ ValueOf(Attributes(rows[x], snapshot), f) = last[x][f]
      /\ ValueOf(Attributes(rows[x], record), f) = last[x][f]

(* A relation between things that exist stays one: whatever is deleted, no *)
(* relation is left with an end that is gone.  Excepted are relations that *)
(* name an entity by its bare business id or by one it has no longer, and  *)
(* those that came to name an entity after its deletion had looked for     *)
(* them (delete_ordinary_entity, create_relation).                         *)
RelationsAnchored ==
  \A r \in relations \ loose : Found(r[1]) /\ Found(r[2])

(* Somebody else changed what a forced deletion had read.                  *)
Overtaken(c) ==
  LET x == Req(c).entity
  IN \/ rows[x].name # call[c].row.name
     \/ ~(RelationsOf(RefsOf(x, rows[x].name)) \subseteq call[c].seen)

(* Relations go when they are deleted, or together with an entity they     *)
(* name; a forced deletion that does not delete its entity takes none      *)
(* away, unless it was overtaken (_EntityService.Delete).                  *)
RelationsGoWithEnds ==
  [][\A r \in relations \ relations' :
       \/ \E c \in Call : Unrelate(c) /\ Req(c).relation = r
       \/ \E x \in Existing : /\ rows'[x] = NoRow
                              /\ r \in RelationsOf(RefsOf(x, rows[x].name))
       \/ \E c \in Call : Purge(c) /\ Overtaken(c)]_vars

(* A field that has been promoted stays promoted while other fields are.   *)
(* Not so: what a call knows of the type replaces all that the record says *)
(* of its columns, and what was saved into them is read no more            *)
(* (_EntityService.Materialize, upsert_entity_type_record).                *)
PromotionsLast ==
  [][\A c \in Call : Materialize(c) => record.materialized \subseteq record'.materialized]_vars

(* Every relation is between things that exist.  Not so, for the reasons   *)
(* that RelationsAnchored excepts (create_relation, _entity_refs).         *)
AllAnchored == \A r \in relations : Found(r[1]) /\ Found(r[2])

=============================================================================
