------------------------------ MODULE DagStore -------------------------------
(***************************************************************************)
(* The DAG entities of the database and the calls that change or load them *)
(* (graph_service.py, server.py): SaveDag and the graph edits check how    *)
(* DAGs would nest and then write, CreateDag looks whether the name is     *)
(* free, the entity services write and delete without a look, and the      *)
(* start of a run reads the closure of its DAG.  Every read and write is a *)
(* statement of its own, other calls come between.                         *)
(*                                                                         *)
(* Of a DAG only the DAGs that its nodes name are kept.                    *)
(***************************************************************************)
EXTENDS DagLoader

CONSTANTS
  Call,       \* a bound: the calls that read before they write or run
  MaxDepth,   \* max_dag_depth
  MaxWrites   \* a bound: writes and deletions of the entity services

ASSUME NumberAssumption == MaxDepth \in Nat \ {0} /\ MaxWrites \in Nat
ASSUME CallAssumption == None \notin Call

VARIABLES
  stored,     \* the rows: the DAGs that a DAG refers to
  call,
  dirty,      \* calls in whose course another one has written
  writes,     \* by the entity services so far
  checked     \* all that was written was checked against what was stored

vars == <<stored, call, dirty, writes, checked>>

Refs == UNION {[S -> SUBSET Dag] : S \in SUBSET Dag}
Stored(d) == d \in DOMAIN stored
Restriction(refs, S) == [d \in S |-> refs[d]]
With(refs, d, to) == [e \in DOMAIN refs \union {d} |-> IF e = d THEN to ELSE refs[e]]

NoCall == [kind |-> "none", dag |-> None, stage |-> "idle",
           seen |-> [d \in {} |-> {}], todo |-> {}]

(* DAGs refer to one another without a cycle iff every set of them has a   *)
(* member to which none of the set refers.                                 *)
Acyclic(refs) ==
  \A S \in SUBSET DOMAIN refs : S # {} => \E d \in S : \A e \in S : d \notin refs[e]

(* What earlier calls may have left, references to deleted DAGs included.  *)
Init ==
  /\ stored \in {refs \in Refs : Acyclic(refs)}
  /\ call = [c \in Call |-> NoCall]
  /\ dirty = {}
  /\ writes = 0
  /\ checked = TRUE

-----------------------------------------------------------------------------
Running(c) == call[c].stage = "reading"

Starts(c, kind, d, seen, todo) ==
  /\ call[c].stage = "idle"
  /\ call' = [call EXCEPT ![c] = [kind |-> kind, dag |-> d, stage |-> "reading",
                                  seen |-> seen, todo |-> todo]]
  /\ UNCHANGED <<stored, dirty, writes, checked>>

(* SaveDag: the closure of the DAG that is to be saved.                    *)
SaveDag(c, d, refs) == Starts(c, "save", d, [e \in {d} |-> refs], refs \ {d})

(* _edit_runtime_dag: the stored DAG, with one more node.                  *)
EditDag(c, d, e) ==
  /\ Stored(d)
  /\ Starts(c, "edit", d, [x \in {d} |-> stored[d] \union {e}], (stored[d] \union {e}) \ {d})

(* CreateDag has found no DAG of this name.                                *)
CreateDag(c, d) ==
  /\ ~ Stored(d)
  /\ Starts(c, "create", d, [e \in {d} |-> {}], {})

(* start_run: _load_dag_execution_closure.                                 *)
StartRun(c, d) == Starts(c, "run", d, [e \in {} |-> {}], {d})

(* The next DAG of the closure is read; the call fails if there is none.   *)
ReadDag(c) ==
  LET r == call[c]
  IN  /\ Running(c)
      /\ \E e \in r.todo :
           call' = [call EXCEPT
             ![c] = IF Stored(e)
                      THEN [r EXCEPT !.seen = With(r.seen, e, stored[e]),
                                     !.todo = (r.todo \union stored[e]) \ (DOMAIN r.seen \union {e})]
                      ELSE [r EXCEPT !.stage = "refused"]]
      /\ UNCHANGED <<stored, dirty, writes, checked>>

Others(c) == {o \in Call \ {c} : Running(o)}

Write(c, d, to) ==
  /\ stored' = With(stored, d, to)
  /\ dirty' = dirty \union Others(c)

Answers(c, stage) == call' = [call EXCEPT ![c].stage = stage]

(* Mutant: what is stored is checked, not what will be.                    *)
ValidateStored(c) ==
  /\ Running(c)
  /\ call[c].kind \in {"save", "edit"}
  /\ call[c].todo = {}
  /\ IF ValidateSubDagNesting(Restriction(stored, DOMAIN stored \intersect
                                (DOMAIN call[c].seen \ {call[c].dag})), MaxDepth)
       THEN /\ Write(c, call[c].dag, call[c].seen[call[c].dag])
            /\ Answers(c, "done")
            /\ checked' = (checked /\ c \notin dirty)
            /\ UNCHANGED writes
       ELSE /\ Answers(c, "refused")
            /\ UNCHANGED <<stored, dirty, writes, checked>>

(* validate_sub_dag_nesting, and then the write.                           *)
Validate(c) ==
  /\ Running(c)
  /\ call[c].kind \in {"save", "edit"}
  /\ call[c].todo = {}
  /\ IF ValidateSubDagNesting(call[c].seen, MaxDepth)
       THEN /\ Write(c, call[c].dag, call[c].seen[call[c].dag])
            /\ Answers(c, "done")
            /\ checked' = (checked /\ c \notin dirty)
            /\ UNCHANGED writes
       ELSE /\ Answers(c, "refused")
            /\ UNCHANGED <<stored, dirty, writes, checked>>

WriteEmpty(c) ==
  /\ Running(c)
  /\ call[c].kind = "create"
  /\ Write(c, call[c].dag, {})
  /\ Answers(c, "done")
  /\ UNCHANGED <<writes, checked>>

RunBegins(c) ==
  /\ Running(c)
  /\ call[c].kind = "run"
  /\ call[c].todo = {}
  /\ Answers(c, IF DagClosure(call[c].seen, call[c].dag) = {} THEN "refused" ELSE "done")
  /\ UNCHANGED <<stored, dirty, writes, checked>>

(* The entity services.                                                    *)
EntityWrite == writes < MaxWrites /\ writes' = writes + 1

UpdateEntity(d, refs) ==
  /\ EntityWrite
  /\ Write(None, d, refs)
  /\ UNCHANGED call
  /\ checked' = FALSE

DeleteEntity(d) ==
  /\ EntityWrite
  /\ Stored(d)
  /\ stored' = Restriction(stored, DOMAIN stored \ {d})
  /\ dirty' = dirty \union Others(None)
  /\ UNCHANGED <<call, checked>>

Next ==
  \/ \E c \in Call : ReadDag(c) \/ Validate(c) \/ WriteEmpty(c) \/ RunBegins(c)
  \/ \E c \in Call, d \in Dag :
       \/ CreateDag(c, d) \/ StartRun(c, d)
       \/ \E e \in Dag : EditDag(c, d, e)
       \/ \E refs \in SUBSET Dag : SaveDag(c, d, refs)
  \/ \E d \in Dag : DeleteEntity(d) \/ \E refs \in SUBSET Dag : UpdateEntity(d, refs)

Spec == Init /\ [][Next]_vars

-----------------------------------------------------------------------------
(* As long as no call has written on the strength of a check that another  *)
(* write had overtaken, and none without a check, no reference cycle is    *)
(* stored, through deletions and new creations as well: the check of the   *)
(* closure below a DAG is enough (graph_service.py:77-81; server.py:1165). *)
NoCycleStored == checked => Acyclic(stored)

(* A save or an edit is accepted exactly if the DAGs that it has read, and *)
(* the new one, fit on max_dag_depth levels with every reference leading   *)
(* to a deeper one (loader.py:75, 135).                                    *)
NestingSound ==
  \A c \in Call :
    call[c].kind \in {"save", "edit"} /\ call[c].todo = {} /\ ~ Running(c) =>
      LET seen == call[c].seen
      IN  call[c].stage = "done" <=>
            \E level \in [DOMAIN seen -> 1 .. MaxDepth] :
              \A d \in DOMAIN seen : \A e \in seen[d] : level[d] < level[e]

(* Whatever is stored, and was changed while it was read, a run begins     *)
(* only with DAGs that refer to nothing outside and to one another without *)
(* a cycle, and with no others (snapshot.py:78; dag_controller.py:1095).   *)
RunsClosed ==
  \A c \in Call :
    call[c].kind = "run" /\ call[c].stage = "done" =>
      LET seen == call[c].seen
          closure == DagClosure(seen, call[c].dag)
      IN  /\ Acyclic(seen)
          /\ closure = DOMAIN seen
          /\ \A d \in closure : seen[d] \subseteq closure
=============================================================================
