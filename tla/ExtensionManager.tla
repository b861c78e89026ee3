--------------------------- MODULE ExtensionManager ---------------------------
(***************************************************************************)
(* Extensions are installed, overwritten, uninstalled, reactivated and     *)
(* their sources deleted by calls that overlap (extension_manager.py and   *)
(* grpc_extension_service.py).  What they leave is spread over three       *)
(* places that no transaction spans: the row of the extension and the      *)
(* entities it imported, its tables, and its files below handlers/ and     *)
(* libs/.                                                                  *)
(*                                                                         *)
(* A step runs from one await to the next.  What a session writes between  *)
(* its first statement and its commit holds the one write lock of SQLite,  *)
(* and nobody sees it before: it is one step.  Every statement may raise,  *)
(* and a call may be cancelled, or the process may die, between any two.   *)
(***************************************************************************)
EXTENDS Naturals, FiniteSets

CONSTANTS
  Extension,
  Needs,       \* what the manifest of an extension depends on
  Entity,
  Imports,     \* the entities that an extension ships
  Call,        \* slots of calls
  MaxCalls,    \* bound: calls that are ever made
  MaxFaults,   \* bound: statements that raise and calls that are cancelled
  MaxEdits     \* bound: changes that users make to entities

ASSUME ExtensionAssumption ==
  /\ Needs \in [Extension -> SUBSET Extension]
  /\ \A e \in Extension : e \notin Needs[e]
  /\ Imports \in [Extension -> SUBSET Entity]
  /\ MaxCalls \in Nat /\ MaxFaults \in Nat /\ MaxEdits \in Nat

VARIABLES
  row,       \* of an extension: "absent", "enabled" or "disabled"
  records,   \* import_records of the row
  content,   \* of an entity: "none", the extension that shipped it, or "user"
  tables,    \* extensions whose tables exist
  files,     \* extensions with files below handlers/ and libs/
  sources,   \* extensions whose directory below extensions/ exists
  call,
  calls, faults, edits,
  torn,      \* history: extensions whose last call failed half way, or overlapped
  raced      \* history: extensions a call to which overlapped one to what they need

database == <<row, records, content>>
disk == <<tables, files, sources>>
history == <<torn, raced>>
vars == <<row, records, content, tables, files, sources, call, calls, faults, edits,
          torn, raced>>

Kinds == {"install", "overwrite", "purge", "keep", "deactivate", "reactivate", "delete"}
Installs == {"install", "overwrite"}
Uninstalls == {"purge", "keep", "deactivate"}

Contents == {"none", "user"} \union Extension
ImportRecords == UNION {[xs -> [status : {"imported", "skipped"}, digest : Contents]] :
                          xs \in SUBSET Entity}
NoRecords == [x \in {} |-> {}]

Idle == [at |-> "idle"]
Calls ==
  {Idle} \union
  [at : {"read", "check", "drop", "copy", "create", "write", "cleanup", "undrop", "remove"},
   kind : Kinds, ext : Extension, existing : {"absent", "enabled", "disabled"},
   records : ImportRecords, disturbed : BOOLEAN]

TypeOK ==
  /\ row \in [Extension -> {"absent", "enabled", "disabled"}]
  /\ records \in [Extension -> ImportRecords]
  /\ content \in [Entity -> Contents]
  /\ tables \subseteq Extension /\ files \subseteq Extension /\ sources \subseteq Extension
  /\ call \in [Call -> Calls]
  /\ calls \in 0..MaxCalls /\ faults \in 0..MaxFaults /\ edits \in 0..MaxEdits
  /\ torn \subseteq Extension /\ raced \subseteq Extension

Init ==
  /\ row = [e \in Extension |-> "absent"]
  /\ records = [e \in Extension |-> NoRecords]
  /\ content = [x \in Entity |-> "none"]
  /\ tables = {} /\ files = {} /\ sources = Extension
  /\ call = [c \in Call |-> Idle]
  /\ calls = 0 /\ faults = 0 /\ edits = 0
  /\ torn = {} /\ raced = {}

Active == {c \in Call : call[c] # Idle}
At(c, place) == call[c] # Idle /\ call[c].at = place
Goes(c, place) == call' = [call EXCEPT ![c].at = place]
Ends(c) == call' = [call EXCEPT ![c] = Idle]

(* A call that ran by itself did all it had to: what it leaves is vouched  *)
(* for, whatever was there before.                                         *)
Completes(c) ==
  /\ Ends(c)
  /\ torn' = IF call[c].disturbed THEN torn ELSE torn \ {call[c].ext}
  /\ raced' = IF call[c].disturbed THEN raced ELSE raced \ {call[c].ext}

-----------------------------------------------------------------------------
(* The start of calls, and what all of them read first.                    *)

Related(e, f) == e = f \/ e \in Needs[f] \/ f \in Needs[e]

(* Install refuses at once when the manifest is missing.                   *)
Start(c, k, e) ==
  /\ call[c] = Idle
  /\ calls < MaxCalls
  /\ k \in Installs => e \in sources
  /\ LET near == {d \in Active : Related(e, call[d].ext)}
         exts == {e} \union {call[d].ext : d \in near}
     IN /\ call' = [d \in Call |->
                     IF d = c THEN [at |-> "read", kind |-> k, ext |-> e,
                                    existing |-> "absent", records |-> NoRecords,
                                    disturbed |-> near # {}]
                     ELSE IF d \in near THEN [call[d] EXCEPT !.disturbed = TRUE]
                     ELSE call[d]]
        /\ torn' = torn \union {f \in {e} : \E d \in near : call[d].ext = f}
        /\ raced' = raced \union {f \in exts : Needs[f] \intersect exts # {}}
  /\ calls' = calls + 1
  /\ UNCHANGED <<database, disk, faults, edits>>

Refuses(c) == Ends(c) /\ UNCHANGED history

(* get_installed_extension: the call goes on, or refuses.                  *)
ReadRow(c) ==
  /\ At(c, "read")
  /\ LET e == call[c].ext
         k == call[c].kind
         place == IF k = "reactivate" THEN "write"
                  ELSE IF k = "delete" THEN "remove" ELSE "check"
     IN IF /\ k \in {"install", "delete"} => row[e] = "absent"
           /\ k \in Uninstalls \union {"reactivate"} => row[e] # "absent"
          THEN /\ call' = [call EXCEPT ![c].at = place, ![c].existing = row[e],
                                       ![c].records = records[e]]
               /\ UNCHANGED history
          ELSE Refuses(c)
  /\ UNCHANGED <<database, disk, calls, faults, edits>>

-----------------------------------------------------------------------------
(* install(), with or without overwrite.                                   *)

(* list_enabled_extensions against the dependencies of the manifest.       *)
CheckDependencies(c) ==
  /\ At(c, "check") /\ call[c].kind \in Installs
  /\ IF \A d \in Needs[call[c].ext] : row[d] = "enabled"
       THEN /\ Goes(c, IF call[c].existing = "absent" THEN "copy" ELSE "drop")
            /\ UNCHANGED history
       ELSE Refuses(c)
  /\ UNCHANGED <<database, disk, calls, faults, edits>>

(* The tables of the installed extension go in a transaction of their own. *)
DropTables(c) ==
  /\ At(c, "drop")
  /\ tables' = tables \ {call[c].ext}
  /\ Goes(c, "copy")
  /\ UNCHANGED <<database, files, sources, calls, faults, edits, history>>

(* Handlers, providers and libraries are copied without an await, unless   *)
(* their sources are gone by now.                                          *)
CopyFiles(c) ==
  /\ At(c, "copy")
  /\ IF call[c].ext \in sources
       THEN files' = files \union {call[c].ext} /\ Goes(c, "create")
       ELSE UNCHANGED files /\ Goes(c, "cleanup")
  /\ UNCHANGED <<database, tables, sources, calls, faults, edits, history>>

CreateTables(c) ==
  /\ At(c, "create")
  /\ tables' = tables \union {call[c].ext}
  /\ Goes(c, "write")
  /\ UNCHANGED <<database, files, sources, calls, faults, edits, history>>

(* An entity that exists already is left alone, unless this overwrites.    *)
Record(x, k, e) ==
  IF content[x] = "none" \/ k = "overwrite"
    THEN [status |-> "imported", digest |-> e]
    ELSE [status |-> "skipped", digest |-> content[x]]

(* The entities are imported and the row is written, in one transaction.   *)
InstallWrites(c) ==
  /\ At(c, "write") /\ call[c].kind \in Installs
  /\ LET e == call[c].ext
         k == call[c].kind
     IN IF e \in sources
          THEN /\ records' = [records EXCEPT ![e] =
                                [x \in Imports[e] |-> Record(x, k, e)]]
               /\ content' = [x \in Entity |->
                                IF x \in Imports[e] THEN Record(x, k, e).digest
                                                    ELSE content[x]]
               /\ row' = [row EXCEPT ![e] = "enabled"]
               /\ Completes(c)
          ELSE Goes(c, "cleanup") /\ UNCHANGED <<database, history>>
  /\ UNCHANGED <<disk, calls, faults, edits>>

(* The handler of Exception: roll back, remove the files, drop the tables. *)
(* The row of an extension that was to be overwritten stays.               *)
CleansUp(c) ==
  /\ At(c, "cleanup")
  /\ files' = files \ {call[c].ext}
  /\ Goes(c, "undrop")
  /\ torn' = IF call[c].existing = "absent" THEN torn ELSE torn \union {call[c].ext}
  /\ UNCHANGED <<database, tables, sources, calls, faults, edits, raced>>

DropsAgain(c) ==
  /\ At(c, "undrop")
  /\ tables' = tables \ {call[c].ext}
  /\ Refuses(c)
  /\ UNCHANGED <<database, files, sources, calls, faults, edits>>

-----------------------------------------------------------------------------
(* uninstall(), Reactivate and Delete.                                     *)

(* Mutant: only the extensions in use are asked for what they depend on.   *)
CheckDependentsEnabled(c) ==
  /\ At(c, "check") /\ call[c].kind \in Uninstalls
  /\ IF \A f \in Extension : row[f] = "enabled" => call[c].ext \notin Needs[f]
       THEN Goes(c, "write") /\ UNCHANGED history
       ELSE Refuses(c)
  /\ UNCHANGED <<database, disk, calls, faults, edits>>

(* An extension that another one depends on is not uninstalled, nor        *)
(* deactivated, though the other be deactivated itself.                    *)
CheckDependents(c) ==
  /\ At(c, "check") /\ call[c].kind \in Uninstalls
  /\ IF \A f \in Extension : row[f] # "absent" => call[c].ext \notin Needs[f]
       THEN Goes(c, "write") /\ UNCHANGED history
       ELSE Refuses(c)
  /\ UNCHANGED <<database, disk, calls, faults, edits>>

(* Mutant: what was there before the extension counts as its own.          *)
DeletesAnyStatus(c, x) ==
  /\ content[x] # "none"
  /\ call[c].kind = "keep" => content[x] = call[c].records[x].digest

(* Which entities of the records go: keep-modified spares what the         *)
(* extension found there, and what has changed since it was imported.      *)
Deletes(c, x) ==
  /\ content[x] # "none"
  /\ call[c].kind = "keep" =>
       /\ call[c].records[x].status = "imported"
       /\ content[x] = call[c].records[x].digest

(* Entities, tables and row go in one transaction, by the records that the *)
(* call has read at its start.  Entities that relations refer to stay      *)
(* (linked), though the row goes.                                          *)
UninstallWrites(c) ==
  /\ At(c, "write") /\ call[c].kind \in {"purge", "keep"}
  /\ \E linked \in SUBSET Entity :
       content' = [x \in Entity |->
                     IF x \in DOMAIN call[c].records \ linked /\ Deletes(c, x)
                       THEN "none" ELSE content[x]]
  /\ LET e == call[c].ext
     IN /\ tables' = IF call[c].kind = "purge" THEN tables \ {e} ELSE tables
        /\ row' = [row EXCEPT ![e] = "absent"]
        /\ records' = [records EXCEPT ![e] = NoRecords]
  /\ Goes(c, "remove")
  /\ UNCHANGED <<files, sources, calls, faults, edits, history>>

RemoveFiles(c) ==
  /\ At(c, "remove") /\ call[c].kind \in Uninstalls
  /\ files' = files \ {call[c].ext}
  /\ Completes(c)
  /\ UNCHANGED <<database, tables, sources, calls, faults, edits>>

(* deactivate and Reactivate set `enabled' of the row as it was read: when *)
(* that changes nothing, nothing is written, and a row that has gone       *)
(* meanwhile raises.                                                       *)
SetEnabled(c) ==
  /\ At(c, "write") /\ call[c].kind \in {"deactivate", "reactivate"}
  /\ LET e == call[c].ext
         new == IF call[c].kind = "deactivate" THEN "disabled" ELSE "enabled"
     IN row' = IF call[c].existing = new \/ row[e] = "absent"
                 THEN row ELSE [row EXCEPT ![e] = new]
  /\ Refuses(c)
  /\ UNCHANGED <<records, content, disk, calls, faults, edits>>

DeleteSources(c) ==
  /\ At(c, "remove") /\ call[c].kind = "delete"
  /\ sources' = sources \ {call[c].ext}
  /\ Refuses(c)
  /\ UNCHANGED <<database, tables, files, calls, faults, edits>>

-----------------------------------------------------------------------------
(* What goes wrong, and users.                                             *)

(* Mutant: the tables are created before the exception is looked for.      *)
GuardedLate == {"write"}

(* Where install() stands inside its try.                                  *)
Guarded == {"copy", "create", "write"}

(* A statement raises, or copying does.  Half of the tables may be dropped *)
(* then.                                                                   *)
Raises(c) ==
  /\ call[c] # Idle /\ call[c].at \notin {"cleanup", "remove"}
  /\ faults < MaxFaults
  /\ IF call[c].kind \in Installs /\ call[c].at \in Guarded
       THEN Goes(c, "cleanup") /\ UNCHANGED torn
       ELSE /\ Ends(c)
            /\ torn' = IF call[c].at = "drop" THEN torn \union {call[c].ext} ELSE torn
  /\ faults' = faults + 1
  /\ UNCHANGED <<database, disk, calls, edits, raced>>

(* Whether a call leaves something half done where it stands.              *)
HalfDone(c) ==
  \/ call[c].at \in {"drop", "create", "cleanup", "undrop"}
  \/ call[c].at = "copy" /\ call[c].existing # "absent"
  \/ call[c].at = "write" /\ call[c].kind \in Installs
  \/ call[c].at = "remove" /\ call[c].kind \in Uninstalls

(* The caller goes away, or the process dies: nothing is cleaned up.       *)
Vanishes(c) ==
  /\ call[c] # Idle
  /\ faults < MaxFaults
  /\ torn' = IF HalfDone(c) THEN torn \union {call[c].ext} ELSE torn
  /\ Ends(c)
  /\ faults' = faults + 1
  /\ UNCHANGED <<database, disk, calls, edits, raced>>

(* External: somebody creates, edits or deletes an entity.                 *)
UserEdits(x) ==
  /\ edits < MaxEdits
  /\ \E v \in {"none", "user"} : v # content[x] /\ content' = [content EXCEPT ![x] = v]
  /\ edits' = edits + 1
  /\ UNCHANGED <<row, records, disk, call, calls, faults, history>>

Step(c) ==
  \/ \E k \in Kinds, e \in Extension : Start(c, k, e)
  \/ ReadRow(c) \/ CheckDependencies(c) \/ DropTables(c) \/ CopyFiles(c)
  \/ CreateTables(c) \/ InstallWrites(c) \/ CleansUp(c) \/ DropsAgain(c)
  \/ CheckDependents(c) \/ UninstallWrites(c) \/ RemoveFiles(c)
  \/ SetEnabled(c) \/ DeleteSources(c)
  \/ Raises(c) \/ Vanishes(c)

Next == (\E c \in Call : Step(c)) \/ (\E x \in Entity : UserEdits(x))

Spec == Init /\ [][Next]_vars

-----------------------------------------------------------------------------
(* Properties.                                                             *)

Settled(e) == \A c \in Active : call[c].ext # e

(* The row of an extension, its files and its tables tell the same story   *)
(* when no call is at work on it: after any calls, refused, raised or      *)
(* succeeded, except where a call broke off in the middle, failed to       *)
(* overwrite, or overlapped another on the same extension; and even there  *)
(* the next call that installs or uninstalls it by itself mends everything.*)
RowsMatchDisk ==
  \A e \in Extension :
    Settled(e) /\ e \notin torn =>
      /\ row[e] # "absent" <=> e \in files
      /\ row[e] # "absent" => e \in tables

(* What an installed extension depends on is installed and in use, through *)
(* failures, crashes, deactivations and reactivations, unless calls to the *)
(* two overlapped, for what install and uninstall check they check before  *)
(* they write.                                                             *)
DependenciesEnabled ==
  \A e \in Extension :
    row[e] # "absent" /\ e \notin raced => \A d \in Needs[e] : row[d] = "enabled"

(* Calls that neither purge nor overwrite take no entity away but what the *)
(* extension itself has shipped and nobody changed, and write none but     *)
(* where there was none: however calls of others and edits come between    *)
(* what such a call has read and what it does.                             *)
OthersWorkKept ==
  [][\A c \in Call :
       call[c] # Idle /\ call'[c] # call[c] /\ call[c].kind \notin {"purge", "overwrite"} =>
         \A x \in Entity : content'[x] # content[x] =>
           content[x] \in {"none", call[c].ext}]_vars
=============================================================================
