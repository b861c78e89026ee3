------------------------ MODULE ExtensionManagerProofs ------------------------
(***************************************************************************)
(* Proofs of the safety properties of ExtensionManager, for any extensions *)
(* and dependencies, any entities, and any number of calls, failures and   *)
(* edits.                                                                  *)
(***************************************************************************)
EXTENDS ExtensionManager, TLAPS

(* Type correctness, with what it rests on: which kinds of calls come to   *)
(* which places.                                                           *)
Consistent(k) ==
  k.at # "idle" =>
    /\ k.at \in {"drop", "copy", "create", "cleanup", "undrop"} => k.kind \in Installs
    /\ k.at = "check" => k.kind \in Installs \union Uninstalls
    /\ k.at = "remove" => k.kind \in {"purge", "keep", "delete"}
    /\ k.at = "write" => k.kind # "delete"
    /\ k.at = "drop" => k.existing # "absent"

TypeInv == TypeOK /\ \A c \in Call : Consistent(call[c])

(* What is recorded as imported, the extension has shipped.                *)
Shipped(e, rs) == \A x \in DOMAIN rs : rs[x].status = "imported" => rs[x].digest = e

RecordInv ==
  /\ \A e \in Extension : Shipped(e, records[e])
  /\ \A c \in Active : Shipped(call[c].ext, call[c].records)

(* Calls that overlap know that they do, as do the extensions concerned.   *)
OverlapInv ==
  \A c, d \in Active : c # d /\ Related(call[c].ext, call[d].ext) =>
    /\ call[c].disturbed
    /\ call[c].ext = call[d].ext => call[c].ext \in torn
    /\ call[d].ext \in Needs[call[c].ext] => call[c].ext \in raced

(* What a call has checked of the dependencies holds until it writes, but  *)
(* for extensions that calls race for.                                     *)
CheckedInv ==
  \A c \in Active :
    LET e == call[c].ext
    IN /\ /\ call[c].kind \in Installs
          /\ call[c].at \in {"drop", "copy", "create", "write"}
          /\ e \notin raced \/ ~ call[c].disturbed
          => \A d \in Needs[e] : row[d] = "enabled"
       /\ call[c].kind \in Uninstalls /\ call[c].at = "write" =>
            \A f \in Extension : e \in Needs[f] /\ row[f] # "absent" => f \in raced
       /\ call[c].at = "remove" /\ call[c].kind # "delete" /\ ~ call[c].disturbed =>
            row[e] = "absent"

DependencyInv == CheckedInv /\ DependenciesEnabled

(* The row of an extension, its files and its tables, while a call is at   *)
(* work that nobody disturbs: before it changes anything they agree, and   *)
(* from then on they are where the call stands.                            *)
Agree(e) == /\ row[e] # "absent" <=> e \in files
            /\ row[e] # "absent" => e \in tables

Vouched(c) ==
  LET e == call[c].ext
  IN /\ \/ call[c].at \in {"read", "check", "drop"}
        \/ call[c].at = "write" /\ call[c].kind \notin Installs
        \/ call[c].at = "remove" /\ call[c].kind = "delete"
        \/ call[c].at = "undrop"
        \/ call[c].at = "copy" /\ call[c].existing = "absent"
        => Agree(e)
     /\ call[c].at \notin {"read", "remove"} => (call[c].existing = "absent" <=> row[e] = "absent")
     /\ call[c].at \in {"undrop", "remove"} => row[e] = "absent"

(* What a call has put in place it relies on, unless it was disturbed.     *)
Placed(c) ==
  /\ call[c].at = "create" => call[c].ext \in files
  /\ call[c].at = "write" /\ call[c].kind \in Installs =>
       call[c].ext \in files /\ call[c].ext \in tables

PlaceInv ==
  \A c \in Active :
    /\ call[c].ext \notin torn => Vouched(c)
    /\ call[c].ext \notin torn \/ ~ call[c].disturbed => Placed(c)

DiskInv == PlaceInv /\ RowsMatchDisk

-----------------------------------------------------------------------------
(* Type correctness.                                                       *)

Places == {"read", "check", "drop", "copy", "create", "write", "cleanup", "undrop", "remove"}

(* The fields of a call under way.                                         *)
LEMMA CallFields ==
  ASSUME TypeInv, NEW c \in Call, call[c] # Idle
  PROVE  /\ call[c] \in [at : Places, kind : Kinds, ext : Extension,
                         existing : {"absent", "enabled", "disabled"},
                         records : ImportRecords, disturbed : BOOLEAN]
         /\ call[c].at \in Places /\ call[c].at # "idle"
         /\ call[c].kind \in Kinds /\ call[c].ext \in Extension
         /\ call[c].existing \in {"absent", "enabled", "disabled"}
         /\ call[c].records \in ImportRecords /\ call[c].disturbed \in BOOLEAN
         /\ Consistent(call[c])
<1>1. call[c] \in Calls /\ Consistent(call[c])
  BY DEF TypeInv, TypeOK
<1>2. call[c] \in [at : Places, kind : Kinds, ext : Extension,
                    existing : {"absent", "enabled", "disabled"},
                    records : ImportRecords, disturbed : BOOLEAN]
  BY <1>1 DEF Calls, Places
<1> QED BY <1>1, <1>2 DEF Places

LEMMA CallStep ==
  ASSUME TypeInv, NEW c \in Call, NEW k \in Calls, Consistent(k), call' = [call EXCEPT ![c] = k]
  PROVE  call' \in [Call -> Calls] /\ \A d \in Call : Consistent(call'[d])
<1>1. call \in [Call -> Calls] /\ \A d \in Call : Consistent(call[d])
  BY DEF TypeInv, TypeOK
<1>2. \A d \in Call : call'[d] = IF d = c THEN k ELSE call[d]
  BY <1>1
<1>3. call' \in [Call -> Calls]
  BY <1>1
<1> QED BY <1>1, <1>2, <1>3

LEMMA CallEnds ==
  ASSUME TypeInv, NEW c \in Call, Ends(c)
  PROVE  /\ call' \in [Call -> Calls] /\ \A d \in Call : Consistent(call'[d])
         /\ call'[c] = Idle /\ \A d \in Call \ {c} : call'[d] = call[d]
<1>1. Idle \in Calls /\ Consistent(Idle)
  BY DEF Calls, Consistent, Idle
<1>2. call' = [call EXCEPT ![c] = Idle] /\ call \in [Call -> Calls]
  BY DEF Ends, TypeInv, TypeOK
<1> QED BY <1>1, <1>2, CallStep

(* A call that goes on to another place is the same call.                  *)
LEMMA CallGoes ==
  ASSUME TypeInv, NEW c \in Call, call[c] # Idle, NEW place \in Places, Goes(c, place)
  PROVE  /\ call'[c] = [call[c] EXCEPT !.at = place]
         /\ call'[c] # Idle /\ call'[c].at = place
         /\ call'[c].kind = call[c].kind /\ call'[c].ext = call[c].ext
         /\ call'[c].existing = call[c].existing /\ call'[c].records = call[c].records
         /\ call'[c].disturbed = call[c].disturbed
         /\ \A d \in Call \ {c} : call'[d] = call[d]
         /\ Consistent([call[c] EXCEPT !.at = place]) =>
              call' \in [Call -> Calls] /\ \A d \in Call : Consistent(call'[d])
<1> DEFINE k == [call[c] EXCEPT !.at = place]
<1>1. call \in [Call -> Calls]
  BY DEF TypeInv, TypeOK
<1>2. call' = [call EXCEPT ![c] = k]
  BY <1>1 DEF Goes
<1>3. /\ k \in Calls /\ k # Idle /\ k.at = place /\ k.kind = call[c].kind /\ k.ext = call[c].ext
      /\ k.existing = call[c].existing /\ k.records = call[c].records
      /\ k.disturbed = call[c].disturbed
  BY CallFields DEF Calls, Places, Idle
<1> HIDE DEF k
<1>4. call'[c] = k /\ \A d \in Call \ {c} : call'[d] = call[d]
  BY <1>1, <1>2
<1>5. Consistent(k) => call' \in [Call -> Calls] /\ \A d \in Call : Consistent(call'[d])
  BY <1>2, <1>3, CallStep
<1> QED BY <1>3, <1>4, <1>5 DEF k

LEMMA NoRecordsType == NoRecords \in ImportRecords
<1>1. NoRecords \in [{} -> [status : {"imported", "skipped"}, digest : Contents]]
  BY DEF NoRecords
<1> QED BY <1>1 DEF ImportRecords

LEMMA ManagerTypeInv == Spec => []TypeInv
<1>1. Init => TypeInv
  BY NoRecordsType, ExtensionAssumption
     DEF Init, TypeInv, TypeOK, Calls, Idle, Consistent, Contents
<1>2. TypeInv /\ [Next]_vars => TypeInv'
  <2> SUFFICES ASSUME TypeInv, [Next]_vars PROVE TypeInv'
    OBVIOUS
  <2> DEFINE CallGood == call' \in [Call -> Calls] /\ \A c \in Call : Consistent(call'[c])
             DataGood == /\ row' \in [Extension -> {"absent", "enabled", "disabled"}]
                         /\ records' \in [Extension -> ImportRecords]
                         /\ content' \in [Entity -> Contents]
             DiskGood == tables' \subseteq Extension /\ files' \subseteq Extension
                           /\ sources' \subseteq Extension
             CountsGood == calls' \in 0..MaxCalls /\ faults' \in 0..MaxFaults
                             /\ edits' \in 0..MaxEdits
             HistoryGood == torn' \subseteq Extension /\ raced' \subseteq Extension
  <2>0. ASSUME CallGood, DataGood, DiskGood, CountsGood, HistoryGood PROVE TypeInv'
    BY <2>0 DEF TypeInv, TypeOK
  <2>a. /\ row \in [Extension -> {"absent", "enabled", "disabled"}]
        /\ records \in [Extension -> ImportRecords]
        /\ content \in [Entity -> Contents]
        /\ tables \subseteq Extension /\ files \subseteq Extension /\ sources \subseteq Extension
        /\ call \in [Call -> Calls]
        /\ calls \in 0..MaxCalls /\ faults \in 0..MaxFaults /\ edits \in 0..MaxEdits
        /\ torn \subseteq Extension /\ raced \subseteq Extension
        /\ MaxCalls \in Nat /\ MaxFaults \in Nat /\ MaxEdits \in Nat
    BY ExtensionAssumption DEF TypeInv, TypeOK
  <2>b. UNCHANGED database => DataGood
    BY <2>a DEF database
  <2>c. UNCHANGED disk => DiskGood
    BY <2>a DEF disk
  <2>d. UNCHANGED history => HistoryGood
    BY <2>a DEF history
  <2>e. UNCHANGED <<calls, faults, edits>> => CountsGood
    BY <2>a
  <2>f. \A c \in Call : Completes(c) => HistoryGood
    BY <2>a DEF Completes
  <2>g. \A c \in Call : \A place : At(c, place) => call[c] # Idle /\ call[c].at = place
    BY DEF At
  <2>h. \A c \in Call : call[c] # Idle => call[c].ext \in Extension
    BY CallFields
  <2>i. ASSUME NEW c \in Call, call[c] # Idle, NEW place \in Places, Goes(c, place),
               /\ place \in {"drop", "copy", "create", "cleanup", "undrop"}
                    => call[c].kind \in Installs
               /\ place # "check"
               /\ place = "remove" => call[c].kind \in {"purge", "keep", "delete"}
               /\ place = "write" => call[c].kind # "delete"
               /\ place = "drop" => call[c].existing # "absent"
        PROVE  CallGood
    <3>1. Consistent([call[c] EXCEPT !.at = place])
      BY <2>i, CallFields DEF Consistent, Places
    <3> QED BY <2>i, <3>1, CallGoes
  <2>1. ASSUME NEW c \in Call, NEW k \in Kinds, NEW e \in Extension, Start(c, k, e) PROVE TypeInv'
    <3> DEFINE near == {d \in Active : Related(e, call[d].ext)}
               started == [at |-> "read", kind |-> k, ext |-> e,
                           existing |-> "absent", records |-> NoRecords,
                           disturbed |-> near # {}]
               next(d) == IF d = c THEN started
                          ELSE IF d \in near THEN [call[d] EXCEPT !.disturbed = TRUE]
                          ELSE call[d]
    <3>1. call' = [d \in Call |-> next(d)]
      BY <2>1 DEF Start
    <3>2. ASSUME NEW d \in Call PROVE next(d) \in Calls /\ Consistent(next(d))
      <4>1. CASE d = c
        BY <4>1, NoRecordsType DEF Calls, Consistent
      <4>2. CASE d # c /\ d \in near
        <5>1. call[d] # Idle
          BY <4>2 DEF Active
        <5>2. [call[d] EXCEPT !.disturbed = TRUE] \in Calls
          BY <5>1, CallFields DEF Calls, Places
        <5>3. Consistent([call[d] EXCEPT !.disturbed = TRUE])
          BY <5>1, CallFields DEF Consistent
        <5> HIDE DEF near
        <5> QED BY <4>2, <5>2, <5>3
      <4>3. CASE d # c /\ d \notin near
        <5>1. next(d) = call[d]
          BY <4>3
        <5> QED BY <5>1 DEF TypeInv, TypeOK
      <4> QED BY <4>1, <4>2, <4>3
    <3>3. CallGood
      <4> HIDE DEF next
      <4> QED BY <3>1, <3>2
    <3>4. HistoryGood
      <4>1. \A d \in near : call[d].ext \in Extension
        BY <2>h DEF Active
      <4>2. {e} \union {call[d].ext : d \in near} \subseteq Extension
        BY <4>1
      <4> HIDE DEF near
      <4>3. torn' \subseteq Extension
        BY <2>1, <2>a DEF Start
      <4>4. raced' \subseteq Extension
        BY <2>1, <2>a, <4>2 DEF Start, near
      <4> QED BY <4>3, <4>4
    <3>5. CountsGood
      BY <2>1, <2>a DEF Start
    <3> QED BY <2>0, <2>1, <2>b, <2>c, <3>3, <3>4, <3>5 DEF Start
  <2>2. ASSUME NEW c \in Call, ReadRow(c) PROVE TypeInv'
    <3> DEFINE e == call[c].ext
               k == call[c].kind
               place == IF k = "reactivate" THEN "write"
                        ELSE IF k = "delete" THEN "remove" ELSE "check"
               next == [call[c] EXCEPT !.at = place, !.existing = row[e], !.records = records[e]]
    <3>1. call[c] # Idle /\ e \in Extension /\ k \in Kinds
      BY <2>2, <2>g, CallFields DEF ReadRow
    <3>2. CASE call' = [call EXCEPT ![c].at = place, ![c].existing = row[e],
                                    ![c].records = records[e]] /\ UNCHANGED history
      <4>1. call' = [call EXCEPT ![c] = next]
        <5> HIDE DEF place, e
        <5> QED BY <3>2, <2>a
      <4>2. next \in Calls
        <5>1. place \in Places /\ place # "idle"
          BY DEF Places
        <5>2. row[e] \in {"absent", "enabled", "disabled"} /\ records[e] \in ImportRecords
          BY <2>a, <3>1
        <5>3. call[c] \in [at : Places, kind : Kinds, ext : Extension,
                            existing : {"absent", "enabled", "disabled"},
                            records : ImportRecords, disturbed : BOOLEAN]
          BY <3>1, CallFields
        <5> HIDE DEF place, e, k
        <5> QED BY <5>1, <5>2, <5>3 DEF Calls, Places
      <4>3. Consistent(next)
        BY <2>a, <3>1, CallFields DEF Consistent, Kinds, Installs, Uninstalls
      <4>4. CallGood
        <5> HIDE DEF next
        <5> QED BY <4>1, <4>2, <4>3, CallStep
      <4> QED BY <2>0, <2>2, <2>b, <2>c, <2>d, <2>e, <3>2, <4>4 DEF ReadRow
    <3>3. CASE Refuses(c)
      BY <2>0, <2>2, <2>b, <2>c, <2>d, <2>e, <3>3, CallEnds DEF ReadRow, Refuses
    <3> QED BY <2>2, <3>2, <3>3 DEF ReadRow
  <2>3. ASSUME NEW c \in Call, CheckDependencies(c) PROVE TypeInv'
    <3> DEFINE place == IF call[c].existing = "absent" THEN "copy" ELSE "drop"
    <3>1. call[c] # Idle
      BY <2>3, <2>g DEF CheckDependencies
    <3>2. CASE Goes(c, place) /\ UNCHANGED history
      <4>1. CallGood
        BY <2>3, <2>i, <3>1, <3>2 DEF CheckDependencies, Places
      <4> QED BY <2>0, <2>3, <2>b, <2>c, <2>d, <2>e, <3>2, <4>1 DEF CheckDependencies
    <3>3. CASE Refuses(c)
      BY <2>0, <2>3, <2>b, <2>c, <2>d, <2>e, <3>3, CallEnds DEF CheckDependencies, Refuses
    <3> QED BY <2>3, <3>2, <3>3 DEF CheckDependencies
  <2>4. ASSUME NEW c \in Call, DropTables(c) PROVE TypeInv'
    <3>1. CallGood
      BY <2>4, <2>g, <2>i, CallFields DEF DropTables, Places, Consistent
    <3> QED BY <2>0, <2>4, <2>a, <2>b, <2>d, <2>e, <3>1 DEF DropTables
  <2>5. ASSUME NEW c \in Call, CopyFiles(c) PROVE TypeInv'
    <3>1. CallGood
      BY <2>5, <2>g, <2>i, CallFields DEF CopyFiles, Places, Consistent
    <3> QED BY <2>0, <2>5, <2>a, <2>b, <2>d, <2>e, <3>1 DEF CopyFiles
  <2>6. ASSUME NEW c \in Call, CreateTables(c) PROVE TypeInv'
    <3>1. call[c] # Idle /\ call[c].kind \in Installs
      BY <2>6, <2>g, CallFields DEF CreateTables, Consistent
    <3>2. CallGood
      BY <2>6, <2>i, <3>1 DEF CreateTables, Places, Installs
    <3> QED BY <2>0, <2>6, <2>a, <2>b, <2>d, <2>e, <2>h, <3>1, <3>2 DEF CreateTables
  <2>7. ASSUME NEW c \in Call, InstallWrites(c) PROVE TypeInv'
    <3> DEFINE e == call[c].ext
               k == call[c].kind
    <3>1. call[c] # Idle /\ k \in Installs /\ e \in Extension
      BY <2>7, <2>g, <2>h DEF InstallWrites
    <3>2. CASE e \in sources
      <4>1. \A x \in Entity : Record(x, k, e) \in [status : {"imported", "skipped"},
                                                  digest : Contents]
        BY <2>a, <3>1 DEF Record, Contents
      <4>2. Imports[e] \in SUBSET Entity
        BY <3>1, ExtensionAssumption
      <4>3. [x \in Imports[e] |-> Record(x, k, e)] \in ImportRecords
        BY <4>1, <4>2 DEF ImportRecords
      <4>4. records' = [records EXCEPT ![e] = [x \in Imports[e] |-> Record(x, k, e)]]
        BY <2>7, <3>2 DEF InstallWrites
      <4>5. records' \in [Extension -> ImportRecords]
        <5> HIDE DEF e, k
        <5> QED BY <2>a, <4>3, <4>4
      <4>6. content' \in [Entity -> Contents]
        <5>1. content' = [x \in Entity |-> IF x \in Imports[e] THEN Record(x, k, e).digest
                                                              ELSE content[x]]
          BY <2>7, <3>2 DEF InstallWrites
        <5>2. \A x \in Entity : Record(x, k, e).digest \in Contents
          BY <4>1
        <5> HIDE DEF e, k
        <5> QED BY <2>a, <5>1, <5>2
      <4>7. row' \in [Extension -> {"absent", "enabled", "disabled"}]
        BY <2>7, <2>a, <3>2 DEF InstallWrites
      <4> QED BY <2>0, <2>7, <2>c, <2>e, <2>f, <3>2, <4>5, <4>6, <4>7, CallEnds
          DEF InstallWrites, Completes
    <3>3. CASE e \notin sources
      <4>1. CallGood
        BY <2>7, <2>i, <3>1, <3>3 DEF InstallWrites, Places
      <4> QED BY <2>0, <2>7, <2>b, <2>c, <2>d, <2>e, <3>3, <4>1 DEF InstallWrites
    <3> QED BY <3>2, <3>3
  <2>8. ASSUME NEW c \in Call, CleansUp(c) PROVE TypeInv'
    <3>1. CallGood
      BY <2>8, <2>g, <2>i, CallFields DEF CleansUp, Places, Consistent
    <3> QED BY <2>0, <2>8, <2>a, <2>b, <2>e, <2>g, <2>h, <3>1 DEF CleansUp
  <2>9. ASSUME NEW c \in Call, DropsAgain(c) PROVE TypeInv'
    BY <2>0, <2>9, <2>a, <2>b, <2>d, <2>e, CallEnds DEF DropsAgain, Refuses
  <2>10. ASSUME NEW c \in Call, CheckDependents(c) PROVE TypeInv'
    <3>1. call[c] # Idle
      BY <2>10, <2>g DEF CheckDependents
    <3>2. CASE Goes(c, "write") /\ UNCHANGED history
      <4>1. CallGood
        BY <2>10, <2>i, <3>1, <3>2 DEF CheckDependents, Places, Uninstalls
      <4> QED BY <2>0, <2>10, <2>b, <2>c, <2>d, <2>e, <3>2, <4>1 DEF CheckDependents
    <3>3. CASE Refuses(c)
      BY <2>0, <2>10, <2>b, <2>c, <2>d, <2>e, <3>3, CallEnds DEF CheckDependents, Refuses
    <3> QED BY <2>10, <3>2, <3>3 DEF CheckDependents
  <2>11. ASSUME NEW c \in Call, UninstallWrites(c) PROVE TypeInv'
    <3>1. call[c] # Idle /\ call[c].kind \in {"purge", "keep"}
      BY <2>11, <2>g DEF UninstallWrites
    <3>2. CallGood
      BY <2>11, <2>i, <3>1 DEF UninstallWrites, Places
    <3>3. content' \in [Entity -> Contents]
      BY <2>11, <2>a DEF UninstallWrites, Contents
    <3>4. row' \in [Extension -> {"absent", "enabled", "disabled"}]
          /\ records' \in [Extension -> ImportRecords]
      BY <2>11, <2>a, NoRecordsType DEF UninstallWrites
    <3>5. tables' \subseteq Extension
      BY <2>11, <2>a DEF UninstallWrites
    <3> QED BY <2>0, <2>11, <2>a, <2>d, <2>e, <3>2, <3>3, <3>4, <3>5 DEF UninstallWrites
  <2>12. ASSUME NEW c \in Call, RemoveFiles(c) PROVE TypeInv'
    BY <2>0, <2>12, <2>a, <2>b, <2>e, <2>f, CallEnds DEF RemoveFiles, Completes
  <2>13. ASSUME NEW c \in Call, SetEnabled(c) PROVE TypeInv'
    <3>1. row' \in [Extension -> {"absent", "enabled", "disabled"}]
      BY <2>13, <2>a DEF SetEnabled
    <3> QED BY <2>0, <2>13, <2>a, <2>c, <2>d, <2>e, <3>1, CallEnds DEF SetEnabled, Refuses
  <2>14. ASSUME NEW c \in Call, DeleteSources(c) PROVE TypeInv'
    BY <2>0, <2>14, <2>a, <2>b, <2>d, <2>e, CallEnds DEF DeleteSources, Refuses
  <2>15. ASSUME NEW c \in Call, Raises(c) PROVE TypeInv'
    <3>1. call[c] # Idle /\ call[c].ext \in Extension
      BY <2>15, <2>h DEF Raises
    <3>2. CountsGood /\ HistoryGood
      BY <2>15, <2>a, <3>1 DEF Raises
    <3>3. CallGood
      <4>1. CASE Goes(c, "cleanup") /\ call[c].kind \in Installs
        BY <2>i, <3>1, <4>1 DEF Places
      <4>2. CASE Ends(c)
        BY <4>2, CallEnds
      <4> QED BY <2>15, <4>1, <4>2 DEF Raises
    <3> QED BY <2>0, <2>15, <2>b, <2>c, <3>2, <3>3 DEF Raises
  <2>16. ASSUME NEW c \in Call, Vanishes(c) PROVE TypeInv'
    <3>1. call[c] # Idle /\ call[c].ext \in Extension
      BY <2>16, <2>h DEF Vanishes
    <3>2. CountsGood /\ HistoryGood
      BY <2>16, <2>a, <3>1 DEF Vanishes
    <3> QED BY <2>0, <2>16, <2>b, <2>c, <3>2, CallEnds DEF Vanishes
  <2>17. ASSUME NEW x \in Entity, UserEdits(x) PROVE TypeInv'
    <3>1. content' \in [Entity -> Contents]
      BY <2>17, <2>a DEF UserEdits, Contents
    <3>2. CountsGood
      BY <2>17, <2>a DEF UserEdits
    <3> QED BY <2>17, <2>0, <2>a, <2>c, <2>d, <3>1, <3>2 DEF UserEdits, TypeInv
  <2>18. CASE UNCHANGED vars
    BY <2>18 DEF vars, TypeInv, TypeOK
  <2> QED BY <2>1, <2>2, <2>3, <2>4, <2>5, <2>6, <2>7, <2>8, <2>9, <2>10, <2>11, <2>12, <2>13,
             <2>14, <2>15, <2>16, <2>17, <2>18 DEF Next, Step
<1> QED BY <1>1, <1>2, PTL DEF Spec

(* The records keep their types, and calls are where their kinds go.       *)
THEOREM ManagerTypeOK == Spec => []TypeOK
<1>1. TypeInv => TypeOK
  BY DEF TypeInv
<1> QED BY <1>1, ManagerTypeInv, PTL

-----------------------------------------------------------------------------
(* What a step of a call leaves alone: other calls, other extensions, and  *)
(* what is vouched for, unless the call completes undisturbed.             *)
Moves(c) ==
  \/ ReadRow(c) \/ CheckDependencies(c) \/ DropTables(c) \/ CopyFiles(c)
  \/ CreateTables(c) \/ InstallWrites(c) \/ CleansUp(c) \/ DropsAgain(c)
  \/ CheckDependents(c) \/ UninstallWrites(c) \/ RemoveFiles(c)
  \/ SetEnabled(c) \/ DeleteSources(c)
  \/ Raises(c) \/ Vanishes(c)

Own(c) ==
  /\ \A d \in Call \ {c} : call'[d] = call[d]
  /\ call'[c] # Idle => /\ call'[c].ext = call[c].ext /\ call'[c].kind = call[c].kind
                        /\ call'[c].disturbed = call[c].disturbed
  /\ \A f \in Extension \ {call[c].ext} :
       /\ row'[f] = row[f] /\ records'[f] = records[f]
       /\ f \in files' <=> f \in files
       /\ f \in tables' <=> f \in tables
       /\ f \in torn' <=> f \in torn
       /\ f \in raced' <=> f \in raced
  /\ raced' \subseteq raced
  /\ call[c].disturbed \/ call'[c] # Idle => torn \subseteq torn' /\ raced' = raced

LEMMA OwnStep ==
  ASSUME TypeInv, NEW c \in Call, Moves(c)
  PROVE  call[c] # Idle /\ Own(c)
<1> DEFINE e == call[c].ext
           Others == \A f \in Extension \ {e} :
             /\ row'[f] = row[f] /\ records'[f] = records[f]
             /\ f \in files' <=> f \in files
             /\ f \in tables' <=> f \in tables
             /\ f \in torn' <=> f \in torn
             /\ f \in raced' <=> f \in raced
           History == /\ raced' \subseteq raced
                      /\ call[c].disturbed \/ call'[c] # Idle =>
                           torn \subseteq torn' /\ raced' = raced
<1>a. call[c] # Idle
  BY DEF Moves, ReadRow, CheckDependencies, DropTables, CopyFiles, CreateTables, InstallWrites,
         CleansUp, DropsAgain, CheckDependents, UninstallWrites, RemoveFiles, SetEnabled,
         DeleteSources, Raises, Vanishes, At
<1> SUFFICES Own(c)
  BY <1>a
<1>b. call \in [Call -> Calls] /\ e \in Extension
  BY <1>a, CallFields DEF TypeInv, TypeOK
<1>c. ASSUME Ends(c), Others, History PROVE Own(c)
  BY <1>c, CallEnds DEF Own
<1>d. ASSUME NEW place \in Places, Goes(c, place), Others, History PROVE Own(c)
  <2>1. /\ \A d \in Call \ {c} : call'[d] = call[d]
        /\ call'[c].ext = call[c].ext /\ call'[c].kind = call[c].kind
        /\ call'[c].disturbed = call[c].disturbed
    BY <1>a, <1>d, CallGoes
  <2> QED BY <1>d, <2>1 DEF Own
<1>e. UNCHANGED <<database, disk, history>> => Others /\ History
  BY DEF database, disk, history
<1>f. Completes(c) => Ends(c) /\ History
  BY <1>a, CallFields, CallEnds DEF Completes
<1>1. CASE ReadRow(c)
  <2> DEFINE place == IF call[c].kind = "reactivate" THEN "write"
                      ELSE IF call[c].kind = "delete" THEN "remove" ELSE "check"
             next == [call[c] EXCEPT !.at = place, !.existing = row[e], !.records = records[e]]
  <2>1. CASE call' = [call EXCEPT ![c].at = place, ![c].existing = row[e],
                                  ![c].records = records[e]] /\ UNCHANGED history
    <3>1. call' = [call EXCEPT ![c] = next]
      <4> HIDE DEF place, e
      <4> QED BY <1>b, <2>1
    <3>2. next.ext = e /\ next.kind = call[c].kind /\ next.disturbed = call[c].disturbed
      BY <1>a, CallFields
    <3>3. call'[c] = next /\ \A d \in Call \ {c} : call'[d] = call[d]
      <4> HIDE DEF next
      <4> QED BY <1>b, <3>1
    <3>4. Others /\ History
      BY <1>1, <1>e, <2>1 DEF ReadRow
    <3> HIDE DEF next, Others, History
    <3>5. call'[c].ext = e /\ call'[c].kind = call[c].kind
          /\ call'[c].disturbed = call[c].disturbed
      BY <3>2, <3>3
    <3> QED BY <3>3, <3>4, <3>5 DEF Own, Others, History
  <2>2. CASE Refuses(c)
    BY <1>1, <1>c, <1>e, <2>2 DEF ReadRow, Refuses
  <2> QED BY <1>1, <2>1, <2>2 DEF ReadRow
<1>2. CASE CheckDependencies(c)
  <2>1. Others /\ History
    BY <1>2, <1>e DEF CheckDependencies, Refuses
  <2>2. Ends(c) \/ Goes(c, "copy") \/ Goes(c, "drop")
    BY <1>2 DEF CheckDependencies, Refuses
  <2> HIDE DEF Others, History
  <2> QED BY <1>c, <1>d, <2>1, <2>2 DEF Places
<1>3. CASE DropTables(c)
  <2>1. Others /\ History /\ Goes(c, "copy")
    BY <1>3, <1>e DEF DropTables, database, history
  <2> HIDE DEF Others, History
  <2> QED BY <1>d, <2>1 DEF Places
<1>4. CASE CopyFiles(c)
  <2>1. Others /\ History /\ (Goes(c, "create") \/ Goes(c, "cleanup"))
    BY <1>4, <1>e DEF CopyFiles, database, history
  <2> HIDE DEF Others, History
  <2> QED BY <1>d, <2>1 DEF Places
<1>5. CASE CreateTables(c)
  <2>1. Others /\ History /\ Goes(c, "write")
    BY <1>5, <1>e DEF CreateTables, database, history
  <2> HIDE DEF Others, History
  <2> QED BY <1>d, <2>1 DEF Places
<1>6. CASE InstallWrites(c)
  <2>1. CASE e \in sources
    <3>1. Completes(c) /\ UNCHANGED disk
      BY <1>6, <2>1 DEF InstallWrites
    <3>2. \A f \in Extension \ {e} : row'[f] = row[f] /\ records'[f] = records[f]
      BY <1>6, <2>1 DEF InstallWrites, TypeInv, TypeOK
    <3>3. Others
      BY <3>1, <3>2 DEF disk, Completes
    <3> HIDE DEF Others, History
    <3> QED BY <1>c, <1>f, <3>1, <3>3
  <2>2. CASE e \notin sources
    <3>1. Others /\ History /\ Goes(c, "cleanup")
      BY <1>6, <1>e, <2>2 DEF InstallWrites
    <3> HIDE DEF Others, History
    <3> QED BY <1>d, <3>1 DEF Places
  <2> QED BY <2>1, <2>2
<1>7. CASE CleansUp(c)
  <2>1. Others /\ History /\ Goes(c, "undrop")
    BY <1>7, <1>e DEF CleansUp, database
  <2> HIDE DEF Others, History
  <2> QED BY <1>d, <2>1 DEF Places
<1>8. CASE DropsAgain(c)
  <2>1. Others /\ History /\ Ends(c)
    BY <1>8 DEF DropsAgain, Refuses, database, history
  <2> HIDE DEF Others, History
  <2> QED BY <1>c, <2>1
<1>9. CASE CheckDependents(c)
  <2>1. Others /\ History
    BY <1>9, <1>e DEF CheckDependents, Refuses
  <2>2. Ends(c) \/ Goes(c, "write")
    BY <1>9 DEF CheckDependents, Refuses
  <2> HIDE DEF Others, History
  <2> QED BY <1>c, <1>d, <2>1, <2>2 DEF Places
<1>10. CASE UninstallWrites(c)
  <2>1. History /\ Goes(c, "remove")
    BY <1>10 DEF UninstallWrites, history
  <2>2. /\ row' = [row EXCEPT ![e] = "absent"] /\ records' = [records EXCEPT ![e] = NoRecords]
        /\ tables' \in {tables, tables \ {e}} /\ UNCHANGED <<files, history>>
    BY <1>10 DEF UninstallWrites
  <2>3. Others
    BY <2>2 DEF history, TypeInv, TypeOK
  <2> HIDE DEF Others, History
  <2> QED BY <1>d, <2>1, <2>3 DEF Places
<1>11. CASE RemoveFiles(c)
  <2>1. Completes(c) /\ Others
    BY <1>11 DEF RemoveFiles, Completes, database
  <2> HIDE DEF Others, History
  <2> QED BY <1>c, <1>f, <2>1
<1>12. CASE SetEnabled(c)
  <2>1. Ends(c) /\ UNCHANGED <<records, disk, history>>
    BY <1>12 DEF SetEnabled, Refuses
  <2>2. \A f \in Extension \ {e} : row'[f] = row[f]
    BY <1>12 DEF SetEnabled, TypeInv, TypeOK
  <2>3. Others /\ History
    BY <2>1, <2>2 DEF disk, history
  <2> HIDE DEF Others, History
  <2> QED BY <1>c, <2>1, <2>3
<1>13. CASE DeleteSources(c)
  <2>1. Ends(c) /\ Others /\ History
    BY <1>13 DEF DeleteSources, Refuses, database, history
  <2> HIDE DEF Others, History
  <2> QED BY <1>c, <2>1
<1>14. CASE Raises(c)
  <2>1. Others /\ History /\ (Ends(c) \/ Goes(c, "cleanup"))
    BY <1>14, <1>e DEF Raises, database, disk
  <2> HIDE DEF Others, History
  <2> QED BY <1>c, <1>d, <2>1 DEF Places
<1>15. CASE Vanishes(c)
  <2>1. Others /\ History /\ Ends(c)
    BY <1>15 DEF Vanishes, database, disk
  <2> HIDE DEF Others, History
  <2> QED BY <1>c, <2>1
<1> QED BY <1>1, <1>2, <1>3, <1>4, <1>5, <1>6, <1>7, <1>8, <1>9, <1>10, <1>11, <1>12, <1>13,
           <1>14, <1>15 DEF Moves

(* What the start of a call does to the others: those that are near know,  *)
(* and so do the extensions concerned.                                     *)
StartEffect(c, k, e) ==
  /\ call[c] = Idle
  /\ call'[c] # Idle /\ call'[c].at = "read" /\ call'[c].kind = k /\ call'[c].ext = e
  /\ call'[c].records = NoRecords
  /\ call'[c].disturbed = (\E d \in Active : Related(e, call[d].ext))
  /\ \A d \in Call \ {c} : call[d] = Idle => call'[d] = Idle
  /\ \A d \in Call \ {c} : call[d] # Idle =>
       /\ call'[d] # Idle /\ call'[d].at = call[d].at /\ call'[d].kind = call[d].kind
       /\ call'[d].ext = call[d].ext /\ call'[d].existing = call[d].existing
       /\ call'[d].records = call[d].records
       /\ call'[d].disturbed = (call[d].disturbed \/ Related(e, call[d].ext))
  /\ torn \subseteq torn' /\ torn' \subseteq torn \union {e}
  /\ raced \subseteq raced'
  /\ \A d \in Active : /\ call[d].ext = e => e \in torn'
                       /\ call[d].ext \in Needs[e] => e \in raced'
                       /\ e \in Needs[call[d].ext] => call[d].ext \in raced'
  /\ UNCHANGED <<database, disk>>

LEMMA StartStep ==
  ASSUME TypeInv, NEW c \in Call, NEW k \in Kinds, NEW e \in Extension, Start(c, k, e)
  PROVE  StartEffect(c, k, e)
<1> DEFINE near == {d \in Active : Related(e, call[d].ext)}
           exts == {e} \union {call[d].ext : d \in near}
           started == [at |-> "read", kind |-> k, ext |-> e, existing |-> "absent",
                       records |-> NoRecords, disturbed |-> near # {}]
<1>1. /\ call[c] = Idle
      /\ call' = [d \in Call |-> IF d = c THEN started
                                ELSE IF d \in near THEN [call[d] EXCEPT !.disturbed = TRUE]
                                ELSE call[d]]
      /\ torn' = torn \union {f \in {e} : \E d \in near : call[d].ext = f}
      /\ raced' = raced \union {f \in exts : Needs[f] \intersect exts # {}}
      /\ UNCHANGED <<database, disk>>
  BY DEF Start
<1>2. started # Idle /\ started.at = "read" /\ started.kind = k /\ started.ext = e
      /\ started.records = NoRecords /\ started.disturbed = (near # {})
  BY DEF Idle
<1>3. call'[c] = started
  <2> HIDE DEF started, near
  <2> QED BY <1>1
<1>4. \A d \in Call \ {c} : call'[d] = IF d \in near THEN [call[d] EXCEPT !.disturbed = TRUE]
                                     ELSE call[d]
  <2> HIDE DEF started, near
  <2> QED BY <1>1
<1>5. ASSUME NEW d \in Call \ {c}, call[d] # Idle
      PROVE  /\ call'[d] # Idle /\ call'[d].at = call[d].at /\ call'[d].kind = call[d].kind
             /\ call'[d].ext = call[d].ext /\ call'[d].existing = call[d].existing
             /\ call'[d].records = call[d].records
             /\ call'[d].disturbed = (call[d].disturbed \/ Related(e, call[d].ext))
  <2>1. d \in near <=> Related(e, call[d].ext)
    BY <1>5 DEF Active
  <2>2. CASE d \in near
    <3> DEFINE next == [call[d] EXCEPT !.disturbed = TRUE]
    <3>1. /\ next # Idle /\ next.at = call[d].at /\ next.kind = call[d].kind
          /\ next.ext = call[d].ext /\ next.existing = call[d].existing
          /\ next.records = call[d].records /\ next.disturbed = TRUE
      BY <1>5, CallFields DEF Idle
    <3>2. call'[d] = next
      BY <1>4, <2>2
    <3> HIDE DEF next, near
    <3> QED BY <2>1, <2>2, <3>1, <3>2
  <2>3. CASE d \notin near
    <3>1. call'[d] = call[d]
      BY <1>4, <2>3
    <3>2. call[d].disturbed \in BOOLEAN
      BY <1>5, CallFields
    <3> HIDE DEF near
    <3> QED BY <1>5, <2>1, <2>3, <3>1, <3>2
  <2> QED BY <2>2, <2>3
<1>6. \A d \in Call \ {c} : call[d] = Idle => call'[d] = Idle
  BY <1>4 DEF Active
<1>7. near # {} <=> \E d \in Active : Related(e, call[d].ext)
  OBVIOUS
<1>8. ASSUME NEW d \in Active
      PROVE  /\ call[d].ext = e => e \in torn'
             /\ call[d].ext \in Needs[e] => e \in raced'
             /\ e \in Needs[call[d].ext] => call[d].ext \in raced'
  <2>1. Related(e, call[d].ext) => d \in near /\ call[d].ext \in exts /\ e \in exts
    BY <1>8
  <2> HIDE DEF near, exts
  <2> QED BY <1>1, <2>1 DEF Related
<1>9. torn \subseteq torn' /\ torn' \subseteq torn \union {e} /\ raced \subseteq raced'
  <2> HIDE DEF near, exts
  <2> QED BY <1>1
<1> HIDE DEF near, exts, started
<1> QED BY <1>1, <1>2, <1>3, <1>5, <1>6, <1>7, <1>8, <1>9 DEF StartEffect

LEMMA ManagerOverlapInv == Spec => []OverlapInv
<1>1. Init => OverlapInv
  BY DEF Init, OverlapInv, Active
<1>2. TypeInv /\ OverlapInv /\ [Next]_vars => OverlapInv'
  <2> SUFFICES ASSUME TypeInv, OverlapInv, [Next]_vars PROVE OverlapInv'
    OBVIOUS
  <2>1. ASSUME NEW c \in Call, NEW k \in Kinds, NEW e \in Extension, Start(c, k, e)
        PROVE  OverlapInv'
    <3> SUFFICES ASSUME NEW a \in Active', NEW b \in Active', a # b,
                        Related(call'[a].ext, call'[b].ext)
                 PROVE  /\ call'[a].disturbed
                        /\ call'[a].ext = call'[b].ext => call'[a].ext \in torn'
                        /\ call'[b].ext \in Needs[call'[a].ext] => call'[a].ext \in raced'
      BY DEF OverlapInv
    <3>a. /\ call[c] = Idle /\ call'[c].ext = e
          /\ call'[c].disturbed = (\E d \in Active : Related(e, call[d].ext))
          /\ \A d \in Call \ {c} : call[d] = Idle => call'[d] = Idle
          /\ \A d \in Call \ {c} : call[d] # Idle =>
               /\ call'[d].ext = call[d].ext
               /\ call'[d].disturbed = (call[d].disturbed \/ Related(e, call[d].ext))
          /\ torn \subseteq torn' /\ raced \subseteq raced'
          /\ \A d \in Active : /\ call[d].ext = e => e \in torn'
                               /\ call[d].ext \in Needs[e] => e \in raced'
                               /\ e \in Needs[call[d].ext] => call[d].ext \in raced'
      <4>1. StartEffect(c, k, e)
        BY <2>1, StartStep
      <4> QED BY <4>1 DEF StartEffect
    <3>1. CASE a = c
      <4>1. b \in Active /\ call'[b].ext = call[b].ext
        BY <3>a, <3>1 DEF Active
      <4>2. Related(e, call[b].ext)
        BY <3>a, <3>1, <4>1
      <4>3. call'[c].disturbed
        BY <3>a, <4>1, <4>2, Zenon
      <4>4. /\ call[b].ext = e => e \in torn'
            /\ call[b].ext \in Needs[e] => e \in raced'
        BY <3>a, <4>1
      <4> QED BY <3>a, <3>1, <4>1, <4>3, <4>4
    <3>2. CASE b = c
      <4>1. a \in Active /\ a \in Call \ {c} /\ call'[a].ext = call[a].ext
        BY <3>a, <3>2 DEF Active
      <4>2. Related(e, call[a].ext)
        BY <3>a, <3>2, <4>1 DEF Related
      <4>3. call'[a].disturbed
        BY <3>a, <4>1, <4>2 DEF Active
      <4>4. /\ call[a].ext = e => e \in torn'
            /\ e \in Needs[call[a].ext] => call[a].ext \in raced'
        BY <3>a, <4>1
      <4> QED BY <3>a, <3>2, <4>1, <4>3, <4>4
    <3>3. CASE a # c /\ b # c
      <4>1. a \in Active /\ b \in Active /\ call'[a].ext = call[a].ext /\ call'[b].ext = call[b].ext
        BY <3>a, <3>3 DEF Active
      <4>2. call[a].disturbed => call'[a].disturbed
        BY <3>a, <3>3, <4>1 DEF Active
      <4> QED BY <3>a, <4>1, <4>2 DEF OverlapInv
    <3> QED BY <3>1, <3>2, <3>3
  <2>2. ASSUME NEW c \in Call, Moves(c) PROVE OverlapInv'
    <3> SUFFICES ASSUME NEW a \in Active', NEW b \in Active', a # b,
                        Related(call'[a].ext, call'[b].ext)
                 PROVE  /\ call'[a].disturbed
                        /\ call'[a].ext = call'[b].ext => call'[a].ext \in torn'
                        /\ call'[b].ext \in Needs[call'[a].ext] => call'[a].ext \in raced'
      BY DEF OverlapInv
    <3>1. call[c] # Idle /\ Own(c)
      BY <2>2, OwnStep
    <3>2. /\ a \in Active /\ b \in Active
          /\ call'[a].ext = call[a].ext /\ call'[b].ext = call[b].ext
          /\ call'[a].disturbed = call[a].disturbed
      BY <3>1 DEF Active, Own
    <3>3. /\ call[a].disturbed
          /\ call[a].ext = call[b].ext => call[a].ext \in torn
          /\ call[b].ext \in Needs[call[a].ext] => call[a].ext \in raced
      BY <3>2 DEF OverlapInv
    <3>4. call[a].ext \in Extension
      BY <3>2, CallFields DEF Active
    <3>5. CASE call[a].ext # call[c].ext
      BY <3>1, <3>2, <3>3, <3>4, <3>5 DEF Own
    <3>6. CASE call[a].ext = call[c].ext
      <4>1. call[c].disturbed \/ call'[c] # Idle
        <5>1. CASE a = c
          BY <5>1 DEF Active
        <5>2. CASE a # c
          BY <3>1, <3>2, <3>6, <5>2 DEF OverlapInv, Related, Active
        <5> QED BY <5>1, <5>2
      <4> QED BY <3>1, <3>2, <3>3, <4>1 DEF Own
    <3> QED BY <3>5, <3>6
  <2>3. ASSUME NEW x \in Entity, UserEdits(x) PROVE OverlapInv'
    BY <2>3 DEF UserEdits, OverlapInv, Active, history
  <2>4. CASE UNCHANGED vars
    BY <2>4 DEF vars, OverlapInv, Active
  <2> QED BY <2>1, <2>2, <2>3, <2>4 DEF Next, Step, Moves
<1> QED BY <1>1, <1>2, ManagerTypeInv, PTL DEF Spec

-----------------------------------------------------------------------------
(* Entities.                                                               *)

LEMMA ShippedByInstall ==
  ASSUME NEW e, NEW k, NEW xs
  PROVE  Shipped(e, [x \in xs |-> Record(x, k, e)])
<1> DEFINE rs == [x \in xs |-> Record(x, k, e)]
<1>1. \A x \in xs : Record(x, k, e).status = "imported" => Record(x, k, e).digest = e
  BY DEF Record
<1> QED BY <1>1 DEF Shipped

LEMMA ManagerRecordInv == Spec => []RecordInv
<1>1. Init => RecordInv
  BY DEF Init, RecordInv, Active, Shipped, NoRecords
<1>2. TypeInv /\ RecordInv /\ [Next]_vars => RecordInv'
  <2> SUFFICES ASSUME TypeInv, RecordInv, [Next]_vars PROVE RecordInv'
    OBVIOUS
  <2>a. \A e : Shipped(e, NoRecords)
    BY DEF Shipped, NoRecords
  <2>1. ASSUME NEW c \in Call, NEW k \in Kinds, NEW e \in Extension, Start(c, k, e)
        PROVE  RecordInv'
    <3>1. UNCHANGED records
      <4>1. StartEffect(c, k, e)
        BY <2>1, StartStep
      <4> QED BY <4>1 DEF StartEffect, database
    <3>a. /\ call'[c].records = NoRecords
          /\ \A d \in Call \ {c} : call[d] = Idle => call'[d] = Idle
          /\ \A d \in Call \ {c} : call[d] # Idle =>
               call'[d].ext = call[d].ext /\ call'[d].records = call[d].records
      <4>1. StartEffect(c, k, e)
        BY <2>1, StartStep
      <4> QED BY <4>1 DEF StartEffect
    <3>2. ASSUME NEW d \in Active' PROVE Shipped(call'[d].ext, call'[d].records)
      <4>1. CASE d = c
        BY <2>a, <3>a, <4>1
      <4>2. CASE d # c
        <5>1. d \in Active /\ call'[d].ext = call[d].ext /\ call'[d].records = call[d].records
          BY <3>a, <4>2 DEF Active
        <5> QED BY <5>1 DEF RecordInv
      <4> QED BY <4>1, <4>2
    <3> QED BY <3>1, <3>2 DEF RecordInv
  <2>2. ASSUME NEW c \in Call, Moves(c) PROVE RecordInv'
    <3> DEFINE e == call[c].ext
    <3>1. call[c] # Idle /\ Own(c) /\ e \in Extension
      BY <2>2, OwnStep, CallFields
    <3>2. Shipped(e, records'[e])
      <4>1. CASE InstallWrites(c)
        <5>1. CASE e \in sources
          <6>1. records'[e] = [x \in Imports[e] |-> Record(x, call[c].kind, e)]
            BY <3>1, <4>1, <5>1 DEF InstallWrites, TypeInv, TypeOK
          <6> QED BY <6>1, ShippedByInstall
        <5>2. CASE e \notin sources
          BY <3>1, <4>1, <5>2 DEF InstallWrites, database, RecordInv
        <5> QED BY <5>1, <5>2
      <4>2. CASE UninstallWrites(c)
        BY <2>a, <3>1, <4>2 DEF UninstallWrites, TypeInv, TypeOK
      <4>3. CASE ~ InstallWrites(c) /\ ~ UninstallWrites(c)
        <5>1. UNCHANGED records
          BY <2>2, <4>3
             DEF Moves, ReadRow, CheckDependencies, DropTables, CopyFiles, CreateTables, CleansUp,
                 DropsAgain, CheckDependents, RemoveFiles, SetEnabled, DeleteSources, Raises,
                 Vanishes, database
        <5> QED BY <3>1, <5>1 DEF RecordInv
      <4> QED BY <4>1, <4>2, <4>3
    <3>3. \A f \in Extension : Shipped(f, records'[f])
      BY <3>1, <3>2 DEF Own, RecordInv
    <3>4. call'[c] # Idle => Shipped(e, call'[c].records)
      <4>1. CASE ReadRow(c)
        <5> DEFINE place == IF call[c].kind = "reactivate" THEN "write"
                            ELSE IF call[c].kind = "delete" THEN "remove" ELSE "check"
        <5>1. CASE call' = [call EXCEPT ![c].at = place, ![c].existing = row[e],
                                        ![c].records = records[e]]
          <6>1. call'[c].records = records[e]
            <7> HIDE DEF place, e
            <7> QED BY <5>1, <3>1, CallFields DEF TypeInv, TypeOK
          <6> QED BY <3>1, <6>1 DEF RecordInv
        <5>2. CASE Ends(c)
          BY <5>2, CallEnds
        <5> QED BY <4>1, <5>1, <5>2 DEF ReadRow, Refuses
      <4>2. CASE ~ ReadRow(c)
        <5>1. Ends(c) \/ \E place \in Places : Goes(c, place)
          BY <2>2, <4>2
             DEF Moves, CheckDependencies, DropTables, CopyFiles, CreateTables, InstallWrites,
                 Completes, CleansUp, DropsAgain, CheckDependents, UninstallWrites, RemoveFiles,
                 SetEnabled, DeleteSources, Raises, Vanishes, Refuses, Places
        <5>2. call'[c] = Idle \/ call'[c].records = call[c].records
          BY <3>1, <5>1, CallEnds, CallGoes
        <5> QED BY <3>1, <5>2 DEF RecordInv, Active
      <4> QED BY <4>1, <4>2
    <3>5. \A d \in Active' : Shipped(call'[d].ext, call'[d].records)
      BY <3>1, <3>4 DEF Own, RecordInv, Active
    <3> QED BY <3>3, <3>5 DEF RecordInv
  <2>3. ASSUME NEW x \in Entity, UserEdits(x) PROVE RecordInv'
    BY <2>3 DEF UserEdits, RecordInv, Active
  <2>4. CASE UNCHANGED vars
    BY <2>4 DEF vars, RecordInv, Active
  <2> QED BY <2>1, <2>2, <2>3, <2>4 DEF Next, Step, Moves
<1> QED BY <1>1, <1>2, ManagerTypeInv, PTL DEF Spec

(* A call that neither purges nor overwrites changes no entity but one     *)
(* that its extension has shipped, or that is not there.                   *)
THEOREM ManagerOthersWorkKept == Spec => OthersWorkKept
<1> DEFINE Kept ==
      \A c \in Call :
        call[c] # Idle /\ call'[c] # call[c] /\ call[c].kind \notin {"purge", "overwrite"} =>
          \A x \in Entity : content'[x] # content[x] => content[x] \in {"none", call[c].ext}
<1>1. TypeInv /\ RecordInv /\ [Next]_vars => [Kept]_vars
  <2> SUFFICES ASSUME TypeInv, RecordInv, Next,
                      NEW c \in Call, call[c] # Idle, call'[c] # call[c],
                      call[c].kind \notin {"purge", "overwrite"},
                      NEW x \in Entity, content'[x] # content[x]
               PROVE  content[x] \in {"none", call[c].ext}
    OBVIOUS
  <2>1. CASE \E d \in Call, k \in Kinds, e \in Extension : Start(d, k, e)
    <3>1. PICK d \in Call, k \in Kinds, e \in Extension : Start(d, k, e)
      BY <2>1
    <3>2. StartEffect(d, k, e)
      BY <3>1, StartStep
    <3> QED BY <3>2 DEF StartEffect, database
  <2>2. ASSUME NEW d \in Call, Moves(d) PROVE content[x] \in {"none", call[c].ext}
    <3>1. d = c
      BY <2>2, OwnStep DEF Own
    <3>2. CASE InstallWrites(c)
      <4>1. content'[x] = content[x] \/ content'[x] = Record(x, call[c].kind, call[c].ext).digest
        BY <3>2 DEF InstallWrites, database
      <4>2. call[c].kind = "install"
        BY <3>2 DEF InstallWrites, Installs
      <4> QED BY <4>1, <4>2 DEF Record
    <3>3. CASE UninstallWrites(c)
      <4>1. x \in DOMAIN call[c].records /\ Deletes(c, x)
        BY <3>3 DEF UninstallWrites
      <4>2. call[c].kind = "keep"
        BY <3>3 DEF UninstallWrites
      <4> QED BY <4>1, <4>2 DEF Deletes, RecordInv, Shipped, Active
    <3>4. CASE ~ InstallWrites(c) /\ ~ UninstallWrites(c)
      BY <2>2, <3>1, <3>4
         DEF Moves, ReadRow, CheckDependencies, DropTables, CopyFiles, CreateTables, CleansUp,
             DropsAgain, CheckDependents, RemoveFiles, SetEnabled, DeleteSources, Raises,
             Vanishes, database
    <3> QED BY <3>2, <3>3, <3>4
  <2>3. CASE \E y \in Entity : UserEdits(y)
    BY <2>3 DEF UserEdits
  <2> QED BY <2>1, <2>2, <2>3 DEF Next, Step, Moves
<1>2. OthersWorkKept <=> [][Kept]_vars
  BY DEF OthersWorkKept
<1> QED BY <1>1, <1>2, ManagerTypeInv, ManagerRecordInv, PTL DEF Spec

-----------------------------------------------------------------------------
(* Dependencies.                                                           *)

(* A step changes the row of its extension only where install() and        *)
(* uninstall() write, or to put the extension to use again.                *)
LEMMA RowStep ==
  ASSUME TypeInv, NEW c \in Call, Moves(c)
  PROVE  LET e == call[c].ext
         IN \/ row'[e] = row[e]
            \/ /\ call[c].at = "write" /\ call[c].kind \in Installs
               /\ row'[e] = "enabled"
            \/ call[c].at = "write" /\ call[c].kind \in Uninstalls
            \/ row[e] # "absent" /\ row'[e] = "enabled"
<1> DEFINE e == call[c].ext
<1>1. call[c] # Idle /\ e \in Extension /\ row \in [Extension -> {"absent", "enabled", "disabled"}]
  BY OwnStep, CallFields DEF TypeInv, TypeOK
<1>2. CASE InstallWrites(c)
  BY <1>1, <1>2 DEF InstallWrites, At, database
<1>3. CASE UninstallWrites(c)
  BY <1>3 DEF UninstallWrites, At, Uninstalls
<1>4. CASE SetEnabled(c)
  BY <1>1, <1>4 DEF SetEnabled, At, Uninstalls
<1>5. CASE ~ InstallWrites(c) /\ ~ UninstallWrites(c) /\ ~ SetEnabled(c)
  BY <1>5
     DEF Moves, ReadRow, CheckDependencies, DropTables, CopyFiles, CreateTables, CleansUp,
         DropsAgain, CheckDependents, RemoveFiles, DeleteSources, Raises, Vanishes, database
<1> QED BY <1>2, <1>3, <1>4, <1>5

(* An extension is vouched for again when a call has installed it, or has  *)
(* uninstalled it.                                                         *)
LEMMA VouchStep ==
  ASSUME TypeInv, NEW c \in Call, Moves(c)
  PROVE  \/ raced' = raced /\ torn \subseteq torn'
         \/ InstallWrites(c) /\ call[c].ext \in sources
         \/ RemoveFiles(c)
<1>1. CASE InstallWrites(c)
  BY <1>1 DEF InstallWrites, history
<1>2. CASE ~ InstallWrites(c) /\ ~ RemoveFiles(c)
  BY <1>2
     DEF Moves, ReadRow, CheckDependencies, DropTables, CopyFiles, CreateTables, CleansUp,
         DropsAgain, CheckDependents, UninstallWrites, SetEnabled, DeleteSources, Raises, Vanishes,
         Refuses, history
<1> QED BY <1>1, <1>2

(* Whether a call that goes on may rely on its checks, once it is past     *)
(* them.                                                                   *)
LEMMA ChecksHold ==
  ASSUME TypeInv, CheckedInv, NEW c \in Call, Moves(c), call'[c] # Idle
  PROVE  LET e == call[c].ext
         IN /\ /\ call[c].kind \in Installs
               /\ call'[c].at \in {"drop", "copy", "create", "write"}
               /\ e \notin raced \/ ~ call[c].disturbed
               => \A d \in Needs[e] : row'[d] = "enabled"
            /\ call[c].kind \in Uninstalls /\ call'[c].at = "write" =>
                 \A f \in Extension : e \in Needs[f] /\ row'[f] # "absent" => f \in raced
            /\ call'[c].at = "remove" /\ call[c].kind # "delete" => row'[e] = "absent"
<1> DEFINE e == call[c].ext
           Good == /\ /\ call[c].kind \in Installs
                      /\ call'[c].at \in {"drop", "copy", "create", "write"}
                      /\ e \notin raced \/ ~ call[c].disturbed
                      => \A d \in Needs[e] : row'[d] = "enabled"
                   /\ call[c].kind \in Uninstalls /\ call'[c].at = "write" =>
                        \A f \in Extension : e \in Needs[f] /\ row'[f] # "absent" => f \in raced
                   /\ call'[c].at = "remove" /\ call[c].kind # "delete" => row'[e] = "absent"
<1>1. call[c] # Idle /\ e \in Extension /\ Needs \in [Extension -> SUBSET Extension]
  BY OwnStep, CallFields, ExtensionAssumption
<1>2. /\ call[c].kind \in Installs /\ call[c].at \in {"drop", "copy", "create", "write"}
      /\ e \notin raced \/ ~ call[c].disturbed
      => \A d \in Needs[e] : row[d] = "enabled"
  BY <1>1 DEF CheckedInv, Active
<1>3. Ends(c) => FALSE
  BY CallEnds
<1>4. ASSUME NEW place \in Places, Goes(c, place) PROVE call'[c].at = place
  BY <1>1, <1>4, CallGoes
<1>5. CASE ReadRow(c)
  <2> DEFINE place == IF call[c].kind = "reactivate" THEN "write"
                      ELSE IF call[c].kind = "delete" THEN "remove" ELSE "check"
  <2>1. call' = [call EXCEPT ![c].at = place, ![c].existing = row[e], ![c].records = records[e]]
    BY <1>3, <1>5 DEF ReadRow, Refuses
  <2>2. call'[c].at = place
    <3> HIDE DEF place, e
    <3> QED BY <1>1, <2>1, CallFields DEF TypeInv, TypeOK
  <2> QED BY <2>2 DEF Installs, Uninstalls
<1>6. CASE CheckDependencies(c)
  <2>1. /\ \A d \in Needs[e] : row[d] = "enabled"
        /\ Goes(c, "copy") \/ Goes(c, "drop")
        /\ UNCHANGED row
    BY <1>3, <1>6 DEF CheckDependencies, Refuses, database
  <2>2. call'[c].at \in {"copy", "drop"}
    BY <1>4, <2>1 DEF Places
  <2> QED BY <2>1, <2>2
<1>7. CASE DropTables(c) \/ CopyFiles(c) \/ CreateTables(c)
  <2>1. /\ call[c].at \in {"drop", "copy", "create"}
        /\ Goes(c, "copy") \/ Goes(c, "create") \/ Goes(c, "cleanup") \/ Goes(c, "write")
        /\ UNCHANGED row
    BY <1>7 DEF DropTables, CopyFiles, CreateTables, At, database
  <2>2. call'[c].at \in {"copy", "create", "cleanup", "write"}
    BY <1>4, <2>1 DEF Places
  <2>3. call[c].kind \in Installs
    BY <1>1, <2>1, CallFields DEF Consistent
  <2> QED BY <1>2, <2>1, <2>2, <2>3 DEF Installs, Uninstalls
<1>8. CASE InstallWrites(c) \/ CleansUp(c) \/ Raises(c)
  <2>1. Goes(c, "cleanup") \/ Goes(c, "undrop")
    BY <1>3, <1>8 DEF InstallWrites, CleansUp, Raises, Completes
  <2>2. call'[c].at \in {"cleanup", "undrop"}
    BY <1>4, <2>1 DEF Places
  <2> QED BY <2>2
<1>9. CASE CheckDependents(c)
  <2>1. /\ call[c].kind \in Uninstalls /\ Goes(c, "write") /\ UNCHANGED row
        /\ \A f \in Extension : row[f] # "absent" => e \notin Needs[f]
    BY <1>3, <1>9 DEF CheckDependents, Refuses, database
  <2>2. call'[c].at = "write"
    BY <1>4, <2>1 DEF Places
  <2> QED BY <2>1, <2>2 DEF Installs, Uninstalls
<1>10. CASE UninstallWrites(c)
  <2>1. Goes(c, "remove") /\ row'[e] = "absent"
    BY <1>1, <1>10 DEF UninstallWrites, TypeInv, TypeOK
  <2>2. call'[c].at = "remove"
    BY <1>4, <2>1 DEF Places
  <2> QED BY <2>1, <2>2
<1>11. CASE DropsAgain(c) \/ RemoveFiles(c) \/ SetEnabled(c) \/ DeleteSources(c) \/ Vanishes(c)
  BY <1>3, <1>11
     DEF DropsAgain, RemoveFiles, SetEnabled, DeleteSources, Vanishes, Refuses, Completes
<1> QED BY <1>5, <1>6, <1>7, <1>8, <1>9, <1>10, <1>11 DEF Moves

LEMMA ManagerDependencyInv == Spec => []DependencyInv
<1>1. Init => DependencyInv
  BY DEF Init, DependencyInv, CheckedInv, DependenciesEnabled, Active
<1>2. TypeInv /\ OverlapInv /\ DependencyInv /\ [Next]_vars => DependencyInv'
  <2> SUFFICES ASSUME TypeInv, OverlapInv, DependencyInv, [Next]_vars PROVE DependencyInv'
    OBVIOUS
  <2> DEFINE Checked(a) ==
        LET e == call'[a].ext
        IN /\ /\ call'[a].kind \in Installs
              /\ call'[a].at \in {"drop", "copy", "create", "write"}
              /\ e \notin raced' \/ ~ call'[a].disturbed
              => \A d \in Needs[e] : row'[d] = "enabled"
           /\ call'[a].kind \in Uninstalls /\ call'[a].at = "write" =>
                \A f \in Extension : e \in Needs[f] /\ row'[f] # "absent" => f \in raced'
           /\ call'[a].at = "remove" /\ call'[a].kind # "delete" /\ ~ call'[a].disturbed =>
                row'[e] = "absent"
  <2>0. (\A a \in Active' : Checked(a)) /\ DependenciesEnabled' => DependencyInv'
    BY DEF DependencyInv, CheckedInv
  <2>1. ASSUME NEW c \in Call, NEW k \in Kinds, NEW e \in Extension, Start(c, k, e)
        PROVE  DependencyInv'
    <3>a. /\ call'[c].at = "read"
          /\ \A a \in Call \ {c} : call[a] = Idle => call'[a] = Idle
          /\ \A a \in Call \ {c} : call[a] # Idle =>
               /\ call'[a].at = call[a].at /\ call'[a].kind = call[a].kind
               /\ call'[a].ext = call[a].ext
               /\ call'[a].disturbed = (call[a].disturbed \/ Related(e, call[a].ext))
          /\ raced \subseteq raced' /\ UNCHANGED row
      <4>1. StartEffect(c, k, e)
        BY <2>1, StartStep
      <4> QED BY <4>1 DEF StartEffect, database
    <3>1. ASSUME NEW a \in Active', a # c PROVE Checked(a)
      <4>1. /\ a \in Active /\ call'[a].at = call[a].at /\ call'[a].kind = call[a].kind
            /\ call'[a].ext = call[a].ext
            /\ call[a].disturbed => call'[a].disturbed
        BY <3>1, <3>a DEF Active
      <4>2. LET x == call[a].ext
            IN /\ /\ call[a].kind \in Installs
                  /\ call[a].at \in {"drop", "copy", "create", "write"}
                  /\ x \notin raced \/ ~ call[a].disturbed
                  => \A d \in Needs[x] : row[d] = "enabled"
               /\ call[a].kind \in Uninstalls /\ call[a].at = "write" =>
                    \A f \in Extension : x \in Needs[f] /\ row[f] # "absent" => f \in raced
               /\ call[a].at = "remove" /\ call[a].kind # "delete" /\ ~ call[a].disturbed =>
                    row[x] = "absent"
        BY <4>1 DEF DependencyInv, CheckedInv
      <4>3. raced \subseteq raced' /\ row' = row
        BY <3>a
      <4> QED BY <4>1, <4>2, <4>3
    <3>2. Checked(c)
      BY <3>a
    <3>3. DependenciesEnabled'
      BY <3>a DEF DependencyInv, DependenciesEnabled
    <3> HIDE DEF Checked
    <3> QED BY <2>0, <3>1, <3>2, <3>3
  <2>2. ASSUME NEW c \in Call, Moves(c) PROVE DependencyInv'
    <3> DEFINE e == call[c].ext
    <3>1. /\ call[c] # Idle /\ Own(c) /\ e \in Extension
          /\ \A f \in Extension : Needs[f] \subseteq Extension /\ f \notin Needs[f]
      BY <2>2, OwnStep, CallFields, ExtensionAssumption
    <3>2. ASSUME NEW a \in Active', a # c PROVE Checked(a)
      <4>1. a \in Active /\ call'[a] = call[a] /\ call[a].ext \in Extension
        BY <3>1, <3>2, CallFields DEF Own, Active
      <4>2. Related(call[a].ext, e) =>
              /\ raced' = raced /\ call[a].disturbed
              /\ e \in Needs[call[a].ext] => call[a].ext \in raced
              /\ call[a].ext \in Needs[e] => e \in raced
        BY <3>1, <3>2, <4>1 DEF OverlapInv, Related, Own, Active
      <4>3. call[a].ext \in raced' <=> call[a].ext \in raced
        <5>1. call[a].ext = e => raced' = raced
          BY <4>2 DEF Related
        <5> QED BY <3>1, <4>1, <5>1 DEF Own
      <4>4. ASSUME call[a].kind \in Installs,
                   call[a].at \in {"drop", "copy", "create", "write"},
                   call[a].ext \notin raced \/ ~ call[a].disturbed
            PROVE  \A d \in Needs[call[a].ext] : row'[d] = "enabled"
        <5>1. \A d \in Needs[call[a].ext] : row[d] = "enabled"
          BY <4>1, <4>4 DEF DependencyInv, CheckedInv
        <5>2. e \notin Needs[call[a].ext]
          BY <4>2, <4>4 DEF Related
        <5> QED BY <3>1, <4>1, <5>1, <5>2 DEF Own
      <4>5. ASSUME call[a].kind \in Uninstalls, call[a].at = "write",
                   NEW f \in Extension, call[a].ext \in Needs[f], row'[f] # "absent"
            PROVE  f \in raced'
        <5>1. row[f] # "absent" => f \in raced
          BY <4>1, <4>5 DEF DependencyInv, CheckedInv
        <5>2. CASE f = e
          BY <4>2, <4>5, <5>2 DEF Related
        <5>3. CASE f # e
          BY <3>1, <4>5, <5>1, <5>3 DEF Own
        <5> QED BY <5>2, <5>3
      <4>6. ASSUME call[a].at = "remove", call[a].kind # "delete", ~ call[a].disturbed
            PROVE  row'[call[a].ext] = "absent"
        <5>1. row[call[a].ext] = "absent"
          BY <4>1, <4>6 DEF DependencyInv, CheckedInv
        <5>2. call[a].ext # e
          BY <4>2, <4>6 DEF Related
        <5> QED BY <3>1, <4>1, <5>1, <5>2 DEF Own
      <4> QED BY <4>1, <4>3, <4>4, <4>5, <4>6
    <3>3. ASSUME call'[c] # Idle PROVE Checked(c)
      <4>1. /\ call'[c].ext = e /\ call'[c].kind = call[c].kind
            /\ call'[c].disturbed = call[c].disturbed /\ raced' = raced
        BY <3>1, <3>3 DEF Own
      <4>2. LET x == call[c].ext
            IN /\ /\ call[c].kind \in Installs
                  /\ call'[c].at \in {"drop", "copy", "create", "write"}
                  /\ x \notin raced \/ ~ call[c].disturbed
                  => \A d \in Needs[x] : row'[d] = "enabled"
               /\ call[c].kind \in Uninstalls /\ call'[c].at = "write" =>
                    \A f \in Extension : x \in Needs[f] /\ row'[f] # "absent" => f \in raced
               /\ call'[c].at = "remove" /\ call[c].kind # "delete" => row'[x] = "absent"
        BY <2>2, <3>3, ChecksHold DEF DependencyInv
      <4> QED BY <4>1, <4>2
    <3>4. ASSUME NEW f \in Extension, row'[f] # "absent", f \notin raced', NEW d \in Needs[f]
          PROVE  row'[d] = "enabled"
      <4>1. row[f] # "absent" /\ f \notin raced => row[d] = "enabled"
        BY DEF DependencyInv, DependenciesEnabled
      <4>2. /\ d \in Extension /\ d # f
        BY <3>1
      <4>3. CASE f # e
        <5>1. row[d] = "enabled"
          BY <3>1, <3>4, <4>1, <4>3 DEF Own
        <5>2. ~ (call[c].at = "write" /\ call[c].kind \in Uninstalls /\ d = e)
          <6>1. row[f] # "absent" /\ f \notin raced
            BY <3>1, <3>4, <4>3 DEF Own
          <6> QED BY <3>1, <6>1 DEF DependencyInv, CheckedInv, Active
        <5>3. CASE d = e
          BY <2>2, <5>1, <5>2, <5>3, RowStep
        <5>4. CASE d # e
          BY <3>1, <4>2, <5>1, <5>4 DEF Own
        <5> QED BY <5>3, <5>4
      <4>4. CASE f = e
        <5>1. row'[d] = row[d]
          BY <3>1, <4>2, <4>4 DEF Own
        <5>2. f \notin raced \/ ~ call[c].disturbed
          BY <3>1, <3>4 DEF Own
        <5>3. call[c].at = "write" /\ call[c].kind \in Installs => row[d] = "enabled"
          BY <3>1, <4>4, <5>2 DEF DependencyInv, CheckedInv, Active
        <5>4. CASE row[f] = "absent"
          <6>1. ~ (call[c].at = "write" /\ call[c].kind \in Uninstalls)
            BY <2>2, <3>1, <3>4, <4>4, <5>4, SMTT(30)
               DEF Moves, ReadRow, CheckDependencies, DropTables, CopyFiles, CreateTables,
                   InstallWrites, CleansUp, DropsAgain, CheckDependents, UninstallWrites,
                   RemoveFiles, SetEnabled, DeleteSources, Raises, Vanishes, At, database,
                   Installs, Uninstalls, TypeInv, TypeOK
          <6> QED BY <2>2, <3>4, <4>4, <5>1, <5>3, <5>4, <6>1, RowStep
        <5>5. CASE row[f] # "absent" /\ f \in raced
          <6>1. raced' # raced
            BY <3>4, <5>5
          <6>2. InstallWrites(c) \/ RemoveFiles(c)
            BY <2>2, <6>1, VouchStep
          <6>3. CASE InstallWrites(c)
            BY <5>1, <5>3, <6>3 DEF InstallWrites, At
          <6>4. CASE RemoveFiles(c)
            <7>1. row[e] = "absent"
              BY <3>1, <4>4, <5>2, <5>5, <6>4
                 DEF RemoveFiles, At, Uninstalls, DependencyInv, CheckedInv, Active
            <7> QED BY <4>4, <5>5, <7>1
          <6> QED BY <6>2, <6>3, <6>4
        <5> QED BY <4>1, <5>1, <5>4, <5>5
      <4> QED BY <4>3, <4>4
    <3>5. DependenciesEnabled'
      BY <3>4 DEF DependenciesEnabled
    <3>6. \A a \in Active' : Checked(a)
      <4> HIDE DEF Checked
      <4> QED BY <3>2, <3>3 DEF Active
    <3> QED BY <2>0, <3>5, <3>6
  <2>3. ASSUME NEW x \in Entity, UserEdits(x) PROVE DependencyInv'
    BY <2>3 DEF UserEdits, DependencyInv, CheckedInv, DependenciesEnabled, Active, history
  <2>4. CASE UNCHANGED vars
    BY <2>4 DEF vars, DependencyInv, CheckedInv, DependenciesEnabled, Active
  <2> QED BY <2>1, <2>2, <2>3, <2>4 DEF Next, Step, Moves
<1> QED BY <1>1, <1>2, ManagerTypeInv, ManagerOverlapInv, PTL DEF Spec

(* What an installed extension needs is installed and in use, unless calls *)
(* to the two overlapped.                                                  *)
THEOREM ManagerDependenciesEnabled == Spec => []DependenciesEnabled
<1>1. DependencyInv => DependenciesEnabled
  BY DEF DependencyInv
<1> QED BY <1>1, ManagerDependencyInv, PTL

-----------------------------------------------------------------------------
(* Rows, files and tables.                                                 *)

(* A step of a call that is vouched for leaves its extension in order, if  *)
(* it ends the call, or where the call then stands.                        *)
LEMMA PlacesHold ==
  ASSUME TypeInv, CheckedInv, PlaceInv, NEW c \in Call, NEW e, e = call[c].ext, Moves(c)
  PROVE  /\ call'[c] = Idle /\ e \notin torn' => Agree(e)'
         /\ call'[c] # Idle /\ e \notin torn' => Vouched(c)'
         /\ call'[c] # Idle /\ (e \notin torn' \/ ~ call[c].disturbed) => Placed(c)'
<1> DEFINE Ordered == call'[c] = Idle /\ e \notin torn' => Agree(e)'
           Vouches == call'[c] # Idle /\ e \notin torn' => Vouched(c)'
           Placing == call'[c] # Idle /\ (e \notin torn' \/ ~ call[c].disturbed) => Placed(c)'
           Good == Ordered /\ Vouches /\ Placing
<1> SUFFICES Good
  OBVIOUS
<1>1. /\ call[c] # Idle /\ Own(c) /\ e \in Extension /\ call[c].kind \in Kinds
      /\ Consistent(call[c]) /\ call[c].existing \in {"absent", "enabled", "disabled"}
  BY OwnStep, CallFields
<1>2. /\ e \notin torn => Vouched(c)
      /\ e \notin torn \/ ~ call[c].disturbed => Placed(c)
      /\ call[c].at = "remove" /\ call[c].kind # "delete" /\ ~ call[c].disturbed =>
           row[e] = "absent"
  BY <1>1 DEF PlaceInv, CheckedInv, Active
<1>3. call'[c] # Idle => call'[c].ext = e /\ call'[c].kind = call[c].kind /\ torn \subseteq torn'
  BY <1>1 DEF Own
<1>4. ASSUME NEW place \in Places, Goes(c, place)
      PROVE  call'[c] # Idle /\ call'[c].at = place /\ call'[c].existing = call[c].existing
  BY <1>1, <1>4, CallGoes
<1>5. ASSUME Ends(c), e \notin torn' => Agree(e)' PROVE Good
  BY <1>5, CallEnds
<1>6. CASE ReadRow(c)
  <2> DEFINE k == call[c].kind
             place == IF k = "reactivate" THEN "write" ELSE IF k = "delete" THEN "remove"
                      ELSE "check"
  <2>1. UNCHANGED <<row, files, tables, torn>> /\ call[c].at = "read"
    BY <1>6 DEF ReadRow, Refuses, database, disk, history, At
  <2>2. CASE Ends(c)
    <3>1. e \notin torn' => Agree(e)'
      BY <1>2, <2>1 DEF Vouched, Agree
    <3> QED BY <1>5, <2>2, <3>1
  <2>3. CASE /\ call' = [call EXCEPT ![c].at = place, ![c].existing = row[e],
                                      ![c].records = records[e]]
             /\ k \in {"install", "delete"} => row[e] = "absent"
    <3>1. call'[c].at = place /\ call'[c].existing = row[e]
      <4> HIDE DEF place
      <4> QED BY <1>1, <2>3, CallFields DEF TypeInv, TypeOK
    <3>2. Vouches
      BY <1>2, <1>3, <2>1, <2>3, <3>1 DEF Vouched, Agree, Installs
    <3>3. Placing
      BY <1>3, <3>1 DEF Placed, Installs
    <3>4. call'[c] # Idle
      BY <3>1 DEF Idle
    <3> HIDE DEF Vouches, Placing
    <3> QED BY <3>2, <3>3, <3>4
  <2> QED BY <1>6, <2>2, <2>3 DEF ReadRow, Refuses
<1>7. CASE CheckDependencies(c)
  <2> DEFINE place == IF call[c].existing = "absent" THEN "copy" ELSE "drop"
  <2>1. UNCHANGED <<row, files, tables, torn>> /\ call[c].at = "check"
    BY <1>7 DEF CheckDependencies, Refuses, database, disk, history, At
  <2>2. CASE Ends(c)
    <3>1. e \notin torn' => Agree(e)'
      BY <1>2, <2>1 DEF Vouched, Agree
    <3> QED BY <1>5, <2>2, <3>1
  <2>3. CASE Goes(c, place)
    <3>1. call'[c] # Idle /\ call'[c].at = place /\ call'[c].existing = call[c].existing
      BY <1>4, <2>3 DEF Places
    <3>2. Vouches
      BY <1>2, <1>3, <2>1, <3>1 DEF Vouched, Agree
    <3> QED BY <1>3, <3>1, <3>2 DEF Placed
  <2> QED BY <1>7, <2>2, <2>3 DEF CheckDependencies, Refuses
<1>8. CASE DropTables(c)
  <2>1. UNCHANGED <<row, files, torn>> /\ call[c].at = "drop" /\ Goes(c, "copy")
    BY <1>8 DEF DropTables, database, history, At
  <2>2. call'[c] # Idle /\ call'[c].at = "copy" /\ call'[c].existing = call[c].existing
    BY <1>4, <2>1 DEF Places
  <2>3. call[c].existing # "absent"
    BY <1>1, <2>1 DEF Consistent
  <2> QED BY <1>2, <1>3, <2>1, <2>2, <2>3 DEF Vouched, Placed
<1>9. CASE CopyFiles(c)
  <2>1. /\ UNCHANGED <<row, torn>> /\ call[c].at = "copy" /\ call[c].kind \in Installs
        /\ (Goes(c, "create") /\ e \in files') \/ Goes(c, "cleanup")
    BY <1>1, <1>9 DEF CopyFiles, database, history, At, Consistent
  <2>2. /\ call'[c] # Idle /\ call'[c].existing = call[c].existing
        /\ (call'[c].at = "create" /\ e \in files') \/ call'[c].at = "cleanup"
    BY <1>4, <2>1 DEF Places
  <2> QED BY <1>2, <1>3, <2>1, <2>2 DEF Vouched, Placed
<1>10. CASE CreateTables(c)
  <2>1. /\ UNCHANGED <<row, files, torn>> /\ call[c].at = "create" /\ call[c].kind \in Installs
        /\ Goes(c, "write") /\ e \in tables'
    BY <1>1, <1>10 DEF CreateTables, database, history, At, Consistent
  <2>2. call'[c] # Idle /\ call'[c].at = "write" /\ call'[c].existing = call[c].existing
    BY <1>4, <2>1 DEF Places
  <2> QED BY <1>2, <1>3, <2>1, <2>2 DEF Vouched, Placed
<1>11. CASE InstallWrites(c)
  <2>1. UNCHANGED <<files, tables>> /\ call[c].at = "write" /\ call[c].kind \in Installs
    BY <1>11 DEF InstallWrites, disk, At
  <2>2. CASE e \in sources
    <3>1. /\ row' = [row EXCEPT ![e] = "enabled"] /\ Ends(c)
          /\ torn' = IF call[c].disturbed THEN torn ELSE torn \ {e}
      BY <1>11, <2>2 DEF InstallWrites, Completes
    <3>2. row'[e] = "enabled"
      BY <1>1, <3>1 DEF TypeInv, TypeOK
    <3>3. e \notin torn' => e \in files /\ e \in tables
      BY <1>2, <2>1, <3>1 DEF Placed
    <3>4. e \notin torn' => Agree(e)'
      BY <2>1, <3>2, <3>3 DEF Agree
    <3> QED BY <1>5, <3>1, <3>4
  <2>3. CASE e \notin sources
    <3>1. UNCHANGED <<row, torn>> /\ Goes(c, "cleanup")
      BY <1>11, <2>3 DEF InstallWrites, database, history
    <3>2. call'[c] # Idle /\ call'[c].at = "cleanup" /\ call'[c].existing = call[c].existing
      BY <1>4, <3>1 DEF Places
    <3> QED BY <1>2, <1>3, <2>1, <3>1, <3>2 DEF Vouched, Placed
  <2> QED BY <2>2, <2>3
<1>12. CASE CleansUp(c)
  <2>1. /\ UNCHANGED <<row, tables>> /\ call[c].at = "cleanup" /\ Goes(c, "undrop")
        /\ files' = files \ {e}
        /\ torn' = IF call[c].existing = "absent" THEN torn ELSE torn \union {e}
    BY <1>12 DEF CleansUp, database, At
  <2>2. call'[c] # Idle /\ call'[c].at = "undrop" /\ call'[c].existing = call[c].existing
    BY <1>4, <2>1 DEF Places
  <2>3. e \notin torn' => call[c].existing = "absent" /\ row[e] = "absent"
    BY <1>2, <2>1 DEF Vouched
  <2>4. e \notin torn' => Agree(e)'
    BY <2>1, <2>3 DEF Agree
  <2> QED BY <1>3, <2>1, <2>2, <2>3, <2>4 DEF Vouched, Placed, Agree
<1>13. CASE DropsAgain(c)
  <2>1. /\ UNCHANGED <<row, files, torn>> /\ call[c].at = "undrop" /\ Ends(c)
    BY <1>13 DEF DropsAgain, Refuses, database, history, At
  <2>2. e \notin torn' => Agree(e)'
    BY <1>2, <2>1 DEF Vouched, Agree
  <2> QED BY <1>5, <2>1, <2>2
<1>14. CASE CheckDependents(c)
  <2>1. /\ UNCHANGED <<row, files, tables, torn>> /\ call[c].at = "check"
        /\ call[c].kind \notin Installs
    BY <1>14 DEF CheckDependents, Refuses, database, disk, history, At, Uninstalls, Installs
  <2>2. CASE Ends(c)
    <3>1. e \notin torn' => Agree(e)'
      BY <1>2, <2>1 DEF Vouched, Agree
    <3> QED BY <1>5, <2>2, <3>1
  <2>3. CASE Goes(c, "write")
    <3>1. call'[c] # Idle /\ call'[c].at = "write" /\ call'[c].existing = call[c].existing
      BY <1>4, <2>3 DEF Places
    <3> QED BY <1>2, <1>3, <2>1, <3>1 DEF Vouched, Agree, Placed
  <2> QED BY <1>14, <2>2, <2>3 DEF CheckDependents, Refuses
<1>15. CASE UninstallWrites(c)
  <2>1. /\ call[c].kind \in {"purge", "keep"} /\ Goes(c, "remove")
        /\ row' = [row EXCEPT ![e] = "absent"]
    BY <1>15 DEF UninstallWrites
  <2>2. call'[c] # Idle /\ call'[c].at = "remove"
    BY <1>4, <2>1 DEF Places
  <2>3. row'[e] = "absent"
    BY <1>1, <2>1 DEF TypeInv, TypeOK
  <2> QED BY <1>3, <2>1, <2>2, <2>3 DEF Vouched, Placed
<1>16. CASE RemoveFiles(c)
  <2>1. /\ call[c].at = "remove" /\ call[c].kind # "delete" /\ UNCHANGED row
        /\ files' = files \ {e} /\ Ends(c)
        /\ torn' = IF call[c].disturbed THEN torn ELSE torn \ {e}
    BY <1>16 DEF RemoveFiles, Completes, At, Uninstalls, database
  <2>2. e \notin torn' => row[e] = "absent"
    BY <1>2, <2>1 DEF Vouched
  <2>3. e \notin torn' => Agree(e)'
    BY <2>1, <2>2 DEF Agree
  <2> QED BY <1>5, <2>1, <2>3
<1>17. CASE SetEnabled(c)
  <2>1. /\ call[c].at = "write" /\ call[c].kind \notin Installs
        /\ UNCHANGED <<files, tables, torn>> /\ Ends(c)
    BY <1>17 DEF SetEnabled, Refuses, At, Installs, disk, history
  <2>2. row'[e] = "absent" <=> row[e] = "absent"
    BY <1>1, <1>17 DEF SetEnabled, TypeInv, TypeOK
  <2>3. e \notin torn' => Agree(e)'
    BY <1>2, <2>1, <2>2 DEF Vouched, Agree
  <2> QED BY <1>5, <2>1, <2>3
<1>18. CASE DeleteSources(c)
  <2>1. /\ call[c].at = "remove" /\ call[c].kind = "delete"
        /\ UNCHANGED <<row, files, tables, torn>> /\ Ends(c)
    BY <1>18 DEF DeleteSources, Refuses, At, database, history
  <2>2. e \notin torn' => Agree(e)'
    BY <1>2, <2>1 DEF Vouched, Agree
  <2> QED BY <1>5, <2>1, <2>2
<1>19. CASE Raises(c)
  <2>1. UNCHANGED <<row, files, tables>> /\ call[c].at \notin {"cleanup", "remove"}
    BY <1>19 DEF Raises, database, disk
  <2>2. CASE call[c].kind \in Installs /\ call[c].at \in Guarded
    <3>1. Goes(c, "cleanup") /\ UNCHANGED torn
      BY <1>19, <2>2 DEF Raises
    <3>2. call'[c] # Idle /\ call'[c].at = "cleanup" /\ call'[c].existing = call[c].existing
      BY <1>4, <3>1 DEF Places
    <3> QED BY <1>2, <1>3, <2>1, <2>2, <3>1, <3>2 DEF Vouched, Placed, Guarded
  <2>3. CASE ~ (call[c].kind \in Installs /\ call[c].at \in Guarded)
    <3>1. /\ Ends(c)
          /\ torn' = IF call[c].at = "drop" THEN torn \union {e} ELSE torn
      BY <1>19, <2>3 DEF Raises
    <3>2. e \notin torn' =>
            \/ call[c].at \in {"read", "check", "undrop"}
            \/ call[c].at = "write" /\ call[c].kind \notin Installs
      BY <1>1, <2>1, <2>3, <3>1, CallFields DEF Consistent, Guarded, Places
    <3>3. e \notin torn' => Agree(e)'
      BY <1>2, <2>1, <3>1, <3>2 DEF Vouched, Agree
    <3> QED BY <1>5, <3>1, <3>3
  <2> QED BY <2>2, <2>3
<1>20. CASE Vanishes(c)
  <2>1. /\ UNCHANGED <<row, files, tables>> /\ Ends(c)
        /\ torn' = IF HalfDone(c) THEN torn \union {e} ELSE torn
    BY <1>20 DEF Vanishes, database, disk
  <2>2. e \notin torn' =>
          /\ e \notin torn
          /\ \/ call[c].at \in {"read", "check"}
             \/ call[c].at = "copy" /\ call[c].existing = "absent"
             \/ call[c].at = "write" /\ call[c].kind \notin Installs
             \/ call[c].at = "remove" /\ call[c].kind = "delete"
    BY <1>1, <2>1, CallFields DEF HalfDone, Consistent, Places, Uninstalls
  <2>3. e \notin torn' => Agree(e)'
    BY <1>2, <2>1, <2>2 DEF Vouched, Agree
  <2> QED BY <1>5, <2>1, <2>3
<1> QED BY <1>6, <1>7, <1>8, <1>9, <1>10, <1>11, <1>12, <1>13, <1>14, <1>15, <1>16, <1>17, <1>18,
           <1>19, <1>20 DEF Moves

LEMMA ManagerDiskInv == Spec => []DiskInv
<1>1. Init => DiskInv
  BY DEF Init, DiskInv, PlaceInv, RowsMatchDisk, Active
<1>2. TypeInv /\ OverlapInv /\ CheckedInv /\ DiskInv /\ [Next]_vars => DiskInv'
  <2> SUFFICES ASSUME TypeInv, OverlapInv, CheckedInv, DiskInv, [Next]_vars PROVE DiskInv'
    OBVIOUS
  <2> DEFINE Good(a) == /\ call'[a].ext \notin torn' => Vouched(a)'
                        /\ call'[a].ext \notin torn' \/ ~ call'[a].disturbed => Placed(a)'
             Matches(f) == Settled(f)' /\ f \notin torn' => Agree(f)'
  <2>0. ASSUME \A a \in Active' : Good(a), \A f \in Extension : Matches(f) PROVE DiskInv'
    <3>1. PlaceInv'
      BY <2>0 DEF PlaceInv
    <3>2. RowsMatchDisk'
      <4> SUFFICES ASSUME NEW f \in Extension, Settled(f)', f \notin torn'
                   PROVE  /\ row'[f] # "absent" <=> f \in files'
                          /\ row'[f] # "absent" => f \in tables'
        BY DEF RowsMatchDisk
      <4>1. Matches(f)
        BY <2>0
      <4>2. Agree(f)'
        BY <4>1
      <4> QED BY <4>2 DEF Agree
    <3> QED BY <3>1, <3>2 DEF DiskInv
  <2>a. \A f \in Extension : Settled(f) /\ f \notin torn => Agree(f)
    BY DEF DiskInv, RowsMatchDisk, Agree
  <2>1. ASSUME NEW c \in Call, NEW k \in Kinds, NEW e \in Extension, Start(c, k, e)
        PROVE  DiskInv'
    <3>a. /\ call[c] = Idle /\ call'[c] # Idle /\ call'[c].at = "read" /\ call'[c].ext = e
          /\ \A a \in Call \ {c} : call[a] = Idle => call'[a] = Idle
          /\ \A a \in Call \ {c} : call[a] # Idle =>
               /\ call'[a] # Idle
               /\ call'[a].at = call[a].at /\ call'[a].kind = call[a].kind
               /\ call'[a].ext = call[a].ext /\ call'[a].existing = call[a].existing
               /\ call'[a].disturbed = (call[a].disturbed \/ Related(e, call[a].ext))
          /\ torn \subseteq torn' /\ UNCHANGED <<row, files, tables>>
          /\ \A d \in Active : call[d].ext = e => e \in torn'
      <4>1. StartEffect(c, k, e)
        BY <2>1, StartStep
      <4> QED BY <4>1 DEF StartEffect, database, disk
    <3>1. ASSUME NEW a \in Active', a # c PROVE Good(a)
      <4>1. /\ a \in Active /\ call'[a].at = call[a].at /\ call'[a].kind = call[a].kind
            /\ call'[a].ext = call[a].ext /\ call'[a].existing = call[a].existing
            /\ call[a].disturbed => call'[a].disturbed
        BY <3>1, <3>a DEF Active
      <4>2. /\ call[a].ext \notin torn => Vouched(a)
            /\ call[a].ext \notin torn \/ ~ call[a].disturbed => Placed(a)
        BY <4>1 DEF DiskInv, PlaceInv
      <4>3. Vouched(a) => Vouched(a)'
        BY <3>a, <4>1 DEF Vouched, Agree
      <4>4. Placed(a) => Placed(a)'
        BY <3>a, <4>1 DEF Placed
      <4> QED BY <3>a, <4>1, <4>2, <4>3, <4>4
    <3>2. Good(c)
      <4>1. e \notin torn' => Agree(e)
        BY <2>a, <3>a DEF Settled
      <4> QED BY <3>a, <4>1 DEF Vouched, Placed, Agree
    <3>3. ASSUME NEW f \in Extension PROVE Matches(f)
      <4>1. Settled(f)' => Settled(f)
        BY <3>a DEF Settled, Active
      <4>2. Agree(f) => Agree(f)'
        BY <3>a DEF Agree
      <4> QED BY <2>a, <3>a, <4>1, <4>2
    <3> HIDE DEF Good, Matches
    <3> QED BY <2>0, <3>1, <3>2, <3>3
  <2>2. ASSUME NEW c \in Call, Moves(c) PROVE DiskInv'
    <3>0. PICK e \in Extension : e = call[c].ext
      BY <2>2, OwnStep, CallFields
    <3>1. call[c] # Idle /\ Own(c)
      BY <2>2, OwnStep
    <3>2. /\ call'[c] = Idle /\ e \notin torn' => Agree(e)'
          /\ call'[c] # Idle /\ e \notin torn' => Vouched(c)'
          /\ call'[c] # Idle /\ (e \notin torn' \/ ~ call[c].disturbed) => Placed(c)'
      BY <2>2, <3>0, PlacesHold DEF DiskInv
    <3>3. ASSUME NEW a \in Active', a # c PROVE Good(a)
      <4>1. a \in Active /\ call'[a] = call[a] /\ call[a].ext \in Extension
        BY <3>1, <3>3, CallFields DEF Own, Active
      <4>2. CASE call[a].ext = e
        <5>1. call[c].disturbed /\ call[a].disturbed /\ e \in torn
          BY <3>0, <3>1, <3>3, <4>1, <4>2 DEF OverlapInv, Related, Active
        <5>2. e \in torn'
          BY <3>1, <5>1 DEF Own
        <5> QED BY <4>1, <4>2, <5>1, <5>2
      <4>3. CASE call[a].ext # e
        <5>1. LET f == call[a].ext
              IN /\ row'[f] = row[f]
                 /\ f \in files' <=> f \in files
                 /\ f \in tables' <=> f \in tables
                 /\ f \in torn' <=> f \in torn
          BY <3>0, <3>1, <4>1, <4>3 DEF Own
        <5>2. /\ call[a].ext \notin torn => Vouched(a)
              /\ call[a].ext \notin torn \/ ~ call[a].disturbed => Placed(a)
          BY <4>1 DEF DiskInv, PlaceInv
        <5>3. Vouched(a) => Vouched(a)'
          BY <4>1, <5>1 DEF Vouched, Agree
        <5>4. Placed(a) => Placed(a)'
          BY <4>1, <5>1 DEF Placed
        <5> QED BY <4>1, <5>1, <5>2, <5>3, <5>4
      <4> QED BY <4>2, <4>3
    <3>4. ASSUME call'[c] # Idle PROVE Good(c)
      BY <3>0, <3>1, <3>2, <3>4 DEF Own
    <3>5. ASSUME NEW f \in Extension PROVE Matches(f)
      <4>1. CASE f = e
        <5>1. call'[c] # Idle => ~ Settled(f)'
          BY <3>0, <3>1, <4>1 DEF Settled, Active, Own
        <5> QED BY <3>2, <4>1, <5>1
      <4>2. CASE f # e
        <5>1. Settled(f)' => Settled(f)
          BY <3>0, <3>1, <4>2 DEF Settled, Active, Own
        <5>2. /\ f \in torn' <=> f \in torn
              /\ Agree(f) => Agree(f)'
          BY <3>0, <3>1, <4>2 DEF Own, Agree
        <5> QED BY <2>a, <5>1, <5>2
      <4> QED BY <4>1, <4>2
    <3>6. \A a \in Active' : Good(a)
      <4> HIDE DEF Good
      <4> QED BY <3>3, <3>4 DEF Active
    <3> HIDE DEF Good, Matches
    <3> QED BY <2>0, <3>5, <3>6
  <2>3. ASSUME NEW x \in Entity, UserEdits(x) PROVE DiskInv'
    BY <2>3 DEF UserEdits, DiskInv, PlaceInv, RowsMatchDisk, Vouched, Placed, Agree, Settled,
                Active, disk, history
  <2>4. CASE UNCHANGED vars
    BY <2>4 DEF vars, DiskInv, PlaceInv, RowsMatchDisk, Vouched, Placed, Agree, Settled, Active
  <2> QED BY <2>1, <2>2, <2>3, <2>4 DEF Next, Step, Moves
<1>3. DependencyInv => CheckedInv
  BY DEF DependencyInv
<1> QED BY <1>1, <1>2, <1>3, ManagerTypeInv, ManagerOverlapInv, ManagerDependencyInv, PTL DEF Spec

(* When no call is at work on an extension, its row, its files and its     *)
(* tables tell the same story, unless a call broke off half way, failed to *)
(* overwrite, or overlapped another on the same extension.                 *)
THEOREM ManagerRowsMatchDisk == Spec => []RowsMatchDisk
<1>1. DiskInv => RowsMatchDisk
  BY DEF DiskInv
<1> QED BY <1>1, ManagerDiskInv, PTL

=============================================================================
