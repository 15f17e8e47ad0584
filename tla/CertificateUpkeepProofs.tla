----------------------- MODULE CertificateUpkeepProofs -----------------------
(***************************************************************************)
(* The file a certificate names is there, nothing stays behind, and alerts *)
(* follow the expiry, for any number of concurrent requests and jobs, any  *)
(* files and failures.                                                     *)
(***************************************************************************)
EXTENDS CertificateUpkeep, FiniteSetTheorems, TLAPS

Creating == {"check", "store", "insert", "recordTx", "recordEvent"}
Updating == {"load", "set", "populate", "recordUpdate"}
Deleting == {"purge", "deleteRow", "deleteFile"}
Alerting == {"expire", "findAlert", "createAlert", "escalate"}

\* What a request or job has in hand at each of its steps.
InHand(t) ==
  /\ t.request = CASE t.pc \in Creating -> "create" [] t.pc \in Updating -> "update"
                   [] t.pc \in Deleting -> "delete" [] t.pc \in Alerting -> "job"
                   [] OTHER             -> "none"
  /\ t.pc \in Creating => t.path \in Paths
  /\ t.request \in {"none", "delete", "job"} => t.path = NoPath
  /\ t.pc \notin {"set", "populate", "recordUpdate"} \cup Deleting => t.old = NoPath
  /\ t.request = "update" /\ t.path = NoPath => t.old = NoPath
  /\ t.pc = "expire" => t.severity = "critical"
  /\ t.pc \in Alerting => t.severity # "none"
  /\ t.request # "job" => t.severity = "none"
  /\ t.pc = "escalate" => t.severity = "critical"

Equipped == \A a \in Actors : InHand(task[a])

\* An upload that is the request's own: the row does not name it yet.
Fresh(t) == t.pc \in {"check", "store", "insert", "load", "set"} /\ t.path \in Paths

\* Nobody but the request knows its upload.
OwnUploads ==
  \A a \in Actors :
    Fresh(task[a]) =>
      /\ file[task[a].path] \in Contents
      /\ task[a].request = "create" => file[task[a].path] = Original
      /\ row.path # task[a].path
      /\ \A b \in Actors : task[b].old # task[a].path /\ (b # a => task[b].path # task[a].path)

\* What is in use was uploaded: no upload will get its name.
InUse ==
  /\ row.path \in Paths => file[row.path] # "unused"
  /\ \A a \in Actors : \A p \in {task[a].path, task[a].old} : p \in Paths => file[p] # "unused"

\* A file that is about to be deleted is not, or no longer, the row's.
Shed ==
  \A a \in Actors :
    task[a].pc \in {"populate", "deleteFile"} /\ task[a].old \in Paths => row.path # task[a].old

RowNamed == row # NoRow <=> row.path \in Paths

FilesInv ==
  /\ TypeOK
  /\ Equipped
  /\ OwnUploads
  /\ InUse
  /\ Shed
  /\ RowNamed
  /\ FileBehindRow

(***************************************************************************)
(* Nothing left behind.                                                    *)
(***************************************************************************)

\* A document is stored once, and a row is made by the request that stored it.
StoredOnce ==
  /\ ~anchored => row = NoRow /\ \A a \in Actors : ~HasRow(a) /\ task[a].pc # "insert"
  /\ \A a \in Actors : task[a].pc = "insert" =>
       row = NoRow /\ \A b \in Actors : ~HasRow(b) /\ (b # a => task[b].pc # "insert")

\* Nobody else has the row in hand, unless both delete it.
Alone ==
  \A a, b \in Actors :
    a # b /\ HasRow(a) /\ HasRow(b) => task[a].request = "delete" /\ task[b].request = "delete"

\* So what a request has found of the row is so still, and what it has done also.
Found(a) ==
  /\ task[a].pc \in {"recordTx", "recordEvent", "set", "populate", "recordUpdate"} => row # NoRow
  /\ task[a].pc = "set" /\ task[a].path \in Paths => task[a].old = row.path
  /\ task[a].pc \in {"recordTx", "recordEvent", "populate", "recordUpdate"} /\ task[a].path \in Paths
       => row.path = task[a].path
  /\ task[a].pc = "recordUpdate" /\ task[a].old \in Paths => file[task[a].old] = "deleted"
  /\ task[a].pc \in {"purge", "deleteRow"} => row = NoRow \/ row.path = task[a].old
  /\ task[a].pc = "purge" => trail \subseteq task[a].todo
  /\ task[a].pc \in {"deleteRow", "deleteFile"} => trail = {}
  /\ task[a].pc = "deleteFile" => row = NoRow

FoundStands == \A a \in Actors : Found(a)

TidyInv ==
  /\ FilesInv
  /\ StoredOnce
  /\ Spared({"overlap", "unacknowledged", "interrupted"}) => Alone /\ FoundStands
  /\ NothingLeftBehind

(***************************************************************************)
(* Alerts.                                                                 *)
(***************************************************************************)

OneJob == \A a, b \in Actors : JobAt(a) /\ JobAt(b) => a = b
OneOpen == \A i, j \in OpenAlerts : i = j

CriticalAlert == \E i \in DOMAIN alerts : alerts[i].severity = "critical"
CriticalJob == \E a \in Actors : JobAt(a) /\ task[a].severity = "critical"

AlertsInv ==
  /\ TypeOK
  /\ Equipped
  /\ \A a \in Actors : task[a].pc = "escalate" => task[a].alert \in DOMAIN alerts
  /\ row.status = "expired" /\ Spared({"interrupted", "reconciled"}) => CriticalAlert \/ CriticalJob
  /\ Spared({"joined"}) =>
       /\ OneJob
       /\ OneOpen
       /\ \A a \in Actors : task[a].pc = "createAlert" => OpenAlerts = {}

UpkeepInv == TidyInv /\ AlertsInv

-----------------------------------------------------------------------------
(* What is in the hands of one request changes. *)

LEMMA IdleIsTask == Idle \in Task /\ InHand(Idle) /\ ~Fresh(Idle)
BY UpkeepAssumption DEF Idle, Task, Places, InHand, Creating, Updating, Deleting, Alerting, Fresh

\* The fields of a task that has moved on.
LEMMA Moved ==
  ASSUME NEW k \in Task, NEW pc \in Places
  PROVE  LET t == [k EXCEPT !.pc = pc]
         IN /\ t \in Task /\ t.pc = pc /\ t.request = k.request /\ t.path = k.path /\ t.old = k.old
            /\ t.todo = k.todo /\ t.severity = k.severity /\ t.alert = k.alert
BY DEF Task

LEMMA TaskChanged ==
  ASSUME TypeOK, Equipped, NEW a \in Actors, NEW t \in Task, InHand(t),
         task' = [task EXCEPT ![a] = t]
  PROVE  /\ task' \in [Actors -> Task]
         /\ \A b \in Actors : task'[b] = IF b = a THEN t ELSE task[b]
         /\ Equipped'
<1>1. task \in [Actors -> Task]  BY DEF TypeOK
<1>2. \A b \in Actors : task'[b] = IF b = a THEN t ELSE task[b]  BY <1>1
<1>3. task' \in [Actors -> Task]  BY <1>1
<1>4. Equipped'  BY <1>2 DEF Equipped
<1>. QED  BY <1>2, <1>3, <1>4

\* A file that a request deletes: its upload, or what it set out to delete.
Deletes(a, t, q) ==
  /\ q \in Paths
  /\ file' = [file EXCEPT ![q] = "deleted"]
  /\ q \in {task[a].path, task[a].old}
  /\ Fresh(t) => q # t.path
  /\ q # row'.path \/ "unacknowledged" \in mishaps'

\* What a step makes of the row: nothing that matters for its file; no row; or
\* one that names the request's own upload.
RowStep(a, t) ==
  \/ row'.path = row.path /\ row'.hash = row.hash /\ (row' = NoRow <=> row = NoRow)
  \/ row' = NoRow
  \/ /\ row' # NoRow
     /\ Fresh(task[a]) /\ ~Fresh(t)
     /\ row'.path = task[a].path
     /\ row'.hash = file[task[a].path]

\* A step of one request, as far as files are concerned.
LEMMA FilesStep ==
  ASSUME FilesInv, TypeOK', NEW a \in Actors, NEW t \in Task, InHand(t),
         task' = [task EXCEPT ![a] = t],
         t.path \in {task[a].path, NoPath},
         t.old \in {task[a].old, row.path, NoPath},
         Fresh(t) => Fresh(task[a]) /\ t.request = task[a].request,
         RowStep(a, t),
         file' = file \/ \E q \in Paths : Deletes(a, t, q),
         t.pc \in {"populate", "deleteFile"} /\ t.old \in Paths => row'.path # t.old,
         mishaps \subseteq mishaps'
  PROVE  FilesInv'
<1>1. /\ \A b \in Actors : task'[b] = IF b = a THEN t ELSE task[b]
      /\ Equipped'
  BY TaskChanged DEF FilesInv
<1>2. file \in [Paths -> Contents \cup {"unused", "deleted"}] /\ task[a] \in Task /\ NoPath \notin Paths
  BY UpkeepAssumption DEF FilesInv, TypeOK
<1>3. Fresh(t) => t.path = task[a].path  BY <1>2 DEF Fresh
<1>4. \A p \in Paths : file'[p] = file[p] \/ file'[p] = "deleted"
  BY <1>2 DEF Deletes
<1>5. ASSUME NEW b \in Actors, Fresh(task'[b]) PROVE file'[task'[b].path] = file[task'[b].path]
  <2>1. CASE b = a  BY <1>1, <1>2, <1>3, <1>5, <2>1 DEF Deletes, Fresh
  <2>2. CASE b # a
    <3>1. Fresh(task[b]) /\ task'[b] = task[b]  BY <1>1, <1>5, <2>2
    <3>2. task[a].old # task[b].path /\ task[a].path # task[b].path
      BY <2>2, <3>1 DEF FilesInv, OwnUploads
    <3>. QED  BY <1>2, <3>1, <3>2 DEF Deletes, Fresh
  <2>. QED  BY <2>1, <2>2
<1>6. OwnUploads'
  <2>. SUFFICES ASSUME NEW b \in Actors, Fresh(task'[b])
                PROVE  /\ file'[task'[b].path] \in Contents
                       /\ task'[b].request = "create" => file'[task'[b].path] = Original
                       /\ row'.path # task'[b].path
                       /\ \A c \in Actors : /\ task'[c].old # task'[b].path
                                            /\ c # b => task'[c].path # task'[b].path
    BY DEF OwnUploads, Fresh
  <2>1. Fresh(task[b]) /\ task'[b].path = task[b].path /\ task'[b].request = task[b].request
    BY <1>1, <1>3
  <2>2. /\ file[task[b].path] \in Contents
        /\ task[b].request = "create" => file[task[b].path] = Original
        /\ row.path # task[b].path
        /\ \A c \in Actors : task[c].old # task[b].path /\ (c # b => task[c].path # task[b].path)
    BY <2>1 DEF FilesInv, OwnUploads
  <2>3. task[b].path \in Paths  BY <2>1 DEF Fresh
  <2>4. row'.path # task[b].path
    BY <1>1, <1>2, <2>2, <2>3 DEF RowStep, NoRow
  <2>5. ASSUME NEW c \in Actors PROVE task'[c].old # task[b].path /\ (c # b => task'[c].path # task[b].path)
    BY <1>1, <1>2, <2>2, <2>3
  <2>. QED  BY <1>5, <2>1, <2>2, <2>4, <2>5
<1>7. InUse'
  <2>1. ASSUME row'.path \in Paths PROVE file[row'.path] # "unused"
    BY <1>2, <2>1 DEF RowStep, NoRow, FilesInv, InUse
  <2>2. ASSUME NEW b \in Actors, NEW p \in {task'[b].path, task'[b].old}, p \in Paths
        PROVE  file[p] # "unused"
    BY <1>1, <1>2, <2>2 DEF FilesInv, InUse
  <2>. QED  BY <1>4, <2>1, <2>2 DEF InUse
<1>8. Shed'
  <2>. SUFFICES ASSUME NEW b \in Actors, task'[b].pc \in {"populate", "deleteFile"}, task'[b].old \in Paths
                PROVE  row'.path # task'[b].old
    BY DEF Shed
  <2>1. CASE b = a  BY <1>1, <2>1
  <2>2. CASE b # a
    <3>1. task'[b] = task[b]  BY <1>1, <2>2
    <3>2. row.path # task[b].old  BY <3>1 DEF FilesInv, Shed
    <3>3. Fresh(task[a]) => task[a].path # task[b].old  BY DEF FilesInv, OwnUploads
    <3>. QED  BY <1>2, <3>1, <3>2, <3>3 DEF RowStep, NoRow
  <2>. QED  BY <2>1, <2>2
<1>9. RowNamed'
  BY <1>2 DEF RowStep, NoRow, FilesInv, RowNamed, Fresh
<1>10. FileBehindRow'
  <2>. SUFFICES ASSUME row' # NoRow, "unacknowledged" \notin mishaps'
                PROVE  file'[row'.path] = row'.hash
    BY DEF FileBehindRow, Spared
  <2>1. file[row'.path] = row'.hash
    BY DEF RowStep, FilesInv, FileBehindRow, Spared
  <2>2. row'.path \in Paths  BY <1>9 DEF RowNamed
  <2>. QED  BY <1>2, <2>1, <2>2 DEF Deletes
<1>. QED  BY <1>1, <1>6, <1>7, <1>8, <1>9, <1>10 DEF FilesInv

-----------------------------------------------------------------------------
(* The actions, as far as files are concerned. *)

Certificates == [path : Paths \cup {NoPath}, hash : Contents,
                 status : {"absent", "submitted", "issued", "expired"}]
Alerts == [severity : {"warning", "critical"}, resolved : BOOLEAN]
Mishaps == MishapKinds \cup Paths

\* The types of all but the files and the tasks.
RestTyped ==
  /\ row \in Certificates
  /\ term \in {"soon", "past", "never"}
  /\ anchored \in BOOLEAN
  /\ trail \subseteq Records
  /\ alerts \in Seq(Alerts)
  /\ left \in [resolved : Nat, faults : Nat]
  /\ mishaps \subseteq Mishaps

FilesTyped == file \in [Paths -> Contents \cup {"unused", "deleted"}]

LEMMA TypeParts == TypeOK <=> RestTyped /\ FilesTyped /\ task \in [Actors -> Task]
BY Zenon DEF TypeOK, RestTyped, FilesTyped, Certificates, Alerts, Mishaps

LEMMA StillTyped == RestTyped' /\ FilesTyped' /\ task' \in [Actors -> Task] => TypeOK'
BY Zenon DEF TypeOK, RestTyped, FilesTyped, Certificates, Alerts, Mishaps

LEMMA Tolerated ==
  ASSUME TypeOK, NEW k \in Mishaps,
         NoMishap \/ (Fault /\ Note(k)) \/ (Fault /\ UNCHANGED mishaps)
           \/ (Note(k) /\ UNCHANGED left)
  PROVE  left' \in [resolved : Nat, faults : Nat] /\ mishaps' \subseteq Mishaps /\ mishaps \subseteq mishaps'
<1>1. left \in [resolved : Nat, faults : Nat] /\ mishaps \subseteq Mishaps  BY TypeParts DEF RestTyped
<1>2. Fault => left' \in [resolved : Nat, faults : Nat]  BY <1>1 DEF Fault
<1>. QED  BY <1>1, <1>2 DEF NoMishap, Note

LEMMA Unlinked ==
  ASSUME FilesTyped, NEW p \in Paths \cup {NoPath}, Unlink(p)
  PROVE  /\ FilesTyped'
         /\ p = NoPath => file' = file
         /\ p \in Paths => file' = [file EXCEPT ![p] = "deleted"]
BY UpkeepAssumption DEF FilesTyped, Unlink

\* A request or job moves on, and deletes nothing.
LEMMA GoStep ==
  ASSUME FilesInv, NEW a \in Actors, NEW pc \in Places, GoTo(a, pc), UNCHANGED file,
         LET t == [task[a] EXCEPT !.pc = pc]
         IN InHand(t) /\ (Fresh(t) => Fresh(task[a])) /\ RowStep(a, t),
         pc \in {"populate", "deleteFile"} /\ task[a].old \in Paths => row'.path # task[a].old,
         RestTyped', mishaps \subseteq mishaps'
  PROVE  FilesInv'
<1>. DEFINE t == [task[a] EXCEPT !.pc = pc]
<1>1. task \in [Actors -> Task] /\ FilesTyped  BY TypeParts DEF FilesInv
<1>2. /\ t \in Task /\ t.pc = pc /\ t.request = task[a].request /\ t.path = task[a].path
      /\ t.old = task[a].old
  BY <1>1, Moved
<1>3. task' = [task EXCEPT ![a] = t]  BY Zenon DEF GoTo
<1>. HIDE DEF t
<1>4. task' \in [Actors -> Task]  BY <1>1, <1>2, <1>3
<1>5. TypeOK'  BY <1>1, <1>4, StillTyped DEF FilesTyped
<1>6. InHand(t) /\ (Fresh(t) => Fresh(task[a])) /\ RowStep(a, t)  BY DEF t
<1>. QED  BY <1>2, <1>3, <1>5, <1>6, FilesStep

\* It ends without deleting anything, or with deleting file q.
LEMMA EndStep ==
  ASSUME FilesInv, NEW a \in Actors, NEW q \in {task[a].path, task[a].old, NoPath}, End(a), Unlink(q),
         RowStep(a, Idle),
         q \in Paths => row'.path # q \/ "unacknowledged" \in mishaps',
         RestTyped', mishaps \subseteq mishaps'
  PROVE  FilesInv'
<1>1. task \in [Actors -> Task] /\ FilesTyped  BY TypeParts DEF FilesInv
<1>2. task' = [task EXCEPT ![a] = Idle] /\ task' \in [Actors -> Task]
  BY <1>1, IdleIsTask DEF End
<1>3. task[a] \in Task  BY <1>1
<1>4. q \in Paths \cup {NoPath}  BY <1>3 DEF Task
<1>5. /\ FilesTyped'
      /\ q = NoPath => file' = file
      /\ q \in Paths => file' = [file EXCEPT ![q] = "deleted"]
  BY <1>1, <1>4, Unlinked
<1>6. TypeOK'  BY <1>2, <1>5, StillTyped
<1>7. q \in Paths => Deletes(a, Idle, q)  BY <1>5, IdleIsTask, UpkeepAssumption DEF Deletes
<1>8. file' = file \/ \E p \in Paths : Deletes(a, Idle, p)  BY <1>4, <1>5, <1>7
<1>9. Idle.path = NoPath /\ Idle.old = NoPath /\ Idle.pc = "idle"  BY DEF Idle
<1>. QED  BY <1>2, <1>6, <1>8, <1>9, IdleIsTask, FilesStep

LEMMA FailStep ==
  ASSUME FilesInv, NEW a \in Actors, Fail(a), RowStep(a, Idle),
         task[a].path \in Paths => row'.path # task[a].path \/ "unacknowledged" \in mishaps',
         RestTyped', mishaps \subseteq mishaps'
  PROVE  FilesInv'
BY EndStep DEF Fail

LEMMA StillRow == ASSUME UNCHANGED row, NEW a, NEW t PROVE RowStep(a, t)
BY DEF RowStep

\* A path that was never used is given to a request that begins.
LEMMA UploadStep ==
  ASSUME FilesInv, NEW a \in Actors, NEW request \in {"create", "update"}, NEW x \in Contents,
         request = "create" => x = Original,
         Upload(a, request, x), UNCHANGED row, RestTyped', UNCHANGED mishaps
  PROVE  FilesInv'
<1>1. PICK p \in Paths : /\ file[p] = "unused"
                         /\ file' = [file EXCEPT ![p] = x]
                         /\ task' = [task EXCEPT ![a] = [Idle EXCEPT
                              !.pc = IF request = "create" THEN "check" ELSE "load",
                              !.request = request, !.path = p]]
  BY DEF Upload, Begin
<1>. DEFINE t == [Idle EXCEPT !.pc = IF request = "create" THEN "check" ELSE "load",
                              !.request = request, !.path = p]
<1>2. /\ t \in Task /\ t.request = request /\ t.path = p /\ t.old = NoPath
      /\ t.pc = (IF request = "create" THEN "check" ELSE "load") /\ t.severity = "none"
  BY UpkeepAssumption DEF Task, Places, Idle
<1>3. task' = [task EXCEPT ![a] = t]  BY <1>1
<1>. HIDE DEF t
<1>4. InHand(t)
  BY <1>2, UpkeepAssumption DEF InHand, Creating, Updating, Deleting, Alerting
<1>5. /\ \A b \in Actors : task'[b] = IF b = a THEN t ELSE task[b]
      /\ Equipped' /\ task' \in [Actors -> Task]
  BY <1>2, <1>3, <1>4, TaskChanged DEF FilesInv
<1>6. FilesTyped /\ NoPath \notin Paths /\ task \in [Actors -> Task]
  BY UpkeepAssumption, TypeParts DEF FilesInv
<1>7. FilesTyped' /\ \A q \in Paths : file'[q] = IF q = p THEN x ELSE file[q]
  BY <1>1, <1>6 DEF FilesTyped
<1>8. row.path # p /\ \A b \in Actors : task[b].path # p /\ task[b].old # p
  BY <1>1 DEF FilesInv, InUse
<1>9. TypeOK'  BY <1>5, <1>7, StillTyped
<1>10. OwnUploads'
  <2>. SUFFICES ASSUME NEW b \in Actors, Fresh(task'[b])
                PROVE  /\ file'[task'[b].path] \in Contents
                       /\ task'[b].request = "create" => file'[task'[b].path] = Original
                       /\ row.path # task'[b].path
                       /\ \A c \in Actors : /\ task'[c].old # task'[b].path
                                            /\ c # b => task'[c].path # task'[b].path
    BY DEF OwnUploads, Fresh
  <2>1. CASE b = a  BY <1>2, <1>5, <1>6, <1>7, <1>8, <2>1
  <2>2. CASE b # a
    <3>1. task'[b] = task[b] /\ Fresh(task[b]) /\ task[b].path \in Paths /\ task[b].path # p
      BY <1>5, <1>8, <2>2 DEF Fresh
    <3>. QED  BY <1>2, <1>5, <1>6, <1>7, <3>1 DEF FilesInv, OwnUploads
  <2>. QED  BY <2>1, <2>2
<1>11. InUse'
  BY <1>2, <1>5, <1>6, <1>7, UpkeepAssumption DEF FilesInv, InUse
<1>12. Shed'
  BY <1>2, <1>5, <1>6 DEF FilesInv, Shed
<1>13. RowNamed'  BY DEF FilesInv, RowNamed
<1>14. FileBehindRow'
  BY <1>7, <1>8 DEF FilesInv, FileBehindRow, RowNamed, Spared
<1>. QED  BY <1>5, <1>9, <1>10, <1>11, <1>12, <1>13, <1>14 DEF FilesInv

\* What most steps leave alone.
LEMMA RestKept ==
  ASSUME TypeOK, row' \in Certificates, trail' \subseteq Records, anchored' \in BOOLEAN,
         alerts' \in Seq(Alerts), UNCHANGED term,
         NoMishap \/ (\E k \in Mishaps : Fault /\ Note(k)) \/ (Fault /\ UNCHANGED mishaps)
           \/ (\E k \in Mishaps : Note(k) /\ UNCHANGED left)
  PROVE  RestTyped' /\ mishaps \subseteq mishaps'
<1>1. RestTyped  BY TypeParts
<1>2. left' \in [resolved : Nat, faults : Nat] /\ mishaps' \subseteq Mishaps /\ mishaps \subseteq mishaps'
  <2>1. "overlap" \in Mishaps  BY DEF Mishaps, MishapKinds
  <2>. QED  BY <2>1, Tolerated
<1>. QED  BY <1>1, <1>2 DEF RestTyped

LEMMA StoredTyped ==
  ASSUME NEW p \in Paths
  PROVE  /\ Stored(p) \in Certificates /\ Stored(p).path = p /\ Stored(p).hash = Original
         /\ Stored(p).status = "issued" /\ Stored(p) # NoRow
BY UpkeepAssumption DEF Stored, Certificates, NoRow

LEMMA CreateFiles ==
  ASSUME FilesInv, NEW a \in Actors,
         CreateRequest(a) \/ CheckNotStored(a) \/ StoreDocument(a) \/ StoreFails(a) \/ UploadFails(a)
  PROVE  FilesInv'
<1>1. TypeOK /\ RestTyped /\ task[a] \in Task  BY TypeParts DEF FilesInv
<1>2. /\ UNCHANGED <<row, term, alerts, trail>>
      /\ NoMishap \/ (Fault /\ UNCHANGED mishaps)
  BY DEF CreateRequest, CheckNotStored, StoreDocument, StoreFails, UploadFails, jobVars
<1>3. anchored' \in BOOLEAN
  BY <1>1 DEF CreateRequest, CheckNotStored, StoreDocument, StoreFails, UploadFails, RestTyped
<1>4. RestTyped' /\ mishaps \subseteq mishaps'
  BY <1>1, <1>2, <1>3, RestKept DEF RestTyped
<1>5. CASE CreateRequest(a)
  BY <1>2, <1>4, <1>5, UploadStep, UpkeepAssumption DEF CreateRequest, NoMishap
<1>6. ASSUME Fail(a), task[a].pc \in {"check", "load", "store"} PROVE FilesInv'
  <2>1. task[a].path \in Paths => row'.path # task[a].path
    BY <1>2, <1>6 DEF FilesInv, OwnUploads, Fresh
  <2>. QED  BY <1>2, <1>4, <1>6, <2>1, FailStep, StillRow
<1>7. ASSUME NEW pc \in {"store", "insert"}, GoTo(a, pc), UNCHANGED file, task[a].pc \in {"check", "store"}
      PROVE  FilesInv'
  <2>. DEFINE t == [task[a] EXCEPT !.pc = pc]
  <2>1. pc \in Places  BY DEF Places
  <2>2. /\ t.pc = pc /\ t.request = task[a].request /\ t.path = task[a].path /\ t.old = task[a].old
        /\ t.severity = task[a].severity
    BY <1>1, <2>1, Moved
  <2>. HIDE DEF t
  <2>3. InHand(t)
    BY <1>7, <2>2 DEF FilesInv, Equipped, InHand, Creating, Updating, Deleting, Alerting
  <2>4. Fresh(t) => Fresh(task[a])  BY <1>7, <2>2 DEF Fresh
  <2>5. RowStep(a, t)  BY <1>2, StillRow
  <2>6. InHand(t) /\ (Fresh(t) => Fresh(task[a])) /\ RowStep(a, t)  BY <2>3, <2>4, <2>5
  <2>. QED  BY <1>4, <1>7, <2>1, <2>6, GoStep DEF t
<1>8. CASE CheckNotStored(a)  BY <1>6, <1>7, <1>8 DEF CheckNotStored, At
<1>9. CASE StoreDocument(a)  BY <1>6, <1>7, <1>9 DEF StoreDocument, At
<1>10. CASE StoreFails(a)  BY <1>6, <1>10 DEF StoreFails, At
<1>11. CASE UploadFails(a)  BY <1>6, <1>11 DEF UploadFails, At
<1>. QED  BY <1>5, <1>8, <1>9, <1>10, <1>11

LEMMA InsertFiles ==
  ASSUME FilesInv, NEW a \in Actors, InsertRow(a) \/ InsertFails(a) \/ InsertUnacknowledged(a)
  PROVE  FilesInv'
<1>1. TypeOK /\ RestTyped /\ task[a] \in Task  BY TypeParts DEF FilesInv
<1>2. /\ UNCHANGED <<term, alerts, trail, anchored>>
      /\ NoMishap \/ (Fault /\ UNCHANGED mishaps) \/ (Fault /\ Note("unacknowledged"))
      /\ task[a].pc = "insert"
  BY DEF InsertRow, InsertFails, InsertUnacknowledged, jobVars, At
<1>3. Fresh(task[a]) /\ task[a].request = "create" /\ task[a].path \in Paths
  BY <1>2 DEF FilesInv, Equipped, InHand, Creating, Updating, Deleting, Alerting, Fresh
<1>4. file[task[a].path] = Original /\ row.path # task[a].path
  BY <1>3 DEF FilesInv, OwnUploads
<1>5. row' \in Certificates
  BY <1>1, <1>3, StoredTyped DEF InsertRow, InsertFails, InsertUnacknowledged, RestTyped
<1>6. RestTyped' /\ mishaps \subseteq mishaps'
  BY <1>1, <1>2, <1>5, RestKept DEF RestTyped, Mishaps, MishapKinds
<1>7. ASSUME NEW t, ~Fresh(t), row' = Stored(task[a].path) PROVE RowStep(a, t)
  BY <1>3, <1>4, <1>7, StoredTyped DEF RowStep
<1>8. CASE InsertRow(a)
  <2>. DEFINE t == [task[a] EXCEPT !.pc = "recordTx"]
  <2>1. "recordTx" \in Places  BY DEF Places
  <2>2. /\ t.pc = "recordTx" /\ t.request = task[a].request /\ t.path = task[a].path
        /\ t.old = task[a].old /\ t.severity = task[a].severity
    BY <1>1, <2>1, Moved
  <2>. HIDE DEF t
  <2>3. InHand(t)
    BY <1>2, <2>2 DEF FilesInv, Equipped, InHand, Creating, Updating, Deleting, Alerting
  <2>4. ~Fresh(t)  BY <2>2 DEF Fresh
  <2>5. RowStep(a, t)  BY <1>7, <1>8, <2>4 DEF InsertRow
  <2>6. InHand(t) /\ (Fresh(t) => Fresh(task[a])) /\ RowStep(a, t)  BY <2>3, <2>4, <2>5
  <2>7. GoTo(a, "recordTx") /\ UNCHANGED file  BY <1>8 DEF InsertRow
  <2>. QED  BY <1>6, <2>1, <2>6, <2>7, GoStep DEF t
<1>9. CASE InsertFails(a)
  BY <1>4, <1>6, <1>9, FailStep, StillRow DEF InsertFails
<1>10. CASE InsertUnacknowledged(a)
  <2>1. RowStep(a, Idle)  BY <1>7, <1>10, IdleIsTask DEF InsertUnacknowledged
  <2>2. "unacknowledged" \in mishaps'  BY <1>10 DEF InsertUnacknowledged, Note
  <2>. QED  BY <1>6, <1>10, <2>1, <2>2, FailStep DEF InsertUnacknowledged
<1>. QED  BY <1>8, <1>9, <1>10

\* Of a request or job that ends, or goes on, without touching row or file.
LEMMA QuietFiles ==
  ASSUME FilesInv, NEW a \in Actors, RestTyped', mishaps \subseteq mishaps',
         row'.path = row.path, row'.hash = row.hash, row' = NoRow <=> row = NoRow,
         UNCHANGED file,
         \/ End(a)
         \/ \E t \in Task : /\ task' = [task EXCEPT ![a] = t]
                            /\ InHand(t) /\ ~Fresh(t) /\ t.pc \notin {"populate", "deleteFile"}
                            /\ t.path \in {task[a].path, NoPath} /\ t.old \in {task[a].old, row.path, NoPath}
  PROVE  FilesInv'
<1>1. TypeOK /\ FilesTyped /\ task \in [Actors -> Task]  BY TypeParts DEF FilesInv
<1>2. PICK t \in Task : /\ task' = [task EXCEPT ![a] = t]
                        /\ InHand(t) /\ ~Fresh(t) /\ t.pc \notin {"populate", "deleteFile"}
                        /\ t.path \in {task[a].path, NoPath} /\ t.old \in {task[a].old, row.path, NoPath}
  <2>1. Idle.path = NoPath /\ Idle.old = NoPath /\ Idle.pc = "idle"  BY DEF Idle
  <2>. QED  BY <2>1, IdleIsTask DEF End
<1>3. task' \in [Actors -> Task]  BY <1>1, <1>2
<1>4. TypeOK'  BY <1>1, <1>3, StillTyped DEF FilesTyped
<1>5. RowStep(a, t)  BY DEF RowStep
<1>. QED  BY <1>2, <1>4, <1>5, FilesStep

LEMMA UpdateFiles ==
  ASSUME FilesInv, NEW a \in Actors,
         UpdateRequest(a) \/ LoadForUpdate(a) \/ SetRow(a) \/ SetUnacknowledged(a)
           \/ Populate(a) \/ PopulateFails(a)
  PROVE  FilesInv'
<1>1. TypeOK /\ RestTyped /\ FilesTyped /\ task[a] \in Task /\ task \in [Actors -> Task]
  BY TypeParts DEF FilesInv
<1>2. /\ UNCHANGED <<term, alerts, trail, anchored>>
      /\ NoMishap \/ (Fault /\ Note("unacknowledged")) \/ (Note("overlap") /\ UNCHANGED left)
  BY DEF UpdateRequest, LoadForUpdate, NoteOverlap, SetRow, SetUnacknowledged, Populate,
         PopulateFails, jobVars, NoMishap
<1>3. task[a].pc = "set" /\ task[a].path \in Paths => file[task[a].path] \in Contents /\ row.path # task[a].path
  BY DEF FilesInv, OwnUploads, Fresh
<1>4. task[a].path \in Paths \cup {NoPath} /\ task[a].old \in Paths \cup {NoPath} /\ NoPath \notin Paths
  BY <1>1, UpkeepAssumption DEF Task
<1>5. ASSUME task[a].pc = "set", row # NoRow, row' = Replaced(task[a].path)
      PROVE  /\ row' \in Certificates /\ row' # NoRow
             /\ task[a].path = NoPath => row' = row
             /\ task[a].path \in Paths => row'.path = task[a].path /\ row'.hash = file[task[a].path]
  <2>1. CASE task[a].path = NoPath  BY <1>1, <1>5, <2>1, UpkeepAssumption DEF Replaced, RestTyped
  <2>2. CASE task[a].path \in Paths
    <3>1. row' = [row EXCEPT !.path = task[a].path, !.hash = file[task[a].path]]
      BY <1>4, <1>5, <2>2 DEF Replaced
    <3>2. row'.path = task[a].path /\ row'.hash = file[task[a].path] /\ row' \in Certificates
      BY <1>1, <1>3, <1>5, <2>2, <3>1 DEF RestTyped, Certificates
    <3>3. row' # NoRow  BY <1>4, <2>2, <3>2 DEF NoRow
    <3>. QED  BY <1>4, <2>2, <3>2, <3>3
  <2>. QED  BY <1>4, <2>1, <2>2
<1>6. row' \in Certificates
  BY <1>1, <1>5 DEF UpdateRequest, LoadForUpdate, SetRow, SetUnacknowledged, Populate,
                    PopulateFails, RestTyped, At
<1>7. RestTyped' /\ mishaps \subseteq mishaps'
  BY <1>1, <1>2, <1>6, RestKept DEF RestTyped, Mishaps, MishapKinds
<1>8. ASSUME NEW t, ~Fresh(t), task[a].pc = "set", row # NoRow, row' = Replaced(task[a].path)
      PROVE  RowStep(a, t)
  BY <1>4, <1>5, <1>8 DEF RowStep, Fresh
<1>9. CASE UpdateRequest(a)
  <2>1. CASE \E x \in Contents : Upload(a, "update", x)
    BY <1>7, <1>9, <2>1, UploadStep DEF UpdateRequest, NoMishap
  <2>2. CASE Begin(a, [Idle EXCEPT !.pc = "load", !.request = "update"]) /\ UNCHANGED file
    <3>. DEFINE t == [Idle EXCEPT !.pc = "load", !.request = "update"]
    <3>1. /\ t \in Task /\ t.pc = "load" /\ t.request = "update" /\ t.path = NoPath /\ t.old = NoPath
          /\ t.severity = "none"
      BY UpkeepAssumption DEF Task, Places, Idle
    <3>2. task' = [task EXCEPT ![a] = t]  BY <2>2 DEF Begin
    <3>. HIDE DEF t
    <3>3. InHand(t) /\ ~Fresh(t)
      BY <1>4, <3>1 DEF InHand, Fresh, Creating, Updating, Deleting, Alerting
    <3>. QED  BY <1>7, <1>9, <2>2, <3>1, <3>2, <3>3, QuietFiles DEF UpdateRequest
  <2>. QED  BY <1>9, <2>1, <2>2 DEF UpdateRequest
<1>10. CASE LoadForUpdate(a)
  <2>1. CASE row = NoRow
    <3>1. Fail(a) /\ UNCHANGED row /\ task[a].pc = "load"  BY <1>10, <2>1 DEF LoadForUpdate, At
    <3>2. task[a].path \in Paths => row'.path # task[a].path  BY <3>1 DEF FilesInv, OwnUploads, Fresh
    <3>. QED  BY <1>7, <3>1, <3>2, FailStep, StillRow
  <2>2. CASE row # NoRow
    <3>. DEFINE old == IF task[a].path = NoPath THEN NoPath ELSE row.path
                t == [task[a] EXCEPT !.pc = "set", !.old = old]
    <3>1. task' = [task EXCEPT ![a] = t] /\ UNCHANGED <<row, file>> /\ task[a].pc = "load"
      BY <1>10, <2>2 DEF LoadForUpdate, At
    <3>2. /\ old \in Paths \cup {NoPath} /\ old \in {row.path, NoPath}
          /\ task[a].path = NoPath => old = NoPath
      BY <1>1 DEF RestTyped, Certificates
    <3>. HIDE DEF old
    <3>3. /\ t \in Task /\ t.pc = "set" /\ t.request = task[a].request /\ t.path = task[a].path
          /\ t.old = old /\ t.severity = task[a].severity
      BY <1>1, <3>2 DEF Task, Places
    <3>. HIDE DEF t
    <3>4. InHand(t) /\ (Fresh(t) => Fresh(task[a]))
      BY <3>1, <3>2, <3>3 DEF FilesInv, Equipped, InHand, Fresh, Creating, Updating, Deleting, Alerting
    <3>5. TypeOK'
      <4>1. task' \in [Actors -> Task]  BY <1>1, <3>1, <3>3
      <4>. QED  BY <1>1, <1>7, <3>1, <4>1, StillTyped DEF FilesTyped
    <3>6. RowStep(a, t)  BY <3>1, StillRow
    <3>. QED  BY <1>7, <3>1, <3>2, <3>3, <3>4, <3>5, <3>6, FilesStep
  <2>. QED  BY <2>1, <2>2
<1>11. CASE SetRow(a)
  <2>1. CASE row # NoRow /\ row' = Replaced(task[a].path) /\ GoTo(a, "populate") /\ UNCHANGED file
    <3>. DEFINE t == [task[a] EXCEPT !.pc = "populate"]
    <3>1. "populate" \in Places /\ task[a].pc = "set"  BY <1>11 DEF Places, SetRow, At
    <3>2. /\ t.pc = "populate" /\ t.request = task[a].request /\ t.path = task[a].path
          /\ t.old = task[a].old /\ t.severity = task[a].severity
      BY <1>1, <3>1, Moved
    <3>. HIDE DEF t
    <3>3. InHand(t)
      BY <3>1, <3>2 DEF FilesInv, Equipped, InHand, Creating, Updating, Deleting, Alerting
    <3>4. ~Fresh(t)  BY <3>2 DEF Fresh
    <3>5. RowStep(a, t)  BY <1>8, <2>1, <3>1, <3>4
    <3>6. InHand(t) /\ (Fresh(t) => Fresh(task[a])) /\ RowStep(a, t)  BY <3>3, <3>4, <3>5
    <3>7. task[a].old \in Paths => row'.path # task[a].old
      <4>1. task[a].path = NoPath => task[a].old = NoPath
        BY <3>1 DEF FilesInv, Equipped, InHand, Creating, Updating, Deleting, Alerting
      <4>2. task[a].path \in Paths => task[a].old # task[a].path
        BY <3>1 DEF FilesInv, OwnUploads, Fresh
      <4>. QED  BY <1>4, <1>5, <2>1, <3>1, <4>1, <4>2
    <3>. QED  BY <1>7, <2>1, <3>1, <3>6, <3>7, GoStep DEF t
  <2>2. CASE Fail(a) /\ UNCHANGED row
    <3>1. task[a].pc = "set"  BY <1>11 DEF SetRow, At
    <3>. QED  BY <1>3, <1>7, <2>2, <3>1, FailStep, StillRow
  <2>. QED  BY <1>11, <2>1, <2>2 DEF SetRow
<1>12. CASE SetUnacknowledged(a)
  <2>1. RowStep(a, Idle)  BY <1>8, <1>12, IdleIsTask DEF SetUnacknowledged, At
  <2>2. "unacknowledged" \in mishaps'  BY <1>12 DEF SetUnacknowledged, Note
  <2>. QED  BY <1>7, <1>12, <2>1, <2>2, FailStep DEF SetUnacknowledged
<1>13. CASE Populate(a)
  <2>. DEFINE t == [task[a] EXCEPT !.pc = "recordUpdate"]
  <2>1. "recordUpdate" \in Places /\ task[a].pc = "populate"  BY <1>13 DEF Places, Populate, At
  <2>2. /\ t \in Task /\ t.pc = "recordUpdate" /\ t.request = task[a].request /\ t.path = task[a].path
        /\ t.old = task[a].old /\ t.severity = task[a].severity
    BY <1>1, <2>1, Moved
  <2>3. task' = [task EXCEPT ![a] = t]  BY Zenon, <1>13 DEF Populate, GoTo
  <2>. HIDE DEF t
  <2>4. InHand(t)
    BY <2>1, <2>2 DEF FilesInv, Equipped, InHand, Creating, Updating, Deleting, Alerting
  <2>5. ~Fresh(t)  BY <2>2 DEF Fresh
  <2>6. /\ FilesTyped'
        /\ task[a].old = NoPath => file' = file
        /\ task[a].old \in Paths => file' = [file EXCEPT ![task[a].old] = "deleted"]
    BY <1>1, <1>4, <1>13, Unlinked DEF Populate
  <2>7. UNCHANGED row /\ (task[a].old \in Paths => row.path # task[a].old)
    BY <1>13, <2>1 DEF Populate, FilesInv, Shed
  <2>8. file' = file \/ \E q \in Paths : Deletes(a, t, q)
    BY <1>4, <2>5, <2>6, <2>7 DEF Deletes
  <2>9. task' \in [Actors -> Task]  BY <1>1, <2>2, <2>3
  <2>10. TypeOK'  BY <1>7, <2>6, <2>9, StillTyped
  <2>11. RowStep(a, t)  BY <2>7, StillRow
  <2>. QED  BY <1>7, <2>2, <2>3, <2>4, <2>5, <2>7, <2>8, <2>10, <2>11, FilesStep
<1>14. CASE PopulateFails(a)
  <2>1. "unacknowledged" \in mishaps' /\ UNCHANGED row /\ Fail(a)  BY <1>14 DEF PopulateFails, Note
  <2>. QED  BY <1>7, <2>1, FailStep, StillRow
<1>. QED  BY <1>9, <1>10, <1>11, <1>12, <1>13, <1>14

LEMMA DeleteFiles ==
  ASSUME FilesInv, NEW a \in Actors, DeleteRequest(a) \/ Purge(a) \/ DeleteRow(a) \/ DeleteFile(a)
  PROVE  FilesInv'
<1>1. TypeOK /\ RestTyped /\ FilesTyped /\ task[a] \in Task /\ task \in [Actors -> Task]
  BY TypeParts DEF FilesInv
<1>2. /\ UNCHANGED <<term, alerts, anchored>>
      /\ NoMishap \/ (Note("overlap") /\ UNCHANGED left)
  BY DEF DeleteRequest, NoteOverlap, Purge, DeleteRow, DeleteFile, jobVars, rowVars, NoMishap
<1>3. row' \in Certificates /\ trail' \subseteq Records
  <2>1. NoRow \in Certificates  BY UpkeepAssumption DEF NoRow, Certificates
  <2>2. row' = row \/ row' = NoRow  BY DEF DeleteRequest, Purge, DeleteRow, DeleteFile, rowVars
  <2>3. trail' \subseteq trail  BY DEF DeleteRequest, Purge, DeleteRow, DeleteFile, rowVars
  <2>. QED  BY <1>1, <2>1, <2>2, <2>3 DEF RestTyped
<1>4. RestTyped' /\ mishaps \subseteq mishaps'
  BY <1>1, <1>2, <1>3, RestKept DEF RestTyped, Mishaps, MishapKinds
<1>5. CASE DeleteRequest(a)
  <2>. DEFINE t == [Idle EXCEPT !.pc = "purge", !.request = "delete", !.old = row.path, !.todo = Records]
  <2>1. /\ t \in Task /\ t.pc = "purge" /\ t.request = "delete" /\ t.path = NoPath
        /\ t.old = row.path /\ t.severity = "none"
    BY <1>1, UpkeepAssumption DEF Task, Places, Idle, RestTyped, Certificates
  <2>2. task' = [task EXCEPT ![a] = t]  BY <1>5 DEF DeleteRequest, Begin
  <2>. HIDE DEF t
  <2>3. InHand(t) /\ ~Fresh(t)
    BY <2>1, UpkeepAssumption DEF InHand, Fresh, Creating, Updating, Deleting, Alerting
  <2>. QED  BY <1>4, <1>5, <2>1, <2>2, <2>3, QuietFiles DEF DeleteRequest, rowVars
<1>6. CASE Purge(a)
  <2>1. PICK kind \in task[a].todo :
          task' = [task EXCEPT ![a].todo = @ \ {kind},
                               ![a].pc = IF task[a].todo = {kind} THEN "deleteRow" ELSE "purge"]
    BY <1>6 DEF Purge
  <2>. DEFINE pc == IF task[a].todo = {kind} THEN "deleteRow" ELSE "purge"
              todo == task[a].todo \ {kind}
              t == [task[a] EXCEPT !.todo = todo, !.pc = pc]
  <2>2. pc \in {"deleteRow", "purge"} /\ task[a].pc = "purge" /\ todo \in SUBSET Records
    BY <1>1, <1>6 DEF Purge, At, Task
  <2>3. task' = [task EXCEPT ![a] = t]  BY <1>1, <2>1
  <2>. HIDE DEF pc, todo
  <2>4. /\ t \in Task /\ t.pc = pc /\ t.request = task[a].request /\ t.path = task[a].path
        /\ t.old = task[a].old /\ t.severity = task[a].severity
    BY <1>1, <2>2 DEF Task, Places
  <2>. HIDE DEF t
  <2>5. InHand(t) /\ ~Fresh(t)
    BY <2>2, <2>4 DEF FilesInv, Equipped, InHand, Fresh, Creating, Updating, Deleting, Alerting
  <2>. QED  BY <1>4, <1>6, <2>2, <2>3, <2>4, <2>5, QuietFiles DEF Purge
<1>7. CASE DeleteRow(a)
  <2>. DEFINE t == [task[a] EXCEPT !.pc = "deleteFile"]
  <2>1. "deleteFile" \in Places /\ task[a].pc = "deleteRow" /\ row' = NoRow
    BY <1>7 DEF Places, DeleteRow, At
  <2>2. /\ t.pc = "deleteFile" /\ t.request = task[a].request /\ t.path = task[a].path
        /\ t.old = task[a].old /\ t.severity = task[a].severity
    BY <1>1, <2>1, Moved
  <2>. HIDE DEF t
  <2>3. InHand(t) /\ ~Fresh(t) /\ RowStep(a, t)
    BY <2>1, <2>2 DEF FilesInv, Equipped, InHand, Fresh, RowStep, Creating, Updating, Deleting, Alerting
  <2>4. task[a].old \in Paths => row'.path # task[a].old  BY <2>1, UpkeepAssumption DEF NoRow
  <2>. QED  BY <1>4, <1>7, <2>1, <2>3, <2>4, GoStep DEF DeleteRow, t
<1>8. CASE DeleteFile(a)
  <2>1. task[a].pc = "deleteFile" /\ End(a) /\ Unlink(task[a].old) /\ UNCHANGED row
    BY <1>8 DEF DeleteFile, At
  <2>2. task[a].old \in Paths => row'.path # task[a].old  BY <2>1 DEF FilesInv, Shed
  <2>. QED  BY <1>4, <2>1, <2>2, EndStep, StillRow
<1>. QED  BY <1>5, <1>6, <1>7, <1>8

LEMMA RecordFiles ==
  ASSUME FilesInv, NEW a \in Actors, RecordTx(a) \/ RecordEvent(a) \/ RecordUpdate(a)
  PROVE  FilesInv'
<1>1. TypeOK /\ RestTyped /\ task[a] \in Task  BY TypeParts DEF FilesInv
<1>2. UNCHANGED <<row, term, alerts, anchored, file>> /\ NoMishap
  BY DEF RecordTx, RecordEvent, RecordUpdate, jobVars
<1>3. trail' \subseteq Records
  BY <1>1 DEF RecordTx, RecordEvent, RecordUpdate, RestTyped, Records
<1>4. RestTyped' /\ mishaps \subseteq mishaps'
  BY <1>1, <1>2, <1>3, RestKept DEF RestTyped
<1>5. CASE RecordTx(a)
  <2>. DEFINE t == [task[a] EXCEPT !.pc = "recordEvent"]
  <2>1. "recordEvent" \in Places /\ task[a].pc = "recordTx" /\ GoTo(a, "recordEvent")
    BY <1>5 DEF Places, RecordTx, At
  <2>2. /\ t.pc = "recordEvent" /\ t.request = task[a].request /\ t.path = task[a].path
        /\ t.old = task[a].old /\ t.severity = task[a].severity
    BY <1>1, <2>1, Moved
  <2>. HIDE DEF t
  <2>3. InHand(t) /\ ~Fresh(t) /\ RowStep(a, t)
    BY <1>2, <2>1, <2>2 DEF FilesInv, Equipped, InHand, Fresh, RowStep, Creating, Updating, Deleting, Alerting
  <2>. QED  BY <1>2, <1>4, <2>1, <2>3, GoStep DEF t
<1>6. CASE RecordEvent(a) \/ RecordUpdate(a)
  <2>1. End(a)  BY <1>6 DEF RecordEvent, RecordUpdate
  <2>. QED  BY <1>2, <1>4, <2>1, QuietFiles
<1>. QED  BY <1>5, <1>6

\* An alert has any severity, and is open or not.
LEMMA AlertsTyped ==
  ASSUME alerts \in Seq(Alerts)
  PROVE  /\ \A s \in {"warning", "critical"} :
              Append(alerts, [severity |-> s, resolved |-> FALSE]) \in Seq(Alerts)
         /\ \A i \in Nat : [alerts EXCEPT ![i].severity = "critical"] \in Seq(Alerts)
         /\ \A i \in Nat : [alerts EXCEPT ![i].resolved = TRUE] \in Seq(Alerts)
<1>1. \A s \in {"warning", "critical"} : [severity |-> s, resolved |-> FALSE] \in Alerts
  BY DEF Alerts
<1>2. \A x \in Alerts : /\ [x EXCEPT !.severity = "critical"] \in Alerts
                        /\ [x EXCEPT !.resolved = TRUE] \in Alerts
  BY DEF Alerts
<1>3. ASSUME NEW i \in Nat
      PROVE  /\ [alerts EXCEPT ![i].severity = "critical"] \in Seq(Alerts)
             /\ [alerts EXCEPT ![i].resolved = TRUE] \in Seq(Alerts)
  <2>. DEFINE n == Len(alerts)
              s == [alerts EXCEPT ![i].severity = "critical"]
              r == [alerts EXCEPT ![i].resolved = TRUE]
  <2>1. n \in Nat /\ alerts \in [1 .. n -> Alerts]  OBVIOUS
  <2>. HIDE DEF n
  <2>2. s \in [1 .. n -> Alerts]  BY <1>2, <2>1
  <2>3. r \in [1 .. n -> Alerts]  BY <1>2, <2>1
  <2>. HIDE DEF s, r
  <2>4. s \in Seq(Alerts) /\ r \in Seq(Alerts)  BY <2>1, <2>2, <2>3
  <2>. QED  BY <2>4 DEF s, r
<1>4. ASSUME NEW s \in {"warning", "critical"}
      PROVE  Append(alerts, [severity |-> s, resolved |-> FALSE]) \in Seq(Alerts)
  <2>. DEFINE x == [severity |-> s, resolved |-> FALSE]
  <2>1. x \in Alerts  BY <1>1
  <2>. HIDE DEF x
  <2>2. Append(alerts, x) \in Seq(Alerts)  BY <2>1
  <2>. QED  BY <2>2 DEF x
<1>. QED  BY <1>3, <1>4

LEMMA JobFiles ==
  ASSUME FilesInv, NEW a \in Actors,
         RunExpiryJob(a) \/ SaveExpired(a) \/ FindAlert(a) \/ CreateAlert(a) \/ Escalate(a)
  PROVE  FilesInv'
<1>1. TypeOK /\ RestTyped /\ task[a] \in Task /\ task \in [Actors -> Task]
  BY TypeParts DEF FilesInv
<1>2. /\ UNCHANGED <<term, trail, anchored, file>>
      /\ NoMishap \/ (Note("joined") /\ UNCHANGED left)
  BY DEF RunExpiryJob, SaveExpired, FindAlert, CreateAlert, Escalate, jobVars, rowVars, NoMishap
<1>3. /\ row' \in Certificates /\ row'.path = row.path /\ row'.hash = row.hash
      /\ row' = NoRow <=> row = NoRow
  BY <1>1 DEF RunExpiryJob, SaveExpired, FindAlert, CreateAlert, Escalate, rowVars, RestTyped,
              Certificates, NoRow
<1>4. task[a].pc = "createAlert" => task[a].severity \in {"warning", "critical"}
  BY <1>1 DEF FilesInv, Equipped, InHand, Alerting, Task
<1>5. alerts' \in Seq(Alerts)
  <2>1. alerts \in Seq(Alerts) /\ task[a].alert \in Nat  BY <1>1 DEF RestTyped, Task
  <2>2. CASE CreateAlert(a)  BY <1>4, <2>1, <2>2, AlertsTyped DEF CreateAlert, At
  <2>3. CASE Escalate(a)  BY <2>1, <2>3, AlertsTyped DEF Escalate
  <2>4. CASE RunExpiryJob(a) \/ SaveExpired(a) \/ FindAlert(a)
    BY <2>1, <2>4 DEF RunExpiryJob, SaveExpired, FindAlert, jobVars
  <2>. QED  BY <2>2, <2>3, <2>4
<1>6. RestTyped' /\ mishaps \subseteq mishaps'
  BY <1>1, <1>2, <1>3, <1>5, RestKept DEF RestTyped, Mishaps, MishapKinds
<1>7. \/ End(a)
      \/ \E t \in Task : /\ task' = [task EXCEPT ![a] = t]
                         /\ InHand(t) /\ t.request = "job" /\ t.pc \in Alerting
                         /\ t.path = NoPath /\ t.old = NoPath
  <2>1. ASSUME NEW pc \in {"expire", "findAlert"}, NEW s \in {"warning", "critical"},
               pc = "expire" => s = "critical",
               task' = [task EXCEPT ![a] = [Idle EXCEPT !.pc = pc, !.request = "job", !.severity = s]]
        PROVE  <1>7!2
    <3>. DEFINE t == [Idle EXCEPT !.pc = pc, !.request = "job", !.severity = s]
    <3>1. /\ t \in Task /\ t.pc = pc /\ t.request = "job" /\ t.path = NoPath /\ t.old = NoPath
          /\ t.severity = s
      BY UpkeepAssumption DEF Task, Places, Idle
    <3>2. task' = [task EXCEPT ![a] = t]  BY <2>1
    <3>. HIDE DEF t
    <3>3. InHand(t) /\ t.pc \in Alerting
      BY <2>1, <3>1 DEF InHand, Creating, Updating, Deleting, Alerting
    <3>. QED  BY <3>1, <3>2, <3>3
  <2>2. ASSUME NEW pc \in {"findAlert", "createAlert", "escalate"}, NEW i \in Nat,
               pc = "escalate" => task[a].severity = "critical", task[a].pc \in Alerting,
               task' = [task EXCEPT ![a].pc = pc, ![a].alert = i]
        PROVE  <1>7!2
    <3>. DEFINE t == [task[a] EXCEPT !.pc = pc, !.alert = i]
    <3>1. task' = [task EXCEPT ![a] = t]  BY <1>1, <2>2
    <3>2. /\ t \in Task /\ t.pc = pc /\ t.request = task[a].request /\ t.path = task[a].path
          /\ t.old = task[a].old /\ t.severity = task[a].severity
      BY <1>1 DEF Task, Places
    <3>. HIDE DEF t
    <3>3. InHand(t) /\ t.request = "job" /\ t.pc \in Alerting /\ t.path = NoPath /\ t.old = NoPath
      BY <2>2, <3>2 DEF FilesInv, Equipped, InHand, Creating, Updating, Deleting, Alerting
    <3>. QED  BY <3>1, <3>2, <3>3
  <2>3. CASE RunExpiryJob(a)
    BY <2>1, <2>3 DEF RunExpiryJob, Begin
  <2>4. ASSUME NEW pc \in {"findAlert", "createAlert"}, GoTo(a, pc), task[a].pc \in Alerting
        PROVE  <1>7!2
    <3>. DEFINE t == [task[a] EXCEPT !.pc = pc]
    <3>1. pc \in Places  BY DEF Places
    <3>2. task' = [task EXCEPT ![a] = t]  BY Zenon, <2>4 DEF GoTo
    <3>3. /\ t \in Task /\ t.pc = pc /\ t.request = task[a].request /\ t.path = task[a].path
          /\ t.old = task[a].old /\ t.severity = task[a].severity
      BY <1>1, <3>1, Moved
    <3>. HIDE DEF t
    <3>4. InHand(t) /\ t.request = "job" /\ t.pc \in Alerting /\ t.path = NoPath /\ t.old = NoPath
      BY <2>4, <3>3 DEF FilesInv, Equipped, InHand, Creating, Updating, Deleting, Alerting
    <3>. QED  BY <3>2, <3>3, <3>4
  <2>5. CASE SaveExpired(a)  BY <2>4, <2>5 DEF SaveExpired, At, Alerting
  <2>6. CASE FindAlert(a)
    <3>1. CASE GoTo(a, "createAlert")  BY <2>4, <2>6, <3>1 DEF FindAlert, At, Alerting
    <3>2. ASSUME NEW i \in OpenAlerts, task[a].severity = "critical",
                 task' = [task EXCEPT ![a].pc = "escalate", ![a].alert = i]
          PROVE  <1>7!2
      <4>1. i \in Nat  BY <1>1 DEF OpenAlerts, RestTyped
      <4>2. task[a].pc \in Alerting  BY <2>6 DEF FindAlert, At, Alerting
      <4>. QED  BY <2>2, <3>2, <4>1, <4>2
    <3>. QED  BY <2>6, <3>1, <3>2 DEF FindAlert
  <2>7. CASE CreateAlert(a) \/ Escalate(a)  BY <2>7 DEF CreateAlert, Escalate
  <2>. QED  BY <2>3, <2>5, <2>6, <2>7
<1>8. \A t \in Task : t.pc \in Alerting => ~Fresh(t) /\ t.pc \notin {"populate", "deleteFile"}
  BY DEF Fresh, Alerting
<1>. QED  BY <1>2, <1>3, <1>6, <1>7, <1>8, QuietFiles

\* What happens to row and records beside the requests.
LEMMA UnmovedFiles ==
  ASSUME FilesInv, RestTyped', mishaps \subseteq mishaps', UNCHANGED <<file, task>>,
         row'.path = row.path, row'.hash = row.hash, row' = NoRow <=> row = NoRow
  PROVE  FilesInv'
<1>1. TypeOK'  BY TypeParts, StillTyped DEF FilesInv, FilesTyped
<1>2. Equipped' /\ OwnUploads' /\ InUse' /\ Shed' /\ RowNamed'
  BY DEF FilesInv, Equipped, OwnUploads, InUse, Shed, RowNamed
<1>3. FileBehindRow'  BY DEF FilesInv, FileBehindRow, Spared
<1>. QED  BY <1>1, <1>2, <1>3 DEF FilesInv

LEMMA BesidesFiles ==
  ASSUME FilesInv, StoreRaw \/ ResolveAlert \/ Pass \/ Reconcile
  PROVE  FilesInv'
<1>1. TypeOK /\ RestTyped  BY TypeParts DEF FilesInv
<1>2. /\ row' \in Certificates /\ row'.path = row.path /\ row'.hash = row.hash
      /\ row' = NoRow <=> row = NoRow
  BY <1>1 DEF StoreRaw, ResolveAlert, Pass, Reconcile, rowVars, RestTyped, Certificates, NoRow
<1>3. UNCHANGED <<file, task, trail>> /\ anchored' \in BOOLEAN /\ term' \in {"soon", "past", "never"}
  BY <1>1 DEF StoreRaw, ResolveAlert, Pass, Reconcile, rowVars, jobVars, RestTyped
<1>4. left' \in [resolved : Nat, faults : Nat]
  BY <1>1 DEF StoreRaw, ResolveAlert, Pass, Reconcile, Fault, RestTyped
<1>5. mishaps \subseteq mishaps' /\ mishaps' \subseteq Mishaps
  BY <1>1 DEF StoreRaw, ResolveAlert, Pass, Reconcile, Note, RestTyped, Mishaps, MishapKinds
<1>6. alerts' \in Seq(Alerts)
  <2>1. \A i \in OpenAlerts : i \in Nat  BY <1>1 DEF OpenAlerts, RestTyped
  <2>. QED  BY <1>1, <2>1, AlertsTyped DEF StoreRaw, ResolveAlert, Pass, Reconcile, jobVars, RestTyped
<1>7. RestTyped'  BY <1>1, <1>2, <1>3, <1>4, <1>5, <1>6 DEF RestTyped
<1>. QED  BY <1>2, <1>3, <1>5, <1>7, UnmovedFiles

\* An upload that is kept is nobody's.
LEMMA RefuseFiles ==
  ASSUME FilesInv, RefuseCreate
  PROVE  FilesInv'
<1>1. TypeOK /\ RestTyped /\ FilesTyped /\ Original \in Contents /\ NoPath \notin Paths
  BY TypeParts, UpkeepAssumption DEF FilesInv
<1>2. /\ UNCHANGED <<row, trail, anchored, task, left, term, alerts>>
      /\ mishaps \subseteq mishaps' /\ mishaps' \subseteq Mishaps
  BY <1>1 DEF RefuseCreate, Note, jobVars, RestTyped, Mishaps
<1>3. PICK p \in Paths : file[p] = "unused" /\ file' = [file EXCEPT ![p] = Original]
  BY DEF RefuseCreate
<1>4. FilesTyped' /\ file'[p] = Original /\ \A q \in Paths : q # p => file'[q] = file[q]
  BY <1>1, <1>3 DEF FilesTyped
<1>5. RestTyped'  BY <1>1, <1>2 DEF RestTyped
<1>6. TypeOK'  BY <1>1, <1>2, <1>4, <1>5, StillTyped, TypeParts
<1>7. Original \notin {"unused", "deleted"} /\ "unused" \notin Contents
  BY UpkeepAssumption
<1>8. row.path # p /\ \A a \in Actors : p \notin {task[a].path, task[a].old}
  BY <1>3 DEF FilesInv, InUse
<1>9. Equipped' /\ Shed' /\ RowNamed'
  BY <1>2 DEF FilesInv, Equipped, Shed, RowNamed
<1>10. OwnUploads'  BY <1>2, <1>4, <1>8 DEF FilesInv, OwnUploads, Fresh
<1>11. InUse'  BY <1>2, <1>4, <1>7 DEF FilesInv, InUse
<1>12. FileBehindRow'
  BY <1>2, <1>4, <1>8 DEF FilesInv, RowNamed, FileBehindRow, Spared
<1>. QED  BY <1>6, <1>9, <1>10, <1>11, <1>12 DEF FilesInv

LEMMA InterruptFiles ==
  ASSUME FilesInv, Interrupt
  PROVE  FilesInv'
<1>1. TypeOK /\ RestTyped /\ FilesTyped /\ task \in [Actors -> Task]  BY TypeParts DEF FilesInv
<1>2. PICK gone \in SUBSET Actors : task' = [a \in Actors |-> IF a \in gone THEN Idle ELSE task[a]]
  BY DEF Interrupt
<1>3. task' \in [Actors -> Task] /\ \A a \in Actors : task'[a] = Idle \/ task'[a] = task[a]
  BY <1>1, <1>2, IdleIsTask
<1>4. UNCHANGED <<row, trail, anchored, file, term, alerts>> /\ Fault /\ Note("interrupted")
  BY DEF Interrupt, rowVars, jobVars
<1>5. RestTyped' /\ mishaps \subseteq mishaps'
  BY <1>1, <1>4, RestKept DEF RestTyped, Mishaps, MishapKinds
<1>6. TypeOK'  BY <1>1, <1>3, <1>4, <1>5, StillTyped DEF FilesTyped
<1>7. Idle.path = NoPath /\ Idle.old = NoPath /\ Idle.pc = "idle" /\ ~Fresh(Idle) /\ NoPath \notin Paths
  BY UpkeepAssumption, IdleIsTask DEF Idle
<1>8. Equipped'  BY <1>3, IdleIsTask DEF FilesInv, Equipped
<1>9. OwnUploads'
  <2>. SUFFICES ASSUME NEW b \in Actors, Fresh(task'[b])
                PROVE  /\ file'[task'[b].path] \in Contents
                       /\ task'[b].request = "create" => file'[task'[b].path] = Original
                       /\ row'.path # task'[b].path
                       /\ \A c \in Actors : /\ task'[c].old # task'[b].path
                                            /\ c # b => task'[c].path # task'[b].path
    BY DEF OwnUploads, Fresh
  <2>1. task'[b] = task[b] /\ task[b].path # NoPath  BY <1>3, <1>7 DEF Fresh
  <2>. QED  BY <1>3, <1>4, <1>7, <2>1 DEF FilesInv, OwnUploads
<1>10. InUse' /\ Shed' /\ RowNamed'
  BY <1>3, <1>4, <1>7 DEF FilesInv, InUse, Shed, RowNamed
<1>11. FileBehindRow'  BY <1>4, <1>5 DEF FilesInv, FileBehindRow, Spared
<1>. QED  BY <1>6, <1>8, <1>9, <1>10, <1>11 DEF FilesInv

LEMMA FilesInitial == Init => FilesInv
<1>. SUFFICES ASSUME Init PROVE FilesInv
  OBVIOUS
<1>1. \A a \in Actors : task[a] = Idle  BY DEF Init
<1>2. Idle.path = NoPath /\ Idle.old = NoPath /\ Idle.pc = "idle" /\ ~Fresh(Idle) /\ NoPath \notin Paths
      /\ Original \in Contents
  BY UpkeepAssumption, IdleIsTask DEF Idle
<1>3. NoRow \in Certificates /\ NoRow.path = NoPath  BY <1>2 DEF NoRow, Certificates
<1>4. \/ row = NoRow /\ file = [p \in Paths |-> "unused"]
      \/ \E p \in Paths : row = Stored(p) /\ file[p] = Original
    BY DEF Init
<1>5. FilesTyped
  BY <1>2 DEF Init, FilesTyped
<1>6. RestTyped
  <2>1. row \in Certificates  BY <1>3, <1>4, StoredTyped
  <2>2. left \in [resolved : Nat, faults : Nat]  BY UpkeepAssumption DEF Init
  <2>3. term \in {"soon", "past", "never"} /\ anchored \in BOOLEAN /\ trail \subseteq Records
    BY DEF Init
  <2>4. mishaps \subseteq Mishaps  BY DEF Init
  <2>5. alerts \in Seq(Alerts)  BY DEF Init
  <2>. QED  BY <2>1, <2>2, <2>3, <2>4, <2>5 DEF RestTyped
<1>7. TypeOK  BY <1>1, <1>5, <1>6, IdleIsTask, TypeParts DEF Init
<1>8. Equipped /\ OwnUploads /\ Shed
  BY <1>1, <1>2, IdleIsTask DEF Equipped, OwnUploads, Shed
<1>9. InUse
  BY <1>1, <1>2, <1>3, <1>4, StoredTyped, UpkeepAssumption DEF InUse
<1>10. RowNamed /\ FileBehindRow
  BY <1>2, <1>3, <1>4, StoredTyped DEF RowNamed, FileBehindRow
<1>. QED  BY <1>7, <1>8, <1>9, <1>10 DEF FilesInv

LEMMA FilesNext == FilesInv /\ [Next]_vars => FilesInv'
<1>. SUFFICES ASSUME FilesInv, [Next]_vars PROVE FilesInv'
  OBVIOUS
<1>1. CASE UNCHANGED vars
  <2>1. UNCHANGED <<row, term, file, anchored, trail, alerts, task, left, mishaps>>  BY <1>1 DEF vars
  <2>2. RestTyped'  BY <2>1, TypeParts DEF FilesInv, RestTyped
  <2>. QED  BY <2>1, <2>2, UnmovedFiles
<1>2. CASE Next
  BY <1>2, CreateFiles, InsertFiles, UpdateFiles, DeleteFiles, RecordFiles, JobFiles, BesidesFiles,
     RefuseFiles, InterruptFiles DEF Next
<1>. QED  BY <1>1, <1>2

(* In every reachable state the file behind the row is the one its hash    *)
(* was computed from, unless a write was reported as failed and was not.   *)
THEOREM FileBehindRowCorrect == Spec => []FileBehindRow
<1>1. FilesInv => FileBehindRow  BY DEF FilesInv
<1>. QED  BY FilesInitial, FilesNext, <1>1, PTL DEF Spec
-----------------------------------------------------------------------------
(* Nothing stays behind. *)

Others(a) == \A b \in Actors : b # a => task'[b] = task[b]

LEMMA GoTask ==
  ASSUME TypeOK, NEW a \in Actors, NEW pc \in Places, GoTo(a, pc)
  PROVE  /\ Others(a)
         /\ task'[a].pc = pc /\ task'[a].request = task[a].request /\ task'[a].path = task[a].path
         /\ task'[a].old = task[a].old /\ task'[a].todo = task[a].todo
         /\ task'[a].severity = task[a].severity /\ task'[a].alert = task[a].alert
<1>. DEFINE t == [task[a] EXCEPT !.pc = pc]
<1>1. task \in [Actors -> Task] /\ task[a] \in Task  BY TypeParts
<1>2. task' = [task EXCEPT ![a] = t]  BY Zenon DEF GoTo
<1>3. /\ t.pc = pc /\ t.request = task[a].request /\ t.path = task[a].path /\ t.old = task[a].old
      /\ t.todo = task[a].todo /\ t.severity = task[a].severity /\ t.alert = task[a].alert
  BY <1>1, Moved
<1>. HIDE DEF t
<1>4. task'[a] = t /\ Others(a)  BY <1>1, <1>2 DEF Others
<1>. QED  BY <1>3, <1>4

LEMMA NewTask ==
  ASSUME TypeOK, NEW a \in Actors, NEW t, task' = [task EXCEPT ![a] = t]
  PROVE  Others(a) /\ task'[a] = t
BY TypeParts DEF Others

LEMMA EndTask ==
  ASSUME TypeOK, NEW a \in Actors, End(a)
  PROVE  /\ Others(a)
         /\ task'[a].pc = "idle" /\ task'[a].request = "none" /\ task'[a].path = NoPath
         /\ task'[a].old = NoPath /\ task'[a].severity = "none"
<1>1. /\ Idle.pc = "idle" /\ Idle.request = "none" /\ Idle.path = NoPath
      /\ Idle.old = NoPath /\ Idle.severity = "none"
  BY DEF Idle
<1>2. Others(a) /\ task'[a] = Idle  BY NewTask DEF End
<1>. QED  BY <1>1, <1>2

LEMMA UploadTask ==
  ASSUME TypeOK, NEW a \in Actors, NEW request \in {"create", "update"}, NEW x, Upload(a, request, x)
  PROVE  /\ Others(a)
         /\ task[a].pc = "idle" /\ task'[a].pc \in {"check", "load"}
         /\ task'[a].path \in Paths /\ file' = [file EXCEPT ![task'[a].path] = x]
         /\ file[task'[a].path] = "unused"
<1>1. PICK p \in Paths :
        /\ file[p] = "unused" /\ file' = [file EXCEPT ![p] = x]
        /\ Begin(a, [Idle EXCEPT !.pc = IF request = "create" THEN "check" ELSE "load",
                                 !.request = request, !.path = p])
  BY DEF Upload
<1>. DEFINE t == [Idle EXCEPT !.pc = IF request = "create" THEN "check" ELSE "load",
                              !.request = request, !.path = p]
<1>2. t.path = p /\ t.pc \in {"check", "load"}  BY DEF Idle
<1>3. task' = [task EXCEPT ![a] = t] /\ task[a].pc = "idle"  BY <1>1 DEF Begin, At
<1>. HIDE DEF t
<1>4. Others(a) /\ task'[a] = t  BY <1>3, NewTask
<1>. QED  BY <1>1, <1>2, <1>3, <1>4

\* A row is made by the request that has stored the document, and had in hand by
\* it or by one that found it.
MakesRow(a) ==
  /\ Others(a)
  /\ anchored => anchored'
  /\ row' # NoRow => row # NoRow \/ task[a].pc = "insert"
  /\ HasRow(a)' => HasRow(a) \/ row # NoRow \/ task[a].pc = "insert"
  /\ task'[a].pc = "insert" => ~anchored /\ anchored' /\ UNCHANGED row

LEMMA OnceStep ==
  ASSUME StoredOnce, NEW a \in Actors, MakesRow(a)
  PROVE  StoredOnce'
<1>1. \A b \in Actors \ {a} : task'[b] = task[b] /\ (HasRow(b)' <=> HasRow(b))
  BY DEF MakesRow, Others, HasRow
<1>2. ASSUME ~anchored'
      PROVE  row' = NoRow /\ \A b \in Actors : ~HasRow(b)' /\ task'[b].pc # "insert"
  BY <1>1, <1>2 DEF StoredOnce, MakesRow
<1>3. ASSUME NEW b \in Actors, task'[b].pc = "insert"
      PROVE  row' = NoRow /\ \A c \in Actors : ~HasRow(c)' /\ (c # b => task'[c].pc # "insert")
  <2>1. CASE b = a
    <3>1. ~anchored /\ UNCHANGED row  BY <1>3, <2>1 DEF MakesRow
    <3>2. row = NoRow /\ \A c \in Actors : ~HasRow(c) /\ task[c].pc # "insert"
      BY <3>1 DEF StoredOnce
    <3>3. ~HasRow(a)'  BY <3>2 DEF MakesRow
    <3>. QED  BY <1>1, <2>1, <3>1, <3>2, <3>3
  <2>2. CASE b # a
    <3>1. task[b].pc = "insert" /\ anchored  BY <1>1, <1>3, <2>2 DEF StoredOnce
    <3>2. row = NoRow /\ \A c \in Actors : ~HasRow(c) /\ (c # b => task[c].pc # "insert")
      BY <3>1 DEF StoredOnce
    <3>3. row' = NoRow /\ ~HasRow(a)' /\ task'[a].pc # "insert"  BY <2>2, <3>1, <3>2 DEF MakesRow
    <3>. QED  BY <1>1, <2>2, <3>2, <3>3
  <2>. QED  BY <2>1, <2>2
<1>. QED  BY <1>2, <1>3 DEF StoredOnce

Untroubled == Spared({"overlap", "unacknowledged", "interrupted"})

\* Who gets hold of the row was alone with it, or deletes it as the others do.
TakesRow(a) ==
  HasRow(a)' =>
    \/ HasRow(a) /\ task'[a].request = task[a].request
    \/ task[a].pc = "insert"
    \/ \A b \in Actors : HasRow(b) => task'[a].request = "delete" /\ task[b].request = "delete"

\* What the step takes from under the others: at most what a request that has the
\* row may take from others that have it.
SparesOthers(a) ==
  /\ \/ row'.path = row.path /\ (row' = NoRow <=> row = NoRow)
     \/ task[a].pc \in {"insert", "set"}
     \/ task[a].pc = "deleteRow" /\ row' = NoRow
  /\ trail' \subseteq trail \/ (HasRow(a) /\ task[a].request # "delete")
  /\ \A p \in Paths : file[p] = "deleted" => file'[p] = "deleted"

\* What it no longer refers to has been deleted, or the row refers to it.
LosesNothing(a) ==
  /\ \A p \in Paths : file'[p] \in Contents => file[p] \in Contents \/ p = task'[a].path
  /\ \A p \in {task[a].path, task[a].old, row.path} :
       p \in Paths /\ file'[p] \in Contents => p \in {row'.path, task'[a].path, task'[a].old}
  /\ row' = NoRow /\ ~HasRow(a)' => trail' = {} \/ (trail' = trail /\ ~HasRow(a) /\ row = NoRow)

TidyStep(a) ==
  /\ MakesRow(a)
  /\ mishaps \subseteq mishaps'
  /\ Untroubled' => TakesRow(a) /\ SparesOthers(a) /\ LosesNothing(a) /\ Found(a)'

LEMMA TidyByStep ==
  ASSUME TidyInv, FilesInv', NEW a \in Actors, TidyStep(a)
  PROVE  TidyInv'
<1>1. StoredOnce'  BY OnceStep DEF TidyInv, TidyStep
<1>2. \A b \in Actors \ {a} : task'[b] = task[b] /\ (HasRow(b)' <=> HasRow(b))
  BY DEF TidyStep, MakesRow, Others, HasRow
<1>3. ASSUME Untroubled'
      PROVE  Alone /\ FoundStands /\ TakesRow(a) /\ SparesOthers(a) /\ LosesNothing(a) /\ Found(a)'
  BY <1>3 DEF TidyInv, TidyStep, Untroubled, Spared
<1>4. Untroubled' => Alone'
  <2>. SUFFICES ASSUME Untroubled', NEW b \in Actors, b # a, HasRow(a)', HasRow(b)
                PROVE  task'[a].request = "delete" /\ task[b].request = "delete"
    BY <1>2, <1>3 DEF Alone
  <2>. QED  BY <1>3 DEF TakesRow, Alone, TidyInv, StoredOnce
<1>5. Untroubled' => FoundStands'
  <2>. SUFFICES ASSUME Untroubled', NEW b \in Actors, b # a PROVE Found(b)'
    BY <1>3 DEF FoundStands
  <2>1. task'[b] = task[b] /\ Found(b) /\ Alone /\ SparesOthers(a)
    BY <1>2, <1>3 DEF FoundStands
  <2>2. CASE ~HasRow(b)  BY <2>1, <2>2 DEF HasRow, Found
  <2>3. CASE HasRow(b)
    <3>1. task[a].pc # "insert"  BY <2>3 DEF TidyInv, StoredOnce
    <3>2. task[a].pc = "set" => task[a].request = "update"
      BY DEF TidyInv, FilesInv, Equipped, InHand, Creating, Updating, Deleting, Alerting
    <3>3. HasRow(a) => task[a].request = "delete" /\ task[b].request = "delete"
      BY <2>1, <2>3 DEF Alone
    <3>4. task[a].pc # "set"  BY <3>2, <3>3 DEF HasRow
    <3>5. task[a].pc = "deleteRow" => task[b].pc \in Deleting
      BY <2>3, <3>3 DEF HasRow, TidyInv, FilesInv, Equipped, InHand, Creating, Updating, Deleting, Alerting
    <3>6. trail' \subseteq trail  BY <2>1, <3>3 DEF SparesOthers
    <3>7. \/ row'.path = row.path /\ (row' = NoRow <=> row = NoRow)
          \/ task[b].pc \in Deleting /\ row' = NoRow
      BY <2>1, <3>1, <3>4, <3>5 DEF SparesOthers
    <3>8. \A p \in Paths : file[p] = "deleted" => file'[p] = "deleted"  BY <2>1 DEF SparesOthers
    <3>. QED  BY <2>1, <3>6, <3>7, <3>8 DEF Found, Deleting
  <2>. QED  BY <2>2, <2>3
<1>6. NothingLeftBehind'
  <2>. SUFFICES ASSUME Untroubled'
                PROVE  /\ \A p \in Paths : file'[p] \in Contents =>
                            \/ p = row'.path
                            \/ p \in mishaps'
                            \/ \E b \in Actors : p \in {task'[b].path, task'[b].old}
                       /\ row' = NoRow /\ (\A b \in Actors : ~HasRow(b)') => trail' = {}
    BY DEF NothingLeftBehind, Untroubled
  <2>1. LosesNothing(a)  BY <1>3
  <2>2. /\ \A p \in Paths : file[p] \in Contents =>
             p = row.path \/ p \in mishaps \/ \E b \in Actors : p \in {task[b].path, task[b].old}
        /\ row = NoRow /\ (\A b \in Actors : ~HasRow(b)) => trail = {}
    BY DEF TidyInv, TidyStep, NothingLeftBehind, Untroubled, Spared
  <2>3. ASSUME NEW p \in Paths, file'[p] \in Contents
        PROVE  p = row'.path \/ p \in mishaps' \/ \E b \in Actors : p \in {task'[b].path, task'[b].old}
    <3>1. CASE p = task'[a].path  BY <3>1
    <3>2. CASE file[p] \in Contents /\ p \in {task[a].path, task[a].old, row.path}
      BY <2>1, <2>3, <3>2 DEF LosesNothing
    <3>3. CASE file[p] \in Contents /\ p \notin {task[a].path, task[a].old, row.path}
      BY <1>2, <2>2, <3>3 DEF TidyStep
    <3>. QED  BY <2>1, <2>3, <3>1, <3>2, <3>3 DEF LosesNothing
  <2>4. ASSUME row' = NoRow, \A b \in Actors : ~HasRow(b)' PROVE trail' = {}
    BY <1>2, <2>1, <2>2, <2>4 DEF LosesNothing
  <2>. QED  BY <2>3, <2>4
<1>. QED  BY <1>1, <1>4, <1>5, <1>6 DEF TidyInv, Untroubled

LEMMA TidyFacts ==
  ASSUME TidyInv, NEW a \in Actors
  PROVE  /\ TypeOK /\ RestTyped /\ FilesTyped /\ task \in [Actors -> Task] /\ task[a] \in Task
         /\ InHand(task[a])
         /\ NoPath \notin Paths /\ "deleted" \notin Contents /\ "unused" \notin Contents
         /\ \A mm : mishaps \subseteq mm /\ mm \cap {"overlap", "unacknowledged", "interrupted"} = {}
                      => Alone /\ Found(a)
BY TypeParts, UpkeepAssumption DEF TidyInv, FilesInv, Equipped, FoundStands, Spared

\* What the actions do to files: each puts an upload where nothing was, or
\* deletes one file.
LEMMA Gone ==
  ASSUME FilesTyped, "deleted" \notin Contents, NoPath \notin Paths, NEW q \in Paths \cup {NoPath}, Unlink(q)
  PROVE  /\ \A p \in Paths : file'[p] = file[p] \/ file'[p] = "deleted"
         /\ \A p \in Paths : file'[p] \in Contents => file[p] \in Contents
         /\ q \in Paths => file'[q] = "deleted"
BY Unlinked DEF FilesTyped

\* After trouble there is nothing to show but where rows come from.
LEMMA TroubledTidy ==
  ASSUME NEW a \in Actors, MakesRow(a), mishaps \subseteq mishaps', "unacknowledged" \in mishaps'
  PROVE  TidyStep(a)
BY DEF TidyStep, Untroubled, Spared

LEMMA FailTidy ==
  ASSUME TidyInv, NEW a \in Actors, Fail(a), UNCHANGED <<row, trail>>, anchored => anchored',
         task[a].pc \in {"check", "store", "insert", "load", "set"}, mishaps \subseteq mishaps'
  PROVE  TidyStep(a)
<1>1. /\ TypeOK /\ FilesTyped /\ task[a] \in Task /\ InHand(task[a])
      /\ NoPath \notin Paths /\ "deleted" \notin Contents
      /\ Untroubled' => Found(a)
  BY TidyFacts DEF Untroubled, Spared
<1>2. /\ Others(a) /\ task'[a].pc = "idle" /\ task'[a].path = NoPath /\ task'[a].old = NoPath
  BY <1>1, EndTask DEF Fail
<1>3. task[a].path \in Paths \cup {NoPath}  BY <1>1 DEF Task
<1>4. /\ \A p \in Paths : file'[p] = file[p] \/ file'[p] = "deleted"
      /\ \A p \in Paths : file'[p] \in Contents => file[p] \in Contents
      /\ task[a].path \in Paths => file'[task[a].path] = "deleted"
  BY <1>1, <1>3, Gone DEF Fail
<1>5. MakesRow(a)  BY <1>2 DEF MakesRow, HasRow
<1>6. TakesRow(a) /\ SparesOthers(a) /\ Found(a)'
  BY <1>2, <1>4 DEF TakesRow, SparesOthers, HasRow, Found
<1>7. ASSUME Untroubled' PROVE LosesNothing(a)
  <2>1. task[a].old \in Paths => task[a].pc = "set" /\ task[a].path \in Paths
    BY <1>1, <1>3 DEF InHand, Creating, Updating, Deleting, Alerting
  <2>2. task[a].old \in Paths => task[a].old = row.path  BY <1>1, <1>7, <2>1 DEF Found
  <2>3. HasRow(a) => row # NoRow  BY <1>1, <1>7 DEF HasRow, Found
  <2>. QED  BY <1>1, <1>4, <2>2, <2>3 DEF LosesNothing
<1>. QED  BY <1>5, <1>6, <1>7 DEF TidyStep

LEMMA UploadTidy ==
  ASSUME TidyInv, NEW a \in Actors, NEW request \in {"create", "update"}, NEW x \in Contents,
         Upload(a, request, x), UNCHANGED <<row, trail, anchored, mishaps>>
  PROVE  TidyStep(a)
<1>1. /\ TypeOK /\ FilesTyped /\ task[a] \in Task /\ InHand(task[a])
      /\ NoPath \notin Paths /\ "deleted" \notin Contents
  BY TidyFacts
<1>2. /\ Others(a) /\ task[a].pc = "idle" /\ task'[a].pc \in {"check", "load"}
      /\ task'[a].path \in Paths /\ file' = [file EXCEPT ![task'[a].path] = x]
      /\ file[task'[a].path] = "unused"
  BY <1>1, UploadTask
<1>3. /\ \A p \in Paths : file'[p] \in Contents => file[p] \in Contents \/ p = task'[a].path
      /\ \A p \in Paths : file[p] = "deleted" => file'[p] = "deleted"
  BY <1>1, <1>2 DEF FilesTyped
<1>4. MakesRow(a)  BY <1>2 DEF MakesRow, HasRow
<1>5. task[a].path = NoPath /\ task[a].old = NoPath
  BY <1>1, <1>2 DEF InHand, Creating, Updating, Deleting, Alerting
<1>6. TakesRow(a) /\ SparesOthers(a) /\ LosesNothing(a) /\ Found(a)'
  BY <1>1, <1>2, <1>3, <1>5 DEF TakesRow, SparesOthers, LosesNothing, HasRow, Found
<1>. QED  BY <1>4, <1>6 DEF TidyStep

LEMMA CreateTidy ==
  ASSUME TidyInv, NEW a \in Actors,
         CreateRequest(a) \/ CheckNotStored(a) \/ StoreDocument(a) \/ StoreFails(a) \/ UploadFails(a)
  PROVE  TidyStep(a)
<1>1. TypeOK /\ InHand(task[a])  BY TidyFacts
<1>2. UNCHANGED <<row, trail>> /\ UNCHANGED mishaps
  BY DEF CreateRequest, CheckNotStored, StoreDocument, StoreFails, UploadFails, NoMishap
<1>3. anchored => anchored'
  BY DEF CreateRequest, CheckNotStored, StoreDocument, StoreFails, UploadFails
<1>4. CASE CreateRequest(a)
  BY <1>4, UploadTidy, UpkeepAssumption DEF CreateRequest, NoMishap
<1>5. CASE Fail(a) /\ task[a].pc \in {"check", "store", "load"}
  BY <1>2, <1>3, <1>5, FailTidy
<1>6. ASSUME NEW pc \in {"store", "insert"}, GoTo(a, pc), UNCHANGED file, task[a].pc \in {"check", "store"},
             pc = "insert" => ~anchored /\ anchored'
      PROVE  TidyStep(a)
  <2>1. pc \in Places  BY DEF Places
  <2>2. Others(a) /\ task'[a].pc = pc /\ task'[a].path = task[a].path /\ task'[a].old = task[a].old
    BY <1>1, <1>6, <2>1, GoTask
  <2>3. MakesRow(a)  BY <1>2, <1>3, <1>6, <2>2 DEF MakesRow, HasRow
  <2>4. TakesRow(a) /\ SparesOthers(a) /\ LosesNothing(a) /\ Found(a)'
    BY <1>2, <1>6, <2>2 DEF TakesRow, SparesOthers, LosesNothing, HasRow, Found
  <2>. QED  BY <1>2, <2>3, <2>4 DEF TidyStep
<1>7. CASE CheckNotStored(a)  BY <1>5, <1>6, <1>7 DEF CheckNotStored, At
<1>8. CASE StoreDocument(a)  BY <1>5, <1>6, <1>8 DEF StoreDocument, At
<1>9. CASE StoreFails(a)  BY <1>5, <1>9 DEF StoreFails, At
<1>10. CASE UploadFails(a)  BY <1>5, <1>10 DEF UploadFails, At
<1>. QED  BY <1>4, <1>7, <1>8, <1>9, <1>10

LEMMA InsertTidy ==
  ASSUME TidyInv, NEW a \in Actors, InsertRow(a) \/ InsertFails(a) \/ InsertUnacknowledged(a)
  PROVE  TidyStep(a)
<1>1. /\ TypeOK /\ RestTyped /\ task[a] \in Task /\ InHand(task[a]) /\ NoPath \notin Paths
  BY TidyFacts
<1>2. task[a].pc = "insert" /\ UNCHANGED <<trail, anchored>> /\ mishaps \subseteq mishaps'
  BY DEF InsertRow, InsertFails, InsertUnacknowledged, At, NoMishap, Note
<1>3. task[a].path \in Paths /\ task[a].old = NoPath
  BY <1>1, <1>2 DEF InHand, Creating, Updating, Deleting, Alerting
<1>4. row = NoRow  BY <1>2 DEF TidyInv, StoredOnce
<1>5. CASE InsertRow(a)
  <2>1. "recordTx" \in Places  BY DEF Places
  <2>2. /\ Others(a) /\ task'[a].pc = "recordTx" /\ task'[a].path = task[a].path
        /\ task'[a].old = task[a].old /\ task'[a].request = task[a].request
    BY <1>1, <1>5, <2>1, GoTask DEF InsertRow
  <2>3. row' = Stored(task[a].path) /\ UNCHANGED file  BY <1>5 DEF InsertRow
  <2>4. row' # NoRow /\ row'.path = task[a].path  BY <1>3, <2>3, StoredTyped
  <2>5. MakesRow(a)  BY <1>2, <2>2 DEF MakesRow, HasRow
  <2>6. TakesRow(a) /\ SparesOthers(a) /\ Found(a)'
    BY <1>2, <2>2, <2>3, <2>4 DEF TakesRow, SparesOthers, HasRow, Found
  <2>7. row.path = NoPath  BY <1>4 DEF NoRow
  <2>8. LosesNothing(a)  BY <1>1, <1>3, <2>2, <2>3, <2>4, <2>7 DEF LosesNothing
  <2>. QED  BY <1>2, <2>5, <2>6, <2>8 DEF TidyStep
<1>6. CASE InsertFails(a)  BY <1>2, <1>6, FailTidy DEF InsertFails
<1>7. CASE InsertUnacknowledged(a)
  <2>1. Others(a) /\ task'[a].pc = "idle"  BY <1>1, <1>7, EndTask DEF InsertUnacknowledged, Fail
  <2>2. MakesRow(a)  BY <1>2, <2>1 DEF MakesRow, HasRow
  <2>3. "unacknowledged" \in mishaps'  BY <1>7 DEF InsertUnacknowledged, Note
  <2>. QED  BY <1>2, <2>2, <2>3, TroubledTidy
<1>. QED  BY <1>5, <1>6, <1>7

LEMMA RecordTidy ==
  ASSUME TidyInv, NEW a \in Actors, RecordTx(a) \/ RecordEvent(a) \/ RecordUpdate(a)
  PROVE  TidyStep(a)
<1>1. UNCHANGED <<row, anchored, file, mishaps>>
  BY DEF RecordTx, RecordEvent, RecordUpdate, NoMishap
<1>2. /\ TypeOK /\ task[a] \in Task /\ InHand(task[a]) /\ NoPath \notin Paths /\ "deleted" \notin Contents
      /\ Untroubled' => Found(a)
  BY <1>1, TidyFacts DEF Untroubled, Spared
<1>3. CASE RecordTx(a)
  <2>1. "recordEvent" \in Places /\ task[a].pc = "recordTx" /\ GoTo(a, "recordEvent")
    BY <1>3 DEF Places, RecordTx, At
  <2>2. /\ Others(a) /\ task'[a].pc = "recordEvent" /\ task'[a].path = task[a].path
        /\ task'[a].old = task[a].old /\ task'[a].request = task[a].request
    BY <1>2, <2>1, GoTask
  <2>3. task[a].request = "create"
    BY <1>2, <2>1 DEF InHand, Creating, Updating, Deleting, Alerting
  <2>4. MakesRow(a)  BY <1>1, <2>1, <2>2 DEF MakesRow, HasRow
  <2>5. TakesRow(a) /\ SparesOthers(a) /\ LosesNothing(a)
    BY <1>1, <2>1, <2>2, <2>3 DEF TakesRow, SparesOthers, LosesNothing, HasRow
  <2>6. Untroubled' => Found(a)'  BY <1>2, <1>1, <2>1, <2>2 DEF Found
  <2>. QED  BY <1>1, <2>4, <2>5, <2>6 DEF TidyStep
<1>4. CASE RecordEvent(a) \/ RecordUpdate(a)
  <2>1. task[a].pc \in {"recordEvent", "recordUpdate"} /\ End(a)
    BY <1>4 DEF RecordEvent, RecordUpdate, At
  <2>2. Others(a) /\ task'[a].pc = "idle"  BY <1>2, <2>1, EndTask
  <2>3. task[a].request # "delete" /\ (task[a].pc = "recordEvent" => task[a].old = NoPath)
    BY <1>2, <2>1 DEF InHand, Creating, Updating, Deleting, Alerting
  <2>4. MakesRow(a)  BY <1>1, <2>2 DEF MakesRow, HasRow
  <2>5. TakesRow(a) /\ SparesOthers(a) /\ Found(a)'
    BY <1>1, <2>1, <2>2, <2>3 DEF TakesRow, SparesOthers, HasRow, Found
  <2>6. Untroubled' => LosesNothing(a)
    BY <1>2, <1>1, <2>1, <2>3 DEF LosesNothing, Found
  <2>. QED  BY <1>1, <2>4, <2>5, <2>6 DEF TidyStep
<1>. QED  BY <1>3, <1>4

\* Whoever takes the row in hand without noting an overlap is alone with it.
LEMMA Overlooked ==
  ASSUME NEW request \in {"update", "delete"}, NoteOverlap(request), Untroubled'
  PROVE  \A b \in Actors : HasRow(b) => request = "delete" /\ task[b].request = "delete"
BY DEF NoteOverlap, Note, Untroubled, Spared

LEMMA LoadTidy ==
  ASSUME TidyInv, NEW a \in Actors, LoadForUpdate(a)
  PROVE  TidyStep(a)
<1>1. /\ TypeOK /\ RestTyped /\ task[a] \in Task /\ InHand(task[a]) /\ NoPath \notin Paths
  BY TidyFacts
<1>2. /\ task[a].pc = "load" /\ UNCHANGED <<row, trail, anchored>> /\ mishaps \subseteq mishaps'
  BY DEF LoadForUpdate, At, NoteOverlap, Note
<1>3. CASE row = NoRow
  BY <1>2, <1>3, FailTidy DEF LoadForUpdate
<1>4. CASE row # NoRow
  <2>. DEFINE old == IF task[a].path = NoPath THEN NoPath ELSE row.path
              t == [task[a] EXCEPT !.pc = "set", !.old = old]
  <2>1. task' = [task EXCEPT ![a] = t] /\ NoteOverlap("update") /\ UNCHANGED file
    BY <1>1, <1>4, TypeParts DEF LoadForUpdate
  <2>2. t.pc = "set" /\ t.path = task[a].path /\ t.old = old /\ t.request = task[a].request
    BY <1>1 DEF Task
  <2>3. (task[a].path \in Paths => old = row.path)  BY <1>1
  <2>. HIDE DEF t, old
  <2>4. Others(a) /\ task'[a] = t  BY <1>1, <2>1, NewTask
  <2>5. task[a].old = NoPath
    BY <1>1, <1>2 DEF InHand, Creating, Updating, Deleting, Alerting
  <2>6. MakesRow(a)  BY <1>2, <1>4, <2>2, <2>4 DEF MakesRow, HasRow
  <2>7. Untroubled' => TakesRow(a)  BY <2>1, Overlooked DEF TakesRow
  <2>8. SparesOthers(a) /\ LosesNothing(a)
    BY <1>1, <1>2, <1>4, <2>1, <2>2, <2>4, <2>5 DEF SparesOthers, LosesNothing
  <2>9. Found(a)'  BY <1>2, <1>4, <2>2, <2>3, <2>4 DEF Found
  <2>. QED  BY <1>2, <2>6, <2>7, <2>8, <2>9 DEF TidyStep
<1>. QED  BY <1>3, <1>4

LEMMA SetTidy ==
  ASSUME TidyInv, NEW a \in Actors, SetRow(a) \/ SetUnacknowledged(a)
  PROVE  TidyStep(a)
<1>1. task[a].pc = "set" /\ UNCHANGED <<trail, anchored>> /\ mishaps \subseteq mishaps'
  BY DEF SetRow, SetUnacknowledged, At, NoMishap, Note
<1>2. /\ TypeOK /\ RestTyped /\ FilesTyped /\ task[a] \in Task /\ InHand(task[a]) /\ NoPath \notin Paths
      /\ Untroubled' => Found(a)
  BY <1>1, TidyFacts DEF Untroubled, Spared
<1>3. task[a].path \in Paths \cup {NoPath}  BY <1>2 DEF Task
<1>4. ASSUME row # NoRow, row' = Replaced(task[a].path)
      PROVE  /\ row' # NoRow
             /\ task[a].path = NoPath => row' = row
             /\ task[a].path \in Paths => row'.path = task[a].path
  <2>1. task[a].path \in Paths => row'.path = task[a].path
    BY <1>2, <1>4 DEF Replaced, RestTyped, Certificates
  <2>2. task[a].path \in Paths => row' # NoRow  BY <1>2, <2>1 DEF NoRow
  <2>3. task[a].path = NoPath => row' = row  BY <1>4 DEF Replaced
  <2>. QED  BY <1>3, <1>4, <2>1, <2>2, <2>3
<1>5. CASE SetRow(a) /\ row # NoRow /\ row' = Replaced(task[a].path) /\ GoTo(a, "populate") /\ UNCHANGED file
  <2>1. "populate" \in Places  BY DEF Places
  <2>2. /\ Others(a) /\ task'[a].pc = "populate" /\ task'[a].path = task[a].path
        /\ task'[a].old = task[a].old /\ task'[a].request = task[a].request
    BY <1>2, <1>5, <2>1, GoTask
  <2>3. MakesRow(a)  BY <1>1, <1>5, <2>2 DEF MakesRow, HasRow
  <2>4. TakesRow(a) /\ SparesOthers(a)
    BY <1>1, <1>5, <2>2 DEF TakesRow, SparesOthers, HasRow
  <2>5. Found(a)'  BY <1>4, <1>5, <2>2 DEF Found
  <2>6. Untroubled' => LosesNothing(a)
    BY <1>2, <1>1, <1>3, <1>4, <1>5, <2>2 DEF LosesNothing, Found
  <2>. QED  BY <1>1, <2>3, <2>4, <2>5, <2>6 DEF TidyStep
<1>6. CASE SetRow(a) /\ Fail(a) /\ UNCHANGED row
  BY <1>1, <1>6, FailTidy
<1>7. CASE SetUnacknowledged(a)
  <2>1. Others(a) /\ task'[a].pc = "idle"  BY <1>2, <1>7, EndTask DEF SetUnacknowledged, Fail
  <2>2. MakesRow(a)  BY <1>1, <1>7, <2>1 DEF MakesRow, HasRow, SetUnacknowledged
  <2>3. "unacknowledged" \in mishaps'  BY <1>7 DEF SetUnacknowledged, Note
  <2>. QED  BY <1>1, <2>2, <2>3, TroubledTidy
<1>8. CASE SetRow(a)
  BY <1>5, <1>6, <1>8 DEF SetRow
<1>. QED  BY <1>7, <1>8

LEMMA PopulateTidy ==
  ASSUME TidyInv, NEW a \in Actors, Populate(a) \/ PopulateFails(a)
  PROVE  TidyStep(a)
<1>1. UNCHANGED <<row, trail, anchored>> /\ mishaps \subseteq mishaps'
  BY DEF Populate, PopulateFails, NoMishap, Note
<1>2. /\ TypeOK /\ FilesTyped /\ task[a] \in Task /\ InHand(task[a]) /\ NoPath \notin Paths
      /\ "deleted" \notin Contents
      /\ Untroubled' => Found(a)
  BY <1>1, TidyFacts DEF Untroubled, Spared
<1>3. task[a].old \in Paths \cup {NoPath}  BY <1>2 DEF Task
<1>4. CASE Populate(a)
  <2>1. "populate" \in Places /\ "recordUpdate" \in Places /\ task[a].pc = "populate"
    BY <1>4 DEF Places, Populate, At
  <2>2. /\ Others(a) /\ task'[a].pc = "recordUpdate" /\ task'[a].path = task[a].path
        /\ task'[a].old = task[a].old /\ task'[a].request = task[a].request
    BY <1>2, <1>4, <2>1, GoTask DEF Populate
  <2>3. /\ \A p \in Paths : file'[p] = file[p] \/ file'[p] = "deleted"
        /\ \A p \in Paths : file'[p] \in Contents => file[p] \in Contents
        /\ task[a].old \in Paths => file'[task[a].old] = "deleted"
    BY <1>2, <1>3, <1>4, Gone DEF Populate
  <2>4. MakesRow(a)  BY <1>1, <2>1, <2>2 DEF MakesRow, HasRow
  <2>5. TakesRow(a) /\ SparesOthers(a) /\ LosesNothing(a)
    BY <1>1, <2>1, <2>2, <2>3 DEF TakesRow, SparesOthers, LosesNothing, HasRow
  <2>6. Untroubled' => Found(a)'  BY <1>2, <1>1, <2>1, <2>2, <2>3 DEF Found
  <2>. QED  BY <1>1, <2>4, <2>5, <2>6 DEF TidyStep
<1>5. CASE PopulateFails(a)
  <2>1. Others(a) /\ task'[a].pc = "idle"  BY <1>2, <1>5, EndTask DEF PopulateFails, Fail
  <2>2. MakesRow(a)  BY <1>1, <2>1 DEF MakesRow, HasRow
  <2>3. "unacknowledged" \in mishaps'  BY <1>5 DEF PopulateFails, Note
  <2>. QED  BY <1>1, <2>2, <2>3, TroubledTidy
<1>. QED  BY <1>4, <1>5

\* Of a request or job that has nothing to do with the row.
LEMMA QuietTidy ==
  ASSUME TidyInv, NEW a \in Actors, Others(a),
         UNCHANGED <<trail, anchored, file>>, mishaps \subseteq mishaps',
         row'.path = row.path, row' = NoRow <=> row = NoRow,
         task[a].path = NoPath, task[a].old = NoPath, task[a].pc # "insert", ~HasRow(a),
         task'[a].pc # "insert", ~HasRow(a)'
  PROVE  TidyStep(a)
<1>1. NoPath \notin Paths  BY UpkeepAssumption
<1>2. MakesRow(a)  BY DEF MakesRow
<1>3. TakesRow(a) /\ SparesOthers(a) /\ LosesNothing(a) /\ Found(a)'
  BY <1>1 DEF TakesRow, SparesOthers, LosesNothing, HasRow, Found
<1>. QED  BY <1>2, <1>3 DEF TidyStep

LEMMA UpdateTidy ==
  ASSUME TidyInv, NEW a \in Actors,
         UpdateRequest(a) \/ LoadForUpdate(a) \/ SetRow(a) \/ SetUnacknowledged(a)
           \/ Populate(a) \/ PopulateFails(a)
  PROVE  TidyStep(a)
<1>1. CASE UpdateRequest(a)
  <2>1. UNCHANGED <<row, trail, anchored, mishaps>>  BY <1>1 DEF UpdateRequest, NoMishap
  <2>2. CASE \E x \in Contents : Upload(a, "update", x)  BY <2>1, <2>2, UploadTidy
  <2>3. CASE Begin(a, [Idle EXCEPT !.pc = "load", !.request = "update"]) /\ UNCHANGED file
    <3>1. TypeOK /\ InHand(task[a])  BY TidyFacts
    <3>2. task[a].pc = "idle"  BY <2>3 DEF Begin, At
    <3>3. task[a].path = NoPath /\ task[a].old = NoPath
      BY <3>1, <3>2 DEF InHand, Creating, Updating, Deleting, Alerting
    <3>. DEFINE t == [Idle EXCEPT !.pc = "load", !.request = "update"]
    <3>4. t.pc = "load"  BY DEF Idle
    <3>5. task' = [task EXCEPT ![a] = t]  BY <2>3 DEF Begin
    <3>. HIDE DEF t
    <3>6. Others(a) /\ task'[a].pc = "load"  BY <3>1, <3>4, <3>5, NewTask
    <3>. QED  BY <2>1, <2>3, <3>2, <3>3, <3>6, QuietTidy DEF HasRow
  <2>. QED  BY <1>1, <2>2, <2>3 DEF UpdateRequest
<1>. QED  BY <1>1, LoadTidy, SetTidy, PopulateTidy

LEMMA DeleteTidy ==
  ASSUME TidyInv, NEW a \in Actors, DeleteRequest(a) \/ Purge(a) \/ DeleteRow(a) \/ DeleteFile(a)
  PROVE  TidyStep(a)
<1>1. UNCHANGED anchored /\ mishaps \subseteq mishaps'
  BY DEF DeleteRequest, Purge, DeleteRow, DeleteFile, rowVars, NoMishap, NoteOverlap, Note
<1>2. /\ TypeOK /\ RestTyped /\ FilesTyped /\ task \in [Actors -> Task] /\ task[a] \in Task
      /\ InHand(task[a]) /\ NoPath \notin Paths /\ "deleted" \notin Contents
      /\ Untroubled' => Found(a)
  BY <1>1, TidyFacts DEF Untroubled, Spared
<1>3. CASE DeleteRequest(a)
  <2>. DEFINE t == [Idle EXCEPT !.pc = "purge", !.request = "delete", !.old = row.path, !.todo = Records]
  <2>1. t.pc = "purge" /\ t.request = "delete" /\ t.path = NoPath /\ t.old = row.path /\ t.todo = Records
    BY DEF Idle
  <2>2. task' = [task EXCEPT ![a] = t] /\ task[a].pc = "idle"  BY <1>3 DEF DeleteRequest, Begin, At
  <2>. HIDE DEF t
  <2>3. Others(a) /\ task'[a] = t  BY <1>2, <2>2, NewTask
  <2>4. row # NoRow /\ UNCHANGED <<row, trail, file>> /\ NoteOverlap("delete")
    BY <1>3 DEF DeleteRequest, rowVars
  <2>5. task[a].path = NoPath /\ task[a].old = NoPath
    BY <1>2, <2>2 DEF InHand, Creating, Updating, Deleting, Alerting
  <2>6. MakesRow(a)  BY <1>1, <2>1, <2>3, <2>4 DEF MakesRow
  <2>7. Untroubled' => TakesRow(a)  BY <2>1, <2>3, <2>4, Overlooked DEF TakesRow
  <2>8. SparesOthers(a) /\ LosesNothing(a)
    BY <1>2, <2>1, <2>3, <2>4, <2>5 DEF SparesOthers, LosesNothing
  <2>9. Found(a)'  BY <1>2, <2>1, <2>3, <2>4 DEF Found, RestTyped
  <2>. QED  BY <1>1, <2>6, <2>7, <2>8, <2>9 DEF TidyStep
<1>4. CASE Purge(a)
  <2>1. PICK kind \in task[a].todo :
          /\ trail' = trail \ {kind}
          /\ task' = [task EXCEPT ![a].todo = @ \ {kind},
                                  ![a].pc = IF task[a].todo = {kind} THEN "deleteRow" ELSE "purge"]
    BY <1>4 DEF Purge
  <2>. DEFINE pc == IF task[a].todo = {kind} THEN "deleteRow" ELSE "purge"
              todo == task[a].todo \ {kind}
              t == [task[a] EXCEPT !.todo = todo, !.pc = pc]
  <2>2. pc \in {"deleteRow", "purge"} /\ task[a].pc = "purge" /\ (pc = "deleteRow" => todo = {})
    BY <1>4 DEF Purge, At
  <2>3. task' = [task EXCEPT ![a] = t]  BY <1>2, <2>1
  <2>4. todo = task[a].todo \ {kind}  OBVIOUS
  <2>. HIDE DEF pc, todo
  <2>5. /\ t.pc = pc /\ t.request = task[a].request /\ t.path = task[a].path
        /\ t.old = task[a].old /\ t.todo = todo
    BY <1>2 DEF Task
  <2>. HIDE DEF t
  <2>6. Others(a) /\ task'[a] = t  BY <1>2, <2>3, NewTask
  <2>7. UNCHANGED <<row, file>>  BY <1>4 DEF Purge
  <2>8. MakesRow(a)  BY <1>1, <2>2, <2>5, <2>6, <2>7 DEF MakesRow, HasRow
  <2>9. TakesRow(a) /\ SparesOthers(a) /\ LosesNothing(a)
    BY <2>1, <2>2, <2>5, <2>6, <2>7 DEF TakesRow, SparesOthers, LosesNothing, HasRow
  <2>10. Untroubled' => Found(a)'  BY <1>2, <2>1, <2>2, <2>4, <2>5, <2>6, <2>7 DEF Found
  <2>. QED  BY <1>1, <2>8, <2>9, <2>10 DEF TidyStep
<1>5. CASE DeleteRow(a)
  <2>1. "deleteFile" \in Places /\ task[a].pc = "deleteRow" /\ row' = NoRow /\ UNCHANGED <<trail, file>>
    BY <1>5 DEF Places, DeleteRow, At
  <2>2. /\ Others(a) /\ task'[a].pc = "deleteFile" /\ task'[a].path = task[a].path
        /\ task'[a].old = task[a].old /\ task'[a].request = task[a].request
    BY <1>2, <1>5, <2>1, GoTask DEF DeleteRow
  <2>3. MakesRow(a)  BY <1>1, <2>1, <2>2 DEF MakesRow, HasRow
  <2>4. TakesRow(a) /\ SparesOthers(a)  BY <2>1, <2>2 DEF TakesRow, SparesOthers, HasRow
  <2>5. row = NoRow => row.path \notin Paths  BY <1>2 DEF NoRow
  <2>6. Untroubled' => LosesNothing(a) /\ Found(a)'
    BY <1>2, <2>1, <2>2, <2>5 DEF LosesNothing, Found, HasRow
  <2>. QED  BY <1>1, <2>3, <2>4, <2>6 DEF TidyStep
<1>6. CASE DeleteFile(a)
  <2>1. task[a].pc = "deleteFile" /\ End(a) /\ Unlink(task[a].old) /\ UNCHANGED <<row, trail>>
    BY <1>6 DEF DeleteFile, At
  <2>2. Others(a) /\ task'[a].pc = "idle"  BY <1>2, <2>1, EndTask
  <2>3. task[a].old \in Paths \cup {NoPath}  BY <1>2 DEF Task
  <2>4. /\ \A p \in Paths : file'[p] = file[p] \/ file'[p] = "deleted"
        /\ \A p \in Paths : file'[p] \in Contents => file[p] \in Contents
        /\ task[a].old \in Paths => file'[task[a].old] = "deleted"
    BY <1>2, <2>1, <2>3, Gone
  <2>5. task[a].path = NoPath
    BY <1>2, <2>1 DEF InHand, Creating, Updating, Deleting, Alerting
  <2>6. MakesRow(a)  BY <1>1, <2>1, <2>2 DEF MakesRow, HasRow
  <2>7. TakesRow(a) /\ SparesOthers(a) /\ Found(a)'
    BY <2>1, <2>2, <2>4 DEF TakesRow, SparesOthers, HasRow, Found
  <2>8. Untroubled' => LosesNothing(a)
    BY <1>2, <2>1, <2>4, <2>5 DEF LosesNothing, Found
  <2>. QED  BY <1>1, <2>6, <2>7, <2>8 DEF TidyStep
<1>. QED  BY <1>3, <1>4, <1>5, <1>6

\* What the expiry job and the alerts do to the row: its status at most.
LEMMA JobRow ==
  ASSUME TypeOK, NEW a \in Actors,
         RunExpiryJob(a) \/ SaveExpired(a) \/ FindAlert(a) \/ CreateAlert(a) \/ Escalate(a)
  PROVE  /\ Others(a)
         /\ UNCHANGED <<trail, anchored, file>> /\ mishaps \subseteq mishaps'
         /\ row'.path = row.path /\ (row' = NoRow <=> row = NoRow)
         /\ task[a].pc \in {"idle", "expire", "findAlert", "createAlert", "escalate"}
         /\ task'[a].pc \in {"idle", "expire", "findAlert", "createAlert", "escalate"}
<1>1. RestTyped /\ task \in [Actors -> Task] /\ task[a] \in Task  BY TypeParts
<1>2. UNCHANGED <<trail, anchored, file>> /\ mishaps \subseteq mishaps'
  BY DEF RunExpiryJob, SaveExpired, FindAlert, CreateAlert, Escalate, rowVars, NoMishap, Note
<1>3. row'.path = row.path /\ (row' = NoRow <=> row = NoRow)
  BY <1>1 DEF RunExpiryJob, SaveExpired, FindAlert, CreateAlert, Escalate, rowVars, RestTyped,
              Certificates, NoRow
<1>4. CASE RunExpiryJob(a)
  <2>1. PICK pc \in {"expire", "findAlert"}, s \in {"critical", "warning"} :
          task[a].pc = "idle" /\ task' = [task EXCEPT ![a] = [Idle EXCEPT !.pc = pc, !.request = "job", !.severity = s]]
    BY <1>4 DEF RunExpiryJob, Begin, At
  <2>. DEFINE t == [Idle EXCEPT !.pc = pc, !.request = "job", !.severity = s]
  <2>2. t.pc = pc  BY DEF Idle
  <2>3. task' = [task EXCEPT ![a] = t]  BY <2>1
  <2>. HIDE DEF t
  <2>4. Others(a) /\ task'[a].pc = pc  BY <2>2, <2>3, NewTask
  <2>. QED  BY <1>2, <1>3, <2>1, <2>4
<1>5. ASSUME task[a].pc \in {"expire", "findAlert", "createAlert", "escalate"},
             End(a) \/ GoTo(a, "findAlert") \/ GoTo(a, "createAlert")
      PROVE  Others(a) /\ task'[a].pc \in {"idle", "findAlert", "createAlert"}
  <2>1. "findAlert" \in Places /\ "createAlert" \in Places  BY DEF Places
  <2>. QED  BY <1>5, <2>1, EndTask, GoTask
<1>6. ASSUME NEW i, task' = [task EXCEPT ![a].pc = "escalate", ![a].alert = i]
      PROVE  Others(a) /\ task'[a].pc = "escalate"
  <2>. DEFINE t == [task[a] EXCEPT !.pc = "escalate", !.alert = i]
  <2>1. task' = [task EXCEPT ![a] = t]  BY <1>1, <1>6
  <2>2. t.pc = "escalate"  BY <1>1 DEF Task
  <2>. HIDE DEF t
  <2>. QED  BY <2>1, <2>2, NewTask
<1>7. CASE SaveExpired(a) \/ CreateAlert(a) \/ Escalate(a)
  BY <1>2, <1>3, <1>5, <1>7 DEF SaveExpired, CreateAlert, Escalate, At
<1>8. CASE FindAlert(a)
  <2>1. task[a].pc = "findAlert"  BY <1>8 DEF FindAlert, At
  <2>2. \/ End(a) \/ GoTo(a, "createAlert")
        \/ \E i \in OpenAlerts : task' = [task EXCEPT ![a].pc = "escalate", ![a].alert = i]
    BY <1>8 DEF FindAlert
  <2>. QED  BY <1>2, <1>3, <1>5, <1>6, <2>1, <2>2
<1>. QED  BY <1>4, <1>7, <1>8

LEMMA JobTidy ==
  ASSUME TidyInv, NEW a \in Actors,
         RunExpiryJob(a) \/ SaveExpired(a) \/ FindAlert(a) \/ CreateAlert(a) \/ Escalate(a)
  PROVE  TidyStep(a)
<1>1. TypeOK /\ InHand(task[a])  BY TidyFacts
<1>2. task[a].pc \in {"idle", "expire", "findAlert", "createAlert", "escalate"}  BY <1>1, JobRow
<1>3. task[a].path = NoPath /\ task[a].old = NoPath
  BY <1>1, <1>2 DEF InHand, Creating, Updating, Deleting, Alerting
<1>4. ~HasRow(a) /\ task[a].pc # "insert"  BY <1>2 DEF HasRow
<1>5. ~HasRow(a)' /\ task'[a].pc # "insert"  BY <1>1, JobRow DEF HasRow
<1>. QED  BY <1>1, <1>3, <1>4, <1>5, JobRow, QuietTidy

LEMMA UnmovedTidy ==
  ASSUME TidyInv, FilesInv', UNCHANGED <<file, task, trail>>, mishaps \subseteq mishaps',
         anchored => anchored', row'.path = row.path, row' = NoRow <=> row = NoRow
  PROVE  TidyInv'
<1>1. \A b \in Actors : HasRow(b)' <=> HasRow(b)  BY DEF HasRow
<1>2. StoredOnce'  BY <1>1 DEF TidyInv, StoredOnce
<1>3. Untroubled' => Untroubled  BY DEF Untroubled, Spared
<1>4. Untroubled' => Alone' /\ FoundStands'
  BY <1>1, <1>3 DEF TidyInv, Untroubled, Alone, FoundStands, Found
<1>5. NothingLeftBehind'
  BY <1>1, <1>3 DEF TidyInv, NothingLeftBehind, Untroubled
<1>. QED  BY <1>2, <1>4, <1>5 DEF TidyInv, Untroubled

LEMMA RefuseTidy ==
  ASSUME TidyInv, FilesInv', RefuseCreate
  PROVE  TidyInv'
<1>1. UNCHANGED <<row, trail, anchored, task>> /\ mishaps \subseteq mishaps'
  BY DEF RefuseCreate, Note
<1>2. PICK p \in Paths :
        file[p] = "unused" /\ p \in mishaps' /\ file' = [file EXCEPT ![p] = Original]
  BY DEF RefuseCreate, Note
<1>3. FilesTyped  BY TypeParts DEF TidyInv, FilesInv
<1>4. \A q \in Paths : q # p => file'[q] = file[q]  BY <1>2, <1>3 DEF FilesTyped
<1>5. \A b \in Actors : HasRow(b)' <=> HasRow(b)  BY <1>1 DEF HasRow
<1>6. StoredOnce'  BY <1>1, <1>5 DEF TidyInv, StoredOnce
<1>7. Untroubled' => Untroubled  BY <1>1 DEF Untroubled, Spared
<1>8. Untroubled => Alone'  BY <1>1, <1>5 DEF TidyInv, Untroubled, Alone
<1>9. ASSUME Untroubled, NEW b \in Actors PROVE Found(b)'
  <2>1. Found(b)  BY <1>9 DEF TidyInv, Untroubled, FoundStands
  <2>2. task[b].old # p  BY <1>2 DEF TidyInv, FilesInv, InUse
  <2>. QED  BY <1>1, <1>4, <2>1, <2>2 DEF Found
<1>10. NothingLeftBehind'
  BY <1>1, <1>2, <1>4, <1>5, <1>7 DEF TidyInv, NothingLeftBehind, Untroubled
<1>. QED  BY <1>6, <1>7, <1>8, <1>9, <1>10 DEF TidyInv, Untroubled, FoundStands

LEMMA InterruptTidy ==
  ASSUME TidyInv, FilesInv', Interrupt
  PROVE  TidyInv'
<1>1. \A b \in Actors : task'[b] = Idle \/ task'[b] = task[b]  BY DEF Interrupt
<1>2. UNCHANGED <<row, anchored>> /\ "interrupted" \in mishaps'  BY DEF Interrupt, rowVars, Note
<1>3. ~Untroubled'  BY <1>2 DEF Untroubled, Spared
<1>4. Idle.pc = "idle"  BY DEF Idle
<1>5. StoredOnce'  BY <1>1, <1>2, <1>4 DEF TidyInv, StoredOnce, HasRow
<1>. QED  BY <1>3, <1>5 DEF TidyInv, Untroubled, NothingLeftBehind

LEMMA TidyInitial == Init => TidyInv
<1>. SUFFICES ASSUME Init PROVE TidyInv
  OBVIOUS
<1>1. FilesInv  BY FilesInitial
<1>2. \A a \in Actors : task[a] = Idle  BY DEF Init
<1>3. Idle.pc = "idle"  BY DEF Idle
<1>4. \A a \in Actors : ~HasRow(a) /\ task[a].pc # "insert" /\ Found(a)
  BY <1>2, <1>3 DEF HasRow, Found
<1>5. ~anchored => row = NoRow  BY DEF Init
<1>6. StoredOnce /\ Alone /\ FoundStands  BY <1>4, <1>5 DEF StoredOnce, Alone, FoundStands
<1>7. row = NoRow => trail = {}  BY StoredTyped DEF Init
<1>8. \A p \in Paths : file[p] \in Contents => p = row.path
  BY StoredTyped, UpkeepAssumption DEF Init
<1>. QED  BY <1>1, <1>6, <1>7, <1>8 DEF TidyInv, NothingLeftBehind

LEMMA TidyNext == TidyInv /\ [Next]_vars => TidyInv'
<1>. SUFFICES ASSUME TidyInv, [Next]_vars PROVE TidyInv'
  OBVIOUS
<1>1. FilesInv'  BY FilesNext DEF TidyInv
<1>2. CASE UNCHANGED vars
  BY <1>1, <1>2, UnmovedTidy DEF vars
<1>3. CASE \E a \in Actors : TidyStep(a)
  BY <1>1, <1>3, TidyByStep
<1>4. CASE StoreRaw \/ ResolveAlert \/ Pass \/ Reconcile
  <2>1. RestTyped  BY TypeParts DEF TidyInv, FilesInv
  <2>2. row'.path = row.path /\ (row' = NoRow <=> row = NoRow)
    BY <1>4, <2>1 DEF StoreRaw, ResolveAlert, Pass, Reconcile, rowVars, RestTyped, Certificates, NoRow
  <2>3. UNCHANGED <<file, task, trail>> /\ (anchored => anchored') /\ mishaps \subseteq mishaps'
    BY <1>4 DEF StoreRaw, ResolveAlert, Pass, Reconcile, rowVars, Note
  <2>. QED  BY <1>1, <2>2, <2>3, UnmovedTidy
<1>5. CASE Interrupt  BY <1>1, <1>5, InterruptTidy
<1>6. CASE RefuseCreate  BY <1>1, <1>6, RefuseTidy
<1>. QED
  BY <1>2, <1>3, <1>4, <1>5, <1>6, CreateTidy, InsertTidy, RecordTidy, UpdateTidy, DeleteTidy, JobTidy DEF Next

(* The uploads of requests that failed, replaced files and what belonged   *)
(* to a deleted certificate do not stay, unless requests overlapped on the *)
(* row, one was cut short, or a write took effect and was reported as      *)
(* failed; of refused creations, just their own uploads stay.              *)
THEOREM NothingLeftBehindCorrect == Spec => []NothingLeftBehind
<1>1. TidyInv => NothingLeftBehind  BY DEF TidyInv
<1>. QED  BY TidyInitial, TidyNext, <1>1, PTL DEF Spec

-----------------------------------------------------------------------------
(* Alerts follow the expiry. *)

Warned == Spared({"interrupted", "reconciled"})
OneByOne == Spared({"joined"})

CriticalJobOf(a) == JobAt(a) /\ task[a].severity = "critical"

\* A step as far as alerts are concerned: none is lost or weakened; a certificate
\* is marked by a job that goes on to its alert; an alert is made where none is open.
AlertStep(a) ==
  /\ Others(a)
  /\ mishaps \subseteq mishaps'
  /\ \A i \in DOMAIN alerts :
       i \in DOMAIN alerts' /\ (alerts[i].severity = "critical" => alerts'[i].severity = "critical")
  /\ task'[a].pc = "escalate" => task'[a].alert \in DOMAIN alerts'
  /\ row'.status = "expired" => row.status = "expired" \/ CriticalJobOf(a)'
  /\ CriticalJobOf(a) => CriticalJobOf(a)' \/ CriticalAlert' \/ row'.status # "expired"
  /\ OneByOne' /\ JobAt(a)' => JobAt(a) \/ \A b \in Actors : ~JobAt(b)
  /\ \/ OpenAlerts' \subseteq OpenAlerts
     \/ task[a].pc = "createAlert" /\ task'[a].pc = "idle" /\ \E n \in Nat : OpenAlerts' \subseteq OpenAlerts \cup {n}
  /\ task'[a].pc = "createAlert" => OpenAlerts = {} /\ UNCHANGED alerts

LEMMA AlertsByStep ==
  ASSUME AlertsInv, TypeOK', Equipped', NEW a \in Actors, AlertStep(a)
  PROVE  AlertsInv'
<1>1. \A b \in Actors \ {a} : task'[b] = task[b] /\ (JobAt(b)' <=> JobAt(b))
  BY DEF AlertStep, Others, JobAt
<1>2. ASSUME NEW b \in Actors, task'[b].pc = "escalate" PROVE task'[b].alert \in DOMAIN alerts'
  <2>1. CASE b = a  BY <1>2, <2>1 DEF AlertStep
  <2>2. CASE b # a  BY <1>1, <1>2, <2>2 DEF AlertsInv, AlertStep
  <2>. QED  BY <2>1, <2>2
<1>3. ASSUME row'.status = "expired", Warned' PROVE CriticalAlert' \/ CriticalJob'
  <2>1. CriticalJobOf(a)' => CriticalJob'  BY DEF CriticalJobOf, CriticalJob
  <2>2. CASE CriticalAlert
    <3>1. PICK i \in DOMAIN alerts : alerts[i].severity = "critical"  BY <2>2 DEF CriticalAlert
    <3>. QED  BY <3>1 DEF AlertStep, CriticalAlert
  <2>3. CASE CriticalJobOf(a)  BY <1>3, <2>1, <2>3 DEF AlertStep
  <2>4. ASSUME NEW b \in Actors, b # a, CriticalJobOf(b) PROVE CriticalJob'
    BY <1>1, <2>4 DEF CriticalJobOf, CriticalJob
  <2>5. CASE row.status = "expired"
    <3>1. Warned  BY <1>3 DEF AlertStep, Warned, Spared
    <3>2. CriticalAlert \/ \E b \in Actors : CriticalJobOf(b)
      BY <2>5, <3>1 DEF AlertsInv, Warned, CriticalJob, CriticalJobOf
    <3>. QED  BY <2>2, <2>3, <2>4, <3>2
  <2>. QED  BY <1>3, <2>1, <2>5 DEF AlertStep
<1>4. ASSUME OneByOne'
      PROVE  OneJob' /\ OneOpen' /\ \A b \in Actors : task'[b].pc = "createAlert" => OpenAlerts' = {}
  <2>1. OneJob /\ OneOpen /\ \A b \in Actors : task[b].pc = "createAlert" => OpenAlerts = {}
    BY <1>4 DEF AlertsInv, AlertStep, OneByOne, Spared
  <2>2. OneJob'
    <3>. SUFFICES ASSUME NEW b \in Actors, b # a, JobAt(a)', JobAt(b)' PROVE FALSE
      BY <1>1, <2>1 DEF OneJob
    <3>. QED  BY <1>1, <1>4, <2>1 DEF AlertStep, OneJob
  <2>3. OneOpen'
    <3>1. CASE OpenAlerts' \subseteq OpenAlerts  BY <2>1, <3>1 DEF OneOpen
    <3>2. CASE task[a].pc = "createAlert" /\ \E n \in Nat : OpenAlerts' \subseteq OpenAlerts \cup {n}
      <4>1. OpenAlerts = {}  BY <2>1, <3>2
      <4>. QED  BY <3>2, <4>1 DEF OneOpen
    <3>. QED  BY <3>1, <3>2 DEF AlertStep
  <2>4. ASSUME NEW b \in Actors, task'[b].pc = "createAlert" PROVE OpenAlerts' = {}
    <3>1. CASE b = a
      <4>1. OpenAlerts = {} /\ alerts' = alerts  BY <2>4, <3>1 DEF AlertStep
      <4>. QED  BY <4>1 DEF OpenAlerts
    <3>2. CASE b # a
      <4>1. task[b].pc = "createAlert" /\ OpenAlerts = {}  BY <1>1, <2>1, <2>4, <3>2
      <4>2. JobAt(b)  BY <4>1 DEF AlertsInv, Equipped, InHand, Creating, Updating, Deleting, Alerting, JobAt
      <4>3. ~JobAt(a)  BY <2>1, <3>2, <4>2 DEF OneJob
      <4>4. task[a].pc # "createAlert"
        BY <4>3 DEF AlertsInv, Equipped, InHand, Creating, Updating, Deleting, Alerting, JobAt
      <4>5. OpenAlerts' \subseteq OpenAlerts  BY <4>4 DEF AlertStep
      <4>. QED  BY <4>1, <4>5
    <3>. QED  BY <3>1, <3>2
  <2>. QED  BY <2>2, <2>3, <2>4
<1>. QED  BY <1>2, <1>3, <1>4 DEF AlertsInv, Warned, OneByOne

\* The administration API has nothing to do with alerts.
LEMMA RequestAlerts ==
  ASSUME TidyInv, Equipped', NEW a \in Actors,
         \/ CreateRequest(a) \/ UpdateRequest(a) \/ UploadFails(a)
         \/ CheckNotStored(a) \/ StoreDocument(a) \/ StoreFails(a)
         \/ InsertRow(a) \/ InsertFails(a) \/ InsertUnacknowledged(a)
         \/ RecordTx(a) \/ RecordEvent(a)
         \/ LoadForUpdate(a) \/ SetRow(a) \/ SetUnacknowledged(a)
         \/ Populate(a) \/ PopulateFails(a) \/ RecordUpdate(a)
         \/ DeleteRequest(a) \/ Purge(a) \/ DeleteRow(a) \/ DeleteFile(a)
  PROVE  AlertStep(a)
<1>1. TypeOK /\ RestTyped /\ task \in [Actors -> Task] /\ task[a] \in Task /\ InHand(task[a])
  BY TidyFacts
<1>2. Others(a) /\ mishaps \subseteq mishaps'
  BY CreateTidy, InsertTidy, RecordTidy, UpdateTidy, DeleteTidy DEF TidyStep, MakesRow
<1>3. UNCHANGED alerts
  BY DEF CreateRequest, UpdateRequest, UploadFails, CheckNotStored, StoreDocument, StoreFails,
         InsertRow, InsertFails, InsertUnacknowledged, RecordTx, RecordEvent, LoadForUpdate, SetRow,
         SetUnacknowledged, Populate, PopulateFails, RecordUpdate, DeleteRequest, Purge, DeleteRow,
         DeleteFile, jobVars
<1>4. row'.status = "expired" => row.status = "expired"
  <2>1. NoRow.status = "absent" /\ \A p : Stored(p).status = "issued"  BY DEF NoRow, Stored
  <2>2. \A p : Replaced(p).status = row.status  BY <1>1 DEF Replaced, RestTyped, Certificates
  <2>3. row' = row \/ row' = NoRow \/ (\E p : row' = Stored(p)) \/ (\E p : row' = Replaced(p))
    BY DEF CreateRequest, UpdateRequest, UploadFails, CheckNotStored, StoreDocument, StoreFails,
           InsertRow, InsertFails, InsertUnacknowledged, RecordTx, RecordEvent, LoadForUpdate, SetRow,
           SetUnacknowledged, Populate, PopulateFails, RecordUpdate, DeleteRequest, Purge, DeleteRow,
           DeleteFile, rowVars
  <2>. QED  BY <2>1, <2>2, <2>3
<1>5. task[a].pc \notin Alerting
  BY DEF CreateRequest, UpdateRequest, UploadFails, CheckNotStored, StoreDocument, StoreFails,
         InsertRow, InsertFails, InsertUnacknowledged, RecordTx, RecordEvent, LoadForUpdate, SetRow,
         SetUnacknowledged, Populate, PopulateFails, RecordUpdate, DeleteRequest, Purge, DeleteRow,
         DeleteFile, At, Begin, Upload, Alerting
<1>6. task'[a].pc \notin Alerting
  <2>1. CASE End(a)  BY <1>1, <2>1, EndTask DEF Alerting
  <2>2. ASSUME NEW pc \in Places \ Alerting, GoTo(a, pc) PROVE task'[a].pc \notin Alerting
    BY <1>1, <2>2, GoTask
  <2>3. ASSUME NEW request \in {"create", "update"}, \E x : Upload(a, request, x)
        PROVE  task'[a].pc \notin Alerting
    BY <1>1, <2>3, UploadTask DEF Alerting
  <2>4. ASSUME NEW t, t.pc \notin Alerting, task' = [task EXCEPT ![a] = t]
        PROVE  task'[a].pc \notin Alerting
    BY <1>1, <2>4, NewTask
  <2>5. CASE CreateRequest(a)  BY <2>3, <2>5 DEF CreateRequest
  <2>6. CASE UpdateRequest(a)
    <3>. DEFINE t == [Idle EXCEPT !.pc = "load", !.request = "update"]
    <3>1. t.pc \notin Alerting  BY DEF Idle, Alerting
    <3>. HIDE DEF t
    <3>2. (\E x : Upload(a, "update", x)) \/ task' = [task EXCEPT ![a] = t]
      BY <2>6 DEF UpdateRequest, Begin, t
    <3>. QED  BY <2>3, <2>4, <3>1, <3>2
  <2>7. CASE LoadForUpdate(a)
    <3>. DEFINE old == IF task[a].path = NoPath THEN NoPath ELSE row.path
                t == [task[a] EXCEPT !.pc = "set", !.old = old]
    <3>1. t.pc \notin Alerting  BY <1>1 DEF Task, Alerting
    <3>2. End(a) \/ task' = [task EXCEPT ![a] = t]  BY <1>1, <2>7 DEF LoadForUpdate, Fail
    <3>. HIDE DEF t
    <3>. QED  BY <2>1, <2>4, <3>1, <3>2
  <2>8. CASE DeleteRequest(a)
    <3>. DEFINE t == [Idle EXCEPT !.pc = "purge", !.request = "delete", !.old = row.path, !.todo = Records]
    <3>1. t.pc \notin Alerting  BY DEF Idle, Alerting
    <3>2. task' = [task EXCEPT ![a] = t]  BY <2>8 DEF DeleteRequest, Begin
    <3>. HIDE DEF t
    <3>. QED  BY <2>4, <3>1, <3>2
  <2>9. CASE Purge(a)
    <3>1. PICK kind \in task[a].todo :
            task' = [task EXCEPT ![a].todo = @ \ {kind},
                                 ![a].pc = IF task[a].todo = {kind} THEN "deleteRow" ELSE "purge"]
      BY <2>9 DEF Purge
    <3>. DEFINE pc == IF task[a].todo = {kind} THEN "deleteRow" ELSE "purge"
                t == [task[a] EXCEPT !.todo = @ \ {kind}, !.pc = pc]
    <3>2. pc \notin Alerting  BY DEF Alerting
    <3>3. task' = [task EXCEPT ![a] = t]  BY <1>1, <3>1
    <3>. HIDE DEF pc
    <3>4. t.pc \notin Alerting  BY <1>1, <3>2 DEF Task
    <3>. HIDE DEF t
    <3>. QED  BY <2>4, <3>3, <3>4
  <2>10. ASSUME CheckNotStored(a) \/ StoreDocument(a) \/ InsertRow(a) \/ RecordTx(a) \/ SetRow(a)
                  \/ Populate(a) \/ DeleteRow(a)
         PROVE  task'[a].pc \notin Alerting
    <3>1. {"store", "insert", "recordTx", "recordEvent", "populate", "recordUpdate", "deleteFile"}
            \subseteq Places \ Alerting
      BY DEF Places, Alerting
    <3>2. End(a) \/ \E pc \in {"store", "insert", "recordTx", "recordEvent", "populate", "recordUpdate",
                               "deleteFile"} : GoTo(a, pc)
      BY <2>10 DEF CheckNotStored, StoreDocument, InsertRow, RecordTx, SetRow, Populate, DeleteRow, Fail
    <3>. QED  BY <2>1, <2>2, <3>1, <3>2
  <2>11. ASSUME UploadFails(a) \/ StoreFails(a) \/ InsertFails(a) \/ InsertUnacknowledged(a)
                  \/ RecordEvent(a) \/ SetUnacknowledged(a) \/ PopulateFails(a) \/ RecordUpdate(a)
                  \/ DeleteFile(a)
         PROVE  task'[a].pc \notin Alerting
    <3>1. End(a)
      BY <2>11 DEF UploadFails, StoreFails, InsertFails, InsertUnacknowledged, RecordEvent,
                   SetUnacknowledged, PopulateFails, RecordUpdate, DeleteFile, Fail
    <3>. QED  BY <2>1, <3>1
  <2>. QED  BY <2>5, <2>6, <2>7, <2>8, <2>9, <2>10, <2>11
<1>7. \A t : InHand(t) /\ t.pc \notin Alerting => t.request # "job"
  BY DEF InHand, Creating, Updating, Deleting, Alerting
<1>8. ~JobAt(a) /\ ~JobAt(a)'  BY <1>1, <1>5, <1>6, <1>7 DEF JobAt, Equipped
<1>9. OpenAlerts' = OpenAlerts  BY <1>3 DEF OpenAlerts
<1>. QED
  BY <1>2, <1>3, <1>4, <1>6, <1>8, <1>9 DEF AlertStep, CriticalJobOf, Alerting

\* A list of alerts that gets one more, or one of whose alerts is changed.
LEMMA AlertsChange ==
  ASSUME alerts \in Seq(Alerts)
  PROVE  /\ \A x \in Alerts : alerts' = Append(alerts, x) =>
              /\ DOMAIN alerts' = DOMAIN alerts \cup {Len(alerts) + 1}
              /\ Len(alerts) + 1 \notin DOMAIN alerts
              /\ alerts'[Len(alerts) + 1] = x
              /\ \A i \in DOMAIN alerts : alerts'[i] = alerts[i]
         /\ \A k \in DOMAIN alerts : alerts' = [alerts EXCEPT ![k].severity = "critical"] =>
              /\ DOMAIN alerts' = DOMAIN alerts
              /\ alerts'[k].severity = "critical" /\ alerts'[k].resolved = alerts[k].resolved
              /\ \A i \in DOMAIN alerts : i # k => alerts'[i] = alerts[i]
         /\ \A k \in DOMAIN alerts : alerts' = [alerts EXCEPT ![k].resolved = TRUE] =>
              /\ DOMAIN alerts' = DOMAIN alerts
              /\ alerts'[k].resolved = TRUE /\ alerts'[k].severity = alerts[k].severity
              /\ \A i \in DOMAIN alerts : i # k => alerts'[i] = alerts[i]
<1>. DEFINE n == Len(alerts)
<1>1. n \in Nat /\ DOMAIN alerts = 1 .. n /\ \A i \in DOMAIN alerts : alerts[i] \in Alerts
  OBVIOUS
<1>2. ASSUME NEW x \in Alerts, alerts' = Append(alerts, x)
      PROVE  /\ DOMAIN alerts' = DOMAIN alerts \cup {n + 1}
             /\ n + 1 \notin DOMAIN alerts
             /\ alerts'[n + 1] = x
             /\ \A i \in DOMAIN alerts : alerts'[i] = alerts[i]
  <2>1. DOMAIN alerts' = 1 .. n + 1 /\ alerts'[n + 1] = x /\ \A i \in 1 .. n : alerts'[i] = alerts[i]
    BY <1>2
  <2>. HIDE DEF n
  <2>2. 1 .. n + 1 = (1 .. n) \cup {n + 1} /\ n + 1 \notin 1 .. n  BY <1>1
  <2>. QED  BY <1>1, <2>1, <2>2
<1>. HIDE DEF n
<1>3. ASSUME NEW k \in DOMAIN alerts, alerts' = [alerts EXCEPT ![k].severity = "critical"]
      PROVE  /\ DOMAIN alerts' = DOMAIN alerts
             /\ alerts'[k].severity = "critical" /\ alerts'[k].resolved = alerts[k].resolved
             /\ \A i \in DOMAIN alerts : i # k => alerts'[i] = alerts[i]
  BY <1>1, <1>3 DEF Alerts
<1>4. ASSUME NEW k \in DOMAIN alerts, alerts' = [alerts EXCEPT ![k].resolved = TRUE]
      PROVE  /\ DOMAIN alerts' = DOMAIN alerts
             /\ alerts'[k].resolved = TRUE /\ alerts'[k].severity = alerts[k].severity
             /\ \A i \in DOMAIN alerts : i # k => alerts'[i] = alerts[i]
  BY <1>1, <1>4 DEF Alerts
<1>. QED  BY <1>2, <1>3, <1>4 DEF n

\* What nobody touches is as it was.
LEMMA SameAlerts ==
  ASSUME UNCHANGED alerts
  PROVE  /\ OpenAlerts' = OpenAlerts
         /\ \A i \in DOMAIN alerts :
              i \in DOMAIN alerts' /\ (alerts[i].severity = "critical" => alerts'[i].severity = "critical")
BY DEF OpenAlerts

LEMMA JobAlerts ==
  ASSUME AlertsInv, NEW a \in Actors,
         RunExpiryJob(a) \/ SaveExpired(a) \/ FindAlert(a) \/ CreateAlert(a) \/ Escalate(a)
  PROVE  AlertStep(a)
<1>1. /\ TypeOK /\ RestTyped /\ task \in [Actors -> Task] /\ task[a] \in Task /\ InHand(task[a])
      /\ task[a].pc = "escalate" => task[a].alert \in DOMAIN alerts
  BY TypeParts DEF AlertsInv, Equipped
<1>2. Others(a) /\ mishaps \subseteq mishaps'  BY <1>1, JobRow
<1>3. task[a].pc \in {"expire", "findAlert", "createAlert", "escalate"} => JobAt(a)
  BY <1>1 DEF InHand, Creating, Updating, Deleting, Alerting, JobAt
<1>4. CASE RunExpiryJob(a)
  <2>1. PICK pc \in {"expire", "findAlert"}, s \in {"critical", "warning"} :
          task[a].pc = "idle" /\ task' = [task EXCEPT ![a] = [Idle EXCEPT !.pc = pc, !.request = "job", !.severity = s]]
    BY <1>4 DEF RunExpiryJob, Begin, At
  <2>. DEFINE t == [Idle EXCEPT !.pc = pc, !.request = "job", !.severity = s]
  <2>2. t.pc = pc  BY DEF Idle
  <2>3. task' = [task EXCEPT ![a] = t]  BY <2>1
  <2>. HIDE DEF t
  <2>4. task'[a].pc = pc  BY <1>1, <2>2, <2>3, NewTask
  <2>5. UNCHANGED <<row, alerts>>  BY <1>4 DEF RunExpiryJob, rowVars
  <2>6. ~CriticalJobOf(a)
    BY <1>1, <2>1 DEF CriticalJobOf, JobAt, InHand, Creating, Updating, Deleting, Alerting
  <2>7. OneByOne' => \A b \in Actors : ~JobAt(b)
    BY <1>4 DEF RunExpiryJob, Note, OneByOne, Spared
  <2>. QED  BY <1>2, <2>4, <2>5, <2>6, <2>7, SameAlerts DEF AlertStep
<1>5. CASE SaveExpired(a)
  <2>1. task[a].pc = "expire" /\ UNCHANGED alerts  BY <1>5 DEF SaveExpired, At, jobVars
  <2>2. JobAt(a) /\ task[a].severity = "critical"
    BY <1>1, <1>3, <2>1 DEF InHand
  <2>3. CASE row = NoRow
    <3>1. End(a) /\ row'.status = "absent"  BY <1>5, <2>3 DEF SaveExpired, NoRow
    <3>2. task'[a].pc = "idle" /\ task'[a].request = "none"  BY <1>1, <3>1, EndTask
    <3>. QED  BY <1>2, <2>1, <2>2, <3>1, <3>2, SameAlerts DEF AlertStep, JobAt
  <2>4. CASE row # NoRow
    <3>1. GoTo(a, "findAlert") /\ "findAlert" \in Places  BY <1>5, <2>4 DEF SaveExpired, Places
    <3>2. /\ task'[a].pc = "findAlert" /\ task'[a].request = task[a].request
          /\ task'[a].severity = task[a].severity
      BY <1>1, <3>1, GoTask
    <3>3. CriticalJobOf(a)'  BY <2>2, <3>2 DEF CriticalJobOf, JobAt
    <3>. QED  BY <1>2, <2>1, <2>2, <3>2, <3>3, SameAlerts DEF AlertStep
  <2>. QED  BY <2>3, <2>4
<1>6. CASE FindAlert(a)
  <2>1. task[a].pc = "findAlert" /\ JobAt(a) /\ UNCHANGED <<row, alerts>>
    BY <1>3, <1>6 DEF FindAlert, At, jobVars, rowVars
  <2>2. CASE OpenAlerts = {} /\ GoTo(a, "createAlert")
    <3>1. "createAlert" \in Places  BY DEF Places
    <3>2. /\ task'[a].pc = "createAlert" /\ task'[a].request = task[a].request
          /\ task'[a].severity = task[a].severity
      BY <1>1, <2>2, <3>1, GoTask
    <3>3. CriticalJobOf(a) => CriticalJobOf(a)'  BY <3>2 DEF CriticalJobOf, JobAt
    <3>. QED  BY <1>2, <2>1, <2>2, <3>2, <3>3, SameAlerts DEF AlertStep
  <2>3. ASSUME NEW i \in OpenAlerts, task' = [task EXCEPT ![a].pc = "escalate", ![a].alert = i]
        PROVE  AlertStep(a)
    <3>. DEFINE t == [task[a] EXCEPT !.pc = "escalate", !.alert = i]
    <3>1. task' = [task EXCEPT ![a] = t]  BY <1>1, <2>3
    <3>2. /\ t.pc = "escalate" /\ t.alert = i /\ t.request = task[a].request
          /\ t.severity = task[a].severity
      BY <1>1 DEF Task
    <3>. HIDE DEF t
    <3>3. task'[a] = t  BY <1>1, <3>1, NewTask
    <3>4. CriticalJobOf(a) => CriticalJobOf(a)'  BY <3>2, <3>3 DEF CriticalJobOf, JobAt
    <3>5. task'[a].alert \in DOMAIN alerts'  BY <2>1, <3>2, <3>3 DEF OpenAlerts
    <3>. QED  BY <1>2, <2>1, <3>2, <3>3, <3>4, <3>5, SameAlerts DEF AlertStep
  <2>4. ASSUME NEW i \in OpenAlerts, ~(task[a].severity = "critical" /\ alerts[i].severity # "critical"), End(a)
        PROVE  AlertStep(a)
    <3>1. task'[a].pc = "idle" /\ task'[a].request = "none"  BY <1>1, <2>4, EndTask
    <3>2. CriticalJobOf(a) => CriticalAlert'
      BY <2>1, <2>4 DEF CriticalJobOf, CriticalAlert, OpenAlerts
    <3>. QED  BY <1>2, <2>1, <3>1, <3>2, SameAlerts DEF AlertStep, JobAt
  <2>. QED  BY <1>6, <2>2, <2>3, <2>4 DEF FindAlert
<1>7. CASE CreateAlert(a)
  <2>. DEFINE x == [severity |-> task[a].severity, resolved |-> FALSE]
  <2>1. task[a].pc = "createAlert" /\ End(a) /\ UNCHANGED row /\ alerts' = Append(alerts, x)
    BY <1>7 DEF CreateAlert, At, rowVars
  <2>2. task[a].severity \in {"warning", "critical"}
    BY <1>1, <2>1 DEF InHand, Alerting, Task
  <2>3. x \in Alerts /\ x.severity = task[a].severity  BY <2>2 DEF Alerts
  <2>. HIDE DEF x
  <2>4. /\ DOMAIN alerts' = DOMAIN alerts \cup {Len(alerts) + 1}
        /\ alerts'[Len(alerts) + 1] = x
        /\ \A i \in DOMAIN alerts : alerts'[i] = alerts[i]
    BY <1>1, <2>1, <2>3, AlertsChange DEF RestTyped
  <2>5. OpenAlerts' \subseteq OpenAlerts \cup {Len(alerts) + 1}  BY <2>4 DEF OpenAlerts
  <2>6. Len(alerts) + 1 \in Nat  BY <1>1 DEF RestTyped
  <2>7. task'[a].pc = "idle" /\ task'[a].request = "none"  BY <1>1, <2>1, EndTask
  <2>8. CriticalJobOf(a) => CriticalAlert'  BY <2>3, <2>4 DEF CriticalJobOf, CriticalAlert
  <2>. QED  BY <1>2, <2>1, <2>4, <2>5, <2>6, <2>7, <2>8 DEF AlertStep, JobAt
<1>8. CASE Escalate(a)
  <2>. DEFINE k == task[a].alert
  <2>1. /\ task[a].pc = "escalate" /\ End(a) /\ UNCHANGED row
        /\ alerts' = [alerts EXCEPT ![k].severity = "critical"] /\ k \in DOMAIN alerts
    BY <1>1, <1>8 DEF Escalate, At, rowVars
  <2>. HIDE DEF k
  <2>2. /\ DOMAIN alerts' = DOMAIN alerts
        /\ alerts'[k].severity = "critical" /\ alerts'[k].resolved = alerts[k].resolved
        /\ \A i \in DOMAIN alerts : i # k => alerts'[i] = alerts[i]
    BY <1>1, <2>1, AlertsChange DEF RestTyped
  <2>3. OpenAlerts' \subseteq OpenAlerts  BY <2>2 DEF OpenAlerts
  <2>4. CriticalAlert'  BY <2>1, <2>2 DEF CriticalAlert
  <2>5. \A i \in DOMAIN alerts : alerts[i].severity = "critical" => alerts'[i].severity = "critical"
    BY <2>2
  <2>6. task'[a].pc = "idle" /\ task'[a].request = "none"  BY <1>1, <2>1, EndTask
  <2>. QED  BY <1>2, <2>1, <2>2, <2>3, <2>4, <2>5, <2>6 DEF AlertStep, JobAt
<1>. QED  BY <1>4, <1>5, <1>6, <1>7, <1>8

\* Beside the jobs, alerts are resolved at most.
LEMMA UnmovedAlerts ==
  ASSUME AlertsInv, TypeOK', UNCHANGED task, mishaps \subseteq mishaps',
         row'.status = "expired" => row.status = "expired" \/ "reconciled" \in mishaps',
         OpenAlerts' \subseteq OpenAlerts,
         \A i \in DOMAIN alerts :
           i \in DOMAIN alerts' /\ (alerts[i].severity = "critical" => alerts'[i].severity = "critical")
  PROVE  AlertsInv'
<1>1. Equipped' /\ (OneJob => OneJob') /\ (CriticalJob => CriticalJob')
  BY DEF AlertsInv, Equipped, OneJob, CriticalJob, JobAt
<1>2. CriticalAlert => CriticalAlert'  BY DEF CriticalAlert
<1>3. OneOpen => OneOpen'  BY DEF OneOpen
<1>4. Warned' /\ row'.status = "expired" => Warned /\ row.status = "expired"
  BY DEF Warned, Spared
<1>5. OneByOne' => OneByOne  BY DEF OneByOne, Spared
<1>6. OpenAlerts = {} => OpenAlerts' = {}  OBVIOUS
<1>. QED  BY <1>1, <1>2, <1>3, <1>4, <1>5, <1>6 DEF AlertsInv, Warned, OneByOne

LEMMA InterruptAlerts ==
  ASSUME AlertsInv, TypeOK', Equipped', Interrupt
  PROVE  AlertsInv'
<1>1. \A b \in Actors : task'[b] = Idle \/ task'[b] = task[b]  BY DEF Interrupt
<1>2. UNCHANGED alerts /\ mishaps \subseteq mishaps' /\ "interrupted" \in mishaps'
  BY DEF Interrupt, jobVars, Note
<1>3. ~Warned' /\ (OneByOne' => OneByOne)  BY <1>2 DEF Warned, OneByOne, Spared
<1>4. Idle.pc = "idle" /\ Idle.request = "none"  BY DEF Idle
<1>5. OneJob => OneJob'  BY <1>1, <1>4 DEF OneJob, JobAt
<1>6. OneOpen => OneOpen' /\ OpenAlerts' = OpenAlerts  BY <1>2, SameAlerts DEF OneOpen
<1>7. OneByOne' => OneJob' /\ OneOpen' /\ \A b \in Actors : task'[b].pc = "createAlert" => OpenAlerts' = {}
  BY <1>1, <1>3, <1>4, <1>5, <1>6 DEF AlertsInv, OneByOne
<1>8. \A b \in Actors : task'[b].pc = "escalate" => task'[b].alert \in DOMAIN alerts'
  BY <1>1, <1>2, <1>4 DEF AlertsInv
<1>. QED  BY <1>3, <1>7, <1>8 DEF AlertsInv, Warned, OneByOne

LEMMA BesidesAlerts ==
  ASSUME AlertsInv, TypeOK', StoreRaw \/ ResolveAlert \/ Pass \/ Reconcile
  PROVE  AlertsInv'
<1>1. RestTyped  BY TypeParts DEF AlertsInv
<1>2. UNCHANGED task /\ mishaps \subseteq mishaps'
  BY DEF StoreRaw, ResolveAlert, Pass, Reconcile, rowVars, Note
<1>3. row'.status = "expired" => row.status = "expired" \/ "reconciled" \in mishaps'
  BY <1>1 DEF StoreRaw, ResolveAlert, Pass, Reconcile, rowVars, Note, RestTyped, Certificates
<1>4. CASE ResolveAlert
  <2>1. PICK k \in OpenAlerts : alerts' = [alerts EXCEPT ![k].resolved = TRUE]  BY <1>4 DEF ResolveAlert
  <2>2. k \in DOMAIN alerts  BY DEF OpenAlerts
  <2>3. /\ DOMAIN alerts' = DOMAIN alerts
        /\ alerts'[k].resolved = TRUE /\ alerts'[k].severity = alerts[k].severity
        /\ \A i \in DOMAIN alerts : i # k => alerts'[i] = alerts[i]
    BY <1>1, <2>1, <2>2, AlertsChange DEF RestTyped
  <2>4. OpenAlerts' \subseteq OpenAlerts  BY <2>3 DEF OpenAlerts
  <2>5. \A i \in DOMAIN alerts :
          i \in DOMAIN alerts' /\ (alerts[i].severity = "critical" => alerts'[i].severity = "critical")
    BY <2>3
  <2>. QED  BY <1>2, <1>3, <2>4, <2>5, UnmovedAlerts
<1>5. CASE UNCHANGED alerts
  BY <1>2, <1>3, <1>5, SameAlerts, UnmovedAlerts
<1>. QED  BY <1>4, <1>5 DEF StoreRaw, Pass, Reconcile, jobVars

LEMMA AlertsInitial == Init => AlertsInv
<1>. SUFFICES ASSUME Init PROVE AlertsInv
  OBVIOUS
<1>1. TypeOK /\ Equipped  BY FilesInitial DEF FilesInv
<1>2. \A a \in Actors : task[a] = Idle  BY DEF Init
<1>3. Idle.pc = "idle" /\ Idle.request = "none"  BY DEF Idle
<1>4. row.status # "expired"  BY StoredTyped DEF Init, NoRow
<1>5. OpenAlerts = {}  BY DEF Init, OpenAlerts
<1>. QED  BY <1>1, <1>2, <1>3, <1>4, <1>5 DEF AlertsInv, OneJob, OneOpen, JobAt

LEMMA AlertsNext == TidyInv /\ AlertsInv /\ [Next]_vars => AlertsInv'
<1>. SUFFICES ASSUME TidyInv, AlertsInv, [Next]_vars PROVE AlertsInv'
  OBVIOUS
<1>1. TypeOK' /\ Equipped'  BY FilesNext DEF TidyInv, FilesInv
<1>2. CASE UNCHANGED vars
  BY <1>1, <1>2, SameAlerts, UnmovedAlerts DEF vars
<1>3. CASE \E a \in Actors : AlertStep(a)
  BY <1>1, <1>3, AlertsByStep
<1>4. CASE StoreRaw \/ ResolveAlert \/ Pass \/ Reconcile  BY <1>1, <1>4, BesidesAlerts
<1>5. CASE Interrupt  BY <1>1, <1>5, InterruptAlerts
<1>6. CASE RefuseCreate
  <2>1. UNCHANGED <<row, task, alerts>> /\ mishaps \subseteq mishaps'
    BY <1>6 DEF RefuseCreate, Note, jobVars
  <2>. QED  BY <1>1, <2>1, SameAlerts, UnmovedAlerts
<1>. QED  BY <1>1, <1>2, <1>3, <1>4, <1>5, <1>6, RequestAlerts, JobAlerts DEF Next

LEMMA UpkeepInvariant == Spec => []UpkeepInv
<1>1. Init => UpkeepInv  BY TidyInitial, AlertsInitial DEF UpkeepInv
<1>2. UpkeepInv /\ [Next]_vars => UpkeepInv'  BY TidyNext, AlertsNext DEF UpkeepInv
<1>. QED  BY <1>1, <1>2, PTL DEF Spec

LEMMA AtMostOne ==
  ASSUME OneOpen
  PROVE  Cardinality(OpenAlerts) <= 1
<1>1. CASE OpenAlerts = {}
  BY <1>1, FS_EmptySet
<1>2. CASE OpenAlerts # {}
  <2>1. PICK i \in OpenAlerts : TRUE  BY <1>2
  <2>2. OpenAlerts = {i}  BY <2>1 DEF OneOpen
  <2>. QED  BY <2>2, FS_Singleton
<1>. QED  BY <1>1, <1>2

(* A certificate the expiry job has marked has a critical alert, or the    *)
(* job is on its way to one, unless it was cut short or reconcile marked   *)
(* the certificate; open alerts are not doubled unless two runs overlapped.*)
THEOREM AlertsFollowExpiryCorrect == Spec => []AlertsFollowExpiry
<1>1. AlertsInv => AlertsFollowExpiry
  BY AtMostOne DEF AlertsInv, AlertsFollowExpiry, CriticalAlert, CriticalJob
<1>. QED  BY UpkeepInvariant, <1>1, PTL DEF UpkeepInv

(* Rows, files, records, alerts and requests have their types.             *)
THEOREM UpkeepTypeCorrect == Spec => []TypeOK
<1>1. UpkeepInv => TypeOK  BY DEF UpkeepInv, AlertsInv
<1>. QED  BY UpkeepInvariant, <1>1, PTL
=============================================================================
