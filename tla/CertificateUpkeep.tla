-------------------------- MODULE CertificateUpkeep --------------------------
(***************************************************************************)
(* What surrounds a Certificate's lifecycle: the administration API        *)
(* (controllers/certificates.controller.js, services/certificate.service.js)*)
(* creates it from an uploaded file, replaces its file and deletes it; the *)
(* expiry job (services/jobs/expiry.job.js) marks it expired and raises an *)
(* alert, which somebody resolves (services/alert.service.js).             *)
(*                                                                         *)
(* One certificate is modelled, with uploads on disk. Either it is created *)
(* here, from the content Original, and has no expiry date; or it has come *)
(* through the document API, with a file that has been replaced once and an*)
(* expiry date.                                                            *)
(*                                                                         *)
(* A member of Actors is a request or a run of the expiry job; others run  *)
(* between two awaits of it. Names, subjects and notifications are left    *)
(* out. Calls that fail are the actions ...Fails; ...Unacknowledged is a   *)
(* call that took effect and was reported as failed.                       *)
(***************************************************************************)
EXTENDS Naturals, Sequences, FiniteSets

CONSTANTS
  Actors,     \* concurrent requests and jobs
  Paths,      \* file names the uploads may get
  NoPath,     \* no file
  Contents,   \* contents of files, which stand for their SHA-256, too
  Original,   \* the content the certificate is created from
  MaxResolved, \* bound: alerts that are resolved
  MaxFaults   \* bound: crashes, calls that fail, hashes stored by hand, repairs by reconcile

\* Of what has gone on that the code does not provide for.
MishapKinds == {"overlap", "unacknowledged", "interrupted", "joined", "reconciled"}

ASSUME UpkeepAssumption ==
  /\ NoPath \notin Paths
  /\ Paths \cap MishapKinds = {}
  /\ Original \in Contents
  /\ Contents \cap {"unused", "deleted"} = {}
  /\ MaxResolved \in Nat
  /\ MaxFaults \in Nat

VARIABLES
  row,      \* the Certificate
  term,     \* its expiry date is "soon" (in the window of warnings), "past", or "never"
  file,     \* what is on disk at each path
  anchored, \* the contract knows the document Original
  trail,    \* kinds of records that refer to the Certificate: CertificateEvent, Web3Tx
  alerts,   \* the Alerts of kind expiry, in order of creation
  task,     \* what each actor is doing
  left,     \* what the bounds still allow: [resolved, faults]
  mishaps   \* kinds of mishap that have gone on; uploads that a refusal has left on disk

vars == <<row, term, file, anchored, trail, alerts, task, left, mishaps>>
rowVars == <<row, trail, anchored, file>>
jobVars == <<term, alerts>>

Records == {"event", "tx"}
NoRow == [path |-> NoPath, hash |-> Original, status |-> "absent"]

\* path: the uploaded file; old: the file to delete; todo: records still to be
\* deleted; severity: what the job raises; alert: the open alert it has found.
Idle == [pc |-> "idle", request |-> "none", path |-> NoPath, old |-> NoPath,
         todo |-> {}, severity |-> "none", alert |-> 0]

Stored(p) == [path |-> p, hash |-> Original, status |-> "issued"]

Init ==
  /\ \/ /\ row = NoRow
        /\ term = "never"
        /\ file = [p \in Paths |-> "unused"]
        /\ anchored = FALSE
        /\ trail = {}
     \/ \E p, q \in Paths :
          /\ p # q
          /\ row = Stored(p)
          /\ term = "soon"
          /\ file = [r \in Paths |-> CASE r = p -> Original [] r = q -> "deleted" [] OTHER -> "unused"]
          /\ anchored = TRUE
          /\ trail = Records
  /\ alerts = <<>>
  /\ task = [a \in Actors |-> Idle]
  /\ left = [resolved |-> MaxResolved, faults |-> MaxFaults]
  /\ mishaps = {}

-----------------------------------------------------------------------------
At(a, pc) == task[a].pc = pc
GoTo(a, pc) == task' = [task EXCEPT ![a].pc = pc]
End(a) == task' = [task EXCEPT ![a] = Idle]

\* Actors are alike: an idle one that comes first is as good as any other.
Begin(a, t) ==
  /\ a = CHOOSE b \in Actors : (\E c \in Actors : At(c, "idle")) => At(b, "idle")
  /\ At(a, "idle")
  /\ task' = [task EXCEPT ![a] = t]

Note(kind) == mishaps' = mishaps \cup {kind}
Fault == left.faults > 0 /\ left' = [left EXCEPT !.faults = @ - 1]
NoMishap == UNCHANGED <<left, mishaps>>

\* fs.unlinkSync after fs.existsSync, if there is a path.
Unlink(p) == file' = IF p = NoPath THEN file ELSE [file EXCEPT ![p] = "deleted"]

\* multer has written the upload under a name of its own before the handler runs;
\* the handler computes its hash.
Upload(a, request, x) ==
  \E p \in Paths :
    /\ file[p] = "unused"
    /\ file' = [file EXCEPT ![p] = x]
    /\ Begin(a, [Idle EXCEPT !.pc = IF request = "create" THEN "check" ELSE "load",
                             !.request = request, !.path = p])

\* Mutant: a failed request leaves its upload where it is.
FailKeepingUpload(a) == End(a) /\ UNCHANGED file

\* The controllers delete the upload when the service throws.
Fail(a) == End(a) /\ Unlink(task[a].path)

\* Hashing fails, or the call that follows.
UploadFails(a) ==
  /\ At(a, "check") \/ At(a, "load")
  /\ Fault
  /\ Fail(a)
  /\ UNCHANGED <<row, trail, anchored, mishaps>> /\ UNCHANGED jobVars

-----------------------------------------------------------------------------
(* createCertificate *)

CreateRequest(a) ==
  /\ Upload(a, "create", Original)
  /\ UNCHANGED <<row, trail, anchored>> /\ UNCHANGED jobVars /\ NoMishap

\* Without a name and a subject it is refused at once, and nobody deletes the upload.
RefuseCreate ==
  /\ \E p \in Paths :
       /\ file[p] = "unused"
       /\ file' = [file EXCEPT ![p] = Original]
       /\ Note(p)
  /\ UNCHANGED <<row, trail, anchored, task, left>> /\ UNCHANGED jobVars

\* readDocument: a document the contract knows is refused.
CheckNotStored(a) ==
  /\ At(a, "check")
  /\ IF anchored THEN Fail(a) ELSE GoTo(a, "store") /\ UNCHANGED file
  /\ UNCHANGED <<row, trail, anchored>> /\ UNCHANGED jobVars /\ NoMishap

\* storeDocument, which the contract refuses if it knows the document by now.
StoreDocument(a) ==
  /\ At(a, "store")
  /\ IF anchored
     THEN Fail(a) /\ UNCHANGED anchored
     ELSE anchored' = TRUE /\ GoTo(a, "insert") /\ UNCHANGED file
  /\ UNCHANGED <<row, trail>> /\ UNCHANGED jobVars /\ NoMishap

\* With or without effect (a receipt that does not come in time).
StoreFails(a) ==
  /\ At(a, "store")
  /\ Fault
  /\ anchored' \in {anchored, TRUE}
  /\ Fail(a)
  /\ UNCHANGED <<row, trail, mishaps>> /\ UNCHANGED jobVars

\* The operations surface (controllers/soroban.controller.js) stores any hash.
StoreRaw ==
  /\ ~anchored
  /\ Fault
  /\ anchored' = TRUE
  /\ UNCHANGED <<row, trail, file, task, mishaps>> /\ UNCHANGED jobVars

InsertRow(a) ==
  /\ At(a, "insert")
  /\ row' = Stored(task[a].path)
  /\ GoTo(a, "recordTx")
  /\ UNCHANGED <<trail, anchored, file>> /\ UNCHANGED jobVars /\ NoMishap

InsertFails(a) ==
  /\ At(a, "insert")
  /\ Fault
  /\ Fail(a)
  /\ UNCHANGED <<row, trail, anchored, mishaps>> /\ UNCHANGED jobVars

InsertUnacknowledged(a) ==
  /\ At(a, "insert")
  /\ Fault /\ Note("unacknowledged")
  /\ row' = Stored(task[a].path)
  /\ Fail(a)
  /\ UNCHANGED <<trail, anchored>> /\ UNCHANGED jobVars

\* Web3Tx.create and CertificateEvent.create are best effort.
RecordTx(a) ==
  /\ At(a, "recordTx")
  /\ trail' \in {trail, trail \cup {"tx"}}
  /\ GoTo(a, "recordEvent")
  /\ UNCHANGED <<row, anchored, file>> /\ UNCHANGED jobVars /\ NoMishap

RecordEvent(a) ==
  /\ At(a, "recordEvent")
  /\ trail' \in {trail, trail \cup {"event"}}
  /\ End(a)
  /\ UNCHANGED <<row, anchored, file>> /\ UNCHANGED jobVars /\ NoMishap

-----------------------------------------------------------------------------
(* updateCertificate *)

\* With a new file, or of name and subject alone.
UpdateRequest(a) ==
  /\ \/ \E x \in Contents : Upload(a, "update", x)
     \/ Begin(a, [Idle EXCEPT !.pc = "load", !.request = "update"]) /\ UNCHANGED file
  /\ UNCHANGED <<row, trail, anchored>> /\ UNCHANGED jobVars /\ NoMishap

\* Requests that have found the row, or made it, and are not through with it.
HasRow(b) == task[b].pc \in {"recordTx", "recordEvent", "set", "populate", "recordUpdate",
                             "purge", "deleteRow", "deleteFile"}

\* Two requests have the row in hand. Two deletions do each other no harm.
NoteOverlap(request) ==
  IF \E b \in Actors : HasRow(b) /\ ~(request = "delete" /\ task[b].request = "delete")
  THEN Note("overlap") ELSE UNCHANGED mishaps

LoadForUpdate(a) ==
  /\ At(a, "load")
  /\ IF row = NoRow
     THEN Fail(a) /\ UNCHANGED mishaps
     ELSE /\ task' = [task EXCEPT ![a].pc = "set",
                                  ![a].old = IF task[a].path = NoPath THEN NoPath ELSE row.path]
          /\ NoteOverlap("update")
          /\ UNCHANGED file
  /\ UNCHANGED <<row, trail, anchored, left>> /\ UNCHANGED jobVars

\* The fields of findByIdAndUpdate's $set that matter here.
Replaced(p) == IF p = NoPath THEN row ELSE [row EXCEPT !.path = p, !.hash = file[p]]

\* Mutant: the old file is deleted first.
SetRowLast(a) ==
  /\ At(a, "set")
  /\ \/ row # NoRow /\ row' = Replaced(task[a].path) /\ GoTo(a, "populate") /\ Unlink(task[a].old)
     \/ (row = NoRow \/ task[a].path # NoPath) /\ End(a) /\ Unlink(task[a].old) /\ UNCHANGED row
  /\ UNCHANGED <<trail, anchored>> /\ UNCHANGED jobVars /\ NoMishap

\* findByIdAndUpdate finds no row, or another certificate has that hash.
SetRow(a) ==
  /\ At(a, "set")
  /\ \/ row # NoRow /\ row' = Replaced(task[a].path) /\ GoTo(a, "populate") /\ UNCHANGED file
     \/ (row = NoRow \/ task[a].path # NoPath) /\ Fail(a) /\ UNCHANGED row
  /\ UNCHANGED <<trail, anchored>> /\ UNCHANGED jobVars /\ NoMishap

SetUnacknowledged(a) ==
  /\ At(a, "set")
  /\ row # NoRow
  /\ Fault /\ Note("unacknowledged")
  /\ row' = Replaced(task[a].path)
  /\ Fail(a)
  /\ UNCHANGED <<trail, anchored>> /\ UNCHANGED jobVars

\* The company is read; then the replaced file is deleted.
Populate(a) ==
  /\ At(a, "populate")
  /\ Unlink(task[a].old)
  /\ GoTo(a, "recordUpdate")
  /\ UNCHANGED <<row, trail, anchored>> /\ UNCHANGED jobVars /\ NoMishap

\* The row has been changed already.
PopulateFails(a) ==
  /\ At(a, "populate")
  /\ Fault /\ Note("unacknowledged")
  /\ Fail(a)
  /\ UNCHANGED <<row, trail, anchored>> /\ UNCHANGED jobVars

RecordUpdate(a) ==
  /\ At(a, "recordUpdate")
  /\ trail' \in {trail, trail \cup {"event"}}
  /\ End(a)
  /\ UNCHANGED <<row, anchored, file>> /\ UNCHANGED jobVars /\ NoMishap

-----------------------------------------------------------------------------
(* deleteCertificate *)

DeleteRequest(a) ==
  /\ row # NoRow
  /\ Begin(a, [Idle EXCEPT !.pc = "purge", !.request = "delete", !.old = row.path, !.todo = Records])
  /\ NoteOverlap("delete")
  /\ UNCHANGED rowVars /\ UNCHANGED <<term, alerts, left>>

\* deleteMany of both kinds at once.
Purge(a) ==
  /\ At(a, "purge")
  /\ \E kind \in task[a].todo :
       /\ trail' = trail \ {kind}
       /\ task' = [task EXCEPT ![a].todo = @ \ {kind},
                               ![a].pc = IF task[a].todo = {kind} THEN "deleteRow" ELSE "purge"]
  /\ UNCHANGED <<row, anchored, file>> /\ UNCHANGED jobVars /\ NoMishap

DeleteRow(a) ==
  /\ At(a, "deleteRow")
  /\ row' = NoRow
  /\ GoTo(a, "deleteFile")
  /\ UNCHANGED <<trail, anchored, file>> /\ UNCHANGED jobVars /\ NoMishap

DeleteFile(a) ==
  /\ At(a, "deleteFile")
  /\ Unlink(task[a].old)
  /\ End(a)
  /\ UNCHANGED <<row, trail, anchored>> /\ UNCHANGED jobVars /\ NoMishap

-----------------------------------------------------------------------------
(* runExpiryJob, ensureExpiryAlert *)

OpenAlerts == {i \in DOMAIN alerts : ~alerts[i].resolved}

JobAt(b) == task[b].request = "job"

\* What is due is decided by the time at the start.
RunExpiryJob(a) ==
  /\ row.status = "issued" /\ term # "never"
  /\ Begin(a, IF term = "past"
              THEN [Idle EXCEPT !.pc = "expire", !.request = "job", !.severity = "critical"]
              ELSE [Idle EXCEPT !.pc = "findAlert", !.request = "job", !.severity = "warning"])
  /\ IF \E b \in Actors : JobAt(b) THEN Note("joined") ELSE UNCHANGED mishaps
  /\ UNCHANGED rowVars /\ UNCHANGED <<term, alerts, left>>

\* cert.save() writes the status alone, and throws if the row is gone.
SaveExpired(a) ==
  /\ At(a, "expire")
  /\ IF row = NoRow
     THEN End(a) /\ UNCHANGED row
     ELSE row' = [row EXCEPT !.status = "expired"] /\ GoTo(a, "findAlert")
  /\ UNCHANGED <<trail, anchored, file>> /\ UNCHANGED jobVars /\ NoMishap

\* Mutant: an open alert is left as it is.
FindAlertNoEscalation(a) ==
  /\ At(a, "findAlert")
  /\ IF OpenAlerts = {} THEN GoTo(a, "createAlert") ELSE End(a)
  /\ UNCHANGED rowVars /\ UNCHANGED jobVars /\ NoMishap

FindAlert(a) ==
  /\ At(a, "findAlert")
  /\ \/ OpenAlerts = {} /\ GoTo(a, "createAlert")
     \/ \E i \in OpenAlerts :
          IF task[a].severity = "critical" /\ alerts[i].severity # "critical"
          THEN task' = [task EXCEPT ![a].pc = "escalate", ![a].alert = i]
          ELSE End(a)
  /\ UNCHANGED rowVars /\ UNCHANGED jobVars /\ NoMishap

CreateAlert(a) ==
  /\ At(a, "createAlert")
  /\ alerts' = Append(alerts, [severity |-> task[a].severity, resolved |-> FALSE])
  /\ End(a)
  /\ UNCHANGED rowVars /\ UNCHANGED term /\ NoMishap

\* The severity alone is written: an alert resolved meanwhile stays so.
Escalate(a) ==
  /\ At(a, "escalate")
  /\ alerts' = [alerts EXCEPT ![task[a].alert].severity = "critical"]
  /\ End(a)
  /\ UNCHANGED rowVars /\ UNCHANGED term /\ NoMishap

\* resolveAlert
ResolveAlert ==
  /\ left.resolved > 0
  /\ left' = [left EXCEPT !.resolved = @ - 1]
  /\ \E i \in OpenAlerts : alerts' = [alerts EXCEPT ![i].resolved = TRUE]
  /\ UNCHANGED rowVars /\ UNCHANGED <<term, task, mishaps>>

-----------------------------------------------------------------------------
Pass ==
  /\ term = "soon"
  /\ term' = "past"
  /\ UNCHANGED rowVars /\ UNCHANGED <<alerts, task, left, mishaps>>

\* reconcileCertificate shows what the contract holds of the document with the
\* row's hash: of one created here that it is Submitted, of an issued one that it
\* has expired. A hash that replaced the original is unknown to the contract.
Reconcile ==
  /\ row.status = "issued" /\ row.hash = Original
  /\ Fault
  /\ \/ term = "past" /\ row' = [row EXCEPT !.status = "expired"] /\ Note("reconciled")
     \/ term = "never" /\ row' = [row EXCEPT !.status = "submitted"] /\ UNCHANGED mishaps
  /\ UNCHANGED <<trail, anchored, file, task>> /\ UNCHANGED jobVars

\* A process ends with all it was doing, or a call not handled above throws.
Interrupt ==
  /\ \E gone \in SUBSET {a \in Actors : ~At(a, "idle")} :
       /\ gone # {}
       /\ task' = [a \in Actors |-> IF a \in gone THEN Idle ELSE task[a]]
  /\ Fault /\ Note("interrupted")
  /\ UNCHANGED rowVars /\ UNCHANGED jobVars

Next ==
  \/ \E a \in Actors :
       \/ CreateRequest(a) \/ UpdateRequest(a)
       \/ UploadFails(a)
       \/ CheckNotStored(a) \/ StoreDocument(a) \/ StoreFails(a)
       \/ InsertRow(a) \/ InsertFails(a) \/ InsertUnacknowledged(a)
       \/ RecordTx(a) \/ RecordEvent(a)
       \/ LoadForUpdate(a) \/ SetRow(a) \/ SetUnacknowledged(a)
       \/ Populate(a) \/ PopulateFails(a) \/ RecordUpdate(a)
       \/ DeleteRequest(a) \/ Purge(a) \/ DeleteRow(a) \/ DeleteFile(a)
       \/ RunExpiryJob(a) \/ SaveExpired(a)
       \/ FindAlert(a) \/ CreateAlert(a) \/ Escalate(a)
  \/ RefuseCreate
  \/ StoreRaw
  \/ ResolveAlert
  \/ Pass
  \/ Reconcile
  \/ Interrupt

Spec == Init /\ [][Next]_vars

-----------------------------------------------------------------------------
Places ==
  {"idle", "check", "store", "insert", "recordTx", "recordEvent", "load", "set", "populate",
   "recordUpdate", "purge", "deleteRow", "deleteFile", "expire", "findAlert", "createAlert", "escalate"}

Task == [pc : Places, request : {"none", "create", "update", "delete", "job"},
         path : Paths \cup {NoPath}, old : Paths \cup {NoPath}, todo : SUBSET Records,
         severity : {"none", "warning", "critical"}, alert : Nat]

TypeOK ==
  /\ row \in [path : Paths \cup {NoPath}, hash : Contents,
             status : {"absent", "submitted", "issued", "expired"}]
  /\ term \in {"soon", "past", "never"}
  /\ file \in [Paths -> Contents \cup {"unused", "deleted"}]
  /\ anchored \in BOOLEAN
  /\ trail \subseteq Records
  /\ alerts \in Seq([severity : {"warning", "critical"}, resolved : BOOLEAN])
  /\ task \in [Actors -> Task]
  /\ left \in [resolved : Nat, faults : Nat]
  /\ mishaps \subseteq MishapKinds \cup Paths

Spared(kinds) == mishaps \cap kinds = {}

(***************************************************************************)
(* A row never names a file that is gone, or another one than its hash was *)
(* computed from, however updates, deletions, creations and crashes are    *)
(* interleaved: each request deletes what it uploaded or replaced only.    *)
(* (A write reported as failed that took effect is beyond the code: the    *)
(* controller then deletes the file the row names.)                        *)
(***************************************************************************)
FileBehindRow ==
  row # NoRow /\ Spared({"unacknowledged"}) => file[row.path] = row.hash

(***************************************************************************)
(* "Complete cleanup: cert, events, transactions, files": the uploads of   *)
(* requests that failed, replaced files and what belonged to a deleted     *)
(* certificate do not stay, unless two requests had the row in hand, or    *)
(* one was cut short.  (The upload of a creation that is refused for want  *)
(* of a name or subject does stay, and it alone: the handler answers 400   *)
(* before anything that would delete it.)                                  *)
(***************************************************************************)
NothingLeftBehind ==
  Spared({"overlap", "unacknowledged", "interrupted"}) =>
    /\ \A p \in Paths : file[p] \in Contents =>
         p = row.path \/ p \in mishaps \/ \E a \in Actors : p \in {task[a].path, task[a].old}
    /\ row = NoRow /\ (\A a \in Actors : ~HasRow(a)) => trail = {}

(***************************************************************************)
(* A certificate the expiry job has expired has a critical alert, also     *)
(* when a warning was open, resolved meanwhile or raised by another run;   *)
(* and alerts are not doubled unless two runs overlapped. (A run cut short *)
(* after the status, or reconcile, leaves no alert: nobody comes back.)    *)
(***************************************************************************)
AlertsFollowExpiry ==
  /\ row.status = "expired" /\ Spared({"interrupted", "reconciled"}) =>
       \/ \E i \in DOMAIN alerts : alerts[i].severity = "critical"
       \/ \E a \in Actors : JobAt(a) /\ task[a].severity = "critical"
  /\ Spared({"joined"}) => Cardinality(OpenAlerts) <= 1
=============================================================================
