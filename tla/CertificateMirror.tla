-------------------------- MODULE CertificateMirror --------------------------
(***************************************************************************)
(* One document of the compliance backend: its record in the contract (the *)
(* source of truth), its Certificate in MongoDB (the projection clients    *)
(* see) and everything that keeps the second in step with the first:       *)
(*                                                                         *)
(*  - the request handlers of services/document.service.js, which go       *)
(*    through writeThrough of services/indexer.service.js: commit on chain,*)
(*    persist an outbox row, mirror into the Certificate, mark the row;    *)
(*  - the approval that executes a revocation, which mirrors without a row *)
(*    (services/proposal.service.js);                                      *)
(*  - processOutbox, which replays pending rows (services/outbox.service); *)
(*  - reconcileCertificate (services/reconcile.service.js);                *)
(*  - the expiry job (services/jobs/expiry.job.js).                        *)
(*                                                                         *)
(* Each of them is an asynchronous function: between two awaits anything   *)
(* else may run, in this process or in another instance.  A member of      *)
(* Actors is one such execution, a request or a run of a job; task[a] is   *)
(* what its local variables hold at the await it is suspended at.  Jobs    *)
(* may overlap each other: the admin API starts them without the lock the  *)
(* scheduler uses.                                                         *)
(*                                                                         *)
(* Documents share no state, so one document is enough.  Time is counted   *)
(* in seconds, the contract's unit.                                        *)
(***************************************************************************)
EXTENDS DocumentStatus, DocumentContract, FiniteSets

CONSTANTS
  Actors,      \* concurrent executions of handlers and jobs
  Officers,    \* sub-admins who may review (identified by their wallet)
  MainAdmin,   \* the wallet name of the main admin's off-chain review
  Opinions,    \* reviews an officer may give: records [decision, score]
  MaxTime,     \* bound: the clock stops here
  MaxExpiry,   \* bound: the latest expiry an issue request asks for
  MaxReviews,  \* bound: review requests
  MaxRevocations, \* bound: revocation proposals that execute
  MaxFaults,   \* bound: crashes and failing database calls
  MaxAttempts, \* an outbox row's maxAttempts (10 in the code)
  PassLimit,   \* the certificates a pass of the reconcile job looks at (500 in the code)
  Others       \* the anchored certificates besides this one

Opinion == [decision : ReviewDecisions, score : 0..100]

ASSUME OpinionsAssumption == Opinions \subseteq Opinion
ASSUME MainAdminAssumption == MainAdmin \notin Officers
ASSUME BoundsAssumption ==
  /\ MaxTime \in Nat
  /\ MaxExpiry \in Nat
  /\ MaxReviews \in Nat
  /\ MaxRevocations \in Nat
  /\ MaxFaults \in Nat
  /\ MaxAttempts \in Nat \ {0}
  /\ PassLimit \in Nat
  /\ Others \in Nat

Reviewers == Officers \cup {MainAdmin}

VARIABLES
  chain,   \* the contract's document: [status, expiry, reviews, anchored]
  cert,    \* the Certificate: [lifecycle, status, score, expiry, reviews, file]
  outbox,  \* the Outbox rows in order of creation: [job, status, attempts]
  now,     \* the time
  task,    \* what each actor is doing
  left     \* what the bounds still allow: [reviews, revocations, faults]

vars == <<chain, cert, outbox, now, task, left>>

-----------------------------------------------------------------------------
(* Data *)

NoOpinion == [decision |-> "none", score |-> NoScore]

\* What a review, an entry or the job of mirroring one says.
OpinionOf(e) == [decision |-> e.decision, score |-> e.score]

\* An embedded review of a Certificate.
Entry == [by : Reviewers, decision : ReviewDecisions, score : 0..100, date : Nat]

\* lifecycle is chain.certificateStatus; "Absent": there is no Certificate.
\* expiry 0: expiryAt is not set.  file: the upload is stored and referred to.
CertRecord == [lifecycle : Lifecycles \cup {"Absent"},
               status    : DocStatuses,
               score     : 0..100 \cup {NoScore},
               expiry    : Nat,
               reviews   : Seq(Entry),
               file      : BOOLEAN]

NoCert == [lifecycle |-> "Absent", status |-> "submitted", score |-> NoScore,
           expiry |-> 0, reviews |-> <<>>, file |-> FALSE]

\* The op and payload of a mirror; fields an op does not use are blank.
Job == [op : {"review"}, by : Reviewers, decision : ReviewDecisions, score : 0..100,
        expiry : {0}]
  \cup [op : {"none", "store", "issue", "revoke"}, by : {MainAdmin}, decision : {"none"},
        score : {NoScore}, expiry : Nat]

NoJob == [op |-> "none", by |-> MainAdmin, decision |-> "none",
          score |-> NoScore, expiry |-> 0]

StoreJob     == [NoJob EXCEPT !.op = "store"]
IssueJob(e)  == [NoJob EXCEPT !.op = "issue", !.expiry = e]
RevokeJob    == [NoJob EXCEPT !.op = "revoke"]
ReviewJob(r, x) ==
  [NoJob EXCEPT !.op = "review", !.by = r, !.decision = x.decision, !.score = x.score]

OutboxRow == [job : Job, status : {"pending", "done", "failed"}, attempts : Nat]

\* The rows a processor found: their position, and the attempts it read.
BatchItem == [id : Nat, attempts : Nat]

\* What verifyDocument of the contract returned.
Verify(doc, time) == [lifecycle |-> EffectiveStatus(doc, time), expiry |-> doc.expiry]
View   == [lifecycle : Lifecycles \cup {"Absent"}, expiry : Nat]
NoView == [lifecycle |-> "Absent", expiry |-> 0]

(***************************************************************************)
(* Where an actor is suspended:                                            *)
(*   commit    about to call the contract    capture  about to insert a row*)
(*   mirror    about to start the mirror     save     Certificate loaded   *)
(*   set, push, derive   inside mirrorReview mark     about to mark the row*)
(*   next      head of processOutbox's loop  expire   the job's list read  *)
(*   chainLeft, dbLeft, fix                  inside reconcileCertificate   *)
(*   attach    about to store the upload (submitDocument, after the mirror)*)
(***************************************************************************)
MirrorSteps == {"mirror", "set", "push", "derive", "save"}
Places == MirrorSteps \cup {"idle", "commit", "capture", "mark", "next", "expire",
                            "chainLeft", "dbLeft", "fix", "attach"}
Origins == {"none", "request", "outbox", "reconcile", "expiry"}

Task == [pc : Places, origin : Origins, job : Job, row : Nat, attempts : Nat,
         batch : SUBSET BatchItem, doc : CertRecord, view : View, date : Nat]

IdleTask == [pc |-> "idle", origin |-> "none", job |-> NoJob, row |-> 0,
             attempts |-> 0, batch |-> {}, doc |-> NoCert, view |-> NoView,
             date |-> 0]

Become(a, t) == task' = [task EXCEPT ![a] = t]
GoTo(a, pc)  == Become(a, [task[a] EXCEPT !.pc = pc])
Finish(a)    == Become(a, IdleTask)

(***************************************************************************)
(* recomputeCertificateFields.                                             *)
(***************************************************************************)
Recompute(d) ==
  [d EXCEPT !.status = ComposeStatus(d.lifecycle, LatestDecision(d.reviews)),
            !.score  = OverallComplianceScore(d.reviews)]

(***************************************************************************)
(* Mongoose's save() of a loaded document: it writes the paths whose value *)
(* differs from the one that was loaded, and only those.  No handler saves *)
(* the reviews array this way.                                             *)
(***************************************************************************)
\* Mutant: the whole document is written back, reviews included.
MergeWhole(db, loaded, saved) == saved

Merge(db, loaded, saved) ==
  LET Path(stored, old, new) == IF new = old THEN stored ELSE new
  IN [lifecycle |-> Path(db.lifecycle, loaded.lifecycle, saved.lifecycle),
      status    |-> Path(db.status, loaded.status, saved.status),
      score     |-> Path(db.score, loaded.score, saved.score),
      expiry    |-> Path(db.expiry, loaded.expiry, saved.expiry),
      reviews   |-> db.reviews,
      file      |-> Path(db.file, loaded.file, saved.file)]

Init ==
  /\ chain = [status |-> "Absent", expiry |-> 0, reviews |-> [o \in Officers |-> NoOpinion],
              anchored |-> [o \in Officers |-> {}]]
  /\ cert = NoCert
  /\ outbox = <<>>
  /\ now = 1
  /\ task = [a \in Actors |-> IdleTask]
  /\ left = [reviews |-> MaxReviews, revocations |-> MaxRevocations, faults |-> MaxFaults]

Fault == left.faults > 0 /\ left' = [left EXCEPT !.faults = @ - 1]

-----------------------------------------------------------------------------
(* Requests: the checks each handler makes on the Certificate it loads. *)

Request(a, pc, job) ==
  /\ task[a].pc = "idle"
  /\ Become(a, [IdleTask EXCEPT !.pc = pc, !.origin = "request", !.job = job])

\* submitDocument: refused when a Certificate with this hash exists.
Submit(a) ==
  /\ cert.lifecycle = "Absent"
  /\ Request(a, "commit", StoreJob)
  /\ UNCHANGED <<chain, cert, outbox, now, left>>

Reviewable ==
  /\ cert.lifecycle # "Absent"
  /\ cert.status \notin {"issued", "revoked", "expired"}
  /\ left.reviews > 0

\* reviewDocument by a sub-admin: anchored on chain.
Review(a) ==
  /\ Reviewable
  /\ \E o \in Officers, x \in Opinions : Request(a, "commit", ReviewJob(o, x))
  /\ left' = [left EXCEPT !.reviews = @ - 1]
  /\ UNCHANGED <<chain, cert, outbox, now>>

\* reviewDocument by the main admin: mirrored directly, no chain call, no row.
AdminReview(a) ==
  /\ Reviewable
  /\ \E x \in Opinions : Request(a, "mirror", ReviewJob(MainAdmin, x))
  /\ left' = [left EXCEPT !.reviews = @ - 1]
  /\ UNCHANGED <<chain, cert, outbox, now>>

\* Mutant: the gate turns away a rejected document only.
IssueUnlessRejected(a) ==
  /\ cert.lifecycle = "Submitted"
  /\ cert.status \notin {"issued", "rejected"}
  /\ \E e \in now..MaxExpiry : Request(a, "commit", IssueJob(e))
  /\ UNCHANGED <<chain, cert, outbox, now, left>>

\* issueDocument: the expiry lies in the future, rounded down to a second.
IssueRequest(a) ==
  /\ cert.lifecycle = "Submitted"
  /\ cert.status # "issued"
  /\ IsIssuable(LatestDecision(cert.reviews))
  /\ \E e \in now..MaxExpiry : Request(a, "commit", IssueJob(e))
  /\ UNCHANGED <<chain, cert, outbox, now, left>>

\* signProposal: this approval reaches the threshold and the contract executes
\* the revocation, whatever the document's status (it may be revoked already);
\* the handler goes on to mirror it, without an outbox row.
ApproveRevocation(a) ==
  /\ CanRevoke(chain)
  /\ left.revocations > 0
  /\ left' = [left EXCEPT !.revocations = @ - 1]
  /\ chain' = Revoke(chain)
  /\ Request(a, "mirror", RevokeJob)
  /\ UNCHANGED <<cert, outbox, now>>

-----------------------------------------------------------------------------
(* writeThrough: the contract call, the outbox row. *)

Committing(a, op) == task[a].pc = "commit" /\ task[a].job.op = op

CommitStore(a) ==
  /\ Committing(a, "store")
  /\ CanStore(chain)
  /\ chain' = Store(chain)
  /\ GoTo(a, "capture")
  /\ UNCHANGED <<cert, outbox, now, left>>

CommitReview(a) ==
  /\ Committing(a, "review")
  /\ chain' = SubmitReview(chain, task[a].job.by, OpinionOf(task[a].job))
  /\ GoTo(a, "capture")
  /\ UNCHANGED <<cert, outbox, now, left>>

CommitIssue(a) ==
  /\ Committing(a, "issue")
  /\ CanIssue(chain)
  /\ chain' = Issue(chain, task[a].job.expiry)
  /\ GoTo(a, "capture")
  /\ UNCHANGED <<cert, outbox, now, left>>

\* Mutant: writeThrough swallows the contract's error and goes on.
RefusalSwallowed(a) ==
  /\ \/ Committing(a, "store") /\ ~CanStore(chain)
     \/ Committing(a, "issue") /\ ~CanIssue(chain)
  /\ GoTo(a, "capture")
  /\ UNCHANGED <<chain, cert, outbox, now, left>>

\* The contract throws: the request fails, nothing was written.
Refused(a) ==
  /\ \/ Committing(a, "store") /\ ~CanStore(chain)
     \/ Committing(a, "issue") /\ ~CanIssue(chain)
  /\ Finish(a)
  /\ UNCHANGED <<chain, cert, outbox, now, left>>

Capture(a) ==
  /\ task[a].pc = "capture"
  /\ outbox' = Append(outbox, [job |-> task[a].job, status |-> "pending", attempts |-> 0])
  /\ Become(a, [task[a] EXCEPT !.pc = "mirror", !.row = Len(outbox) + 1])
  /\ UNCHANGED <<chain, cert, now, left>>

\* Outbox.create fails: logged, and the mirror is attempted without a row.
CaptureFails(a) ==
  /\ task[a].pc = "capture"
  /\ Fault
  /\ GoTo(a, "mirror")
  /\ UNCHANGED <<chain, cert, outbox, now>>

-----------------------------------------------------------------------------
(* What follows a mirror that returns, and one that throws.                 *)

\* writeThrough returns: submitDocument goes on to store the upload; what the
\* other handlers do then leaves the Certificate alone.
Reply(a) ==
  IF task[a].job.op = "store"
  THEN Become(a, [task[a] EXCEPT !.pc = "attach", !.row = 0, !.doc = NoCert])
  ELSE Finish(a)

\* An inline mirror is followed by the update of its row, if there is one; a
\* replayed one by the save of its row.
AfterMirror(a) ==
  IF task[a].row = 0 THEN Reply(a)
  ELSE Become(a, [task[a] EXCEPT !.pc = "mark", !.doc = NoCert, !.date = 0])

\* Mutant: the catch block leaves the status the try block was about to set.
AttemptForgiven(a) ==
  outbox' = [outbox EXCEPT ![task[a].row].status = "done",
                           ![task[a].row].attempts = task[a].attempts + 1]

\* processOutbox's catch block: row.save() stores the attempt, and the status if
\* it changed in memory (it is already "done" when only the first save failed).
AttemptFailed(a) ==
  LET attempts == task[a].attempts + 1
      status   == CASE attempts >= MaxAttempts  -> "failed"
                    [] task[a].pc = "mark"      -> "done"
                    [] OTHER                    -> outbox[task[a].row].status
  IN outbox' = [outbox EXCEPT ![task[a].row] =
                  [job |-> @.job, status |-> status, attempts |-> attempts]]

NextRow(a) ==
  IF task[a].batch = {} THEN Finish(a)
  ELSE Become(a, [IdleTask EXCEPT !.pc = "next", !.origin = "outbox", !.batch = task[a].batch])

\* An exception ends a request (its row stays pending) and costs a replay one attempt.
Throw(a) ==
  IF task[a].origin = "outbox" THEN AttemptFailed(a) /\ NextRow(a)
  ELSE Finish(a) /\ UNCHANGED outbox

-----------------------------------------------------------------------------
(* The mirrors (services/indexer.service.js). *)

Mirroring(a, pc, op) == task[a].pc = pc /\ task[a].job.op = op

\* findOne at the head of mirrorStoredDocument, mirrorIssuedCertificate and
\* mirrorRevocation; only the first goes on without a Certificate.
LoadCertificate(a) ==
  /\ \/ Mirroring(a, "mirror", "store")
     \/ cert.lifecycle # "Absent" /\ task[a].pc = "mirror" /\ task[a].job.op \in {"issue", "revoke"}
  /\ Become(a, [task[a] EXCEPT !.pc = "save", !.doc = cert])
  /\ UNCHANGED <<chain, cert, outbox, now, left>>

\* The 404 of the mirrors that need a Certificate.
MirrorNotFound(a) ==
  /\ task[a].pc = "mirror"
  /\ task[a].job.op # "store"
  /\ cert.lifecycle = "Absent"
  /\ Throw(a)
  /\ UNCHANGED <<chain, cert, now, left>>

\* mirrorStoredDocument saving a Certificate it found.
SaveStored(a) ==
  LET loaded == task[a].doc IN
  /\ Mirroring(a, "save", "store")
  /\ loaded.lifecycle # "Absent"
  /\ cert' = Merge(cert, loaded, Recompute([loaded EXCEPT !.lifecycle = "Submitted"]))
  /\ AfterMirror(a)
  /\ UNCHANGED <<chain, outbox, now, left>>

\* mirrorStoredDocument saving a new Certificate: metadataHash is unique.
InsertStored(a) ==
  /\ Mirroring(a, "save", "store")
  /\ task[a].doc.lifecycle = "Absent"
  /\ IF cert.lifecycle = "Absent"
     THEN /\ cert' = Recompute([NoCert EXCEPT !.lifecycle = "Submitted"])
          /\ AfterMirror(a)
          /\ UNCHANGED outbox
     ELSE Throw(a) /\ UNCHANGED cert
  /\ UNCHANGED <<chain, now, left>>

SaveIssued(a) ==
  LET loaded == task[a].doc IN
  /\ Mirroring(a, "save", "issue")
  /\ cert' = Merge(cert, loaded, Recompute([loaded EXCEPT !.lifecycle = "Issued",
                                                          !.expiry = task[a].job.expiry]))
  /\ AfterMirror(a)
  /\ UNCHANGED <<chain, outbox, now, left>>

SaveRevoked(a) ==
  LET loaded == task[a].doc IN
  /\ Mirroring(a, "save", "revoke")
  /\ cert' = Merge(cert, loaded, Recompute([loaded EXCEPT !.lifecycle = "Revoked"]))
  /\ AfterMirror(a)
  /\ UNCHANGED <<chain, outbox, now, left>>

(***************************************************************************)
(* mirrorReview: find the Certificate and date the entry; replace the      *)
(* reviewer's entry in place or, when there is none, push one; read the    *)
(* Certificate afresh; set the two fields derived from what was read.      *)
(***************************************************************************)
EntryOf(a) == [by |-> task[a].job.by, decision |-> task[a].job.decision,
               score |-> task[a].job.score, date |-> task[a].date]

PositionsOf(reviews, r) == {i \in DOMAIN reviews : reviews[i].by = r}

FindForReview(a) ==
  /\ Mirroring(a, "mirror", "review")
  /\ cert.lifecycle # "Absent"
  /\ Become(a, [task[a] EXCEPT !.pc = "set", !.date = now])
  /\ UNCHANGED <<chain, cert, outbox, now, left>>

\* Mutant: replacing an entry leaves out its decision.
SetScoreOnly(a) ==
  LET r == task[a].job.by IN
  /\ task[a].pc = "set"
  /\ IF PositionsOf(cert.reviews, r) = {}
     THEN GoTo(a, "push") /\ UNCHANGED cert
     ELSE /\ cert' = [cert EXCEPT !.reviews[CHOOSE i \in PositionsOf(cert.reviews, r) : TRUE].score = task[a].job.score]
          /\ GoTo(a, "derive")
  /\ UNCHANGED <<chain, outbox, now, left>>

\* Mutant: matchedCount is not looked at, nothing is pushed.
SetReviewOnly(a) ==
  LET r == task[a].job.by IN
  /\ task[a].pc = "set"
  /\ cert' = IF PositionsOf(cert.reviews, r) = {} THEN cert
             ELSE [cert EXCEPT !.reviews[CHOOSE i \in PositionsOf(cert.reviews, r) : TRUE] = EntryOf(a)]
  /\ GoTo(a, "derive")
  /\ UNCHANGED <<chain, outbox, now, left>>

SetReview(a) ==
  LET r == task[a].job.by IN
  /\ task[a].pc = "set"
  /\ IF PositionsOf(cert.reviews, r) = {}
     THEN GoTo(a, "push") /\ UNCHANGED cert
     ELSE /\ cert' = [cert EXCEPT !.reviews[CHOOSE i \in PositionsOf(cert.reviews, r) : TRUE] = EntryOf(a)]
          /\ GoTo(a, "derive")
  /\ UNCHANGED <<chain, outbox, now, left>>

\* Mutant: the push is not guarded by $ne.
PushReviewUnguarded(a) ==
  /\ task[a].pc = "push"
  /\ cert' = [cert EXCEPT !.reviews = Append(@, EntryOf(a))]
  /\ GoTo(a, "derive")
  /\ UNCHANGED <<chain, outbox, now, left>>

PushReview(a) ==
  /\ task[a].pc = "push"
  /\ cert' = IF PositionsOf(cert.reviews, task[a].job.by) = {}
             THEN [cert EXCEPT !.reviews = Append(@, EntryOf(a))]
             ELSE cert
  /\ GoTo(a, "derive")
  /\ UNCHANGED <<chain, outbox, now, left>>

ReadForDerive(a) ==
  /\ task[a].pc = "derive"
  /\ Become(a, [task[a] EXCEPT !.pc = "save", !.doc = cert])
  /\ UNCHANGED <<chain, cert, outbox, now, left>>

SaveDerived(a) ==
  LET derived == Recompute(task[a].doc) IN
  /\ Mirroring(a, "save", "review")
  /\ cert' = [cert EXCEPT !.status = derived.status, !.score = derived.score]
  /\ AfterMirror(a)
  /\ UNCHANGED <<chain, outbox, now, left>>

-----------------------------------------------------------------------------
(* The outbox: marking a row, and the processor that replays rows. *)

\* Mutant: the row of a mirror that ran is left pending.
MarkForgotten(a) ==
  /\ task[a].pc = "mark"
  /\ IF task[a].origin = "outbox" THEN NextRow(a) ELSE Reply(a)
  /\ UNCHANGED <<chain, cert, outbox, now, left>>

MarkDone(a) ==
  /\ task[a].pc = "mark"
  /\ outbox' = [outbox EXCEPT ![task[a].row].status = "done"]
  /\ IF task[a].origin = "outbox" THEN NextRow(a) ELSE Reply(a)
  /\ UNCHANGED <<chain, cert, now, left>>

\* The second save of submitDocument.  An upload that cannot be stored is
\* logged, and the document stays without it: the same as Abort here.
AttachFile(a) ==
  /\ task[a].pc = "attach"
  /\ cert' = [cert EXCEPT !.file = TRUE]
  /\ Finish(a)
  /\ UNCHANGED <<chain, outbox, now, left>>

Pending == {i \in DOMAIN outbox : outbox[i].status = "pending"}

\* A new row is due at once; one that failed is due after its backoff, which
\* may or may not have elapsed.
FetchDue(a) ==
  /\ task[a].pc = "idle"
  /\ \E due \in SUBSET Pending \ {{}} :
        /\ {i \in Pending : outbox[i].attempts = 0} \subseteq due
        /\ Become(a, [IdleTask EXCEPT !.pc = "next", !.origin = "outbox",
                        !.batch = {[id |-> i, attempts |-> outbox[i].attempts] : i \in due}])
  /\ UNCHANGED <<chain, cert, outbox, now, left>>

\* The loop takes the rows it found in order of creation, and does not look at
\* a row's status again.
TakeRow(a) ==
  /\ task[a].pc = "next"
  /\ \E r \in task[a].batch :
        /\ \A s \in task[a].batch : r.id <= s.id
        /\ Become(a, [pc |-> "mirror", origin |-> "outbox", job |-> outbox[r.id].job,
                      row |-> r.id, attempts |-> r.attempts, batch |-> task[a].batch \ {r},
                      doc |-> NoCert, view |-> NoView, date |-> 0])
  /\ UNCHANGED <<chain, cert, outbox, now, left>>

\* A database call of a replayed mirror, or of its row.save(), fails.
ReplayFails(a) ==
  /\ task[a].origin = "outbox"
  /\ task[a].pc \in MirrorSteps \cup {"mark"}
  /\ Fault
  /\ AttemptFailed(a)
  /\ NextRow(a)
  /\ UNCHANGED <<chain, cert, now>>

-----------------------------------------------------------------------------
(* reconcileCertificate: read the chain and the Certificate, in either      *)
(* order (Promise.all), compare, save what differs.                         *)

\* A pass looks at PassLimit certificates, in no order and with no memory of the
\* last one: when there are more, it may leave out this one every time.
InEveryPass == Others < PassLimit

StartReconcile(a) ==
  /\ task[a].pc = "idle"
  /\ cert.lifecycle # "Absent"
  /\ \/ Become(a, [IdleTask EXCEPT !.pc = "dbLeft", !.origin = "reconcile",
                                   !.view = Verify(chain, now)])
     \/ Become(a, [IdleTask EXCEPT !.pc = "chainLeft", !.origin = "reconcile", !.doc = cert])
  /\ UNCHANGED <<chain, cert, outbox, now, left>>

ReadDb(a) ==
  /\ task[a].pc = "dbLeft"
  /\ Become(a, [task[a] EXCEPT !.pc = "fix", !.doc = cert])
  /\ UNCHANGED <<chain, cert, outbox, now, left>>

ReadChain(a) ==
  /\ task[a].pc = "chainLeft"
  /\ Become(a, [task[a] EXCEPT !.pc = "fix", !.view = Verify(chain, now)])
  /\ UNCHANGED <<chain, cert, outbox, now, left>>

\* Mutant: drift of the lifecycle and the expiry is repaired, not the status.
FixLifecycleOnly(a) ==
  LET loaded == task[a].doc
      view   == task[a].view
  IN
  /\ task[a].pc = "fix"
  /\ cert' = IF view.lifecycle = "Absent" THEN cert
             ELSE Merge(cert, loaded,
                        [loaded EXCEPT !.lifecycle = view.lifecycle,
                                       !.expiry = IF view.expiry = 0 THEN @ ELSE view.expiry])
  /\ Finish(a)
  /\ UNCHANGED <<chain, outbox, now, left>>

\* The score is not compared, so not repaired either.
FixDrift(a) ==
  LET loaded   == task[a].doc
      view     == task[a].view
      expected == [loaded EXCEPT
                     !.lifecycle = view.lifecycle,
                     !.status    = ComposeStatus(view.lifecycle, LatestDecision(loaded.reviews)),
                     !.expiry    = IF view.expiry = 0 THEN @ ELSE view.expiry]
  IN
  /\ task[a].pc = "fix"
  /\ cert' = IF view.lifecycle = "Absent" THEN cert ELSE Merge(cert, loaded, expected)
  /\ Finish(a)
  /\ UNCHANGED <<chain, outbox, now, left>>

-----------------------------------------------------------------------------
(* runExpiryJob: list the issued certificates past their expiry, then mark  *)
(* each one.  (Its alerts are not part of this module.)                     *)

FindExpired(a) ==
  /\ task[a].pc = "idle"
  /\ cert.status = "issued"
  /\ cert.expiry # 0
  /\ cert.expiry <= now
  /\ Become(a, [IdleTask EXCEPT !.pc = "expire", !.origin = "expiry", !.doc = cert])
  /\ UNCHANGED <<chain, cert, outbox, now, left>>

SaveExpired(a) ==
  LET loaded == task[a].doc IN
  /\ task[a].pc = "expire"
  /\ cert' = Merge(cert, loaded, [loaded EXCEPT !.status = "expired", !.lifecycle = "Expired"])
  /\ Finish(a)
  /\ UNCHANGED <<chain, outbox, now, left>>

-----------------------------------------------------------------------------
(* Failures and time. *)

\* The process dies, or a call of the handler throws past every catch: an RPC
\* error after the transaction was applied, a failing query, a failing update
\* of the row.
Abort(a) ==
  /\ task[a].pc # "idle"
  /\ Fault
  /\ Finish(a)
  /\ UNCHANGED <<chain, cert, outbox, now>>

Tick ==
  /\ now < MaxTime
  /\ now' = now + 1
  /\ UNCHANGED <<chain, cert, outbox, task, left>>

-----------------------------------------------------------------------------
NewRequest(a) ==
  \/ Submit(a)
  \/ Review(a)
  \/ AdminReview(a)
  \/ IssueRequest(a)
  \/ ApproveRevocation(a)

\* The steps an actor that has begun takes without anything failing.
Continue(a) ==
  \/ CommitStore(a)
  \/ CommitReview(a)
  \/ CommitIssue(a)
  \/ Refused(a)
  \/ Capture(a)
  \/ LoadCertificate(a)
  \/ MirrorNotFound(a)
  \/ SaveStored(a)
  \/ InsertStored(a)
  \/ SaveIssued(a)
  \/ SaveRevoked(a)
  \/ FindForReview(a)
  \/ SetReview(a)
  \/ PushReview(a)
  \/ ReadForDerive(a)
  \/ SaveDerived(a)
  \/ MarkDone(a)
  \/ AttachFile(a)
  \/ TakeRow(a)
  \/ ReadChain(a)
  \/ ReadDb(a)
  \/ FixDrift(a)
  \/ SaveExpired(a)

Next ==
  \/ \E a \in Actors :
        \/ NewRequest(a)
        \/ Continue(a)
        \/ FetchDue(a)
        \/ StartReconcile(a)
        \/ FindExpired(a)
        \/ CaptureFails(a)
        \/ ReplayFails(a)
        \/ Abort(a)
  \/ Tick

Spec == Init /\ [][Next]_vars

(***************************************************************************)
(* Fairness: an execution that has begun goes on (the event loop runs its  *)
(* continuations), the scheduler's timers keep starting the outbox and the *)
(* reconcile jobs however busy the process is (setInterval in              *)
(* services/scheduler.js), and a pass of the latter gets to this document  *)
(* if it gets to all.  Nothing obliges a client to send a request, and     *)
(* neither the expiry job nor the passing of time is needed.               *)
(***************************************************************************)
Fairness ==
  /\ \A a \in Actors : WF_vars(Continue(a))
  /\ SF_vars(\E a \in Actors : FetchDue(a))
  /\ SF_vars(InEveryPass /\ \E a \in Actors : StartReconcile(a))

FairSpec == Spec /\ Fairness

-----------------------------------------------------------------------------
(* Properties *)

TypeOK ==
  /\ chain \in [status : StoredStatuses, expiry : Nat,
                reviews : [Officers -> Opinion \cup {NoOpinion}],
                anchored : [Officers -> SUBSET Opinion]]
  /\ cert \in CertRecord
  /\ outbox \in Seq(OutboxRow)
  /\ now \in Nat
  /\ task \in [Actors -> Task]
  /\ left \in [reviews : Nat, revocations : Nat, faults : Nat]

\* The lifecycles the document has had so far.  "Expired" counts from the
\* second of the expiry on: the expiry job compares with <=, the contract with <.
Held(doc, time) ==
  (CASE doc.status = "Absent" -> {}
     [] doc.status = "Submitted" -> {"Submitted"}
     [] doc.status = "Issued" -> {"Submitted", "Issued"}
     [] doc.status = "Revoked" -> {"Submitted", "Revoked"})
  \cup (IF doc.expiry = 0 THEN {}
        ELSE {"Issued"} \cup (IF doc.expiry <= time THEN {"Expired"} ELSE {}))

(***************************************************************************)
(* The projection is never ahead of the chain.  A Certificate exists only  *)
(* for a stored document; it never shows a lifecycle, or a status that     *)
(* stands for one, that the document has not had on chain; and any expiry  *)
(* it carries is the one on chain.  This is about every writer of the      *)
(* Certificate at once: handlers, replays, reconcile and the expiry job,   *)
(* each saving what it computed from reads that may be long out of date.   *)
(***************************************************************************)
NotAhead(c, held, expiry) ==
  /\ c.lifecycle \in {"Absent"} \cup held
  /\ \A l \in {"Issued", "Revoked", "Expired"} :
        c.status = ComposeStatus(l, "none") => l \in held
  /\ c.expiry \in {0, expiry}

NeverAhead == NotAhead(cert, Held(chain, now), chain.expiry)

(***************************************************************************)
(* The same as a refinement: seen through the lifecycles held and the one  *)
(* shown, every step of this module is a step of CertificateHistory.       *)
(***************************************************************************)
History == INSTANCE CertificateHistory WITH held <- Held(chain, now), shown <- cert.lifecycle

ImplementsHistory == History!Spec

(***************************************************************************)
(* mirrorReview never stores two entries of one reviewer, however its      *)
(* three updates interleave with those of another mirror of the same       *)
(* reviewer (a double click, or a replay of the row that is being mirrored *)
(* inline): "a concurrent insert can't double-add".                        *)
(***************************************************************************)
OneEntryPerReviewer ==
  \A i, j \in DOMAIN cert.reviews : cert.reviews[i].by = cert.reviews[j].by => i = j

(***************************************************************************)
(* No review is dropped: once a mirror is past its two updates there is an *)
(* entry of its reviewer, whatever other officers' mirrors and whole-      *)
(* document saves ran meanwhile.                                           *)
(***************************************************************************)
NoReviewDropped ==
  \A a \in Actors :
    \/ task[a].pc = "derive"
    \/ task[a].pc \in {"save", "mark"} /\ task[a].job.op = "review"
    => PositionsOf(cert.reviews, task[a].job.by) # {}

(***************************************************************************)
(* What clients are shown as an officer's review, and what the issuing gate*)
(* goes by, is a review that officer has anchored: no mix of two of his    *)
(* reviews, nobody else's, none the contract has refused.  (It need not be *)
(* his newest, see LatestReviewStands.)                                    *)
(***************************************************************************)
EntriesAreAnchored ==
  \A i \in DOMAIN cert.reviews :
    LET e == cert.reviews[i]
    IN e.by \in Officers => OpinionOf(e) \in chain.anchored[e.by]

(***************************************************************************)
(* "Only Approved / ApprovedWithRecommendations may be issued": the        *)
(* contract does not ask for a review, so this is the backend's to see to. *)
(* A certificate is issued only when an officer has anchored an approval,  *)
(* or the main admin, whose reviews are not anchored, has reviewed it.     *)
(***************************************************************************)
Approved(doc, reviews) ==
  \/ \E o \in Officers : \E x \in doc.anchored[o] : IsIssuable(x.decision)
  \/ PositionsOf(reviews, MainAdmin) # {}

IssuedAfterApproval == chain.expiry # 0 => Approved(chain, cert.reviews)

(***************************************************************************)
(* The upload stays with the document: no save of a Certificate loaded     *)
(* before the second save of submitDocument takes the file away again.     *)
(***************************************************************************)
FileStays == [][cert.file => cert'.file]_vars

(***************************************************************************)
(* "Latest replaces prior, mirroring the contract's per-reviewer overwrite"*)
(* (services/indexer.service.js:129), and replaying a row "is safe"        *)
(* (services/outbox.service.js:6): with nothing under way and no row       *)
(* pending, the Certificate shows of each officer the review the contract  *)
(* has.  It does not hold, not even when nothing fails.                    *)
(***************************************************************************)
AtRest == Pending = {} /\ \A a \in Actors : task[a].pc = "idle"

LatestReviewStands ==
  AtRest => \A i \in DOMAIN cert.reviews :
    LET e == cert.reviews[i]
    IN e.by \in Officers => OpinionOf(e) = chain.reviews[e.by]

(***************************************************************************)
(* A row is done only when its effect is in the database: the Certificate  *)
(* exists, carries the issued expiry, has an entry of the reviewer.  So no *)
(* crash, failed attempt or concurrent processor can close a row whose     *)
(* mirror did not run.                                                     *)
(***************************************************************************)
Mirrored(job, c, doc) ==
  /\ job.op = "store"  => c.lifecycle # "Absent"
  /\ job.op = "issue"  => c.expiry = doc.expiry
  /\ job.op = "review" => PositionsOf(c.reviews, job.by) # {}

DoneRowsAreMirrored ==
  \A i \in DOMAIN outbox :
    outbox[i].status = "done" => Mirrored(outbox[i].job, cert, chain)

\* The Certificate agrees with the chain in everything reconcile looks at.
InSync ==
  /\ cert.lifecycle = EffectiveStatus(chain, now)
  /\ cert.status = ComposeStatus(cert.lifecycle, LatestDecision(cert.reviews))
  /\ cert.expiry = chain.expiry

(***************************************************************************)
(* Once requests and failures have ended, a Certificate that exists comes  *)
(* to agree with the chain and stays so, whatever stale saves, replays and *)
(* crashes it went through; if the passes of the job look at all there are.*)
(* The very second of the expiry is excepted: there the expiry job says    *)
(* Expired (expiryAt <= now), the contract still Issued (now > expiry), and*)
(* the job and reconcile undo each other.                                  *)
(***************************************************************************)
CertificateSettles ==
  <>[](InEveryPass /\ cert.lifecycle # "Absent" /\ now # chain.expiry => InSync)

(***************************************************************************)
(* Every captured write is settled: a pending row is at last done (and     *)
(* then mirrored, see above) or in the dead letters.                       *)
(***************************************************************************)
RowsDrain == <>[](Pending = {})

-----------------------------------------------------------------------------
(***************************************************************************)
(* The inductive invariant behind NeverAhead.  Whatever an execution or a  *)
(* row carries across an await was true of the chain when it was computed, *)
(* and what has been true of the chain stays so (Held only grows, the      *)
(* expiry is set once): nothing that is in flight is ahead either.         *)
(***************************************************************************)
ChainInv ==
  /\ now > 0
  /\ chain.status = "Issued" => chain.expiry # 0
  /\ chain.status \in {"Absent", "Submitted"} => chain.expiry = 0

\* The chain has confirmed what the job mirrors.
JobBacked(j, held, expiry) ==
  /\ j.op = "store"  => "Submitted" \in held
  /\ j.op = "issue"  => expiry # 0 /\ j.expiry = expiry
  /\ j.op = "revoke" => "Revoked" \in held

ViewBacked(v, held, expiry) ==
  /\ v.lifecycle \in {"Absent"} \cup held
  /\ v.expiry \in {0, expiry}

\* rows: how many rows the outbox has.
TaskInv(t, held, expiry, rows) ==
  /\ t.pc = "commit" /\ t.job.op = "issue" => t.job.expiry > 0
  /\ t.pc # "commit" => JobBacked(t.job, held, expiry)
  /\ t.pc \in {"set", "push", "derive"} => t.job.op = "review"
  /\ t.pc = "expire" => "Expired" \in held
  /\ NotAhead(t.doc, held, expiry)
  /\ ViewBacked(t.view, held, expiry)
  /\ t.row \in 0..rows
  /\ \A r \in t.batch : r.id \in 1..rows
  /\ t.pc = "mark" => t.row # 0
  /\ t.origin = "outbox" /\ t.pc # "next" => t.row # 0

RowsInv == \A i \in DOMAIN outbox : JobBacked(outbox[i].job, Held(chain, now), chain.expiry)

TasksInv == \A a \in Actors : TaskInv(task[a], Held(chain, now), chain.expiry, Len(outbox))

IInv ==
  /\ ChainInv
  /\ NeverAhead
  /\ RowsInv
  /\ TasksInv

(***************************************************************************)
(* The inductive invariant behind the properties of the reviews, the rows  *)
(* and the file.  An execution that writes into the Certificate, or marks  *)
(* a row, rests on something earlier: a Certificate it found, a review the *)
(* contract has anchored, the gate it has passed, the mirror that ran.     *)
(* Nothing another execution does takes any of that back: entries and      *)
(* anchored reviews are only added to, a Certificate is never removed, an  *)
(* expiry never unset.                                                     *)
(***************************************************************************)
JobAnchored(j, doc) ==
  j.op = "review" /\ j.by \in Officers => OpinionOf(j) \in doc.anchored[j.by]

\* The places an execution reaches only by way of an existing Certificate.
FoundCert(t) ==
  \/ t.pc \in {"set", "push", "derive", "attach", "chainLeft", "dbLeft", "fix", "expire"}
  \/ t.pc = "save" /\ (t.job.op # "store" \/ t.doc.lifecycle # "Absent")

TaskRests(t, c, doc, rows) ==
  /\ t.pc = "commit" /\ t.job.op = "issue" => Approved(doc, c.reviews)
  /\ t.pc # "commit" => JobAnchored(t.job, doc)
  /\ FoundCert(t) => c.lifecycle # "Absent"
  /\ t.doc.expiry # 0 => c.expiry # 0
  /\ t.pc = "derive" \/ (t.pc = "save" /\ t.job.op = "review")
        => PositionsOf(c.reviews, t.job.by) # {}
  /\ t.row # 0 => rows[t.row].job = t.job
  /\ t.pc = "mark" => Mirrored(t.job, c, doc)

TasksRest == \A a \in Actors : TaskRests(task[a], cert, chain, outbox)

RowsAnchored == \A i \in DOMAIN outbox : JobAnchored(outbox[i].job, chain)

AbsentIsBlank ==
  cert.lifecycle = "Absent" => cert.reviews = <<>> /\ cert.expiry = 0 /\ ~cert.file

RInv ==
  /\ TasksRest
  /\ RowsAnchored
  /\ AbsentIsBlank
  /\ OneEntryPerReviewer
  /\ EntriesAreAnchored
  /\ IssuedAfterApproval
  /\ DoneRowsAreMirrored
=============================================================================
