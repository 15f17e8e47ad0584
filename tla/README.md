# Verification of the AITT compliance backend

The backend (Node, Express, MongoDB) wraps a Soroban smart contract that anchors
compliance documents. The contract is the source of truth; MongoDB holds a projection of
it that clients see, and data the contract does not store. This directory models how the
two are kept in step, and the coordination the backend does on its own: TLA+ modules,
TLC configurations, and TLAPS proofs.

Paths below are relative to the repository; `services/` etc. are under `src/`.

## 1. The system

| Component | State | Operations | Interacts with |
|---|---|---|---|
| Status composition (`utils/composeStatus.js`, `statusMap.js`, `serializers.js`) | none | latest review, composed status, issuing gate, score, translation of names | every handler, indexer, reconcile |
| Certificate contract, through `services/sorobanAdapter` | documents, reviews, proposals, whitelist, sub-admins, threshold | store, issue, review, revoke by proposal, verify | all writes go through it |
| Document handlers (`services/document.service.js`) | Certificate | submit, review, issue, verify | indexer, storage, notifications |
| Indexer (`services/indexer.service.js`) | Certificate, Outbox, Web3Tx | writeThrough and six mirrors | handlers, outbox processor |
| Durable outbox (`services/outbox.service.js`) | Outbox rows | list due rows, replay, mark, back off, dead-letter | indexer |
| Reconcile and expiry jobs (`services/reconcile.service.js`, `services/jobs/expiry.job.js`) | Certificate, Proposal, GovernanceConfig, Alert | compare with the chain and repair; expire and alert | contract, indexer |
| Scheduler and lease lock (`services/scheduler.js`, `utils/lock.js`) | JobLock | withLock around each tick | the three jobs |
| Proposals (`services/proposal.service.js`) | Proposal, Framework | create, sign, reject; on chain or in the database alone | contract, indexer, governance |
| Governance (`services/governance.service.js`) | GovernanceConfig | read, set the threshold | contract, proposals |
| Onboarding (`services/company.service.js`, `subadmin.service.js`) | Company, SubAdmin, User | register, approve, remove; invite, activate, remove | contract, indexer |
| Accounts (`services/auth.service.js`, `user.service.js`) | User, RefreshToken | register, login, refresh, promote, demote | none |
| Transaction sender (`services/sorobanAdapter/rpc.js`, `utils/mutex.js`) | per-signer queue, sequence numbers | build, send, poll, retry | real adapter |
| Certificate administration API (`services/certificate.service.js`, `controllers/soroban.controller.js`) | Certificate, uploads on disk, CertificateEvent, Web3Tx | create, replace the file, delete; contract administration | contract, expiry job |
| Expiry alerts (`services/jobs/expiry.job.js`, `services/alert.service.js`) | Alert | raise, escalate, resolve | Certificate |
| Real adapter (`services/sorobanAdapter/real.js`, `decode.js`) | none | encode arguments, decode answers | transaction sender |
| Configuration (`server.js`, `api/index.js`, `config/env.js`, `sorobanAdapter/index.js`) | the environment | start, as a server with a check of it or as a serverless function without; choose the adapter | everything |
| Other alerts, catalogues, storage, audit, health, migrations | own collections | create, read, update, delete; I/O | none that matters here |

What is hard about it:

* **Two systems, no transaction.** A write commits on chain first, then an outbox row is
  inserted, then MongoDB is updated, then the row is marked: a crash or an error may come
  between any two of these.
* **Interleaving at every await.** Handlers load a Certificate, wait, and save it. The
  inline mirror, the outbox processor, reconcile, the expiry job and the admin API (which
  runs the same jobs without the lock) may all hold old copies at once, in one process or
  in several instances.
* **Replay.** The outbox delivers at least once, late, and out of order with newer writes.
* **Time.** Expiry is computed by the contract, by the expiry job and by reconcile.
* **Locks by lease.** A holder may die, be slow, or fail to release.
* **Files.** Uploads lie beside the database; a request deletes what it uploaded or
  replaced, while another holds the same path.
* **Votes.** Signatures, executions, failures and rejections of a proposal race.

What makes each component correct is stated in section 3, next to the run that checks it;
`PROJECT.json` lists the hazards line by line, with the properties that would catch them.

## 2. Modules

| Module | Models |
|---|---|
| `DocumentStatus` | the pure rules of `composeStatus.js` and `statusMap.js`, their reduce, and the one of `serializers.js` |
| `AdapterCodec` | what the real adapter makes of arguments and answers: ScVals, SDK types, JSON, decoders |
| `StatusRules` | those rules on every small reviews array, and the decoders against what the stub returns |
| `Startup` | the two entries of the program, the check of the environment, and the reads that depend on it |
| `DocumentContract` | what the contract does to one document (`stub.js`, the in-process contract) |
| `CertificateMirror` | one document: contract, Certificate, outbox, and every handler and job that touches them |
| `CertificateHistory` | the abstract promise: the database shows a lifecycle the document has had |
| `CertificateMirrorProofs` | the proofs about the rules (`StatusRules`) and about `CertificateMirror`, which applies them: lifecycle, then reviews, outbox and file |
| `JobLock`, `JobLockProofs` | the lease lock, and the proof that it excludes |
| `FrameworkProposal`, `FrameworkProposalProofs` | an off-chain proposal, and the proofs about it |
| `Governance` | the N-of-M threshold: the contract's, its mirror, and everybody who saves it |
| `OnChainProposal` | a proposal the contract settles, its mirror, its effects, the reconcile job (extends `Governance`) |
| `BallotHistory` | the abstract promise of a proposal: signed by one officer at a time, carried out by a quorum, shown late but never early and never taken back |
| `OnChainProposalProofs` | the proofs about `Governance` and `OnChainProposal` |
| `TxSender`, `TxSenderProofs` | contract calls signed with one key: the queue of each instance, submission, waiting; and the proofs |
| `Onboarding`, `OnboardingProofs` | companies and sub-admins of one address: profile, login, contract list, outbox; and the proofs |
| `Sessions`, `SessionsProofs` | logins, refresh tokens, role and access tokens of one account; and the proofs |
| `CertificateUpkeep`, `CertificateUpkeepProofs` | the administration API of one certificate, its file and its expiry alerts; and the proofs |
| `MC...` | small instances for TLC; `MCRules` puts `StatusRules` and `Startup` side by side, one of which runs |

### CertificateMirror

Composes `DocumentStatus` and `DocumentContract`. Documents share no state, so one is
modelled. `chain` is the contract's record, `cert` the Certificate (lifecycle is
`chain.certificateStatus`, `"Absent"` when there is no document), `outbox` the rows in
order of creation, `now` the time in seconds, `task[a]` the local variables of one
execution of an asynchronous function at the await it is suspended at.

Every await of the code is a boundary between two actions, and what runs between two
awaits is one action with the checks before it and the assignments after it:

| Code | Actions |
|---|---|
| `submitDocument`, `reviewDocument`, `issueDocument` up to the chain call | `Submit`, `Review`, `AdminReview`, `IssueRequest` |
| `writeThrough` | `CommitStore`/`CommitReview`/`CommitIssue` or `Refused`, `Capture` or `CaptureFails`, the mirror, `MarkDone` |
| `signProposal` when it executes a revocation | `ApproveRevocation`, then the mirror, without a row |
| `mirrorStoredDocument`, `mirrorIssuedCertificate`, `mirrorRevocation` | `LoadCertificate` or `MirrorNotFound`, then `SaveStored`/`InsertStored`, `SaveIssued`, `SaveRevoked` |
| `mirrorReview` | `FindForReview`, `SetReview`, `PushReview`, `ReadForDerive`, `SaveDerived` |
| `processOutbox` | `FetchDue`, `TakeRow`, the mirror, `MarkDone`; `ReplayFails` is its catch block |
| `reconcileCertificate` | `StartReconcile` (either of the two reads of `Promise.all` first), `ReadDb`/`ReadChain`, `FixDrift` |
| the second save of `submitDocument`, with the key of the upload | `AttachFile` |
| `runExpiryJob` | `FindExpired`, `SaveExpired` |
| a crash; an exception past every catch; an RPC error after the transaction was applied | `Abort` |

`Merge` is Mongoose's `save()`: only the paths whose value differs from the loaded one are
written. This is what lets two stale saves combine.

`chain.reviews` is what the contract keeps, an officer's newest review; `chain.anchored` is
history, all reviews he ever anchored. The properties about reviews compare the
Certificate's entries with these two.

Abstractions: an officer is an active sub-admin and the company is whitelisted (a refusal
for another reason ends the request, as `Abort` does before a commit); the backoff is a
choice of which rows that failed before are due again; the processor's limit of 50 rows
is left out (one document has few rows); file data, comments, hashes of transactions,
notifications and Web3Tx rows are left out. A reconcile pass takes 500 certificates
(`PassLimit`), unsorted and with no cursor, so what it owes this document depends on how
many `Others` there are: `InEveryPass`. The administration API
writes the same collection; it is the subject of `CertificateUpkeep`, not of this model.

### JobLock

One lock name. `lock` is the JobLock document, `run[r]` a call of `withLock`. Times are
relative to the present, so the clock needs no bound: `lease` is `lockedUntil - now`, cut
off where it cannot matter any more. `acquireLock` takes the time before it sends its
update; `Ask` and `Claim` are the two moments, at most `MaxDelay` apart.

### FrameworkProposal

One proposal of type `framework_update`. Requests of `signProposal` and `rejectProposal`
are suspended between the load, the guarded `$addToSet`, the claim of the execute flip,
the framework change and the revert. A failing framework change may or may not have taken
effect: `ApplyFails` and `ApplyUnacknowledged`. `proposal.found` tells whether there is the
framework it names: `createProposal` does not look it up, it may be deleted before the last
signature, and `findByIdAndUpdate` answers null, which nobody asks for. `Apply` then changes
nothing, and the proposal is executed all the same.

### Governance and OnChainProposal

`Governance` models `getGovernance`, `setGovernance`, `reconcileGovernance` and the sync
at the end of `signProposal`, each from await to await, with their copies of the singleton
document (`desk[a].loaded`, `.new`); `SaveConfig` is the validation on the copy and the
partial write of `save()`. `OnChainProposal` extends it: an actor that signs a
`governance_rule` goes to the desk for the sync, and the reconcile job goes there between
certificates and proposals, in the order of `scheduler.js`.

`ballot` is the contract's proposal, `proposal` the Mongoose document with its `__v`: a
list that was assigned as a whole is saved over the version that was loaded only
(`SaveThrows`), a `push` is not guarded (`PushSigner`). Of the revocation's Certificate
only `revoked` is kept here; the races of the Certificate itself are `CertificateMirror`'s.
`ImplementsBallot` maps the contract's list of approvals to the set of signers, the
Mongoose document and `revoked` to what `BallotHistory` shows, and leaves the requests out.

`crowded` names the lists of the reconcile job that are longer than its limits, 500
certificates and 200 pending proposals: of such a list it may leave out this one at every
pass (`LooksAt`).

`InitContract` is the initialisation that `POST /soroban/initialize` asks for: it may be
sent again, and then sets the contract's threshold back to 1 behind the mirror.

### AdapterCodec and Startup

A value of `AdapterCodec` is its type with what it is, so 7, "7" and a u64 of 7 differ. What
the contract answers nests once at most (a list of scalars), so the conversions, which recur
in the code, are written out for that depth. Hashes are spelled as `toString('hex')` spells
them; the fields that pass through both ways (`name`, `added_by`, `comment_hash`) are left
out. `Startup` keeps of each variable what the check or a later reader tells apart (a
secret's length class, a malformed URL). `ValidateEnv` is `server.js`; `ServeRequest` is
`api/index.js`, the entry on Vercel, which never calls it and sets no defaults: there a
production process may run on the in-memory stub, or without the key that protects custodial
secrets, although `docs/API.md:137` and `.env.example:24` say that the app refuses to boot.
`StartsConfigured` is therefore about what `server.js` starts. Two things it shows that a
reader may not expect: `USE_SOROBAN_STUB=false` alone has the real adapter's credentials
required and then gets the stub, since `SOROBAN_ADAPTER` is defaulted meanwhile
(`docs/API.md:38` says that `false` selects the real one; production refuses to start); and
a blank `ENABLE_SCHEDULER` is not defaulted, so it leaves the scheduler off in production.

### TxSender

`queue[i]` is the promise chain of `runExclusive` in instance `i`, a call of it runs when
all before it have settled. The network is external: it takes a transaction that is
timely and in order when the account has none in the pool, may drop or delay it, and
applies it, successfully or not, before it is too old. Time is counted in units of the
transaction's lifetime, 30 s, and `TimeoutAssumption` (lifetime < `txTimeoutMs`) is what
makes giving up safe; it holds of the default of 60 s, and not of every value
`SOROBAN_TX_TIMEOUT_MS` may have (`env.js:74` allows 1 s). A transaction that has failed is
built again when the error it failed with names `txBadSeq` (`Confirm`), which counts against
the bound on failures.

### Onboarding

`profile` is the status of each Company or SubAdmin of one email address, `login` whose User
document holds the address (unique), `listed` the wallets in the contract's whitelist or set
of sub-admins. Both kinds run the same steps; they differ in the unique index on sub-admins'
addresses and in the contract call of a removal. Idle actors are interchangeable, so the
first idle one begins (`Ready`). `registerUser` makes a company or a regulator and its login
in one transaction, or a login for one that is there (`RegisterUser`, `Admit`); of the name
and the contacts it makes a `"walletless"` profile, which cannot be approved.
`createCompany` stores what it is given as it is, so a company may also come with a wallet,
or with a status of its own: `AdmitAsGiven`. Its users without an organisation, and the API
that makes a company without a login, are left out. `Administer` is the whitelist changed by
hand through the operations surface, which looks at no profile. A row whose attempts have
all failed is given up (`CountAttempt`); nothing takes it up again, and no job compares
profiles with the contract (`GivenUp`). `MaxBoth` bounds approvals and failures together,
for the sake of the run.

### Sessions

`task[r].loaded` is the User as it was before bcrypt, `task[r].state` whether the token
was revoked when it was looked up. Counter and lock are kept as far as they matter:
failures up to the threshold, a lock that is ahead, past or absent. `access` holds the
roles of the access tokens that are out: `requireAuth` goes by the token alone, so a
demoted regulator keeps his rights until it expires, and `RoleGoneForGood` speaks of the
time after that. Left out: API keys (`exchangeApiKey` checks neither expiry nor owner, but
nothing in the source makes a key), and edits of a user's other fields.

### CertificateUpkeep

One certificate, with uploads on disk. `row` is the Certificate as far as it matters
here, `file` what is at each path, `trail` the kinds of records that refer to it, `alerts`
its expiry alerts. multer gives every upload a name of its own, so `Upload` takes a path
that was never used; `Contents` stand for their hashes. A file that exists is deleted
when `unlinkSync` is called. It starts without a row, or with one that came through the
document API and has an expiry date. `Reconcile` is the repair of the status, as far as
this API's rows meet it. `mishaps` records what the code does not provide for (two
requests with the row in hand, two runs of the job, a write reported as failed that took
effect, a request cut short, an expiry seen by reconcile first), and each property names
those it excepts. `RefuseCreate` is the creation refused for want of a name or a subject
(`certificates.controller.js:35`): multer has stored its upload by then, and nothing deletes
it; the path is noted in `mishaps`. The row that came through the document API is there from
the start, so an administrator's update between the two saves of `submitDocument`
(`document.service.js:91-112`), after which the first upload's path would stand beside the
other hash, is not in this model. With GridFS, the default storage, no file is ever deleted:
`storage.remove` has no caller, so there is nothing to model.

## 3. Runs

All of them finish well within five minutes on two cores.

| Run | Instance | Shows |
|---|---|---|
| `rules` | three reviewers, all four decisions, two dates, two scores; every environment | `LatestIsReduce`: the declarative latest review is the one the code's reduce selects, ties and unordered dates included. `GateMatchesStatus`: shown status and gate agree. The review status that `toDocItem` computes once more agrees, unless two newest reviews have one date. `SpellingDoesNotMatter`: contract names and frontend names behave alike, and translate back. `AdaptersAgree`: what the decoders make of the contract's answers is what the stub returns. `StartsConfigured`: a process that `server.js` starts has what it needs |
| `mirror_safety` | two executions, an officer and the main admin, two opinions, two reviews, issue, one revocation, the second of the expiry, no failure | `NeverAhead`, `ImplementsHistory`, `OneEntryPerReviewer`, `NoReviewDropped`, `EntriesAreAnchored`, `IssuedAfterApproval`, `FileStays` |
| `mirror_settles` | two executions, one review of the main admin, issue, one failure, two seconds, passes that look at all certificates, fairness | `DoneRowsAreMirrored`, `CertificateSettles`, `RowsDrain` |
| `mirror_replay` | two executions, an officer, two reviews, no failure | `LatestReviewStands` is violated, see below |
| `job_lock` | three runs in two processes, lease 4, delay 1, runs up to 2 | `AtMostOneRun`, `NeverWedged` |
| `framework_signing` | four requests, four officers, a framework or none, threshold 2, two failures, one lost reply, one crash | `AppliedOnce`, `QuorumBehindChange`, `QuorumIsNoticed`, `ExecutedIsApplied`, `RejectBlocksSigning` |
| `governance` | two actors, two officers, N and M up to 2, two changes of the contract, one failure, fairness | `ThresholdSettles` |
| `proposal_onchain` | two actors, two officers, each type of proposal, any threshold, certificates or proposals beyond the job's limit, one failure, fairness | `NeverAhead`, `ImplementsBallot`, `ExecutionIsSeen`, `RevocationArrives` |
| `tx_sender` | three calls, two instances, two attempts, one failure, crash or failed transaction built again, fairness | `AppliedAtMostOnce`, `TruthfulOutcome`, `AppliedInOrder`, `CallsSettle` |
| `onboarding` | companies, sub-admins or regulators; two profiles of one address, two actors, two rows of two attempts; one approval with two failures, two with one, or one change by hand; fairness | `ActiveIsListed`, `ProfileHasLogin`, `ApprovalArrives` |
| `sessions` | two requests, three tokens, lockout after two failures, a company's admin who may be promoted and demoted | `SpentForGood`, `RoleGoneForGood`, `LockoutComes` |
| `certificate_upkeep` | two actors, three paths, two contents, one alert resolved, one failure, repair or store by hand | `FileBehindRow`, `NothingLeftBehind`, `AlertsFollowExpiry` |

Why the bounds are enough: two executions suffice for each race of the code, which are all
between one stale reader and one writer (a third adds no new pair of steps; the outbox
rows, the jobs and the inline mirrors are all present, in any combination of two, again
and again); one failure puts the system in each partial state, and the time bound lets an
issued certificate reach its expiry and pass it. Four requests and four officers let
several signatures arrive between a claim and its revert, and a second claim fail too.
`mirror_safety` leaves failures out, and stands still at the second of the expiry, to
afford a second review beside issue, revocation and expiry: in that second the expiry job
(`expiryAt <= now`) already acts while the contract (`now > expiry`) still answers
"Issued", and a certificate may be issued. Its properties are proved for any number of
failures and any times (section 4), and `mirror_settles` has a failure and the second
after, with the contract's "Expired". That run in turn has no revocation, whose arrival is
`RevocationArrives` of `proposal_onchain`.

Two actors in the later runs, again, because each race is between one stale copy and one
writer; with two changes of the threshold a copy can be stale twice over; with three
calls in two queues one instance can overtake the other while a third call waits behind
the first. Three tokens let one be presented again when its successor has been exchanged;
a lockout after two failures has a state in between. Two failures dead-letter a row in
`onboarding`. `proposal_onchain` has always one list beyond its limit: a run with none is a
run in which the job leaves nothing out, and what is owed to a revocation is owed by the
certificates' pass alone, what is owed to an execution by the proposals' pass alone.

Deadlock is checked where the system cannot stop (`mirror_*`, `job_lock`). It is off where
it really may: a process that has started or exited, a decided proposal with no request
left, a spent budget of calls, approvals or changes, a deleted account, a certificate whose
paths are used up. Symmetry is used over the executions (and officers of a proposal, and
paths of files) in safety runs only. A type invariant that is proved is not run as well.

What a comment says and the code does not do: `services/indexer.service.js:130` has the
latest review of a reviewer replace the prior one as in the contract, and
`services/outbox.service.js:6` calls replaying "safe". But `mirrorReview` does not ask which
of two reviews is newer. With two reviews of one officer under way, or with the row of the
first replayed after the second was mirrored, the older may be written last, and stays:
reconcile does not compare reviews. `mirror_replay` is TLC's shortest way there. What does
hold is `EntriesAreAnchored`: the entry is one of his reviews, whole. And since the issuing
gate reads the entries, `IssuedAfterApproval` speaks of an approval that was anchored at
some time; it may have been replaced on chain.

One more promise of the comments the code does not keep; no run states it, since one crash
refutes it: `services/indexer.service.js:265-270` and `models/Outbox.js:2-8` say that a
write the chain confirmed is never lost. A crash between the confirmation and the insertion
of the outbox row (`Abort` between `CommitStore` and `Capture` in `CertificateMirror`) loses
it: nothing in the database knows the document, reconcile walks over the Certificates there
are, and a resubmission is refused as a duplicate. `CertificateSettles` therefore speaks of
documents that have a Certificate.

The properties that hold were narrowed where the code does not promise more, and
`PROJECT.json` says so at each hazard. What they leave out on purpose: a late replay of a
store row shows an issued document as Submitted until reconcile (`CertificateSettles` is
about the end, not the way); a score computed from an older read is not repaired; a run
longer than its lease is joined by another; a rejection saved over an execution shows
`rejected` beside `executed: true`; a reverted framework proposal that all have signed
cannot be executed any more; a signer may be listed twice; a removal that overlaps an
activation leaves the officer listed in the contract; two refreshes at once both get a
token; a login may be made for a company that is removed meanwhile; two updates of one
certificate may leave a file nobody names; an expiry that reconcile sees first raises no
alert. And, beyond races:

* a reconcile pass looks at 500 certificates and 200 pending proposals, unsorted and with no
  cursor (`reconcile.service.js:75`, `:127`; the scheduler passes no limit), and ends at the
  first certificate whose comparison throws, governance and proposals with it. What lies
  beyond need never be repaired: `CertificateSettles` asks for `InEveryPass`,
  `RevocationArrives` and `ExecutionIsSeen` for a list that is not `crowded`. The outbox
  takes 50 rows, the oldest first, so its limit starves nobody;
* a dead-lettered row is not replayed, so a captured approval may never reach its profile:
  `ApprovalArrives` excepts it, if as many calls failed as a row has attempts;
* a proposal about a framework that is not there is executed with nothing applied:
  `ExecutedIsApplied` asks for `found`;
* the upload of a creation refused for want of a name or subject stays on disk:
  `NothingLeftBehind` excepts these files and no others;
* a company registered with a status of its own is active without being listed:
  `ActiveIsListed` excepts it with the whitelist changed by hand;
* the serverless entry checks no configuration: `StartsConfigured` is about `server.js`.

### Fairness

* `CertificateMirror`: weak fairness of every step of an execution that has begun (the
  event loop runs its continuations), strong fairness of starting the outbox and reconcile
  jobs (`setInterval` fires however busy the process is; strong, because the model's
  executions are few and may all be taken at times when the timer would fire); a pass of
  reconcile is owed to this document only if it gets to all there are (`InEveryPass`), and
  no other certificate makes every pass throw before. Requests, failures, the expiry job
  and time need not happen.
* `JobLock`: weak fairness of each run's steps, which only counts for a process that stays
  up; strong fairness of time passing, which a run about to exceed its bound may hold up.
  Crashes, restarts and failing releases need not happen, and may happen for ever.
* `Governance`, `OnChainProposal`, `Onboarding`: weak fairness of the steps of what has
  begun, strong fairness of starting the job, as above. `TxSender`: weak fairness of an
  instance's calls and of time; none of the network. `Sessions`: none (`LockoutComes` is
  about attempts that keep being made). `CertificateUpkeep`: none.
* The scheduler is off unless `ENABLE_SCHEDULER` is set; without it (and without the admin
  API) nothing obliges the outbox to drain, and the liveness results do not apply. The
  serverless entry never starts it.

## 4. Proofs

Checked by TLAPS for every value of the constants that satisfies the named assumptions
(bounds are naturals, opinions, dates and scores are a review's, the main admin is not an
officer, sets of officers are finite):

* `CertificateMirrorProofs`: `TypeCorrect`, `NeverAheadCorrect`, and `Refinement` (the
  handlers and jobs implement `CertificateHistory`). `NeverAhead` is not inductive: a save
  writes what its execution computed before an await. `IInv` adds that everything in
  flight (the job of a task, its loaded document, the chain's answer it holds, the jobs in
  the outbox) was true of the chain at some time; and what has been true stays true,
  because the set `Held` of lifecycles only grows and the expiry is set once
  (`ChainStep`). Then every step preserves `IInv` (`OutboxStep`, `CertStep`, `TaskStep`),
  and `HistoryStep` maps each step to `Grow`, `Show` or a stutter.
* The same module, about reviews: `OneEntryCorrect`, `NoReviewDroppedCorrect`,
  `EntriesCorrect`, `IssuedCorrect`, `DoneRowsCorrect` and `FileCorrect`, from one
  invariant `RInv`. Reviews in flight (tasks, rows) were anchored, and `anchored` only
  grows; nobody's entry is ever taken away, so a mirror that is past its updates finds one
  whatever the others save (`CertKept`); the gate that lets an issue request pass has found
  an approval that was anchored (`GateApproved`), and the request carries that to the
  contract; a save without the file does not write the path.
* The same module, about the rules, on every input: `ReducedIsLatest` (the review the models
  choose is the one the reduce of `latestReview` keeps), `ShownIsNewest` and
  `LatestIsNewest` (what is shown is the decision, and the score, of an entry none is newer
  than). The reduce is a recursive function over positions. `ReduceExists` proves that this
  function is defined, and `LastKeptSteps` that it takes the code's steps. The theorems on
  induction take an operator, so `IntervalInduction` is derived from a minimal element of
  the well-founded order of strict inclusion instead. `SpellingIsLossless` and
  `ShownIsIssuable` speak of a single decision.
* The same module, what `StatusRules` states, for any authors, dates and scores:
  `LatestIsReduceCorrect`, `GateMatchesCorrect`, `SpellingCorrect`, `AdaptersAgreeCorrect`.
  The run evaluates these on small arrays; the theorems need of the array only that its
  entries are reviews (`RulesTyped`), so they hold at any length and in any order of dates.
  `AdaptersAgree` is shown field by field, and holds of whatever the fields contain.
* `JobLockProofs`: `LockExcludes`, under `RunsAreShort == MaxRun + MaxDelay < Lease`. The
  strengthening is `Outlived`: a lock outlives the run that claimed it, so a claim finds
  it free only when nobody works. The condition is needed: without it TLC finds two.
* `FrameworkProposalProofs`: `AppliedOnceCorrect` and `QuorumCorrect`. The flag `executed`
  acts as a lock (`OneInFlight`): only the request that flipped it applies or reverts; and
  until the change is acknowledged it counts only lost replies (`StillToApply`).
  `QuorumNoticedCorrect` and `ExecutedAppliedCorrect` follow a claim to its end (`RestInv`):
  what was tallied is being claimed, what was claimed is being applied or reverted, unless
  the bounds show a failure; that a claim which has been applied has changed something
  needs the framework (`found`). `RejectBlocksCorrect` is about one step.
* `OnChainProposalProofs`, first part: `GovTypeCorrect`. N and M stay at least 1 only
  because what is about to be saved was read from the contract or asked for (`CommitInv`).
* `OnChainProposalProofs`, second part: `TypeCorrect`, `NeverAheadCorrect`,
  `NothingTakenBackCorrect` and `BallotCorrect`. What a request saves was read back before
  other requests saved theirs, so the invariant speaks of the past: a loaded document with
  the version of the stored one has its signers (`LoadedInv`), and the contract's proposal,
  read back later, has at least those (`ViewInv`). A save over another version throws, so
  the list written contains the list it replaces (`StoreWrites`). What a step may do to what
  others have in hand is said once (`Grows`), and `StepOfOne` frees each action of it. The
  theorems hold while the officers stay, and say nothing of the liveness. `BallotCorrect`
  adds the contract's side: no officer is in the list of approvals twice (`OneVoteEach`), so
  its length, which the code compares with the threshold, is a number of officers
  (`TallyIsLength`). `VoteStep` then maps an approval to `Sign`, whatever writes the
  proposal or the Certificate to `Show`, a change of the threshold to `Govern`, and the rest
  to a stutter. `NothingTakenBack` follows from `ImplementsBallot`, which the run checks in
  its place; its theorem is what the mapping of `Show` rests on.
* `SessionsProofs`: `SpentForGoodCorrect` and `RoleGoneCorrect`. Both are about single
  steps; the invariant they need is that whoever is on the way to a token holds one that
  was looked up, and an account that exists has one of its roles (`SessionInv`).
* `TxSenderProofs`: `AppliedAtMostOnceCorrect`, `TruthfulOutcomeCorrect` and
  `AppliedInOrderCorrect`, from `SenderInv`. A transaction is in the pool only for a call
  that has sent it, with that attempt, and does not outlive the call's wait (`PoolInv`,
  which is where `TimeoutAssumption` is needed: without it a call times out and is applied
  afterwards). What was found is in the log if it succeeded, and then nothing of that call
  is pending, whichever of its attempts it was (`FoundInv`, `LogInv`), so no second
  transaction of it is applied. A call
  whose transaction is out finds those before it settled and out of the pool (`OrderInv`):
  it was built after they settled, and the pool holds one at a time.

* `CertificateUpkeepProofs`: `FileBehindRowCorrect`, `NothingLeftBehindCorrect`,
  `AlertsFollowExpiryCorrect` and `UpkeepTypeCorrect`, from `UpkeepInv` in three layers.
  `FilesInv`: an upload that is not yet in the row is known to its request alone
  (`OwnUploads`), a path in use is never given out again (`InUse`), and whoever is about to
  delete a file holds one the row has ceased to name (`Shed`); this needs nobody to be
  alone. `TidyInv` does: unless requests overlapped, what a request has found of the row is
  so still (`FoundStands`), so what it deletes is all there was; a refused creation adds a
  file that nobody has in hand, which `TidyInv` counts out by its path. `AlertsInv` follows
  a run of the job from the status it has written to the alert it raises.
* `OnboardingProofs`: `ActiveIsListedCorrect`, `ProfileHasLoginCorrect` and
  `OnboardingTypeCorrect`, from `OnboardingInv`. A profile becomes active in a mirror, and a
  mirror starts from the contract's answer or from a row that outlives it; so the invariant
  speaks of every approval, in hand, in the outbox or mirrored (`ApprovedIsListed`), until
  it is withdrawn, which is for good; a company that came active of itself is told apart by
  the change by hand it has used up. `NewIsOwn` keeps two requests from creating one
  profile. `StepKeeps` says what a step must do to preserve it; each action is then shown to
  do so.

`UpkeepInv` and `OnboardingInv` were checked by TLC on small instances before they were
proved.

Only model-checked:

* The liveness properties `CertificateSettles`, `RowsDrain`, `NeverWedged`,
  `ThresholdSettles`, `ExecutionIsSeen`, `RevocationArrives`, `CallsSettle`,
  `ApprovalArrives` and `LockoutComes`: the prover handles neither fairness nor ENABLED.
* `StartsConfigured`: the module has no constant, and the run evaluates it on every
  environment there is, so there is nothing left for a proof to add.

## 5. What is left

Done: the certificate mirror with its reviews and the upload, the lease lock, framework
proposals, on-chain proposals with governance and initialisation, the transaction sender,
onboarding, sessions with roles, the certificate's upkeep with its expiry alerts, the real
adapter's conversions, the configuration at start.

`FrameworkProposal` does not implement `BallotHistory`, and no mapping would make it: it
claims `executed` ahead of the effect and may revert it, and after a lost acknowledgement
it takes signatures again with the framework changed. Its own theorems say what holds of it
instead (`AppliedOnce`, `QuorumBehindChange`, `ExecutedIsApplied`).

Not modelled:

* `transferMainAdmin`: the contract gets another admin, and this process goes on signing
  as the old one, so every later call is refused; nothing here recovers from it.
* The execution of a contract upgrade: the contract's code changes, no state here.
* Catalogues and the compliance program: single-document create, read, update, delete.
* Notifications and alerts other than expiry: written and marked as read, nothing waits
  for them.
* Storage, encryption of keys, hashing, validation of requests, routing, audit log,
  health: input and output.
* Migrations: run once, by hand, on a system that is down.
* A composition of proposals with the Certificate in one model: the states of
  `proposal_onchain` and `mirror_safety` multiply, and what they share is the revocation,
  which each has in its own terms.
