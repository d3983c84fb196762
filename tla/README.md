# A TLA+ verification of the CodeSanctum evidence pipeline

CodeSanctum takes evidence that a Local Runner collected in a customer's
repository, verifies and stores it, issues a signed Vendor Receipt, and keeps for
every review an append-only history of what happened, up to the Attestation package
the customer finalizes. This directory models two kinds of code in it:

- **processes** that write several stores without a common transaction: the HTTP
  host's routes, the evidence store under them, the worker and its timers behind
  them, the promotion of environment gates;
- **judges**: the pure rules that decide what may be appended, recorded, received,
  attested and finalized. Nearly every rule exists twice, in the runtime
  (`apps/control-plane`, `packages/protocol-ts`, `services/intake`) and in the
  repository's protocol gate (`scripts/lib/protocol-utils.mjs`), and the two copies
  are compared with each other over edited documents.

## Inventory

| component | state it keeps | operations | what makes it correct |
|---|---|---|---|
| append-only logs (`evidence-store/src/postgres/append-only-log.ts`) | `review_event`, `evidence_lifecycle_event` rows | `loadLog`, `append` | one row per number and key, no gap, nothing rewritten, a replay answered by its own row |
| submission routes (`host/src/routes/submissions.ts`) | none of its own | open, PUT artifact, finalize | receipt, review event, outcome, job and answer agree, whatever races or crashes |
| attempts, outcomes, receipts (`host/src/submission/*.ts`) | `submission_attempt`, `submission_attempt_outcome`, `submission_vendor_receipt` | `open`, `recordOutcome`, `record` | first write stays; an outcome's receipt exists |
| access minting (`host/src/submission/access.ts`) | none | mint | every read of evidence is in the lifecycle log before a byte is returned |
| artifact and object store (`evidence-store/src/postgres/artifact-store.ts`, `filesystem/object-store.ts`) | files, `artifact_reference`, `deletion_evidence` | `put`, `get`, `delete` | a row has whole bytes; deletion evidence is true |
| job queue (`evidence-store/src/postgres/job-queue.ts`) | `job` rows | `enqueue`, `claim`, `complete`, `fail`, release of stale claims | no job is lost, none is retried for ever |
| normalization worker (`host/src/worker/normalize-job.ts`, `main.ts`) | `finding_normalization_outcome`, draft sets | the pass, one job | each job ends in one recorded result; a normalized result has its draft set |
| retention expiry (`evidence-store/src/retention-expiry.ts`) | retention records, purge jobs, deletion evidence | catch up, drain, purge, reconcile | purged when due and never before, evidence verified, purged bytes stay away |
| transparency (`host/src/worker/transparency.ts`, `evidence-store/src/transparency/`) | anchors, publications, covered heads | checkpoint, publish, prove, verify | what is recorded as published is anchored and grows; proofs prove |
| budget (`host/src/submission/*budget*.ts`) | none (derived from events) | ratio, tiers, halt | spend is bounded although ratios are read early |
| identity (`host/src/routes/auth.ts`, `auth/resolve-actor.ts`, `identity-store/src/`) | accounts, sessions, TOTP steps, throttle | sign in, step up, touch, log out | a code signs in once; tries are bounded; a dead session stays dead |
| rate limit (`host/src/rate-limit.ts`) | windows per network | admit | bounded admission although windows are evicted |
| reviewer routes (`host/src/routes/reviewer.ts`, `reviewer/`) | `finding_classification_record` | show drafts, classify | the judgments of a draft form one line; whoever judges is logged as having read |
| control plane (`apps/control-plane/src/index.ts`) | none (pure) | append boundary, record judges, event builders, customer history | rules decided on a copy of the log hold of the log; what is accepted the gate accepts |
| intake (`services/intake/src/index.ts`) | none; its caller's request is live between awaits | verify, prepare and complete a receipt, outcome | only a request that passed every check as a whole gets a receipt |
| environment gate (`scripts/promote-environment-gate.mjs`, `host/src/gate-binding.ts`) | gates, readiness decisions and evidence | promote, seed, bind | a promoted gate stands on its decision and evidence |
| protocol gate (`scripts/lib/protocol-utils.mjs`) | none (pure) | judge fixtures and exports | reference of the runtime's judges |
| submission credentials, web routes, normalization rules, boot ladder, server, signing, in-memory adapters, Local Runner, submit client, rendering, web app, deployment | see `components` in `PROJECT.json` | | not modelled, below |

How they interact. A client opens an attempt, uploads the artifacts its manifest
lists and finalizes. Finalize reads every artifact back through
`ArtifactStore.get`, which appends an access event to the lifecycle log first;
verifies (intake); stores a receipt; appends an event to the review log; records the
outcome; and enqueues a normalization job. A worker claims the job, reads two of
the artifacts (logged in the same lifecycle log), stores a draft set and records a
result. A reviewer is shown the draft set, which is another logged read, and judges
its drafts: a record is stored and an event that supersedes the judgment in force is
appended to the review log. The later records of a review (guidance, validation,
verification pass, attestation, package) are judged with a context their author has
read, and become events the same way. Every caller that appends to that log asks the
control plane's boundary first, on a copy it loaded. Two timers run beside all this:
one purges evidence whose retention has ended, one anchors the heads of all logs
off-box. Everything is shared through Postgres and the file system; nothing but a
promotion holds a transaction across two statements.

What is hard: every `await` of a handler is a point where other requests run and
where the process may die; the logs' numbers are derived from a copy loaded
earlier; idempotency keys decide what a retry means; a stale claim is taken away
from a worker that is still busy; files are written, renamed and removed while
others read them; limits are compared with readings taken before an await; clocks
move and may be set back; contexts are stale when they are judged; and two copies of
each rule drift apart. `PROJECT.json` lists these hazards at their lines.

## Modules

| module | models | state and actions |
|---|---|---|
| `LogRows` | the statements of `append` on the rows of a log table | pure operators: `KeySelect` (first SELECT), `BelowNew` (second), `InsertAllowed` (the table's constraints), `NextSequenceNumber`, `EventCount` |
| `ReviewHistory` | what a log promises: per review a sequence that grows at its end, each key once | abstract specification |
| `AppendOnlyLog` | racing appenders over one log table | one action per statement: `Load`, `Lock`, `SelectKey`, `SelectMax`, `Insert`; `Crash` anywhere |
| `Submission` | the three routes over all their stores | one action per await: `Open`, `PutBegin` .. `PutClassify`, `FinalizeBegin`, `Replay`, `Mint` .. `GetBytes`, `Verify` .. `EnqueueNormalization`; `Tick`, `HostCrash` |
| `NormalizeWorker` | job queue and worker loop | `Enqueue`, `ClaimAges`, `StartPass`, `Claim`, `FindResult`, the steps of a try, `RecordResult`, `Complete`, `FailJob`, `Abort` |
| `ObjectStore` | one object: names, inodes, row, deletion evidence | the steps of put, get and delete, `CallCrash` |
| `Retention` | the retention timer over records, queue, artifacts and evidence | `StartRetention`, the steps of a pass (catch up, claim, erase, complete or fail, reconcile), uploads, an operator's delete, clock set back, mishaps |
| `Transparency` | the checkpoint timer, the anchor and the publication table | `StartCheckpoint`, loading heads one by one, publish, read back, record; outages and crashes |
| `MerkleTree` | checkpoint tree, inclusion proofs, hash chains and their public verifiers | recursive functions over levels and links; a hash is the term it was computed from, and an order is by rank (how many are smaller) |
| `Login` | sign-in with throttle, second factor and session rotation | one action per await of the two routes; `Logout`, `LoginStops`, passing time steps |
| `Sessions` | issue, resolve, touch and revoke a session | requests that resolve early and touch late |
| `Budget` | meter, tiers and halt, with the two readings a submission acts on | open and finalize of each client, the month's turn |
| `RateLimit` | the fixed-window cap with its bounded map | one action per request, passing time |
| `ReviewEvents` | `appendReviewEvent`: which events may join a review's log | `Propose` (load, draft, decide), `Store` (append); one predicate per rule |
| `GateLog` | the protocol gate's judgment of a finished log and of the shown history | operators over the log of `ReviewEvents` |
| `Reviewer` | GET drafts and POST classifications | one action per await: `Begin`, `Mint`, `Get`, `Load`, `List`, `Record`, `AppendEvent`; `OtherEvent`, `Tick`, `Crash` |
| `ClaimSafety` | the text scanners of the runtime and of the gate | operators over sequences of token classes |
| `FindingRecords` | classification, guidance, status, false positive, accepted risk, validation path and script: schema and both judges | operators |
| `VerificationPass` | scope, evidence, decision and addendum: schema, both judges, and the context they are judged in | operators |
| `AttestationPackage` | attestation, evidence mapping, static bundle manifest, portal, finalization, pilot records: schema and both judges | operators |
| `EventBuilders` | the `build...Event` functions, submission outcomes and the append's rules for one event | operators; a builder is a set of at most one event |
| `OutboundPackage` | disclosure policy, manifest, approval, bundle, artifact references: schema and both judges | operators |
| `Intake` | `verifyIntakeSubmission`, receipt and outcome, receipt verification | handlers whose request its caller changes between awaits; one action per await: `VerifyHead`, `VerifyArtifacts` (the artifacts' digests), `VerifyTail`, and the steps of receipt and outcome |
| `GatePromotion` | judging a promotion at the wall clock or at any `--now`, the transaction, seeding any body at any version, and binding | `JudgePromotion`, `BeginPromotion`, `CommitPromotion`, `TryAgain`, `seedEnvironmentGate` |
| `JobQueue` | the statements of the Postgres job queue, used by `Retention` and `NormalizeWorker` | operators over the rows |
| `LogRowsTheorems`, `EvidenceStoreProofs`, `SubmissionProofs`, `ReviewEventsProofs`, `ReviewerProofs`, `HostProofs`, `RecordProofs`, `PackageProofs` | theorems and proofs | |
| `MCEvidenceStore` | one instance each of `AppendOnlyLog`, `ObjectStore`, `NormalizeWorker` | |
| `MCTimers` | `Retention`, `Transparency` and, for the end of a job, `NormalizeWorker` | |
| `MCHost` | `Submission`, `Login`, `Sessions`, `Budget`, `RateLimit` | |
| `MCVerification` | a verification pass whose world moves on while an author works on a view of it | `world`, `view`, `doc` |
| `MCAttestation`, `MCRecords` | honest records and packages and their edits, typed texts, envelopes, proofs; includes `MCVerification` | `kind`, `rec`, `bound`, `env`, `edits` |
| `MCPackage` | documents of a submission and their edits, `Intake`, `GatePromotion` | |
| `MCReviewEvents`, `MCReviewer`, `MCSubmissionFindings` | instances of one component each | |

`Submission` and `AppendOnlyLog` both build on `LogRows`, so the log's statements are
written once. `Submission` abstracts the write of one object to a single step
(`PutBytes`); `ObjectStore` looks into that step. `NormalizeWorker` starts where
`Submission`'s `jobs` ends. `ReviewEvents` and `Reviewer` take from `AppendOnlyLog` that an
append is atomic, refuses a taken number and recognises a replay; the route's one
event type in `Reviewer` is one of the types that `ReviewEvents` has rules for. `Retention`
and `ObjectStore` both have the three statements of `ArtifactStore.delete`: one against
passes and records, the other against the file operations of a read. `Submission` takes
intake's verdict as a choice; `Intake` looks into it. `EventBuilders` makes the events that
`ReviewEvents` orders.

Most MC modules pick a *topic* at the start of a behaviour. Where a module has several
components, they share no state and a topic is one of them; where it has one
component, a topic is that component's own next-state relation with smaller constants,
because the whole instance would be out of reach. The topics are chosen so
that each race is in one of them.

Judges are compared by *editing*: a behaviour starts from an honest document and
changes one field at a time, in the document, in the records it is bound to and in the envelope
of its event, so every state is a document with up to `MaxEdits` faults, and all
judges are asked in every state. That reaches the pairs of fields whose rules
interact, which is where two copies of a rule drift apart.

Abstractions. An event's body is what two bodies can differ in: a model value in
`AppendOnlyLog`; in `Submission` the second of an access event, and the event type with
its second of a review event. Intake's verdict is a choice among the outcome
states in `Submission`, made anew by every finalize, because it depends on the time and the budget as
well as on the bytes. Refusals that come before the first write and change nothing
(credential, body shape, unexpected manifest) are left out there: they only remove
behaviours. A job's age is abstracted to whether its claim is stale. An object is two
pieces, each with the put that wrote it: two are enough to be partial or mixed.
In `ReviewEvents` an event's id, a hash of its content, is its position in the log, and
`supersedes` is a position; the reasons of a refusal are not told apart. In `Reviewer` a classification
record is its own content id, and a draft is in one draft set, because a draft's id
hashes the normalization run it came from. In the judges' modules a text is a sequence of
the token classes its scanners tell apart (`ClaimSafety`), a list of texts is one text, `sealed`
says that a record's id is the hash of its content, and the schemas are kept for what
they say about several fields (conditions, required parts, counts), not for string patterns.
Definitions whose comment starts with "Mutant of" are deliberate faults, used to
show that each property can fail; no specification uses them.

## Runs

| run | question | bounds |
|---|---|---|
| `evidence_store` | do free interleavings, lost races and crashes leave each review a gap-free, append-only history (`ImplementsHistory`, `AcknowledgedIsLogged`); is every read whole unless two puts share the temporary file, and what the tables say of the disk true (`BrokenOnlyIfShared`, `RowsAreTrue`); is no job lost, tried for ever or tried twice under one access key (`JobsAreKept`)? | 2 appenders, 3 keys, 2 bodies; 2 puts, a read and a deletion of one digest at once, 3 inodes (one per put and one left over), 1 crash; 2 workers, 2 attempts, limit 1, 1 abort |
| `review_events` | do rules decided on a stale copy hold of the log, does the gate accept that log, and does what a customer was shown only grow? | 2 callers; verification records: 2 types, 3 versions, 3 events; packages: 3 types, 2 versions, 2 digests, 2 times, 4 events; scripts: 2 names, all slots, 3 events; corrections: 5 types, 4 events, the least with a chain of three under a correction |
| `reviewer` | do racing reads and judgments leave one line of judgments, each by a logged reader? | 2 requests, 2 reviewers, 2 events; either 1 draft and 1 tick, or 2 drafts |
| `timers` | is evidence kept until the first record that names it ends (`StoredIsKept`), purged then (`ExpiredIsPurged`), does it stay purged (`PurgedStaysPurged`), does every pass end; do publications stand and does every event get anchored; does a job end although its claims are lost and another job fails (`JobEnds`)? | 2 records that share an artifact, 3 instants, 1 mishap, 1 step back of the clock; 2 reviews with up to 2 events, 1 outage; 1 worker, 2 attempts, limit 1, 1 abort |
| `host` | do receipt, logs, outcome, job and answer of a submission agree under races, crashes and passing seconds; one session per code, bounded tries, sessions that live as long as used and stay dead, bounded spend, bounded admission? | 2 requests, 1 crash, and either 1 attempt, 2 bodies (one or two artifacts) and 1 tick, or 2 attempts that share both logs, 1 artifact; 2 sign-ins, threshold 1, 3 tries; 2 requests on an ageing session (idle 4, lifetime 7, touch gap 2); 2 clients over 2 months, with a price that does not divide the ceiling; 2 networks, a map of 1 |
| `records` | what the runtime records, does the gate accept; do built events meet the append's rules, and attestations stand on current history; do decisions rest on heads; is source accounted for; do proofs prove? | texts of 3 tokens over all classes and 5 over those of closure claims; 2 edits; 2 corrections or deletions under an author; trees of up to 6 heads; review logs of up to 6 events with a limit of 5 |
| `package` | what the runtime accepts of a submission, does the gate; does real source stay out; is a receipt earned; does a promoted gate stand? | 2 edits; 2 handlers, 3 instants; 2 interchangeable operators, 2 controls, 3 versions, seeds open and closed, days 0, 1 and 8 (a week is the limit), promotions judged at any of them |
| `submission_retry`, `submission_no_envelope`, `promotion_approvers`, `object_two_puts`, `login_tries` | the five statements of the repository that the code does not keep (below) | smallest instance that shows each |

Two of everything that races is the least that shows an order the code's tests do not
try; the inductive proofs cover every number. Crashes
are bounded because each only forgets local state: a second one repeats the first from
a state that the first already reaches with other stores filled. Times are as few instants as
have all orders of the deadlines compared. The real limits
(`NORMALIZE_MAX_ATTEMPTS`, `STALE_CLAIM_SECONDS`, window and lifetime lengths) are constants.
Deadlock is not checked where the bounds let everything stop: a full log
(`review_events`), the last instant (`timers`), a document with all its edits (`records`, `package`). In `host` only
the protections may rest at their bounds (`Rests`); a submission that stops short of its answer is a deadlock.

Fairness. `NormalizeWorker`: each worker's loop goes on (`WF` of `Work`: systemd
restarts it and the loop sleeps and repeats), time passes (`WF` of `ClaimAges`), and
clients stop replaying at last; without that last assumption a queue refilled for
ever keeps a worker inside one pass and stale claims are only released between
passes. `Retention` and `Transparency`: systemd's timers start a pass again and again, a
started pass goes on unless it dies, and claims of dead passes age; deaths, throws and outages
are bounded, since nothing helps a system that always dies. `Submission`'s `FairSpec` is
used for the retry question only: the event loop resumes
every handler, and a client repeats its finalize for ever.

## What the runs found

Five statements of the repository are not what the code does; each has a run with a
counterexample and an entry under `findings`.

1. A finalize repeated in a later second, after a crash between the first access
   event and the outcome, is refused for ever: the access key is the same and its body is not
   (`submission_retry`).
2. An upload that could not be encrypted is reported as received (`submission_no_envelope`).
3. One person in both approver roles promotes an environment gate (`promotion_approvers`).
4. Two puts of one digest write one temporary file (`object-store.ts:29`); one of them renames it
   while the other is still writing, and a reader opens a partial object (`object_two_puts`;
   `:5` says it never does). `BrokenOnlyIfShared` is what is true: nothing else breaks a read.
5. Sign-ins that passed the throttle together are all judged, because a failure is recorded after
   the password hash is awaited: a network gets more wrong tries of an identifier in a window
   than the threshold `auth.ts:44` names (`login_tries`). `JudgedTriesAreBounded` is the bound that
   holds: the threshold less one and the calls under way.

Modelling showed more that is worth knowing. Where a property would fail because of one of
these, its definition names the exception, so that any further disagreement is a
violation.

Races and retries:

- The advisory lock of `append` ends with the statement that takes it
  (`append-only-log.ts:48`; the comment at `:16` says it serializes). The unique
  constraints keep the rows right; the loser's append throws.
- Of two racing finalizes, the one whose outcome was not stored answers the receipt it
  minted, which no stored outcome names (`submissions.ts:418`, `:295`).
- `ArtifactStore.delete` asks for no row (`artifact-store.ts:99`). A delete whose re-read comes before
  the write of a put that found no row leaves verified deletion evidence next to the bytes, for good:
  the row that put inserts answers every later one. `SettledIsGone` (in `RowsAreTrue`) and
  `PurgedStaysPurged` are about artifacts that have their row while nobody is putting them;
  `ExpiredIsPurged` asks of those that the bytes are gone, and of the others for the evidence only.
- The first end decides: an artifact that two records retain is purged when the earlier one ends
  (`retention-expiry.ts:107` looks at the job's record alone). `StoredIsKept` promises no more.
- After the clock was set back, a retention pass claims and fails a job that is no longer
  due, again and again (`retention-expiry.ts:90`); `RetentionPassEnds` excludes it.
- A checkpoint run that dies after recording its publication leaves heads it covers without
  a row for good, because the next run finds nothing new to publish
  (`0007_worker_records.sql:36` says the table holds the heads covered).

Rules the runtime has and the gate has not, or the other way round:

- Gate rules C7-26 and C7-27 (`protocol-utils.mjs:2638`, `:2766`) are not asked by
  `appendReviewEvent`; `GateAgrees` is about the rules both have.
- An accepted-risk text passes the control plane and not the gate in two cases: its negation is in
  another clause (C7-11, `protocol-utils.mjs:4482`; `MaskedClosure`), or it claims `remediation` or
  `verification` complete, completed, accepted, approved or done, or `resolved pending retest`, which
  only the gate's pattern has (`protocol-utils.mjs:4497`, against `index.ts:2036`; `ClosureDrift`). Both
  are named by the claim and its clause; for every other text the two scanners are compared.
- A classification may rest on a
  snippet the gate does not take as a basis (C7-31); a stray script in an
  evidence record passes the control plane (C7-33); intake asks for the presence of a cleanup
  intent, the gate for one per source artifact (C7-05, `submitted-artifact-semantics.ts:486`). Of a
  bundle's cleanup `AcceptedPassesGate` therefore says the converse: what the stricter gate takes, the
  runtime does not turn away.
- `epic-5-semantics.ts` calls itself a faithful port, without C7-12 (each required path has its
  role) and C7-35 (a generated manifest supersedes nothing; navigation is in order).
- The event reason of a decision `not_verified` is refused by the append although the
  comment of C4-20 (`index.ts:3023`) says every built reason is appendable.

Reach of the rules:

- A scope that selects a finding that is not eligible never gets an addendum, an eligible
  finding without confirmation criteria is never decided, and a review with an empty
  section (say, no verification record) is never attested: the schema asks every
  section to cite something and the judge asks for exactly the records there are.
- A finalization does not compare the attestation's receipt chain with the packaged
  receipt, and does not ask whether records the attestation cites were superseded after it.
- Attestation, static bundle and pilot builders drop an envelope's internal note (finalization
  refuses one), and the static bundle builder ignores the envelope's event type.
- Intake does not bind the shipped policy's id and mode, or the review scope's id, to
  the bundle.

## Proofs

`LogRowsTheorems` proves about any finite log without duplicate numbers or gaps that
its numbers are exactly those below its row count, so `NextSequenceNumber` is
`EventCount`, and what adding the next row does to the history read off it; and that a
finite set of positions has a first and a last one.

`EvidenceStoreProofs` is about the evidence store and its background passes, each part
for every value of its constants.

- The append-only log: type correctness, `Unique`, `Contiguous`, `AcknowledgedIsLogged`,
  `AppendOnly`, and that the specification implements `ReviewHistory`. The inductive invariant
  `LogInv` adds `BuiltOnPrefix`: every number below the one an appender has built is already
  taken. It is needed because `Contiguous` alone does not survive an INSERT: that the
  inserted number leaves no gap follows from what was loaded long before, and from rows
  never going away. The refinement step for `Insert` uses `BelowNew`'s outcome only
  through the constraints: a number that is free and has all smaller ones taken is
  the next one.
- The job queue: a claim takes a row nobody holds, a DELETE takes one row and no other, an
  INSERT with a conflict adds none, so job ids stay unique (`OneRowEach`).
- The normalization worker (`JobsAreKept`). `ResultsAreTrue` follows a draft set from its
  bytes to its row, `RowsGoLast` says that a worker about to delete a row has its result
  recorded. `TriesAreDistinct` is the core: until an attempt's result is recorded its row
  is there, its count only grows, every worker on it and every access key of it has
  a number of at most that count, and no two workers that may still read hold the same number; it
  lapses with the result, because a replayed finalize may start a new row at zero.
  `TriesAreCounted` charges every claim beyond the limit to a worker that gives up or to an
  abort.
- Retention (`StoredIsKept`, `PurgedStaysPurged`). Bytes come before their row and an intent before
  the bytes go (`BytesBehindRows`, `ErasersIntend`), and a pass that purges holds a job of
  a recorded opt-in that was due at the time it read (`PassIsDue`), so evidence of an expiry
  purge comes after the end of a record that names the artifact. That half
  is claimed while no clock was set back, as in the run.
- The object store (`BrokenOnlyIfShared`, `RowsAreTrue`), for any number of puts, reads, deletions (with
  or without a row) and crashes at once. `shared` remembers that two puts were at the temporary file together.
  Until then (`Unshared`) the file in place is whole and no descriptor writes to it (`TargetIsWhole`), and the put
  at the temporary file is alone there and knows what it has written (`PutsAlone`, `PutHasWritten`). What does not
  depend on it: deletions are behind their evidence (`PurgeIsRecorded`), and a deletion that settled an
  artifact has the row that keeps every later put out (`SettledHasRow`).
- Transparency (`PublicationsStand`). `RunIsForward` says what a run knows step by step: only for
  logs it has still to load may the latest publication cover more than its heads.

`SubmissionProofs` proves, for every number of requests, attempts, reviews, artifacts,
seconds and crashes, the four properties of submissions that the `host` run checks. It is
built in four inductive invariants, each using the ones before it:

- `ShapeInv`: types, both logs ordered, the locals that a handler has set by each
  step, and that the events it is appending are built on taken numbers (`OnPrefix`,
  for the same reason as in `LogInv`).
- `ReadsInv`: a handler past the i-th artifact has an access event for the first i, hence
  one that decides has all of them; it gives `ReadsAreLogged`.
- `DecisionInv`: receipts, events, outcomes, jobs and answers agree. The argument: the
  key of a review event is the attempt, keys are unique in the log, and the event
  types of the three states differ. So every finalize that reaches `recordOutcome`
  holds an event equal in type to the one row under its key, and thereby arrived at the
  same state as the stored outcome, although `ON CONFLICT DO NOTHING` is never looked at.
- `UploadInv`: bytes come before the row and, with an envelope key, the row before the
  classification; so an empty list of missing digests means stored artifacts.
  Without the key the second half is false, which is finding 2.

`ReviewEventsProofs` proves `FamiliesAreLinear`, `LogStaysAppendable`,
`ExpertRecordsStand`, `GateAgrees` and `ShownHistoryOnlyGrows`, for every set of
callers, event types, names, versions and log lengths. The inductive invariant is `IInv`:
`Shape` (types; a draft's number is at most the log's length), `Decided` (a draft was
accepted on the prefix of the log that ends before its number) and `Accepted` (every
logged event was accepted on exactly the events before it). `Decided` survives because
prefixes never change, and gives `Accepted` when an event is stored because the store
takes a number only when it is the length of the log. The rules then speak about the log
itself, and the properties follow from them; `FamiliesAreLinear` needs one more
induction over steps (`VersionsGrow`: within a family later events have higher versions), because the active
head is the event with the highest version and the property is about the last one.
`GateAgrees` compares two ways of judging: the boundary accepts event by event on the log
before it, the gate looks at the finished log; every rule of the gate is derived from `Accepted` at the
position it is about. The shown history is a sort of the shown events by number, defined by
what a sort returns; the proof shows that a set of positions has one ascending enumeration (by the
least position where two would differ), so the history of a longer log begins with that of
the shorter one.

`ReviewerProofs` proves every property of the `reviewer` run in the same way: `HandlerIn` says
what each step's locals know of the stores (the access is logged, the loaded prefix is
a prefix still, the record is stored before its event is appended), `AnswerIn` what
an answer claims, `LogOK` that every logged judgment is stored, was read, and supersedes
the last one before it.

`HostProofs` proves the other properties of the `host` run, for every number of calls, clients and
networks and every threshold, window, cap and ceiling.

- Sign-in: `ClaimsInv` says that a code's claim is held by one call, or was used for one
  session, never both; `ThrottleInv` counts the judged tries together with the calls that are
  past the throttle and have not recorded yet, because a failure is recorded after two awaits.
- Sessions: `SessionsInv` says that each use left an activity row less than the interval older than
  itself.
- Budget: `BudgetInv` bounds a month's events together with the requests under way that hold
  a reading below the tier; months to come are empty, months past no longer grow.
- Rate limit: `RateInv` is about the admissions themselves. A network with a window has at most the
  cap in it and at most the cap in the length before it; one without, whose window may have been swept,
  has at most the cap in the length up to now. Both together bound any span.

`PackageProofs` proves every property of the `package` run.

- `ReceiptIsEarned`: a handler that mints has one request of its own (`ClonedIsOwn`),
  whatever its caller's object is by then.
- `PromotedGateStands`, for any seeds and any instants to judge at. The seeding script inserts whatever body its
  operator brings at whatever version is free, and `--now` lets an operator judge at any instant; so a
  host that takes real source runs a promoted gate *or a seeded one*, of which only the binding's schema check is known
  (`BoundIsValid`), and freshness is relative to the instant the promotion was judged at. The invariant: what is inserted
  was judged (`JudgedFirst`), what was promoted is in the tables and alone at its version
  (`PromotedIsRecorded`), and every version was either promoted or seeded, never both (`VersionsAreAccountedFor`).
- `AcceptedPassesGate` and `RealSourceStaysOut` hold for *any* document, not only for those reached
  by editing: the theorems are about every value of `kind` and `rec` with `DocumentTyped` (rows and
  artifacts are lists, at most one shipped policy), which is what parsing leaves of a document.

`RecordProofs` proves every property of the `records` run, for any `MaxTyped`, `MaxClosure`,
`MaxEdits`, `MaxChanges` and `MaxReviewEvents`, and any `MaxHeads` up to 2^31 - 1.

- Text scanners: in a text of any length, what the gate's scanners refuse the runtime's refuse. For
  closure claims the two differ in what ends a negation: to the runtime a colon does, to the gate it
  does not, so a claim that no cue takes back in the gate's reading stands in the runtime's.
- Records and packages (`RecordedPassesGate`), kind by kind: every rule of the gate follows from one or
  several rules of the control plane, with the known disagreements as hypotheses. The inductive
  invariant `DraftHolds` (`DraftsKeepShape`) says what parsing leaves true of an edited document: untouched
  documents are the honest ones, a rationale is a sequence of tokens, a scope that no customer selected is
  backed by a selection, the context of an attestation has at most one mapping and a history of numbered versions, each
  entry once, and manifests are manifests.
- Built events (`BuiltMeetsAppendRules`): the same invariant, and for each builder that its schema
  and authority rules imply the append's; for an attestation, that the events it was generated from
  are the newest of their records.
- The rules of a verification pass, for any document, scope and context. `DecisionRestsOnHeads`,
  `AddendumRestsOnHeads` and `AddendumAccountsForSource` ask only that versions and dates are numbers and
  everything is of one pass. An addendum judges the decisions it reports anew, so they rest on heads of what
  *its* author read. That an artifact is accounted for once uses that the two lists together name none twice;
  that it is accounted for at all, that each class is looked for in its list.
  `AcceptedScopePassesGate`, `AcceptedEvidencePassesGate`, `AcceptedDecisionPassesGate` and
  `AcceptedAddendumPassesGate` compare the two judges; where they differ for some document, the difference is a
  hypothesis: no script beside evidence of another kind (C7-33); no two records of one evidence id, which the
  gate cannot resolve (`UniqueById`); no finding measured by the path its scope selected while its evidence
  names none (`MeasuredByPath`); no deletion listed but of cited source (`DeletesCitedSource`).
- The pass itself (`PassRecordsPassGate`, `DecidedOnHeads`, `SourceIsAccountedFor`): by the invariant
  `PassHolds` (`PassTyped`) the world and the view hold records of this pass only, and the document's lists are lists
  of the entries it may have; this discharges the hypotheses above, but for the two that the property names.
- Transparency proofs (`ProofsDecide`). The tree's levels, the walk that collects siblings, the
  verifier's climb and the hash chain are recursive functions; that each follows its recursion
  (`LevelsFollow`, `WalkFollows`, `ClimbFollows`, `ChainFollows`) is shown by building its first n rounds, and
  statements about all rounds by the least round at which they would fail (`Induction` takes a *set* of numbers, since the
  provers cannot instantiate a schema). *Completeness* (`EveryHeadVerifies`): the climb along the collected
  path stays on the node the walk is at, level by level (`Follows`), and uses each sibling once; a
  tree of at most 2^31 - 1 leaves has at most 31 levels with a sibling, within the 53 the verifier
  allows. *Soundness* (`VerifiedIsHead`): from the root downwards, a node of the climb that is a
  term of the tree was hashed from two terms of the tree, so the claimed leaf is a leaf of it, whatever
  index, size and path are claimed; the domain bytes are what keeps leaf and node apart. With the
  tree's own size the climb also stays at its place in each level (`ClimbBack`), so the index is the
  head's own. `ChainHeadDecides`: equal heads come from equal links, and events that are numbered once
  each have one order; a log longer than `MAX_REVIEW_EVENTS` has no head and events beyond it are refused. The invariant over edits, `ProofHolds`, says that a changed event is not true to its id or has an id
  that no event of the log has, and that no edit makes a chain longer.

`HeadsAssumption` (a checkpoint has at most 2^31 - 1 heads) is the only assumption on the size of a tree.
The code counts leaves in safe integers, up to 2^53 - 1; the smaller bound is the largest number TLC evaluates.

Only model-checked, because fairness and ENABLED are out of the prover's reach: `JobEnds`, `ExpiredIsPurged`,
`RetentionPassEnds`, `EventsGetAnchored`. Every other property of the passing runs is proved for all values of
the constants, under the assumptions named above. The five runs with a counterexample refute a statement and
have nothing to prove.

## What is left

- The hypotheses of the `Accepted...PassesGate` theorems are disagreements of the two judges. They would go
  away only with a change in the code.
- The proofs take collision-free hashing as given: a hash is a term. That is the assumption the
  verifiers themselves rest on.
- `RecordedPassesGate` is proved of documents that editing reaches, whose fields keep the types of `DraftHolds`, while
  `AcceptedPassesGate` and the rules of a pass are proved of any document. The values an edit may
  give a field are those the rules tell apart, so more of them would not add cases.

## Not modelled

- Cryptography (signatures, envelopes, hashes) is taken as correct and collision free; a
  signature's verification outcome is an input of `Intake`, `GatePromotion` and
  `AttestationPackage`.
- The fixture rule of a Vendor Receipt's signature in the gate (`fixtureSignatureVerifies`, `protocol-utils.mjs:1720`):
  it verifies the bytes against one published signing input of the fixture corpus, which no receipt but
  the corpus's own can meet.
- String patterns and formats of the schemas, and everything only one field's spelling decides. The schema
  predicates stand for the conditions in the generated `protocol-v0-schemas.ts`, 7,531 lines
  of the mapped ones; how much of the *control* is modelled is told by the modules above, not by that share.
- Normalization rules (`services/worker/src/index.ts`): a pure transformation; its success or refusal is a
  choice in `NormalizeWorker`.
- Lifecycle projections, the customer-facing renderings of the control plane, the static
  bundle's files and the UI packages: pure functions from records to pages.
- The gate's rules for fixtures, identity inputs, verification attachments and the readiness evidence files.
- The boot ladder (checks in a row, each fatal, before any state is touched; only the gate binding is
  modelled), server plumbing, metrics, web routes that only read.
- Submission credentials: one lookup and a hash comparison before the routes begin.
- The in-memory adapters serve tests. The Local Runner and the submit client are outside the
  host: their documents are judged in `OutboundPackage`, their requests arrive in any order and
  number in `Submission`. Deployment scripts run outside the system.
