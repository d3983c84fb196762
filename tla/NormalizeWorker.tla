-------------------------- MODULE NormalizeWorker --------------------------
(***************************************************************************)
(* The background worker's normalization loop                              *)
(* (services/host/src/worker/normalize-job.ts, worker/main.ts run) over    *)
(* the Postgres job queue (packages/evidence-store/src/postgres/           *)
(* job-queue.ts), with several worker processes, claims that go stale and  *)
(* are given away while their worker is still busy, failed tries, and      *)
(* processes that die or lose the database between any two statements.     *)
(*                                                                         *)
(* A job is named after its submission attempt, so there is at most one    *)
(* row per attempt.  Only the host enqueues, with a payload that parses.   *)
(* Time is left out of the rows: a claim is fresh until it is older than   *)
(* STALE_CLAIM_SECONDS, which may happen at any moment and happens at last *)
(* to every claim that stays.                                              *)
(***************************************************************************)
EXTENDS Integers, Sequences, FiniteSets, JobQueue

CONSTANTS
  Workers,        \* worker processes
  Attempts,       \* submission attempts with a received outcome
  MaxAttempts,    \* NORMALIZE_MAX_ATTEMPTS
  Stamps,         \* the seconds a draft set may be created in
  MaxAborts       \* bound: crashes and passes that throw

ASSUME WorkerAssumption ==
  IsFiniteSet(Workers) /\ MaxAttempts \in Nat /\ MaxAborts \in Nat

VARIABLES
  queue,          \* the attempts that have a job row, by enqueued_at
  claim,          \* claimed_at of each row: free, held or stale
  tries,          \* the attempts column of each row
  jobResult,      \* finding_normalization_outcome: one per attempt
  accesses,       \* keys of access events the worker's reads have logged
  draftBytes,     \* draft sets on disk
  draftRows,      \* draft sets with an artifact_reference row
  classified,     \* draft sets with a classification row
  workerPc,       \* where each worker is
  job,            \* the job each worker claimed: attempt and try number
  found,          \* the result each worker arrived at
  aborts          \* crashes and thrown passes so far

rows == <<queue, claim, tries>>
drafts == <<draftBytes, draftRows, classified>>
workerVars == <<rows, jobResult, accesses, drafts, workerPc, job, found, aborts>>

NoJob == [attempt |-> "none", try |-> 0]
NoResult == [outcome |-> "none"]
Rejected(reason) == [outcome |-> "rejected", reason |-> reason]
Normalized(d) == [outcome |-> "normalized", draft |-> d]

(* A draft set holds its attempt and the second it was created in, so a    *)
(* second try makes another draft set unless it falls in the same second.  *)
Drafts == [attempt : Attempts, at : Stamps]
Reasons == {"worker_attempts_exhausted", "permanent"}
JobResults ==
  {Rejected(r) : r \in Reasons} \cup {Normalized(d) : d \in Drafts}

ReadSteps == {"readScope", "readFindings"}
TrySteps ==
  {"lookUp"} \cup ReadSteps
    \cup {"normalize", "putSelect", "putBytes", "putRow", "classify", "fail"}
BusySteps == {"find", "record", "complete"} \cup TrySteps
WorkerSteps == {"asleep", "claim"} \cup BusySteps

WorkerTypeOK ==
  /\ queue \in Seq(Attempts)
  /\ claim \in [Attempts -> {"free", "held", "stale"}]
  /\ tries \in [Attempts -> Nat]
  /\ jobResult \in [Attempts -> JobResults \cup {NoResult}]
  /\ accesses \subseteq Attempts \X Nat \X ReadSteps
  /\ draftBytes \subseteq Drafts
  /\ draftRows \subseteq Drafts
  /\ classified \subseteq Drafts
  /\ workerPc \in [Workers -> WorkerSteps]
  /\ job \in [Workers -> [attempt : Attempts, try : Nat] \cup {NoJob}]
  /\ \A w \in Workers : workerPc[w] \in BusySteps => job[w] \in [attempt : Attempts, try : Nat]
  /\ found \in [Workers -> JobResults \cup {NoResult}]
  /\ aborts \in 0 .. MaxAborts

WorkerInit ==
  /\ queue = <<>>
  /\ claim = [a \in Attempts |-> "free"]
  /\ tries = [a \in Attempts |-> 0]
  /\ jobResult = [a \in Attempts |-> NoResult]
  /\ accesses = {}
  /\ draftBytes = {}
  /\ draftRows = {}
  /\ classified = {}
  /\ workerPc = [w \in Workers |-> "asleep"]
  /\ job = [w \in Workers |-> NoJob]
  /\ found = [w \in Workers |-> NoResult]
  /\ aborts = 0

-----------------------------------------------------------------------------
(* The job table. *)

Queued(a) == HasRow(queue, a)

(* enqueue: INSERT ... ON CONFLICT (job_id) DO NOTHING, by a finalize or   *)
(* by any replay of one, also after the job is done.                       *)
Enqueue(a) ==
  /\ ~Queued(a)
  /\ queue' = Append(queue, a)
  /\ claim' = [claim EXCEPT ![a] = "free"]
  /\ tries' = [tries EXCEPT ![a] = 0]
  /\ UNCHANGED <<jobResult, accesses, drafts, workerPc, job, found, aborts>>

(* A claim is now older than STALE_CLAIM_SECONDS. *)
ClaimAges(a) ==
  /\ Queued(a)
  /\ claim[a] = "held"
  /\ claim' = [claim EXCEPT ![a] = "stale"]
  /\ UNCHANGED <<queue, tries, jobResult, accesses, drafts, workerPc, job, found, aborts>>

(* complete: DELETE the row, whoever holds its claim by now. *)
DeleteRow(a) ==
  /\ queue' = Without(queue, a)
  /\ UNCHANGED <<claim, tries>>

(* fail: claimed_at = NULL, whoever holds the claim by now. *)
ReleaseRow(a) ==
  /\ claim' = [claim EXCEPT ![a] = "free"]
  /\ UNCHANGED <<queue, tries>>

-----------------------------------------------------------------------------
(* One pass of a worker.                                                   *)

WorkerGoto(w, step) == workerPc' = [workerPc EXCEPT ![w] = step]

Conclude(w, r) == WorkerGoto(w, "record") /\ found' = [found EXCEPT ![w] = r]

(* Mutant of StartPass: nobody gives a dead worker's job back. *)
StartPassKeepsClaims(w) ==
  /\ workerPc[w] = "asleep"
  /\ WorkerGoto(w, "claim")
  /\ UNCHANGED <<rows, jobResult, accesses, drafts, job, found, aborts>>

(* releaseStaleJobClaims, at the start of each pass. *)
StartPass(w) ==
  /\ workerPc[w] = "asleep"
  /\ claim' = [a \in Attempts |-> IF claim[a] = "stale" THEN "free" ELSE claim[a]]
  /\ WorkerGoto(w, "claim")
  /\ UNCHANGED <<queue, tries, jobResult, accesses, drafts, job, found, aborts>>

(* claim: the oldest unclaimed row, its count raised; no row ends the pass.*)
Claim(w) ==
  LET free == Unclaimed(queue, claim) IN
  /\ workerPc[w] = "claim"
  /\ IF free = {}
     THEN WorkerGoto(w, "asleep") /\ UNCHANGED <<rows, job>>
     ELSE LET a == Oldest(queue, free) IN
          /\ claim' = [claim EXCEPT ![a] = "held"]
          /\ tries' = [tries EXCEPT ![a] = @ + 1]
          /\ job' = [job EXCEPT ![w] = [attempt |-> a, try |-> tries[a] + 1]]
          /\ WorkerGoto(w, "find")
          /\ UNCHANGED queue
  /\ UNCHANGED <<jobResult, accesses, drafts, found, aborts>>

(* Mutant of FindResult: a job that failed too often is dropped. *)
FindResultDropsJob(w) ==
  /\ workerPc[w] = "find"
  /\ IF jobResult[job[w].attempt] # NoResult \/ job[w].try > MaxAttempts
     THEN WorkerGoto(w, "complete")
     ELSE WorkerGoto(w, "lookUp")
  /\ UNCHANGED <<rows, jobResult, accesses, drafts, job, found, aborts>>

(* A recorded result means the job was done before; a job that was claimed *)
(* too often is given up.                                                  *)
FindResult(w) ==
  LET a == job[w].attempt IN
  /\ workerPc[w] = "find"
  /\ \/ jobResult[a] # NoResult /\ WorkerGoto(w, "complete") /\ UNCHANGED found
     \/ /\ jobResult[a] = NoResult /\ job[w].try > MaxAttempts
        /\ Conclude(w, Rejected("worker_attempts_exhausted"))
     \/ /\ jobResult[a] = NoResult /\ job[w].try <= MaxAttempts
        /\ WorkerGoto(w, "lookUp") /\ UNCHANGED found
  /\ UNCHANGED <<rows, jobResult, accesses, drafts, job, aborts>>

(* The attempt, its outcome, its receipt and the two references it needs:  *)
(* one that is not there rejects the attempt for good; a database error is *)
(* worth another try.                                                      *)
LookUp(w) ==
  /\ workerPc[w] = "lookUp"
  /\ \/ WorkerGoto(w, "readScope") /\ UNCHANGED found
     \/ Conclude(w, Rejected("permanent"))
     \/ WorkerGoto(w, "fail") /\ UNCHANGED found
  /\ UNCHANGED <<rows, jobResult, accesses, drafts, job, aborts>>

(* The key of the access event a read logs: normalize:<try>. *)
AccessKey(w, step) == <<job[w].attempt, job[w].try, step>>

(* readJsonArtifact: mint the access, log it, read.  A key that is already *)
(* in the log, or losing a race for the log, throws; so does a read that   *)
(* cannot be decrypted, after it was logged.  A missing object goes on.    *)
ReadArtifact(w, step, next) ==
  /\ workerPc[w] = step
  /\ \/ /\ AccessKey(w, step) \notin accesses
        /\ accesses' = accesses \cup {AccessKey(w, step)}
        /\ WorkerGoto(w, next) \/ WorkerGoto(w, "fail")
     \/ WorkerGoto(w, "fail") /\ UNCHANGED accesses
  /\ UNCHANGED <<rows, jobResult, drafts, job, found, aborts>>

ReadScope(w) == ReadArtifact(w, "readScope", "readFindings")
ReadFindings(w) == ReadArtifact(w, "readFindings", "normalize")

(* An unreadable artifact, a scope of another review and a refusal of      *)
(* normalizeCandidateFindings reject for good; else there is a draft set,  *)
(* which is kept with the worker as the result it hopes for.             *)
Normalize(w) ==
  /\ workerPc[w] = "normalize"
  /\ \/ Conclude(w, Rejected("permanent"))
     \/ \E t \in Stamps :
          /\ found' = [found EXCEPT ![w] =
                         Normalized([attempt |-> job[w].attempt, at |-> t])]
          /\ WorkerGoto(w, "putSelect")
     \/ WorkerGoto(w, "fail") /\ UNCHANGED found
  /\ UNCHANGED <<rows, jobResult, accesses, drafts, job, aborts>>

(* ArtifactStore.put of the draft set: already there, refused without a    *)
(* key, or bytes before row; then the classification.                      *)
PutSelect(w) ==
  /\ workerPc[w] = "putSelect"
  /\ \/ found[w].draft \in draftRows /\ WorkerGoto(w, "classify")
     \/ found[w].draft \notin draftRows /\ (WorkerGoto(w, "putBytes") \/ WorkerGoto(w, "fail"))
  /\ UNCHANGED <<rows, jobResult, accesses, drafts, job, found, aborts>>

PutBytes(w) ==
  /\ workerPc[w] = "putBytes"
  /\ draftBytes' = draftBytes \cup {found[w].draft}
  /\ WorkerGoto(w, "putRow")
  /\ UNCHANGED <<rows, jobResult, accesses, draftRows, classified, job, found, aborts>>

PutRow(w) ==
  /\ workerPc[w] = "putRow"
  /\ draftRows' = draftRows \cup {found[w].draft}
  /\ WorkerGoto(w, "classify")
  /\ UNCHANGED <<rows, jobResult, accesses, draftBytes, classified, job, found, aborts>>

Classify(w) ==
  /\ workerPc[w] = "classify"
  /\ classified' = classified \cup {found[w].draft}
  /\ WorkerGoto(w, "record")
  /\ UNCHANGED <<rows, jobResult, accesses, draftBytes, draftRows, job, found, aborts>>

(* outcomes.record: ON CONFLICT DO NOTHING, the first result stays.      *)
RecordResult(w) ==
  LET a == job[w].attempt IN
  /\ workerPc[w] = "record"
  /\ jobResult' = [jobResult EXCEPT ![a] = IF @ = NoResult THEN found[w] ELSE @]
  /\ WorkerGoto(w, "complete")
  /\ UNCHANGED <<rows, accesses, drafts, job, found, aborts>>

Forget(w) ==
  /\ job' = [job EXCEPT ![w] = NoJob]
  /\ found' = [found EXCEPT ![w] = NoResult]

(* The pass goes on with the next job. *)
Complete(w) ==
  /\ workerPc[w] = "complete"
  /\ DeleteRow(job[w].attempt)
  /\ WorkerGoto(w, "claim")
  /\ Forget(w)
  /\ UNCHANGED <<jobResult, accesses, drafts, aborts>>

(* The job goes back and the pass ends. *)
FailJob(w) ==
  /\ workerPc[w] = "fail"
  /\ ReleaseRow(job[w].attempt)
  /\ WorkerGoto(w, "asleep")
  /\ Forget(w)
  /\ UNCHANGED <<jobResult, accesses, drafts, aborts>>

(* The process dies and is started again, or a statement outside of        *)
(* normalizeAttempt throws and the loop goes to sleep: the claim stays.    *)
Abort(w) ==
  /\ aborts < MaxAborts
  /\ workerPc[w] \in BusySteps
  /\ aborts' = aborts + 1
  /\ WorkerGoto(w, "asleep")
  /\ Forget(w)
  /\ UNCHANGED <<rows, jobResult, accesses, drafts>>

Try(w) ==
  \/ LookUp(w) \/ ReadScope(w) \/ ReadFindings(w) \/ Normalize(w)
  \/ PutSelect(w) \/ PutBytes(w) \/ PutRow(w) \/ Classify(w)

Work(w) ==
  \/ StartPass(w) \/ Claim(w) \/ FindResult(w) \/ Try(w)
  \/ RecordResult(w) \/ Complete(w) \/ FailJob(w)

WorkerNext ==
  \/ \E a \in Attempts : Enqueue(a) \/ ClaimAges(a)
  \/ \E w \in Workers : Work(w) \/ Abort(w)

WorkerSpec == WorkerInit /\ [][WorkerNext]_workerVars

(* The loop of every worker goes on, and time passes.  Clients do not      *)
(* replay their finalizes for ever: a queue that is refilled faster than   *)
(* it is drained would keep a worker in one pass, and stale claims are     *)
(* only released between passes.                                           *)
WorkerFairness ==
  /\ \A w \in Workers : WF_workerVars(Work(w))
  /\ \A a \in Attempts : WF_workerVars(ClaimAges(a))
  /\ \A a \in Attempts : <>[][~Enqueue(a)]_workerVars

FairWorkerSpec == WorkerSpec /\ WorkerFairness

-----------------------------------------------------------------------------
(* A result that says normalized names a draft set that can be read, and *)
(* it is a draft set of its own attempt.                                   *)
NormalizedIsStored ==
  \A a \in Attempts : jobResult[a].outcome = "normalized" =>
     /\ jobResult[a].draft.attempt = a
     /\ jobResult[a].draft \in draftBytes \cap draftRows \cap classified

(* A worker about to read has an idempotency key of its own: no earlier    *)
(* try and no worker that lost its claim has logged it ("a retried read    *)
(* has a new timestamp, so reusing a key would be a body conflict").       *)
ReadScopesDistinct ==
  \A w \in Workers : workerPc[w] \in ReadSteps =>
     /\ AccessKey(w, workerPc[w]) \notin accesses
     /\ \A v \in Workers \ {w} : workerPc[v] \in TrySteps => job[v] # job[w]

(* A job leaves the queue only when its attempt has a result: a row that   *)
(* was deleted by a worker that had lost its claim is not missed.          *)
DoneMeansRecorded ==
  \A w \in Workers : workerPc[w] \in BusySteps \ {"complete"} =>
     Queued(job[w].attempt) \/ jobResult[job[w].attempt] # NoResult

(* Claims of one row end: past the limit only workers that give the job up *)
(* hold it, each of them once.                                             *)
ClaimsAreBounded ==
  \A a \in Attempts : tries[a] <= MaxAttempts + Cardinality(Workers) + MaxAborts

(* No job is lost, none is tried for ever and no two tries are taken for   *)
(* one, although claims go stale while they are held and passes die        *)
(* between any two statements.                                             *)
JobsAreKept ==
  NormalizedIsStored /\ DoneMeansRecorded /\ ClaimsAreBounded /\ ReadScopesDistinct

(* "Each job ends in one recorded result": a queued job gets its result  *)
(* although claims are lost and tries fail, and its row goes.              *)
JobEnds ==
  \A a \in Attempts :
     /\ Queued(a) ~> (jobResult[a] # NoResult)
     /\ Queued(a) ~> ~Queued(a)
=============================================================================
