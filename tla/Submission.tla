----------------------------- MODULE Submission -----------------------------
(***************************************************************************)
(* The three submission routes of the HTTP host                            *)
(* (services/host/src/routes/submissions.ts) over the stores they write:   *)
(* attempts and outcomes, artifact bytes, artifact rows, classifications,  *)
(* the evidence lifecycle log, vendor receipts, the review event log and   *)
(* the job queue.                                                          *)
(*                                                                         *)
(* The host serves several requests at once.  A handler runs without       *)
(* interruption up to its next await, so an action is one statement or one *)
(* file operation with the synchronous code around it.  Postgres and the   *)
(* object store share no transaction; the host may crash between any two   *)
(* actions, and what was written stays.                                    *)
(*                                                                         *)
(* Not here: refusals that change nothing and are decided before the first *)
(* write (a bad credential, a malformed body, an unexpected manifest, an   *)
(* exhausted budget, a digest that does not match the bytes), and          *)
(* the write of one object, which the ObjectStore module looks into.       *)
(***************************************************************************)
EXTENDS LogRows, Sequences

CONSTANTS
  Requests,       \* requests the host serves at the same time
  Attempts,       \* submission attempt ids
  Reviews,        \* review ids
  ReviewOf,       \* the review each attempt's credential is bound to
  Digests,        \* digests of artifacts
  SourceDerived,  \* digests whose class must be stored encrypted
  Bodies,         \* what a client may open an attempt with
  Manifest,       \* the artifact_references of each body, in order
  Decisions,      \* the outcome states intake may arrive at
  EnvelopeKey,    \* is object_store_envelope_key_ref configured
  MaxClock,       \* bound: seconds that may pass
  MaxCrashes      \* bound: host crashes

ASSUME SubmissionAssumption ==
  /\ ReviewOf \in [Attempts -> Reviews]
  /\ SourceDerived \subseteq Digests
  /\ "no_body" \notin Bodies
  /\ Manifest \in [Bodies -> Seq(Digests)]
  /\ Decisions \subseteq {"received_with_receipt", "rejected_no_receipt",
                         "quarantined_no_receipt"}
  /\ EnvelopeKey \in BOOLEAN
  /\ MaxClock \in Nat
  /\ MaxCrashes \in Nat

VARIABLES
  clock,          \* now(), which has whole seconds
  crashes,        \* host crashes so far
  attempt,        \* submission_attempt: the body an attempt was opened with
  objects,        \* digests whose bytes are on disk
  artifactRow,    \* artifact_reference: digests that have a row
  classified,     \* stored_object_classification: digests that have a row
  lifecycle,      \* evidence_lifecycle_event rows
  receipts,       \* submission_vendor_receipt rows
  reviewLog,      \* review_event rows
  outcome,        \* submission_attempt_outcome: one per attempt at most
  jobs,           \* attempts with a normalize_scanner_findings job
  pc,             \* where each request's handler is
  loc,            \* each handler's local variables
  reply           \* the last answer each client slot received

stores == <<attempt, objects, artifactRow, classified, lifecycle, receipts,
            reviewLog, outcome, jobs>>
vars == <<clock, crashes, stores, pc, loc, reply>>

NoBody == "no_body"
NoReceipt == [attempt |-> "none", at |-> 0]

States == {"received_with_receipt", "rejected_no_receipt", "quarantined_no_receipt"}

(* The event type a finalize appends for each outcome state. *)
EventType ==
  [s \in States |->
     CASE s = "received_with_receipt"  -> "receipt_issued"
       [] s = "rejected_no_receipt"    -> "submission_rejected"
       [] s = "quarantined_no_receipt" -> "submission_quarantined"]

Times == 0 .. MaxClock
Receipts == [attempt : Attempts, at : Times]
Outcomes == [state : States, receipt : Receipts \cup {NoReceipt}]
NoOutcome == [state |-> "none", receipt |-> NoReceipt]

AccessEvents ==
  [review : Reviews, seq : Nat, key : Attempts \X Digests, body : Times]
ReviewEvents ==
  [review : Reviews, seq : Nat, key : Attempts,
   body : {EventType[s] : s \in States} \X Times]
NoEvent == [review |-> "none"]

(* The idempotency key of the access event that a finalize of attempt a    *)
(* logs for digest d: nothing in it tells one finalize from the next.      *)
AccessKey(a, d) == <<a, d>>

(* What the pure append boundary of the control plane (appendReviewEvent,  *)
(* appendEvidenceLifecycleEvent) answers on a loaded log.                  *)
AppendDecision(log, e) ==
  CASE KeySelect(log, e) = "same" -> "idempotent_noop"
    [] KeySelect(log, e) = "absent" /\ BelowNew(log, e) -> "appended"
    [] OTHER -> "rejected"

ManifestOf(a) == Manifest[attempt[a]]
Listed(a) ==
  IF attempt[a] = NoBody THEN {}
  ELSE {ManifestOf(a)[i] : i \in 1 .. Len(ManifestOf(a))}
Missing(a) == Listed(a) \ classified

PutSteps == {"putSelect", "putBytes", "putInsert", "putClassify"}
ReadSteps == {"mint", "row", "accKey", "accMax", "accInsert", "bytes"}
DecideSteps == {"verify", "receipt", "build", "load", "evKey", "evMax", "evInsert",
                "outcome", "enqueue"}
Steps == {"idle", "missing", "replay"} \cup PutSteps \cup ReadSteps \cup DecideSteps

(* A handler's locals: its attempt, the position of the artifact it works  *)
(* on, the access event and the review event it is appending, the outcome  *)
(* state it arrived at, its receipt, and the second its review event has.  *)
Locals ==
  [att : Attempts, i : Nat,
   access : AccessEvents \cup {NoEvent}, event : ReviewEvents \cup {NoEvent},
   state : States \cup {"none"}, receipt : Receipts \cup {NoReceipt}, at : Times]
NoLocals == [att |-> "none"]

Replies ==
  [code : {"none", "incomplete", "error"}]
    \cup [code : {"missing"}, att : Attempts, missing : SUBSET Digests]
    \cup [code : {"outcome"}, att : Attempts, state : States,
          receipt : Receipts \cup {NoReceipt}]

NoReply == [code |-> "none"]

TypeOK ==
  /\ clock \in Times
  /\ crashes \in 0 .. MaxCrashes
  /\ attempt \in [Attempts -> Bodies \cup {NoBody}]
  /\ objects \subseteq Digests
  /\ artifactRow \subseteq Digests
  /\ classified \subseteq Digests
  /\ lifecycle \subseteq AccessEvents /\ IsFiniteSet(lifecycle)
  /\ receipts \subseteq Receipts
  /\ reviewLog \subseteq ReviewEvents /\ IsFiniteSet(reviewLog)
  /\ outcome \in [Attempts -> Outcomes \cup {NoOutcome}]
  /\ jobs \subseteq Attempts
  /\ pc \in [Requests -> Steps]
  /\ loc \in [Requests -> Locals \cup {NoLocals}]
  /\ \A h \in Requests : pc[h] # "idle" => loc[h] \in Locals
  /\ reply \in [Requests -> Replies]

Init ==
  /\ clock = 0
  /\ crashes = 0
  /\ attempt = [a \in Attempts |-> NoBody]
  /\ objects = {}
  /\ artifactRow = {}
  /\ classified = {}
  /\ lifecycle = {}
  /\ receipts = {}
  /\ reviewLog = {}
  /\ outcome = [a \in Attempts |-> NoOutcome]
  /\ jobs = {}
  /\ pc = [h \in Requests |-> "idle"]
  /\ loc = [h \in Requests |-> NoLocals]
  /\ reply = [h \in Requests |-> NoReply]

-----------------------------------------------------------------------------
(* How a handler goes on, and how it ends.                                 *)

Begin(h, step, a, i) ==
  /\ pc[h] = "idle"
  /\ pc' = [pc EXCEPT ![h] = step]
  /\ loc' = [loc EXCEPT ![h] = [att |-> a, i |-> i,
                               access |-> NoEvent, event |-> NoEvent,
                               state |-> "none", receipt |-> NoReceipt, at |-> clock]]
  /\ reply' = [reply EXCEPT ![h] = NoReply]
  /\ UNCHANGED <<clock, crashes>>

At(h, step) == pc[h] = step /\ UNCHANGED <<clock, crashes>>

Goto(h, step) == pc' = [pc EXCEPT ![h] = step] /\ UNCHANGED <<loc, reply>>

Reply(h, answer) ==
  /\ pc' = [pc EXCEPT ![h] = "idle"]
  /\ loc' = [loc EXCEPT ![h] = NoLocals]
  /\ reply' = [reply EXCEPT ![h] = answer]

Incomplete(h) == Reply(h, [code |-> "incomplete"])
Fail(h) == Reply(h, [code |-> "error"])

-----------------------------------------------------------------------------
(* POST /v0/submissions: the INSERT ... ON CONFLICT DO NOTHING, then a     *)
(* reopening with the same body is already_open, with another a conflict.  *)
Open(h, a, b) ==
  /\ Begin(h, "missing", a, 0)
  /\ attempt[a] \in {NoBody, b}
  /\ attempt' = [attempt EXCEPT ![a] = b]
  /\ UNCHANGED <<objects, artifactRow, classified, lifecycle, receipts,
                 reviewLog, outcome, jobs>>

(* The digests of the manifest that have no classification, which the      *)
(* client is to send: the end of the open and of the PUT handler.          *)
ReplyMissing(h) ==
  /\ At(h, "missing")
  /\ Reply(h, [code |-> "missing", att |-> loc[h].att, missing |-> Missing(loc[h].att)])
  /\ UNCHANGED stores

(* PUT /v0/submissions/:attemptId/artifacts/:digest of an opened attempt   *)
(* without an outcome, for a digest its manifest lists.                    *)
PutBegin(h, a) ==
  /\ attempt[a] # NoBody
  /\ outcome[a] = NoOutcome
  /\ \E i \in 1 .. Len(ManifestOf(a)) : Begin(h, "putSelect", a, i)
  /\ UNCHANGED stores

Digest(h) == ManifestOf(loc[h].att)[loc[h].i]

(* ArtifactStore.put answers already_present or encryption_unavailable     *)
(* without writing; the route records the classification in either case.   *)
PutSelect(h) ==
  /\ At(h, "putSelect")
  /\ IF Digest(h) \in artifactRow \/ (Digest(h) \in SourceDerived /\ ~EnvelopeKey)
     THEN Goto(h, "putClassify")
     ELSE Goto(h, "putBytes")
  /\ UNCHANGED stores

(* Bytes before records. *)
PutBytes(h) ==
  /\ At(h, "putBytes")
  /\ objects' = objects \cup {Digest(h)}
  /\ Goto(h, "putInsert")
  /\ UNCHANGED <<attempt, artifactRow, classified, lifecycle, receipts,
                 reviewLog, outcome, jobs>>

PutInsert(h) ==
  /\ At(h, "putInsert")
  /\ artifactRow' = artifactRow \cup {Digest(h)}
  /\ Goto(h, "putClassify")
  /\ UNCHANGED <<attempt, objects, classified, lifecycle, receipts,
                 reviewLog, outcome, jobs>>

PutClassify(h) ==
  /\ At(h, "putClassify")
  /\ classified' = classified \cup {Digest(h)}
  /\ Goto(h, "missing")
  /\ UNCHANGED <<attempt, objects, artifactRow, lifecycle, receipts,
                 reviewLog, outcome, jobs>>

-----------------------------------------------------------------------------
(* POST /v0/submissions/:attemptId/finalize.                               *)

(* The step that follows the i-th artifact of the manifest. *)
ReadNext(a, i) == IF i < Len(ManifestOf(a)) THEN "mint" ELSE "verify"

(* The stored outcome is authoritative: a replay answers it. *)
FinalizeBegin(h, a) ==
  /\ attempt[a] # NoBody
  /\ IF outcome[a] # NoOutcome
     THEN Begin(h, "replay", a, 0)
     ELSE Begin(h, ReadNext(a, 0), a, 1)
  /\ UNCHANGED stores

(* Mutant of Replay: the stored outcome is all a replay is about. *)
ReplayWithoutJob(h) ==
  LET a == loc[h].att IN
  /\ At(h, "replay")
  /\ Reply(h, [code |-> "outcome", att |-> a, state |-> outcome[a].state,
               receipt |-> outcome[a].receipt])
  /\ UNCHANGED stores

(* A replay of a received outcome queues normalization again first. *)
Replay(h) ==
  LET a == loc[h].att IN
  /\ At(h, "replay")
  /\ jobs' = IF outcome[a].state = "received_with_receipt" THEN jobs \cup {a} ELSE jobs
  /\ Reply(h, [code |-> "outcome", att |-> a, state |-> outcome[a].state,
               receipt |-> outcome[a].receipt])
  /\ UNCHANGED <<attempt, objects, artifactRow, classified, lifecycle, receipts,
                 reviewLog, outcome>>

(* mintSubmissionAccess: load the lifecycle log, stamp the access event    *)
(* with the current second, and decide on the loaded copy.  A key that is  *)
(* recorded with another second is a rewrite, and access is denied.        *)
Mint(h) ==
  LET a == loc[h].att
      r == ReviewOf[a]
      k == AccessKey(a, Digest(h))
      s == IF KeyRows(lifecycle, r, k) # {}
           THEN (CHOOSE x \in KeyRows(lifecycle, r, k) : TRUE).seq
           ELSE NextSequenceNumber(lifecycle, r)
      e == Row(r, s, k, clock)
  IN
  /\ At(h, "mint")
  /\ IF AppendDecision(lifecycle, e) = "rejected"
     THEN Incomplete(h)
     ELSE /\ pc' = [pc EXCEPT ![h] = "row"]
          /\ loc' = [loc EXCEPT ![h].access = e]
          /\ UNCHANGED reply
  /\ UNCHANGED stores

(* Mutant of GetRow: the bytes are read without an access event. *)
GetRowUnlogged(h) ==
  /\ At(h, "row")
  /\ IF Digest(h) \in artifactRow THEN Goto(h, "bytes") ELSE Incomplete(h)
  /\ UNCHANGED stores

(* ArtifactStore.get: a miss is reported before anything is logged. *)
GetRow(h) ==
  /\ At(h, "row")
  /\ IF Digest(h) \in artifactRow THEN Goto(h, "accKey") ELSE Incomplete(h)
  /\ UNCHANGED stores

(* The store's append of the access event, statement by statement. *)
AccessKeySelect(h) ==
  /\ At(h, "accKey")
  /\ \/ KeySelect(lifecycle, loc[h].access) = "same" /\ Goto(h, "bytes")
     \/ KeySelect(lifecycle, loc[h].access) = "absent" /\ Goto(h, "accMax")
     \/ KeySelect(lifecycle, loc[h].access) = "differs" /\ Incomplete(h)
  /\ UNCHANGED stores

AccessMaxSelect(h) ==
  /\ At(h, "accMax")
  /\ IF BelowNew(lifecycle, loc[h].access) THEN Goto(h, "accInsert") ELSE Incomplete(h)
  /\ UNCHANGED stores

AccessInsert(h) ==
  /\ At(h, "accInsert")
  /\ IF InsertAllowed(lifecycle, loc[h].access)
     THEN lifecycle' = lifecycle \cup {loc[h].access} /\ Goto(h, "bytes")
     ELSE lifecycle' = lifecycle /\ Fail(h)
  /\ UNCHANGED <<attempt, objects, artifactRow, classified, receipts,
                 reviewLog, outcome, jobs>>

GetBytes(h) ==
  /\ At(h, "bytes")
  /\ IF Digest(h) \in objects
     THEN /\ pc' = [pc EXCEPT ![h] = ReadNext(loc[h].att, loc[h].i)]
          /\ loc' = [loc EXCEPT ![h].i = @ + 1]
          /\ UNCHANGED reply
     ELSE Incomplete(h)
  /\ UNCHANGED stores

(* Mutant of Verify: the receipt goes into the outcome and is not stored. *)
VerifyKeepsReceipt(h) ==
  /\ At(h, "verify")
  /\ \E s \in Decisions :
       loc' = [loc EXCEPT ![h].state = s,
                          ![h].receipt = IF s = "received_with_receipt"
                                         THEN [attempt |-> loc[h].att, at |-> clock]
                                         ELSE NoReceipt]
  /\ pc' = [pc EXCEPT ![h] = "build"]
  /\ UNCHANGED <<reply, stores>>

(* verifyIntakeSubmission and prepare/completeVendorReceipt: what they     *)
(* decide depends on the bytes, the spend ratio and the time, so they      *)
(* may decide differently each time.  A receipt's identity holds the       *)
(* second it was minted.                                                   *)
Verify(h) ==
  LET a == loc[h].att IN
  /\ At(h, "verify")
  /\ \E s \in Decisions :
       IF s = "received_with_receipt"
       THEN /\ loc' = [loc EXCEPT ![h].state = s,
                                  ![h].receipt = [attempt |-> a, at |-> clock]]
            /\ pc' = [pc EXCEPT ![h] = "receipt"]
       ELSE /\ loc' = [loc EXCEPT ![h].state = s]
            /\ pc' = [pc EXCEPT ![h] = "build"]
  /\ UNCHANGED <<reply, stores>>

(* Recorded before the outcome that names it. *)
RecordReceipt(h) ==
  /\ At(h, "receipt")
  /\ receipts' = receipts \cup {loc[h].receipt}
  /\ Goto(h, "build")
  /\ UNCHANGED <<attempt, objects, artifactRow, classified, lifecycle,
                 reviewLog, outcome, jobs>>

(* buildSubmissionOutcome, which checks what intake has just made and does *)
(* not refuse it; then the second the review event is stamped with.        *)
Build(h) ==
  /\ At(h, "build")
  /\ loc' = [loc EXCEPT ![h].at = clock]
  /\ pc' = [pc EXCEPT ![h] = "load"]
  /\ UNCHANGED <<reply, stores>>

(* appendSubmissionReviewEvent: load the review log, build the event with  *)
(* the recorded number or events.length, and decide on the loaded copy.    *)
LoadReviewLog(h) ==
  LET a == loc[h].att
      r == ReviewOf[a]
      s == IF KeyRows(reviewLog, r, a) # {}
           THEN (CHOOSE x \in KeyRows(reviewLog, r, a) : TRUE).seq
           ELSE EventCount(reviewLog, r)
      e == Row(r, s, a, <<EventType[loc[h].state], loc[h].at>>)
  IN
  /\ At(h, "load")
  /\ IF AppendDecision(reviewLog, e) = "rejected"
     THEN Fail(h)
     ELSE /\ pc' = [pc EXCEPT ![h] =
                      IF AppendDecision(reviewLog, e) = "idempotent_noop"
                      THEN "outcome" ELSE "evKey"]
          /\ loc' = [loc EXCEPT ![h].event = e]
          /\ UNCHANGED reply
  /\ UNCHANGED stores

ReviewKeySelect(h) ==
  /\ At(h, "evKey")
  /\ \/ KeySelect(reviewLog, loc[h].event) = "same" /\ Goto(h, "outcome")
     \/ KeySelect(reviewLog, loc[h].event) = "absent" /\ Goto(h, "evMax")
     \/ KeySelect(reviewLog, loc[h].event) = "differs" /\ Fail(h)
  /\ UNCHANGED stores

ReviewMaxSelect(h) ==
  /\ At(h, "evMax")
  /\ IF BelowNew(reviewLog, loc[h].event) THEN Goto(h, "evInsert") ELSE Fail(h)
  /\ UNCHANGED stores

ReviewInsert(h) ==
  /\ At(h, "evInsert")
  /\ IF InsertAllowed(reviewLog, loc[h].event)
     THEN reviewLog' = reviewLog \cup {loc[h].event} /\ Goto(h, "outcome")
     ELSE reviewLog' = reviewLog /\ Fail(h)
  /\ UNCHANGED <<attempt, objects, artifactRow, classified, lifecycle, receipts,
                 outcome, jobs>>

(* What this handler built, which is what it answers. *)
Built(h) ==
  [code |-> "outcome", att |-> loc[h].att, state |-> loc[h].state,
   receipt |-> loc[h].receipt]

(* recordOutcome: ON CONFLICT DO NOTHING, so the first outcome stays; the  *)
(* handler does not look at which one that was.                            *)
RecordOutcome(h) ==
  LET a == loc[h].att IN
  /\ At(h, "outcome")
  /\ outcome' = [outcome EXCEPT ![a] =
                   IF @ = NoOutcome
                   THEN [state |-> loc[h].state, receipt |-> loc[h].receipt] ELSE @]
  /\ IF loc[h].state = "received_with_receipt"
     THEN Goto(h, "enqueue")
     ELSE Reply(h, Built(h))
  /\ UNCHANGED <<attempt, objects, artifactRow, classified, lifecycle, receipts,
                 reviewLog, jobs>>

EnqueueNormalization(h) ==
  /\ At(h, "enqueue")
  /\ jobs' = jobs \cup {loc[h].att}
  /\ Reply(h, Built(h))
  /\ UNCHANGED <<attempt, objects, artifactRow, classified, lifecycle, receipts,
                 reviewLog, outcome>>

-----------------------------------------------------------------------------
(* A second passes. *)
Tick ==
  /\ clock < MaxClock
  /\ clock' = clock + 1
  /\ UNCHANGED <<crashes, stores, pc, loc, reply>>

(* The host stops: every handler is gone, and every store stays. *)
HostCrash ==
  /\ crashes < MaxCrashes
  /\ \E h \in Requests : pc[h] # "idle"
  /\ crashes' = crashes + 1
  /\ pc' = [h \in Requests |-> "idle"]
  /\ loc' = [h \in Requests |-> NoLocals]
  /\ reply' = [h \in Requests |-> NoReply]
  /\ UNCHANGED <<clock, stores>>

Put(h) ==
  PutSelect(h) \/ PutBytes(h) \/ PutInsert(h) \/ PutClassify(h)

ReadBack(h) ==
  \/ Mint(h) \/ GetRow(h) \/ AccessKeySelect(h) \/ AccessMaxSelect(h)
  \/ AccessInsert(h) \/ GetBytes(h)

Decide(h) ==
  \/ Verify(h) \/ RecordReceipt(h) \/ Build(h) \/ LoadReviewLog(h)
  \/ ReviewKeySelect(h) \/ ReviewMaxSelect(h) \/ ReviewInsert(h)
  \/ RecordOutcome(h) \/ EnqueueNormalization(h)

(* A handler takes its next step. *)
Proceed(h) == ReplyMissing(h) \/ Replay(h) \/ Put(h) \/ ReadBack(h) \/ Decide(h)

(* A client sends a request. *)
Send(h) ==
  \E a \in Attempts :
     \/ \E b \in Bodies : Open(h, a, b)
     \/ PutBegin(h, a)
     \/ FinalizeBegin(h, a)

Next ==
  \/ \E h \in Requests : Send(h) \/ Proceed(h)
  \/ Tick
  \/ HostCrash

Spec == Init /\ [][Next]_vars

(* The event loop resumes every handler, and a client goes on asking for   *)
(* its finalize, whatever else it sends in between.                        *)
Fairness ==
  /\ \A h \in Requests : WF_vars(Proceed(h))
  /\ \A h \in Requests : \A a \in Attempts : SF_vars(FinalizeBegin(h, a))

FairSpec == Spec /\ Fairness

-----------------------------------------------------------------------------
(* A receipt that a stored outcome names is durable, and it is a receipt   *)
(* of that attempt: the worker will find it.                               *)
OutcomeReceiptDurable ==
  \A a \in Attempts :
     outcome[a].state = "received_with_receipt" =>
        outcome[a].receipt \in receipts /\ outcome[a].receipt.attempt = a

(* The outcome a client is told and the review history agree: a stored     *)
(* outcome has its event in the review log, and every event of the attempt *)
(* there says the same, whichever of several racing finalizes won.         *)
OutcomeMatchesEvent ==
  \A a \in Attempts : outcome[a] # NoOutcome =>
     /\ KeyRows(reviewLog, ReviewOf[a], a) # {}
     /\ \A x \in KeyRows(reviewLog, ReviewOf[a], a) :
           x.body[1] = EventType[outcome[a].state]

(* No outcome without an access event for each artifact it was decided on: *)
(* every read is access-logged.                                            *)
ReadsAreLogged ==
  \A a \in Attempts : outcome[a] # NoOutcome =>
     \A d \in Listed(a) :
        KeyRows(lifecycle, ReviewOf[a], AccessKey(a, d)) # {}

(* Normalization is queued only for an attempt whose stored outcome is a   *)
(* receipt, although a handler queues by the outcome it built itself.      *)
JobOnlyForReceived ==
  \A a \in jobs : outcome[a].state = "received_with_receipt"

(* Racing finalizes of several attempts leave the review log and the       *)
(* lifecycle log gap-free, with one row per number and per key.            *)
LogsStayOrdered ==
  /\ UniqueRows(reviewLog) /\ NoGaps(reviewLog)
  /\ UniqueRows(lifecycle) /\ NoGaps(lifecycle)

(* A client that is told an outcome is told the state that is stored, and  *)
(* a received one has been queued for normalization by then.               *)
ReplyAgrees ==
  \A h \in Requests : reply[h].code = "outcome" =>
     /\ reply[h].state = outcome[reply[h].att].state
     /\ reply[h].state = "received_with_receipt" => reply[h].att \in jobs

(* Bytes before records: a row never dangles, whatever crashes. *)
RowHasBytes == artifactRow \subseteq objects

(* A client that is told nothing is missing can finalize: every artifact   *)
(* it listed is stored and has its row.                                    *)
NothingMissingMeansStored ==
  \A h \in Requests :
     reply[h].code = "missing" /\ reply[h].missing = {} =>
        Listed(reply[h].att) \subseteq artifactRow \cap objects

(* The attempt a client opened and the outcome it received never change,   *)
(* and neither log loses a row.                                            *)
RecordsAreFinal ==
  [][/\ \A a \in Attempts : attempt[a] # NoBody => attempt'[a] = attempt[a]
     /\ \A a \in Attempts : outcome[a] # NoOutcome => outcome'[a] = outcome[a]
     /\ lifecycle \subseteq lifecycle'
     /\ reviewLog \subseteq reviewLog'
     /\ receipts \subseteq receipts']_vars

(* "A replayed finalize that crashed before its outcome was recorded mints *)
(* a new receipt": an attempt whose artifacts are all stored gets an       *)
(* outcome when its client keeps asking.                                   *)
RetriedFinalizeDecides ==
  \A a \in Attempts :
     (attempt[a] # NoBody /\ Listed(a) \subseteq artifactRow)
        ~> (outcome[a] # NoOutcome)
=============================================================================
