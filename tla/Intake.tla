------------------------------- MODULE Intake -------------------------------
(***************************************************************************)
(* services/intake/src/index.ts: verifying a submission request, minting   *)
(* its vendor receipt and building its outcome; and the verification of a  *)
(* receipt (protocol-ts/src/vendor-receipt-verification.ts), with the      *)
(* gate's copy in scripts/lib/protocol-utils.mjs.                          *)
(*                                                                         *)
(* A request is a record of parts.  Of each submitted document it holds    *)
(* the fields intake compares, `schema' (it passes its schema) and         *)
(* `sealed' (its id is the hash of its content).  An artifact's bytes are  *)
(* "ok", "missing" or "changed"; a shipped document is "same" as the copy  *)
(* in the request, "other" (valid, but not that copy) or "invalid".        *)
(***************************************************************************)
EXTENDS OutboundPackage

SourceTypes == {"raw_snippet", "targeted_file", "dependency_manifest", "scanner_raw_output"}

(* ARTIFACT_TYPE_CATEGORY, on the categories with one artifact type. *)
PhysicalType ==
  [metadata |-> "review_scope", scanner_findings |-> "scanner_finding_set",
   raw_snippets |-> "raw_snippet", targeted_files |-> "targeted_file"]

(* TRUSTED_ENVIRONMENT_EVIDENCE_GATES *)
TrustedGates ==
  {[profile |-> "synthetic_demo", classes |-> Classes \ {OptIn}, raw |-> FALSE,
    targeted |-> FALSE, ready |-> FALSE, decision |-> None],
   [profile |-> "real_snippet_ready", classes |-> Classes, raw |-> TRUE,
    targeted |-> TRUE, ready |-> TRUE, decision |-> "d1"]}

-----------------------------------------------------------------------------
(* verifyIntakeSubmission. *)

(* signature-envelope and signature-verification-outcome. *)
SignatureEnvelopeSchema(s) == s.mode \in {"managed_key", "enrolled_runner_key"} /\ s.limits # {}

SignatureOutcomeSchema(o) ==
  o.result \in {"verified", "bytes_untrusted", "key_unknown", "key_revoked", "outside_window",
                "algorithm_mismatch", "directory_untrusted", "input_mismatch"}

validateRequestSchemas(r) ==
  /\ r.bundle.schema /\ r.manifest.schema /\ r.approval.schema
  /\ SignatureEnvelopeSchema(r.signature)
  /\ EnvironmentGateSchema(r.gate) /\ RealEvidenceSchema(r.gate)
  /\ \A i, j \in DOMAIN r.artifacts : r.artifacts[i].ref = r.artifacts[j].ref => i = j
  /\ r.scope.shape

(* Below 95% of the demo budget. *)
validateDemoBudgetEnforcement(r) == r.budget = "below"

validateApprovalAndManifestChain(r) ==
  LET b == r.bundle  m == r.manifest  a == r.approval
  IN  /\ a.decision = "approved"
      /\ b.approval = a.id
      /\ a.manifest = m.id /\ b.manifest = m.id /\ b.approved = m.id
      /\ b.scope = m.scope /\ b.policy = m.policy /\ b.mode = m.mode
      /\ b.runner = m.runner /\ b.scanner = m.scanner
      /\ a.shownManifest = m.id /\ a.shownApp = m.app /\ a.shownCommit = m.commit
      /\ a.shownRepo = m.repo /\ a.shownMode = m.mode /\ a.shownPolicy = m.policy
      /\ a.shownScanner = m.scanner
      /\ a.shown = a.acknowledged /\ a.shown = m.warnings

(* A key that signed in another mode than the manifest declares is a       *)
(* matter for quarantine.                                                  *)
SignatureModeHolds(r) == r.bundle.signing = r.signature.mode

validateSignatureEnvelopeTrustBoundary(r) ==
  LET s == r.signature  o == r.outcome
  IN  /\ s.type = "evidence_bundle" /\ s.identity = r.bundle.id /\ r.bundle.sealed
      /\ {"custody", "module"} \subseteq s.limits
      /\ o.present /\ SignatureOutcomeSchema(o)
      /\ o.identity = r.bundle.id /\ o.type = "evidence_bundle"
      /\ o.key = s.key /\ o.result = "verified"

validateSubmissionScope(r) ==
  LET s == r.scope  m == r.manifest
  IN  /\ s.context = s.expected
      /\ s.app = m.app /\ s.commit = m.commit /\ s.repo = m.repo
      /\ s.manifest = m.id
      /\ s.bundle \in {None, r.bundle.id}
      /\ s.token

(* What the host asks: the context and the expectation are both copied     *)
(* from the credential, and the token secret is compared with itself.      *)
assembleIntakeRequest(r, credential) ==
  [r EXCEPT !.scope = [shape |-> TRUE, context |-> credential.review, expected |-> credential.review,
                       app |-> credential.app, commit |-> credential.commit,
                       repo |-> credential.repo, manifest |-> credential.manifest,
                       bundle |-> credential.bundle, token |-> TRUE]]

validateEnvironmentEvidenceGate(r) == r.gate \in TrustedGates

TypeCount(r, type) == Cardinality({i \in DOMAIN r.artifacts : r.artifacts[i].type = type})

SingletonTypes(r) ==
  ControlTypes \cup (IF r.bundle.scanner THEN {"scanner_finding_set"} ELSE {})

(* validateArtifacts up to the first digest: no reference twice, the       *)
(* control artifacts once, no bytes without an artifact.                   *)
ArtifactsListed(r) ==
  /\ \A i, j \in DOMAIN r.artifacts : r.artifacts[i].ref = r.artifacts[j].ref => i = j
  /\ \A t \in SingletonTypes(r) : TypeCount(r, t) = 1
  /\ ~r.unexplained

validateArtifacts(r) ==
  ArtifactsListed(r) /\ \A a \in Elements(r.artifacts) : a.bytes = "ok"

ClassesAllowed(r) == \A a \in Elements(r.artifacts) : a.class \in r.gate.classes

TypeAccepted(a, g) == (a.type = "raw_snippet" /\ g.raw) \/ (a.type = "targeted_file" /\ g.targeted)

(* Mutant of validateSourceArtifactBoundary: the declared markers are      *)
(* believed.                                                               *)
declaredSourceArtifactBoundary(a, g) ==
  \/ g.profile = "real_snippet_ready" /\ TypeAccepted(a, g)
  \/ a.declared

validateSourceArtifactBoundary(a, g) ==
  /\ \/ g.profile = "real_snippet_ready" /\ TypeAccepted(a, g)
     \/ a.declared /\ a.marked
  /\ TypeAccepted(a, g) => g.profile = "real_snippet_ready" /\ g.ready

SourceBoundaryHolds(r) ==
  \A a \in Elements(r.artifacts) :
    a.type \in SourceTypes /\ a.bytes # "missing" => validateSourceArtifactBoundary(a, r.gate)

(* What the bundle's artifacts of the control types parse to, if anything. *)
(* The shipped policy is judged, but never compared with the policy the    *)
(* bundle names.                                                           *)
validateShippedControlArtifacts(r) ==
  /\ \E s \in r.shipped.scope : ReviewScopeSchema(s) /\ s.review = r.scope.expected
  /\ \E p \in r.shipped.policy :
        DisclosurePolicySchema(p) /\ disclosurePolicyAccepted(p) /\ p.sealed
  /\ r.bundle.scanner =>
        \E s \in r.shipped.scanner : /\ ScannerFindingSetSchema(s) /\ CandidateFindingsSchema(s)
                                    /\ scannerFindingSetAccepted(s)
  /\ r.shipped.manifest = "same" /\ r.shipped.approval = "same"

validatePhysicalEvidenceCategoryInclusion(r) ==
  \A c \in DOMAIN PhysicalType :
    c \in r.manifest.included <=> TypeCount(r, PhysicalType[c]) > 0

(* The checks before the artifacts are digested, on a request whose        *)
(* identities were computed when it was `seen', and the ones after.        *)
HeadRejects(seen, r) ==
  \/ ~seen.manifest.sealed \/ r.manifest.id # seen.manifest.id
  \/ ~seen.bundle.sealed \/ r.bundle.id # seen.bundle.id
  \/ ~validateApprovalAndManifestChain(r)
  \/ ~validateSignatureEnvelopeTrustBoundary(r)
  \/ ~validateSubmissionScope(r)

HeadQuarantines(r) == ~SignatureModeHolds(r) \/ ~validateEnvironmentEvidenceGate(r)

ControlRejects(r) ==
  \/ ~validateShippedControlArtifacts(r)
  \/ ~r.cleanup \/ ~validatePhysicalEvidenceCategoryInclusion(r)

TailRejects(r) == ~validateArtifacts(r) \/ ControlRejects(r)

TailQuarantines(r) == ~ClassesAllowed(r) \/ ~SourceBoundaryHolds(r)

(* failureResult: one issue for quarantine quarantines; only a spent       *)
(* budget sends a rejected caller to support.                              *)
failureResult(quarantined, budget) ==
  [state |-> IF quarantined THEN "quarantined_no_receipt" ELSE "rejected_no_receipt",
   next |-> IF quarantined THEN "quarantine_support"
            ELSE IF budget THEN "contact_support" ELSE "retry",
   record |-> {}]

(* The record takes what intake accepted, never what is in the request     *)
(* besides.                                                                *)
buildIntakeRecord(r) ==
  [manifest |-> r.manifest.id, bundle |-> r.bundle.id, app |-> r.manifest.app,
   commit |-> r.manifest.commit, repo |-> r.manifest.repo, policy |-> r.manifest.policy,
   mode |-> r.manifest.mode, instance |-> r.bundle.instance, attempt |-> r.bundle.attempt]

Eligible(r) ==
  [state |-> "verified_receipt_eligible", next |-> "generate_receipt",
   record |-> {buildIntakeRecord(r)}]

verifyIntakeSubmission(r) ==
  LET quarantined == HeadQuarantines(r) \/ TailQuarantines(r)
  IN  CASE ~validateRequestSchemas(r) -> failureResult(FALSE, FALSE)
        [] validateRequestSchemas(r) /\ ~validateDemoBudgetEnforcement(r) ->
             failureResult(FALSE, r.budget = "spent")
        [] OTHER -> IF HeadRejects(r, r) \/ TailRejects(r) \/ quarantined
                    THEN failureResult(quarantined, FALSE) ELSE Eligible(r)

-----------------------------------------------------------------------------
(* Vendor receipts.  A row's value is "own" when it is the receipt's own   *)
(* value of its field; a count summary is described by what is checked.    *)

ComparisonFields == {"manifest_id", "evidence_bundle_id", "selected_commit",
                     "repository_identity_hash", "coverage_mode", "artifact_count_summary",
                     "disclosure_policy_summary"}

ReceiptIdentitySchema(t) == t.state = "received_with_receipt" /\ t.excludes

ReceiptRowsSchema(t) ==
  /\ \A f \in ComparisonFields :
        Cardinality({i \in DOMAIN t.rows : t.rows[i].field = f}) = 1
  /\ Len(t.rows) = 7

ReceiptSignatureSchema(t) ==
  /\ t.meta.type = "vendor_receipt" /\ t.meta.limits # {}
  /\ SignatureEnvelopeSchema(t.sig)

VendorReceiptSchema(t) ==
  ReceiptIdentitySchema(t) /\ ReceiptRowsSchema(t) /\ ReceiptSignatureSchema(t)

(* The outcome of verifying the signature is input like any other: it has  *)
(* to be about this receipt and this key.                                  *)
signatureTrusted(t, o) ==
  /\ o.present /\ o.result = "verified"
  /\ o.identity = t.id /\ o.type = "vendor_receipt" /\ o.key = t.sig.key

comparisonRowsMatchReceipt(t) ==
  /\ t.policy = t.summaryPolicy /\ t.mode = t.summaryMode
  /\ Len(t.rows) = 7
  /\ {r.field : r \in Elements(t.rows)} = ComparisonFields
  /\ \A r \in Elements(t.rows) : r.approved = "own" /\ r.received = "own"

isArtifactCountSummary(c) == c.complete /\ c.distinct /\ c.sums

KeyMetadataHolds(t) ==
  /\ t.sig.mode = t.meta.mode /\ t.sig.limits = t.meta.limits
  /\ t.sig.key = t.meta.key /\ t.rotation = t.sig.key
  /\ t.sig.time = t.time /\ t.meta.time = t.time

verifyVendorReceiptRecordSync(t, o) ==
  /\ VendorReceiptSchema(t)
  /\ t.sig.type = "vendor_receipt" /\ t.sig.identity = t.id /\ t.meta.identity = t.id
  /\ signatureTrusted(t, o) /\ KeyMetadataHolds(t)
  /\ t.sealed
  /\ isArtifactCountSummary(t.approved) /\ isArtifactCountSummary(t.received)
  /\ t.approved = t.received /\ comparisonRowsMatchReceipt(t)

(* The gate reads a summary that leaves categories out. *)
gateCountSummaryAccepted(c) == c.distinct /\ c.sums

gateReceiptSignatureAccepted(t) ==
  /\ t.state = "received_with_receipt" /\ t.excludes /\ t.sealed
  /\ t.sig.type = "vendor_receipt" /\ t.meta.type = "vendor_receipt"
  /\ t.sig.identity = t.id /\ t.meta.identity = t.id
  /\ KeyMetadataHolds(t)

gateVendorReceiptAccepted(t) ==
  /\ gateReceiptSignatureAccepted(t)
  /\ gateCountSummaryAccepted(t.approved) /\ gateCountSummaryAccepted(t.received)
  /\ t.approved = t.received
  /\ t.summaryPolicy = t.policy /\ t.summaryMode = t.mode
  /\ \A i, j \in DOMAIN t.rows : t.rows[i].field = t.rows[j].field => i = j
  /\ {r.field : r \in Elements(t.rows)} = ComparisonFields
  /\ \A r \in Elements(t.rows) : r.approved = "own" /\ r.received = "own"

-----------------------------------------------------------------------------
(* The calls that turn a request into an outcome, made by handlers on      *)
(* request objects that their callers keep and may change at any await.    *)

CONSTANTS Handlers, Times,
          RequestOf   \* the requests the callers may build, by name

Requests == DOMAIN RequestOf

VARIABLES
  live,      \* [Handlers -> Requests]: the caller's object
  step,      \* the await each handler is at
  seen,      \* [Handlers -> at most one request]: whose identities or digests are computed
  issues,    \* [Handlers -> SUBSET {"reject", "quarantine"}]: found so far
  result,    \* [Handlers -> at most one result of verifyIntakeSubmission]
  snap,      \* [Handlers -> at most one request]: what prepare cloned
  prepared,  \* receipts prepared and not yet signed
  receipts,  \* receipts completed
  outcomes   \* outcomes built

intakeVars == <<live, step, seen, issues, result, snap, prepared, receipts, outcomes>>

IntakeInit ==
  /\ live \in [Handlers -> Requests]
  /\ step = [h \in Handlers |-> "verify"]
  /\ seen = [h \in Handlers |-> {}]
  /\ issues = [h \in Handlers |-> {}]
  /\ result = [h \in Handlers |-> {}]
  /\ snap = [h \in Handlers |-> {}]
  /\ prepared = {} /\ receipts = {} /\ outcomes = {}

Goto(h, next) == step' = [step EXCEPT ![h] = next]

(* The caller changes its own object; once it is cloned for good and the   *)
(* receipt is prepared nothing reads it any more.                          *)
ChangeRequest(h) ==
  /\ step[h] \in {"verify", "identities", "artifacts", "digested", "prepare", "mint"}
  /\ \E r \in Requests \ {live[h]} : live' = [live EXCEPT ![h] = r]
  /\ UNCHANGED <<step, seen, issues, result, snap, prepared, receipts, outcomes>>

(* verifyIntakeSubmission reads the caller's object before it awaits the   *)
(* identities ...                                                          *)
VerifySchemas(h) ==
  /\ step[h] = "verify"
  /\ LET r == RequestOf[live[h]]
     IN  IF validateRequestSchemas(r) /\ validateDemoBudgetEnforcement(r)
         THEN Goto(h, "identities") /\ seen' = [seen EXCEPT ![h] = {live[h]}] /\ UNCHANGED result
         ELSE /\ Goto(h, "outcome") /\ UNCHANGED seen
              /\ result' = [result EXCEPT ![h] = {verifyIntakeSubmission(r)}]
  /\ UNCHANGED <<live, issues, snap, prepared, receipts, outcomes>>

Issues(rejects, quarantines) ==
  (IF rejects THEN {"reject"} ELSE {}) \cup (IF quarantines THEN {"quarantine"} ELSE {})

(* ... again after them, and keeps the list of artifacts and the gate it   *)
(* finds then ...                                                          *)
VerifyHead(h) ==
  /\ step[h] = "identities"
  /\ \E x \in seen[h] :
       LET r == RequestOf[live[h]]
       IN  issues' = [issues EXCEPT ![h] =
                        Issues(HeadRejects(RequestOf[x], r) \/ ~ArtifactsListed(r), HeadQuarantines(r))]
  /\ seen' = [seen EXCEPT ![h] = {live[h]}]
  /\ Goto(h, "artifacts")
  /\ UNCHANGED <<live, result, snap, prepared, receipts, outcomes>>

(* ... while each artifact's bytes are read at an await of its own: which  *)
(* of them still match, and what the others look like, is up to the caller *)
(* ...                                                                     *)
VerifyArtifacts(h) ==
  /\ step[h] = "artifacts"
  /\ \E x \in seen[h] :
       LET r == RequestOf[x]
           all == Elements(r.artifacts)
       IN  \E matched \in SUBSET all, unmarked \in BOOLEAN :
             /\ unmarked => matched # all
             /\ issues' = [issues EXCEPT ![h] = @ \cup Issues(matched # all,
                  \/ unmarked \/ ~ClassesAllowed(r)
                  \/ \E a \in matched : a.type \in SourceTypes
                                          /\ ~validateSourceArtifactBoundary(a, r.gate))]
  /\ Goto(h, "digested")
  /\ UNCHANGED <<live, seen, result, snap, prepared, receipts, outcomes>>

(* ... and again after the artifacts are digested.  A record is built only *)
(* when no check found anything.                                           *)
VerifyTail(h) ==
  /\ step[h] = "digested"
  /\ LET r == RequestOf[live[h]]
         all == issues[h] \cup Issues(ControlRejects(r), FALSE)
     IN  /\ result' = [result EXCEPT ![h] =
              IF all = {} THEN {Eligible(r)} ELSE {failureResult("quarantine" \in all, FALSE)}]
         /\ Goto(h, IF all = {} THEN "prepare" ELSE "outcome")
  /\ UNCHANGED <<live, seen, issues, snap, prepared, receipts, outcomes>>

(* cloneReceiptGenerationRequest, before the first await of prepare. *)
PrepareClones(h) ==
  /\ step[h] = "prepare"
  /\ snap' = [snap EXCEPT ![h] = {live[h]}]
  /\ Goto(h, "mint")
  /\ UNCHANGED <<live, seen, issues, result, prepared, receipts, outcomes>>

(* Mutant of Subject: the caller's object is read again. *)
SubjectLive(h) == RequestOf[live[h]]

(* What prepareVendorReceipt works on after its awaits. *)
Subject(h) == RequestOf[CHOOSE x \in snap[h] : TRUE]

(* validateReceiptPreflight: signing metadata, chronology, counts. *)
validateReceiptPreflight(r, at, signing) == signing /\ at >= r.at /\ r.manifest.counts

Unsigned(r, at) == [subject |-> buildIntakeRecord(r), time |-> at]

(* What is wrong, without a receipt. *)
noReceiptResult(h, failure) ==
  /\ result' = [result EXCEPT ![h] = {failure}]
  /\ Goto(h, "outcome")
  /\ UNCHANGED prepared

prepareVendorReceipt(h) ==
  /\ step[h] = "mint"
  /\ \E at \in Times, signing \in BOOLEAN :
       LET verified == verifyIntakeSubmission(RequestOf[CHOOSE x \in snap[h] : TRUE])
           r == Subject(h)
       IN  IF verified.state # "verified_receipt_eligible"
           THEN noReceiptResult(h, verified)
           ELSE IF ~validateReceiptPreflight(r, at, signing)
                THEN noReceiptResult(h, failureResult(FALSE, FALSE))
                ELSE /\ prepared' = prepared \cup {Unsigned(r, at)}
                     /\ Goto(h, "complete")
                     /\ UNCHANGED result
  /\ UNCHANGED <<live, seen, issues, snap, receipts, outcomes>>

(* The signature is whichever the key service made; one over another       *)
(* prepared receipt, or an outcome that does not verify it, is refused.    *)
completeVendorReceipt(h) ==
  /\ step[h] = "complete"
  /\ \E mine \in prepared, signed \in prepared, verified \in BOOLEAN :
       IF signed = mine /\ verified
       THEN /\ receipts' = receipts \cup {mine}
            /\ Goto(h, "outcome") /\ UNCHANGED <<result, prepared>>
       ELSE noReceiptResult(h, failureResult(FALSE, FALSE)) /\ UNCHANGED receipts
  /\ UNCHANGED <<live, seen, issues, snap, outcomes>>

(* C5-17: the receipt names the submission the result is about. *)
ReceiptFits(t, record) ==
  /\ t.subject.manifest = record.manifest /\ t.subject.bundle = record.bundle
  /\ t.subject.instance = record.instance /\ t.subject.attempt = record.attempt

(* buildSubmissionOutcome, with any receipt the caller holds. *)
buildSubmissionOutcome(h) ==
  /\ step[h] = "outcome"
  /\ \E res \in result[h] :
       \/ /\ res.state = "verified_receipt_eligible"
          /\ \E t \in receipts, at \in Times, record \in res.record :
               outcomes' = IF ReceiptFits(t, record) /\ at >= t.time
                           THEN outcomes \cup {[state |-> "received_with_receipt",
                                                next |-> "verify_receipt", record |-> {record},
                                                receipt |-> {t}, at |-> at]}
                           ELSE outcomes
       \/ /\ res.state # "verified_receipt_eligible"
          /\ outcomes' = outcomes \cup {[state |-> res.state, next |-> res.next, record |-> {},
                                         receipt |-> {}, at |-> 0]}
  /\ Goto(h, "done")
  /\ UNCHANGED <<live, seen, issues, result, snap, prepared, receipts>>

IntakeNext ==
  \E h \in Handlers :
    \/ ChangeRequest(h) \/ VerifySchemas(h) \/ VerifyHead(h) \/ VerifyArtifacts(h) \/ VerifyTail(h)
    \/ PrepareClones(h)
    \/ prepareVendorReceipt(h) \/ completeVendorReceipt(h) \/ buildSubmissionOutcome(h)

IntakeSpec == IntakeInit /\ [][IntakeNext]_intakeVars

EligibleRequests ==
  {r \in {RequestOf[x] : x \in Requests} : verifyIntakeSubmission(r).state = "verified_receipt_eligible"}

(* Whatever the callers do to their objects meanwhile, a receipt is about  *)
(* one request that passed every check as a whole, and a received outcome  *)
(* is about that request too and no earlier than its prerequisites.        *)
ReceiptIsEarned ==
  /\ \A t \in receipts \cup prepared :
       \E r \in EligibleRequests : t.subject = buildIntakeRecord(r) /\ t.time >= r.at
  /\ \A o \in outcomes :
       /\ o.state = "received_with_receipt" <=> o.receipt # {}
       /\ \A t \in o.receipt, record \in o.record :
            ReceiptFits(t, record) /\ t \in receipts /\ o.at >= t.time
=============================================================================
