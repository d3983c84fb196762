-------------------------- MODULE OutboundPackage --------------------------
(***************************************************************************)
(* The documents a submission is made of, and who judges them: the schema, *)
(* the runtime port (protocol-ts/src/submitted-artifact-semantics.ts and   *)
(* vendor-receipt-verification.ts) and the repository gate                 *)
(* (scripts/lib/protocol-utils.mjs).  A judge is a predicate; the issue    *)
(* codes are left out.                                                     *)
(*                                                                         *)
(* A text is the set of phrases the judges look for in it.  The evidence   *)
(* categories are a sequence of rows, since a row may repeat a category.   *)
(* `sealed' says that a document's id is the hash of its content.          *)
(***************************************************************************)
EXTENDS Integers, Sequences, FiniteSets

None == "none"

Transient == "transient_source_derived"
OptIn == "customer_opt_in_retained_source"
RetainedClass == "retained_review_artifact"
NeverClass == "never_collected"
Classes == {Transient, OptIn, RetainedClass, NeverClass}

SourceClasses == {Transient, OptIn}

Modes == {"metadata_only", "finding_context", "extended"}

Categories == {"metadata", "dependencies", "scanner_findings", "raw_snippets",
               "targeted_files", "derived_artifacts", "never_collected_items"}

ReviewCategories == {"metadata", "dependencies", "scanner_findings", "derived_artifacts"}
SourceCategories == {"raw_snippets", "targeted_files"}

Elements(s) == {s[i] : i \in DOMAIN s}

(* The rows of a category; categoryMap keeps the first one. *)
CategoryRows(d, c) == {i \in DOMAIN d.rows : d.rows[i].category = c}

FirstRow(d, c) == d.rows[CHOOSE i \in CategoryRows(d, c) : \A j \in CategoryRows(d, c) : i <= j]

HasRow(d, c) == CategoryRows(d, c) # {}

Includes(d, c) == HasRow(d, c) /\ FirstRow(d, c).included

CategoriesComplete(d) ==
  /\ \A c \in Categories : HasRow(d, c)
  /\ Cardinality({r.category : r \in Elements(d.rows)}) = Len(d.rows)

ReviewRowsRetained(d) ==
  \A c \in ReviewCategories : Includes(d, c) => FirstRow(d, c).class = RetainedClass

CannotProve(texts) == "cannotProve" \in texts

-----------------------------------------------------------------------------
(* Disclosure policies. *)

(* A row of the category with that flag, exactly once. *)
ContainsOnce(p, c, flag) == Cardinality({i \in CategoryRows(p, c) : p.rows[i].included = flag}) = 1

PolicyMetadataOnlySchema(p) ==
  p.mode = "metadata_only" =>
    /\ ~p.allow /\ p.max = 0 /\ p.ctx = 0 /\ p.behavior = "none" /\ p.selected = 0
    /\ \A r \in Elements(p.rows) : r.category \in SourceCategories => ~r.included

PolicyFindingContextSchema(p) ==
  p.mode = "finding_context" =>
    /\ p.allow /\ p.max >= 1 /\ p.behavior = "finding_context" /\ p.selected = 0
    /\ ContainsOnce(p, "raw_snippets", TRUE) /\ ContainsOnce(p, "targeted_files", FALSE)

PolicyExtendedSchema(p) ==
  p.mode = "extended" =>
    /\ p.allow /\ p.behavior = "extended" /\ p.selected >= 1
    /\ ContainsOnce(p, "raw_snippets", TRUE) /\ ContainsOnce(p, "targeted_files", TRUE)

PolicyFieldsSchema(p) ==
  /\ p.mode \in Modes
  /\ Len(p.rows) = 7
  /\ \A i, j \in DOMAIN p.rows : p.rows[i] = p.rows[j] => i = j

PolicySnippetSchema(p) ==
  /\ p.max \in 0 .. 2000 /\ p.ctx \in 0 .. 10
  /\ p.defaultClass = Transient
  /\ p.behavior \in {"none", "finding_context", "extended"}
  /\ p.warnings # {}

DisclosurePolicySchema(p) ==
  /\ p.incScan => p.scanner
  /\ PolicyMetadataOnlySchema(p) /\ PolicyFindingContextSchema(p) /\ PolicyExtendedSchema(p)
  /\ PolicyFieldsSchema(p) /\ PolicySnippetSchema(p)

PolicyCategoriesHold(p) ==
  /\ CategoriesComplete(p)
  /\ p.incScan => p.scanner
  /\ HasRow(p, "metadata") /\ FirstRow(p, "metadata").included = p.incMeta
  /\ HasRow(p, "dependencies") /\ FirstRow(p, "dependencies").included = p.incDeps
  /\ HasRow(p, "scanner_findings") /\ FirstRow(p, "scanner_findings").included = p.incScan
  /\ ReviewRowsRetained(p)

PolicyModeHolds(p) ==
  /\ p.mode = "metadata_only" =>
        /\ ~p.allow /\ p.max = 0 /\ p.ctx = 0 /\ p.behavior = "none" /\ p.selected = 0
        /\ ~Includes(p, "raw_snippets") /\ ~Includes(p, "targeted_files")
        /\ {"lowerConfidence", "noSnippets"} \subseteq p.warnings
  /\ p.mode = "finding_context" =>
        /\ p.allow /\ p.behavior = "finding_context" /\ p.max > 0 /\ p.ctx >= 0
        /\ p.selected = 0
        /\ {"sourceDisclosure", "capped", "redacted"} \subseteq p.warnings
  /\ p.mode = "extended" =>
        /\ p.allow /\ p.behavior = "extended" /\ p.selected > 0
        /\ Includes(p, "targeted_files")
        /\ {"improves", "increases"} \subseteq p.warnings

PolicyRetentionHolds(p) ==
  /\ p.defaultClass = Transient
  /\ Includes(p, "raw_snippets") => p.rawClass \in SourceClasses
  /\ Includes(p, "targeted_files") => p.targetedClass \in SourceClasses
  /\ OptIn \in {p.rawClass, p.targetedClass} => p.optIn /\ p.period
  /\ p.redaction => CannotProve(p.redactionLimit \cup p.warnings \cup p.limitations)

(* Mutant of disclosurePolicyAccepted: categories are not looked at. *)
disclosurePolicyAcceptedBlind(p) == p.mode \in Modes => PolicyModeHolds(p) /\ PolicyRetentionHolds(p)

(* disclosurePolicySemanticIssues finds nothing. *)
disclosurePolicyAccepted(p) ==
  p.mode \in Modes => PolicyCategoriesHold(p) /\ PolicyModeHolds(p) /\ PolicyRetentionHolds(p)

(* The gate asks more of the source categories (C7-04). *)
gatePolicyModeHolds(p) ==
  /\ PolicyModeHolds(p)
  /\ p.mode = "finding_context" => Includes(p, "raw_snippets") /\ ~Includes(p, "targeted_files")
  /\ p.mode = "extended" => Includes(p, "raw_snippets")

gateDisclosurePolicyAccepted(p) ==
  p.mode \in Modes => PolicyCategoriesHold(p) /\ gatePolicyModeHolds(p) /\ PolicyRetentionHolds(p)

-----------------------------------------------------------------------------
(* Outbound manifests.  A row's controls are absent, without a cap, with   *)
(* caps, or with caps and selected areas.                                  *)

Capped == {"capped", "areas"}

ManifestRowSchema(r) ==
  /\ r.state \in {"included", "excluded_by_policy", "never_collected"}
  /\ r.redaction \in {"not_applicable", "redaction_not_configured", "redaction_configured"}
  /\ r.controls # "uncapped"

ManifestRowsSchema(m) ==
  /\ Len(m.rows) = 7
  /\ \A i, j \in DOMAIN m.rows : m.rows[i] = m.rows[j] => i = j
  /\ \A r \in Elements(m.rows) : ManifestRowSchema(r)
  /\ m.preview = "preview_generated" /\ m.approval = "not_requested"
  /\ m.warnings # {} /\ m.limitations # {}

OutboundManifestSchema(m) == m.mode \in Modes /\ m.summaryMode \in Modes /\ ManifestRowsSchema(m)

ManifestStateHolds(m) ==
  /\ m.sealed /\ CategoriesComplete(m)
  /\ m.summaryMode = m.mode /\ m.summaryPolicy = m.policy
  /\ m.preview = "preview_generated" /\ m.approval = "not_requested"

ManifestModeHolds(m) ==
  /\ m.mode = "metadata_only" =>
        /\ ~Includes(m, "raw_snippets") /\ ~Includes(m, "targeted_files")
        /\ {"lowerConfidence", "noSnippets"} \subseteq m.warnings
  /\ m.mode = "finding_context" => Includes(m, "raw_snippets") /\ ~Includes(m, "targeted_files")
  /\ m.mode = "extended" =>
        /\ Includes(m, "raw_snippets") /\ Includes(m, "targeted_files")
        /\ FirstRow(m, "targeted_files").controls = "areas"

SourceRowHolds(m, r) ==
  /\ r.disclosure /\ r.class \in SourceClasses /\ r.controls \in Capped
  /\ "sourceDisclosure" \in r.text \cup m.warnings

RedactionHolds(m, r) ==
  r.redaction = "redaction_configured" =>
    r.version /\ CannotProve(r.text \cup m.warnings \cup m.limitations)

NeverCollected == {"archive", "history", "files", "snippets", "secrets"}

(* outboundManifestSemanticIssues finds nothing. *)
outboundManifestAccepted(m) ==
  m.mode \in Modes =>
    /\ ManifestStateHolds(m) /\ ManifestModeHolds(m) /\ ReviewRowsRetained(m)
    /\ \A c \in SourceCategories : Includes(m, c) => SourceRowHolds(m, FirstRow(m, c))
    /\ \A r \in Elements(m.rows) : (r.included => r.state = "included") /\ RedactionHolds(m, r)
    /\ m.redaction => CannotProve(m.warnings \cup m.limitations)
    /\ HasRow(m, "never_collected_items")
    /\ NeverCollected \subseteq FirstRow(m, "never_collected_items").text

(* The gate's copy, translated on its own. *)
gateManifestHeaderAccepted(m) ==
  /\ m.sealed /\ CategoriesComplete(m)
  /\ m.summaryMode = m.mode /\ m.summaryPolicy = m.policy
  /\ m.preview = "preview_generated" /\ m.approval = "not_requested"
  /\ m.mode = "metadata_only" =>
        /\ \A c \in SourceCategories : ~Includes(m, c)
        /\ {"lowerConfidence", "noSnippets"} \subseteq m.warnings
  /\ m.mode # "metadata_only" => Includes(m, "raw_snippets")
  /\ m.mode = "finding_context" => ~Includes(m, "targeted_files")
  /\ m.mode = "extended" =>
        Includes(m, "targeted_files") /\ FirstRow(m, "targeted_files").controls = "areas"

gateManifestRowsAccepted(m) ==
  /\ ReviewRowsRetained(m)
  /\ \A c \in SourceCategories : Includes(m, c) => SourceRowHolds(m, FirstRow(m, c))
  /\ \A r \in Elements(m.rows) : (r.included => r.state = "included") /\ RedactionHolds(m, r)
  /\ m.redaction => CannotProve(m.warnings \cup m.limitations)
  /\ HasRow(m, "never_collected_items")
       /\ NeverCollected \subseteq FirstRow(m, "never_collected_items").text

gateOutboundManifestAccepted(m) ==
  m.mode \in Modes => gateManifestHeaderAccepted(m) /\ gateManifestRowsAccepted(m)

-----------------------------------------------------------------------------
(* Customer approvals. *)

CustomerApprovalSchema(a) ==
  /\ a.decision \in {"approved", "declined"}
  /\ a.fields
  /\ a.shown # {}
  /\ a.notSubmitted \in {"absent", "complete", "partial"}

(* customerApprovalSemanticIssues finds nothing. *)
customerApprovalAccepted(a) ==
  /\ a.shownManifest = a.manifest /\ a.fields
  /\ {"not_submitted", "nothingSent"} \subseteq a.summary
  /\ a.decision = "approved" => a.notSubmitted = "absent" /\ a.shown = a.acknowledged
  /\ a.decision = "declined" => a.notSubmitted = "complete"

gateCustomerApprovalAccepted(a) ==
  /\ a.shownManifest = a.manifest /\ a.fields
  /\ {"not_submitted", "nothingSent"} \subseteq a.summary
  /\ IF a.decision = "approved" THEN a.notSubmitted = "absent" /\ a.shown = a.acknowledged
                                ELSE a.notSubmitted = "complete"

-----------------------------------------------------------------------------
(* Bundle manifests.  Artifacts are a set of references of distinct refs,  *)
(* cleanup intents a sequence.                                             *)

ArtifactTypes == {"review_scope", "disclosure_policy", "outbound_manifest", "customer_approval",
                  "scanner_finding_set", "raw_snippet", "targeted_file", "dependency_manifest",
                  "scanner_raw_output", "bundle_manifest", "signature_envelope"}

ControlTypes == {"review_scope", "disclosure_policy", "outbound_manifest", "customer_approval"}

ArtifactReferenceSchema(a) == a.type \in ArtifactTypes /\ a.class \in Classes

BundleManifestSchema(b) ==
  /\ b.decision = "approved" /\ b.state = "not_submitted" /\ b.excludes
  /\ Cardinality(b.artifacts) >= 4
  /\ \A a \in b.artifacts : ArtifactReferenceSchema(a)

CleanupSchema(b) ==
  \A i \in Elements(b.intents) :
    /\ i.class \in Classes
    /\ i.state \in {"pending_local_cleanup", "not_applicable"}
    /\ i.deletion \in {"pending", "not_applicable"}

(* bundleManifestCleanupSemanticIssues finds nothing: some intent for      *)
(* every source-derived artifact.                                          *)
bundleCleanupAccepted(b) ==
  /\ \A a \in b.artifacts :
        a.class \in SourceClasses => \E i \in Elements(b.intents) : i.ref = a.ref
  /\ \A i \in Elements(b.intents) : i.class = Transient => i.required /\ i.deletion = "pending"
  /\ ~b.claims

(* The intents that really clean up an artifact. *)
CleansUp(b, a) ==
  {n \in DOMAIN b.intents :
     LET i == b.intents[n]
     IN  /\ i.ref = a.ref /\ i.class = a.class /\ i.required
         /\ i.deletion = "pending" /\ i.state = "pending_local_cleanup"}

(* The gate: exactly one matching intent (C7-05), and the chain to the     *)
(* approval and the outbound manifest.                                     *)
gateBundleAccepted(b) ==
  /\ b.decision = "approved" /\ b.state = "not_submitted" /\ b.excludes
  /\ b.approved = b.manifest
  /\ ControlTypes \subseteq {a.type : a \in b.artifacts}
  /\ b.scanner => \E a \in b.artifacts : a.type = "scanner_finding_set"
  /\ \A a \in b.artifacts : a.class \in SourceClasses => Cardinality(CleansUp(b, a)) = 1
  /\ ~b.claims

gateBundleChainAccepted(b, a, m) ==
  /\ a.id = b.approval /\ a.decision = "approved" /\ a.manifest = b.manifest
  /\ m.id = b.manifest /\ m.scope = b.scope /\ m.policy = b.policy /\ m.mode = b.mode

-----------------------------------------------------------------------------
(* Scanner finding sets: runs and the sources of the candidate findings. *)

RunStatuses == {"succeeded", "no_findings", "failed", "unavailable", "invalid_output", "skipped"}

ScannerFindingSetSchema(s) ==
  /\ s.runs # {}
  /\ \A r \in s.runs : /\ r.status \in RunStatuses
                       /\ r.reason <=> r.status \notin {"succeeded", "no_findings"}

CandidateFindingsSchema(s) == s.sources \subseteq {"regex", "semgrep"}

(* scannerFindingSetSemanticIssues finds nothing. *)
scannerFindingSetAccepted(s) ==
  /\ \A r \in s.runs : r.reason <=> r.status \notin {"succeeded", "no_findings"}
  /\ s.sources \subseteq {r.scanner : r \in {q \in s.runs : q.status = "succeeded"}}

-----------------------------------------------------------------------------
(* What the Local Runner reports of one attempt.  The text is the set of   *)
(* phrases looked for in the whole record; the states of a submission are  *)
(* phrases of their own, forbidden outside the submit stage.               *)

BundleIds == {"bundle", "instance", "attempt"}

AttemptBundleSchema(a) ==
  IF a.bundle = "ready_not_submitted" THEN BundleIds \subseteq a.ids ELSE BundleIds \cap a.ids = {}

AttemptApprovalSchema(a) ==
  a.approval = "approved" \/ a.review = "approved_no_signed_bundle" =>
    {"manifest", "approval"} \subseteq a.ids /\ a.decision = "approved"

AttemptRemoteSchema(a) ==
  /\ a.remote # "not_submitted" => a.stage = "submit"
  /\ a.remote # "received_with_receipt" => "receipt" \notin a.ids

AttemptTrustSchema(a) ==
  /\ a.label = "trusted_release" => a.signature = "verified_release_signature" /\ a.artifact
  /\ ~a.printed

LocalRunnerAttemptSchema(a) ==
  AttemptBundleSchema(a) /\ AttemptApprovalSchema(a) /\ AttemptRemoteSchema(a) /\ AttemptTrustSchema(a)

(* What the schema cannot say: wording.  The record is over the limit of   *)
(* the text scans ("tooLong") when its diagnostics alone are, since they   *)
(* are part of it.                                                         *)
AttemptWordingHolds(a) ==
  /\ (a.approval = "approved" \/ a.review = "approved_no_signed_bundle")
        /\ a.bundle = "failed_before_ready" => "noSignedBundle" \in a.text
  /\ a.review = "unapproved_not_submitted" => "approvedBundle" \notin a.text
  /\ "claim" \notin a.text /\ "tooLong" \notin a.text
  /\ a.stage # "submit" => "receivedToken" \notin a.text
  /\ "secret" \notin a.text /\ a.omitted

(* The label that an unsigned or untrusted build must carry is looked for  *)
(* in a text that has its status, so that it is always found.              *)
gateAttemptAccepted(a) ==
  /\ a.stage # "submit" => a.remote = "not_submitted"
  /\ a.bundle # "ready_not_submitted" => BundleIds \cap a.ids = {}
  /\ a.bundle = "ready_not_submitted" => BundleIds \subseteq a.ids
  /\ a.approval = "approved" \/ a.review = "approved_no_signed_bundle" =>
        {"manifest", "approval"} \subseteq a.ids /\ a.decision = "approved"
  /\ a.signature # "verified_release_signature" => a.label # "trusted_release"
  /\ a.label = "trusted_release" => a.signature = "verified_release_signature" /\ a.artifact
  /\ AttemptWordingHolds(a) /\ ~a.printed

-----------------------------------------------------------------------------
(* Review scopes: the detected technical context and the dependency        *)
(* manifests looked for.                                                   *)

DependencyManifestsSchema(s) ==
  s.dependencies # {} /\ \A d \in s.dependencies : d.count >= 0

ReviewScopeSchema(s) == s.contexts # {} /\ DependencyManifestsSchema(s)

-----------------------------------------------------------------------------
(* Environment evidence gates: real source needs readiness.  `ready' says  *)
(* that every readiness control is set.                                    *)

Synthetic == "synthetic_demo"
Candidate == "candidate"
Ready == "real_snippet_ready"

EnvironmentGateSchema(g) ==
  /\ g.profile \in {Synthetic, Candidate, Ready}
  /\ g.profile = Ready <=> g.decision # None
  /\ g.profile = Synthetic => ~g.raw /\ ~g.targeted /\ OptIn \notin g.classes

TakesRealSource(g) == g.raw \/ g.targeted \/ OptIn \in g.classes

RealEvidenceSchema(g) ==
  TakesRealSource(g) => g.profile = Ready /\ g.ready /\ OptIn \in g.classes
=============================================================================
