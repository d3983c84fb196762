----------------------------- MODULE MCPackage -----------------------------
(***************************************************************************)
(* The documents of a submission, the intake process and the promotion of  *)
(* an environment gate on bounded instances, one topic per behaviour.      *)
(* Under the topic "document" a behaviour starts from an honest document   *)
(* of one kind and edits it, one field at a time; every judge is asked in  *)
(* every state.                                                            *)
(***************************************************************************)
EXTENDS Intake, GatePromotion, TLC

CONSTANT MaxEdits   \* fields that differ from the honest document

VARIABLES topic, kind, rec, edits

docVars == <<kind, rec, edits>>

vars == <<topic, docVars, intakeVars, gateVars>>

-----------------------------------------------------------------------------
(* Honest documents. *)

PolicyRow(c, inc) == [category |-> c, included |-> inc, class |-> RetainedClass]

PolicyRows(raw, targeted) ==
  <<PolicyRow("metadata", TRUE), PolicyRow("dependencies", TRUE), PolicyRow("scanner_findings", TRUE),
    PolicyRow("raw_snippets", raw), PolicyRow("targeted_files", targeted),
    PolicyRow("derived_artifacts", TRUE), PolicyRow("never_collected_items", FALSE)>>

Policy ==
  [sealed |-> TRUE, mode |-> "metadata_only", rows |-> PolicyRows(FALSE, FALSE), scanner |-> TRUE,
   incMeta |-> TRUE, incDeps |-> TRUE, incScan |-> TRUE, allow |-> FALSE, max |-> 0, ctx |-> 0,
   behavior |-> "none", selected |-> 0, defaultClass |-> Transient, rawClass |-> Transient,
   targetedClass |-> Transient, optIn |-> FALSE, period |-> FALSE, redaction |-> TRUE,
   redactionLimit |-> {"cannotProve"}, warnings |-> {"lowerConfidence", "noSnippets"},
   limitations |-> {"limits"}]

Policies ==
  {Policy,
   [Policy EXCEPT !.mode = "finding_context", !.rows = PolicyRows(TRUE, FALSE), !.allow = TRUE,
      !.max = 20, !.ctx = 3, !.behavior = "finding_context",
      !.warnings = {"sourceDisclosure", "capped", "redacted"}],
   [Policy EXCEPT !.mode = "extended", !.rows = PolicyRows(TRUE, TRUE), !.allow = TRUE,
      !.max = 20, !.ctx = 3, !.behavior = "extended", !.selected = 1,
      !.rawClass = OptIn, !.targetedClass = OptIn, !.optIn = TRUE, !.period = TRUE,
      !.warnings = {"improves", "increases"}]}

ManifestRow(c, inc) ==
  LET source == c \in SourceCategories /\ inc
  IN  [category |-> c, included |-> inc,
       state |-> IF inc THEN "included" ELSE "excluded_by_policy",
       class |-> IF source THEN Transient ELSE RetainedClass, disclosure |-> source,
       redaction |-> "not_applicable", version |-> FALSE,
       controls |-> IF source THEN "areas" ELSE "absent",
       text |-> IF c = "never_collected_items" THEN NeverCollected
                ELSE IF source THEN {"sourceDisclosure"} ELSE {}]

Manifest(mode, raw, targeted, warnings) ==
  [mode |-> mode, summaryMode |-> mode, policy |-> "p1", summaryPolicy |-> "p1", sealed |-> TRUE,
   rows |-> <<ManifestRow("metadata", TRUE), ManifestRow("dependencies", TRUE),
              ManifestRow("scanner_findings", TRUE), ManifestRow("raw_snippets", raw),
              ManifestRow("targeted_files", targeted), ManifestRow("derived_artifacts", TRUE),
              ManifestRow("never_collected_items", FALSE)>>,
   preview |-> "preview_generated", approval |-> "not_requested", warnings |-> warnings,
   limitations |-> {"cannotProve"}, redaction |-> FALSE]

Manifests ==
  {Manifest("metadata_only", FALSE, FALSE, {"lowerConfidence", "noSnippets"}),
   Manifest("finding_context", TRUE, FALSE, {"sourceDisclosure"}),
   Manifest("extended", TRUE, TRUE, {"sourceDisclosure"})}

Approval ==
  [manifest |-> "m1", shownManifest |-> "m1", fields |-> TRUE, shown |-> {"w1"},
   acknowledged |-> {"w1"}, summary |-> {"not_submitted", "nothingSent"},
   decision |-> "approved", notSubmitted |-> "absent"]

Approvals == {Approval, [Approval EXCEPT !.decision = "declined", !.notSubmitted = "complete",
                                         !.acknowledged = {}]}

Control(t) == [ref |-> t, type |-> t, class |-> RetainedClass]

Intent(ref, class) ==
  [ref |-> ref, class |-> class, state |-> "pending_local_cleanup", required |-> TRUE,
   deletion |-> "pending"]

Bundle ==
  [decision |-> "approved", state |-> "not_submitted", excludes |-> TRUE, approved |-> "m1",
   manifest |-> "m1", scanner |-> TRUE,
   artifacts |-> {Control(t) : t \in ControlTypes \cup {"scanner_finding_set"}}
                   \cup {[ref |-> "snippet", type |-> "raw_snippet", class |-> Transient]},
   intents |-> <<Intent("snippet", Transient)>>, claims |-> FALSE]

Scan == [runs |-> {[scanner |-> "regex", status |-> "succeeded", reason |-> FALSE],
                   [scanner |-> "semgrep", status |-> "failed", reason |-> TRUE]},
         sources |-> {"regex"}]

Signed(type, identity) ==
  [type |-> type, identity |-> identity, key |-> "k1", mode |-> "managed_key",
   limits |-> {"custody", "module"}, time |-> 1]

Counts == [complete |-> TRUE, distinct |-> TRUE, sums |-> TRUE]

ReceiptRow(f) == [field |-> f, approved |-> "own", received |-> "own"]

Receipt ==
  [id |-> "v1", sealed |-> TRUE, state |-> "received_with_receipt", excludes |-> TRUE, time |-> 1,
   policy |-> "p1", mode |-> "metadata_only", summaryPolicy |-> "p1",
   summaryMode |-> "metadata_only",
   rows |-> <<ReceiptRow("manifest_id"), ReceiptRow("evidence_bundle_id"),
              ReceiptRow("selected_commit"), ReceiptRow("repository_identity_hash"),
              ReceiptRow("coverage_mode"), ReceiptRow("artifact_count_summary"),
              ReceiptRow("disclosure_policy_summary")>>,
   approved |-> Counts, received |-> Counts, sig |-> Signed("vendor_receipt", "v1"),
   meta |-> Signed("vendor_receipt", "v1"), rotation |-> "k1"]

ReceiptOutcome ==
  [present |-> TRUE, identity |-> "v1", type |-> "vendor_receipt", key |-> "k1",
   result |-> "verified"]

Attempt ==
  [stage |-> "submit", review |-> "signed_bundle_not_submitted", approval |-> "approved",
   bundle |-> "ready_not_submitted", remote |-> "received_with_receipt",
   ids |-> {"manifest", "approval", "bundle", "instance", "attempt", "receipt"},
   decision |-> "approved", signature |-> "verified_release_signature",
   label |-> "trusted_release", artifact |-> TRUE, omitted |-> TRUE, printed |-> FALSE,
   text |-> {"receivedToken"}]

Attempts ==
  {Attempt,
   [Attempt EXCEPT !.stage = "bundle_signing", !.review = "approved_no_signed_bundle",
      !.bundle = "failed_before_ready", !.remote = "not_submitted",
      !.ids = {"manifest", "approval"}, !.text = {"noSignedBundle"}]}

Scope == [review |-> "r1", contexts |-> {"language"},
          dependencies |-> {[type |-> "package_lock", count |-> 1]}]

(* A whole submission request of one review, as the host assembles it. *)
Artifact(ref, type, class) ==
  [ref |-> ref, type |-> type, class |-> class, declared |-> TRUE, marked |-> TRUE, bytes |-> "ok"]

Ids == <<[b |-> "b1", m |-> "m1", a |-> "a1"], [b |-> "b2", m |-> "m2", a |-> "a2"]>>

Request(n, instance) ==
  [bundle |-> [schema |-> TRUE, sealed |-> TRUE, id |-> Ids[n].b, manifest |-> Ids[n].m,
               approval |-> Ids[n].a, approved |-> Ids[n].m, scope |-> "s1", policy |-> "p1",
               mode |-> "finding_context", runner |-> "r1", scanner |-> TRUE,
               signing |-> "managed_key", instance |-> instance, attempt |-> instance],
   manifest |-> [schema |-> TRUE, sealed |-> TRUE, id |-> Ids[n].m, scope |-> "s1",
                 policy |-> "p1", mode |-> "finding_context", runner |-> "r1", scanner |-> TRUE,
                 app |-> "app", commit |-> n, repo |-> "repo", warnings |-> {"w1"},
                 included |-> {"metadata", "scanner_findings", "raw_snippets"}, counts |-> TRUE],
   approval |-> [schema |-> TRUE, id |-> Ids[n].a, manifest |-> Ids[n].m,
                 decision |-> "approved", shownManifest |-> Ids[n].m, shownApp |-> "app",
                 shownCommit |-> n, shownRepo |-> "repo", shownMode |-> "finding_context",
                 shownPolicy |-> "p1", shownScanner |-> TRUE, shown |-> {"w1"},
                 acknowledged |-> {"w1"}],
   signature |-> [type |-> "evidence_bundle", identity |-> Ids[n].b, mode |-> "managed_key",
                  limits |-> {"custody", "module"}, key |-> "k1"],
   outcome |-> [present |-> TRUE, identity |-> Ids[n].b, type |-> "evidence_bundle",
                key |-> "k1", result |-> "verified"],
   scope |-> [shape |-> TRUE, context |-> "r1", expected |-> "r1", app |-> "app", commit |-> n,
              repo |-> "repo", manifest |-> Ids[n].m, bundle |-> Ids[n].b, token |-> TRUE],
   gate |-> [profile |-> "synthetic_demo", classes |-> Classes \ {OptIn}, raw |-> FALSE,
             targeted |-> FALSE, ready |-> FALSE, decision |-> None],
   artifacts |-> <<Artifact("s", "review_scope", RetainedClass),
                   Artifact("d", "disclosure_policy", RetainedClass),
                   Artifact("o", "outbound_manifest", RetainedClass),
                   Artifact("c", "customer_approval", RetainedClass),
                   Artifact("f", "scanner_finding_set", RetainedClass),
                   Artifact("x", "raw_snippet", Transient)>>,
   unexplained |-> FALSE,
   shipped |-> [scope |-> {Scope}, policy |-> {Policy}, scanner |-> {Scan}, manifest |-> "same",
                approval |-> "same"],
   cleanup |-> TRUE, budget |-> "below", at |-> 1]

RealGate ==
  [profile |-> "real_snippet_ready", classes |-> Classes, raw |-> TRUE, targeted |-> TRUE,
   ready |-> TRUE, decision |-> "d1"]

(* Another submission, and one that was changed after it was sealed. *)
Credential == [review |-> "r1", app |-> "app", commit |-> 1, repo |-> "repo", manifest |-> "m1",
               bundle |-> "b1"]

HonestRequests ==
  {assembleIntakeRequest(r, Credential) :
     r \in {Request(1, "i1"), [Request(1, "i1") EXCEPT !.gate = RealGate]}}

MCRequestOf ==
  <<Request(1, "i1"), Request(2, "i2"), [Request(1, "i3") EXCEPT !.bundle.sealed = FALSE]>>

(* Readiness packages: honest, one with both roles held by one actor, one  *)
(* judged by the producer of its evidence, one of another release.         *)

Evidence(c, release, producer) ==
  [id |-> <<c, release, producer>>, control |-> c, release |-> release, result |-> "passed",
   producer |-> producer, reviewer |-> "rev", observed |-> 0, reviewed |-> 0, sealed |-> TRUE,
   attachments |-> {[check |-> "k", digest |-> "x", collected |-> 0]}]

Package(n, prev, first, second, release, producer) ==
  [decision |-> [id |-> n, sealed |-> TRUE, prev |-> prev, proposed |-> prev + 1, digest |-> n,
                 release |-> "rel", bindings |-> <<[control |-> "c1", ref |-> <<"c1", release, producer>>],
                                                   [control |-> "c2", ref |-> <<"c2", release, producer>>]>>,
                 approvers |-> [security |-> first, operations |-> second],
                 at |-> 1, decision |-> "approved", signed |-> TRUE, signedTime |-> 1],
   evidence |-> {Evidence("c1", release, producer), Evidence("c2", release, producer)},
   gate |-> [profile |-> Ready, classes |-> Classes, raw |-> TRUE, targeted |-> TRUE,
             ready |-> TRUE, decision |-> n, body |-> n],
   verified |-> "verified"]

MCPackages ==
  {Package("d1", 1, "ann", "bob", "rel", "eve"), Package("d2", 1, "ann", "bob", "rel", "eve"),
   Package("d3", 2, "ann", "ann", "rel", "eve"), Package("d4", 1, "ann", "eve", "rel", "eve")}

(* A closed gate, an open one with a decision nobody made, and one that    *)
(* the binding refuses.                                                    *)
ClosedGate == [profile |-> Candidate, classes |-> {RetainedClass}, raw |-> FALSE,
               targeted |-> FALSE, ready |-> FALSE, decision |-> None, body |-> "seed"]

MCSeeds ==
  {ClosedGate, [ClosedGate EXCEPT !.raw = TRUE],
   [ClosedGate EXCEPT !.profile = Ready, !.classes = Classes, !.raw = TRUE, !.ready = TRUE,
                      !.decision = "unmade"]}

Kinds == {"policy", "manifest", "approval", "bundle", "receipt", "attempt", "request", "readiness"}

Honest(k) ==
  CASE k = "policy" -> Policies [] k = "manifest" -> Manifests [] k = "approval" -> Approvals
    [] k = "bundle" -> {Bundle} [] k = "receipt" -> {Receipt}
    [] k = "attempt" -> Attempts [] k = "request" -> HonestRequests
    [] k = "readiness" -> {Package("d1", 1, "ann", "bob", "rel", "eve")}

-----------------------------------------------------------------------------
(* What each field may be edited to. *)

Drop(set, x) == {set \ {e} : e \in set} \cup {set \cup {x}}

RowEdits(rows, f, values) ==
  {[rows EXCEPT ![i][f] = v] : i \in DOMAIN rows, v \in values}

PolicyEdits(f) ==
  CASE f = "mode" -> Modes \cup {"other"}
    [] f = "rows" -> RowEdits(rec.rows, "included", BOOLEAN)
                       \cup RowEdits(rec.rows, "class", Classes)
                       \cup RowEdits(rec.rows, "category", Categories) \cup {Tail(rec.rows)}
    [] f \in {"max", "ctx", "selected"} -> {0, 1, 11, 2001}
    [] f = "behavior" -> {"none", "finding_context", "extended"}
    [] f \in {"defaultClass", "rawClass", "targetedClass"} -> Classes
    [] f \in {"redactionLimit", "warnings", "limitations"} -> Drop(rec[f], "other")
    [] OTHER -> BOOLEAN

ManifestEdits(f) ==
  CASE f \in {"mode", "summaryMode"} -> Modes \cup {"other"}
    [] f \in {"policy", "summaryPolicy"} -> {"p1", "p2"}
    [] f = "rows" -> RowEdits(rec.rows, "included", BOOLEAN)
                       \cup RowEdits(rec.rows, "state", {"included", "excluded_by_policy"})
                       \cup RowEdits(rec.rows, "class", Classes)
                       \cup RowEdits(rec.rows, "category", Categories)
                       \cup RowEdits(rec.rows, "disclosure", BOOLEAN)
                       \cup RowEdits(rec.rows, "redaction", {"redaction_configured"})
                       \cup RowEdits(rec.rows, "version", BOOLEAN)
                       \cup RowEdits(rec.rows, "controls", {"absent", "uncapped", "capped"})
                       \cup RowEdits(rec.rows, "text", {{}}) \cup {Tail(rec.rows)}
    [] f = "preview" -> {"preview_generated", "other"}
    [] f = "approval" -> {"not_requested", "other"}
    [] f \in {"warnings", "limitations"} -> Drop(rec[f], "other")
    [] OTHER -> BOOLEAN

ApprovalEdits(f) ==
  CASE f \in {"manifest", "shownManifest"} -> {"m1", "m2"}
    [] f \in {"shown", "acknowledged"} -> {{}, {"w1"}, {"w1", "w2"}}
    [] f = "summary" -> Drop(rec[f], "other")
    [] f = "decision" -> {"approved", "declined", "other"}
    [] f = "notSubmitted" -> {"absent", "complete", "partial"}
    [] OTHER -> BOOLEAN

BundleEdits(f) ==
  CASE f = "decision" -> {"approved", "declined"}
    [] f = "state" -> {"not_submitted", "submitted"}
    [] f \in {"approved", "manifest"} -> {"m1", "m2"}
    [] f = "artifacts" ->
         {rec.artifacts \ {a} : a \in rec.artifacts}
           \cup {(rec.artifacts \ {a}) \cup {[a EXCEPT !.class = OptIn]} : a \in rec.artifacts}
    [] f = "intents" ->
         {<<>>, rec.intents \o <<Intent("snippet", Transient)>>,
          rec.intents \o <<Intent("other", Transient)>>}
           \cup RowEdits(rec.intents, "class", Classes)
           \cup RowEdits(rec.intents, "required", BOOLEAN)
           \cup RowEdits(rec.intents, "deletion", {"pending", "not_applicable"})
           \cup RowEdits(rec.intents, "state", {"not_applicable"})
    [] OTHER -> BOOLEAN

SignedEdits(s) ==
  {[s EXCEPT !.type = "evidence_bundle"], [s EXCEPT !.identity = "v2"], [s EXCEPT !.key = "k2"],
   [s EXCEPT !.mode = "enrolled_runner_key"], [s EXCEPT !.mode = "none"],
   [s EXCEPT !.limits = {}], [s EXCEPT !.time = 2]}

ReceiptEdits(f) ==
  CASE f = "id" -> {"v2"}
    [] f = "state" -> {"received_with_receipt", "other"}
    [] f = "time" -> {1, 2}
    [] f \in {"policy", "summaryPolicy"} -> {"p1", "p2"}
    [] f \in {"mode", "summaryMode"} -> Modes
    [] f = "rows" -> RowEdits(rec.rows, "approved", {"other"})
                       \cup RowEdits(rec.rows, "received", {"other"})
                       \cup RowEdits(rec.rows, "field", ComparisonFields) \cup {Tail(rec.rows)}
    [] f \in {"approved", "received"} -> [complete : BOOLEAN, distinct : BOOLEAN, sums : BOOLEAN]
    [] f \in {"sig", "meta"} -> SignedEdits(rec[f])
    [] f = "rotation" -> {"k1", "k2"}
    [] OTHER -> BOOLEAN

AttemptEdits(f) ==
  CASE f = "stage" -> {"submit", "bundle_signing"}
    [] f = "review" -> {"unapproved_not_submitted", "approved_no_signed_bundle",
                        "signed_bundle_not_submitted"}
    [] f = "approval" -> {"not_requested", "approved", "declined"}
    [] f = "bundle" -> {"not_created", "failed_before_ready", "ready_not_submitted"}
    [] f = "remote" -> {"not_submitted", "submit_attempted", "received_with_receipt",
                        "quarantined_no_receipt"}
    [] f = "ids" -> {rec.ids \ {i} : i \in rec.ids} \cup {rec.ids \cup BundleIds,
                                                        rec.ids \cup {"receipt"}}
    [] f = "decision" -> {"approved", "declined"}
    [] f = "signature" -> {"unsigned_local_build", "verified_release_signature"}
    [] f = "label" -> {"demo_only_unsigned", "trusted_release"}
    [] f = "text" -> {rec.text \ {t} : t \in rec.text}
                       \cup {rec.text \cup {t} : t \in {"approvedBundle", "claim", "tooLong", "secret",
                                                       "receivedToken"}}
    [] OTHER -> BOOLEAN

ShippedEdits(f) ==
  CASE f = "policy" -> {{}, {[Policy EXCEPT !.sealed = FALSE]}, {[Policy EXCEPT !.optIn = TRUE]},
                        {[Policy EXCEPT !.rows[4].included = TRUE]}} \cup {{p} : p \in Policies}
    [] f = "scope" -> {{}, {[Scope EXCEPT !.review = "r2"]}, {[Scope EXCEPT !.contexts = {}]}}
    [] f = "scanner" -> {{}, {[Scan EXCEPT !.sources = {"semgrep"}]}}
    [] OTHER -> {"other", "invalid"}

(* A part of a request is edited in one field. *)
PartEdits(part, f) ==
  CASE part = "shipped" -> ShippedEdits(f)
    [] part # "shipped" /\ f \in {"schema", "sealed", "scanner", "counts", "shape", "token", "raw",
                                  "targeted", "ready", "present", "shownScanner"} -> BOOLEAN
    [] f \in {"warnings", "shown", "acknowledged", "limits"} -> {{}, {"w1"}, {"custody"}}
    [] f = "included" -> {{"metadata", "scanner_findings"},
                          {"metadata", "scanner_findings", "raw_snippets", "targeted_files"}}
    [] f = "classes" -> {Classes, {RetainedClass}}
    [] f = "profile" -> {"synthetic_demo", "candidate", "real_snippet_ready"}
    [] f = "bundle" /\ part = "scope" -> {None, "b2"}
    [] f \in {"commit", "shownCommit"} -> {2}
    [] f \in {"manifest", "shownManifest", "approved", "identity", "id", "approval"} -> {"m2"}
    [] OTHER -> {"other"}

ArtifactEdits(a) ==
  {[a EXCEPT !.declared = FALSE], [a EXCEPT !.marked = FALSE], [a EXCEPT !.bytes = "missing"],
   [a EXCEPT !.bytes = "changed"], [a EXCEPT !.class = OptIn], [a EXCEPT !.class = NeverClass]}
     \cup {[a EXCEPT !.type = t] : t \in ArtifactTypes}

RequestEdits(part) ==
  CASE part = "artifacts" ->
         (UNION {{[rec.artifacts EXCEPT ![i] = a] : a \in ArtifactEdits(rec.artifacts[i])} :
                 i \in DOMAIN rec.artifacts})
           \cup {Tail(rec.artifacts), Append(rec.artifacts, Artifact("y", "raw_snippet", Transient))}
    [] part = "unexplained" -> {TRUE}
    [] part = "cleanup" -> {FALSE}
    [] part = "budget" -> {"spent", "other"}
    [] part = "at" -> {}
    [] OTHER -> UNION {{[rec[part] EXCEPT ![f] = v] : v \in PartEdits(part, f)} : f \in DOMAIN rec[part]}

(* A readiness package is edited in one field of one of its records. *)
DecisionEdits(f) ==
  CASE f = "decision" -> {"declined", "other"}
    [] f \in {"prev", "proposed", "at", "signedTime"} -> {0, 2, 3}
    [] f \in {"sealed", "signed"} -> {FALSE}
    [] f = "approvers" -> {[security |-> "ann", operations |-> "ann"],
                           [security |-> "eve", operations |-> "bob"], [security |-> "ann"]}
    [] f = "bindings" -> {Tail(rec.decision.bindings), Append(rec.decision.bindings, rec.decision.bindings[1])}
                           \cup RowEdits(rec.decision.bindings, "control", Controls)
    [] OTHER -> {"other"}

EvidenceEdits(e) ==
  {[e EXCEPT !.control = "c2"], [e EXCEPT !.release = "old"], [e EXCEPT !.result = "failed"],
   [e EXCEPT !.producer = "ann"], [e EXCEPT !.observed = 2], [e EXCEPT !.reviewed = 2],
   [e EXCEPT !.observed = -7]}

ReadinessEdits(part) ==
  CASE part = "decision" ->
         UNION {{[rec.decision EXCEPT ![f] = v] : v \in DecisionEdits(f)} : f \in DOMAIN rec.decision}
    [] part = "evidence" ->
         (UNION {{(rec.evidence \ {e}) \cup {x} : x \in EvidenceEdits(e)} : e \in rec.evidence})
           \cup {rec.evidence \ {e} : e \in rec.evidence}
    [] part = "gate" -> {[rec.gate EXCEPT !.profile = Candidate], [rec.gate EXCEPT !.ready = FALSE],
                         [rec.gate EXCEPT !.decision = "other"], [rec.gate EXCEPT !.body = "other"]}
    [] part = "verified" -> {"key_revoked"}

EditsOf(f) ==
  CASE kind = "policy" -> PolicyEdits(f) [] kind = "manifest" -> ManifestEdits(f)
    [] kind = "approval" -> ApprovalEdits(f) [] kind = "bundle" -> BundleEdits(f)
    [] kind = "receipt" -> ReceiptEdits(f) [] kind = "attempt" -> AttemptEdits(f)
    [] kind = "request" -> RequestEdits(f) [] kind = "readiness" -> ReadinessEdits(f)

-----------------------------------------------------------------------------

IdleIntake ==
  /\ live = <<>> /\ step = <<>> /\ seen = <<>> /\ issues = <<>> /\ result = <<>> /\ snap = <<>>
  /\ prepared = {} /\ receipts = {} /\ outcomes = {}

IdleGates ==
  /\ gates = <<>> /\ decisions = {} /\ evidence = {} /\ promotion = <<>> /\ promoted = {}
  /\ seeded = {} /\ bound = 0

NoDocument == kind = "none" /\ rec = <<>> /\ edits = 0

Init ==
  \/ /\ topic = "document" /\ IdleIntake /\ IdleGates
     /\ kind \in Kinds /\ rec \in Honest(kind) /\ edits = 0
  \/ topic = "intake" /\ NoDocument /\ IntakeInit /\ IdleGates
  \/ topic = "promotion" /\ NoDocument /\ IdleIntake /\ PromotionInit

Edit ==
  /\ topic = "document" /\ edits < MaxEdits
  /\ \E f \in DOMAIN rec : \E v \in EditsOf(f) : rec' = [rec EXCEPT ![f] = v]
  /\ edits' = edits + 1
  /\ UNCHANGED <<topic, kind, intakeVars, gateVars>>

Next ==
  \/ Edit
  \/ topic = "intake" /\ IntakeNext /\ UNCHANGED <<topic, docVars, gateVars>>
  \/ topic = "promotion" /\ PromotionNext /\ UNCHANGED <<topic, docVars, intakeVars>>

Spec == Init /\ [][Next]_vars

Symmetry == Permutations(Handlers) \cup Permutations(Promoters)

-----------------------------------------------------------------------------
PromotionAccepts(p) ==
  /\ evaluateEnvironmentGatePromotion(p, p.decision.prev, 1)
  /\ ReadinessDecisionSchema(p.decision) /\ DecisionBindingsSchema(p.decision)
  /\ DecisionApproversSchema(p.decision)
  /\ \A e \in p.evidence : ReadinessEvidenceSchema(e)

(* What the promotion script does not look at (PromotedDecisionPassesGate).*)
TwoApproversAndSeal(d) == Cardinality(Actors(d)) = 2 /\ d.sealed /\ d.signedTime = d.at

(* Every cleanup intent is for an artifact of the bundle, and no two are   *)
(* for the same.                                                           *)
OneIntentEach(b) ==
  \A n \in DOMAIN b.intents :
    /\ \E a \in b.artifacts : a.ref = b.intents[n].ref /\ a.class = b.intents[n].class
    /\ \A m \in DOMAIN b.intents : b.intents[m].ref = b.intents[n].ref => m = n

(* What the runtime's schemas and ports accept of a submitted document,    *)
(* the repository gate accepts too: intake lets nothing in that the gate   *)
(* would refuse.  Of cleanup the gate asks for more (C7-05: an intent of   *)
(* the artifact's class that really deletes), so a bundle is compared the  *)
(* other way: what the gate takes, the runtime does not turn away, when    *)
(* its intents and artifacts match one to one.                             *)
AcceptedPassesGate ==
  /\ kind = "bundle" /\ OneIntentEach(rec) /\ gateBundleAccepted(rec) =>
        bundleCleanupAccepted(rec)
  /\ kind = "policy" /\ DisclosurePolicySchema(rec) /\ disclosurePolicyAccepted(rec) =>
        gateDisclosurePolicyAccepted(rec)
  /\ kind = "manifest" /\ OutboundManifestSchema(rec) /\ outboundManifestAccepted(rec) =>
        gateOutboundManifestAccepted(rec)
  /\ kind = "approval" /\ CustomerApprovalSchema(rec) /\ customerApprovalAccepted(rec) =>
        gateCustomerApprovalAccepted(rec)
  /\ kind = "receipt" /\ verifyVendorReceiptRecordSync(rec, ReceiptOutcome) =>
        gateVendorReceiptAccepted(rec)
  /\ kind = "attempt" /\ LocalRunnerAttemptSchema(rec) /\ AttemptWordingHolds(rec) =>
        gateAttemptAccepted(rec)
  /\ kind = "readiness" /\ PromotionAccepts(rec) =>
        /\ TwoApproversAndSeal(rec.decision) => gateDecisionAccepted(rec.decision, rec.evidence)
        /\ EnvironmentGateSchema(rec.gate) /\ RealEvidenceSchema(rec.gate) =>
             gateGateAccepted(rec.gate, {rec.decision})

(* A submission that is eligible for a receipt brings real source only     *)
(* into an environment that is ready for it, brings nothing its manifest   *)
(* does not account for, and was sealed, signed and approved as one.       *)
RealSourceStaysOut ==
  kind = "request" /\ verifyIntakeSubmission(rec).state = "verified_receipt_eligible" =>
    /\ \A a \in Elements(rec.artifacts) :
         /\ a.type \in SourceTypes /\ ~(a.declared /\ a.marked) =>
              /\ rec.gate.profile = "real_snippet_ready" /\ rec.gate.ready
              /\ TypeAccepted(a, rec.gate)
         /\ a.class \in rec.gate.classes
         /\ a.class = OptIn => rec.gate.profile = "real_snippet_ready"
         /\ a.type = "raw_snippet" => "raw_snippets" \in rec.manifest.included
         /\ a.type = "targeted_file" => "targeted_files" \in rec.manifest.included
    /\ rec.approval.shown = rec.manifest.warnings /\ rec.approval.decision = "approved"
    /\ rec.signature.identity = rec.bundle.id
    /\ gateBundleChainAccepted(rec.bundle, rec.approval, rec.manifest)
    /\ \A p \in rec.shipped.policy : gateDisclosurePolicyAccepted(p)
=============================================================================
