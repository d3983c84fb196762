------------------------- MODULE AttestationPackage -------------------------
(***************************************************************************)
(* The records of an attestation package and the two judges of each: the   *)
(* control plane (rejectionFor... and build... of                          *)
(* apps/control-plane/src/index.ts, with epic-5-semantics.ts) and the      *)
(* protocol gate (validate...Semantics of scripts/lib/protocol-utils.mjs). *)
(*                                                                         *)
(* A record's `sealed' says that its id is the hash of its content, `text' *)
(* stands for each of its narrative texts, and `extra' is a property the   *)
(* schema does not know, which is how internal learning would get in.      *)
(* Times are numbers.  Verdicts of judges modelled elsewhere are fields of *)
(* the context: `accepted' of an addendum (VerificationPass), `verified'   *)
(* of a receipt (Intake), `replays' of a history (ReviewEvents).           *)
(***************************************************************************)
EXTENDS FindingRecords

RefsOf(records) == {r.id : r \in records}

InjectiveOn(s, f) == \A i, j \in DOMAIN s : s[i][f] = s[j][f] => i = j

FieldsOf(s, f) == {s[i][f] : i \in DOMAIN s}

(* sourceTextForbiddenPhrase or customerVisibleTextForbidden. *)
epic5NarrativeTextForbidden(t) == sourceTextForbiddenPhrase(t) \/ customerVisibleTextForbidden(t)

(* INTERNAL_LEARNING_PATTERN, in a text and in a path or reference. *)
InternalLearningText(t) == Has(t, "pilot")
InternalLearningName(n) == n = "pilot_metric"

-----------------------------------------------------------------------------
(* Supporting evidence mappings. *)

MappingSchema(m) ==
  /\ m.approved /\ m.actor = "reviewer" /\ m.entries # <<>> /\ m.text # Absent /\ ~m.extra
  /\ m.profile \in {"soc_2_supporting_evidence", "generic_technology_risk",
                    "customer_security_review"}
  /\ \A i \in DOMAIN m.entries : m.entries[i].refs # {}

(* rejectionForSupportingEvidenceMapping. *)
mappingAccepted(m, a) ==
  /\ MappingSchema(m)
  /\ m.review = a.review /\ m.attestation = a.id
  /\ InjectiveOn(m.entries, "id")
  /\ \A i \in DOMAIN m.entries :
       m.entries[i].refs \subseteq a.refs \cup UNION {a.sections[s] : s \in DOMAIN a.sections}
  /\ ~customerProseForbidden(m.text)

(* validateSupportingEvidenceMappingSemantics. *)
gateMappingAccepted(m) ==
  /\ m.approved /\ m.actor = "reviewer"
  /\ InjectiveOn(m.entries, "id")
  /\ ~collectRemediationTextViolations(m.text, FALSE)

-----------------------------------------------------------------------------
(* The Security Review Attestation, and the context it was built in.       *)

SectionTypes ==
  {"scope", "method", "receipt_chain", "findings_and_classification",
   "remediation_and_validation", "verification_outcomes", "evidence_lifecycle", "limitations"}

(* Each section once, and every section cites something. *)
SectionsSchema(a) ==
  DOMAIN a.sections = SectionTypes /\ \A s \in SectionTypes : a.sections[s] # {}

AttestationSchema(a) ==
  /\ a.actor \in {"reviewer", "vendor_service"} /\ a.version >= 1 /\ a.text # Absent /\ ~a.extra
  /\ SectionsSchema(a) /\ a.refs # {}

ScopeIsTheReviews(a, w) ==
  /\ a.review = w.minimization.review
  /\ a.scope = w.scope.id /\ w.bundle.scope = w.scope.id
  /\ a.commit = w.scope.commit /\ a.repository = w.scope.repository
  /\ a.coverage = w.bundle.coverage
  /\ a.minimization = w.minimization.id

ChainIsTheReceipts(a, w) ==
  /\ a.chain.manifest = w.receipt.manifest /\ a.chain.manifest = w.bundle.manifest
  /\ a.chain.bundle = w.receipt.bundle /\ a.chain.bundle = w.bundle.id
  /\ a.chain.receipt = w.receipt.id /\ a.chain.at = w.receipt.at
  /\ w.receipt.received

DeletionsAreVerified(a, w) ==
  \A r \in a.deletions : r \in w.minimization.deleted
                         /\ \E d \in w.deletions : d.id = r /\ d.verified

(* Every supplied addendum is cited and was accepted with its own context. *)
AddendaAreCited(a, w) ==
  a.addenda = RefsOf(w.addenda) /\ \A d \in w.addenda : d.review = a.review /\ d.accepted

MappingResolves(a, w) ==
  a.mapping # None => \E m \in w.mappings : m.id = a.mapping /\ mappingAccepted(m, a)

ContextIsTheReviews(a, w) ==
  \A r \in w.classifications \cup w.guidance \cup w.paths \cup w.scripts \cup w.evidence
             \cup w.decisions : r.review = a.review

EvidenceAgrees(ref, x, d, w) ==
  \E e \in w.evidence :
    /\ e.id = ref /\ e.draft = x.draft /\ e.classification = x.classification
    /\ e.pass = d.pass /\ e.path = x.path
    /\ e.script # None => \E s \in w.scripts : /\ s.id = e.script /\ s.path = e.path
                                               /\ s.classification = e.classification

(* C4-25: a finding of an addendum repeats the records it cites. *)
FindingAgrees(x, d, w) ==
  /\ \E c \in w.classifications :
       c.id = x.classification /\ c.draft = x.draft /\ c.value = x.value
  /\ \E v \in w.decisions :
       /\ v.id = x.decision /\ v.draft = x.draft /\ v.classification = x.classification
       /\ v.status = x.status /\ v.evidence \subseteq x.evidence
  /\ x.guidance # None => \E g \in w.guidance :
       g.id = x.guidance /\ g.draft = x.draft /\ g.classification = x.classification
  /\ x.path # None => \E p \in w.paths :
       /\ p.id = x.path /\ p.draft = x.draft /\ p.classification = x.classification
       /\ \A g \in w.guidance : g.id = x.guidance => g.path = p.id
       /\ p.guidance # None => p.guidance = x.guidance
  /\ \A ref \in x.evidence : EvidenceAgrees(ref, x, d, w)

AddendumAgrees(d, a, w) ==
  /\ d.review = a.review /\ d.scope = a.scope /\ d.commit = a.commit
  /\ d.repository = a.repository /\ d.at <= a.at
  /\ \A x \in d.findings : FindingAgrees(x, d, w)

ScriptsBelong(w) ==
  \A s \in w.scripts :
    \E p \in w.paths : p.id = s.path /\ p.classification = s.classification /\ s.id \in p.scripts

(* C4-26: an event of this type and reference, at the record's own time.   *)
RecordedBefore(type, ref, at, a, w) ==
  \E e \in w.history : e.type = type /\ e.ref = ref /\ e.at = at /\ e.at <= a.at

(* Evidence and decisions are versioned: the active event is this version. *)
ActiveIsCited(type, r, a, w) ==
  \E e \in w.history :
    /\ e.type = type /\ e.ref = r.id /\ e.version = r.version
    /\ e.at = r.at /\ e.at <= a.at
    /\ \A o \in w.history : o.type = type /\ o.ref = r.id => o.version <= e.version

HistoryIsComplete(a, w) ==
  /\ w.replays /\ w.history # {}
  /\ RecordedBefore("receipt_issued", w.receipt.id, w.receipt.at, a, w)
  /\ \A c \in w.classifications : RecordedBefore("classification_recorded", c.id, c.at, a, w)
  /\ \A g \in w.guidance : RecordedBefore("remediation_guidance_recorded", g.id, g.at, a, w)
  /\ \A p \in w.paths \cup w.scripts : RecordedBefore("validation_recorded", p.id, p.at, a, w)
  /\ \A e \in w.evidence : ActiveIsCited("verification_evidence_recorded", e, a, w)
  /\ \A v \in w.decisions : ActiveIsCited("verification_recorded", v, a, w)
  /\ \A r \in a.deletions : \E d \in w.deletions :
       d.id = r /\ RecordedBefore("evidence_deleted", r, d.at, a, w)

SectionsAreExact(a, w) ==
  /\ a.sections["scope"] = {"review_scope"} /\ a.sections["limitations"] = {"review_scope"}
  /\ a.sections["method"] = w.bundle.scanners
  /\ a.sections["receipt_chain"] = {"vendor_receipt"}
  /\ a.sections["findings_and_classification"] = RefsOf(w.classifications)
  /\ a.sections["remediation_and_validation"] = RefsOf(w.guidance \cup w.paths \cup w.scripts)
  /\ a.sections["verification_outcomes"] = RefsOf(w.evidence \cup w.decisions)
  /\ a.sections["evidence_lifecycle"] = {"minimization"}
  /\ a.refs = {"review_scope", "vendor_receipt", "minimization"}

(* rejectionForSecurityReviewAttestation. *)
attestationAccepted(a, w) ==
  /\ AttestationSchema(a) /\ a.sealed
  /\ ScopeIsTheReviews(a, w) /\ ChainIsTheReceipts(a, w)
  /\ DeletionsAreVerified(a, w)
  /\ AddendaAreCited(a, w) /\ MappingResolves(a, w)
  /\ ContextIsTheReviews(a, w)
  /\ \A d \in w.addenda : AddendumAgrees(d, a, w)
  /\ ScriptsBelong(w)
  /\ HistoryIsComplete(a, w)
  /\ SectionsAreExact(a, w)
  /\ ~customerProseForbidden(a.text)

(* validateSecurityReviewAttestationSemantics. *)
gateAttestationAccepted(a) ==
  /\ a.actor \in {"reviewer", "vendor_service"}
  /\ DOMAIN a.sections = SectionTypes
  /\ a.sealed
  /\ ~collectRemediationTextViolations(a.text, FALSE)

-----------------------------------------------------------------------------
(* Static bundle manifests.  A file is [path, ref, role, reason]; `outer'  *)
(* are the references of the signature and its input.                      *)

ManifestSchema(m) ==
  /\ m.version >= 1 /\ m.state \in {"generated", "finalized"} /\ Len(m.files) >= 6
  /\ \A i, j \in DOMAIN m.included : m.included[i] = m.included[j] => i = j
  /\ \A i \in DOMAIN m.files : m.files[i].reason # Absent
  /\ ~m.extra

FinalizedSupersedes(m) ==
  m.state = "finalized" => m.version >= 2 /\ m.supersedes \notin {None, m.id}

(* Every payload reference is one file, no file is a signing attachment,   *)
(* and the minimization covers the files exactly.                          *)
FilesAreCovered(m) ==
  /\ InjectiveOn(m.files, "path") /\ InjectiveOn(m.files, "ref")
  /\ m.evidence \subseteq FieldsOf(m.files, "ref")
  /\ m.outer \cap FieldsOf(m.files, "ref") = {}
  /\ Len(m.included) = Len(m.files)
  /\ {m.included[i] : i \in DOMAIN m.included} = FieldsOf(m.files, "ref")

FilesAreCustomerSafe(m) ==
  \A i \in DOMAIN m.files : /\ ~InternalLearningText(m.files[i].reason)
                            /\ ~InternalLearningName(m.files[i].path)
                            /\ ~InternalLearningName(m.files[i].ref)

RequiredFilesPresent(m) ==
  /\ {"attestation", "vendor_receipt", "evidence_bundle_representation", "portal"}
        \subseteq FieldsOf(m.files, "role")
  /\ Cardinality({i \in DOMAIN m.files : m.files[i].role = "portal_asset"}) >= 2
  /\ {"portal/index.html", "portal/styles.css", "portal/portal.js"}
        \subseteq FieldsOf(m.files, "path")

(* staticBundleManifestSemanticIssues finds none. *)
manifestAccepted(m) ==
  /\ m.sealed /\ FinalizedSupersedes(m)
  /\ RequiredFilesPresent(m) /\ m.instructions = "VERIFY.txt"
  /\ FilesAreCovered(m) /\ FilesAreCustomerSafe(m)
  /\ \A i \in DOMAIN m.files : ~epic5NarrativeTextForbidden(m.files[i].reason)

(* STATIC_BUNDLE_REQUIRED_PATH_ROLES: C7-12 binds each path to its role.   *)
RequiredPathRoles ==
  {<<"attestation.json", "attestation">>, <<"vendor-receipt.json", "vendor_receipt">>,
   <<"evidence-bundle-representation.json", "evidence_bundle_representation">>,
   <<"portal/index.html", "portal">>, <<"portal/styles.css", "portal_asset">>,
   <<"portal/portal.js", "portal_asset">>}

PathsHaveTheirRoles(m) ==
  RequiredPathRoles \subseteq {<<m.files[i].path, m.files[i].role>> : i \in DOMAIN m.files}

(* C7-35, first half. *)
GeneratedSupersedesNothing(m) == m.state = "generated" => m.supersedes = None

(* validateStaticBundleManifestSemantics. *)
gateManifestAccepted(m) ==
  /\ m.sealed /\ FinalizedSupersedes(m) /\ GeneratedSupersedesNothing(m)
  /\ PathsHaveTheirRoles(m) /\ m.instructions = "VERIFY.txt"
  /\ FilesAreCovered(m) /\ FilesAreCustomerSafe(m)
  /\ \A i \in DOMAIN m.files : ~collectRemediationTextViolations(m.files[i].reason, FALSE)

-----------------------------------------------------------------------------
(* The static portal. *)

PortalSections ==
  <<"overview", "scope", "receipt_chain", "methods", "findings", "validation_remediation",
    "limitations", "appendices">>

PortalSchema(p) ==
  /\ Len(p.navigation) = 8 /\ Len(p.documents) = 8 /\ p.offline
  /\ \A i \in 1 .. 8 : p.documents[i].refs # {} /\ p.documents[i].text # Absent

SectionsOnce(s) ==
  Len(s) = 8 /\ FieldsOf(s, "section") = {PortalSections[i] : i \in 1 .. 8}

NavigationResolves(p) ==
  /\ SectionsOnce(p.navigation) /\ \A i \in DOMAIN p.navigation : p.navigation[i].order = i
  /\ SectionsOnce(p.documents) /\ InjectiveOn(p.documents, "path")
  /\ \A i \in DOMAIN p.navigation : \E j \in DOMAIN p.documents :
       /\ p.documents[j].section = p.navigation[i].section
       /\ p.documents[j].path = p.navigation[i].path

DocumentsAreCustomerSafe(p) ==
  \A i \in DOMAIN p.documents : \A r \in p.documents[i].refs : ~InternalLearningName(r)

(* staticPortalProjectionSemanticIssues finds none. *)
portalAccepted(p) ==
  /\ NavigationResolves(p) /\ DocumentsAreCustomerSafe(p) /\ p.offline
  /\ \A i \in DOMAIN p.documents : ~epic5NarrativeTextForbidden(p.documents[i].text)

(* C7-35, second half: the sections are in their order. *)
NavigationIsInOrder(p) ==
  \A i \in DOMAIN p.navigation : p.navigation[i].section = PortalSections[i]

(* validateStaticPortalProjectionSemantics. *)
gatePortalAccepted(p) ==
  /\ NavigationResolves(p) /\ NavigationIsInOrder(p) /\ DocumentsAreCustomerSafe(p) /\ p.offline
  /\ \A i \in DOMAIN p.documents : ~collectRemediationTextViolations(p.documents[i].text, FALSE)

-----------------------------------------------------------------------------
(* Finalization by the customer.  An absent exported_at is Unset. *)

Unset == 0

FinalizationSchema(f) ==
  /\ f.actor = "customer_user" /\ f.version >= 2
  /\ f.shown /\ f.verified
  /\ f.exported = (f.exportedAt # Unset)
  /\ f.text # Absent

PackageIsOfOneReview(f, w) ==
  /\ \A r \in {w.attestation, w.generated, w.finalized, w.portal} : r.review = f.review
  /\ \A r \in {w.generated, w.finalized, w.portal} : r.bundle = f.bundle
  /\ f.visible = [attestation |-> w.attestation.id, bundle |-> f.bundle,
                  generated |-> w.generated.id]

(* C4-24: the attestation is the only one of the highest version. *)
AttestationIsActive(w) ==
  LET family == {e \in w.history : /\ e.type = "attestation_generated"
                                   /\ e.review = w.attestation.review}
  IN  \E e \in family :
        /\ e.ref = w.attestation.id /\ e.version = w.attestation.version
        /\ \A o \in family \ {e} : o.version < e.version

FinalizedIsNextVersion(f, w) ==
  /\ w.generated.state = "generated" /\ w.generated.supersedes = None
  /\ w.finalized.state = "finalized"
  /\ f.generated = w.generated.id /\ f.finalized = w.finalized.id
  /\ w.finalized.supersedes = w.generated.id
  /\ w.finalized.version = f.version /\ w.finalized.version = w.generated.version + 1

ContentFields ==
  {"attestation", "receipt", "evidence", "files", "included", "outer", "instructions", "portal"}

ContentIsUnchanged(w) == \A c \in ContentFields : w.finalized[c] = w.generated[c]

ReceiptIsVerified(w) ==
  /\ w.generated.attestation = w.attestation.id /\ w.generated.receipt = w.receipt.id
  /\ w.receipt.verified

(* signatureEnvelopeMatchesExpectation. *)
signatureEnvelopeMatchesExpectation(s, identity, key, at) ==
  s.input /\ s.identity = identity /\ s.key = key /\ s.at = at

(* signatureOutcomeCovers: the host's outcome is about this envelope. *)
signatureOutcomeCovers(s) ==
  s.outcome.verified /\ s.outcome.identity = s.identity /\ s.outcome.key = s.key

(* staticBundleSignatureValid, of the generated and the finalized manifest. *)
SignaturesHold(f, w) ==
  LET key == w.generatedSignature.key IN
  /\ signatureEnvelopeMatchesExpectation(w.generatedSignature, w.generated.id, key, w.generated.at)
  /\ signatureOutcomeCovers(w.generatedSignature)
  /\ signatureEnvelopeMatchesExpectation(w.signature, w.finalized.id, key, w.finalized.at)
  /\ signatureOutcomeCovers(w.signature)
  /\ w.signature.at = f.at /\ w.generated.at <= f.at
  /\ \A t \in {w.attestation.at, w.receipt.at, w.portal.at} \cup {d.at : d \in w.deletions} :
       t <= f.at

PortalIsThePackages(w) ==
  w.finalized.portal = w.portal.id /\ w.portal.manifest = w.generated.id /\ w.portal.safe

(* rejectionForAttestationPackageFinalization. *)
finalizationAccepted(f, w) ==
  /\ FinalizationSchema(f) /\ f.sealed
  /\ AttestationSchema(w.attestation) /\ PortalSchema(w.portal)
  /\ ManifestSchema(w.generated) /\ ManifestSchema(w.finalized)
  /\ PackageIsOfOneReview(f, w)
  /\ w.attestation.sealed /\ AttestationIsActive(w)
  /\ manifestAccepted(w.generated) /\ manifestAccepted(w.finalized)
  /\ FinalizedIsNextVersion(f, w) /\ ContentIsUnchanged(w)
  /\ ReceiptIsVerified(w)
  /\ portalAccepted(w.portal)
  /\ SignaturesHold(f, w)
  /\ \A r \in w.attestation.deletions : \E d \in w.deletions : d.id = r /\ d.verified
  /\ PortalIsThePackages(w)
  /\ f.exported => f.exportedAt >= f.at
  /\ ~epic5NarrativeTextForbidden(f.text)

(* validateAttestationPackageFinalizationSemantics. *)
gateFinalizationAccepted(f) ==
  /\ f.actor = "customer_user" /\ f.sealed
  /\ f.generated # f.finalized /\ f.version >= 2
  /\ f.visible.bundle = f.bundle /\ f.visible.generated = f.generated
  /\ f.shown
  /\ f.exported = (f.exportedAt # Unset) /\ (f.exported => f.exportedAt >= f.at)
  /\ ~collectRemediationTextViolations(f.text, FALSE)

(* validateEpic5FixtureChainSemantics, of manifests, portal, finalization  *)
(* and the signature of a manifest.                                        *)
gatePackageChainHolds(f, w) ==
  /\ w.generated.attestation = w.attestation.id
  /\ w.finalized = [w.generated EXCEPT !.id = w.finalized.id, !.version = w.generated.version + 1,
                      !.state = "finalized", !.at = w.finalized.at, !.supersedes = w.generated.id]
  /\ w.portal.review = w.attestation.review /\ w.portal.bundle = w.generated.bundle
  /\ w.portal.manifest = w.generated.id
  /\ f.review = w.attestation.review /\ f.visible.attestation = w.attestation.id
  /\ f.bundle = w.generated.bundle /\ f.generated = w.generated.id
  /\ f.finalized = w.finalized.id /\ f.version = w.finalized.version
  /\ w.generatedSignature.identity = w.generated.id /\ w.signature.identity = w.finalized.id

-----------------------------------------------------------------------------
(* Pilot learning.  `opaque' is an actor id without a person in it, `pii'  *)
(* that some value looks like one; `whole' says that versions, counts and  *)
(* ratings are integers, `inRange' that every number is finite and at most *)
(* MAX_SAFE_INTEGER away from zero.                                        *)

PilotSchema(p) ==
  /\ p.actor \in {"reviewer", "vendor_service"} /\ p.version >= 1 /\ p.whole /\ ~p.extra
  /\ p.visibility = "internal_only" /\ p.contentFree /\ p.piiFree /\ p.caveat # Absent

PilotMetricSchema(p) == PilotSchema(p) /\ p.candidate >= 0 /\ p.classified >= 0 /\ p.actionable >= 0

PilotFeedbackSchema(p) == PilotSchema(p) /\ Len(p.profiles) <= 4

CountsNest(p) == p.actionable <= p.classified /\ p.classified <= p.candidate

MeasurementWindowHolds(p) == p.start < p.end /\ p.end <= p.at

IsPiiFree(p) == p.opaque /\ ~p.pii /\ ~piiTextForbidden(p.caveat)

NoneTwice(s) == \A i, j \in DOMAIN s : s[i] = s[j] => i = j

(* buildPilotLearningRecord, of a metric and of feedback; the numbers are  *)
(* scanVerificationJson's.                                                 *)
pilotMetricAccepted(p) ==
  /\ p.inRange /\ PilotMetricSchema(p) /\ IsPiiFree(p)
  /\ CountsNest(p) /\ MeasurementWindowHolds(p)
  /\ ~epic5NarrativeTextForbidden(p.caveat)

pilotFeedbackAccepted(p) ==
  /\ p.inRange /\ PilotFeedbackSchema(p) /\ IsPiiFree(p)
  /\ NoneTwice(p.profiles) /\ NoneTwice(p.objections)
  /\ ~epic5NarrativeTextForbidden(p.caveat)

(* validatePilotMetricRecordSemantics. *)
gatePilotMetricAccepted(p) ==
  /\ p.visibility = "internal_only" /\ p.contentFree /\ p.piiFree /\ p.whole /\ p.inRange
  /\ IsPiiFree(p) /\ CountsNest(p) /\ MeasurementWindowHolds(p)
  /\ ~collectRemediationTextViolations(p.caveat, FALSE)

(* validatePilotFeedbackRecordSemantics. *)
gatePilotFeedbackAccepted(p) ==
  /\ p.visibility = "internal_only" /\ p.contentFree /\ p.piiFree /\ p.whole /\ p.inRange
  /\ IsPiiFree(p) /\ NoneTwice(p.profiles)
  /\ ~collectRemediationTextViolations(p.caveat, FALSE)
=============================================================================
