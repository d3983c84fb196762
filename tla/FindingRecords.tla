--------------------------- MODULE FindingRecords ---------------------------
(***************************************************************************)
(* The records about one finding and the two judges of each: the control   *)
(* plane (rejectionFor... in apps/control-plane/src/index.ts), which       *)
(* decides what is recorded, and the protocol gate (validate...Semantics   *)
(* in scripts/lib/protocol-utils.mjs), which checks recorded artifacts.    *)
(* Judges answer TRUE when they have no objection.                         *)
(*                                                                         *)
(* Both consult the record's schema as well.                               *)
(* Texts are token sequences of ClaimSafety, the empty one for an absent   *)
(* field; a list of texts is one text, absent when the list is empty.      *)
(***************************************************************************)
EXTENDS ClaimSafety

None == "none"

Retained == "retained_review_artifact"

Visibilities == {"customer_facing", "internal_only"}

Classifications == {"likely", "confirmed", "inconclusive", "requires_customer_side_validation"}

(* Evidence references of a draft, by what the rules tell apart. *)
EvidenceRef(artifact, state, available, display, class, proof) ==
  [artifact |-> artifact, state |-> state, available |-> available,
   display |-> display, class |-> class, proof |-> proof]

CLASSIFICATION_INSUFFICIENT_CONFIRMED_BASIS ==
  {"scanner_output", "metadata_only", "deleted_under_policy_reference",
   "not_submitted_by_policy_reference", "never_collected_reference",
   "unresolved_reference"}

Shown(r) == r.available /\ r.display = "available_reference"

(* What a basis needs of some draft reference; `snippets' are the source   *)
(* classes a finding context snippet may have.                             *)
BasisRule(b, r, snippets) ==
  CASE b = "scanner_output" ->
         r.artifact = "scanner_finding_set" /\ r.state = Retained /\ Shown(r)
    [] b = "metadata_only" ->
         \/ r.state = "not_submitted_by_policy" /\ r.display = "not_submitted"
         \/ r.state = "never_collected" /\ r.display = "not_collected"
         \/ r.state = Retained /\ Shown(r)
    [] b = "finding_context_snippet" -> Shown(r) /\ r.class \in snippets
    [] b = "extended_approved_source_context" ->
         Shown(r) /\ r.class = "customer_opt_in_retained_source"
    [] b = Retained -> r.state = Retained /\ r.available /\ r.class = Retained
    [] b = "deleted_under_policy_reference" ->
         r.state = "deleted_under_policy" /\ r.display = "deleted" /\ r.proof
    [] b = "not_submitted_by_policy_reference" ->
         r.state = "not_submitted_by_policy" /\ r.display = "not_submitted"
    [] b = "never_collected_reference" ->
         r.state = "never_collected" /\ r.display = "not_collected"
    [] b = "unresolved_reference" ->
         r.state = "unresolved_reference" /\ r.display = "unresolved_reference"

classificationEvidenceBasisMatchesDraft(basis, refs) ==
  \A b \in basis : \E r \in refs :
     BasisRule(b, r, {"transient_source_derived", "customer_opt_in_retained_source"})

(* C7-31: in the gate a snippet is transient source only. *)
gateEvidenceBasisMatchesDraft(basis, refs) ==
  \A b \in basis : \E r \in refs : BasisRule(b, r, {"transient_source_derived"})

(* Nothing unavailable is shown, deletions are proved, and an artifact is  *)
(* in one state.  Both judges have this function.                          *)
draftEvidenceRefsAreConsistent(refs) ==
  /\ \A r \in refs :
       /\ r.state # Retained => ~r.available /\ r.display # "available_reference"
       /\ r.state = "deleted_under_policy" => r.proof
  /\ \A r, s \in refs : r.artifact = s.artifact => r.state = s.state

(* The least available state of the references; both judges. *)
StatePriority == <<"unresolved_reference", "deleted_under_policy",
                   "not_submitted_by_policy", "never_collected", Retained>>

classificationSourceReferenceStateMatchesDraft(state, refs) ==
  \E k \in DOMAIN StatePriority :
     /\ state = StatePriority[k]
     /\ \E r \in refs : r.state = state
     /\ \A m \in 1 .. k - 1 : \A r \in refs : r.state # StatePriority[m]

gateSourceReferenceStateMatchesDraft(state, refs) ==
  IF refs = {} THEN state = "unresolved_reference"
  ELSE classificationSourceReferenceStateMatchesDraft(state, refs)

-----------------------------------------------------------------------------
(***************************************************************************)
(* The schemas, which the builders and the gate both consult.  `class' is  *)
(* the record's own source_derived_class; `policy' a field_export_policy:  *)
(* absent, with a decision for each of its fields, or with some missing.   *)
(***************************************************************************)
ReferenceStates == {StatePriority[i] : i \in DOMAIN StatePriority}

EvidenceBases ==
  CLASSIFICATION_INSUFFICIENT_CONFIRMED_BASIS
    \cup {Retained, "finding_context_snippet", "extended_approved_source_context"}

EvidenceRefsSchema(refs) ==
  /\ refs # {}
  /\ \A r \in refs :
       /\ r.state \in ReferenceStates
       /\ r.display \in {"available_reference", "deleted", "not_collected",
                         "not_submitted", "unresolved_reference"}

BasisSchema(basis) == basis # {} /\ basis \subseteq EvidenceBases

RecordSchema(r) == r.class = Retained /\ r.visibility \in Visibilities

FieldPolicySchema(r) == r.policy \in {None, "complete"}

ClassificationSchema(c) ==
  /\ c.actor = "reviewer" /\ c.classification \in Classifications
  /\ EvidenceRefsSchema(c.refs) /\ BasisSchema(c.basis) /\ c.state \in ReferenceStates
  /\ c.rationale # Absent /\ c.limits # Absent
  /\ ~c.extra
  /\ RecordSchema(c)
  /\ c.classification = "confirmed" => c.criteria # Absent

ClassificationContextSchema(ctx) ==
  ctx.classification \in Classifications /\ BasisSchema(ctx.basis) /\ ctx.state \in ReferenceStates

GuidanceSchema(g) ==
  /\ g.actor = "reviewer"
  /\ EvidenceRefsSchema(g.refs) /\ ClassificationContextSchema(g.ctx)
  /\ g.status \in {"actionable_guidance_provided", "limited_guidance_requires_validation",
                   "guidance_unavailable_from_submitted_evidence"}

GuidanceListsSchema(g) ==
  /\ g.limits # Absent /\ g.evidence # {}
  /\ g.state \in ReferenceStates
  /\ RecordSchema(g)

StatusSchema(s) ==
  /\ s.value \in {"not_started", "planned", "in_progress", "remediated_by_customer",
                  "validation_pending", "deferred", "not_applicable"}
  /\ s.actor = "customer_user"
  /\ ~s.extra
  /\ FieldPolicySchema(s) /\ RecordSchema(s)

FalsePositiveSchema(f) ==
  /\ EvidenceRefsSchema(f.refs) /\ BasisSchema(f.basis)
  /\ f.rationale # Absent

FalsePositiveListsSchema(f) ==
  /\ f.actor = "reviewer"
  /\ f.limits # Absent /\ f.state \in ReferenceStates
  /\ FieldPolicySchema(f) /\ RecordSchema(f)

PathSchema(p) ==
  /\ EvidenceRefsSchema(p.refs)
  /\ p.type \in {"remote_dynamic_testing", "customer_run_script", "manual_steps"}
  /\ p.steps # Absent /\ p.expected # Absent /\ p.limits # Absent

PathOptionsSchema(p) ==
  /\ p.verifiability \in {"verifiable_within_included_pass",
                          "customer_provided_evidence_required",
                          "additional_agreement_required"}
  /\ p.actor = "reviewer" /\ p.state \in ReferenceStates
  /\ RecordSchema(p)

ScriptSchema(s) ==
  /\ s.package \in {"included_base_package", "additional_script_candidate_pricing_tbd"}
  /\ s.slot \in 0 .. 3
  /\ s.actor = "reviewer" /\ s.text # Absent
  /\ RecordSchema(s)

AcceptedRiskSchema(a) ==
  EvidenceRefsSchema(a.refs) /\ BasisSchema(a.basis) /\ ~a.extra

AcceptedRiskListsSchema(a) ==
  /\ a.limits # Absent /\ a.state \in ReferenceStates
  /\ FieldPolicySchema(a) /\ RecordSchema(a)

-----------------------------------------------------------------------------
(* Finding classification records. *)

ClassificationTexts(c) ==
  {c.rationale, c.criteria, c.defensible, c.pathSummary, c.limits}

ConfirmedIsDefensible(c) ==
  c.classification = "confirmed" =>
     /\ isMeaningfulClassificationText(c.criteria)
     /\ c.basis \cap CLASSIFICATION_INSUFFICIENT_CONFIRMED_BASIS # {}
           => isMeaningfulClassificationText(c.defensible)

ValidationPathIsNamed(c) ==
  c.classification = "requires_customer_side_validation" =>
     isMeaningfulClassificationText(c.pathSummary) \/ c.pathRef

(* rejectionForFindingClassificationRecord. *)
classificationAccepted(c) ==
  /\ c.actor = "reviewer"
  /\ c.basis # {}
  /\ c.refs # {} /\ draftEvidenceRefsAreConsistent(c.refs)
  /\ classificationEvidenceBasisMatchesDraft(c.basis, c.refs)
  /\ classificationSourceReferenceStateMatchesDraft(c.state, c.refs)
  /\ c.limits # Absent
  /\ ~c.extra
  /\ ConfirmedIsDefensible(c)
  /\ ValidationPathIsNamed(c)
  /\ \A t \in ClassificationTexts(c) : ~textHasForbiddenClassificationOrSourceCodeContent(t)

(* collectFindingClassificationTextViolations: no source-code detector. *)
collectFindingClassificationTextViolations(t) ==
  secretPhrasePresent(t) \/ gateCustomerVisibleTextForbidden(t)

(* validateFindingClassificationRecordSemantics. *)
gateClassificationAccepted(c) ==
  /\ c.actor = "reviewer"
  /\ c.basis # {}
  /\ c.refs # {} /\ draftEvidenceRefsAreConsistent(c.refs)
  /\ gateEvidenceBasisMatchesDraft(c.basis, c.refs)
  /\ gateSourceReferenceStateMatchesDraft(c.state, c.refs)
  /\ c.limits # Absent
  /\ ~c.extra
  /\ ConfirmedIsDefensible(c)
  /\ ValidationPathIsNamed(c)
  /\ \A t \in ClassificationTexts(c) : ~collectFindingClassificationTextViolations(t)

-----------------------------------------------------------------------------
(* Remediation guidance; ctx is its embedded classification_context.       *)

GuidanceTexts(g) ==
  {g.exploitability, g.suggested, g.steps, g.insufficient, g.next, g.pathSummary, g.limits}

(* classificationContextMatchesRecord. *)
classificationContextMatchesRecord(g, c) ==
  /\ g.ctx = [classification |-> c.classification, criteria |-> c.criteria,
              basis |-> c.basis, state |-> c.state]
  /\ g.refs = c.refs

EvidenceIsAvailable(g) ==
  \A a \in g.evidence : \E r \in g.refs : r.artifact = a /\ Shown(r)

(* The rules of a status, for a judge's idea of meaningful text. *)
ActionableHolds(g, judge) ==
  g.status = "actionable_guidance_provided" =>
     /\ g.ctx.classification # "inconclusive"
     /\ MeaningfulTo(judge, g.suggested) /\ MeaningfulTo(judge, g.steps)
     /\ g.limits # Absent => MeaningfulTo(judge, g.limits)
     /\ g.evidence # {}
     /\ g.ctx.classification \in {"likely", "confirmed"} => MeaningfulTo(judge, g.exploitability)
     /\ g.ctx.classification = "confirmed" => MeaningfulTo(judge, g.ctx.criteria)

LimitedHolds(g, judge) ==
  g.status \in {"limited_guidance_requires_validation",
                "guidance_unavailable_from_submitted_evidence"} =>
     /\ MeaningfulTo(judge, g.insufficient)
     /\ MeaningfulTo(judge, g.next) \/ MeaningfulTo(judge, g.pathSummary) \/ g.pathRef

(* rejectionForFindingRemediationGuidance. *)
guidanceAccepted(g, c) ==
  /\ g.actor = "reviewer"
  /\ classificationAccepted(c)
  /\ g.review = c.review /\ g.classification = c.id /\ g.draft = c.draft
  /\ classificationContextMatchesRecord(g, c)
  /\ g.state = g.ctx.state
  /\ draftEvidenceRefsAreConsistent(g.refs)
  /\ EvidenceIsAvailable(g)
  /\ ActionableHolds(g, ControlPlane)
  /\ LimitedHolds(g, ControlPlane)
  /\ \A t \in GuidanceTexts(g) : ~textHasForbiddenClassificationContent(t)

(* validateFindingRemediationGuidanceSemantics. *)
gateGuidanceAccepted(g) ==
  /\ g.actor = "reviewer"
  /\ g.state = g.ctx.state
  /\ draftEvidenceRefsAreConsistent(g.refs)
  /\ EvidenceIsAvailable(g)
  /\ ActionableHolds(g, Gate)
  /\ LimitedHolds(g, Gate)
  /\ \A t \in GuidanceTexts(g) : ~collectRemediationTextViolations(t, FALSE)

-----------------------------------------------------------------------------
(* Customer remediation status.  Dates are valid or not; a record names    *)
(* the finding, the classification or both.                                *)

StatusTexts(s) == {s.owner, s.target, s.notes}

(* rejectionForCustomerRemediationStatus. *)
statusAccepted(s) ==
  /\ s.actor = "customer_user"
  /\ s.finding # None \/ s.classification # None
  /\ ~s.extra
  /\ s.due # "invalid"
  /\ \A t \in StatusTexts(s) : ~textHasForbiddenClassificationContent(t)

(* validateCustomerRemediationStatusRecordSemantics. *)
gateStatusAccepted(s) ==
  /\ s.actor = "customer_user"
  /\ s.finding # None \/ s.classification # None
  /\ ~s.extra
  /\ s.due # "invalid"
  /\ \A t \in StatusTexts(s) : ~collectRemediationTextViolations(t, FALSE)

-----------------------------------------------------------------------------
(* False positives. *)

(* rejectionForFalsePositiveRecord. *)
falsePositiveAccepted(f, c) ==
  /\ f.actor = "reviewer"
  /\ classificationAccepted(c)
  /\ f.review = c.review /\ f.classification = c.id /\ f.draft = c.draft
  /\ f.refs = c.refs
  /\ f.state = c.state
  /\ f.refs # {} /\ draftEvidenceRefsAreConsistent(f.refs)
  /\ classificationEvidenceBasisMatchesDraft(f.basis, f.refs)
  /\ isMeaningfulClassificationText(f.rationale)
  /\ isMeaningfulClassificationText(f.limits)
  /\ \A t \in {f.rationale, f.limits} : ~textHasForbiddenClassificationContent(t)

(* validateOutcomeRecordFixtureReferenceSemantics, with the classification *)
(* the gate found under the reference.                                     *)
OutcomeIsBound(o, c) ==
  /\ o.classification = c.id
  /\ o.review = c.review /\ o.draft = c.draft /\ o.refs = c.refs

(* validateFalsePositiveRecordSemantics. *)
gateFalsePositiveAccepted(f, c) ==
  /\ f.actor = "reviewer"
  /\ f.basis # {} /\ f.refs # {}
  /\ draftEvidenceRefsAreConsistent(f.refs)
  /\ gateEvidenceBasisMatchesDraft(f.basis, f.refs)
  /\ gateSourceReferenceStateMatchesDraft(f.state, f.refs)
  /\ isMeaningfulRemediationText(f.rationale)
  /\ isMeaningfulRemediationText(f.limits)
  /\ \A t \in {f.rationale, f.limits} : ~collectRemediationTextViolations(t, FALSE)
  /\ OutcomeIsBound(f, c)

-----------------------------------------------------------------------------
(* Validation paths and scripts. *)

PathTexts(p) ==
  {p.steps, p.expected, p.limits, p.target, p.authorization, p.method, p.safety, p.attachment}

RemoteTexts(p) == {p.target, p.authorization, p.method, p.safety}

RemoteFieldsHold(p, judge) ==
  IF p.type = "remote_dynamic_testing"
  THEN (\A t \in RemoteTexts(p) : MeaningfulTo(judge, t)) /\ p.collect
  ELSE (\A t \in RemoteTexts(p) : t = Absent) /\ ~p.collect

ScriptRefsHold(p) ==
  IF p.type = "customer_run_script" THEN p.scripts # {} ELSE p.scripts = {}

(* Script references are resolved by scripts the caller supplies, all of   *)
(* them schema-valid, each of this path.                                   *)
ScriptsResolve(p, scripts) ==
  p.type = "customer_run_script" =>
     /\ scripts # {} /\ \A s \in scripts : s.valid
     /\ \A id \in p.scripts : \E s \in scripts : s.id = id /\ s.path = p.id

PathMatchesClassification(p, c) ==
  /\ p.review = c.review /\ p.classification = c.id /\ p.draft = c.draft
  /\ p.refs = c.refs /\ p.state = c.state

PathMatchesGuidance(p, g) ==
  p.guidance = g.id /\ p.classification = g.classification /\ p.draft = g.draft

(* rejectionForFindingValidationPath; the classification and the guidance  *)
(* are sets of at most one record, compared only when supplied.            *)
validationPathAccepted(p, classification, guidance, scripts) ==
  /\ p.actor = "reviewer"
  /\ \A c \in classification : PathMatchesClassification(p, c)
  /\ \A g \in guidance : PathMatchesGuidance(p, g)
  /\ p.refs # {} => /\ draftEvidenceRefsAreConsistent(p.refs)
                    /\ classificationSourceReferenceStateMatchesDraft(p.state, p.refs)
  /\ RemoteFieldsHold(p, ControlPlane)
  /\ ScriptRefsHold(p) /\ ScriptsResolve(p, scripts)
  /\ p.type = "manual_steps" => isMeaningfulClassificationText(p.attachment)
  /\ \A t \in PathTexts(p) : ~textHasForbiddenClassificationContent(t)

(* validateFindingValidationPathSemantics. *)
gateValidationPathAccepted(p) ==
  /\ p.actor = "reviewer"
  /\ p.refs # {} => /\ draftEvidenceRefsAreConsistent(p.refs)
                    /\ gateSourceReferenceStateMatchesDraft(p.state, p.refs)
  /\ RemoteFieldsHold(p, Gate)
  /\ ScriptRefsHold(p)
  /\ p.type = "manual_steps" => isMeaningfulRemediationText(p.attachment)
  /\ \A t \in PathTexts(p) : ~collectRemediationTextViolations(t, FALSE)

(* Scripts: slot 0 is an absent included_script_slot, `priced' that a text *)
(* says "pricing TBD".                                                     *)
SlotHolds(s) ==
  IF s.package = "included_base_package" THEN s.slot \in 1 .. 3
  ELSE s.slot = 0 /\ s.priced

(* rejectionForReviewerValidationScript, given the path and the slots of   *)
(* the scripts the caller says are included already.                       *)
validationScriptAccepted(s, p, taken) ==
  /\ s.actor = "reviewer"
  /\ p.type = "customer_run_script"
  /\ s.review = p.review /\ s.path = p.id /\ s.classification = p.classification
  /\ SlotHolds(s)
  /\ s.package = "included_base_package" => Cardinality(taken) < 3 /\ s.slot \notin taken
  /\ ~textHasForbiddenClassificationContent(s.text)

(* validateReviewerValidationScriptSemantics and, over the scripts of the  *)
(* review, validateReviewerValidationScriptPackageSemantics.               *)
gateValidationScriptAccepted(s) ==
  /\ s.actor = "reviewer"
  /\ SlotHolds(s)
  /\ ~collectRemediationTextViolations(s.text, FALSE)

gateScriptPackageAccepted(s, taken) ==
  s.package = "included_base_package" => Cardinality(taken) < 3 /\ s.slot \notin taken

-----------------------------------------------------------------------------
(* Accepted risks. *)

AcceptedRiskTexts(a) == {a.rationale, a.signoff, a.owner, a.scope, a.limits}

CustomerAccepts(a, judge) ==
  MeaningfulTo(judge, a.rationale) \/ a.signoffRef \/ MeaningfulTo(judge, a.signoff)

(* The guidance and the path supplied with an outcome are sets of at most  *)
(* one record.                                                             *)
validRemediationContextForOutcome(guidance, c, ref) ==
  \E g \in guidance : guidanceAccepted(g, c) /\ g.id = ref

validValidationPathContextForOutcome(path, c, ref, remediation, scripts) ==
  \E p \in path :
    /\ validationPathAccepted(p, {c}, {}, scripts)
    /\ p.id = ref
    /\ remediation = None \/ p.guidance = remediation

(* rejectionForAcceptedRiskRecord. *)
acceptedRiskAccepted(a, c, guidance, path, scripts) ==
  /\ a.actor \in {"customer_user", "reviewer", "vendor_service"}
  /\ CustomerAccepts(a, ControlPlane)
  /\ classificationAccepted(c)
  /\ a.review = c.review /\ a.classification = c.id /\ a.draft = c.draft
  /\ a.basis # {} /\ a.refs # {}
  /\ a.refs = c.refs /\ draftEvidenceRefsAreConsistent(a.refs)
  /\ classificationEvidenceBasisMatchesDraft(a.basis, a.refs)
  /\ a.state = c.state
  /\ a.remediation # None => validRemediationContextForOutcome(guidance, c, a.remediation)
  /\ a.path # None =>
        validValidationPathContextForOutcome(path, c, a.path, a.remediation, scripts)
  /\ a.reviewBy # "invalid"
  /\ isMeaningfulClassificationText(a.limits)
  /\ ~a.extra
  /\ \A t \in AcceptedRiskTexts(a) : ~acceptedRiskTextHasForbiddenContent(t)

(* validateAcceptedRiskRecordSemantics. *)
gateAcceptedRiskAccepted(a, c) ==
  /\ a.actor \in {"customer_user", "reviewer", "vendor_service"}
  /\ CustomerAccepts(a, Gate)
  /\ a.basis # {} /\ a.refs # {}
  /\ draftEvidenceRefsAreConsistent(a.refs)
  /\ gateEvidenceBasisMatchesDraft(a.basis, a.refs)
  /\ gateSourceReferenceStateMatchesDraft(a.state, a.refs)
  /\ a.reviewBy # "invalid"
  /\ isMeaningfulRemediationText(a.limits)
  /\ ~a.extra
  /\ \A t \in AcceptedRiskTexts(a) :
        ~collectRemediationTextViolations(t, FALSE) /\ ~acceptedRiskTextHasPositiveClosureClaim(t)
  /\ OutcomeIsBound(a, c)
=============================================================================
