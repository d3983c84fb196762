-------------------------- MODULE VerificationPass --------------------------
(***************************************************************************)
(* The included verification pass: the scope that selects findings, the    *)
(* evidence recorded under it, the reviewer's decision on a finding and    *)
(* the addendum that reports the decisions.  As in FindingRecords there    *)
(* are two judges, the control plane and the protocol gate, and the        *)
(* schemas both of them consult first.                                     *)
(*                                                                         *)
(* A caller hands the control plane its context: a record w of the sets    *)
(* and histories it has read.  Times are whole days.  A list in which      *)
(* duplicates matter is a sequence, any other list a set.                  *)
(***************************************************************************)
EXTENDS FindingRecords

OptIn == "customer_opt_in_retained_source"

RequestTypes ==
  {"follow_up_commit", "customer_validation_evidence", "reviewer_authored_script_output",
   "manual_validation_record", "remote_dynamic_testing_evidence"}

Elements(s) == {s[i] : i \in DOMAIN s}

Distinct(s) == \A i, j \in DOMAIN s : s[i] = s[j] => i = j

(* uniqueRecordsById, contextRecordsById: no two records share an id. *)
UniqueById(records) == \A x, y \in records : x.id = y.id => x = y

-----------------------------------------------------------------------------
(* The scope of a pass. *)

SelectedFindingSchema(f) ==
  /\ f.value \in Classifications
  /\ f.type \in RequestTypes
  /\ f.eligibility \in {"eligible", "out_of_scope", "requires_additional_agreement",
                        "blocked_pending_validation_path"}
  /\ f.statusValue \in {None, "not_started", "planned", "in_progress",
                        "remediated_by_customer", "validation_pending", "deferred",
                        "not_applicable"}
  /\ Distinct(f.scripts)
  /\ f.reason # Absent /\ f.limits # Absent

AllocationSchema(s) ==
  /\ Len(s.slots) <= 3 /\ \A x \in Elements(s.slots) : x.slot \in 1 .. 3
  /\ \A x \in Elements(s.extras) : x.pricing = "pricing_tbd" /\ x.reason # Absent

ScopeSchema(s) ==
  /\ s.version >= 1
  /\ s.actor \in {"customer_user", "reviewer", "vendor_service"}
  /\ s.findings # <<>>
  /\ \A f \in Elements(s.findings) : SelectedFindingSchema(f)
  /\ AllocationSchema(s)
  /\ s.limits # Absent
  /\ s.class = Retained
  /\ s.visibility \in Visibilities
  /\ ~s.extra

MaxPassDays == 30

WindowHolds(s) ==
  /\ s.start < s.deadline /\ s.deadline - s.start <= MaxPassDays
  /\ s.start <= s.recorded /\ s.recorded <= s.deadline

(* verificationScopeDeadlineBasisIsUnsafe: no promise of 30 days, and an   *)
(* uncertain start named among the limitations.                            *)
verificationScopeDeadlineBasisIsUnsafe(s) ==
  s.startBasis = "promised" \/ (s.startBasis = "uncertain" /\ ~s.startNamed)

(* An actor that may select, on the customer's word, and is no machine     *)
(* (verificationScopeActorIsForbiddenMachine).                             *)
ScopeActorHolds(s) ==
  /\ s.actor \in {"customer_user", "reviewer", "vendor_service"}
  /\ s.actor # "customer_user" => s.backing
  /\ ~s.machine

Allocated(s) == s.slots \o s.extras

AllocationHolds(s) ==
  /\ Len(s.slots) <= 3
  /\ \A i \in DOMAIN s.slots : s.slots[i].slot \in 1 .. 3
  /\ \A i, j \in DOMAIN s.slots : s.slots[i].slot = s.slots[j].slot => i = j
  /\ \A x \in Elements(s.extras) : x.pricing = "pricing_tbd" /\ x.priced
  /\ \A i, j \in DOMAIN Allocated(s) :
        Allocated(s)[i].script = Allocated(s)[j].script => i = j

ScopeTexts(s) ==
  {s.startText, s.limits} \cup {x.reason : x \in Elements(s.extras)}
     \cup UNION {{f.reason, f.limits} : f \in Elements(s.findings)}

visibilityAllowedInVerificationScope(s, r) ==
  s.visibility = "internal_only" \/ r.visibility = "customer_facing"

(* selectLatestByUtcTimestamp: the one latest of the records up to a time; *)
(* a tie selects none.                                                     *)
IsLatest(r, records, bound) ==
  /\ r \in records /\ r.at <= bound
  /\ \A q \in records \ {r} : q.at <= bound => q.at < r.at

(* Records of one finding, as the caller's context has them. *)
OfFinding(records, s, f) ==
  {r \in records : r.review = s.review /\ r.classification = f.classification
                                       /\ r.draft = f.draft}

(* The record of a set that a reference names: a set of at most one. *)
Named(records, id) == {r \in records : r.id = id}

SelectedClassificationHolds(s, f, w) ==
  \E c \in Named(w.classifications, f.classification) :
    /\ classificationAccepted(c)
    /\ visibilityAllowedInVerificationScope(s, c)
    /\ IsLatest(c, {d \in w.classifications : d.review = s.review /\ d.draft = f.draft},
                s.recorded)
    /\ c.review = s.review /\ c.draft = f.draft /\ c.classification = f.value

(* The draft still has the evidence the classification was made from. *)
SelectedDraftHolds(s, f, w) ==
  \E c \in Named(w.classifications, f.classification), d \in Named(w.drafts, f.draft) :
    /\ d.review = s.review
    /\ draftEvidenceRefsAreConsistent(d.refs)
    /\ d.refs = c.refs
    /\ classificationSourceReferenceStateMatchesDraft(c.state, d.refs)

SelectedGuidanceHolds(s, f, w) ==
  f.guidance # None =>
    \E c \in Named(w.classifications, f.classification),
       g \in Named(w.guidance, f.guidance) :
         /\ guidanceAccepted(g, c)
         /\ visibilityAllowedInVerificationScope(s, g)
         /\ IsLatest(g, OfFinding(w.guidance, s, f), s.recorded)

SelectedStatusHolds(s, f, w) ==
  f.statusValue # None \/ f.status # None =>
    \E t \in Named(w.statuses, f.status) :
      /\ statusAccepted(t)
      /\ visibilityAllowedInVerificationScope(s, t)
      /\ IsLatest(t, {u \in w.statuses : /\ u.review = s.review
                                         /\ u.classification = f.classification
                                         /\ u.finding = f.draft}, s.recorded)
      /\ t.value = f.statusValue
      /\ t.guidance \in {None, f.guidance}

(* The path of a selected finding, with the guidance the scope names. *)
SelectedPathHolds(s, f, w) ==
  f.path # None =>
    \E c \in Named(w.classifications, f.classification), p \in Named(w.paths, f.path) :
      /\ p.at <= s.recorded
      /\ validationPathAccepted(p, {c}, Named(w.guidance, f.guidance), w.scripts)
      /\ visibilityAllowedInVerificationScope(s, p)
      /\ p \in OfFinding(w.paths, s, f)
      /\ p.guidance \in {None, f.guidance}
      /\ f.value = "requires_customer_side_validation" /\ f.eligibility = "eligible"
            => p.verifiability # "additional_agreement_required"

EligibleNeedsPath(f) ==
  f.value = "requires_customer_side_validation" /\ f.eligibility = "eligible" => f.path # None

(* Each selected script exists, is of the path, and has the allocation     *)
(* entry its package status calls for, for this finding.                   *)
SelectedScriptsHold(s, f, w) ==
  /\ Distinct(f.scripts)
  /\ f.path = None => f.scripts = <<>>
  /\ \A id \in Elements(f.scripts) :
       \E p \in Named(w.paths, f.path), x \in Named(w.scripts, id), a \in Elements(Allocated(s)) :
         /\ x.at <= s.recorded
         /\ validationScriptAccepted(x, p, {})
         /\ visibilityAllowedInVerificationScope(s, x)
         /\ x.classification = f.classification
         /\ x.guidance = f.guidance
         /\ a.script = id /\ a.finding = f.draft
         /\ a.slot = x.slot

NextStepIsNamed(f) ==
  f.eligibility \in {"blocked_pending_validation_path", "requires_additional_agreement"}
     => f.nextStep

(* An accepted risk or a false positive stays visible, and keeps the       *)
(* finding out of scope unless a new formal path is selected.              *)
OutcomesHold(s, f, w) ==
  /\ f.risk # None =>
       \E c \in Named(w.classifications, f.classification), a \in Named(w.risks, f.risk) :
         /\ a.at <= s.recorded
         /\ visibilityAllowedInVerificationScope(s, a)
         /\ acceptedRiskAccepted(a, c, Named(w.guidance, f.guidance),
                                 Named(w.paths, f.path), w.scripts)
  /\ f.fp # None =>
       \E c \in Named(w.classifications, f.classification), x \in Named(w.falsePositives, f.fp) :
         /\ x.at <= s.recorded
         /\ visibilityAllowedInVerificationScope(s, x)
         /\ falsePositiveAccepted(x, c)
  /\ (f.risk # None \/ f.fp # None) /\ f.eligibility # "out_of_scope"
        => f.path # None /\ f.type # "follow_up_commit"

ScriptsSelected(s) == UNION {Elements(f.scripts) : f \in Elements(s.findings)}

(* rejectionForVerificationPassScope. *)
scopeAccepted(s, w) ==
  /\ ScopeSchema(s)
  /\ ScopeActorHolds(s)
  /\ WindowHolds(s)
  /\ ~verificationScopeDeadlineBasisIsUnsafe(s)
  /\ AllocationHolds(s)
  /\ \A k \in {"classifications", "guidance", "statuses", "paths", "scripts", "risks",
               "falsePositives", "drafts"} : UniqueById(w[k])
  /\ \A i, j \in DOMAIN s.findings : s.findings[i].draft = s.findings[j].draft => i = j
  /\ \A f \in Elements(s.findings) :
       /\ isMeaningfulClassificationText(f.reason) /\ isMeaningfulClassificationText(f.limits)
       /\ SelectedClassificationHolds(s, f, w) /\ SelectedDraftHolds(s, f, w)
       /\ SelectedGuidanceHolds(s, f, w) /\ SelectedStatusHolds(s, f, w)
       /\ SelectedPathHolds(s, f, w) /\ EligibleNeedsPath(f)
       /\ SelectedScriptsHold(s, f, w)
       /\ NextStepIsNamed(f)
       /\ OutcomesHold(s, f, w)
  /\ \A i, j \in DOMAIN s.findings :
       i # j => Elements(s.findings[i].scripts) \cap Elements(s.findings[j].scripts) = {}
  /\ Len(Allocated(s)) = Cardinality(ScriptsSelected(s))
  /\ \A t \in ScopeTexts(s) : ~verificationArtifactTextHasForbiddenContent(t)

(* validateVerificationPassScopeSemantics, a selected finding. *)
gateSelectedFindingAccepted(f) ==
  /\ f.type \in RequestTypes
  /\ Cardinality(WordsOf(f.reason)) >= 3 /\ Cardinality(WordsOf(f.limits)) >= 3
  /\ EligibleNeedsPath(f)
  /\ NextStepIsNamed(f)
  /\ (f.risk # None \/ f.fp # None) /\ f.eligibility # "out_of_scope"
        => f.path # None /\ f.type # "follow_up_commit"

(* The gate's allocation rules: every entry belongs to a selected finding  *)
(* that refers to its script, and every selected script has one.           *)
gateAllocationAccepted(s) ==
  /\ AllocationHolds(s)
  /\ \A a \in Elements(Allocated(s)) :
       \E f \in Elements(s.findings) : f.draft = a.finding /\ a.script \in Elements(f.scripts)
  /\ Len(Allocated(s)) = Cardinality(ScriptsSelected(s))

gateScopeAccepted(s) ==
  /\ ScopeSchema(s)
  /\ ScopeActorHolds(s)
  /\ WindowHolds(s)
  /\ ~verificationScopeDeadlineBasisIsUnsafe(s)
  /\ gateAllocationAccepted(s)
  /\ \A i, j \in DOMAIN s.findings : s.findings[i].draft = s.findings[j].draft => i = j
  /\ \A i, j \in DOMAIN s.findings :
       i # j => Elements(s.findings[i].scripts) \cap Elements(s.findings[j].scripts) = {}
  /\ \A f \in Elements(s.findings) : gateSelectedFindingAccepted(f)
  /\ \A t \in ScopeTexts(s) : ~gateScopeTextHasForbiddenContent(t)

(* validateVerificationPassScopeFixtureReferenceSemantics. *)
gateScopeReferencesHold(s, w) ==
  \A f \in Elements(s.findings) :
    /\ \E c \in Named(w.classifications, f.classification) :
         c.review = s.review /\ c.draft = f.draft /\ c.classification = f.value
    /\ SelectedDraftHolds(s, f, w)
    /\ f.guidance # None => Named(OfFinding(w.guidance, s, f), f.guidance) # {}
    /\ f.status # None =>
         \E t \in Named(w.statuses, f.status) :
           /\ t.review = s.review /\ t.classification = f.classification
           /\ t.finding = f.draft /\ t.value = f.statusValue
    /\ f.path # None =>
         \E p \in Named(OfFinding(w.paths, s, f), f.path) :
           f.value = "requires_customer_side_validation" /\ f.eligibility = "eligible"
              => p.verifiability # "additional_agreement_required"
    /\ \A id \in Elements(f.scripts) :
         \E x \in Named(w.scripts, id) :
           /\ x.review = s.review /\ x.classification = f.classification
           /\ f.path # None => x.path = f.path
           /\ IF x.package = "included_base_package"
              THEN \E a \in Elements(s.slots) : a.script = id /\ a.slot = x.slot
              ELSE \E a \in Elements(s.extras) : a.script = id
    /\ f.risk # None => Named(OfFinding(w.risks, s, f), f.risk) # {}
    /\ f.fp # None => Named(OfFinding(w.falsePositives, s, f), f.fp) # {}

-----------------------------------------------------------------------------
(* Evidence for a selected finding. *)

FollowUpCommitSchema(c) ==
  /\ c.relation \in {"customer_declared_related", "customer_declared_descendant",
                     "relationship_unverified", "same_commit_submitted",
                     "repository_mismatch"}
  /\ c.basis # Absent

EvidenceSchema(e) ==
  /\ e.version >= 1 /\ e.scopeVersion >= 1
  /\ e.type \in RequestTypes
  /\ e.intake \in {"accepted_for_review", "verification_pending", "broader_context_required"}
  /\ e.actor \in {"customer_user", "vendor_service"}
  /\ \A c \in e.commit : FollowUpCommitSchema(c)
  /\ Distinct(e.artifacts)
  /\ e.reason # Absent /\ e.limits # Absent
  /\ e.class = Retained
  /\ ~e.payload

(* The schema's allOf: what each type must carry. *)
EvidenceTypeSchema(e) ==
  /\ e.type = "follow_up_commit" => e.commit # {}
  /\ e.type # "follow_up_commit" => e.path # None /\ e.artifacts # <<>>
  /\ e.type = "reviewer_authored_script_output" => e.script # None

(* activeVersionedRecord: the one record of the highest version. *)
IsActive(r, history) ==
  /\ r \in history
  /\ \A q \in history : q.id = r.id /\ q.review = r.review => q = r \/ q.version < r.version

(* Mutant of activeVerificationScope: any recorded scope will do. *)
anyVerificationScope(s, w) == s \in w.scopes

activeVerificationScope(s, w) == IsActive(s, w.scopes)

SelectedIn(s, draft) == {f \in Elements(s.findings) : f.draft = draft}

(* The follow-up commit is of the reviewed repository unless it says       *)
(* otherwise, and is another commit unless it says so.                     *)
CommitHolds(e, c, judge) ==
  /\ (c.relation = "same_commit_submitted") = (c.sha = c.originalSha)
  /\ (c.relation = "repository_mismatch") = (c.repo # c.originalRepo)
  /\ c.relation = "same_commit_submitted"
        => e.intake = "verification_pending" /\ MeaningfulTo(judge, e.next)
  /\ c.relation = "repository_mismatch"
        => e.intake = "broader_context_required" /\ MeaningfulTo(judge, e.next)

verificationEvidencePathTypeMatchesRequest(type, pathType) ==
  CASE type = "reviewer_authored_script_output" -> pathType = "customer_run_script"
    [] type = "manual_validation_record" -> pathType = "manual_steps"
    [] type = "remote_dynamic_testing_evidence" -> pathType = "remote_dynamic_testing"
    [] type = "customer_validation_evidence" -> TRUE
    [] type = "follow_up_commit" -> FALSE

(* resolveVerificationValidationPath. *)
resolveVerificationValidationPath(w, ref, c) ==
  {p \in Named(w.paths, ref) :
     /\ p.review = c.review /\ p.classification = c.id /\ p.draft = c.draft
     /\ UniqueById(w.paths)}

(* verificationEvidenceLifecycleIsValid: every artifact is stored under    *)
(* the class it claims, and retained source within its retention period.   *)
verificationEvidenceLifecycleIsValid(e, w) ==
  /\ \A i, j \in DOMAIN e.artifacts : e.artifacts[i].ref = e.artifacts[j].ref => i = j
  /\ \A a \in Elements(e.artifacts) :
       /\ a.class # "never_collected"
       /\ \E o \in w.stored : /\ o.artifact = a.ref /\ o.kind = "evidence_artifact"
                              /\ o.class = a.class /\ o.environment = e.environment
       /\ IF a.class # OptIn THEN a.retention = None
          ELSE \E r \in w.retention :
                 r.id = a.retention /\ a.ref \in r.artifacts /\ r.start <= e.at /\ e.at <= r.end

EvidenceTexts(e) == {e.reason, e.next, e.limits} \cup {c.basis : c \in e.commit}

ValidationEvidenceHolds(e, f, c, w) ==
  /\ e.commit = {} /\ e.artifacts # <<>>
  /\ f.path # None /\ e.path = f.path
  /\ UniqueById(w.scripts)
  /\ \E p \in resolveVerificationValidationPath(w, e.path, c) :
       /\ validationPathAccepted(p, {c}, w.ownGuidance, w.scripts)
       /\ verificationEvidencePathTypeMatchesRequest(e.type, p.type)
       /\ e.type = "reviewer_authored_script_output" =>
            \E x \in Named(w.scripts, e.script) :
              x.path = e.path /\ validationScriptAccepted(x, p, {})
  /\ e.script = None \/ e.script \in Elements(f.scripts)
  /\ verificationEvidenceLifecycleIsValid(e, w)

(* rejectionForVerificationEvidenceRecord, for the scope and the           *)
(* classification the caller supplies.                                     *)
evidenceAccepted(e, s, c, w) ==
  /\ EvidenceSchema(e) /\ EvidenceTypeSchema(e)
  /\ e.actor = "vendor_service" => e.backing
  /\ ScopeSchema(s) /\ activeVerificationScope(s, w)
  /\ e.review = s.review /\ e.pass = s.id /\ e.passRef = s.id /\ e.scopeVersion = s.version
  /\ s.recorded <= e.at /\ e.at <= s.deadline
  /\ c.review = e.review /\ c.id = e.classification /\ c.draft = e.draft
  /\ e.accessReview = e.review /\ e.tenant = w.tenant
  /\ \E f \in SelectedIn(s, e.draft) :
       /\ f.eligibility = "eligible"
       /\ f.classification = e.classification /\ f.type = e.type
       /\ c.classification = f.value
       /\ IF e.type = "follow_up_commit"
          THEN /\ e.path = None /\ e.script = None /\ e.artifacts = <<>>
               /\ \A k \in e.commit :
                    /\ k.originalSha = w.commit /\ k.originalRepo = w.repository
                    /\ CommitHolds(e, k, ControlPlane)
          ELSE ValidationEvidenceHolds(e, f, c, w)
  /\ e.intake # "accepted_for_review" => isMeaningfulClassificationText(e.next)
  /\ \A t \in EvidenceTexts(e) : ~verificationArtifactTextHasForbiddenContent(t)

(* validateVerificationEvidenceRecordSemantics. *)
gateEvidenceAccepted(e) ==
  /\ EvidenceSchema(e) /\ EvidenceTypeSchema(e)
  /\ e.actor = "vendor_service" => e.backing
  /\ e.accessReview = e.review
  /\ e.pass = e.passRef
  /\ IF e.type = "follow_up_commit"
     THEN /\ e.path = None /\ e.script = None /\ e.artifacts = <<>>
          /\ \A k \in e.commit : CommitHolds(e, k, Gate)
     ELSE /\ e.commit = {}
          /\ e.type # "reviewer_authored_script_output" => e.script = None
  /\ \A i, j \in DOMAIN e.artifacts : e.artifacts[i].ref = e.artifacts[j].ref => i = j
  /\ \A a \in Elements(e.artifacts) : a.class # "never_collected"
  /\ e.intake # "accepted_for_review" => isMeaningfulRemediationText(e.next)
  /\ \A t \in EvidenceTexts(e) : ~collectRemediationTextViolations(t, FALSE)

(* validateEpic4FixtureChainSemantics, of evidence. *)
gateEvidenceChainHolds(e, w) ==
  /\ \E s \in w.scopes, c \in Named(w.classifications, e.classification) :
       /\ s.id = e.passRef /\ s.version = e.scopeVersion /\ s.review = e.review
       /\ c.review = e.review /\ c.draft = e.draft
       /\ \E f \in SelectedIn(s, e.draft) :
            f.classification = e.classification /\ f.type = e.type
  /\ e.path # None =>
       \E p \in Named(w.paths, e.path) :
         p.review = e.review /\ p.classification = e.classification /\ p.draft = e.draft
  /\ e.script # None =>
       \E x \in Named(w.scripts, e.script) :
         x.review = e.review /\ x.path = e.path /\ x.classification = e.classification

-----------------------------------------------------------------------------
(* The reviewer's decision on one finding. *)

Statuses ==
  {"verification_complete", "verification_pending", "not_verified",
   "requires_customer_side_validation"}

Results == {"satisfied", "not_satisfied", "not_evaluated", "customer_validation_required"}

(* verificationDecisionStatusMatchesCriteria; the schema says it too. *)
verificationDecisionStatusMatchesCriteria(d) ==
  LET results == {r.result : r \in Elements(d.results)} IN
  CASE d.status = "verification_complete" -> results \subseteq {"satisfied"}
    [] d.status = "not_verified" -> "not_satisfied" \in results
    [] d.status = "verification_pending" -> "not_evaluated" \in results
    [] d.status = "requires_customer_side_validation" ->
         "customer_validation_required" \in results

BeforeStateSchema(b) ==
  /\ b.classification \in Classifications
  /\ b.refs # {} /\ b.basis # {} /\ b.criteria # {}

AfterStateSchema(d) ==
  /\ d.results # <<>> /\ \A r \in Elements(d.results) : r.result \in Results
  /\ d.afterRefs # {}
  /\ d.summary # Absent

DecisionSchema(d) ==
  /\ d.version >= 1
  /\ d.actor = "reviewer"
  /\ d.status \in Statuses
  /\ d.evidence # <<>> /\ Distinct(d.evidence)
  /\ BeforeStateSchema(d.before) /\ AfterStateSchema(d)
  /\ d.rationale # Absent /\ d.limits # Absent

(* The schema's allOf of a decision. *)
DecisionStatusSchema(d) ==
  /\ d.status # "verification_complete" => d.next # Absent
  /\ verificationDecisionStatusMatchesCriteria(d)

(* What the decision is measured by: the classification's criteria, or the *)
(* expected result of the path when a customer-side validation has none.   *)
usableCriteria(f, c, w) ==
  IF c.classification = "requires_customer_side_validation" /\ c.list = {}
  THEN {p.expected : p \in resolveVerificationValidationPath(w, f.path, c)}
  ELSE c.list

BeforeStateHolds(d, c, criteria) ==
  d.before = [classification |-> c.classification, refs |-> {r.artifact : r \in c.refs},
              basis |-> c.basis, state |-> c.state, criteria |-> criteria]

CriteriaAreCovered(d) ==
  /\ \A i, j \in DOMAIN d.results : d.results[i].criterion = d.results[j].criterion => i = j
  /\ {r.criterion : r \in Elements(d.results)} = d.before.criteria

Terminal(status) == status \in {"verification_complete", "not_verified"}

(* Bound evidence is the active version of its record, of this pass, scope *)
(* version and finding, and older than the decision.                       *)
BoundEvidenceHolds(d, s, bound, w) ==
  \A e \in bound :
    /\ IsActive(e, w.evidence)
    /\ e.review = d.review /\ e.pass = d.pass /\ e.passRef = d.passRef
    /\ e.scopeVersion = s.version
    /\ e.draft = d.draft /\ e.classification = d.classification
    /\ e.at <= d.at

(* verificationEvidenceArtifactRef and the artifacts of a record. *)
ArtifactsOf(e) == {e.id} \cup {a.ref : a \in Elements(e.artifacts)}

DecisionTexts(d) ==
  {d.summary, d.rationale, d.next, d.limits} \cup d.before.criteria
     \cup {r.criterion : r \in Elements(d.results)}

(* rejectionForVerificationRecord, for the evidence records supplied. *)
decisionAccepted(d, s, c, evidence, w) ==
  LET bound == {e \in evidence : e.id \in Elements(d.evidence)} IN
  /\ DecisionSchema(d) /\ DecisionStatusSchema(d)
  /\ ScopeSchema(s)
  /\ d.review = s.review /\ d.pass = s.id /\ d.passRef = s.id
  /\ c.review = d.review /\ c.id = d.classification /\ c.draft = d.draft
  /\ \A e \in evidence : evidenceAccepted(e, s, c, w)
  /\ UniqueById(evidence)
  /\ {e.id : e \in bound} = Elements(d.evidence)
  /\ BoundEvidenceHolds(d, s, bound, w)
  /\ \E f \in SelectedIn(s, d.draft) :
       /\ f.eligibility = "eligible" /\ f.classification = d.classification
       /\ BeforeStateHolds(d, c, usableCriteria(f, c, w))
  /\ CriteriaAreCovered(d)
  /\ d.afterRefs \subseteq UNION {ArtifactsOf(e) : e \in bound}
  /\ Terminal(d.status) => \A e \in bound : e.intake = "accepted_for_review"
  /\ d.status # "verification_complete" => isMeaningfulClassificationText(d.next)
  /\ \A t \in DecisionTexts(d) : ~verificationArtifactTextHasForbiddenContent(t)

(* validateVerificationRecordSemantics. *)
gateDecisionAccepted(d) ==
  /\ DecisionSchema(d) /\ DecisionStatusSchema(d)
  /\ d.pass = d.passRef
  /\ CriteriaAreCovered(d)
  /\ d.status # "verification_complete" => isMeaningfulRemediationText(d.next)
  /\ \A t \in DecisionTexts(d) : ~collectRemediationTextViolations(t, FALSE)

(* validateEpic4FixtureChainSemantics, of a decision: among the recorded   *)
(* documents each reference must name exactly one.                         *)
gateDecisionChainHolds(d, w) ==
  LET evidence == {e \in w.evidence : e.id \in Elements(d.evidence)}
      paths == {p \in w.paths : \E e \in evidence : p.id = e.path} IN
  /\ Cardinality(evidence) = Len(d.evidence)
  /\ \A e \in evidence :
       /\ e.review = d.review /\ e.pass = d.pass /\ e.passRef = d.passRef
       /\ e.draft = d.draft /\ e.classification = d.classification
  /\ \E c \in Named(w.classifications, d.classification) :
       BeforeStateHolds(d, c, IF /\ c.classification = "requires_customer_side_validation"
                                 /\ c.list = {} /\ Cardinality(paths) = 1
                              THEN {p.expected : p \in paths} ELSE c.list)

-----------------------------------------------------------------------------
(* The addendum.  w.events is the review's event history, in order: each   *)
(* event names the record and the version it recorded.                     *)

AddendumFindingSchema(x) ==
  /\ x.value \in Classifications
  /\ x.status \in Statuses
  /\ x.actor = "reviewer"
  /\ x.evidence # <<>> /\ Distinct(x.evidence)
  /\ x.status # "verification_complete" => x.next # Absent
  /\ x.summary # Absent /\ x.limits # Absent

Unresolved(a) ==
  \E x \in Elements(a.findings) :
    x.status \in {"verification_pending", "requires_customer_side_validation"}

EvidenceListsSchema(a) ==
  /\ \A x \in Elements(a.retained) : x.class \in {Retained, OptIn}
  /\ \A x \in Elements(a.deleted) : x.status \in {"verified", "pending", "unavailable"}

AddendumSchema(a) ==
  /\ a.findings # <<>>
  /\ \A x \in Elements(a.findings) : AddendumFindingSchema(x)
  /\ EvidenceListsSchema(a)
  /\ a.history # {}
  /\ a.limits # Absent
  /\ a.state \in {"finalized", "not_finalized"}
  /\ Unresolved(a) => a.state = "not_finalized"
  /\ Unresolved(a) \/ a.state = "not_finalized" => a.next # Absent

(* C4-21: the history replays as appends (storedReviewEventLogIsAppendValid,*)
(* here of versioned records): each record starts at version 1 and every   *)
(* later version supersedes the active one.                                *)
HistoryReplays(h) ==
  \A i \in DOMAIN h :
    LET earlier == {j \in 1 .. i - 1 : h[j].type = h[i].type /\ h[j].record = h[i].record} IN
    IF earlier = {} THEN h[i].version = 1 /\ h[i].supersedes = None
    ELSE \E j \in earlier : /\ \A k \in earlier : h[k].version <= h[j].version
                            /\ h[i].supersedes = h[j].id /\ h[j].version < h[i].version

(* activeVersionedVerificationEventForRecord. *)
ActiveEvent(h, type, record) ==
  {e \in Elements(h) : /\ e.type = type /\ e.record = record
                       /\ \A q \in Elements(h) :
                            q.type = type /\ q.record = record => q.version <= e.version}

(* A finding of the addendum repeats the decision and the selection. *)
ReportsDecision(x, d, f) ==
  /\ d.draft = x.draft /\ d.classification = x.classification
  /\ d.status = x.status /\ d.at = x.at /\ d.evidence = x.evidence
  /\ d.actor = x.actor /\ d.rationale = x.summary /\ d.limits = x.limits /\ d.next = x.next
  /\ f.classification = x.classification /\ f.value = x.value
  /\ f.guidance = x.guidance /\ f.path = x.path /\ f.risk = x.risk /\ f.fp = x.fp

ReportedFindingHolds(x, a, s, decisions, evidence, w) ==
  \E f \in SelectedIn(s, x.draft), d \in Named(decisions, x.decision),
     c \in Named(w.classifications, x.classification) :
       /\ decisionAccepted(d, s, c, {e \in evidence : e.id \in Elements(x.evidence)}, w)
       /\ d.review = a.review /\ d.pass = a.pass
       /\ ReportsDecision(x, d, f)

(* Mutant of DeletionHolds: the instant of the deletion is not bounded. *)
deletionHoldsAnyTime(r, e, a, w) ==
  \E x \in Elements(a.deleted), d \in w.deletions :
    /\ x.artifact = r.ref /\ x.deletion = d.id /\ r.ref \in d.artifacts
    /\ x.status = IF d.status = "verified" THEN "verified" ELSE "pending"

(* C4-22: source that is not retained was deleted after it was recorded    *)
(* and before the addendum, with evidence and one lifecycle event.         *)
DeletionHolds(r, e, a, w) ==
  \E x \in Elements(a.deleted), d \in w.deletions :
    /\ x.artifact = r.ref /\ x.deletion = d.id /\ r.ref \in d.artifacts
    /\ x.at = d.at
    /\ x.status = IF d.status = "verified" THEN "verified" ELSE "pending"
    /\ e.at <= d.at /\ d.at <= a.generated
    /\ LET events == {l \in w.lifecycle : /\ l.review = a.review /\ l.artifact = r.ref
                                          /\ l.deletion = x.deletion} IN
       Cardinality(events) = 1 /\ \A l \in events : l.class = r.class /\ l.at = d.at

EvidenceIsAccountedFor(e, a, w) ==
  /\ \E x \in Elements(a.retained) : x.artifact = e.id /\ x.class = e.class /\ x.at = e.at
  /\ \A r \in Elements(e.artifacts) :
       IF r.class \in {Retained, OptIn}
       THEN \E x \in Elements(a.retained) : x.artifact = r.ref /\ x.class = r.class /\ x.at = e.at
       ELSE DeletionHolds(r, e, a, w)

ResolvedOnce(a) ==
  LET all == a.retained \o a.deleted IN
  \A i, j \in DOMAIN all : all[i].artifact = all[j].artifact => i = j

(* The history references name the active events, of the versions used. *)
HistoryIsCited(x, a, decisions, evidence, w) ==
  /\ \E d \in Named(decisions, x.decision), v \in ActiveEvent(w.events, "verification_recorded", x.decision) :
       v.version = d.version /\ v.id \in a.history
  /\ \A id \in Elements(x.evidence) :
       \E e \in Named(evidence, id), v \in ActiveEvent(w.events, "verification_evidence_recorded", id) :
         v.version = e.version /\ v.id \in a.history

AddendumTexts(a) ==
  {a.next, a.limits} \cup UNION {{x.summary, x.next, x.limits} : x \in Elements(a.findings)}

(* rejectionForVerificationAddendum. *)
addendumAccepted(a, s, decisions, evidence, w) ==
  /\ AddendumSchema(a) /\ ScopeSchema(s)
  /\ a.review = s.review /\ a.pass = s.id /\ a.passRef = s.id
  /\ a.commit = w.commit /\ a.repository = w.repository
  /\ Len(a.findings) = Len(s.findings)
  /\ \A i, j \in DOMAIN a.findings : a.findings[i].draft = a.findings[j].draft => i = j
  /\ UniqueById(w.classifications) /\ UniqueById(decisions) /\ UniqueById(evidence)
  /\ HistoryReplays(w.events)
  /\ \A x \in Elements(a.findings) : ReportedFindingHolds(x, a, s, decisions, evidence, w)
  /\ {e.id : e \in evidence} = UNION {Elements(x.evidence) : x \in Elements(a.findings)}
  /\ ResolvedOnce(a)
  /\ \A e \in evidence : EvidenceIsAccountedFor(e, a, w)
  /\ a.history \subseteq {v.id : v \in Elements(w.events)}
  /\ \A x \in Elements(a.findings) : HistoryIsCited(x, a, decisions, evidence, w)
  /\ Unresolved(a) \/ a.state = "not_finalized" => isMeaningfulClassificationText(a.next)
  /\ \A d \in decisions : d.at <= a.generated
  /\ \A t \in AddendumTexts(a) : ~verificationArtifactTextHasForbiddenContent(t)

(* validateVerificationAddendumSemantics. *)
gateAddendumAccepted(a) ==
  /\ AddendumSchema(a)
  /\ a.pass = a.passRef
  /\ \A i, j \in DOMAIN a.findings :
       (\/ a.findings[i].draft = a.findings[j].draft
        \/ a.findings[i].decision = a.findings[j].decision) => i = j
  /\ ResolvedOnce(a)
  /\ \A x \in Elements(a.deleted) : x.at <= a.generated
  /\ Unresolved(a) \/ a.state = "not_finalized" => isMeaningfulRemediationText(a.next)
  /\ \A x \in Elements(a.findings) :
       x.status # "verification_complete" => isMeaningfulRemediationText(x.next)
  /\ \A t \in AddendumTexts(a) : ~collectRemediationTextViolations(t, FALSE)

(* validateEpic4FixtureChainSemantics, of an addendum. *)
gateAddendumChainHolds(a, decisions, w) ==
  \A x \in Elements(a.findings) :
    /\ \E d \in Named(decisions, x.decision) :
         /\ d.review = a.review /\ d.draft = x.draft
         /\ d.classification = x.classification /\ d.status = x.status
    /\ Cardinality({e \in w.evidence : e.id \in Elements(x.evidence)}) = Len(x.evidence)
    /\ \A id \in Elements(x.evidence) :
         Cardinality({i \in DOMAIN (a.retained \o a.deleted) :
                        (a.retained \o a.deleted)[i].artifact = id}) = 1
=============================================================================
