--------------------------- MODULE EventBuilders ---------------------------
(***************************************************************************)
(* The builders of review events (build...Event in                         *)
(* apps/control-plane/src/index.ts) and the rules an event meets when it   *)
(* is appended (rejectionForReviewEventSemantics).  A builder is a set of  *)
(* at most one event, empty when it rejects.                               *)
(*                                                                         *)
(* An envelope's type, refs, key, at and reason are absent (None), what    *)
(* the builder derives from the record ("own") or anything else.  Records  *)
(* of a verification pass come with the verdict of their judge,            *)
(* `accepted' (VerificationPass).                                          *)
(***************************************************************************)
EXTENDS AttestationPackage

Derived(given) == given \in {None, "own"}

Or(given, default) == IF given = None THEN default ELSE given

(* What every builder of a typed record asks of the envelope. *)
EnvelopeFits(r, env) ==
  Derived(env.type) /\ Derived(env.refs) /\ Derived(env.key) /\ env.actor \in {None, r.actor}

(* Mutant of InternalStaysInternal: the envelope decides. *)
EnvelopeDecides(r, env) == env.visibility = None => r.visibility \in Visibilities

InternalStaysInternal(r, env) ==
  r.visibility = "internal_only" => Or(env.visibility, r.visibility) # "customer_facing"

NoteIsInternal(e) == e.note => e.visibility = "internal_only"

(* The event of a record: key and reference are derived from its id. *)
TypedEvent(r, env, type, reason) ==
  [type |-> type, actor |-> Or(env.actor, r.actor), visibility |-> Or(env.visibility, r.visibility),
   key |-> r.id, ref |-> r.id, at |-> Or(env.at, "own"), note |-> env.note, reason |-> reason,
   supersedes |-> env.supersedes, supersedesClass |-> None, backing |-> FALSE, class |-> None]

-----------------------------------------------------------------------------
(* The review-event schema. *)

EventTypes ==
  {"receipt_issued", "submission_rejected", "submission_quarantined", "classification_recorded",
   "remediation_guidance_recorded", "validation_recorded", "verification_scope_recorded",
   "verification_evidence_recorded", "verification_recorded", "customer_remediation_recorded",
   "false_positive_recorded", "customer_accepted_risk_recorded", "attestation_generated",
   "static_bundle_generated", "attestation_package_finalized", "attestation_package_exported",
   "pilot_metric_recorded", "pilot_feedback_recorded", "evidence_deleted",
   "retention_status_changed", "evidence_accessed", "key_rotation_recorded"}

PilotTypes == {"pilot_metric_recorded", "pilot_feedback_recorded"}
PackageTypes == {"attestation_package_finalized", "attestation_package_exported"}

ReviewerTypes == {"classification_recorded", "remediation_guidance_recorded",
                  "validation_recorded", "false_positive_recorded", "verification_recorded"}

RecordActorsSchema(e) ==
  /\ NoteIsInternal(e)
  /\ e.type \in ReviewerTypes => e.actor = "reviewer"
  /\ e.type = "customer_remediation_recorded" => e.actor = "customer_user"
  /\ e.type = "verification_evidence_recorded" =>
        /\ e.actor \in {"customer_user", "vendor_service"}
        /\ e.actor = "vendor_service" => e.backing

PackageActorsSchema(e) ==
  /\ e.type = "attestation_generated" => e.actor \in {"reviewer", "vendor_service"}
  /\ e.type = "static_bundle_generated" => e.actor = "vendor_service"
  /\ e.type \in PackageTypes => e.actor = "customer_user"
  /\ e.type \in PilotTypes =>
        /\ e.visibility = "internal_only" /\ e.reason = Absent
        /\ e.actor \in {"reviewer", "vendor_service"}
  /\ e.type \in {"evidence_deleted", "retention_status_changed"} => e.class # None
  /\ e.type \in {"false_positive_recorded", "customer_accepted_risk_recorded"} =>
        e.supersedesClass = None

ReviewEventSchema(e) ==
  /\ e.type \in EventTypes
  /\ e.visibility \in Visibilities
  /\ e.actor \in {"local_runner", "customer_user", "vendor_service", "reviewer"}
  /\ RecordActorsSchema(e) /\ PackageActorsSchema(e)

Built(e, guard) == IF guard /\ ReviewEventSchema(e) THEN {e} ELSE {}

-----------------------------------------------------------------------------
(* Builders of the records about a finding. *)

RecordEvent(r, env, type, reason) ==
  LET e == TypedEvent(r, env, type, reason)
  IN  Built(e, EnvelopeFits(r, env) /\ InternalStaysInternal(r, env) /\ NoteIsInternal(e))

classificationEventReason(c) ==
  <<"word", "colon", "word", "dot", "word", "colon", "word", "dot", "word", "colon">>
    \o c.rationale
    \o IF c.supersedesClass = None THEN <<"cue", "word", "word", "dot">> ELSE <<"word", "word", "dot">>

(* The envelope and the record may both name the event that is superseded. *)
SupersedesAgree(c, env) ==
  env.supersedes # None /\ c.supersedes # None => env.supersedes = c.supersedes

buildFindingClassificationEvent(c, env) ==
  IF classificationAccepted(c) /\ ClassificationSchema(c)
       /\ SupersedesAgree(c, env) /\ Derived(env.reason)
  THEN {[e EXCEPT !.supersedes = Or(env.supersedes, c.supersedes),
                  !.supersedesClass = c.supersedesClass] :
          e \in RecordEvent(c, env, "classification_recorded", classificationEventReason(c))}
  ELSE {}

buildFindingRemediationGuidanceEvent(g, c, env) ==
  IF guidanceAccepted(g, c) /\ GuidanceSchema(g) /\ GuidanceListsSchema(g)
  THEN RecordEvent(g, env, "remediation_guidance_recorded", Absent) ELSE {}

buildCustomerRemediationStatusEvent(s, env) ==
  IF statusAccepted(s) /\ StatusSchema(s)
  THEN RecordEvent(s, env, "customer_remediation_recorded", Absent) ELSE {}

falsePositiveEventReason ==
  <<"word", "word", "dot", "word", "colon", "word", "dot", "word", "word", "dot">>

buildFalsePositiveEvent(f, c, env) ==
  IF falsePositiveAccepted(f, c) /\ FalsePositiveSchema(f) /\ FalsePositiveListsSchema(f)
  THEN RecordEvent(f, env, "false_positive_recorded", falsePositiveEventReason) ELSE {}

(* Either sentence of acceptedRiskEventReason. *)
acceptedRiskEventReason == <<"word", "dot", "word", "colon", "word", "word", "dot">>

buildCustomerAcceptedRiskEvent(a, c, guidance, path, scripts, env) ==
  IF acceptedRiskAccepted(a, c, guidance, path, scripts)
       /\ AcceptedRiskSchema(a) /\ AcceptedRiskListsSchema(a)
  THEN RecordEvent(a, env, "customer_accepted_risk_recorded", acceptedRiskEventReason) ELSE {}

buildFindingValidationPathEvent(p, classification, guidance, scripts, env) ==
  IF validationPathAccepted(p, classification, guidance, scripts)
       /\ PathSchema(p) /\ PathOptionsSchema(p)
  THEN RecordEvent(p, env, "validation_recorded", Absent) ELSE {}

validationScriptEventReason ==
  <<"word", "colon", "word", "bang", "word", "colon", "word", "dot">>

buildReviewerValidationScriptEvent(s, p, taken, env) ==
  IF validationScriptAccepted(s, p, taken) /\ ScriptSchema(s)
  THEN RecordEvent(s, env, "validation_recorded", validationScriptEventReason) ELSE {}

-----------------------------------------------------------------------------
(* Builders of the verification pass.  Their events are dated as their     *)
(* records are.                                                            *)

verificationPassScopeEventReason ==
  <<"word", "dot", "word", "colon", "word", "dot", "word", "colon", "word", "dot", "word", "dot">>

buildVerificationPassScopeEvent(s, env) ==
  IF s.accepted /\ Derived(env.reason) /\ Derived(env.at)
  THEN {[e EXCEPT !.backing = s.backing] :
          e \in RecordEvent(s, env, "verification_scope_recorded", verificationPassScopeEventReason)}
  ELSE {}

(* The backing is on the event before the schema asks for it. *)
PassEvent(r, env, type, reason) ==
  LET e == [TypedEvent(r, env, type, reason) EXCEPT !.backing = r.backing, !.class = Retained]
  IN  Built(e, /\ r.accepted /\ EnvelopeFits(r, env)
               /\ Derived(env.at) /\ InternalStaysInternal(r, env) /\ NoteIsInternal(e))

buildVerificationEvidenceEvent(r, env) ==
  PassEvent(r, env, "verification_evidence_recorded",
            <<"word", "dot", "word", "colon", "word", "dot">>)

(* The status is spelled in the reason, "not_verified" with its underscore. *)
DecisionReason(status) ==
  <<"word", "dot", "word", "colon">>
    \o IF status = "not_verified" THEN <<"cue", "join", "closed", "dot">> ELSE <<"word", "dot">>

buildVerificationDecisionEvent(r, env) ==
  PassEvent(r, env, "verification_recorded", DecisionReason(r.status))

-----------------------------------------------------------------------------
(* Builders of the attestation package.  epic5ReviewEvent fixes the time   *)
(* and the visibility and never copies a note.                             *)

epic5ReviewEvent(r, env, type, visibility, reason) ==
  LET e == [TypedEvent(r, env, type, reason) EXCEPT !.visibility = visibility, !.at = "own",
                                                    !.note = FALSE, !.class = Retained]
  IN  Built(e, EnvelopeFits(r, env) /\ Derived(env.at) /\ env.visibility \in {None, visibility})

Sentence == <<"word", "word", "word", "dot">>

(* What a package record says of itself. *)
Authored(id, actor) == [id |-> id, actor |-> actor, visibility |-> None]

buildAttestationGeneratedEvent(a, w, env) ==
  IF attestationAccepted(a, w)
  THEN epic5ReviewEvent(Authored(a.id, a.actor), env, "attestation_generated", "customer_facing",
                        Sentence)
  ELSE {}

(* The manifest names no actor: any vendor service may be given.  The      *)
(* envelope's event type is not looked at.                                 *)
buildStaticBundleGeneratedEvent(m, env) ==
  IF /\ ManifestSchema(m) /\ m.state = "generated" /\ manifestAccepted(m)
     /\ Or(env.actor, "vendor_service") = "vendor_service"
  THEN epic5ReviewEvent(Authored(m.id, "vendor_service"), [env EXCEPT !.type = None],
                        "static_bundle_generated", "customer_facing", Sentence)
  ELSE {}

(* C4-29: a note is refused rather than dropped. *)
buildFinalizationEvent(f, w, env, type) ==
  IF finalizationAccepted(f, w) /\ ~env.note /\ (type = "attestation_package_exported" => f.exported)
  THEN epic5ReviewEvent(Authored(f.finalized, f.actor), env, type, "customer_facing", Sentence)
  ELSE {}

buildPilotMetricEvent(p, env) ==
  IF pilotMetricAccepted(p)
  THEN epic5ReviewEvent(p, env, "pilot_metric_recorded", "internal_only", Absent) ELSE {}

buildPilotFeedbackEvent(p, env) ==
  IF pilotFeedbackAccepted(p)
  THEN epic5ReviewEvent(p, env, "pilot_feedback_recorded", "internal_only", Absent) ELSE {}

-----------------------------------------------------------------------------
(* Submission outcomes.  An identity row is <<type, value>>; a value is    *)
(* the outcome's own ("own"), another of the right grammar, or none.       *)

NextPaths ==
  [received_with_receipt |-> {"verify_receipt"},
   rejected_no_receipt |-> {"retry", "contact_support"},
   quarantined_no_receipt |-> {"quarantine_support", "contact_support"}]

IsFailure(o) == o.state \in {"rejected_no_receipt", "quarantined_no_receipt"}

IdentityTypes == {"manifest_id", "evidence_bundle_id", "review_request_id",
                  "bundle_instance_id", "submission_attempt_id"}

submissionIdentityValueMatchesGrammar(row) == row[2] \in {"own", "other"}

(* At most one row of a type, and the two that repeat the outcome. *)
IdentitiesHold(o) ==
  /\ \A x, y \in o.identities : x[1] = y[1] => x = y
  /\ {<<"bundle_instance_id", "own">>, <<"submission_attempt_id", "own">>} \subseteq o.identities

ReceiptAndCodesFit(o) ==
  /\ o.state = "received_with_receipt" => o.receipt /\ ~o.codes
  /\ IsFailure(o) => ~o.receipt /\ o.codes
  /\ o.state \in DOMAIN NextPaths => o.next \in NextPaths[o.state]

rejectionForSubmissionIdentities(o) ==
  ~((\A row \in o.identities : submissionIdentityValueMatchesGrammar(row)) /\ IdentitiesHold(o))

(* rejectionForSubmissionOutcome. *)
outcomeAccepted(o) ==
  /\ ~rejectionForSubmissionIdentities(o)
  /\ ReceiptAndCodesFit(o)
  /\ IsFailure(o) => ~textHasForbiddenClassificationContent(o.summary)

(* validateSubmissionOutcomeSemantics. *)
gateOutcomeAccepted(o) ==
  /\ ReceiptAndCodesFit(o)
  /\ IsFailure(o) => ~forbiddenPublicContentReason(o.summary)
  /\ IdentitiesHold(o)

SubmissionOutcomeSchema(o) ==
  /\ o.state \in DOMAIN NextPaths
  /\ o.next \in NextPaths[o.state]
  /\ IF IsFailure(o) THEN o.codes /\ ~o.receipt ELSE o.receipt /\ ~o.codes

OutcomeFieldsSchema(o) ==
  o.identities # {} /\ (\A row \in o.identities : row[1] \in IdentityTypes) /\ o.summary # Absent

(* The envelope's actor and visibility are taken as they are. *)
buildSubmissionOutcomeEvent(o, env) ==
  LET type == IF o.state = "rejected_no_receipt" THEN "submission_rejected"
              ELSE "submission_quarantined"
      own == [id |-> o.id, actor |-> None, visibility |-> None]
  IN  Built([TypedEvent(own, env, type, o.summary) EXCEPT !.note = FALSE, !.supersedes = None],
            /\ outcomeAccepted(o) /\ SubmissionOutcomeSchema(o) /\ OutcomeFieldsSchema(o)
            /\ IsFailure(o)
            /\ Derived(env.type) /\ Derived(env.refs) /\ Derived(env.key))

-----------------------------------------------------------------------------
(* What an append asks of an event. *)

(* "Customer rationale: ..." or "Customer sign-off: ...", not denied. *)
acceptedRiskEventReasonCarriesCustomerEvidence(t) ==
  Len(t) > 4 /\ SubSeq(t, 1, 4) = <<"word", "dot", "word", "colon">> /\ t[5] # "cue"

typedReviewEventArtifactRefsMatch(e) == e.key = e.ref

ReasonIsAppendable(e) ==
  e.reason # Absent =>
    /\ ~sourceTextForbiddenPhrase(e.reason) /\ ~sourceCodeLikeTextReason(e.reason)
    /\ ~claimSafeForbiddenPhrase(e.reason)
    /\ e.visibility = "customer_facing" => ~customerProseForbidden(e.reason)

PassEventIsAppendable(e) ==
  /\ e.type = "verification_scope_recorded" =>
        /\ e.actor \in {"customer_user", "reviewer", "vendor_service"}
        /\ e.actor # "customer_user" => e.backing
  /\ e.type = "verification_evidence_recorded" =>
        /\ e.actor \in {"customer_user", "vendor_service"}
        /\ e.actor = "vendor_service" => e.backing
  /\ e.type \in {"verification_scope_recorded", "verification_evidence_recorded",
                 "verification_recorded"} =>
        ~verificationArtifactTextHasForbiddenContent(e.reason)

PackageEventIsAppendable(e) ==
  /\ PackageActorsSchema(e)
  /\ e.type \in {"attestation_generated", "static_bundle_generated"} \cup PackageTypes =>
        e.visibility = "customer_facing"

(* rejectionForReviewEventSemantics. *)
eventAccepted(e) ==
  /\ NoteIsInternal(e)
  /\ ReasonIsAppendable(e)
  /\ e.type = "customer_remediation_recorded" => e.actor = "customer_user"
  /\ e.type \in ReviewerTypes => e.actor = "reviewer"
  /\ e.type = "customer_accepted_risk_recorded" =>
        /\ e.actor \in {"customer_user", "reviewer", "vendor_service"}
        /\ acceptedRiskEventReasonCarriesCustomerEvidence(e.reason)
  /\ PassEventIsAppendable(e)
  /\ PackageEventIsAppendable(e)
  /\ typedReviewEventArtifactRefsMatch(e)
=============================================================================
