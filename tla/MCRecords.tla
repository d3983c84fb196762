----------------------------- MODULE MCRecords -----------------------------
(***************************************************************************)
(* The judges of ClaimSafety, FindingRecords, AttestationPackage and       *)
(* EventBuilders on bounded inputs.  A behaviour drafts one document: it   *)
(* types a text token by token, or starts from an honest record of one     *)
(* kind (or an honest package, MCAttestation) and edits its fields, and    *)
(* the fields of the records it is bound to, one at a time; or it is a     *)
(* verification pass (MCVerification), or a transparency proof of          *)
(* MerkleTree.  Both judges are asked in every state.                      *)
(***************************************************************************)
EXTENDS MCAttestation, MCVerification, MerkleTree

CONSTANTS MaxTyped,    \* length of a typed text over all tokens
          MaxClosure,  \* length of a typed text over the closure tokens
          MaxEdits,    \* fields that differ from the honest record
          MaxHeads     \* reviews under one checkpoint, and events of one chain

(* A checkpoint is small beside the 2^53 leaves that the 53 siblings of a  *)
(* path allow for.                                                         *)
ASSUME HeadsAssumption == MaxHeads \in Nat /\ MaxHeads <= 2147483647

VARIABLES kind, rec, bound, env, edits

recordVars == <<kind, rec, bound, env, edits>>

vars == <<recordVars, passVars>>

ClosureTokens ==
  {"cue", "closed", "isClosed", "done", "concluded", "retest", "soft", "colon", "strong",
   "dot", "bang", "join"}

Plain == <<"word", "word", "word">>

(* Texts a field may hold: absent, thin, plain, one long word, and plain   *)
(* with one thing wrong.                                                   *)
Texts ==
  {Absent, <<"word">>, Plain, <<"long">>,
   <<"cue", "closed", "bang", "word", "isClosed">>}
     \cup {Plain \o w : w \in {<<"source">>, <<"fence">>, <<"pii">>, <<"hidden">>, <<"pilot">>,
                               <<"isClosed">>, <<"concluded">>, <<"retest">>, <<"assures">>,
                               <<"cue", "isClosed">>, <<"phraseA", "phraseB">>,
                               <<"phraseA", "join", "phraseB">>}}

HonestRef == EvidenceRef("retained1", Retained, TRUE, "available_reference", Retained, FALSE)

Refs ==
  {HonestRef,
   EvidenceRef("scanner_finding_set", Retained, TRUE, "available_reference", Retained, FALSE),
   EvidenceRef("source1", Retained, TRUE, "available_reference",
               "transient_source_derived", FALSE),
   EvidenceRef("source2", Retained, TRUE, "available_reference",
               "customer_opt_in_retained_source", FALSE),
   EvidenceRef("gone1", "deleted_under_policy", FALSE, "deleted",
               "transient_source_derived", TRUE),
   EvidenceRef("gone1", "deleted_under_policy", FALSE, "deleted",
               "transient_source_derived", FALSE),
   EvidenceRef("retained1", "unresolved_reference", FALSE, "unresolved_reference",
               Retained, FALSE)}

RefSets == {{r} : r \in Refs} \cup {{HonestRef, r} : r \in Refs}

Bases == {{b} : b \in CLASSIFICATION_INSUFFICIENT_CONFIRMED_BASIS
                    \cup {Retained, "finding_context_snippet",
                          "extended_approved_source_context"}}

HonestClass ==
  [review |-> "r1", id |-> "c1", draft |-> "d1", actor |-> "reviewer",
   classification |-> "confirmed", basis |-> {Retained}, refs |-> {HonestRef},
   state |-> Retained, rationale |-> Plain, criteria |-> Plain, defensible |-> Absent,
   pathSummary |-> Absent, pathRef |-> FALSE, limits |-> Plain, extra |-> FALSE,
   class |-> Retained, visibility |-> "customer_facing",
   supersedes |-> None, supersedesClass |-> None]

(* A record whose own judge is not asked here. *)
Judged(actor, visibility) ==
  [id |-> "j1", actor |-> actor, visibility |-> visibility, accepted |-> TRUE,
   backing |-> TRUE, status |-> "verification_complete", exported |-> TRUE]

ContextOf(c) == [classification |-> c.classification, criteria |-> c.criteria,
                 basis |-> c.basis, state |-> c.state]

Honest ==
  [classification |-> HonestClass,
   guidance |->
     [review |-> "r1", id |-> "g1", classification |-> "c1", draft |-> "d1",
      actor |-> "reviewer", ctx |-> ContextOf(HonestClass), refs |-> {HonestRef},
      state |-> Retained, evidence |-> {"retained1"},
      status |-> "actionable_guidance_provided", exploitability |-> Plain,
      suggested |-> Plain, steps |-> Plain, insufficient |-> Plain, next |-> Plain,
      pathSummary |-> Absent, pathRef |-> FALSE, limits |-> Plain,
      class |-> Retained, visibility |-> "customer_facing"],
   status |->
     [id |-> "st1", actor |-> "customer_user", finding |-> "d1", classification |-> "c1",
      value |-> "planned", policy |-> None, class |-> Retained,
      visibility |-> "customer_facing", extra |-> FALSE, due |-> "valid", owner |-> Plain, target |-> Plain, notes |-> Plain],
   falsePositive |->
     [review |-> "r1", id |-> "f1", classification |-> "c1", draft |-> "d1",
      actor |-> "reviewer", refs |-> {HonestRef}, state |-> Retained, basis |-> {Retained},
      rationale |-> Plain, limits |-> Plain, policy |-> None, class |-> Retained,
      visibility |-> "internal_only"],
   path |->
     [review |-> "r1", id |-> "p1", classification |-> "c1", draft |-> "d1",
      guidance |-> "g1", actor |-> "reviewer", refs |-> {HonestRef}, state |-> Retained,
      type |-> "manual_steps", scripts |-> {}, collect |-> FALSE, steps |-> Plain,
      expected |-> Plain, limits |-> Plain, target |-> Absent, authorization |-> Absent,
      method |-> Absent, safety |-> Absent, attachment |-> Plain,
      verifiability |-> "verifiable_within_included_pass", class |-> Retained,
      visibility |-> "customer_facing"],
   script |->
     [review |-> "r1", id |-> "s1", path |-> "p1", classification |-> "c1",
      actor |-> "reviewer", package |-> "included_base_package", slot |-> 1,
      priced |-> FALSE, text |-> Plain, valid |-> TRUE, class |-> Retained,
      visibility |-> "internal_only"],
   acceptedRisk |->
     [review |-> "r1", id |-> "a1", classification |-> "c1", draft |-> "d1",
      actor |-> "customer_user", policy |-> None, class |-> Retained,
      visibility |-> "customer_facing", refs |-> {HonestRef}, state |-> Retained,
      basis |-> {Retained}, remediation |-> None, path |-> None, reviewBy |-> "valid",
      rationale |-> Plain, signoff |-> Absent, signoffRef |-> FALSE, owner |-> Plain,
      scope |-> Plain, limits |-> Plain, extra |-> FALSE],
   outcome |->
     [id |-> "o1", state |-> "rejected_no_receipt", next |-> "retry",
      receipt |-> FALSE, codes |-> TRUE, summary |-> Plain,
      identities |-> {<<"bundle_instance_id", "own">>, <<"submission_attempt_id", "own">>}],
   passScope |-> Judged("customer_user", "customer_facing"),
   passEvidence |-> Judged("vendor_service", "internal_only"),
   passDecision |-> Judged("reviewer", "customer_facing"),
   attestation |-> HonestAttestation, mapping |-> HonestMapping,
   staticBundle |-> HonestManifest, portal |-> HonestPortal,
   finalization |-> HonestFinalization,
   pilotMetric |-> HonestMetric, pilotFeedback |-> HonestFeedback]

PackageKinds == {"attestation", "mapping", "staticBundle", "portal", "finalization",
                 "pilotMetric", "pilotFeedback"}

Kinds == DOMAIN Honest \ PackageKinds

(* What a record is bound to: the context of a package's record, and of    *)
(* any other its classification.                                           *)
HonestBound(k) ==
  CASE k \in {"attestation", "mapping"} -> HonestContext
    [] k = "finalization" -> HonestPackage
    [] OTHER -> HonestClass

HonestScript == Honest.script
ScriptPath == [Honest.path EXCEPT !.type = "customer_run_script", !.scripts = {"s1"},
                                  !.attachment = Absent]

JudgedKinds == {"passScope", "passEvidence", "passDecision"}

(* The envelope an honest caller sends: only the submission builder needs  *)
(* an actor and a visibility.                                              *)
HonestEnvelope(k) ==
  [type |-> None, refs |-> None, key |-> None, at |-> None, reason |-> None,
   actor |-> IF k = "outcome" THEN "vendor_service" ELSE None,
   visibility |-> IF k = "outcome" THEN "customer_facing" ELSE None,
   note |-> FALSE, supersedes |-> None]

EnvelopeAlternatives(f) ==
  CASE f \in {"type", "refs", "key", "at", "reason"} -> {None, "own", "other"}
    [] f = "actor" -> {None, "reviewer", "customer_user", "vendor_service", "local_runner"}
    [] f = "visibility" -> {None} \cup Visibilities
    [] f = "note" -> BOOLEAN
    [] f = "supersedes" -> {None, "e1", "e2"}

(* The actors a judge accepts; a customer's selection or evidence recorded *)
(* by anybody else is backed by a customer reference.                      *)
JudgedActors ==
  [passScope |-> {"customer_user", "reviewer", "vendor_service"},
   passEvidence |-> {"customer_user", "vendor_service"},
   passDecision |-> {"reviewer"}]

BackedUnlessCustomer(r) == r.actor # "customer_user" => r.backing

(* What each field may be edited to, by its name. *)
Alternatives(k, f) ==
  CASE f = "actor" /\ k \in JudgedKinds -> JudgedActors[k]
    [] f = "actor" /\ k \notin JudgedKinds -> {"reviewer", "customer_user", "vendor_service", "local_runner"}
    [] f \in {"review", "id", "draft", "finding", "guidance", "remediation"} ->
         {Honest[k][f], None, "g1", "other"}
    [] f = "classification" /\ k = "classification" ->
         {"confirmed", "likely", "inconclusive", "requires_customer_side_validation"}
    [] f = "classification" /\ k # "classification" -> {"c1", None, "other"}
    [] f = "path" -> {"p1", None, "other"}
    [] f = "basis" -> Bases \cup {{}}
    [] f = "refs" -> RefSets \cup {{}}
    [] f = "state" /\ k = "outcome" -> DOMAIN NextPaths \cup {"other"}
    [] f = "state" /\ k # "outcome" -> ReferenceStates \cup {"other"}
    [] f = "next" /\ k = "outcome" -> UNION {NextPaths[x] : x \in DOMAIN NextPaths}
    [] f = "identities" ->
         {{<<"bundle_instance_id", b>>, <<"submission_attempt_id", "own">>} \cup more :
            b \in {"own", "other", "malformed"},
            more \in {{}, {<<"manifest_id", "other">>}, {<<"manifest_id", "malformed">>},
                     {<<"submission_attempt_id", "other">>}, {<<"other", "other">>}}}
    [] f = "status" /\ k \in JudgedKinds ->
         {"verification_complete", "verification_pending", "not_verified"}
    [] f = "class" -> {Retained, "transient_source_derived"}
    [] f = "visibility" -> Visibilities \cup {"other"}
    [] f = "policy" -> {None, "complete", "partial"}
    [] f = "verifiability" -> {"verifiable_within_included_pass",
                               "additional_agreement_required", "other"}
    [] f = "value" -> {"planned", "deferred", "other"}
    [] f \in {"supersedes", "supersedesClass"} -> {None, "e1", "e2"}
    [] f = "ctx" -> {ContextOf([HonestClass EXCEPT !.classification = v, !.state = s]) :
                       v \in {"confirmed", "inconclusive"}, s \in ReferenceStates}
    [] f = "evidence" -> {{"retained1"}, {"gone1"}, {}}
    [] f = "status" -> {"actionable_guidance_provided", "limited_guidance_requires_validation",
                        "guidance_unavailable_from_submitted_evidence"}
    [] f \in {"extra", "pathRef", "signoffRef", "collect", "priced", "valid", "accepted",
               "backing", "exported", "receipt", "codes"} -> BOOLEAN
    [] f \in {"due", "reviewBy"} -> {"valid", "invalid", None}
    [] f = "type" -> {"manual_steps", "customer_run_script", "remote_dynamic_testing"}
    [] f = "scripts" -> {{}, {"s1"}}
    [] f = "package" -> {"included_base_package", "additional_script_candidate_pricing_tbd"}
    [] f = "slot" -> 0 .. 4
    [] OTHER -> Texts

-----------------------------------------------------------------------------
(* The proof that review r is among the n heads of a checkpoint, and the   *)
(* events that hash to the head of a chain.                                *)

HeadsOf(n) == [r \in 1 .. n |-> <<"head", r>>]

ProofOf(n, r) ==
  [size |-> n, review |-> r, hash |-> HeadsOf(n)[r], index |-> inclusionProof(r, HeadsOf(n)).leaf_index,
   width |-> n, siblings |-> inclusionProof(r, HeadsOf(n)).siblings]

ChainEvents(n) ==
  [i \in 1 .. n |-> [review |-> "r1", sequence |-> i, id |-> <<"event", i>>, honest |-> TRUE]]

ChainOf(n) == [size |-> n, events |-> ChainEvents(n)]

ProofKinds == {"proof", "chain"}

HonestProofs ==
  (UNION {{<<"proof", ProofOf(n, r)>> : r \in 1 .. n} : n \in 1 .. MaxHeads})
    \cup {<<"chain", ChainOf(n)>> : n \in 1 .. MaxHeads}

Without(s, i) == SubSeq(s, 1, i - 1) \o SubSeq(s, i + 1, Len(s))

SwapEvents(s, i) == [s EXCEPT ![i] = s[i + 1], ![i + 1] = s[i]]

SiblingEdits(s) ==
  {Without(s, i) : i \in DOMAIN s}
    \cup {[s EXCEPT ![i].position = IF @ = "left" THEN "right" ELSE "left"] : i \in DOMAIN s}
    \cup {[s EXCEPT ![i].hash = Leaf(rec.review, rec.hash)] : i \in DOMAIN s}
    \cup {Append(s, [position |-> "left", hash |-> Leaf(rec.review, rec.hash)])}

(* An event's id is the hash of its content: a changed event keeps an id   *)
(* that is no longer its own, or gets another one.                         *)
Changed(e) == {[e EXCEPT !.honest = FALSE], [e EXCEPT !.id = <<"event", 0>>]}

EventEdits(s) ==
  {Without(s, i) : i \in DOMAIN s}
    \cup {SwapEvents(s, i) : i \in 1 .. Len(s) - 1}
    \cup UNION {{[s EXCEPT ![i] = e] :
                   e \in Changed(s[i]) \cup Changed([s[i] EXCEPT !.review = "r2"])
                          \cup Changed([s[i] EXCEPT !.sequence = 2])
                          \cup Changed([s[i] EXCEPT !.sequence = 0])} : i \in DOMAIN s}

ProofAlternatives(f) ==
  CASE f = "review" -> 1 .. rec.size + 1
    [] f = "hash" -> {<<"head", r>> : r \in 1 .. rec.size + 1}
    [] f = "index" -> 0 .. rec.size
    [] f = "width" -> 1 .. rec.size + 1
    [] f = "siblings" -> SiblingEdits(rec.siblings)
    [] f = "events" -> EventEdits(rec.events)
    [] f = "size" -> {}

EditProof ==
  /\ kind \in ProofKinds /\ edits < MaxEdits
  /\ \E f \in DOMAIN rec : \E v \in ProofAlternatives(f) \ {rec[f]} :
        rec' = [rec EXCEPT ![f] = v]
  /\ edits' = edits + 1
  /\ UNCHANGED <<kind, bound, env>>

-----------------------------------------------------------------------------
RecordInit ==
  /\ \/ kind \in DOMAIN Honest /\ rec = Honest[kind]
     \/ kind = "text" /\ rec = <<>>
     \/ \E p \in HonestProofs : kind = p[1] /\ rec = p[2]
  /\ bound = HonestBound(kind)
  /\ env = HonestEnvelope(kind)
  /\ edits = 0

Type(w) ==
  /\ kind = "text"
  /\ \/ Len(rec) < MaxTyped
     \/ Len(rec) < MaxClosure /\ \A i \in DOMAIN rec : rec[i] \in ClosureTokens
                              /\ w \in ClosureTokens
  /\ rec' = Append(rec, w)
  /\ UNCHANGED <<kind, bound, env, edits>>

Edit ==
  /\ kind \in Kinds /\ edits < MaxEdits
  /\ \E f \in DOMAIN rec : \E v \in Alternatives(kind, f) \ {rec[f]} :
        rec' = [rec EXCEPT ![f] = v]
  /\ kind \in {"passScope", "passEvidence"} => BackedUnlessCustomer(rec')
  /\ edits' = edits + 1
  /\ UNCHANGED <<kind, bound, env>>

(* The record's classification is another one than the author looked at. *)
EditClassification ==
  /\ kind \in {"guidance", "falsePositive", "path", "acceptedRisk"} /\ edits < MaxEdits
  /\ \E f \in {"review", "id", "classification", "basis", "refs", "state", "criteria"} :
       \E v \in Alternatives("classification", f) \ {bound[f]} : bound' = [bound EXCEPT ![f] = v]
  /\ edits' = edits + 1
  /\ UNCHANGED <<kind, rec, env>>

PackageRecordEdits ==
  CASE kind = "attestation" -> AttestationEdits(rec)
    [] kind = "mapping" -> MappingEdits(rec)
    [] kind = "staticBundle" -> ManifestEdits(rec)
    [] kind = "portal" -> PortalEdits(rec)
    [] kind = "finalization" -> FinalizationEdits(rec)
    [] kind \in {"pilotMetric", "pilotFeedback"} -> PilotEdits(rec)

EditPackageRecord ==
  /\ kind \in PackageKinds /\ edits < MaxEdits
  /\ rec' \in PackageRecordEdits \ {rec}
  /\ edits' = edits + 1
  /\ UNCHANGED <<kind, bound, env>>

(* A package is put together from other records than the author meant. *)
EditContext ==
  /\ kind \in {"attestation", "finalization"} /\ edits < MaxEdits
  /\ \E f \in DOMAIN bound : \E v \in ContextEdits(bound, f) \ {bound[f]} :
        bound' = [bound EXCEPT ![f] = v]
  /\ edits' = edits + 1
  /\ UNCHANGED <<kind, rec, env>>

EditEnvelope ==
  /\ kind \in DOMAIN Honest /\ edits < MaxEdits
  /\ \E f \in DOMAIN env : \E v \in EnvelopeAlternatives(f) \ {env[f]} :
        env' = [env EXCEPT ![f] = v]
  /\ edits' = edits + 1
  /\ UNCHANGED <<kind, rec, bound>>

RecordNext ==
  \/ \E w \in Tokens : Type(w)
  \/ Edit \/ EditClassification \/ EditPackageRecord \/ EditContext \/ EditEnvelope \/ EditProof

Nothing == "none"

Init ==
  \/ RecordInit /\ passKind = Nothing /\ changes = 0
       /\ doc = Nothing /\ world = Nothing /\ view = Nothing
  \/ PassInit /\ kind = Nothing /\ edits = 0
       /\ rec = <<>> /\ bound = HonestClass /\ env = HonestEnvelope(Nothing)

Next == (RecordNext /\ UNCHANGED passVars) \/ (PassNext /\ UNCHANGED recordVars)

Spec == Init /\ [][Next]_vars

-----------------------------------------------------------------------------
(* The verdicts on the document. *)

RuntimeAccepts ==
  CASE kind = "classification" -> classificationAccepted(rec) /\ ClassificationSchema(rec)
    [] kind = "guidance" ->
         guidanceAccepted(rec, bound) /\ GuidanceSchema(rec) /\ GuidanceListsSchema(rec)
    [] kind = "status" -> statusAccepted(rec) /\ StatusSchema(rec)
    [] kind = "falsePositive" ->
         falsePositiveAccepted(rec, bound) /\ FalsePositiveSchema(rec) /\ FalsePositiveListsSchema(rec)
    [] kind = "path" -> /\ validationPathAccepted(rec, {bound}, {}, {HonestScript})
                        /\ PathSchema(rec) /\ PathOptionsSchema(rec)
    [] kind = "script" -> validationScriptAccepted(rec, ScriptPath, {2}) /\ ScriptSchema(rec)
    [] kind = "acceptedRisk" ->
         /\ acceptedRiskAccepted(rec, bound, {Honest.guidance}, {Honest.path}, {HonestScript})
         /\ AcceptedRiskSchema(rec) /\ AcceptedRiskListsSchema(rec)
    [] kind = "outcome" ->
         outcomeAccepted(rec) /\ SubmissionOutcomeSchema(rec) /\ OutcomeFieldsSchema(rec)
    [] kind = "attestation" -> attestationAccepted(rec, bound)
    [] kind = "mapping" -> mappingAccepted(rec, HonestAttestation)
    [] kind = "staticBundle" -> ManifestSchema(rec) /\ manifestAccepted(rec)
    [] kind = "portal" -> PortalSchema(rec) /\ portalAccepted(rec)
    [] kind = "finalization" -> finalizationAccepted(rec, bound)
    [] kind = "pilotMetric" -> pilotMetricAccepted(rec)
    [] kind = "pilotFeedback" -> pilotFeedbackAccepted(rec)

GateAccepts ==
  CASE kind = "classification" -> gateClassificationAccepted(rec)
    [] kind = "guidance" -> gateGuidanceAccepted(rec)
    [] kind = "status" -> gateStatusAccepted(rec)
    [] kind = "falsePositive" -> gateFalsePositiveAccepted(rec, bound)
    [] kind = "path" -> gateValidationPathAccepted(rec)
    [] kind = "script" -> gateValidationScriptAccepted(rec) /\ gateScriptPackageAccepted(rec, {2})
    [] kind = "acceptedRisk" -> gateAcceptedRiskAccepted(rec, bound)
    [] kind = "outcome" -> gateOutcomeAccepted(rec)
    [] kind = "attestation" ->
         gateAttestationAccepted(rec) /\ \A m \in bound.mappings : m.id = rec.mapping => gateMappingAccepted(m)
    [] kind = "mapping" -> gateMappingAccepted(rec)
    [] kind = "staticBundle" -> gateManifestAccepted(rec)
    [] kind = "portal" -> gatePortalAccepted(rec)
    [] kind = "finalization" ->
         /\ gateFinalizationAccepted(rec) /\ gatePackageChainHolds(rec, bound)
         /\ gateManifestAccepted(bound.generated) /\ gateManifestAccepted(bound.finalized)
         /\ gatePortalAccepted(bound.portal)
    [] kind = "pilotMetric" -> gatePilotMetricAccepted(rec)
    [] kind = "pilotFeedback" -> gatePilotFeedbackAccepted(rec)

(* The event the record's builder makes of it, if any. *)
BuiltEvents ==
  CASE kind = "classification" -> buildFindingClassificationEvent(rec, env)
    [] kind = "guidance" -> buildFindingRemediationGuidanceEvent(rec, bound, env)
    [] kind = "status" -> buildCustomerRemediationStatusEvent(rec, env)
    [] kind = "falsePositive" -> buildFalsePositiveEvent(rec, bound, env)
    [] kind = "path" -> buildFindingValidationPathEvent(rec, {bound}, {}, {HonestScript}, env)
    [] kind = "script" -> buildReviewerValidationScriptEvent(rec, ScriptPath, {2}, env)
    [] kind = "acceptedRisk" ->
         buildCustomerAcceptedRiskEvent(rec, bound, {Honest.guidance}, {Honest.path},
                                        {HonestScript}, env)
    [] kind = "outcome" -> buildSubmissionOutcomeEvent(rec, env)
    [] kind = "passScope" -> buildVerificationPassScopeEvent(rec, env)
    [] kind = "passEvidence" -> buildVerificationEvidenceEvent(rec, env)
    [] kind = "passDecision" -> buildVerificationDecisionEvent(rec, env)
    [] kind = "attestation" -> buildAttestationGeneratedEvent(rec, bound, env)
    [] kind = "staticBundle" -> buildStaticBundleGeneratedEvent(rec, env)
    [] kind = "finalization" ->
         UNION {buildFinalizationEvent(rec, bound, env, type) : type \in PackageTypes}
    [] kind = "pilotMetric" -> buildPilotMetricEvent(rec, env)
    [] kind = "pilotFeedback" -> buildPilotFeedbackEvent(rec, env)
    [] OTHER -> {}

(* The known disagreements: C7-31, retained source called a snippet; a     *)
(* closure claim that only a negation in another clause excuses; a closure *)
(* claim that only the gate's pattern has; and C7-12 and C7-35, which      *)
(* epic-5-semantics.ts does not have.                                      *)
SnippetDrift == "basis" \in DOMAIN rec /\ "finding_context_snippet" \in rec.basis

ExcusedElsewhere(t) ==
  /\ \E i \in DOMAIN t : t[i] \in PositiveClaims /\ ~ExcusedInClause(t, i)
  /\ ExcusedAnywhere(t)

OnlyGateKnows(t) == \E i \in DOMAIN t : t[i] \in GateOnlyClaims /\ ~ExcusedInClause(t, i)

MaskedClosure == kind = "acceptedRisk" /\ \E t \in AcceptedRiskTexts(rec) : ExcusedElsewhere(t)

ClosureDrift == kind = "acceptedRisk" /\ \E t \in AcceptedRiskTexts(rec) : OnlyGateKnows(t)

PackageDrift ==
  CASE kind = "staticBundle" -> ~PathsHaveTheirRoles(rec) \/ ~GeneratedSupersedesNothing(rec)
    [] kind = "portal" -> ~NavigationIsInOrder(rec)
    [] kind = "finalization" ->
         ~PathsHaveTheirRoles(bound.generated) \/ ~NavigationIsInOrder(bound.portal)
    [] OTHER -> FALSE

KnownDisagreement == SnippetDrift \/ MaskedClosure \/ ClosureDrift \/ PackageDrift

(* Every text the gate's scanners refuse the runtime's scanners refuse:    *)
(* claim-safety.ts is at least as strict as its copy in protocol-utils.mjs,*)
(* and the accepted-risk scanner of the control plane as the gate's, apart *)
(* from the two known disagreements.                                       *)
RuntimeScansCoverGate ==
  kind = "text" =>
    /\ forbiddenPublicContentReason(rec) => textHasForbiddenClassificationContent(rec)
    /\ collectRemediationTextViolations(rec, TRUE) =>
         textHasForbiddenClassificationOrSourceCodeContent(rec)
    /\ gateScopeTextHasForbiddenContent(rec) => verificationArtifactTextHasForbiddenContent(rec)
    /\ ~isMeaningfulRemediationText(rec) => ~isMeaningfulClassificationText(rec)
    /\ acceptedRiskTextHasPositiveClosureClaim(rec) =>
         \/ acceptedRiskTextHasForbiddenContent(rec)
         \/ ExcusedElsewhere(rec) \/ OnlyGateKnows(rec)

(* An honest record is accepted, and what the control plane's              *)
(* rejectionFor... functions accept, the gate's validate...Semantics       *)
(* accept too, apart from the known disagreements, whatever text it holds: *)
(* nothing is recorded that the repository's own gate would refuse, and a  *)
(* package is finalized only if its manifests, portal and lineage pass.    *)
RecordedPassesGate ==
  /\ RuntimeScansCoverGate
  /\ kind \in DOMAIN Honest \ JudgedKinds /\ RuntimeAccepts /\ ~KnownDisagreement => GateAccepts
  /\ kind \in DOMAIN Honest \ JudgedKinds /\ edits = 0 => RuntimeAccepts

(* Reasons a builder spells that the append refuses: a decision's status   *)
(* not_verified, and prose copied from a record that was scanned less.     *)
LooseProse(t) == sourceCodeLikeTextReason(t) \/ Has(t, "pilot") \/ Has(t, "join")

KnownRefusal ==
  \/ kind = "passDecision" /\ rec.status = "not_verified"
  \/ kind = "classification" /\ LooseProse(rec.rationale)
  \/ kind = "outcome" /\ LooseProse(rec.summary)

(* What an attestation's sections and its addenda speak of is in the       *)
(* history, in its newest version, and not later than the attestation.     *)
AttestedIsRecorded ==
  LET cited == UNION {rec.sections[s] : s \in {"findings_and_classification",
                        "remediation_and_validation", "verification_outcomes"}}
  IN  /\ \A ref \in cited : \E e \in bound.history :
           /\ e.ref = ref /\ e.at <= rec.at
           /\ \A o \in bound.history : o.ref = ref /\ o.type = e.type => o.version <= e.version
      /\ \A d \in bound.addenda : d.at <= rec.at /\ \A x \in d.findings :
           {x.classification, x.decision} \cup x.evidence \subseteq cited

(* Whatever the envelope, an event a builder makes meets the rules of the  *)
(* append (apart from the known refusals) and tells the customer nothing   *)
(* of a record kept internal; and an attestation is generated only on the  *)
(* current history of all it speaks of, whatever its caller had read.      *)
BuiltMeetsAppendRules ==
  \A e \in BuiltEvents :
    /\ eventAccepted(e) \/ KnownRefusal
    /\ kind \notin {"outcome"} \cup (PackageKinds \ {"pilotMetric", "pilotFeedback"})
         /\ rec.visibility = "internal_only" => e.visibility = "internal_only"
    /\ kind = "attestation" => AttestedIsRecorded

(* A proof that verifies proves it.  Every review of a checkpoint of any   *)
(* size has a proof that the public verifier accepts, at its own index;    *)
(* and whatever is changed in a proof or in the events of a chain, what is *)
(* still accepted is a head of the checkpoint and the chain's own events,  *)
(* which are accepted up to the limit on the events of a review.           *)
ProofsDecide ==
  /\ kind = "proof" =>
       LET verified == verifyInclusionProof([review_id |-> rec.review, head_hash |-> rec.hash],
                         [review_id |-> rec.review, leaf_index |-> rec.index,
                          tree_size |-> rec.width, siblings |-> rec.siblings],
                         computeCheckpoint(HeadsOf(rec.size)).merkle_root) IN
       /\ edits = 0 => verified
       /\ verified => /\ rec.review \in 1 .. rec.size /\ rec.hash = HeadsOf(rec.size)[rec.review]
                      /\ rec.width = rec.size => rec.index = rec.review - 1
  /\ kind = "chain" =>
       (verifyReviewChainHead(rec.events, computeReviewChainHead(ChainEvents(rec.size))) = "verified"
          <=> /\ rec.size <= MaxReviewEvents
              /\ {rec.events[i] : i \in DOMAIN rec.events}
                   = {ChainEvents(rec.size)[i] : i \in 1 .. rec.size})
=============================================================================
