--------------------------- MODULE MCVerification ---------------------------
(***************************************************************************)
(* One verification pass over two findings: d1 is answered by a follow-up  *)
(* commit, d2 by the output of a reviewer's script.  The world holds what  *)
(* is recorded; it moves on as scopes, evidence, decisions and             *)
(* classifications are corrected and artifacts deleted.  An author works   *)
(* on one document with a view of the world whose parts were read at       *)
(* different moments, and edits the document field by field.  Both judges  *)
(* are asked in every state.                                               *)
(***************************************************************************)
EXTENDS VerificationPass, TLC

CONSTANTS MaxChanges   \* edits of the document, and corrections and deletions meanwhile

VARIABLES passKind, doc, world, view, changes

passVars == <<passKind, doc, world, view, changes>>

PassPlain == <<"word", "word", "word">>
Other == <<"word", "word", "long">>

PassTexts == {Absent, <<"word">>, PassPlain, PassPlain \o <<"colon", "closed">>, PassPlain \o <<"source">>,
          <<"cue", "colon", "closed", "word">>}

Ref == EvidenceRef("retained1", Retained, TRUE, "available_reference", Retained, FALSE)

Classification(id, draft, at) ==
  [review |-> "r1", id |-> id, draft |-> draft, actor |-> "reviewer", at |-> at,
   classification |-> IF draft = "d1" THEN "confirmed" ELSE "requires_customer_side_validation",
   basis |-> {Retained}, refs |-> {Ref}, state |-> Retained, rationale |-> PassPlain,
   criteria |-> IF draft = "d1" THEN PassPlain ELSE Absent,
   list |-> IF draft = "d1" THEN {PassPlain, Other} ELSE {},
   defensible |-> Absent, pathSummary |-> PassPlain, pathRef |-> TRUE, limits |-> PassPlain,
   extra |-> FALSE, visibility |-> "customer_facing"]

Guidance(id, at) ==
  [review |-> "r1", id |-> id, classification |-> "c1", draft |-> "d1", actor |-> "reviewer",
   ctx |-> [classification |-> "confirmed", criteria |-> PassPlain, basis |-> {Retained},
            state |-> Retained],
   refs |-> {Ref}, state |-> Retained, evidence |-> {"retained1"}, at |-> at,
   status |-> "actionable_guidance_provided", exploitability |-> PassPlain, suggested |-> PassPlain,
   steps |-> PassPlain, insufficient |-> Absent, next |-> Absent, pathSummary |-> Absent,
   pathRef |-> FALSE, limits |-> PassPlain, visibility |-> "customer_facing"]

Status(id, at) ==
  [id |-> id, review |-> "r1", finding |-> "d1", classification |-> "c1",
   actor |-> "customer_user", extra |-> FALSE, due |-> "valid", owner |-> PassPlain,
   target |-> PassPlain, notes |-> PassPlain, value |-> "remediated_by_customer", guidance |-> "g1",
   at |-> at, visibility |-> "customer_facing"]

Path ==
  [review |-> "r1", id |-> "p2", classification |-> "c2", draft |-> "d2", guidance |-> None,
   actor |-> "reviewer", refs |-> {Ref}, state |-> Retained, type |-> "customer_run_script",
   scripts |-> {"s2"}, collect |-> FALSE, steps |-> PassPlain, expected |-> PassPlain,
   limits |-> PassPlain, target |-> Absent, authorization |-> Absent, method |-> Absent,
   safety |-> Absent, attachment |-> Absent, at |-> 0, visibility |-> "customer_facing",
   verifiability |-> "verifiable_within_included_pass"]

Script ==
  [review |-> "r1", id |-> "s2", path |-> "p2", classification |-> "c2", guidance |-> None,
   actor |-> "reviewer", package |-> "included_base_package", slot |-> 1, priced |-> FALSE,
   text |-> PassPlain, valid |-> TRUE, at |-> 0, visibility |-> "customer_facing"]

AcceptedRisk ==
  [review |-> "r1", id |-> "ar1", classification |-> "c1", draft |-> "d1", at |-> 0,
   actor |-> "customer_user", refs |-> {Ref}, state |-> Retained, basis |-> {Retained},
   remediation |-> None, path |-> None, reviewBy |-> "valid", rationale |-> PassPlain,
   signoff |-> Absent, signoffRef |-> FALSE, owner |-> PassPlain, scope |-> PassPlain,
   limits |-> PassPlain, extra |-> FALSE, visibility |-> "customer_facing"]

FalsePositive ==
  [review |-> "r1", id |-> "fp2", classification |-> "c2", draft |-> "d2", at |-> 0,
   actor |-> "reviewer", refs |-> {Ref}, state |-> Retained, basis |-> {Retained},
   rationale |-> PassPlain, limits |-> PassPlain, visibility |-> "customer_facing"]

Finding(draft, classification, type) ==
  [draft |-> draft, classification |-> classification,
   value |-> IF draft = "d1" THEN "confirmed" ELSE "requires_customer_side_validation",
   guidance |-> IF draft = "d1" THEN "g1" ELSE None, 
   status |-> IF draft = "d1" THEN "st1" ELSE None,
   statusValue |-> IF draft = "d1" THEN "remediated_by_customer" ELSE None,
   path |-> IF draft = "d2" THEN "p2" ELSE None,
   scripts |-> IF draft = "d2" THEN <<"s2">> ELSE <<>>,
   risk |-> None, fp |-> None, type |-> type, eligibility |-> "eligible",
   reason |-> PassPlain, nextStep |-> FALSE, limits |-> PassPlain]

Scope ==
  [review |-> "r1", id |-> "pass1", version |-> 1, start |-> 0, recorded |-> 2,
   deadline |-> 30, startBasis |-> "known", startNamed |-> FALSE, startText |-> PassPlain,
   actor |-> "customer_user", machine |-> FALSE, backing |-> FALSE,
   findings |-> <<Finding("d1", "c1", "follow_up_commit"),
                  Finding("d2", "c2", "reviewer_authored_script_output")>>,
   slots |-> <<[slot |-> 1, script |-> "s2", finding |-> "d2"]>>, extras |-> <<>>,
   limits |-> PassPlain, class |-> Retained, visibility |-> "customer_facing", extra |-> FALSE]

Evidence(draft) ==
  [review |-> "r1", pass |-> "pass1", passRef |-> "pass1",
   id |-> IF draft = "d1" THEN "e1" ELSE "e2", version |-> 1, scopeVersion |-> 1,
   draft |-> draft, classification |-> IF draft = "d1" THEN "c1" ELSE "c2",
   type |-> IF draft = "d1" THEN "follow_up_commit" ELSE "reviewer_authored_script_output",
   at |-> 10, actor |-> "customer_user", backing |-> FALSE, accessReview |-> "r1",
   tenant |-> "t1",
   commit |-> IF draft = "d1"
              THEN {[originalSha |-> "k0", sha |-> "k1", originalRepo |-> "repo",
                     repo |-> "repo", relation |-> "customer_declared_related",
                     basis |-> PassPlain]}
              ELSE {},
   path |-> IF draft = "d2" THEN "p2" ELSE None, script |-> IF draft = "d2" THEN "s2" ELSE None,
   artifacts |-> IF draft = "d2"
                 THEN <<[ref |-> "a1", class |-> "transient_source_derived", retention |-> None],
                        [ref |-> "a2", class |-> OptIn, retention |-> "rt1"]>>
                 ELSE <<>>,
   environment |-> "synthetic_demo", intake |-> "accepted_for_review", next |-> Absent,
   reason |-> PassPlain, limits |-> PassPlain, payload |-> FALSE, class |-> Retained]

Decision(draft) ==
  LET c == Classification(IF draft = "d1" THEN "c1" ELSE "c2", draft, 0) IN
  [review |-> "r1", pass |-> "pass1", passRef |-> "pass1",
   id |-> IF draft = "d1" THEN "v1" ELSE "v2", version |-> 1, draft |-> draft,
   classification |-> c.id, actor |-> "reviewer", at |-> 15,
   evidence |-> <<IF draft = "d1" THEN "e1" ELSE "e2">>,
   before |-> [classification |-> c.classification, refs |-> {"retained1"},
               basis |-> c.basis, state |-> c.state,
               criteria |-> IF draft = "d1" THEN c.list ELSE {PassPlain}],
   results |-> IF draft = "d1"
               THEN <<[criterion |-> PassPlain, result |-> "satisfied"],
                      [criterion |-> Other, result |-> "satisfied"]>>
               ELSE <<[criterion |-> PassPlain, result |-> "not_satisfied"]>>,
   afterRefs |-> {IF draft = "d1" THEN "e1" ELSE "a2"},
   status |-> IF draft = "d1" THEN "verification_complete" ELSE "not_verified",
   next |-> IF draft = "d1" THEN Absent ELSE PassPlain, summary |-> PassPlain, rationale |-> PassPlain,
   limits |-> PassPlain]

Reported(draft) ==
  LET d == Decision(draft) f == Scope.findings[IF draft = "d1" THEN 1 ELSE 2] IN
  [draft |-> draft, decision |-> d.id, classification |-> d.classification,
   value |-> f.value, status |-> d.status, at |-> d.at, evidence |-> d.evidence,
   actor |-> d.actor, summary |-> d.rationale, limits |-> d.limits, next |-> d.next,
   guidance |-> f.guidance, path |-> f.path, risk |-> None, fp |-> None]

Addendum ==
  [review |-> "r1", pass |-> "pass1", passRef |-> "pass1", commit |-> "k0",
   repository |-> "repo", generated |-> 20, findings |-> <<Reported("d1"), Reported("d2")>>,
   retained |-> <<[artifact |-> "e1", class |-> Retained, at |-> 10],
                  [artifact |-> "e2", class |-> Retained, at |-> 10],
                  [artifact |-> "a2", class |-> OptIn, at |-> 10]>>,
   deleted |-> <<[artifact |-> "a1", deletion |-> "del1", at |-> 12, status |-> "verified"]>>,
   history |-> {"ev1", "ev2", "ev3", "ev4"}, state |-> "finalized", next |-> Absent,
   limits |-> PassPlain]

Event(id, type, record, version, supersedes) ==
  [id |-> id, type |-> type, record |-> record, version |-> version, supersedes |-> supersedes]

HonestWorld ==
  [drafts |-> {[id |-> d, review |-> "r1", refs |-> {Ref}] : d \in {"d1", "d2"}},
   classifications |-> {Classification("c1", "d1", 0), Classification("c2", "d2", 0)},
   guidance |-> {Guidance("g1", 0)}, statuses |-> {Status("st1", 1)}, paths |-> {Path},
   scripts |-> {Script}, risks |-> {AcceptedRisk}, falsePositives |-> {FalsePositive},
   scopes |-> {Scope}, evidence |-> {Evidence("d1"), Evidence("d2")},
   decisions |-> {Decision("d1"), Decision("d2")},
   stored |-> {[artifact |-> "a1", kind |-> "evidence_artifact",
                class |-> "transient_source_derived", environment |-> "synthetic_demo"],
               [artifact |-> "a2", kind |-> "evidence_artifact", class |-> OptIn,
                environment |-> "synthetic_demo"]},
   retention |-> {[id |-> "rt1", artifacts |-> {"a2"}, start |-> 5, end |-> 12]},
   deletions |-> {[id |-> "del1", artifacts |-> {"a1"}, at |-> 12, status |-> "verified"]},
   lifecycle |-> {[review |-> "r1", artifact |-> "a1", deletion |-> "del1", at |-> 12,
                   class |-> "transient_source_derived"]},
   events |-> <<Event("ev1", "verification_evidence_recorded", "e1", 1, None),
                Event("ev2", "verification_evidence_recorded", "e2", 1, None),
                Event("ev3", "verification_recorded", "v1", 1, None),
                Event("ev4", "verification_recorded", "v2", 1, None)>>,
   ownGuidance |-> {}, tenant |-> "t1", commit |-> "k0", repository |-> "repo"]

PassKinds == {"scope", "evidence1", "evidence2", "decision1", "decision2", "addendum"}

HonestPass(k) ==
  CASE k = "scope" -> Scope
    [] k = "evidence1" -> Evidence("d1")
    [] k = "evidence2" -> Evidence("d2")
    [] k = "decision1" -> Decision("d1")
    [] k = "decision2" -> Decision("d2")
    [] k = "addendum" -> Addendum

-----------------------------------------------------------------------------
(* What the author may change, by field. *)

PassAlternatives(f) ==
  CASE f \in {"review", "accessReview"} -> {"r1", "r2"}
    [] f \in {"pass", "passRef"} -> {"pass1", "pass2"}
    [] f \in {"version", "scopeVersion"} -> {1, 2}
    [] f = "start" -> {0, 2, 3}
    [] f \in {"recorded", "at", "deadline", "generated"} -> {0, 2, 9, 10, 12, 15, 30, 31}
    [] f = "startBasis" -> {"known", "uncertain", "promised"}
    [] f = "actor" -> {"customer_user", "reviewer", "vendor_service"}
    [] f \in {"machine", "backing", "startNamed", "extra", "payload", "nextStep"} -> BOOLEAN
    [] f = "visibility" -> Visibilities
    [] f = "class" -> {Retained, OptIn, "transient_source_derived"}
    [] f = "draft" -> {"d1", "d2"}
    [] f = "classification" -> {"c1", "c2"}
    [] f = "value" -> {"likely", "confirmed", "requires_customer_side_validation"}
    [] f = "guidance" -> {None, "g1", "g1b"}
    [] f = "status" -> {None, "st1", "st1b"} \cup Statuses
    [] f = "statusValue" -> {None, "remediated_by_customer", "deferred"}
    [] f = "path" -> {None, "p2"}
    [] f = "scripts" -> {<<>>, <<"s2">>, <<"s2", "s2">>}
    [] f = "script" -> {None, "s2", "s3"}
    [] f = "risk" -> {None, "ar1"}
    [] f = "fp" -> {None, "fp2"}
    [] f = "type" -> RequestTypes
    [] f = "eligibility" -> {"eligible", "out_of_scope", "blocked_pending_validation_path"}
    [] f = "slots" ->
         {<<>>, Scope.slots, Scope.slots \o Scope.slots,
          <<[slot |-> 2, script |-> "s2", finding |-> "d2"]>>,
          <<[slot |-> 1, script |-> "s2", finding |-> "d1"]>>}
    [] f = "extras" ->
         {<<>>, <<[slot |-> 0, script |-> "s2", finding |-> "d2", pricing |-> "pricing_tbd",
                   priced |-> TRUE, reason |-> PassPlain]>>}
    [] f = "tenant" -> {"t1", "t2"}
    [] f = "commit" ->
         {{}} \cup {{[originalSha |-> "k0", sha |-> k, originalRepo |-> "repo", repo |-> r,
                      relation |-> rel, basis |-> PassPlain]} :
                      k \in {"k0", "k1"}, r \in {"repo", "fork"},
                      rel \in {"customer_declared_related", "same_commit_submitted",
                               "repository_mismatch"}}
    [] f = "artifacts" ->
         {<<>>, Evidence("d2").artifacts, Evidence("d2").artifacts \o Evidence("d2").artifacts,
          <<[ref |-> "a1", class |-> Retained, retention |-> None]>>,
          <<[ref |-> "a2", class |-> OptIn, retention |-> None]>>}
    [] f = "environment" -> {"synthetic_demo", "partner_pilot_candidate"}
    [] f = "intake" -> {"accepted_for_review", "verification_pending", "broader_context_required"}
    [] f = "evidence" -> {<<"e1">>, <<"e2">>, <<"e1", "e2">>}
    [] f = "before" ->
         {Decision("d1").before, Decision("d2").before,
          [Decision("d1").before EXCEPT !.criteria = {PassPlain}]}
    [] f = "results" ->
         {<<[criterion |-> PassPlain, result |-> r]>> : r \in Results}
           \cup {<<[criterion |-> PassPlain, result |-> r], [criterion |-> Other, result |-> "satisfied"]>>
                   : r \in Results}
    [] f = "afterRefs" -> {{"e1"}, {"a2"}, {"e1", "a2"}}
    [] f = "decision" -> {"v1", "v2"}
    [] f = "repository" -> {"repo", "fork"}
    [] f = "retained" -> {Addendum.retained, Tail(Addendum.retained),
                          Addendum.retained \o Addendum.retained}
    [] f = "deleted" ->
         {<<>>} \cup {<<[Addendum.deleted[1] EXCEPT !.at = t, !.status = v]>> :
                        t \in {9, 12, 31}, v \in {"verified", "pending"}}
    [] f = "history" -> SUBSET {"ev1", "ev2", "ev3", "ev4"} \cup {{"ev1", "ev2", "ev3", "ev4", "ev5"}}
    [] f = "state" -> {"finalized", "not_finalized"}
    [] f \in {"id", "findings"} -> {}
    [] OTHER -> PassTexts

(* The addendum's commit is a name, the evidence's a set. *)
PassAlternativesIn(k, f) == IF k = "addendum" /\ f = "commit" THEN {"k0", "k1"} ELSE PassAlternatives(f)


PassInit ==
  /\ passKind \in PassKinds
  /\ doc = HonestPass(passKind)
  /\ world = HonestWorld
  /\ view = [part \in DOMAIN HonestWorld \cup {"scope", "records"} |->
               IF part = "scope" THEN Scope
               ELSE HonestWorld[IF part = "records" THEN "evidence" ELSE part]]
  /\ changes = 0

PassEdit ==
  /\ changes < MaxChanges /\ changes' = changes + 1
  /\ \/ \E f \in DOMAIN doc : \E v \in PassAlternativesIn(passKind, f) \ {doc[f]} :
          doc' = [doc EXCEPT ![f] = v]
     \/ /\ passKind \in {"scope", "addendum"}
        /\ \E i \in DOMAIN doc.findings : \E f \in DOMAIN doc.findings[i] :
             \E v \in PassAlternatives(f) \ {doc.findings[i][f]} :
               doc' = [doc EXCEPT !.findings[i][f] = v]
  /\ UNCHANGED <<passKind, world, view>>

Moves(w) == changes < MaxChanges /\ changes' = changes + 1 /\ world' = w
            /\ UNCHANGED <<passKind, doc, view>>

CorrectScope ==
  Moves([world EXCEPT !.scopes = @ \cup {[Scope EXCEPT !.version = 2, !.recorded = 9,
                                                       !.findings[2].eligibility = "out_of_scope"]}])

CorrectEvidence ==
  Moves([world EXCEPT !.evidence = @ \cup {[Evidence("d1") EXCEPT !.version = 2, !.next = PassPlain,
                                                                  !.intake = "verification_pending"]},
                      !.events = Append(@, Event("ev5", "verification_evidence_recorded", "e1", 2, "ev1"))])

CorrectDecision ==
  Moves([world EXCEPT !.decisions = {[Decision("d1") EXCEPT !.version = 2], Decision("d2")},
                      !.events = Append(@, Event("ev5", "verification_recorded", "v1", 2, "ev3"))])

Reclassify == Moves([world EXCEPT !.classifications = @ \cup {Classification("c1b", "d1", 2)}])

Readvise == Moves([world EXCEPT !.guidance = @ \cup {Guidance("g1b", 2)}])

Restate == Moves([world EXCEPT !.statuses = @ \cup {Status("st1b", 2)}])

DeleteAgain ==
  Moves([world EXCEPT !.deletions = @ \cup {[id |-> "del2", artifacts |-> {"a1"}, at |-> 31,
                                             status |-> "intended"]},
                      !.lifecycle = @ \cup {[review |-> "r1", artifact |-> "a1",
                                             deletion |-> "del1", at |-> 31,
                                             class |-> "transient_source_derived"]}])

Parts == {"scopes", "evidence", "decisions", "events", "classifications", "guidance",
          "statuses", "deletions", "lifecycle"}

Read(p) ==
  /\ view[p] # world[p]
  /\ view' = [view EXCEPT ![p] = world[p]]
  /\ UNCHANGED <<passKind, doc, world, changes>>

(* The scope and the evidence records the author hands over, picked from   *)
(* what was recorded.                                                      *)
PickScope ==
  /\ \E s \in world.scopes \ {view.scope} : view' = [view EXCEPT !.scope = s]
  /\ UNCHANGED <<passKind, doc, world, changes>>

PickEvidence ==
  /\ \E e \in world.evidence \ view.records :
        view' = [view EXCEPT !.records = {x \in @ : x.id # e.id} \cup {e}]
  /\ UNCHANGED <<passKind, doc, world, changes>>

PassNext ==
  /\ passKind \in PassKinds
  /\ \/ PassEdit
     \/ CorrectScope \/ CorrectEvidence \/ CorrectDecision
     \/ Reclassify \/ Readvise \/ Restate \/ DeleteAgain
     \/ (\E p \in Parts : Read(p)) \/ PickScope \/ PickEvidence

-----------------------------------------------------------------------------
PassAccepted ==
  CASE passKind = "scope" -> scopeAccepted(doc, view)
    [] passKind \in {"evidence1", "evidence2"} ->
         \E c \in Named(view.classifications, doc.classification) :
            evidenceAccepted(doc, view.scope, c, view)
    [] passKind \in {"decision1", "decision2"} ->
         \E c \in Named(view.classifications, doc.classification) :
            decisionAccepted(doc, view.scope, c,
                             {e \in view.records : e.id \in Elements(doc.evidence)}, view)
    [] passKind = "addendum" ->
         addendumAccepted(doc, view.scope, view.decisions, view.records, view)

PassGateAccepts ==
  CASE passKind = "scope" -> gateScopeAccepted(doc) /\ gateScopeReferencesHold(doc, view)
    [] passKind \in {"evidence1", "evidence2"} ->
         gateEvidenceAccepted(doc) /\ gateEvidenceChainHolds(doc, view)
    [] passKind \in {"decision1", "decision2"} ->
         gateDecisionAccepted(doc) /\ gateDecisionChainHolds(doc, view)
    [] passKind = "addendum" ->
         gateAddendumAccepted(doc) /\ gateAddendumChainHolds(doc, view.decisions, view)

(* The known disagreements: C7-33, a script named beside other evidence,   *)
(* and evidence with a recorded correction, which the gate cannot resolve  *)
(* to one document.                                                        *)
StrayScript ==
  passKind \in {"evidence1", "evidence2"}
    /\ doc.script # None /\ doc.type # "reviewer_authored_script_output"

CorrectedEvidence == \E x, y \in view.evidence : x.id = y.id /\ x # y

(* What the control plane accepts of a pass - scope, evidence, decision or *)
(* addendum, with the context its caller had read - the gate accepts too,  *)
(* apart from the two known disagreements.                                 *)
PassRecordsPassGate ==
  passKind \in PassKinds /\ PassAccepted /\ ~StrayScript /\ ~CorrectedEvidence => PassGateAccepts

(* Superseded facts are not decided upon.  Whatever was corrected in the   *)
(* meantime, an accepted decision, and every decision an accepted addendum *)
(* reports, rests on evidence that is the newest of its record in the      *)
(* history the author read, of the newest scope there, recorded inside the *)
(* window of that scope; a terminal outcome rests on accepted evidence.    *)
DecidedOnHeads ==
  LET decided == CASE passKind \in {"decision1", "decision2"} -> {doc}
                   [] passKind = "addendum" -> {d \in view.decisions :
                        \E x \in Elements(doc.findings) : x.decision = d.id}
                   [] OTHER -> {} IN
  decided # {} /\ PassAccepted => \A d \in decided : \A id \in Elements(d.evidence) :
    \E e \in view.records :
      /\ e.id = id
      /\ \A q \in view.evidence : q.id = id => q.version <= e.version
      /\ \A s \in view.scopes : s.version <= e.scopeVersion
      /\ \E s \in view.scopes : /\ s.version = e.scopeVersion
                                /\ s.recorded <= e.at /\ e.at <= s.deadline
      /\ d.status \in {"verification_complete", "not_verified"} => e.intake = "accepted_for_review"

(* No source outlives its report: an accepted addendum accounts for every  *)
(* artifact of the evidence it cites exactly once, and source that is not  *)
(* retained as deleted, between its recording and the addendum.            *)
SourceIsAccountedFor ==
  passKind = "addendum" /\ PassAccepted =>
    \A e \in view.records : \A a \in Elements(e.artifacts) :
      LET kept == {i \in DOMAIN doc.retained : doc.retained[i].artifact = a.ref}
          gone == {i \in DOMAIN doc.deleted : doc.deleted[i].artifact = a.ref} IN
      /\ Cardinality(kept) + Cardinality(gone) = 1
      /\ a.class = "transient_source_derived" =>
           \E i \in gone : doc.deleted[i].at \in e.at .. doc.generated
=============================================================================
