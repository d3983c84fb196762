------------------------------ MODULE GateLog ------------------------------
(***************************************************************************)
(* The second judge of a review log.  The control plane decides which      *)
(* events are appended (ReviewEvents); the protocol gate                   *)
(* (scripts/lib/protocol-utils.mjs) judges a finished log with rules it    *)
(* states again.  A log the control plane built should be one the gate     *)
(* accepts.  The module also has the history a customer is shown and the   *)
(* gate's comparison of it with the log.                                   *)
(***************************************************************************)
EXTENDS ReviewEvents, SequencesExt

(* validateReviewEventSemantics: who may record what.  Unlike the control  *)
(* plane the gate asks nothing of the visibility of package events.        *)
validateReviewEventSemantics(e) ==
  /\ e.type \in {"classification_recorded", "remediation_guidance_recorded",
                 "validation_recorded", "false_positive_recorded",
                 "verification_recorded"}
        => e.actor = "reviewer"
  /\ e.type = "customer_accepted_risk_recorded"
        => e.actor \in {"customer_user", "reviewer", "vendor_service"} /\ e.backed
  /\ e.type \in OutcomeTypes => e.corrects = None
  /\ e.type = "customer_remediation_recorded" => e.actor = "customer_user"
  /\ e.type = "verification_scope_recorded"
        => /\ e.actor \in {"customer_user", "reviewer", "vendor_service"}
           /\ e.actor # "customer_user" => e.backed
  /\ e.type = "verification_evidence_recorded"
        => /\ e.actor \in {"customer_user", "vendor_service"}
           /\ e.actor = "vendor_service" => e.backed
  /\ e.type = "attestation_generated" => e.actor \in {"reviewer", "vendor_service"}
  /\ e.type = "static_bundle_generated" => e.actor = "vendor_service"
  /\ e.type \in PackageTypes => e.actor = "customer_user"
  /\ e.type \in {"pilot_metric_recorded", "pilot_feedback_recorded"}
        => e.visibility = "internal_only" /\ e.actor \in {"reviewer", "vendor_service"}

-----------------------------------------------------------------------------
(***************************************************************************)
(* validateReviewEventLogSemantics, for the event e after the events l.    *)
(* The versioned family head is computed as in the control plane           *)
(* (latestVerificationScopeEvent, latestVersionedVerificationProtocolEvent *)
(* against ActiveHead).                                                    *)
(***************************************************************************)
NumberedAndUnique(l, e) ==
  \A i \in DOMAIN l : l[i].seq < e.seq /\ Key(l[i]) # Key(e)

(* C7-26: the first scope of a pass has version 1 and supersedes nothing.  *)
FirstScopeIsVersionOne(l, e) ==
  e.type = "verification_scope_recorded" /\ ActiveHead(l, e) = 0
     => e.id.version = 1 /\ e.supersedes = 0

ScopeSupersedesHead(l, e) ==
  e.type = "verification_scope_recorded" /\ ActiveHead(l, e) # 0
     => e.supersedes = ActiveHead(l, e)

VersionedSupersedesHead(l, e) ==
  e.type \in VerificationTypes =>
     IF ActiveHead(l, e) = 0 THEN e.id.version = 1 /\ e.supersedes = 0
     ELSE e.supersedes = ActiveHead(l, e)

(* reviewEventSupersedesChain. *)
GateChain(l, e) == {l[i] : i \in SupersedesChain(l, e.supersedes)}

(* validateVersionedVerificationSupersedes. *)
VersionedChainHolds(l, e) ==
  /\ e.type \in VerificationTypes =>
       /\ \A x \in GateChain(l, e) : x.type = e.type
       /\ SameFamily(l[e.supersedes], e)
       /\ e.id.version > l[e.supersedes].id.version
       /\ ActiveHead(l, e) # 0 /\ e.id.version > l[ActiveHead(l, e)].id.version
  /\ \A x \in GateChain(l, e) : x.type \in VerificationTypes => e.type = x.type

(* Of two families neither corrects the other. *)
Apart(l, e, type) == \A x \in GateChain(l, e) : x.type = type <=> e.type = type

ScopeVersionGrows(l, e) ==
  e.type = "verification_scope_recorded" =>
     /\ SameFamily(l[e.supersedes], e)
     /\ e.id.version > l[e.supersedes].id.version

CustomerChainHolds(l, e) ==
  /\ \A x \in GateChain(l, e) : x.type \notin ExpertTypes
  /\ Apart(l, e, "customer_accepted_risk_recorded")
  /\ Apart(l, e, "verification_scope_recorded")
  /\ ScopeVersionGrows(l, e)

ReviewerChainHolds(l, e) ==
  /\ Apart(l, e, "verification_scope_recorded")
  /\ ScopeVersionGrows(l, e)
  /\ Apart(l, e, "false_positive_recorded")
  /\ Apart(l, e, "customer_accepted_risk_recorded")

(* C7-27: a classification, a guidance and a validation are corrected by   *)
(* their own kind only, and correct nothing else.                          *)
EXPERT_RECORD_TYPES ==
  {"classification_recorded", "remediation_guidance_recorded", "validation_recorded"}

ExpertFamiliesApart(l, e) ==
  e.supersedes \in DOMAIN l /\ ~SpeaksForCustomer(e) =>
     \A type \in EXPERT_RECORD_TYPES : Apart(l, e, type)

GateChainHolds(l, e) ==
  e.supersedes # 0 =>
     /\ e.supersedes \in DOMAIN l
     /\ VersionedChainHolds(l, e)
     /\ IF SpeaksForCustomer(e) THEN CustomerChainHolds(l, e) ELSE ReviewerChainHolds(l, e)

ClassificationRefHolds(l, e) ==
  e.corrects # None /\ e.type \notin OutcomeTypes =>
     /\ ~SpeaksForCustomer(e)
     /\ \E i \in DOMAIN l : l[i].type = "classification_recorded" /\ l[i].id.family = e.corrects

(* The rules the control plane has as well, and all of them. *)
SharedGateRules(l, e) ==
  /\ validateReviewEventSemantics(e)
  /\ NumberedAndUnique(l, e)
  /\ ScopeSupersedesHead(l, e)
  /\ VersionedSupersedesHead(l, e)
  /\ GateChainHolds(l, e)
  /\ ClassificationRefHolds(l, e)

validateReviewEventLogSemantics(l) ==
  \A i \in DOMAIN l :
     LET before == SubSeq(l, 1, i - 1) IN
     /\ SharedGateRules(before, l[i])
     /\ FirstScopeIsVersionOne(before, l[i])
     /\ ExpertFamiliesApart(before, l[i])

-----------------------------------------------------------------------------
(* The history a customer is shown. *)

Entry(i, e) ==
  [event |-> i, type |-> e.type, at |-> e.at, actor |-> e.actor,
   artifact |-> e.id, visibility |-> "customer_facing"]

PILOT_TYPES == {"pilot_metric_recorded", "pilot_feedback_recorded"}

Shown(l) ==
  {i \in DOMAIN l : l[i].visibility = "customer_facing" /\ l[i].type \notin PILOT_TYPES}

(* events.sort: the positions of S by sequence number. *)
Sorted(l, S, s) ==
  \A k, m \in 1 .. Cardinality(S) : k < m => l[s[k]].seq < l[s[m]].seq

ByNumber(l, S) == CHOOSE s \in [1 .. Cardinality(S) -> S] : Sorted(l, S, s)

(* Mutant of projectCustomerFacingHistory: sorted by time instead. *)
projectHistoryByTime(l) ==
  LET shown == Shown(l)
      order == SetToSortSeq(shown, LAMBDA i, j : l[i].at < l[j].at \/ (l[i].at = l[j].at /\ i < j))
  IN [k \in DOMAIN order |-> Entry(order[k], l[order[k]])]

(* An invalid log shows nothing at all. *)
projectCustomerFacingHistory(l) ==
  LET order == ByNumber(l, Shown(l)) IN
  IF ReviewEventLogIsValid(l)
  THEN [k \in 1 .. Cardinality(Shown(l)) |-> Entry(order[k], l[order[k]])]
  ELSE <<>>

validateReviewEventCustomerProjectionSemantics(p) ==
  /\ \A k \in DOMAIN p : p[k].visibility = "customer_facing"
  /\ \A k, m \in DOMAIN p : p[k].event = p[m].event => k = m

(* The entries are the visible events of the log, all of them, unchanged   *)
(* and in the order of their numbers.                                      *)
validateReviewEventCustomerProjectionAgainstLog(p, l) ==
  LET expected == {i \in DOMAIN l : l[i].visibility = "customer_facing"} IN
  /\ \A k \in DOMAIN p :
       /\ p[k].event \in expected
       /\ LET e == l[p[k].event] IN
            p[k].type = e.type /\ p[k].at = e.at /\ p[k].actor = e.actor /\ p[k].artifact = e.id
  /\ \A i \in expected : \E k \in DOMAIN p : p[k].event = i
  /\ \A k, m \in DOMAIN p : k < m => l[p[k].event].seq < l[p[m].event].seq

-----------------------------------------------------------------------------
(* Properties. *)

(* The gate finds nothing to object to in a log that appendReviewEvent     *)
(* built, whichever callers raced for it, apart from the two rules C7-26   *)
(* and C7-27 that only the gate has.                                       *)
GateAgreesOnSharedRules ==
  \A i \in DOMAIN log : SharedGateRules(SubSeq(log, 1, i - 1), log[i])

(* What projectCustomerFacingHistory shows of any log the boundary built   *)
(* passes the gate's comparison: nothing is left out, invented or moved.   *)
ShownHistoryPassesGate ==
  LET shown == projectCustomerFacingHistory(log) IN
  /\ validateReviewEventCustomerProjectionSemantics(shown)
  /\ validateReviewEventCustomerProjectionAgainstLog(shown, log)

(* The gate agrees with the control plane on every log the boundary built  *)
(* and on what is shown of it.                                             *)
GateAgrees == GateAgreesOnSharedRules /\ ShownHistoryPassesGate

(* What a customer was shown stays: a later history extends it, although   *)
(* it is computed from scratch from whatever the log has become.           *)
ShownHistoryOnlyGrows ==
  [][IsPrefix(projectCustomerFacingHistory(log), projectCustomerFacingHistory(log'))]_log
=============================================================================
