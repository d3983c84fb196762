--------------------------- MODULE MCAttestation ---------------------------
(***************************************************************************)
(* An honest attestation package of one finding, and what each part of it  *)
(* may be changed to.  MCRecords drafts the package's records from here.   *)
(***************************************************************************)
EXTENDS EventBuilders, TLC

Prose == <<"word", "word", "word">>

(* Times: the records, the receipt and deletion first, the attestation and *)
(* the package next, then finalization and export.                         *)
RecordAt == 1
GeneratedAt == 2
FinalizedAt == 3
ExportedAt == 4

HonestMapping ==
  [review |-> "r1", id |-> "m1", attestation |-> "at1", profile |-> "generic_technology_risk",
   approved |-> TRUE, actor |-> "reviewer", text |-> Prose, extra |-> FALSE,
   entries |-> <<[id |-> "e1", refs |-> {"c1"}], [id |-> "e2", refs |-> {"review_scope"}]>>]

HonestAttestation ==
  [review |-> "r1", id |-> "at1", sealed |-> TRUE, version |-> 1, actor |-> "vendor_service",
   at |-> GeneratedAt, scope |-> "s1", commit |-> "k1", repository |-> "repo", coverage |-> "default",
   chain |-> [manifest |-> "om1", bundle |-> "eb1", receipt |-> "vr1", at |-> RecordAt],
   sections |->
     [scope |-> {"review_scope"}, limitations |-> {"review_scope"}, method |-> {"scan1"},
      receipt_chain |-> {"vendor_receipt"}, findings_and_classification |-> {"c1"},
      remediation_and_validation |-> {"g1", "p1", "s1"}, verification_outcomes |-> {"ev1", "v1"},
      evidence_lifecycle |-> {"minimization"}],
   addenda |-> {"ad1"}, minimization |-> "mz1", deletions |-> {"x1"}, mapping |-> "m1",
   refs |-> {"review_scope", "vendor_receipt", "minimization"}, text |-> Prose, extra |-> FALSE]

Logged(type, ref, version) ==
  [type |-> type, review |-> "r1", ref |-> ref, version |-> version, at |-> RecordAt]

HonestContext ==
  [scope |-> [id |-> "s1", commit |-> "k1", repository |-> "repo"],
   bundle |-> [scope |-> "s1", coverage |-> "default", manifest |-> "om1", id |-> "eb1",
               scanners |-> {"scan1"}],
   receipt |-> [id |-> "vr1", manifest |-> "om1", bundle |-> "eb1", at |-> RecordAt,
                received |-> TRUE, verified |-> TRUE],
   minimization |-> [review |-> "r1", id |-> "mz1", deleted |-> {"x1"}],
   deletions |-> {[id |-> "x1", verified |-> TRUE, at |-> RecordAt]},
   addenda |->
     {[id |-> "ad1", review |-> "r1", scope |-> "s1", commit |-> "k1", repository |-> "repo",
       at |-> GeneratedAt, pass |-> "vp1", accepted |-> TRUE,
       findings |-> {[draft |-> "d1", classification |-> "c1", value |-> "confirmed",
                      decision |-> "v1", status |-> "verification_complete", guidance |-> "g1",
                      path |-> "p1", evidence |-> {"ev1"}]}]},
   mappings |-> {HonestMapping},
   classifications |->
     {[id |-> "c1", review |-> "r1", draft |-> "d1", value |-> "confirmed", at |-> RecordAt]},
   guidance |-> {[id |-> "g1", review |-> "r1", draft |-> "d1", classification |-> "c1",
                  path |-> "p1", at |-> RecordAt]},
   paths |-> {[id |-> "p1", review |-> "r1", draft |-> "d1", classification |-> "c1",
               guidance |-> "g1", scripts |-> {"s1"}, at |-> RecordAt]},
   scripts |-> {[id |-> "s1", review |-> "r1", path |-> "p1", classification |-> "c1",
                 at |-> RecordAt]},
   evidence |-> {[id |-> "ev1", review |-> "r1", draft |-> "d1", classification |-> "c1",
                  pass |-> "vp1", path |-> "p1", script |-> "s1", version |-> 1, at |-> RecordAt]},
   decisions |-> {[id |-> "v1", review |-> "r1", draft |-> "d1", classification |-> "c1",
                   status |-> "verification_complete", evidence |-> {"ev1"}, version |-> 1,
                   at |-> RecordAt]},
   history |->
     {Logged("receipt_issued", "vr1", 1), Logged("classification_recorded", "c1", 1),
      Logged("remediation_guidance_recorded", "g1", 1), Logged("validation_recorded", "p1", 1),
      Logged("validation_recorded", "s1", 1), Logged("evidence_deleted", "x1", 1),
      Logged("verification_evidence_recorded", "ev1", 1), Logged("verification_recorded", "v1", 1)},
   replays |-> TRUE]

-----------------------------------------------------------------------------
File(path, ref, role) == [path |-> path, ref |-> ref, role |-> role, reason |-> Prose]

HonestManifest ==
  [review |-> "r1", bundle |-> "sb1", id |-> "sm1", sealed |-> TRUE, version |-> 1,
   state |-> "generated", at |-> GeneratedAt, supersedes |-> None, attestation |-> "at1",
   receipt |-> "vr1", portal |-> "sp1", evidence |-> {"bundle_file"},
   outer |-> {"signature", "signing_input"}, instructions |-> "VERIFY.txt", extra |-> FALSE,
   files |-> <<File("attestation.json", "attestation_file", "attestation"),
               File("vendor-receipt.json", "receipt_file", "vendor_receipt"),
               File("evidence-bundle-representation.json", "bundle_file",
                    "evidence_bundle_representation"),
               File("portal/index.html", "index_file", "portal"),
               File("portal/styles.css", "styles_file", "portal_asset"),
               File("portal/portal.js", "script_file", "portal_asset")>>,
   included |-> <<"attestation_file", "receipt_file", "bundle_file", "index_file", "styles_file",
                  "script_file">>]

FinalManifest ==
  [HonestManifest EXCEPT !.id = "sm2", !.version = 2, !.state = "finalized", !.at = FinalizedAt,
                         !.supersedes = "sm1"]

HonestPortal ==
  [review |-> "r1", bundle |-> "sb1", id |-> "sp1", manifest |-> "sm1", at |-> GeneratedAt,
   safe |-> TRUE, offline |-> TRUE,
   navigation |-> [i \in 1 .. 8 |-> [section |-> PortalSections[i], path |-> i, order |-> i]],
   documents |-> [i \in 1 .. 8 |-> [section |-> PortalSections[i], path |-> i, refs |-> {"c1"},
                                    text |-> Prose]]]

Signed(identity, at) ==
  [input |-> TRUE, identity |-> identity, key |-> "k1", at |-> at,
   outcome |-> [verified |-> TRUE, identity |-> identity, key |-> "k1"]]

HonestPackage ==
  [attestation |-> HonestAttestation, receipt |-> HonestContext.receipt,
   generated |-> HonestManifest, finalized |-> FinalManifest, portal |-> HonestPortal,
   deletions |-> HonestContext.deletions,
   history |-> {[Logged("attestation_generated", "at1", 1) EXCEPT !.at = GeneratedAt]},
   generatedSignature |-> Signed("sm1", GeneratedAt), signature |-> Signed("sm2", FinalizedAt)]

HonestFinalization ==
  [review |-> "r1", id |-> "fz1", sealed |-> TRUE, bundle |-> "sb1", generated |-> "sm1",
   finalized |-> "sm2", version |-> 2, actor |-> "customer_user", shown |-> TRUE, verified |-> TRUE,
   visible |-> [attestation |-> "at1", bundle |-> "sb1", generated |-> "sm1"],
   at |-> FinalizedAt, exported |-> TRUE, exportedAt |-> ExportedAt, text |-> Prose]

HonestMetric ==
  [review |-> "r1", id |-> "pl1", actor |-> "reviewer", version |-> 1, opaque |-> TRUE,
   pii |-> FALSE, contentFree |-> TRUE, piiFree |-> TRUE, caveat |-> Prose, at |-> 2,
   visibility |-> "internal_only", extra |-> FALSE, whole |-> TRUE, inRange |-> TRUE,
   start |-> 0, end |-> 1, candidate |-> 2, classified |-> 1, actionable |-> 1]

HonestFeedback ==
  [review |-> "r1", id |-> "pl1", actor |-> "reviewer", version |-> 1, opaque |-> TRUE,
   pii |-> FALSE, contentFree |-> TRUE, piiFree |-> TRUE, caveat |-> Prose, at |-> 2,
   visibility |-> "internal_only", extra |-> FALSE, whole |-> TRUE, inRange |-> TRUE,
   profiles |-> <<"generic_technology_risk", "customer_security_review">>,
   objections |-> <<"turnaround", "pricing_uncertain">>]

-----------------------------------------------------------------------------
(* What one part may be changed to. *)

PackageTexts == {Prose \o w : w \in {<<"source">>, <<"fence">>, <<"pii">>, <<"pilot">>, <<"assures">>,
                                     <<"isClosed">>, <<"phraseA", "join", "phraseB">>}}

(* The first or the last entry changed, and two neighbours' fields swapped. *)
WithField(s, f, values) == {[s EXCEPT ![i][f] = v] : i \in {1, Len(s)}, v \in values}

Swapped(s, f) ==
  {[s EXCEPT ![i][f] = s[i + 1][f], ![i + 1][f] = s[i][f]] : i \in 1 .. Len(s) - 1}

FileLists(s) ==
  {SubSeq(s, 1, i - 1) \o SubSeq(s, i + 1, Len(s)) : i \in DOMAIN s}
    \cup Swapped(s, "role") \cup Swapped(s, "path") \cup WithField(s, "reason", PackageTexts)
    \cup WithField(s, "ref", {"pilot_metric", "signature", "styles_file"})
    \cup WithField(s, "path", {"pilot_metric", "portal/index.html"})
    \cup WithField(s, "role", {"supporting_evidence"})
    \cup {Append(s, File("extra.json", r, "supporting_evidence")) : r \in {"extra_file", "pilot_metric"}}

(* Values of a part by its name. *)
PartValues(f) ==
  CASE f \in {"version", "at", "start", "end", "candidate", "classified", "actionable"} -> 0 .. 4
    [] f = "exportedAt" -> {Unset, 2, 3, 4}
    [] f \in {"sealed", "extra", "accepted", "received", "verified", "replays", "input", "approved",
              "opaque", "pii", "contentFree", "piiFree", "shown", "exported", "safe", "offline",
              "whole", "inRange"} ->
         BOOLEAN
    [] f \in {"text", "caveat"} -> PackageTexts \cup {Absent}
    [] f \in {"refs", "scripts", "evidence", "deletions", "scanners", "deleted", "addenda"} ->
         {{}, {"other"}, {"c1", "other"}, {"pilot_metric"}}
    [] f = "state" -> {"generated", "finalized"}
    [] f = "visibility" -> Visibilities
    [] f = "actor" -> {"reviewer", "customer_user", "vendor_service", "local_runner"}
    [] f \in {"supersedes", "mapping", "guidance", "script"} -> {None, "other", "sm1", "sm2"}
    [] f = "outer" -> {{"signature", "styles_file"}}
    [] OTHER -> {"other"}

(* A record with one field changed, to a value of that field. *)
OneFieldChanged(r, nested) ==
  UNION {{[r EXCEPT ![f] = v] : v \in PartValues(f)} : f \in DOMAIN r \ nested}

SetEdits(s, nested) ==
  {s \ {r} : r \in s} \cup UNION {{(s \ {r}) \cup {q} : q \in OneFieldChanged(r, nested)} : r \in s}

SectionEdits(s) ==
  {[s EXCEPT ![t] = v] : t \in DOMAIN s, v \in {{}, {"other"}, {"c1"}, {"g1", "p1"}}}

ManifestEdits(m) ==
  OneFieldChanged(m, {"files", "included"})
    \cup {[m EXCEPT !.files = v] : v \in FileLists(m.files)}
    \cup {[m EXCEPT !.included = Append(SubSeq(@, 1, 5), v)] :
            v \in {"styles_file", "pilot_metric", "extra_file"}}
    \cup {[m EXCEPT !.files = Append(@, File("extra.json", "extra_file", "supporting_evidence")),
                    !.included = Append(@, "extra_file")]}

PortalEdits(p) ==
  OneFieldChanged(p, {"navigation", "documents"})
    \cup {[p EXCEPT !.navigation = v] :
            v \in Swapped(p.navigation, "order") \cup Swapped(p.navigation, "section")
                    \cup Swapped(p.navigation, "path") \cup WithField(p.navigation, "path", {9})}
    \cup {[p EXCEPT !.navigation = [i \in 1 .. 8 |-> [@[(i % 8) + 1] EXCEPT !.order = i]]]}
    \cup {[p EXCEPT !.documents = v] :
            v \in Swapped(p.documents, "section") \cup Swapped(p.documents, "path")
                    \cup WithField(p.documents, "refs", {{}, {"pilot_metric"}})
                    \cup WithField(p.documents, "text", PackageTexts)}

AttestationEdits(a) ==
  OneFieldChanged(a, {"chain", "sections"})
    \cup {[a EXCEPT !.sections = v] : v \in SectionEdits(a.sections)}
    \cup {[a EXCEPT !.chain = v] : v \in OneFieldChanged(a.chain, {})}

MappingEdits(m) ==
  OneFieldChanged(m, {"entries"})
    \cup {[m EXCEPT !.entries = v] :
            v \in WithField(m.entries, "id", {"e1"}) \cup WithField(m.entries, "refs", PartValues("refs"))}

FinalizationEdits(f) ==
  OneFieldChanged(f, {"visible"})
    \cup {[f EXCEPT !.visible = v] : v \in OneFieldChanged(f.visible, {})}
    \cup {[f EXCEPT !.exported = FALSE, !.exportedAt = Unset]}

PilotEdits(p) ==
  OneFieldChanged(p, {"profiles", "objections"})
    \cup IF "profiles" \in DOMAIN p
         THEN {[p EXCEPT !.profiles = <<"generic_technology_risk", "generic_technology_risk">>],
               [p EXCEPT !.objections = <<"turnaround", "turnaround">>]}
         ELSE {}

SignatureEdits(s) ==
  OneFieldChanged(s, {"outcome"}) \cup {[s EXCEPT !.outcome = v] : v \in OneFieldChanged(s.outcome, {})}

(* Later versions the history may hold as well. *)
LaterEvents == {[Logged("verification_recorded", "v1", 2) EXCEPT !.at = t] : t \in 0 .. 2}
                 \cup {Logged("attestation_generated", r, v) : r \in {"at1", "at2"}, v \in {1, 2}}

(* Only evidence, decisions and attestations have versions: the key of any *)
(* other event is the reference of its record, and the log holds it once.  *)
VersionedTypes ==
  {"verification_evidence_recorded", "verification_recorded", "attestation_generated"}

LoggedOnce(h) ==
  \A e, o \in h : e.type = o.type /\ e.ref = o.ref /\ e.type \notin VersionedTypes => e = o

HistoryEdits(h) ==
  {x \in SetEdits(h, {}) \cup {h \cup {e} : e \in LaterEvents} : LoggedOnce(x)}

AddendumEdits(s) ==
  SetEdits(s, {"findings"})
    \cup UNION {{(s \ {d}) \cup {[d EXCEPT !.findings = v]} : v \in SetEdits(d.findings, {})} : d \in s}

ContextEdits(w, f) ==
  CASE f \in {"scope", "bundle", "receipt", "minimization"} -> OneFieldChanged(w[f], {})
    [] f \in {"deletions", "classifications", "guidance", "paths", "scripts", "evidence", "decisions"} ->
         SetEdits(w[f], {})
    [] f = "addenda" -> AddendumEdits(w.addenda)
    [] f = "mappings" -> {{}} \cup {{v} : v \in MappingEdits(HonestMapping)}
    [] f = "history" -> HistoryEdits(w.history)
    [] f = "replays" -> BOOLEAN
    [] f = "attestation" -> AttestationEdits(w.attestation)
    [] f \in {"generated", "finalized"} -> ManifestEdits(w[f])
    [] f = "portal" -> PortalEdits(w.portal)
    [] f \in {"generatedSignature", "signature"} -> SignatureEdits(w[f])
=============================================================================
