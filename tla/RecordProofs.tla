---------------------------- MODULE RecordProofs ----------------------------
(***************************************************************************)
(* What the judges of MCRecords guarantee, for any number of edits.  The   *)
(* first two parts are about the rules of the verification pass            *)
(* themselves, for any document, any scope and any context; then come the  *)
(* drafted records and the events built from them, the records and the     *)
(* corrections of a pass, and last the Merkle tree and the hash chain of   *)
(* the transparency proofs.                                                *)
(***************************************************************************)
EXTENDS MCRecords, FiniteSetTheorems, SequenceTheorems, NaturalsInduction,
        WellFoundedInduction, TLAPS

-----------------------------------------------------------------------------
(* Decisions, for any document and any context.                            *)

(* What a caller has read is of one review and one pass, in numbered       *)
(* versions.                                                               *)
OnePass(w) ==
  /\ \A x \in w.evidence : x.version \in Int
  /\ \A x, y \in w.evidence : x.review = y.review
  /\ \A x \in w.scopes : x.version \in Int
  /\ \A x, y \in w.scopes : x.review = y.review /\ x.id = y.id

(* The record id rests on, for the decision d. *)
IsHead(e, id, d, w) ==
  /\ e.id = id
  /\ \A q \in w.evidence : q.id = id => q.version <= e.version
  /\ \A s \in w.scopes : s.version <= e.scopeVersion
  /\ \E s \in w.scopes : /\ s.version = e.scopeVersion
                         /\ s.recorded <= e.at /\ e.at <= s.deadline
  /\ d.status \in {"verification_complete", "not_verified"} => e.intake = "accepted_for_review"

(* The highest version of a record is the newest of its id. *)
LEMMA ActiveIsNewest ==
  ASSUME NEW h, NEW r, IsActive(r, h),
         \A x \in h : x.version \in Int, \A x, y \in h : x.review = y.review
  PROVE  \A q \in h : q.id = r.id => q.version <= r.version
<1> SUFFICES ASSUME NEW q \in h, q.id = r.id PROVE q.version <= r.version
  OBVIOUS
<1>1. r \in h /\ q.review = r.review
  BY DEF IsActive
<1>2. q = r \/ q.version < r.version
  BY <1>1 DEF IsActive
<1>3. q.version \in Int /\ r.version \in Int
  BY <1>1
<1> QED
  BY <1>2, <1>3

(* A decision the control plane records, whatever it says and whatever its *)
(* author had read, rests for each evidence id it names on the newest      *)
(* record of that id, of the newest scope, recorded in its window.  The    *)
(* rules compare each record with its own scope and its own history only;  *)
(* that they add up to this is the theorem.                                *)
THEOREM DecisionRestsOnHeads ==
  ASSUME NEW d, NEW s, NEW c, NEW evidence, NEW w, NEW id \in Elements(d.evidence),
         decisionAccepted(d, s, c, evidence, w), OnePass(w)
  PROVE  \E e \in evidence : IsHead(e, id, d, w)
<1> DEFINE cited == {e \in evidence : e.id \in Elements(d.evidence)}
<1>1. /\ \A e \in evidence : evidenceAccepted(e, s, c, w)
      /\ {e.id : e \in cited} = Elements(d.evidence)
      /\ BoundEvidenceHolds(d, s, cited, w)
      /\ Terminal(d.status) => \A e \in cited : e.intake = "accepted_for_review"
  BY DEF decisionAccepted
<1>2. PICK e \in cited : e.id = id
  BY <1>1
<1>3. e \in evidence /\ evidenceAccepted(e, s, c, w) /\ IsActive(e, w.evidence)
  BY <1>1 DEF BoundEvidenceHolds
<1>4. IsActive(s, w.scopes) /\ e.scopeVersion = s.version
      /\ s.recorded <= e.at /\ e.at <= s.deadline
  BY <1>3 DEF evidenceAccepted, activeVerificationScope
<1>5. \A q \in w.evidence : q.id = id => q.version <= e.version
  BY <1>2, <1>3, ActiveIsNewest DEF OnePass
<1>6. s \in w.scopes /\ \A q \in w.scopes : q.version <= s.version
  <2>1. s \in w.scopes
    BY <1>4 DEF IsActive
  <2>2. \A q \in w.scopes : q.id = s.id
    BY <2>1 DEF OnePass
  <2>3. \A q \in w.scopes : q.id = s.id => q.version <= s.version
    BY <1>4, ActiveIsNewest DEF OnePass
  <2> QED
    BY <2>1, <2>2, <2>3
<1>7. d.status \in {"verification_complete", "not_verified"} => e.intake = "accepted_for_review"
  BY <1>1 DEF Terminal
<1> HIDE DEF cited
<1>8. IsHead(e, id, d, w)
  BY <1>2, <1>4, <1>5, <1>6, <1>7 DEF IsHead
<1> QED
  BY <1>3, <1>8

(* An addendum re-judges every decision it reports: each rests on heads of *)
(* what the addendum's author had read, not its own author.                *)
THEOREM AddendumRestsOnHeads ==
  ASSUME NEW a, NEW s, NEW decisions, NEW evidence, NEW w,
         addendumAccepted(a, s, decisions, evidence, w), OnePass(w),
         NEW x \in Elements(a.findings), NEW d \in decisions, x.decision = d.id,
         NEW id \in Elements(d.evidence)
  PROVE  \E e \in evidence : IsHead(e, id, d, w)
<1>1. ReportedFindingHolds(x, a, s, decisions, evidence, w) /\ UniqueById(decisions)
  BY DEF addendumAccepted
<1>2. PICK f \in SelectedIn(s, x.draft), v \in Named(decisions, x.decision),
           c \in Named(w.classifications, x.classification) :
         decisionAccepted(v, s, c, {e \in evidence : e.id \in Elements(x.evidence)}, w)
  BY <1>1 DEF ReportedFindingHolds
<1>3. v = d
  BY <1>1, <1>2 DEF Named, UniqueById
<1>4. \E e \in {y \in evidence : y.id \in Elements(x.evidence)} : IsHead(e, id, d, w)
  BY <1>2, <1>3, DecisionRestsOnHeads
<1> QED
  BY <1>4

-----------------------------------------------------------------------------
(* Source, for any addendum.                                               *)

(* The addendum lists no artifact twice, over both lists together.         *)
LEMMA AccountedOnce ==
  ASSUME NEW S, NEW a, a.retained \in Seq(S), a.deleted \in Seq(S), ResolvedOnce(a), NEW ref
  PROVE  LET kept == {i \in DOMAIN a.retained : a.retained[i].artifact = ref}
             gone == {i \in DOMAIN a.deleted : a.deleted[i].artifact = ref} IN
         kept # {} \/ gone # {} => Cardinality(kept) + Cardinality(gone) = 1
<1> DEFINE m == Len(a.retained)
           n == Len(a.deleted)
           all == a.retained \o a.deleted
           kept == {i \in DOMAIN a.retained : a.retained[i].artifact = ref}
           gone == {i \in DOMAIN a.deleted : a.deleted[i].artifact = ref}
<1>1. m \in Nat /\ n \in Nat /\ DOMAIN a.retained = 1 .. m /\ DOMAIN a.deleted = 1 .. n
  BY LenProperties
<1>2. /\ DOMAIN all = 1 .. m + n
      /\ \A i \in 1 .. m : all[i] = a.retained[i]
      /\ \A i \in 1 .. n : all[m + i] = a.deleted[i]
  <2>1. /\ all \in Seq(S) /\ Len(all) = m + n
        /\ \A i \in 1 .. m + n : all[i] = IF i <= m THEN a.retained[i] ELSE a.deleted[i - m]
    BY ConcatProperties
  <2>2. DOMAIN all = 1 .. m + n
    BY <2>1, LenProperties
  <2> HIDE DEF m, n, all
  <2>3. \A i \in 1 .. m : all[i] = a.retained[i]
    BY <1>1, <2>1
  <2>4. \A i \in 1 .. n : m + i \in 1 .. m + n /\ ~(m + i <= m) /\ (m + i) - m = i
    BY <1>1
  <2> QED
    BY <2>1, <2>2, <2>3, <2>4
<1>3. \A i, j \in 1 .. m + n : all[i].artifact = all[j].artifact => i = j
  BY <1>2 DEF ResolvedOnce
<1> HIDE DEF m, n, all
<1>4. \A i, j \in kept : i = j
  <2> SUFFICES ASSUME NEW i \in kept, NEW j \in kept PROVE i = j
    OBVIOUS
  <2>1. /\ i \in 1 .. m /\ j \in 1 .. m /\ i \in 1 .. m + n /\ j \in 1 .. m + n
        /\ a.retained[i].artifact = a.retained[j].artifact
    BY <1>1
  <2> QED
    BY <1>2, <1>3, <2>1
<1>5. \A i, j \in gone : i = j
  <2> SUFFICES ASSUME NEW i \in gone, NEW j \in gone PROVE i = j
    OBVIOUS
  <2>1. /\ i \in 1 .. n /\ j \in 1 .. n /\ m + i \in 1 .. m + n /\ m + j \in 1 .. m + n
        /\ a.deleted[i].artifact = a.deleted[j].artifact
    BY <1>1
  <2>2. m + i = m + j
    BY <1>2, <1>3, <2>1
  <2> QED
    BY <1>1, <2>1, <2>2
<1>6. kept = {} \/ gone = {}
  <2> SUFFICES ASSUME NEW i \in kept, NEW j \in gone PROVE FALSE
    OBVIOUS
  <2>1. /\ i \in 1 .. m /\ j \in 1 .. n /\ i \in 1 .. m + n /\ m + j \in 1 .. m + n
        /\ a.retained[i].artifact = a.deleted[j].artifact
    BY <1>1
  <2>2. i = m + j
    BY <1>2, <1>3, <2>1
  <2> QED
    BY <1>1, <2>1, <2>2
<1> HIDE DEF kept, gone
<1>7. ASSUME NEW T, NEW i \in T, \A x, y \in T : x = y PROVE Cardinality(T) = 1
  <2>1. T = {i}
    BY <1>7
  <2> QED
    BY <2>1, FS_Singleton
<1>8. Cardinality({}) = 0
  BY FS_EmptySet
<1>9. kept # {} => Cardinality(kept) = 1
  BY <1>4, <1>7
<1>10. gone # {} => Cardinality(gone) = 1
  BY <1>5, <1>7
<1>11. kept # {} \/ gone # {} => Cardinality(kept) + Cardinality(gone) = 1
  <2> SUFFICES ASSUME kept # {} \/ gone # {} PROVE Cardinality(kept) + Cardinality(gone) = 1
    OBVIOUS
  <2>1. CASE kept = {}
    <3>1. Cardinality(kept) = 0 /\ Cardinality(gone) = 1
      BY <1>8, <1>10, <2>1
    <3> QED
      BY <3>1
  <2>2. CASE gone = {}
    <3>1. Cardinality(kept) = 1 /\ Cardinality(gone) = 0
      BY <1>8, <1>9, <2>2
    <3> QED
      BY <3>1
  <2> QED
    BY <1>6, <2>1, <2>2
<1> QED
  BY ONLY <1>11 DEF kept, gone

(* Every entry an addendum lists, and every record it speaks of, is dated. *)
Dated(a, records) ==
  /\ \E S : a.retained \in Seq(S) /\ a.deleted \in Seq(S)
  /\ \A i \in DOMAIN a.deleted : a.deleted[i].at \in Int
  /\ \A e \in records : e.at \in Int
  /\ a.generated \in Int

(* An addendum the control plane records accounts for every artifact of    *)
(* the evidence it cites in exactly one entry of the retained and the      *)
(* deleted list, and for source that is not retained by a deletion dated   *)
(* between the evidence and the addendum.                                  *)
THEOREM AddendumAccountsForSource ==
  ASSUME NEW a, NEW s, NEW decisions, NEW evidence, NEW w,
         addendumAccepted(a, s, decisions, evidence, w), Dated(a, evidence),
         NEW e \in evidence, NEW r \in Elements(e.artifacts)
  PROVE  LET kept == {i \in DOMAIN a.retained : a.retained[i].artifact = r.ref}
             gone == {i \in DOMAIN a.deleted : a.deleted[i].artifact = r.ref} IN
         /\ Cardinality(kept) + Cardinality(gone) = 1
         /\ r.class = "transient_source_derived" =>
              \E i \in gone : a.deleted[i].at \in e.at .. a.generated
<1> DEFINE kept == {i \in DOMAIN a.retained : a.retained[i].artifact = r.ref}
           gone == {i \in DOMAIN a.deleted : a.deleted[i].artifact = r.ref}
<1>1. EvidenceIsAccountedFor(e, a, w) /\ ResolvedOnce(a)
  BY DEF addendumAccepted
<1>2. CASE r.class \in {Retained, OptIn}
  <2>1. PICK x \in Elements(a.retained) : x.artifact = r.ref
    BY <1>1, <1>2 DEF EvidenceIsAccountedFor
  <2>2. kept # {}
    BY <2>1 DEF Elements
  <2>3. r.class # "transient_source_derived"
    BY <1>2 DEF Retained, OptIn
  <2> HIDE DEF kept, gone
  <2>4. Cardinality(kept) + Cardinality(gone) = 1
    BY <1>1, <2>2, AccountedOnce DEF Dated, kept, gone
  <2> QED
    BY <2>3, <2>4 DEF kept, gone
<1>3. CASE r.class \notin {Retained, OptIn}
  <2>1. DeletionHolds(r, e, a, w)
    BY <1>1, <1>3 DEF EvidenceIsAccountedFor
  <2>2. PICK x \in Elements(a.deleted), d \in w.deletions :
          x.artifact = r.ref /\ x.at = d.at /\ e.at <= d.at /\ d.at <= a.generated
    BY <2>1 DEF DeletionHolds
  <2>3. PICK i \in DOMAIN a.deleted : x = a.deleted[i]
    BY DEF Elements
  <2>4. i \in gone
    BY <2>2, <2>3
  <2>5. a.deleted[i].at \in e.at .. a.generated
    <3>1. a.deleted[i].at \in Int /\ e.at \in Int /\ a.generated \in Int
      BY DEF Dated
    <3>2. e.at <= a.deleted[i].at /\ a.deleted[i].at <= a.generated
      BY <2>2, <2>3
    <3> HIDE DEF kept, gone
    <3> QED
      BY <3>1, <3>2
  <2> HIDE DEF kept, gone
  <2>6. Cardinality(kept) + Cardinality(gone) = 1
    <3>1. gone # {}
      BY <2>4
    <3> QED
      BY <1>1, <3>1, AccountedOnce DEF Dated, kept, gone
  <2> QED
    BY <2>4, <2>5, <2>6 DEF kept, gone
<1> QED
  BY <1>2, <1>3

-----------------------------------------------------------------------------
(* The pass: what is recorded, and what its author has read.               *)

(* Every record of the pass's history.                                     *)
CorrectedFollowUp == [Evidence("d1") EXCEPT !.version = 2, !.next = PassPlain,
                                            !.intake = "verification_pending"]

CorrectedScope == [Scope EXCEPT !.version = 2, !.recorded = 9,
                                !.findings[2].eligibility = "out_of_scope"]

PassEvidence == {Evidence("d1"), Evidence("d2"), CorrectedFollowUp}

PassScopes == {Scope, CorrectedScope}

(* The entries of the addendum's two lists.                                *)
KeptEntries == [artifact : {"e1", "e2", "a2"}, class : {Retained, OptIn}, at : Int]

GoneEntries == [artifact : {"a1"}, deletion : {"del1"}, at : Int, status : {"verified", "pending"}]

WorldHolds ==
  /\ {"evidence", "scopes"} \subseteq DOMAIN world
  /\ world.evidence \subseteq PassEvidence /\ world.scopes \subseteq PassScopes

ViewHolds ==
  /\ {"evidence", "records", "scopes"} \subseteq DOMAIN view
  /\ view.evidence \subseteq PassEvidence /\ view.records \subseteq PassEvidence
  /\ view.scopes \subseteq PassScopes

AddendumHolds ==
  passKind = "addendum" =>
    /\ {"retained", "deleted", "generated", "findings"} \subseteq DOMAIN doc
    /\ doc.retained \in Seq(KeptEntries)
    /\ doc.deleted \in Seq(GoneEntries)
    /\ doc.generated \in Int

(* What the world, the view and the document can hold: enough to know that *)
(* versions and dates are numbers and that everything is of one pass.      *)
PassIInv == WorldHolds /\ ViewHolds /\ AddendumHolds

LEMMA PassEvidenceTyped ==
  ASSUME NEW e \in PassEvidence
  PROVE  e.version \in Int /\ e.review = "r1" /\ e.at \in Int
<1>1. \A d : /\ Evidence(d).version = 1 /\ Evidence(d).review = "r1" /\ Evidence(d).at = 10
             /\ {"version", "next", "intake"} \subseteq DOMAIN Evidence(d)
  BY DEF Evidence
<1>2. /\ CorrectedFollowUp.version = 2 /\ CorrectedFollowUp.review = "r1"
      /\ CorrectedFollowUp.at = 10
  BY DEF CorrectedFollowUp, Evidence
<1> QED
  BY <1>1, <1>2 DEF PassEvidence

LEMMA PassScopesTyped ==
  ASSUME NEW s \in PassScopes
  PROVE  s.version \in Int /\ s.review = "r1" /\ s.id = "pass1"
<1>1. Scope.version = 1 /\ Scope.review = "r1" /\ Scope.id = "pass1"
  BY DEF Scope
<1>2. CorrectedScope.version = 2 /\ CorrectedScope.review = "r1" /\ CorrectedScope.id = "pass1"
  BY DEF CorrectedScope, Scope
<1> QED
  BY <1>1, <1>2 DEF PassScopes

LEMMA AddendumTyped ==
  /\ {"retained", "deleted", "generated", "findings"} \subseteq DOMAIN Addendum
  /\ Addendum.generated \in Int
  /\ Addendum.retained \in Seq(KeptEntries) /\ Addendum.retained # <<>>
  /\ Addendum.deleted \in Seq(GoneEntries) /\ Addendum.deleted[1] \in GoneEntries
<1>1. {"retained", "deleted", "generated", "findings"} \subseteq DOMAIN Addendum
      /\ Addendum.generated \in Int
  BY DEF Addendum
<1>2. Addendum.retained = <<[artifact |-> "e1", class |-> Retained, at |-> 10],
                            [artifact |-> "e2", class |-> Retained, at |-> 10],
                            [artifact |-> "a2", class |-> OptIn, at |-> 10]>>
      /\ Addendum.deleted = <<[artifact |-> "a1", deletion |-> "del1", at |-> 12,
                               status |-> "verified"]>>
  BY DEF Addendum
<1>4. [artifact |-> "a1", deletion |-> "del1", at |-> 12, status |-> "verified"] \in GoneEntries
  BY DEF GoneEntries
<1>5. /\ [artifact |-> "e1", class |-> Retained, at |-> 10] \in KeptEntries
      /\ [artifact |-> "e2", class |-> Retained, at |-> 10] \in KeptEntries
      /\ [artifact |-> "a2", class |-> OptIn, at |-> 10] \in KeptEntries
  BY DEF KeptEntries
<1>6. \A x \in GoneEntries : <<x>> \in Seq(GoneEntries) /\ <<x>>[1] = x
  OBVIOUS
<1>7. \A x, y, z \in KeptEntries : <<x, y, z>> \in Seq(KeptEntries) /\ <<x, y, z>> # <<>>
  OBVIOUS
<1> QED
  BY <1>1, <1>2, <1>4, <1>5, <1>6, <1>7

(* Whatever the author puts in place of the addendum's entries is one.     *)
LEMMA EditedEntriesTyped ==
  /\ \A v \in PassAlternatives("retained") : v \in Seq(KeptEntries)
  /\ \A v \in PassAlternatives("deleted") : v \in Seq(GoneEntries)
  /\ \A v \in PassAlternatives("generated") : v \in Int
<1>1. PassAlternatives("generated") = {0, 2, 9, 10, 12, 15, 30, 31}
  BY DEF PassAlternatives
<1>2. PassAlternatives("retained") = {Addendum.retained, Tail(Addendum.retained),
                                      Addendum.retained \o Addendum.retained}
  BY DEF PassAlternatives
<1>3. PassAlternatives("deleted") =
        {<<>>} \cup {<<[Addendum.deleted[1] EXCEPT !.at = t, !.status = v]>> :
                       t \in {9, 12, 31}, v \in {"verified", "pending"}}
  BY DEF PassAlternatives
<1>4. \A v \in PassAlternatives("retained") : v \in Seq(KeptEntries)
  <2>1. Addendum.retained \in Seq(KeptEntries) /\ Addendum.retained # <<>>
    BY AddendumTyped
  <2>2. Tail(Addendum.retained) \in Seq(KeptEntries)
    BY <2>1, HeadTailProperties
  <2>3. Addendum.retained \o Addendum.retained \in Seq(KeptEntries)
    BY <2>1, ConcatProperties
  <2> QED
    BY <1>2, <2>1, <2>2, <2>3
<1>5. \A v \in PassAlternatives("deleted") : v \in Seq(GoneEntries)
  <2>1. Addendum.deleted[1] \in GoneEntries
    BY AddendumTyped
  <2>2. \A x \in GoneEntries, t \in Int, v \in {"verified", "pending"} :
          [x EXCEPT !.at = t, !.status = v] \in GoneEntries
    <3>1. \A x \in GoneEntries, t \in Int : [x EXCEPT !.at = t] \in GoneEntries
      BY DEF GoneEntries
    <3>2. \A x \in GoneEntries, v \in {"verified", "pending"} :
            [x EXCEPT !.status = v] \in GoneEntries
      BY DEF GoneEntries
    <3>3. \A x, t, v : [x EXCEPT !.at = t, !.status = v]
                          = [[x EXCEPT !.at = t] EXCEPT !.status = v]
      OBVIOUS
    <3> QED
      BY <3>1, <3>2, <3>3
  <2>3. \A x \in GoneEntries : <<x>> \in Seq(GoneEntries)
    OBVIOUS
  <2>4. <<>> \in Seq(GoneEntries)
    OBVIOUS
  <2> SUFFICES ASSUME NEW q \in PassAlternatives("deleted"), q # <<>> PROVE q \in Seq(GoneEntries)
    BY <2>4
  <2>5. PICK t \in {9, 12, 31}, v \in {"verified", "pending"} :
          q = <<[Addendum.deleted[1] EXCEPT !.at = t, !.status = v]>>
    BY <1>3
  <2>6. [Addendum.deleted[1] EXCEPT !.at = t, !.status = v] \in GoneEntries
    <3> DEFINE x == Addendum.deleted[1]
    <3>1. x \in GoneEntries /\ t \in Int
      BY <2>1
    <3> HIDE DEF x
    <3>2. [x EXCEPT !.at = t, !.status = v] \in GoneEntries
      BY <2>2, <3>1
    <3> QED
      BY <3>2 DEF x
  <2> QED
    BY <2>3, <2>5, <2>6
<1> QED
  BY <1>1, <1>4, <1>5

LEMMA PassInitHolds == PassInit => PassIInv
<1> SUFFICES ASSUME PassInit PROVE PassIInv
  OBVIOUS
<1>1. /\ {"evidence", "scopes"} \subseteq DOMAIN HonestWorld
      /\ HonestWorld.evidence = {Evidence("d1"), Evidence("d2")} /\ HonestWorld.scopes = {Scope}
  BY DEF HonestWorld
<1>2. WorldHolds
  BY <1>1 DEF PassInit, WorldHolds, PassEvidence, PassScopes
<1>3. ViewHolds
  BY <1>1 DEF PassInit, ViewHolds, PassEvidence, PassScopes
<1>4. AddendumHolds
  <2> SUFFICES ASSUME passKind = "addendum" PROVE AddendumHolds
    BY DEF AddendumHolds
  <2>1. doc = Addendum
    BY DEF PassInit, HonestPass
  <2> QED
    BY <2>1, AddendumTyped DEF AddendumHolds
<1> QED
  BY <1>2, <1>3, <1>4 DEF PassIInv

LEMMA WorldMoves ==
  ASSUME PassIInv, NEW part \in {"events", "decisions", "classifications", "guidance", "statuses",
                                "deletions", "lifecycle", "scopes", "evidence"}, NEW v,
         part = "evidence" => v \subseteq PassEvidence, part = "scopes" => v \subseteq PassScopes
  PROVE  LET w == [world EXCEPT ![part] = v] IN
         /\ {"evidence", "scopes"} \subseteq DOMAIN w
         /\ w.evidence \subseteq PassEvidence /\ w.scopes \subseteq PassScopes
<1> DEFINE w == [world EXCEPT ![part] = v]
<1>1. DOMAIN w = DOMAIN world
  OBVIOUS
<1>2. w.evidence = IF part = "evidence" THEN v ELSE world.evidence
  BY DEF PassIInv, WorldHolds
<1>3. w.scopes = IF part = "scopes" THEN v ELSE world.scopes
  BY DEF PassIInv, WorldHolds
<1> HIDE DEF w
<1>4. /\ {"evidence", "scopes"} \subseteq DOMAIN w
      /\ w.evidence \subseteq PassEvidence /\ w.scopes \subseteq PassScopes
  BY <1>1, <1>2, <1>3 DEF PassIInv, WorldHolds
<1> QED
  BY ONLY <1>4 DEF w

(* A step that leaves the document and the view alone. *)
LEMMA MovesKeep ==
  ASSUME PassIInv, NEW w, Moves(w),
         /\ {"evidence", "scopes"} \subseteq DOMAIN w
         /\ w.evidence \subseteq PassEvidence /\ w.scopes \subseteq PassScopes
  PROVE  PassIInv'
<1>1. world' = w /\ UNCHANGED <<passKind, doc, view>>
  BY DEF Moves
<1> QED
  BY <1>1 DEF PassIInv, WorldHolds, ViewHolds, AddendumHolds

LEMMA EditKeeps == ASSUME PassIInv, PassEdit PROVE PassIInv'
<1>1. WorldHolds' /\ ViewHolds'
  BY DEF PassEdit, PassIInv, WorldHolds, ViewHolds
<1>2. AddendumHolds'
  <2> SUFFICES ASSUME passKind' = "addendum" PROVE AddendumHolds'
    BY DEF AddendumHolds
  <2>1. passKind = "addendum"
    BY DEF PassEdit
  <2>2. /\ {"retained", "deleted", "generated", "findings"} \subseteq DOMAIN doc
        /\ doc.retained \in Seq(KeptEntries) /\ doc.deleted \in Seq(GoneEntries)
        /\ doc.generated \in Int
    BY <2>1 DEF PassIInv, AddendumHolds
  <2>3. CASE \E f \in DOMAIN doc : \E v \in PassAlternativesIn(passKind, f) \ {doc[f]} :
               doc' = [doc EXCEPT ![f] = v]
    <3>1. PICK f \in DOMAIN doc : \E v \in PassAlternativesIn(passKind, f) :
            doc' = [doc EXCEPT ![f] = v]
      BY <2>3
    <3>1a. PICK v \in PassAlternativesIn(passKind, f) : doc' = [doc EXCEPT ![f] = v]
      BY <3>1
    <3>2. f \in {"retained", "deleted", "generated"} => v \in PassAlternatives(f)
      BY DEF PassAlternativesIn
    <3>3. /\ DOMAIN doc' = DOMAIN doc
          /\ doc'.retained = (IF f = "retained" THEN v ELSE doc.retained)
          /\ doc'.deleted = (IF f = "deleted" THEN v ELSE doc.deleted)
          /\ doc'.generated = (IF f = "generated" THEN v ELSE doc.generated)
      BY <2>2, <3>1a
    <3> QED
      BY <2>2, <3>2, <3>3, EditedEntriesTyped DEF AddendumHolds
  <2>4. CASE \E i \in DOMAIN doc.findings : \E f \in DOMAIN doc.findings[i] :
               \E v \in PassAlternatives(f) \ {doc.findings[i][f]} :
                 doc' = [doc EXCEPT !.findings[i][f] = v]
    <3>1. /\ DOMAIN doc' = DOMAIN doc
          /\ doc'.retained = doc.retained /\ doc'.deleted = doc.deleted
          /\ doc'.generated = doc.generated
      BY <2>2, <2>4
    <3> QED
      BY <2>2, <3>1 DEF AddendumHolds
  <2> QED
    BY <2>3, <2>4 DEF PassEdit
<1> QED
  BY <1>1, <1>2 DEF PassIInv

LEMMA PassStepHolds == PassIInv /\ [PassNext]_passVars => PassIInv'
<1> SUFFICES ASSUME PassIInv, [PassNext]_passVars PROVE PassIInv'
  OBVIOUS
<1>1. CASE PassEdit
  BY <1>1, EditKeeps
<1>2. CASE CorrectScope
  <2>1. Moves([world EXCEPT !.scopes = @ \cup {CorrectedScope}])
    BY <1>2 DEF CorrectScope, CorrectedScope
  <2>2. world.scopes \cup {CorrectedScope} \subseteq PassScopes
    BY DEF PassIInv, WorldHolds, PassScopes
  <2> QED
    BY <2>1, <2>2, WorldMoves, MovesKeep
<1>3. CASE CorrectEvidence
  <2> DEFINE w == [world EXCEPT !.evidence = @ \cup {CorrectedFollowUp},
                                !.events = Append(@, Event("ev5", "verification_evidence_recorded",
                                                           "e1", 2, "ev1"))]
  <2>1. Moves(w)
    BY <1>3 DEF CorrectEvidence, CorrectedFollowUp
  <2>2. DOMAIN w = DOMAIN world /\ w.evidence = world.evidence \cup {CorrectedFollowUp}
        /\ w.scopes = world.scopes
    BY DEF PassIInv, WorldHolds
  <2> HIDE DEF w
  <2> QED
    BY <2>1, <2>2, MovesKeep DEF PassIInv, WorldHolds, PassEvidence
<1>4. CASE CorrectDecision
  <2> DEFINE w == [world EXCEPT !.decisions = {[Decision("d1") EXCEPT !.version = 2], Decision("d2")},
                                !.events = Append(@, Event("ev5", "verification_recorded",
                                                           "v1", 2, "ev3"))]
  <2>1. Moves(w)
    BY <1>4 DEF CorrectDecision
  <2>2. DOMAIN w = DOMAIN world /\ w.evidence = world.evidence /\ w.scopes = world.scopes
    BY DEF PassIInv, WorldHolds
  <2> HIDE DEF w
  <2> QED
    BY <2>1, <2>2, MovesKeep DEF PassIInv, WorldHolds
<1>5. CASE Reclassify \/ Readvise \/ Restate
  <2>1. PICK w : Moves(w) /\ DOMAIN w = DOMAIN world /\ w.evidence = world.evidence
                 /\ w.scopes = world.scopes
    BY <1>5 DEF Reclassify, Readvise, Restate, PassIInv, WorldHolds
  <2> QED
    BY <2>1, MovesKeep DEF PassIInv, WorldHolds
<1>6. CASE DeleteAgain
  <2> DEFINE w == [world EXCEPT !.deletions = @ \cup {[id |-> "del2", artifacts |-> {"a1"}, at |-> 31,
                                                      status |-> "intended"]},
                                !.lifecycle = @ \cup {[review |-> "r1", artifact |-> "a1",
                                                      deletion |-> "del1", at |-> 31,
                                                      class |-> "transient_source_derived"]}]
  <2>1. Moves(w)
    BY <1>6 DEF DeleteAgain
  <2>2. DOMAIN w = DOMAIN world /\ w.evidence = world.evidence /\ w.scopes = world.scopes
    BY DEF PassIInv, WorldHolds
  <2> HIDE DEF w
  <2> QED
    BY <2>1, <2>2, MovesKeep DEF PassIInv, WorldHolds
<1>7. CASE \E p \in Parts : Read(p)
  <2>1. PICK p \in Parts : Read(p)
    BY <1>7
  <2>2. /\ DOMAIN view' = DOMAIN view
        /\ view'.evidence = IF p = "evidence" THEN world.evidence ELSE view.evidence
    BY <2>1 DEF Read, PassIInv, ViewHolds
  <2>3. view'.scopes = IF p = "scopes" THEN world.scopes ELSE view.scopes
    BY <2>1 DEF Read, PassIInv, ViewHolds
  <2>4. view'.records = view.records
    BY <2>1 DEF Read, PassIInv, ViewHolds, Parts
  <2>5. UNCHANGED <<passKind, doc, world>>
    BY <2>1 DEF Read
  <2> QED
    BY <2>2, <2>3, <2>4, <2>5 DEF PassIInv, WorldHolds, ViewHolds, AddendumHolds
<1>8. CASE PickScope
  <2>1. /\ DOMAIN view' = DOMAIN view /\ view'.evidence = view.evidence
        /\ view'.scopes = view.scopes /\ view'.records = view.records
    BY <1>8 DEF PickScope, PassIInv, ViewHolds
  <2>2. UNCHANGED <<passKind, doc, world>>
    BY <1>8 DEF PickScope
  <2> QED
    BY <2>1, <2>2 DEF PassIInv, WorldHolds, ViewHolds, AddendumHolds
<1>9. CASE PickEvidence
  <2>1. PICK e \in world.evidence :
          view' = [view EXCEPT !.records = {x \in @ : x.id # e.id} \cup {e}]
    BY <1>9 DEF PickEvidence
  <2>2. /\ DOMAIN view' = DOMAIN view /\ view'.evidence = view.evidence
        /\ view'.scopes = view.scopes
        /\ view'.records = {x \in view.records : x.id # e.id} \cup {e}
    BY <2>1 DEF PassIInv, ViewHolds
  <2>3. UNCHANGED <<passKind, doc, world>>
    BY <1>9 DEF PickEvidence
  <2> QED
    BY <2>2, <2>3 DEF PassIInv, WorldHolds, ViewHolds, AddendumHolds
<1>10. CASE UNCHANGED passVars
  BY <1>10 DEF passVars, PassIInv, WorldHolds, ViewHolds, AddendumHolds
<1> QED
  BY <1>1, <1>2, <1>3, <1>4, <1>5, <1>6, <1>7, <1>8, <1>9, <1>10 DEF PassNext

LEMMA ViewIsOnePass == PassIInv => OnePass(view)
<1> SUFFICES ASSUME PassIInv PROVE OnePass(view)
  OBVIOUS
<1>1. view.evidence \subseteq PassEvidence /\ view.scopes \subseteq PassScopes
  BY DEF PassIInv, ViewHolds
<1> QED
  BY <1>1, PassEvidenceTyped, PassScopesTyped DEF OnePass

LEMMA HeadsDecide == PassIInv => DecidedOnHeads
<1> SUFFICES ASSUME PassIInv, PassAccepted PROVE DecidedOnHeads
  BY DEF DecidedOnHeads
<1>1. OnePass(view)
  BY ViewIsOnePass
<1>2. CASE passKind \in {"decision1", "decision2"}
  <2>1. PICK c : decisionAccepted(doc, view.scope, c,
                   {e \in view.records : e.id \in Elements(doc.evidence)}, view)
    BY <1>2 DEF PassAccepted
  <2>2. \A id \in Elements(doc.evidence) : \E e \in view.records : IsHead(e, id, doc, view)
    BY <1>1, <2>1, DecisionRestsOnHeads
  <2> QED
    BY <1>2, <2>2 DEF DecidedOnHeads, IsHead
<1>3. CASE passKind = "addendum"
  <2>1. addendumAccepted(doc, view.scope, view.decisions, view.records, view)
    BY <1>3 DEF PassAccepted
  <2>2. \A x \in Elements(doc.findings) : \A d \in view.decisions : x.decision = d.id =>
          \A id \in Elements(d.evidence) : \E e \in view.records : IsHead(e, id, d, view)
    BY <1>1, <2>1, AddendumRestsOnHeads
  <2> QED
    BY <1>3, <2>2 DEF DecidedOnHeads, IsHead
<1>4. CASE passKind \notin {"decision1", "decision2", "addendum"}
  BY <1>4 DEF DecidedOnHeads
<1> QED
  BY <1>2, <1>3, <1>4

LEMMA SourceAccounted == PassIInv => SourceIsAccountedFor
<1> SUFFICES ASSUME PassIInv, PassAccepted, passKind = "addendum" PROVE SourceIsAccountedFor
  BY DEF SourceIsAccountedFor
<1>1. addendumAccepted(doc, view.scope, view.decisions, view.records, view)
  BY DEF PassAccepted
<1>2. Dated(doc, view.records)
  <2>1. \A e \in view.records : e.at \in Int
    BY PassEvidenceTyped DEF PassIInv, ViewHolds
  <2>2. /\ doc.retained \in Seq(KeptEntries) /\ doc.deleted \in Seq(GoneEntries)
        /\ doc.generated \in Int
    BY DEF PassIInv, AddendumHolds
  <2>3. \A i \in DOMAIN doc.deleted : doc.deleted[i].at \in Int
    <3> SUFFICES ASSUME NEW i \in DOMAIN doc.deleted PROVE doc.deleted[i].at \in Int
      OBVIOUS
    <3>1. doc.deleted[i] \in GoneEntries
      BY <2>2, ElementOfSeq, LenProperties
    <3> QED
      BY <3>1 DEF GoneEntries
  <2>4. doc.retained \in Seq(KeptEntries \cup GoneEntries)
        /\ doc.deleted \in Seq(KeptEntries \cup GoneEntries)
    BY <2>2
  <2> QED
    BY <2>1, <2>2, <2>3, <2>4 DEF Dated
<1> QED
  BY <1>1, <1>2, AddendumAccountsForSource DEF SourceIsAccountedFor

-----------------------------------------------------------------------------
(* The two copies of the scanners, on any text.                            *)

(* What the gate refuses to show a customer the control plane refuses.     *)
LEMMA ForbiddenCovers ==
  ASSUME NEW t, gateCustomerVisibleTextForbidden(t)
  PROVE  customerVisibleTextForbidden(t)
BY DEF gateCustomerVisibleTextForbidden, customerVisibleTextForbidden,
       sharedForbiddenPhrasePresent, claimSafeForbiddenPhrase

LEMMA RemediationScanCovers ==
  ASSUME NEW t, collectRemediationTextViolations(t, FALSE)
  PROVE  textHasForbiddenClassificationContent(t)
BY ForbiddenCovers DEF collectRemediationTextViolations, textHasForbiddenClassificationContent,
       secretPhrasePresent, sourceTextForbiddenPhrase

LEMMA PublicScanCovers ==
  ASSUME NEW t, forbiddenPublicContentReason(t)
  PROVE  textHasForbiddenClassificationContent(t)
BY ForbiddenCovers DEF forbiddenPublicContentReason, textHasForbiddenClassificationContent,
       secretPhrasePresent, sourceTextForbiddenPhrase

LEMMA CodeScanCovers ==
  ASSUME NEW t, collectRemediationTextViolations(t, TRUE)
  PROVE  textHasForbiddenClassificationOrSourceCodeContent(t)
BY ForbiddenCovers DEF collectRemediationTextViolations, textHasForbiddenClassificationContent,
       secretPhrasePresent, sourceTextForbiddenPhrase,
       textHasForbiddenClassificationOrSourceCodeContent

(* A closure claim that no cue takes back, even across a colon, is not     *)
(* taken back where a colon ends the negation.                             *)
LEMMA ClosureScanCovers ==
  ASSUME NEW t, verificationScopeTextHasClosureClaim(t)
  PROVE  claimSafePositiveClosurePhrase(t)
BY DEF verificationScopeTextHasClosureClaim, claimSafePositiveClosurePhrase, regexAppearsPositively

LEMMA ScopeScanCovers ==
  ASSUME NEW t, gateScopeTextHasForbiddenContent(t)
  PROVE  verificationArtifactTextHasForbiddenContent(t)
BY ForbiddenCovers, ClosureScanCovers
   DEF gateScopeTextHasForbiddenContent, verificationArtifactTextHasForbiddenContent,
       textHasForbiddenClassificationContent, secretPhrasePresent, sourceTextForbiddenPhrase

LEMMA MeaningfulCovers ==
  ASSUME NEW t, isMeaningfulClassificationText(t)
  PROVE  isMeaningfulRemediationText(t)
BY DEF isMeaningfulClassificationText, isMeaningfulRemediationText

LEMMA MeaningfulToGate ==
  ASSUME NEW t, MeaningfulTo(ControlPlane, t)
  PROVE  MeaningfulTo(Gate, t)
BY MeaningfulCovers DEF MeaningfulTo, ControlPlane, Gate

(* A claim of the shared alternatives that the control plane lets pass is  *)
(* excused by a negation; in its own clause it excuses it for the gate.    *)
LEMMA ClosureClaimCovers ==
  ASSUME NEW t, ~acceptedRiskTextHasForbiddenContent(t), ~ExcusedElsewhere(t), ~OnlyGateKnows(t)
  PROVE  ~acceptedRiskTextHasPositiveClosureClaim(t)
<1> SUFFICES ASSUME NEW i \in DOMAIN t, t[i] \in PositiveClaims \cup GateOnlyClaims,
                    ~ExcusedInClause(t, i)
             PROVE  FALSE
  BY DEF acceptedRiskTextHasPositiveClosureClaim
<1>1. t[i] \in PositiveClaims
  BY DEF OnlyGateKnows
<1>2. ExcusedAnywhere(t)
  BY <1>1 DEF acceptedRiskTextHasForbiddenContent
<1> QED
  BY <1>1, <1>2 DEF ExcusedElsewhere

LEMMA AcceptedRiskScanCovers ==
  ASSUME NEW t, ~acceptedRiskTextHasForbiddenContent(t), ~ExcusedElsewhere(t), ~OnlyGateKnows(t)
  PROVE  ~collectRemediationTextViolations(t, FALSE) /\ ~acceptedRiskTextHasPositiveClosureClaim(t)
BY RemediationScanCovers, ClosureClaimCovers DEF acceptedRiskTextHasForbiddenContent

LEMMA ScansCoverGate == RuntimeScansCoverGate
BY PublicScanCovers, CodeScanCovers, ScopeScanCovers, MeaningfulCovers, ClosureClaimCovers
   DEF RuntimeScansCoverGate

-----------------------------------------------------------------------------
(* The two judges of each record, on any record.                           *)

LEMMA StateCovers ==
  ASSUME NEW s, NEW refs, refs # {}, classificationSourceReferenceStateMatchesDraft(s, refs)
  PROVE  gateSourceReferenceStateMatchesDraft(s, refs)
BY DEF gateSourceReferenceStateMatchesDraft

(* Apart from snippets, both judges have the same rule for a basis. *)
LEMMA BasisCovers ==
  ASSUME NEW basis, NEW refs, classificationEvidenceBasisMatchesDraft(basis, refs),
         "finding_context_snippet" \notin basis, basis \subseteq EvidenceBases
  PROVE  gateEvidenceBasisMatchesDraft(basis, refs)
<1> SUFFICES ASSUME NEW b \in basis PROVE \E r \in refs : BasisRule(b, r, {"transient_source_derived"})
  BY DEF gateEvidenceBasisMatchesDraft
<1>1. PICK r \in refs : BasisRule(b, r, {"transient_source_derived", "customer_opt_in_retained_source"})
  BY DEF classificationEvidenceBasisMatchesDraft
<1>2. b # "finding_context_snippet" /\ b \in EvidenceBases
  OBVIOUS
<1>3. BasisRule(b, r, {"transient_source_derived"})
  BY <1>1, <1>2 DEF BasisRule, EvidenceBases, CLASSIFICATION_INSUFFICIENT_CONFIRMED_BASIS, Retained
<1> QED
  BY <1>3

LEMMA ClassificationCovers ==
  ASSUME NEW c, classificationAccepted(c), ClassificationSchema(c),
         "finding_context_snippet" \notin c.basis
  PROVE  gateClassificationAccepted(c)
<1>1. gateEvidenceBasisMatchesDraft(c.basis, c.refs)
  BY BasisCovers DEF classificationAccepted, ClassificationSchema, BasisSchema
<1>2. gateSourceReferenceStateMatchesDraft(c.state, c.refs)
  BY StateCovers DEF classificationAccepted
<1>3. \A t : collectFindingClassificationTextViolations(t) =>
               textHasForbiddenClassificationOrSourceCodeContent(t)
  BY PublicScanCovers DEF collectFindingClassificationTextViolations, forbiddenPublicContentReason,
       textHasForbiddenClassificationOrSourceCodeContent
<1> QED
  BY <1>1, <1>2, <1>3 DEF classificationAccepted, gateClassificationAccepted

LEMMA GuidanceCovers ==
  ASSUME NEW g, NEW c, guidanceAccepted(g, c)
  PROVE  gateGuidanceAccepted(g)
<1>1. ActionableHolds(g, Gate)
  BY MeaningfulToGate DEF guidanceAccepted, ActionableHolds
<1>2. LimitedHolds(g, Gate)
  BY MeaningfulToGate DEF guidanceAccepted, LimitedHolds
<1> QED
  BY <1>1, <1>2, RemediationScanCovers DEF guidanceAccepted, gateGuidanceAccepted

LEMMA StatusCovers ==
  ASSUME NEW s, statusAccepted(s)
  PROVE  gateStatusAccepted(s)
BY RemediationScanCovers DEF statusAccepted, gateStatusAccepted

LEMMA FalsePositiveCovers ==
  ASSUME NEW f, NEW c, falsePositiveAccepted(f, c), FalsePositiveSchema(f),
         "finding_context_snippet" \notin f.basis
  PROVE  gateFalsePositiveAccepted(f, c)
<1>1. gateEvidenceBasisMatchesDraft(f.basis, f.refs) /\ f.basis # {}
  BY BasisCovers DEF falsePositiveAccepted, FalsePositiveSchema, BasisSchema
<1>2. gateSourceReferenceStateMatchesDraft(f.state, f.refs)
  BY StateCovers DEF falsePositiveAccepted, classificationAccepted
<1> QED
  BY <1>1, <1>2, RemediationScanCovers, MeaningfulCovers
     DEF falsePositiveAccepted, gateFalsePositiveAccepted, OutcomeIsBound

LEMMA PathCovers ==
  ASSUME NEW p, NEW cs, NEW gs, NEW scripts, validationPathAccepted(p, cs, gs, scripts)
  PROVE  gateValidationPathAccepted(p)
<1>1. RemoteFieldsHold(p, Gate)
  BY MeaningfulToGate DEF validationPathAccepted, RemoteFieldsHold
<1> QED
  BY <1>1, RemediationScanCovers, MeaningfulCovers, StateCovers
     DEF validationPathAccepted, gateValidationPathAccepted

LEMMA ScriptCovers ==
  ASSUME NEW s, NEW p, NEW taken, validationScriptAccepted(s, p, taken)
  PROVE  gateValidationScriptAccepted(s) /\ gateScriptPackageAccepted(s, taken)
BY RemediationScanCovers
   DEF validationScriptAccepted, gateValidationScriptAccepted, gateScriptPackageAccepted

LEMMA AcceptedRiskCovers ==
  ASSUME NEW a, NEW c, NEW guidance, NEW path, NEW scripts,
         acceptedRiskAccepted(a, c, guidance, path, scripts), AcceptedRiskSchema(a),
         "finding_context_snippet" \notin a.basis,
         \A t \in AcceptedRiskTexts(a) : ~ExcusedElsewhere(t) /\ ~OnlyGateKnows(t)
  PROVE  gateAcceptedRiskAccepted(a, c)
<1>1. gateEvidenceBasisMatchesDraft(a.basis, a.refs) /\ a.basis # {}
  BY BasisCovers DEF acceptedRiskAccepted, AcceptedRiskSchema, BasisSchema
<1>2. gateSourceReferenceStateMatchesDraft(a.state, a.refs)
  BY StateCovers DEF acceptedRiskAccepted, classificationAccepted
<1>3. CustomerAccepts(a, Gate)
  BY MeaningfulToGate DEF acceptedRiskAccepted, CustomerAccepts
<1>4. \A t \in AcceptedRiskTexts(a) :
        ~collectRemediationTextViolations(t, FALSE) /\ ~acceptedRiskTextHasPositiveClosureClaim(t)
  BY AcceptedRiskScanCovers DEF acceptedRiskAccepted
<1> QED
  BY <1>1, <1>2, <1>3, <1>4, MeaningfulCovers
     DEF acceptedRiskAccepted, gateAcceptedRiskAccepted, OutcomeIsBound

LEMMA OutcomeCovers ==
  ASSUME NEW o, outcomeAccepted(o)
  PROVE  gateOutcomeAccepted(o)
BY PublicScanCovers DEF outcomeAccepted, gateOutcomeAccepted, rejectionForSubmissionIdentities

LEMMA MappingCovers ==
  ASSUME NEW m, NEW a, mappingAccepted(m, a)
  PROVE  gateMappingAccepted(m)
BY RemediationScanCovers
   DEF mappingAccepted, gateMappingAccepted, MappingSchema, customerProseForbidden

LEMMA AttestationCovers ==
  ASSUME NEW a, NEW w, attestationAccepted(a, w)
  PROVE  gateAttestationAccepted(a)
BY RemediationScanCovers
   DEF attestationAccepted, gateAttestationAccepted, AttestationSchema, SectionsSchema,
       customerProseForbidden

LEMMA NarrativeCovers ==
  ASSUME NEW t, ~epic5NarrativeTextForbidden(t)
  PROVE  ~collectRemediationTextViolations(t, FALSE)
BY RemediationScanCovers DEF epic5NarrativeTextForbidden, textHasForbiddenClassificationContent

LEMMA ManifestCovers ==
  ASSUME NEW m, manifestAccepted(m), PathsHaveTheirRoles(m), GeneratedSupersedesNothing(m)
  PROVE  gateManifestAccepted(m)
BY NarrativeCovers DEF manifestAccepted, gateManifestAccepted

LEMMA PortalCovers ==
  ASSUME NEW p, portalAccepted(p), NavigationIsInOrder(p)
  PROVE  gatePortalAccepted(p)
BY NarrativeCovers DEF portalAccepted, gatePortalAccepted

LEMMA PilotMetricCovers ==
  ASSUME NEW p, pilotMetricAccepted(p)
  PROVE  gatePilotMetricAccepted(p)
BY NarrativeCovers DEF pilotMetricAccepted, gatePilotMetricAccepted, PilotMetricSchema, PilotSchema

LEMMA PilotFeedbackCovers ==
  ASSUME NEW p, pilotFeedbackAccepted(p)
  PROVE  gatePilotFeedbackAccepted(p)
BY NarrativeCovers DEF pilotFeedbackAccepted, gatePilotFeedbackAccepted, PilotFeedbackSchema, PilotSchema

-----------------------------------------------------------------------------
(* The drafts of MCRecords. *)

LEMMA HonestKinds ==
  /\ DOMAIN Honest = {"classification", "guidance", "status", "falsePositive", "path", "script",
                      "acceptedRisk", "outcome", "passScope", "passEvidence", "passDecision",
                      "attestation", "mapping", "staticBundle", "portal", "finalization",
                      "pilotMetric", "pilotFeedback"}
  /\ Honest["classification"] = HonestClass
  /\ Honest["attestation"] = HonestAttestation
  /\ Honest["mapping"] = HonestMapping
  /\ Honest["staticBundle"] = HonestManifest
  /\ Honest["portal"] = HonestPortal
  /\ Honest["finalization"] = HonestFinalization
  /\ Honest["pilotMetric"] = HonestMetric
  /\ Honest["pilotFeedback"] = HonestFeedback
BY DEF Honest

(* A draft nobody has edited is the honest one. *)
UntouchedIsHonest ==
  /\ edits \in Nat
  /\ edits = 0 /\ kind \in DOMAIN Honest => rec = Honest[kind] /\ bound = HonestBound(kind)

LEMMA UntouchedInit == Init => UntouchedIsHonest
<1> SUFFICES ASSUME Init PROVE UntouchedIsHonest
  OBVIOUS
<1>1. CASE RecordInit
  <2>1. \A p \in HonestProofs : p[1] \in ProofKinds
    <3> SUFFICES ASSUME NEW p \in HonestProofs PROVE p[1] \in {"proof", "chain"}
      BY DEF ProofKinds
    <3>1. CASE \E n \in 1 .. MaxHeads : \E r \in 1 .. n : p = <<"proof", ProofOf(n, r)>>
      BY <3>1
    <3>2. CASE \E n \in 1 .. MaxHeads : p = <<"chain", ChainOf(n)>>
      BY <3>2
    <3> QED
      BY <3>1, <3>2 DEF HonestProofs
  <2>2. kind \in DOMAIN Honest => rec = Honest[kind]
    BY <1>1, <2>1, HonestKinds DEF RecordInit, ProofKinds
  <2> QED
    BY <1>1, <2>2 DEF RecordInit, UntouchedIsHonest
<1>2. CASE kind = Nothing /\ edits = 0
  BY <1>2, HonestKinds DEF Nothing, UntouchedIsHonest
<1> QED
  BY <1>1, <1>2 DEF Init

LEMMA UntouchedStep == UntouchedIsHonest /\ [Next]_vars => UntouchedIsHonest'
<1> SUFFICES ASSUME UntouchedIsHonest, [Next]_vars PROVE UntouchedIsHonest'
  OBVIOUS
<1>1. CASE \E w \in Tokens : Type(w)
  BY <1>1, HonestKinds DEF Type, UntouchedIsHonest
<1>2. CASE edits' = edits + 1
  BY <1>2 DEF UntouchedIsHonest
<1>3. CASE UNCHANGED recordVars
  BY <1>3 DEF recordVars, UntouchedIsHonest, HonestBound
<1> QED
  BY <1>1, <1>2, <1>3
     DEF Next, RecordNext, Edit, EditClassification, EditPackageRecord, EditContext, EditEnvelope,
         EditProof, vars

-----------------------------------------------------------------------------
(* The honest records.                                                     *)

(* A text without a word the scanners look for. *)
CleanTokens == {"word", "colon", "dot", "bang", "cue"}

CleanText(t) == \A i \in DOMAIN t : t[i] \in CleanTokens

LEMMA CleanIsAccepted ==
  ASSUME NEW t, CleanText(t)
  PROVE  /\ ~sourceTextForbiddenPhrase(t) /\ ~sourceCodeLikeTextReason(t)
         /\ ~claimSafeForbiddenPhrase(t) /\ ~customerProseForbidden(t)
         /\ ~textHasForbiddenClassificationContent(t)
         /\ ~textHasForbiddenClassificationOrSourceCodeContent(t)
         /\ ~verificationArtifactTextHasForbiddenContent(t)
         /\ ~epic5NarrativeTextForbidden(t) /\ ~piiTextForbidden(t)
         /\ ~acceptedRiskTextHasForbiddenContent(t)
         /\ ~InternalLearningText(t)
<1>1. \A w \in {"hidden", "phraseA", "source", "fence", "branch", "pilot", "pii", "assures",
                "closed", "isClosed", "retest", "ref"} : \A i \in DOMAIN t : t[i] # w
  BY DEF CleanText, CleanTokens
<1>2. ~sourceTextForbiddenPhrase(t) /\ ~sourceCodeLikeTextReason(t) /\ ~claimSafeForbiddenPhrase(t)
  BY <1>1 DEF sourceTextForbiddenPhrase, sourceCodeLikeTextReason, claimSafeForbiddenPhrase, Has,
              containsHiddenControlCharacter, PhraseAt, JoinedPhraseAt
<1>3. ~piiTextForbidden(t) /\ ~customerVisibleTextForbidden(t) /\ ~Has(t, "pilot")
  BY <1>1, <1>2 DEF piiTextForbidden, customerVisibleTextForbidden, Has, familyClaimAppearsPositively
<1>4. ~claimSafePositiveClosurePhrase(t) /\ ~ \E i \in DOMAIN t : t[i] \in PositiveClaims
  BY <1>1 DEF claimSafePositiveClosurePhrase, regexAppearsPositively, ClosedWords, PositiveClaims
<1>5. ~textHasForbiddenClassificationContent(t)
  BY <1>2, <1>3 DEF textHasForbiddenClassificationContent
<1> QED
  BY <1>2, <1>3, <1>4, <1>5
     DEF customerProseForbidden, textHasForbiddenClassificationOrSourceCodeContent,
         verificationArtifactTextHasForbiddenContent, epic5NarrativeTextForbidden,
         acceptedRiskTextHasForbiddenContent, InternalLearningText

LEMMA PlainIsMeaningful ==
  /\ Plain = Prose /\ CleanText(Plain) /\ Plain # Absent /\ isMeaningfulClassificationText(Plain)
  /\ CleanText(Absent)
<1>1. Plain = Prose /\ CleanText(Plain) /\ Plain # Absent /\ CleanText(Absent)
  BY DEF Plain, Prose, CleanText, CleanTokens, Absent
<1>2. WordsOf(Plain) = {1, 2, 3}
  BY DEF WordsOf, Plain, Stops
<1>3. Cardinality({1, 2, 3}) = 3
  <2>1. IsFiniteSet({1}) /\ Cardinality({1}) = 1
    BY FS_Singleton
  <2>2. IsFiniteSet({1} \cup {2}) /\ Cardinality({1} \cup {2}) = 2
    BY <2>1, FS_AddElement
  <2>3. Cardinality({1} \cup {2} \cup {3}) = 3
    BY <2>2, FS_AddElement
  <2>4. {1} \cup {2} \cup {3} = {1, 2, 3}
    OBVIOUS
  <2> QED
    BY <2>3, <2>4
<1> QED
  BY <1>1, <1>2, <1>3 DEF isMeaningfulClassificationText

LEMMA HonestRefHolds ==
  /\ draftEvidenceRefsAreConsistent({HonestRef}) /\ EvidenceRefsSchema({HonestRef})
  /\ classificationEvidenceBasisMatchesDraft({Retained}, {HonestRef})
  /\ classificationSourceReferenceStateMatchesDraft(Retained, {HonestRef})
  /\ Retained \in ReferenceStates /\ BasisSchema({Retained})
<1>1. /\ HonestRef.artifact = "retained1" /\ HonestRef.state = Retained /\ HonestRef.available
      /\ HonestRef.display = "available_reference" /\ HonestRef.class = Retained
  BY DEF HonestRef, EvidenceRef
<1>2. /\ 5 \in DOMAIN StatePriority /\ StatePriority[5] = Retained
      /\ \A m \in 1 .. 5 - 1 : StatePriority[m] # Retained
  BY DEF StatePriority, Retained
<1>3. classificationSourceReferenceStateMatchesDraft(Retained, {HonestRef})
  BY <1>1, <1>2 DEF classificationSourceReferenceStateMatchesDraft
<1>4. Retained \in ReferenceStates
  BY <1>2 DEF ReferenceStates
<1>5. classificationEvidenceBasisMatchesDraft({Retained}, {HonestRef})
  BY <1>1 DEF classificationEvidenceBasisMatchesDraft, BasisRule, Retained
<1> QED
  BY <1>1, <1>3, <1>4, <1>5
     DEF draftEvidenceRefsAreConsistent, EvidenceRefsSchema, BasisSchema, EvidenceBases, Retained

LEMMA HonestClassification == classificationAccepted(HonestClass) /\ ClassificationSchema(HonestClass)
<1>1. \A t \in ClassificationTexts(HonestClass) : ~textHasForbiddenClassificationOrSourceCodeContent(t)
  BY PlainIsMeaningful, CleanIsAccepted DEF ClassificationTexts, HonestClass
<1>2. ConfirmedIsDefensible(HonestClass)
  BY PlainIsMeaningful DEF ConfirmedIsDefensible, HonestClass, Retained,
     CLASSIFICATION_INSUFFICIENT_CONFIRMED_BASIS
<1>3. ValidationPathIsNamed(HonestClass)
  BY DEF ValidationPathIsNamed, HonestClass
<1> QED
  BY <1>1, <1>2, <1>3, HonestRefHolds, PlainIsMeaningful
     DEF classificationAccepted, ClassificationSchema, HonestClass, RecordSchema, Visibilities,
         Classifications

LEMMA HonestGuidance ==
  /\ guidanceAccepted(Honest.guidance, HonestClass)
  /\ GuidanceSchema(Honest.guidance) /\ GuidanceListsSchema(Honest.guidance)
<1> DEFINE g == Honest.guidance
<1>1. g = [review |-> "r1", id |-> "g1", classification |-> "c1", draft |-> "d1",
      actor |-> "reviewer", ctx |-> ContextOf(HonestClass), refs |-> {HonestRef},
      state |-> Retained, evidence |-> {"retained1"},
      status |-> "actionable_guidance_provided", exploitability |-> Plain,
      suggested |-> Plain, steps |-> Plain, insufficient |-> Plain, next |-> Plain,
      pathSummary |-> Absent, pathRef |-> FALSE, limits |-> Plain,
      class |-> Retained, visibility |-> "customer_facing"]
  BY DEF Honest
<1>2. /\ HonestClass.classification = "confirmed" /\ HonestClass.criteria = Plain
      /\ HonestClass.basis = {Retained} /\ HonestClass.state = Retained
      /\ HonestClass.refs = {HonestRef} /\ HonestClass.review = "r1" /\ HonestClass.id = "c1"
      /\ HonestClass.draft = "d1"
  BY DEF HonestClass
<1>3. g.ctx = [classification |-> "confirmed", criteria |-> Plain, basis |-> {Retained},
               state |-> Retained]
  BY <1>1, <1>2 DEF ContextOf
<1>4. g.refs = {HonestRef} /\ g.evidence = {"retained1"} /\ g.status = "actionable_guidance_provided"
      /\ g.state = Retained /\ g.actor = "reviewer" /\ g.review = "r1" /\ g.classification = "c1"
      /\ g.draft = "d1" /\ g.limits = Plain /\ g.class = Retained /\ g.visibility = "customer_facing"
      /\ g.suggested = Plain /\ g.steps = Plain /\ g.exploitability = Plain
      /\ g.insufficient = Plain /\ g.next = Plain /\ g.pathSummary = Absent
  BY <1>1
<1> HIDE DEF g
<1>5. \A t \in GuidanceTexts(g) : ~textHasForbiddenClassificationContent(t)
  BY <1>4, PlainIsMeaningful, CleanIsAccepted DEF GuidanceTexts
<1>6. EvidenceIsAvailable(g)
  BY <1>4 DEF EvidenceIsAvailable, HonestRef, EvidenceRef, Shown
<1>7. ActionableHolds(g, ControlPlane) /\ LimitedHolds(g, ControlPlane)
  BY <1>3, <1>4, PlainIsMeaningful DEF ActionableHolds, LimitedHolds, MeaningfulTo, ControlPlane
<1>8. classificationContextMatchesRecord(g, HonestClass)
  BY <1>2, <1>3, <1>4 DEF classificationContextMatchesRecord
<1>9. guidanceAccepted(g, HonestClass)
  BY <1>2, <1>3, <1>4, <1>5, <1>6, <1>7, <1>8, HonestClassification, HonestRefHolds
     DEF guidanceAccepted
<1>10. GuidanceSchema(g) /\ GuidanceListsSchema(g)
  BY <1>3, <1>4, HonestRefHolds, PlainIsMeaningful
     DEF GuidanceSchema, GuidanceListsSchema, ClassificationContextSchema, RecordSchema,
         Visibilities, Classifications
<1> QED
  BY <1>9, <1>10 DEF g

LEMMA HonestStatus == statusAccepted(Honest.status) /\ StatusSchema(Honest.status)
<1> DEFINE s == Honest.status
<1>1. /\ s.actor = "customer_user" /\ s.finding = "d1" /\ s.value = "planned" /\ s.policy = None
      /\ s.class = Retained /\ s.visibility = "customer_facing" /\ s.extra = FALSE
      /\ s.due = "valid" /\ s.owner = Plain /\ s.target = Plain /\ s.notes = Plain
  BY DEF Honest
<1> HIDE DEF s
<1>2. \A t \in StatusTexts(s) : ~textHasForbiddenClassificationContent(t)
  BY <1>1, PlainIsMeaningful, CleanIsAccepted DEF StatusTexts
<1>3. statusAccepted(s) /\ StatusSchema(s)
  BY <1>1, <1>2 DEF statusAccepted, StatusSchema, None, FieldPolicySchema, RecordSchema, Visibilities
<1> QED
  BY <1>3 DEF s

LEMMA HonestFalsePositive ==
  /\ falsePositiveAccepted(Honest.falsePositive, HonestClass)
  /\ FalsePositiveSchema(Honest.falsePositive) /\ FalsePositiveListsSchema(Honest.falsePositive)
<1> DEFINE f == Honest.falsePositive
<1>1. /\ f.review = "r1" /\ f.classification = "c1" /\ f.draft = "d1" /\ f.actor = "reviewer"
      /\ f.refs = {HonestRef} /\ f.state = Retained /\ f.basis = {Retained} /\ f.rationale = Plain
      /\ f.limits = Plain /\ f.policy = None /\ f.class = Retained /\ f.visibility = "internal_only"
  BY DEF Honest
<1>2. /\ HonestClass.refs = {HonestRef} /\ HonestClass.review = "r1" /\ HonestClass.id = "c1"
      /\ HonestClass.draft = "d1" /\ HonestClass.state = Retained
  BY DEF HonestClass
<1> HIDE DEF f
<1>3. falsePositiveAccepted(f, HonestClass)
  BY <1>1, <1>2, HonestClassification, HonestRefHolds, PlainIsMeaningful, CleanIsAccepted
     DEF falsePositiveAccepted
<1>4. FalsePositiveSchema(f) /\ FalsePositiveListsSchema(f)
  BY <1>1, HonestRefHolds, PlainIsMeaningful
     DEF FalsePositiveSchema, FalsePositiveListsSchema, FieldPolicySchema, RecordSchema, Visibilities
<1> QED
  BY <1>3, <1>4 DEF f

LEMMA HonestValidationPath ==
  /\ validationPathAccepted(Honest.path, {HonestClass}, {}, {HonestScript})
  /\ PathSchema(Honest.path) /\ PathOptionsSchema(Honest.path)
<1> DEFINE p == Honest.path
<1>1. /\ p.review = "r1" /\ p.classification = "c1" /\ p.draft = "d1" /\ p.actor = "reviewer"
      /\ p.refs = {HonestRef} /\ p.state = Retained /\ p.type = "manual_steps" /\ p.scripts = {}
      /\ p.collect = FALSE /\ p.steps = Plain /\ p.expected = Plain /\ p.limits = Plain
      /\ p.target = Absent /\ p.authorization = Absent /\ p.method = Absent /\ p.safety = Absent
      /\ p.attachment = Plain /\ p.verifiability = "verifiable_within_included_pass"
      /\ p.class = Retained /\ p.visibility = "customer_facing"
  BY DEF Honest
<1>2. /\ HonestClass.refs = {HonestRef} /\ HonestClass.review = "r1" /\ HonestClass.id = "c1"
      /\ HonestClass.draft = "d1" /\ HonestClass.state = Retained
  BY DEF HonestClass
<1> HIDE DEF p
<1>3. \A t \in PathTexts(p) : ~textHasForbiddenClassificationContent(t)
  BY <1>1, PlainIsMeaningful, CleanIsAccepted DEF PathTexts
<1>4. RemoteFieldsHold(p, ControlPlane) /\ ScriptRefsHold(p) /\ ScriptsResolve(p, {HonestScript})
  BY <1>1 DEF RemoteFieldsHold, ScriptRefsHold, ScriptsResolve, RemoteTexts
<1>5. validationPathAccepted(p, {HonestClass}, {}, {HonestScript})
  BY <1>1, <1>2, <1>3, <1>4, HonestRefHolds, PlainIsMeaningful
     DEF validationPathAccepted, PathMatchesClassification
<1>6. PathSchema(p) /\ PathOptionsSchema(p)
  BY <1>1, HonestRefHolds, PlainIsMeaningful
     DEF PathSchema, PathOptionsSchema, RecordSchema, Visibilities
<1> QED
  BY <1>5, <1>6 DEF p

LEMMA HonestValidationScript ==
  validationScriptAccepted(Honest.script, ScriptPath, {2}) /\ ScriptSchema(Honest.script)
<1> DEFINE s == Honest.script
<1>1. /\ s.review = "r1" /\ s.path = "p1" /\ s.classification = "c1" /\ s.actor = "reviewer"
      /\ s.package = "included_base_package" /\ s.slot = 1 /\ s.text = Plain
      /\ s.class = Retained /\ s.visibility = "internal_only"
  BY DEF Honest
<1>2. /\ ScriptPath.type = "customer_run_script" /\ ScriptPath.review = "r1"
      /\ ScriptPath.id = "p1" /\ ScriptPath.classification = "c1"
  BY DEF ScriptPath, Honest
<1>3. Cardinality({2}) = 1
  BY FS_Singleton
<1> HIDE DEF s
<1>4. validationScriptAccepted(s, ScriptPath, {2})
  BY <1>1, <1>2, <1>3, PlainIsMeaningful, CleanIsAccepted DEF validationScriptAccepted, SlotHolds
<1>5. ScriptSchema(s)
  BY <1>1, PlainIsMeaningful DEF ScriptSchema, RecordSchema, Visibilities
<1> QED
  BY <1>4, <1>5 DEF s

LEMMA HonestAcceptedRisk ==
  /\ acceptedRiskAccepted(Honest.acceptedRisk, HonestClass, {Honest.guidance}, {Honest.path},
                          {HonestScript})
  /\ AcceptedRiskSchema(Honest.acceptedRisk) /\ AcceptedRiskListsSchema(Honest.acceptedRisk)
<1> DEFINE a == Honest.acceptedRisk
<1>1. /\ a.review = "r1" /\ a.classification = "c1" /\ a.draft = "d1" /\ a.actor = "customer_user"
      /\ a.policy = None /\ a.class = Retained /\ a.visibility = "customer_facing"
      /\ a.refs = {HonestRef} /\ a.state = Retained /\ a.basis = {Retained} /\ a.remediation = None
      /\ a.path = None /\ a.reviewBy = "valid" /\ a.rationale = Plain /\ a.signoff = Absent
      /\ a.owner = Plain /\ a.scope = Plain /\ a.limits = Plain /\ a.extra = FALSE
  BY DEF Honest
<1>2. /\ HonestClass.refs = {HonestRef} /\ HonestClass.review = "r1" /\ HonestClass.id = "c1"
      /\ HonestClass.draft = "d1" /\ HonestClass.state = Retained
  BY DEF HonestClass
<1> HIDE DEF a
<1>3. \A t \in AcceptedRiskTexts(a) : ~acceptedRiskTextHasForbiddenContent(t)
  BY <1>1, PlainIsMeaningful, CleanIsAccepted DEF AcceptedRiskTexts
<1>4. CustomerAccepts(a, ControlPlane)
  BY <1>1, PlainIsMeaningful DEF CustomerAccepts, MeaningfulTo
<1>5. acceptedRiskAccepted(a, HonestClass, {Honest.guidance}, {Honest.path}, {HonestScript})
  BY <1>1, <1>2, <1>3, <1>4, HonestClassification, HonestRefHolds, PlainIsMeaningful
     DEF acceptedRiskAccepted
<1>6. AcceptedRiskSchema(a) /\ AcceptedRiskListsSchema(a)
  BY <1>1, HonestRefHolds, PlainIsMeaningful
     DEF AcceptedRiskSchema, AcceptedRiskListsSchema, FieldPolicySchema, RecordSchema, Visibilities
<1> QED
  BY <1>5, <1>6 DEF a

LEMMA HonestOutcome ==
  /\ outcomeAccepted(Honest.outcome)
  /\ SubmissionOutcomeSchema(Honest.outcome) /\ OutcomeFieldsSchema(Honest.outcome)
<1> DEFINE o == Honest.outcome
<1>1. /\ o.state = "rejected_no_receipt" /\ o.next = "retry" /\ o.receipt = FALSE /\ o.codes = TRUE
      /\ o.summary = Plain
      /\ o.identities = {<<"bundle_instance_id", "own">>, <<"submission_attempt_id", "own">>}
  BY DEF Honest
<1>2. /\ "rejected_no_receipt" \in DOMAIN NextPaths
      /\ NextPaths["rejected_no_receipt"] = {"retry", "contact_support"}
  BY DEF NextPaths
<1> HIDE DEF o
<1>3. ~rejectionForSubmissionIdentities(o)
  BY <1>1 DEF rejectionForSubmissionIdentities, submissionIdentityValueMatchesGrammar, IdentitiesHold
<1>4. outcomeAccepted(o)
  BY <1>1, <1>2, <1>3, PlainIsMeaningful, CleanIsAccepted
     DEF outcomeAccepted, ReceiptAndCodesFit, IsFailure
<1>5. SubmissionOutcomeSchema(o)
  BY <1>1, <1>2 DEF SubmissionOutcomeSchema, IsFailure
<1>6. OutcomeFieldsSchema(o)
  BY <1>1, PlainIsMeaningful DEF OutcomeFieldsSchema, IdentityTypes
<1> QED
  BY <1>4, <1>5, <1>6 DEF o

LEMMA HonestMappingAccepted == mappingAccepted(HonestMapping, HonestAttestation)
<1> DEFINE m == HonestMapping
           a == HonestAttestation
<1>1. /\ m.approved = TRUE /\ m.actor = "reviewer" /\ m.text = Prose /\ m.extra = FALSE
      /\ m.profile = "generic_technology_risk" /\ m.review = "r1" /\ m.attestation = "at1"
      /\ m.entries = <<[id |-> "e1", refs |-> {"c1"}], [id |-> "e2", refs |-> {"review_scope"}]>>
  BY DEF HonestMapping
<1>2. a.review = "r1" /\ a.id = "at1" /\ a.refs = {"review_scope", "vendor_receipt", "minimization"}
      /\ "findings_and_classification" \in DOMAIN a.sections
      /\ a.sections["findings_and_classification"] = {"c1"}
  BY DEF HonestAttestation
<1>3. /\ DOMAIN m.entries = {1, 2} /\ m.entries # <<>>
      /\ m.entries[1].id = "e1" /\ m.entries[2].id = "e2"
      /\ m.entries[1].refs = {"c1"} /\ m.entries[2].refs = {"review_scope"}
  BY <1>1
<1> HIDE DEF m, a
<1>4. MappingSchema(m)
  BY <1>1, <1>3, PlainIsMeaningful DEF MappingSchema
<1>5. InjectiveOn(m.entries, "id")
  BY <1>3 DEF InjectiveOn
<1>6. \A i \in DOMAIN m.entries :
        m.entries[i].refs \subseteq a.refs \cup UNION {a.sections[s] : s \in DOMAIN a.sections}
  BY <1>2, <1>3
<1>7. mappingAccepted(m, a)
  BY <1>1, <1>2, <1>4, <1>5, <1>6, PlainIsMeaningful, CleanIsAccepted DEF mappingAccepted
<1> QED
  BY <1>7 DEF m, a

LEMMA HonestAttestationAccepted == attestationAccepted(HonestAttestation, HonestContext)
<1> DEFINE a == HonestAttestation
           w == HonestContext
<1>1. /\ a.review = "r1" /\ a.id = "at1" /\ a.sealed = TRUE /\ a.version = 1
      /\ a.actor = "vendor_service" /\ a.at = 2 /\ a.scope = "s1" /\ a.commit = "k1"
      /\ a.repository = "repo" /\ a.coverage = "default"
      /\ a.chain = [manifest |-> "om1", bundle |-> "eb1", receipt |-> "vr1", at |-> 1]
      /\ a.addenda = {"ad1"} /\ a.minimization = "mz1" /\ a.deletions = {"x1"} /\ a.mapping = "m1"
      /\ a.refs = {"review_scope", "vendor_receipt", "minimization"} /\ a.text = Prose
      /\ a.extra = FALSE
  BY DEF HonestAttestation, RecordAt, GeneratedAt
<1>2. a.sections =
     [scope |-> {"review_scope"}, limitations |-> {"review_scope"}, method |-> {"scan1"},
      receipt_chain |-> {"vendor_receipt"}, findings_and_classification |-> {"c1"},
      remediation_and_validation |-> {"g1", "p1", "s1"}, verification_outcomes |-> {"ev1", "v1"},
      evidence_lifecycle |-> {"minimization"}]
  BY DEF HonestAttestation
<1>3. /\ w.scope = [id |-> "s1", commit |-> "k1", repository |-> "repo"]
      /\ w.bundle = [scope |-> "s1", coverage |-> "default", manifest |-> "om1", id |-> "eb1",
                     scanners |-> {"scan1"}]
      /\ w.receipt = [id |-> "vr1", manifest |-> "om1", bundle |-> "eb1", at |-> 1,
                      received |-> TRUE, verified |-> TRUE]
      /\ w.minimization = [review |-> "r1", id |-> "mz1", deleted |-> {"x1"}]
      /\ w.deletions = {[id |-> "x1", verified |-> TRUE, at |-> 1]}
      /\ w.mappings = {HonestMapping}
      /\ w.replays = TRUE
  BY DEF HonestContext, RecordAt
<1>4. w.addenda =
     {[id |-> "ad1", review |-> "r1", scope |-> "s1", commit |-> "k1", repository |-> "repo",
       at |-> 2, pass |-> "vp1", accepted |-> TRUE,
       findings |-> {[draft |-> "d1", classification |-> "c1", value |-> "confirmed",
                      decision |-> "v1", status |-> "verification_complete", guidance |-> "g1",
                      path |-> "p1", evidence |-> {"ev1"}]}]}
  BY DEF HonestContext, GeneratedAt
<1>5. /\ w.classifications =
           {[id |-> "c1", review |-> "r1", draft |-> "d1", value |-> "confirmed", at |-> 1]}
      /\ w.guidance = {[id |-> "g1", review |-> "r1", draft |-> "d1", classification |-> "c1",
                        path |-> "p1", at |-> 1]}
      /\ w.paths = {[id |-> "p1", review |-> "r1", draft |-> "d1", classification |-> "c1",
                     guidance |-> "g1", scripts |-> {"s1"}, at |-> 1]}
      /\ w.scripts = {[id |-> "s1", review |-> "r1", path |-> "p1", classification |-> "c1",
                       at |-> 1]}
  BY DEF HonestContext, RecordAt
<1>6. /\ w.evidence = {[id |-> "ev1", review |-> "r1", draft |-> "d1", classification |-> "c1",
                        pass |-> "vp1", path |-> "p1", script |-> "s1", version |-> 1, at |-> 1]}
      /\ w.decisions = {[id |-> "v1", review |-> "r1", draft |-> "d1", classification |-> "c1",
                         status |-> "verification_complete", evidence |-> {"ev1"}, version |-> 1,
                         at |-> 1]}
  BY DEF HonestContext, RecordAt
<1>7. w.history =
     {Logged("receipt_issued", "vr1", 1), Logged("classification_recorded", "c1", 1),
      Logged("remediation_guidance_recorded", "g1", 1), Logged("validation_recorded", "p1", 1),
      Logged("validation_recorded", "s1", 1), Logged("evidence_deleted", "x1", 1),
      Logged("verification_evidence_recorded", "ev1", 1), Logged("verification_recorded", "v1", 1)}
  BY DEF HonestContext
<1>7a. \A t, r, v : Logged(t, r, v).type = t /\ Logged(t, r, v).ref = r
                    /\ Logged(t, r, v).version = v /\ Logged(t, r, v).at = 1
  BY DEF Logged, RecordAt
<1> HIDE DEF a, w
<1>8. AttestationSchema(a)
  <2>1. DOMAIN a.sections = SectionTypes /\ \A s \in SectionTypes : a.sections[s] # {}
    BY <1>2 DEF SectionTypes
  <2> QED
    BY <1>1, <2>1, PlainIsMeaningful DEF AttestationSchema, SectionsSchema
<1>9. ScopeIsTheReviews(a, w) /\ ChainIsTheReceipts(a, w) /\ DeletionsAreVerified(a, w)
  BY <1>1, <1>3 DEF ScopeIsTheReviews, ChainIsTheReceipts, DeletionsAreVerified
<1>10. AddendaAreCited(a, w)
  BY <1>1, <1>4 DEF AddendaAreCited, RefsOf
<1>11. MappingResolves(a, w)
  BY <1>1, <1>3, HonestMappingAccepted DEF MappingResolves, HonestMapping, a
<1>12. ContextIsTheReviews(a, w)
  BY <1>1, <1>5, <1>6 DEF ContextIsTheReviews
<1>13. \A d \in w.addenda : AddendumAgrees(d, a, w)
  <2> SUFFICES ASSUME NEW d \in w.addenda PROVE AddendumAgrees(d, a, w)
    OBVIOUS
  <2>1. /\ d.review = "r1" /\ d.scope = "s1" /\ d.commit = "k1" /\ d.repository = "repo"
        /\ d.at = 2 /\ d.pass = "vp1"
        /\ d.findings = {[draft |-> "d1", classification |-> "c1", value |-> "confirmed",
                      decision |-> "v1", status |-> "verification_complete", guidance |-> "g1",
                      path |-> "p1", evidence |-> {"ev1"}]}
    BY <1>4
  <2>2. ASSUME NEW x \in d.findings PROVE FindingAgrees(x, d, w)
    <3>1. /\ x.draft = "d1" /\ x.classification = "c1" /\ x.value = "confirmed"
          /\ x.decision = "v1" /\ x.status = "verification_complete" /\ x.guidance = "g1"
          /\ x.path = "p1" /\ x.evidence = {"ev1"}
      BY <2>1, <2>2
    <3>2. \A ref \in x.evidence : EvidenceAgrees(ref, x, d, w)
      BY <1>5, <1>6, <2>1, <3>1 DEF EvidenceAgrees
    <3>3. \E c \in w.classifications :
            c.id = x.classification /\ c.draft = x.draft /\ c.value = x.value
      BY <1>5, <3>1
    <3>4. \E v \in w.decisions :
            /\ v.id = x.decision /\ v.draft = x.draft /\ v.classification = x.classification
            /\ v.status = x.status /\ v.evidence \subseteq x.evidence
      BY <1>6, <3>1
    <3>5. \E g \in w.guidance :
            g.id = x.guidance /\ g.draft = x.draft /\ g.classification = x.classification
      BY <1>5, <3>1
    <3>6. \E p \in w.paths :
            /\ p.id = x.path /\ p.draft = x.draft /\ p.classification = x.classification
            /\ \A g \in w.guidance : g.id = x.guidance => g.path = p.id
            /\ p.guidance # None => p.guidance = x.guidance
      BY <1>5, <3>1
    <3> QED
      BY <3>2, <3>3, <3>4, <3>5, <3>6 DEF FindingAgrees
  <2> QED
    BY <1>1, <2>1, <2>2 DEF AddendumAgrees
<1>14. ScriptsBelong(w)
  BY <1>5 DEF ScriptsBelong
<1>15. HistoryIsComplete(a, w)
  <2>1. \A e \in w.history : e.at = 1 /\ e.version = 1
    BY <1>7, <1>7a
  <2>2. ASSUME NEW t, NEW r, Logged(t, r, 1) \in w.history
        PROVE  RecordedBefore(t, r, 1, a, w)
    BY <1>1, <1>7a, <2>2 DEF RecordedBefore
  <2>3. ASSUME NEW t, NEW x, Logged(t, x.id, 1) \in w.history, x.at = 1, x.version = 1
        PROVE  ActiveIsCited(t, x, a, w)
    BY <1>1, <1>7a, <2>1, <2>3 DEF ActiveIsCited
  <2>4. RecordedBefore("receipt_issued", w.receipt.id, w.receipt.at, a, w)
    BY <1>3, <1>7, <2>2
  <2>5. \A c \in w.classifications : RecordedBefore("classification_recorded", c.id, c.at, a, w)
    BY <1>5, <1>7, <2>2
  <2>6. \A g \in w.guidance : RecordedBefore("remediation_guidance_recorded", g.id, g.at, a, w)
    BY <1>5, <1>7, <2>2
  <2>7. \A p \in w.paths \cup w.scripts : RecordedBefore("validation_recorded", p.id, p.at, a, w)
    BY <1>5, <1>7, <2>2
  <2>8. \A e \in w.evidence : ActiveIsCited("verification_evidence_recorded", e, a, w)
    BY <1>6, <1>7, <2>3
  <2>9. \A v \in w.decisions : ActiveIsCited("verification_recorded", v, a, w)
    BY <1>6, <1>7, <2>3
  <2>10. \A r \in a.deletions : \E d \in w.deletions :
           d.id = r /\ RecordedBefore("evidence_deleted", r, d.at, a, w)
    BY <1>1, <1>3, <1>7, <2>2
  <2>11. w.replays /\ w.history # {}
    BY <1>3, <1>7
  <2> QED
    BY <2>4, <2>5, <2>6, <2>7, <2>8, <2>9, <2>10, <2>11 DEF HistoryIsComplete
<1>16. SectionsAreExact(a, w)
  <2>1. /\ RefsOf(w.classifications) = {"c1"}
        /\ RefsOf(w.guidance \cup w.paths \cup w.scripts) = {"g1", "p1", "s1"}
        /\ RefsOf(w.evidence \cup w.decisions) = {"ev1", "v1"}
    BY <1>5, <1>6 DEF RefsOf
  <2>2. /\ a.sections["scope"] = {"review_scope"} /\ a.sections["limitations"] = {"review_scope"}
        /\ a.sections["method"] = {"scan1"} /\ a.sections["receipt_chain"] = {"vendor_receipt"}
        /\ a.sections["findings_and_classification"] = {"c1"}
        /\ a.sections["remediation_and_validation"] = {"g1", "p1", "s1"}
        /\ a.sections["verification_outcomes"] = {"ev1", "v1"}
        /\ a.sections["evidence_lifecycle"] = {"minimization"}
    BY <1>2
  <2>3. w.bundle.scanners = {"scan1"}
    BY <1>3
  <2> QED
    BY <1>1, <2>1, <2>2, <2>3 DEF SectionsAreExact
<1>17. attestationAccepted(a, w)
  BY <1>1, <1>8, <1>9, <1>10, <1>11, <1>12, <1>13, <1>14, <1>15, <1>16,
     PlainIsMeaningful, CleanIsAccepted DEF attestationAccepted
<1> QED
  BY <1>17 DEF a, w

(* What makes a manifest an honest one, whatever its version. *)
HonestFiles(m) ==
  /\ m.sealed = TRUE /\ m.extra = FALSE /\ m.instructions = "VERIFY.txt"
  /\ m.evidence = {"bundle_file"} /\ m.outer = {"signature", "signing_input"}
  /\ m.files = HonestManifest.files /\ m.included = HonestManifest.included

LEMMA HonestFilesAccepted ==
  ASSUME NEW m, HonestFiles(m), m.version \in Nat, m.version >= 1,
         m.state \in {"generated", "finalized"}, FinalizedSupersedes(m)
  PROVE  ManifestSchema(m) /\ manifestAccepted(m) /\ PathsHaveTheirRoles(m)
<1>1. m.files = <<File("attestation.json", "attestation_file", "attestation"),
               File("vendor-receipt.json", "receipt_file", "vendor_receipt"),
               File("evidence-bundle-representation.json", "bundle_file",
                    "evidence_bundle_representation"),
               File("portal/index.html", "index_file", "portal"),
               File("portal/styles.css", "styles_file", "portal_asset"),
               File("portal/portal.js", "script_file", "portal_asset")>>
  BY DEF HonestFiles, HonestManifest
<1>2. m.included = <<"attestation_file", "receipt_file", "bundle_file", "index_file",
                     "styles_file", "script_file">>
  BY DEF HonestFiles, HonestManifest
<1>3. \A p, r, q : /\ File(p, r, q).path = p /\ File(p, r, q).ref = r /\ File(p, r, q).role = q
                   /\ File(p, r, q).reason = Prose
  BY DEF File
<1>4. /\ DOMAIN m.files = 1 .. 6 /\ DOMAIN m.included = 1 .. 6
      /\ Len(m.files) = 6 /\ Len(m.included) = 6
  BY <1>1, <1>2
<1>5. /\ m.files[1] = File("attestation.json", "attestation_file", "attestation")
      /\ m.files[2] = File("vendor-receipt.json", "receipt_file", "vendor_receipt")
      /\ m.files[3] = File("evidence-bundle-representation.json", "bundle_file",
                           "evidence_bundle_representation")
      /\ m.files[4] = File("portal/index.html", "index_file", "portal")
      /\ m.files[5] = File("portal/styles.css", "styles_file", "portal_asset")
      /\ m.files[6] = File("portal/portal.js", "script_file", "portal_asset")
  BY <1>1
<1>6. /\ m.included[1] = "attestation_file" /\ m.included[2] = "receipt_file"
      /\ m.included[3] = "bundle_file" /\ m.included[4] = "index_file"
      /\ m.included[5] = "styles_file" /\ m.included[6] = "script_file"
  BY <1>2
<1>7. \A i \in 1 .. 6 : i = 1 \/ i = 2 \/ i = 3 \/ i = 4 \/ i = 5 \/ i = 6
  OBVIOUS
<1>8. \A i \in DOMAIN m.files : m.files[i].reason = Prose
  BY <1>3, <1>4, <1>5, <1>7
<1>9. FieldsOf(m.files, "ref") = {"attestation_file", "receipt_file", "bundle_file", "index_file",
                                  "styles_file", "script_file"}
  BY <1>3, <1>4, <1>5, <1>7 DEF FieldsOf
<1>10. FieldsOf(m.files, "path") =
         {"attestation.json", "vendor-receipt.json", "evidence-bundle-representation.json",
          "portal/index.html", "portal/styles.css", "portal/portal.js"}
  BY <1>3, <1>4, <1>5, <1>7 DEF FieldsOf
<1>11. FieldsOf(m.files, "role") =
         {"attestation", "vendor_receipt", "evidence_bundle_representation", "portal",
          "portal_asset"}
  BY <1>3, <1>4, <1>5, <1>7 DEF FieldsOf
<1>12. \A i, j \in DOMAIN m.included : m.included[i] = m.included[j] => i = j
  BY <1>4, <1>6, <1>7
<1>13. InjectiveOn(m.files, "path") /\ InjectiveOn(m.files, "ref")
  BY <1>3, <1>4, <1>5, <1>7 DEF InjectiveOn
<1>14. {m.included[i] : i \in DOMAIN m.included} = FieldsOf(m.files, "ref")
  BY <1>4, <1>6, <1>7, <1>9
<1>15. FilesAreCovered(m)
  BY <1>4, <1>9, <1>13, <1>14 DEF FilesAreCovered, HonestFiles
<1>16. RequiredFilesPresent(m)
  <2>1. {i \in DOMAIN m.files : m.files[i].role = "portal_asset"} = {5} \cup {6}
    BY <1>3, <1>4, <1>5, <1>7
  <2>2. IsFiniteSet({5}) /\ Cardinality({5}) = 1
    BY FS_Singleton
  <2>3. Cardinality({5} \cup {6}) = 2
    BY <2>2, FS_AddElement
  <2>4. Cardinality({i \in DOMAIN m.files : m.files[i].role = "portal_asset"}) >= 2
    BY <2>1, <2>3
  <2>5. {"portal/index.html", "portal/styles.css", "portal/portal.js"}
           \subseteq FieldsOf(m.files, "path")
    BY <1>10
  <2>6. {"attestation", "vendor_receipt", "evidence_bundle_representation", "portal"}
           \subseteq FieldsOf(m.files, "role")
    BY <1>11
  <2> QED
    BY <2>4, <2>5, <2>6 DEF RequiredFilesPresent
<1>17. FilesAreCustomerSafe(m)
  <2>1. \A i \in DOMAIN m.files : m.files[i].ref \in FieldsOf(m.files, "ref")
                                  /\ m.files[i].path \in FieldsOf(m.files, "path")
    BY DEF FieldsOf
  <2>2. ~InternalLearningText(Prose)
    BY PlainIsMeaningful, CleanIsAccepted
  <2>3. \A i \in DOMAIN m.files : ~InternalLearningText(m.files[i].reason)
    BY <1>8, <2>2
  <2>4. \A i \in DOMAIN m.files : m.files[i].ref # "pilot_metric"
    BY <1>9, <2>1
  <2>5. \A i \in DOMAIN m.files : m.files[i].path # "pilot_metric"
    BY <1>10, <2>1
  <2> QED
    BY <2>3, <2>4, <2>5 DEF FilesAreCustomerSafe, InternalLearningName
<1>18. PathsHaveTheirRoles(m)
  <2> DEFINE P == {<<m.files[i].path, m.files[i].role>> : i \in DOMAIN m.files}
  <2>1. \A i \in 1 .. 6 : <<m.files[i].path, m.files[i].role>> \in P
    BY <1>4
  <2> HIDE DEF P
  <2>2. RequiredPathRoles \subseteq P
    BY <1>3, <1>5, <2>1 DEF RequiredPathRoles
  <2> QED
    BY <2>2 DEF P, PathsHaveTheirRoles
<1>19. ~epic5NarrativeTextForbidden(Prose) /\ Prose # Absent
  BY PlainIsMeaningful, CleanIsAccepted
<1>20. ManifestSchema(m)
  BY <1>4, <1>8, <1>12, <1>19 DEF ManifestSchema, HonestFiles
<1>21. manifestAccepted(m)
  BY <1>8, <1>15, <1>16, <1>17, <1>19 DEF manifestAccepted, HonestFiles
<1> QED
  BY <1>18, <1>20, <1>21

LEMMA HonestManifestAccepted ==
  /\ ManifestSchema(HonestManifest) /\ manifestAccepted(HonestManifest)
  /\ ManifestSchema(FinalManifest) /\ manifestAccepted(FinalManifest)
<1>1. /\ HonestFiles(HonestManifest) /\ HonestManifest.version = 1
      /\ HonestManifest.state = "generated"
  BY DEF HonestFiles, HonestManifest
<1>2. /\ FinalManifest.version = 2 /\ FinalManifest.state = "finalized"
      /\ FinalManifest.supersedes = "sm1" /\ FinalManifest.id = "sm2"
  BY DEF FinalManifest, HonestManifest
<1>3. HonestFiles(FinalManifest)
  <2>1. /\ FinalManifest.sealed = HonestManifest.sealed /\ FinalManifest.extra = HonestManifest.extra
        /\ FinalManifest.instructions = HonestManifest.instructions
        /\ FinalManifest.evidence = HonestManifest.evidence
        /\ FinalManifest.outer = HonestManifest.outer
        /\ FinalManifest.files = HonestManifest.files
        /\ FinalManifest.included = HonestManifest.included
    BY DEF FinalManifest
  <2> QED
    BY <1>1, <2>1 DEF HonestFiles
<1>4. FinalizedSupersedes(HonestManifest)
  BY <1>1 DEF FinalizedSupersedes
<1>5. FinalizedSupersedes(FinalManifest)
  BY <1>2 DEF FinalizedSupersedes, None
<1>6. ManifestSchema(HonestManifest) /\ manifestAccepted(HonestManifest)
  BY <1>1, <1>4, HonestFilesAccepted
<1>7. ManifestSchema(FinalManifest) /\ manifestAccepted(FinalManifest)
  BY <1>2, <1>3, <1>5, HonestFilesAccepted
<1> QED
  BY <1>6, <1>7

LEMMA HonestPortalAccepted == PortalSchema(HonestPortal) /\ portalAccepted(HonestPortal)
<1> DEFINE p == HonestPortal
<1>1. /\ p.offline = TRUE
      /\ p.navigation = [i \in 1 .. 8 |-> [section |-> PortalSections[i], path |-> i, order |-> i]]
      /\ p.documents = [i \in 1 .. 8 |-> [section |-> PortalSections[i], path |-> i,
                                          refs |-> {"c1"}, text |-> Prose]]
  BY DEF HonestPortal
<1> HIDE DEF p
<1>2. /\ DOMAIN p.navigation = 1 .. 8 /\ DOMAIN p.documents = 1 .. 8
      /\ Len(p.navigation) = 8 /\ Len(p.documents) = 8
  BY <1>1
<1>3. \A i \in 1 .. 8 :
        /\ p.navigation[i].section = PortalSections[i] /\ p.navigation[i].path = i
        /\ p.navigation[i].order = i
        /\ p.documents[i].section = PortalSections[i] /\ p.documents[i].path = i
        /\ p.documents[i].refs = {"c1"} /\ p.documents[i].text = Prose
  BY <1>1
<1>4. ~epic5NarrativeTextForbidden(Prose) /\ Prose # Absent
  BY PlainIsMeaningful, CleanIsAccepted
<1>5. PortalSchema(p)
  BY <1>1, <1>2, <1>3, <1>4 DEF PortalSchema
<1>6. SectionsOnce(p.navigation) /\ SectionsOnce(p.documents)
  BY <1>2, <1>3 DEF SectionsOnce, FieldsOf
<1>7. NavigationResolves(p)
  BY <1>2, <1>3, <1>6 DEF NavigationResolves, InjectiveOn
<1>8. DocumentsAreCustomerSafe(p)
  BY <1>2, <1>3 DEF DocumentsAreCustomerSafe, InternalLearningName
<1>9. portalAccepted(p)
  BY <1>1, <1>2, <1>3, <1>4, <1>7, <1>8 DEF portalAccepted
<1> QED
  BY <1>5, <1>9 DEF p

LEMMA HonestPilotAccepted ==
  pilotMetricAccepted(HonestMetric) /\ pilotFeedbackAccepted(HonestFeedback)
<1>1. ~epic5NarrativeTextForbidden(Prose) /\ Prose # Absent /\ ~piiTextForbidden(Prose)
  BY PlainIsMeaningful, CleanIsAccepted
<1>2. pilotMetricAccepted(HonestMetric)
  BY <1>1 DEF pilotMetricAccepted, PilotMetricSchema, PilotSchema, IsPiiFree, CountsNest,
     MeasurementWindowHolds, HonestMetric
<1>3. pilotFeedbackAccepted(HonestFeedback)
  <2>1. /\ HonestFeedback.profiles = <<"generic_technology_risk", "customer_security_review">>
        /\ HonestFeedback.objections = <<"turnaround", "pricing_uncertain">>
        /\ HonestFeedback.caveat = Prose /\ HonestFeedback.inRange
    BY DEF HonestFeedback
  <2>2. /\ NoneTwice(HonestFeedback.profiles) /\ Len(HonestFeedback.profiles) = 2
        /\ NoneTwice(HonestFeedback.objections)
    BY <2>1 DEF NoneTwice
  <2>3. PilotSchema(HonestFeedback) /\ IsPiiFree(HonestFeedback)
    BY <1>1 DEF PilotSchema, IsPiiFree, HonestFeedback
  <2> QED
    BY <1>1, <2>1, <2>2, <2>3 DEF pilotFeedbackAccepted, PilotFeedbackSchema
<1> QED
  BY <1>2, <1>3

LEMMA HonestFinalizationAccepted == finalizationAccepted(HonestFinalization, HonestPackage)
<1> DEFINE f == HonestFinalization
           w == HonestPackage
<1>1. /\ f.review = "r1" /\ f.sealed = TRUE /\ f.bundle = "sb1" /\ f.generated = "sm1"
      /\ f.finalized = "sm2" /\ f.version = 2 /\ f.actor = "customer_user" /\ f.shown = TRUE
      /\ f.verified = TRUE
      /\ f.visible = [attestation |-> "at1", bundle |-> "sb1", generated |-> "sm1"]
      /\ f.at = 3 /\ f.exported = TRUE /\ f.exportedAt = 4 /\ f.text = Prose
  BY DEF HonestFinalization, FinalizedAt, ExportedAt
<1>2. /\ w.attestation = HonestAttestation /\ w.generated = HonestManifest
      /\ w.finalized = FinalManifest /\ w.portal = HonestPortal
      /\ w.receipt = HonestContext.receipt /\ w.deletions = HonestContext.deletions
      /\ w.history = {[Logged("attestation_generated", "at1", 1) EXCEPT !.at = GeneratedAt]}
      /\ w.generatedSignature = Signed("sm1", GeneratedAt) /\ w.signature = Signed("sm2", FinalizedAt)
  BY DEF HonestPackage
<1>3. /\ w.attestation.review = "r1" /\ w.attestation.id = "at1" /\ w.attestation.sealed = TRUE
      /\ w.attestation.version = 1 /\ w.attestation.at = 2 /\ w.attestation.deletions = {"x1"}
  BY <1>2 DEF HonestAttestation, GeneratedAt
<1>4. /\ w.generated.review = "r1" /\ w.generated.bundle = "sb1" /\ w.generated.id = "sm1"
      /\ w.generated.version = 1 /\ w.generated.state = "generated" /\ w.generated.at = 2
      /\ w.generated.supersedes = None /\ w.generated.attestation = "at1"
      /\ w.generated.receipt = "vr1" /\ w.generated.portal = "sp1"
  BY <1>2 DEF HonestManifest, GeneratedAt
<1>5. /\ w.finalized.review = "r1" /\ w.finalized.bundle = "sb1" /\ w.finalized.id = "sm2"
      /\ w.finalized.version = 2 /\ w.finalized.state = "finalized" /\ w.finalized.at = 3
      /\ w.finalized.supersedes = "sm1" /\ w.finalized.portal = "sp1"
  BY <1>2 DEF FinalManifest, HonestManifest, FinalizedAt
<1>6. /\ w.portal.review = "r1" /\ w.portal.bundle = "sb1" /\ w.portal.id = "sp1"
      /\ w.portal.manifest = "sm1" /\ w.portal.at = 2 /\ w.portal.safe = TRUE
  BY <1>2 DEF HonestPortal, GeneratedAt
<1>7. /\ w.receipt.id = "vr1" /\ w.receipt.at = 1 /\ w.receipt.verified = TRUE
      /\ w.deletions = {[id |-> "x1", verified |-> TRUE, at |-> 1]}
  BY <1>2 DEF HonestContext, RecordAt
<1>8. /\ w.generatedSignature.input = TRUE /\ w.generatedSignature.identity = "sm1"
      /\ w.generatedSignature.key = "k1" /\ w.generatedSignature.at = 2
      /\ w.generatedSignature.outcome = [verified |-> TRUE, identity |-> "sm1", key |-> "k1"]
      /\ w.signature.input = TRUE /\ w.signature.identity = "sm2" /\ w.signature.key = "k1"
      /\ w.signature.at = 3
      /\ w.signature.outcome = [verified |-> TRUE, identity |-> "sm2", key |-> "k1"]
  BY <1>2 DEF Signed, GeneratedAt, FinalizedAt
<1>9. \E e : /\ w.history = {e} /\ e.type = "attestation_generated" /\ e.review = "r1"
             /\ e.ref = "at1" /\ e.version = 1
  <2> DEFINE e == [Logged("attestation_generated", "at1", 1) EXCEPT !.at = GeneratedAt]
  <2>1. /\ e.type = "attestation_generated" /\ e.review = "r1" /\ e.ref = "at1" /\ e.version = 1
    BY DEF Logged
  <2> QED
    BY <1>2, <2>1
<1>10. \A c \in ContentFields : w.finalized[c] = w.generated[c]
  <2>1. /\ FinalManifest.attestation = HonestManifest.attestation
        /\ FinalManifest.receipt = HonestManifest.receipt
        /\ FinalManifest.evidence = HonestManifest.evidence
        /\ FinalManifest.files = HonestManifest.files
        /\ FinalManifest.included = HonestManifest.included
        /\ FinalManifest.outer = HonestManifest.outer
        /\ FinalManifest.instructions = HonestManifest.instructions
        /\ FinalManifest.portal = HonestManifest.portal
    BY DEF FinalManifest
  <2> QED
    BY <1>2, <2>1 DEF ContentFields
<1>11. AttestationSchema(w.attestation) /\ PortalSchema(w.portal) /\ portalAccepted(w.portal)
  BY <1>2, HonestAttestationAccepted, HonestPortalAccepted DEF attestationAccepted
<1>12. /\ ManifestSchema(w.generated) /\ ManifestSchema(w.finalized)
       /\ manifestAccepted(w.generated) /\ manifestAccepted(w.finalized)
  BY <1>2, HonestManifestAccepted
<1>13. ~epic5NarrativeTextForbidden(f.text) /\ f.text # Absent
  BY <1>1, PlainIsMeaningful, CleanIsAccepted
<1> HIDE DEF f, w
<1>14. FinalizationSchema(f)
  <2>1. f.exported = (f.exportedAt # Unset)
    <3>1. f.exportedAt # Unset
      BY <1>1 DEF Unset
    <3>2. (f.exportedAt # Unset) = TRUE
      BY <3>1
    <3>3. f.exported = TRUE
      BY <1>1
    <3> QED
      BY <3>2, <3>3, Zenon
  <2>2. f.actor = "customer_user" /\ f.version >= 2 /\ f.shown /\ f.verified /\ f.text # Absent
    BY <1>1, <1>13
  <2> QED
    BY <2>1, <2>2 DEF FinalizationSchema
<1>15. PackageIsOfOneReview(f, w)
  BY <1>1, <1>3, <1>4, <1>5, <1>6 DEF PackageIsOfOneReview
<1>16. AttestationIsActive(w)
  <2>1. PICK e : /\ w.history = {e} /\ e.type = "attestation_generated" /\ e.review = "r1"
                 /\ e.ref = "at1" /\ e.version = 1
    BY <1>9
  <2> QED
    BY <1>3, <2>1 DEF AttestationIsActive
<1>17. FinalizedIsNextVersion(f, w)
  BY <1>1, <1>4, <1>5 DEF FinalizedIsNextVersion
<1>18. ReceiptIsVerified(w) /\ PortalIsThePackages(w)
  BY <1>3, <1>4, <1>5, <1>6, <1>7 DEF ReceiptIsVerified, PortalIsThePackages
<1>19. SignaturesHold(f, w)
  <2>1. \A d \in w.deletions : d.at = 1 /\ d.id = "x1" /\ d.verified = TRUE
    BY <1>7
  <2> QED
    BY <1>1, <1>3, <1>4, <1>5, <1>6, <1>7, <1>8, <2>1
       DEF SignaturesHold, signatureEnvelopeMatchesExpectation, signatureOutcomeCovers
<1>20. \A r \in w.attestation.deletions : \E d \in w.deletions : d.id = r /\ d.verified
  BY <1>3, <1>7
<1>21. finalizationAccepted(f, w)
  BY <1>1, <1>3, <1>10, <1>11, <1>12, <1>13, <1>14, <1>15, <1>16, <1>17, <1>18, <1>19, <1>20
     DEF finalizationAccepted, ContentIsUnchanged
<1> QED
  BY <1>21 DEF f, w

(* Conjunct by conjunct: an honest record is accepted. *)
LEMMA HonestIsAccepted ==
  ASSUME kind \in DOMAIN Honest \ JudgedKinds, rec = Honest[kind], bound = HonestBound(kind)
  PROVE  RuntimeAccepts
<1>1. kind \in {"classification", "guidance", "status", "falsePositive", "path", "script",
                "acceptedRisk", "outcome", "attestation", "mapping", "staticBundle", "portal",
                "finalization", "pilotMetric", "pilotFeedback"}
  BY HonestKinds DEF JudgedKinds
<1>2. /\ kind = "attestation" => bound = HonestContext
      /\ kind = "finalization" => bound = HonestPackage
      /\ kind \in {"classification", "guidance", "status", "falsePositive", "path", "script",
                   "acceptedRisk", "outcome"} => bound = HonestClass
  BY DEF HonestBound
<1>3. CASE kind \in {"classification", "guidance", "status", "falsePositive"}
  BY <1>2, <1>3, HonestKinds, HonestClassification, HonestGuidance, HonestStatus, HonestFalsePositive
     DEF RuntimeAccepts
<1>4. CASE kind \in {"path", "script", "acceptedRisk", "outcome"}
  BY <1>2, <1>4, HonestValidationPath, HonestValidationScript, HonestAcceptedRisk, HonestOutcome
     DEF RuntimeAccepts
<1>5. CASE kind \in {"attestation", "mapping", "staticBundle", "portal"}
  BY <1>2, <1>5, HonestKinds, HonestAttestationAccepted, HonestMappingAccepted,
     HonestManifestAccepted, HonestPortalAccepted DEF RuntimeAccepts
<1>6. CASE kind \in {"finalization", "pilotMetric", "pilotFeedback"}
  BY <1>2, <1>6, HonestKinds, HonestFinalizationAccepted, HonestPilotAccepted DEF RuntimeAccepts
<1> QED
  BY <1>1, <1>3, <1>4, <1>5, <1>6

-----------------------------------------------------------------------------
(* What editing leaves of a draft's shape.                                 *)

ManifestFields ==
  {"review", "bundle", "id", "sealed", "version", "state", "at", "supersedes", "attestation",
   "receipt", "portal", "evidence", "outer", "instructions", "extra", "files", "included"}

IsManifest(m) ==
  /\ m = [c \in ManifestFields |-> m[c]]
  /\ m.sealed \in BOOLEAN /\ m.extra \in BOOLEAN

VersionsAreNumbers(h) == \A e \in h : "version" \in DOMAIN e /\ e.version \in Nat

AttestationContextHolds ==
  kind = "attestation" =>
    /\ {"mappings", "history"} \subseteq DOMAIN bound
    /\ \A m, n \in bound.mappings : m = n
    /\ \A m \in bound.mappings : m.id # None
    /\ LoggedOnce(bound.history) /\ VersionsAreNumbers(bound.history)

PackageHolds ==
  kind = "finalization" =>
    /\ {"generated", "finalized"} \subseteq DOMAIN bound
    /\ IsManifest(bound.generated) /\ IsManifest(bound.finalized)

BasisIsDrafted ==
  kind \in {"classification", "falsePositive", "acceptedRisk"} => "basis" \in DOMAIN rec

RationaleIsText ==
  kind = "classification" => "rationale" \in DOMAIN rec /\ rec.rationale \in Seq(Tokens)

SelectionIsBacked ==
  kind = "passScope" =>
    /\ "actor" \in DOMAIN rec /\ rec.actor \in {"customer_user", "reviewer", "vendor_service"}
    /\ BackedUnlessCustomer(rec)

(* The invariant of the drafts. *)
DraftHolds ==
  /\ UntouchedIsHonest /\ BasisIsDrafted /\ RationaleIsText /\ SelectionIsBacked
  /\ AttestationContextHolds /\ PackageHolds

LEMMA TextsAreTokens == \A t \in Texts : t \in Seq(Tokens)
<1> DEFINE W == {<<"source">>, <<"fence">>, <<"pii">>, <<"hidden">>, <<"pilot">>,
                 <<"isClosed">>, <<"concluded">>, <<"retest">>, <<"assures">>,
                 <<"cue", "isClosed">>, <<"phraseA", "phraseB">>, <<"phraseA", "join", "phraseB">>}
<1>1. Plain \in Seq(Tokens) /\ Absent \in Seq(Tokens)
  BY DEF Plain, Absent, Tokens
<1>2. \A w \in W : w \in Seq(Tokens)
  <2>1. \A a \in Tokens : <<a>> \in Seq(Tokens)
    OBVIOUS
  <2>2. /\ <<"phraseA", "phraseB">> \in Seq(Tokens) /\ <<"phraseA", "join", "phraseB">> \in Seq(Tokens)
        /\ <<"cue", "isClosed">> \in Seq(Tokens)
    BY DEF Tokens
  <2>3. {"source", "fence", "pii", "hidden", "pilot", "isClosed", "concluded", "retest", "assures"}
          \subseteq Tokens
    BY DEF Tokens
  <2> QED
    BY <2>1, <2>2, <2>3
<1>3. /\ <<"word">> \in Seq(Tokens) /\ <<"long">> \in Seq(Tokens)
      /\ <<"cue", "closed", "bang", "word", "isClosed">> \in Seq(Tokens)
  BY DEF Tokens
<1> SUFFICES ASSUME NEW t \in Texts PROVE t \in Seq(Tokens)
  OBVIOUS
<1>4. CASE t \in {Plain \o w : w \in W}
  <2>1. PICK w \in W : t = Plain \o w
    BY <1>4
  <2>2. w \in Seq(Tokens)
    BY <1>2
  <2> HIDE DEF W
  <2> QED
    BY <1>1, <2>1, <2>2, ConcatProperties
<1>5. CASE t \in {Absent, <<"word">>, Plain, <<"long">>,
                  <<"cue", "closed", "bang", "word", "isClosed">>}
  BY <1>1, <1>3, <1>5
<1> QED
  BY <1>4, <1>5 DEF Texts

LEMMA EditedValues ==
  /\ Alternatives("classification", "rationale") = Texts
  /\ Alternatives("passScope", "actor") = {"customer_user", "reviewer", "vendor_service"}
BY DEF Alternatives, JudgedKinds, JudgedActors

LEMMA HonestShape ==
  /\ "basis" \in DOMAIN Honest["classification"] /\ "basis" \in DOMAIN Honest["falsePositive"]
  /\ "basis" \in DOMAIN Honest["acceptedRisk"]
  /\ "rationale" \in DOMAIN Honest["classification"] /\ Honest["classification"].rationale = Plain
  /\ "actor" \in DOMAIN Honest["passScope"] /\ Honest["passScope"].actor = "customer_user"
BY DEF Honest, HonestClass, Judged

LEMMA HonestHistoryOnce ==
  LoggedOnce(HonestContext.history) /\ VersionsAreNumbers(HonestContext.history)
<1> DEFINE h == HonestContext.history
<1>1. h =
     {Logged("receipt_issued", "vr1", 1), Logged("classification_recorded", "c1", 1),
      Logged("remediation_guidance_recorded", "g1", 1), Logged("validation_recorded", "p1", 1),
      Logged("validation_recorded", "s1", 1), Logged("evidence_deleted", "x1", 1),
      Logged("verification_evidence_recorded", "ev1", 1), Logged("verification_recorded", "v1", 1)}
  BY DEF HonestContext
<1>2. \A t, r, v : Logged(t, r, v).type = t /\ Logged(t, r, v).ref = r
  BY DEF Logged
<1>3. \A e \in h : e = Logged(e.type, e.ref, 1)
  BY <1>1, <1>2
<1> HIDE DEF h
<1>4. \A e, o \in h : e.type = o.type /\ e.ref = o.ref => e = o
  <2> SUFFICES ASSUME NEW e \in h, NEW o \in h, e.type = o.type, e.ref = o.ref PROVE e = o
    OBVIOUS
  <2>1. e = Logged(e.type, e.ref, 1) /\ o = Logged(o.type, o.ref, 1)
    BY <1>3
  <2> QED
    BY <2>1
<1>5. \A e \in h : "version" \in DOMAIN e /\ e.version = 1
  BY <1>3 DEF Logged
<1> QED
  BY <1>4, <1>5 DEF LoggedOnce, VersionsAreNumbers, h

LEMMA HonestManifestShape == IsManifest(HonestManifest) /\ IsManifest(FinalManifest)
<1>1. IsManifest(HonestManifest)
  BY DEF IsManifest, HonestManifest, ManifestFields
<1>2. DOMAIN HonestManifest = ManifestFields
  BY DEF HonestManifest, ManifestFields
<1>3. /\ FinalManifest = [c \in ManifestFields |-> FinalManifest[c]]
      /\ FinalManifest.sealed = HonestManifest.sealed /\ FinalManifest.extra = HonestManifest.extra
  BY <1>2 DEF FinalManifest, ManifestFields
<1> QED
  BY <1>1, <1>3 DEF IsManifest

LEMMA DraftInit == Init => DraftHolds
<1> SUFFICES ASSUME Init PROVE DraftHolds
  OBVIOUS
<1>1. UntouchedIsHonest /\ edits = 0
  BY UntouchedInit DEF Init, RecordInit
<1>2. kind \in DOMAIN Honest => rec = Honest[kind] /\ bound = HonestBound(kind)
  BY <1>1 DEF UntouchedIsHonest
<1>3. BasisIsDrafted
  BY <1>2, HonestKinds, HonestShape DEF BasisIsDrafted
<1>4. RationaleIsText
  BY <1>2, HonestKinds, HonestShape, TextsAreTokens DEF RationaleIsText, Texts
<1>5. SelectionIsBacked
  BY <1>2, HonestKinds, HonestShape DEF SelectionIsBacked, BackedUnlessCustomer
<1>6. AttestationContextHolds
  <2>1. /\ {"mappings", "history"} \subseteq DOMAIN HonestContext
        /\ HonestContext.mappings = {HonestMapping}
    BY DEF HonestContext
  <2>2. HonestMapping.id # None
    BY DEF HonestMapping, None
  <2>3. kind = "attestation" => bound = HonestContext
    BY <1>2, HonestKinds DEF HonestBound
  <2> QED
    BY <2>1, <2>2, <2>3, HonestHistoryOnce DEF AttestationContextHolds
<1>7. PackageHolds
  <2>1. /\ {"generated", "finalized"} \subseteq DOMAIN HonestPackage
        /\ HonestPackage.generated = HonestManifest /\ HonestPackage.finalized = FinalManifest
    BY DEF HonestPackage
  <2>2. kind = "finalization" => bound = HonestPackage
    BY <1>2, HonestKinds DEF HonestBound
  <2> QED
    BY <2>1, <2>2, HonestManifestShape DEF PackageHolds
<1> QED
  BY <1>1, <1>3, <1>4, <1>5, <1>6, <1>7 DEF DraftHolds

(* Whatever a manifest is changed to is one. *)
LEMMA EditedManifest ==
  ASSUME NEW m, IsManifest(m), NEW n \in ManifestEdits(m)
  PROVE  IsManifest(n)
<1>1. DOMAIN m = ManifestFields
  BY DEF IsManifest
<1>2. ASSUME NEW f \in ManifestFields, NEW v, f \in {"sealed", "extra"} => v \in BOOLEAN,
             n = [m EXCEPT ![f] = v]
      PROVE  IsManifest(n)
  <2>1. n = [c \in ManifestFields |-> n[c]]
    BY <1>1, <1>2
  <2>2. \A c \in ManifestFields : n[c] = IF c = f THEN v ELSE m[c]
    BY <1>1, <1>2
  <2>3. "sealed" \in ManifestFields /\ "extra" \in ManifestFields
    BY DEF ManifestFields
  <2> QED
    BY <1>2, <2>1, <2>2, <2>3 DEF IsManifest
<1>3. CASE n \in OneFieldChanged(m, {"files", "included"})
  <2>1. PICK f \in ManifestFields : \E v \in PartValues(f) : n = [m EXCEPT ![f] = v]
    BY <1>1, <1>3 DEF OneFieldChanged
  <2>2. PICK v \in PartValues(f) : n = [m EXCEPT ![f] = v]
    BY <2>1
  <2>3. f \in {"sealed", "extra"} => v \in BOOLEAN
    BY DEF PartValues
  <2> QED
    BY <1>2, <2>2, <2>3
<1>4. CASE \E v : n = [m EXCEPT !.files = v]
  BY <1>2, <1>4 DEF ManifestFields
<1>5. CASE \E v : n = [m EXCEPT !.included = v]
  BY <1>2, <1>5 DEF ManifestFields
<1>6. CASE \E v, u : n = [m EXCEPT !.files = v, !.included = u]
  <2>1. PICK v, u : n = [m EXCEPT !.files = v, !.included = u]
    BY <1>6
  <2>2. n = [c \in ManifestFields |-> n[c]] /\ n.sealed = m.sealed /\ n.extra = m.extra
    BY <1>1, <2>1 DEF ManifestFields
  <2> QED
    BY <2>2 DEF IsManifest
<1> QED
  BY <1>3, <1>4, <1>5, <1>6 DEF ManifestEdits
(* Whatever a history is changed to has numbered versions. *)
LEMMA EditedHistory ==
  ASSUME NEW h, VersionsAreNumbers(h), NEW x \in HistoryEdits(h)
  PROVE  VersionsAreNumbers(x)
<1>1. \A e \in LaterEvents : "version" \in DOMAIN e /\ e.version \in Nat
  <2>1. \A t, r, v : "version" \in DOMAIN Logged(t, r, v) /\ Logged(t, r, v).version = v
    BY DEF Logged
  <2>2. \A t : LET e == [Logged("verification_recorded", "v1", 2) EXCEPT !.at = t] IN
               "version" \in DOMAIN e /\ e.version = 2
    BY <2>1
  <2> QED
    BY <2>1, <2>2 DEF LaterEvents
<1>2. ASSUME NEW e \in h, NEW q \in OneFieldChanged(e, {})
      PROVE  "version" \in DOMAIN q /\ q.version \in Nat
  <2>1. PICK f \in DOMAIN e : \E v \in PartValues(f) : q = [e EXCEPT ![f] = v]
    BY <1>2 DEF OneFieldChanged
  <2>2. PICK v \in PartValues(f) : q = [e EXCEPT ![f] = v]
    BY <2>1
  <2>3. f = "version" => v \in Nat
    BY DEF PartValues
  <2>4. "version" \in DOMAIN e /\ e.version \in Nat
    BY DEF VersionsAreNumbers
  <2> QED
    BY <2>2, <2>3, <2>4
<1>3. CASE \E e \in LaterEvents : x = h \cup {e}
  BY <1>1, <1>3 DEF VersionsAreNumbers
<1>4. CASE \E e \in h : x = h \ {e}
  BY <1>4 DEF VersionsAreNumbers
<1>5. CASE \E e \in h : \E q \in OneFieldChanged(e, {}) : x = (h \ {e}) \cup {q}
  BY <1>2, <1>5 DEF VersionsAreNumbers
<1>6. x \in SetEdits(h, {}) \cup {h \cup {e} : e \in LaterEvents}
  BY DEF HistoryEdits
<1> QED
  BY <1>3, <1>4, <1>5, <1>6 DEF SetEdits

LEMMA EditKeepsDraft == ASSUME DraftHolds, Edit PROVE DraftHolds'
<1>1. /\ kind \in Kinds /\ kind' = kind /\ bound' = bound /\ edits' = edits + 1
      /\ kind \in {"passScope", "passEvidence"} => BackedUnlessCustomer(rec')
  BY DEF Edit
<1>2. PICK f \in DOMAIN rec : \E v \in Alternatives(kind, f) : rec' = [rec EXCEPT ![f] = v]
  BY DEF Edit
<1>3. PICK v \in Alternatives(kind, f) : rec' = [rec EXCEPT ![f] = v]
  BY <1>2
<1>4. DOMAIN rec' = DOMAIN rec
  BY <1>3
<1>5. \A c \in DOMAIN rec : rec'[c] = IF c = f THEN v ELSE rec[c]
  BY <1>3
<1>6. UntouchedIsHonest' /\ BasisIsDrafted'
  BY <1>1, <1>4 DEF DraftHolds, UntouchedIsHonest, BasisIsDrafted
<1>7. RationaleIsText'
  <2> SUFFICES ASSUME kind = "classification" PROVE RationaleIsText'
    BY <1>1 DEF RationaleIsText
  <2>1. "rationale" \in DOMAIN rec /\ rec.rationale \in Seq(Tokens)
    BY DEF DraftHolds, RationaleIsText
  <2>2. f = "rationale" => v \in Seq(Tokens)
    BY EditedValues, TextsAreTokens
  <2>3. rec'.rationale \in Seq(Tokens)
    BY <1>5, <2>1, <2>2
  <2> QED
    BY <1>4, <2>1, <2>3 DEF RationaleIsText
<1>8. SelectionIsBacked'
  <2> SUFFICES ASSUME kind = "passScope" PROVE SelectionIsBacked'
    BY <1>1 DEF SelectionIsBacked
  <2>1. "actor" \in DOMAIN rec /\ rec.actor \in {"customer_user", "reviewer", "vendor_service"}
    BY DEF DraftHolds, SelectionIsBacked
  <2>2. f = "actor" => v \in {"customer_user", "reviewer", "vendor_service"}
    BY EditedValues
  <2>3. rec'.actor \in {"customer_user", "reviewer", "vendor_service"}
    BY <1>5, <2>1, <2>2
  <2>4. BackedUnlessCustomer(rec')
    BY <1>1
  <2> QED
    BY <1>4, <2>1, <2>3, <2>4 DEF SelectionIsBacked, BackedUnlessCustomer
<1>9. AttestationContextHolds' /\ PackageHolds'
  BY <1>1 DEF DraftHolds, AttestationContextHolds, PackageHolds
<1> QED
  BY <1>6, <1>7, <1>8, <1>9 DEF DraftHolds

LEMMA EditContextKeepsDraft == ASSUME DraftHolds, EditContext PROVE DraftHolds'
<1>1. /\ kind \in {"attestation", "finalization"} /\ kind' = kind /\ rec' = rec
      /\ edits' = edits + 1
  BY DEF EditContext
<1>2. PICK f \in DOMAIN bound : \E v \in ContextEdits(bound, f) : bound' = [bound EXCEPT ![f] = v]
  BY DEF EditContext
<1>3. PICK v \in ContextEdits(bound, f) : bound' = [bound EXCEPT ![f] = v]
  BY <1>2
<1>4. DOMAIN bound' = DOMAIN bound
  BY <1>3
<1>5. \A c \in DOMAIN bound : bound'[c] = IF c = f THEN v ELSE bound[c]
  BY <1>3
<1>6. UntouchedIsHonest' /\ BasisIsDrafted' /\ RationaleIsText' /\ SelectionIsBacked'
  BY <1>1 DEF DraftHolds, UntouchedIsHonest, BasisIsDrafted, RationaleIsText, SelectionIsBacked
<1>7. AttestationContextHolds'
  <2> SUFFICES ASSUME kind = "attestation" PROVE AttestationContextHolds'
    BY <1>1 DEF AttestationContextHolds
  <2>1. /\ {"mappings", "history"} \subseteq DOMAIN bound
        /\ \A m, n \in bound.mappings : m = n
        /\ \A m \in bound.mappings : m.id # None
        /\ LoggedOnce(bound.history) /\ VersionsAreNumbers(bound.history)
    BY DEF DraftHolds, AttestationContextHolds
  <2>2. f = "mappings" => (\A m, n \in v : m = n) /\ (\A m \in v : m.id # None)
    <3> SUFFICES ASSUME f = "mappings" PROVE (\A m, n \in v : m = n) /\ (\A m \in v : m.id # None)
      OBVIOUS
    <3>1. v \in {{}} \cup {{m} : m \in MappingEdits(HonestMapping)}
      BY DEF ContextEdits
    <3>2. \A m \in MappingEdits(HonestMapping) : m.id # None
      <4> SUFFICES ASSUME NEW m \in MappingEdits(HonestMapping) PROVE m.id # None
        OBVIOUS
      <4>1. HonestMapping.id = "m1" /\ "id" \in DOMAIN HonestMapping
        BY DEF HonestMapping
      <4>2. CASE m \in OneFieldChanged(HonestMapping, {"entries"})
        <5>1. PICK g \in DOMAIN HonestMapping \ {"entries"} : \E u \in PartValues(g) :
                m = [HonestMapping EXCEPT ![g] = u]
          BY <4>2 DEF OneFieldChanged
        <5>2. PICK u \in PartValues(g) : m = [HonestMapping EXCEPT ![g] = u]
          BY <5>1
        <5>3. PartValues("id") = {"other"}
          BY DEF PartValues
        <5>4. m.id = IF g = "id" THEN u ELSE "m1"
          BY <4>1, <5>2
        <5> QED
          BY <5>2, <5>3, <5>4 DEF None
      <4>3. CASE \E u : m = [HonestMapping EXCEPT !.entries = u]
        <5>1. m.id = "m1"
          BY <4>1, <4>3
        <5> QED
          BY <5>1 DEF None
      <4> QED
        BY <4>2, <4>3 DEF MappingEdits
    <3> QED
      BY <3>1, <3>2
  <2>3. f = "history" => LoggedOnce(v) /\ VersionsAreNumbers(v)
    <3>1. f = "history" => v \in HistoryEdits(bound.history)
      BY DEF ContextEdits
    <3> QED
      BY <2>1, <3>1, EditedHistory DEF HistoryEdits
  <2>4. /\ bound'.mappings = IF f = "mappings" THEN v ELSE bound.mappings
        /\ bound'.history = IF f = "history" THEN v ELSE bound.history
    BY <1>5, <2>1
  <2> QED
    BY <1>4, <2>1, <2>2, <2>3, <2>4 DEF AttestationContextHolds, LoggedOnce, VersionsAreNumbers
<1>8. PackageHolds'
  <2> SUFFICES ASSUME kind = "finalization" PROVE PackageHolds'
    BY <1>1 DEF PackageHolds
  <2>1. /\ {"generated", "finalized"} \subseteq DOMAIN bound
        /\ IsManifest(bound.generated) /\ IsManifest(bound.finalized)
    BY DEF DraftHolds, PackageHolds
  <2>2. f \in {"generated", "finalized"} => IsManifest(v)
    <3> SUFFICES ASSUME f \in {"generated", "finalized"} PROVE IsManifest(v)
      OBVIOUS
    <3>1. v \in ManifestEdits(bound[f])
      BY DEF ContextEdits
    <3> QED
      BY <2>1, <3>1, EditedManifest
  <2>3. /\ bound'.generated = IF f = "generated" THEN v ELSE bound.generated
        /\ bound'.finalized = IF f = "finalized" THEN v ELSE bound.finalized
    BY <1>5, <2>1
  <2>4. IsManifest(bound'.generated) /\ IsManifest(bound'.finalized)
    BY <2>1, <2>2, <2>3
  <2> QED
    BY <1>4, <2>1, <2>4 DEF PackageHolds, IsManifest
<1> QED
  BY <1>6, <1>7, <1>8 DEF DraftHolds

LEMMA DraftStep == DraftHolds /\ [Next]_vars => DraftHolds'
<1> SUFFICES ASSUME DraftHolds, [Next]_vars PROVE DraftHolds'
  OBVIOUS
<1>1. CASE \E w \in Tokens : Type(w)
  <2>1. kind = "text" /\ kind' = kind
    BY <1>1 DEF Type
  <2>2. UntouchedIsHonest'
    BY UntouchedStep DEF DraftHolds
  <2> QED
    BY <2>1, <2>2
       DEF DraftHolds, BasisIsDrafted, RationaleIsText, SelectionIsBacked, AttestationContextHolds,
           PackageHolds
<1>2. CASE Edit
  BY <1>2, EditKeepsDraft
<1>3. CASE EditContext
  BY <1>3, EditContextKeepsDraft
<1>4. CASE EditClassification
  <2>1. kind \in {"guidance", "falsePositive", "path", "acceptedRisk"} /\ kind' = kind /\ rec' = rec
    BY <1>4 DEF EditClassification
  <2>2. UntouchedIsHonest'
    BY UntouchedStep DEF DraftHolds
  <2> QED
    BY <2>1, <2>2
       DEF DraftHolds, BasisIsDrafted, RationaleIsText, SelectionIsBacked, AttestationContextHolds,
           PackageHolds
<1>5. CASE EditPackageRecord
  <2>1. kind \in PackageKinds /\ kind' = kind /\ bound' = bound
    BY <1>5 DEF EditPackageRecord
  <2>2. UntouchedIsHonest'
    BY UntouchedStep DEF DraftHolds
  <2> QED
    BY <2>1, <2>2
       DEF DraftHolds, BasisIsDrafted, RationaleIsText, SelectionIsBacked, AttestationContextHolds,
           PackageHolds, PackageKinds
<1>6. CASE EditEnvelope
  <2>1. kind' = kind /\ bound' = bound /\ rec' = rec
    BY <1>6 DEF EditEnvelope
  <2>2. UntouchedIsHonest'
    BY UntouchedStep DEF DraftHolds
  <2> QED
    BY <2>1, <2>2
       DEF DraftHolds, BasisIsDrafted, RationaleIsText, SelectionIsBacked, AttestationContextHolds,
           PackageHolds
<1>7. CASE EditProof
  <2>1. kind \in {"proof", "chain"} /\ kind' = kind
    BY <1>7 DEF EditProof, ProofKinds
  <2>2. UntouchedIsHonest'
    BY UntouchedStep DEF DraftHolds
  <2> QED
    BY <2>1, <2>2
       DEF DraftHolds, BasisIsDrafted, RationaleIsText, SelectionIsBacked, AttestationContextHolds,
           PackageHolds
<1>8. CASE UNCHANGED recordVars
  <2>1. kind' = kind /\ bound' = bound /\ rec' = rec
    BY <1>8 DEF recordVars
  <2>2. UntouchedIsHonest'
    BY UntouchedStep DEF DraftHolds
  <2> QED
    BY <2>1, <2>2
       DEF DraftHolds, BasisIsDrafted, RationaleIsText, SelectionIsBacked, AttestationContextHolds,
           PackageHolds
<1> QED
  BY <1>1, <1>2, <1>3, <1>4, <1>5, <1>6, <1>7, <1>8 DEF Next, RecordNext, vars

(* However often a draft is edited, it keeps the shape the judges rely on. *)
THEOREM DraftsKeepShape == Spec => []DraftHolds
BY DraftInit, DraftStep, PTL DEF Spec

(* A finalized package the control plane accepts passes every rule of the  *)
(* gate's chain: the finalized manifest is the generated one in its next   *)
(* version, field by field.                                                *)
LEMMA FinalizationCovers ==
  ASSUME NEW f, NEW w, finalizationAccepted(f, w), IsManifest(w.generated), IsManifest(w.finalized),
         PathsHaveTheirRoles(w.generated), NavigationIsInOrder(w.portal)
  PROVE  /\ gateFinalizationAccepted(f) /\ gatePackageChainHolds(f, w)
         /\ gateManifestAccepted(w.generated) /\ gateManifestAccepted(w.finalized)
         /\ gatePortalAccepted(w.portal)
<1> DEFINE g == w.generated
           z == w.finalized
<1>1. /\ manifestAccepted(g) /\ manifestAccepted(z) /\ ManifestSchema(g) /\ ManifestSchema(z)
      /\ FinalizedIsNextVersion(f, w) /\ ContentIsUnchanged(w) /\ portalAccepted(w.portal)
      /\ PackageIsOfOneReview(f, w) /\ SignaturesHold(f, w) /\ ReceiptIsVerified(w)
      /\ PortalIsThePackages(w) /\ FinalizationSchema(f) /\ f.sealed
      /\ f.exported => f.exportedAt >= f.at
      /\ ~epic5NarrativeTextForbidden(f.text)
  BY DEF finalizationAccepted
<1>2. /\ g.state = "generated" /\ g.supersedes = None /\ z.state = "finalized"
      /\ f.generated = g.id /\ f.finalized = z.id /\ z.supersedes = g.id
      /\ z.version = f.version /\ z.version = g.version + 1
  BY <1>1 DEF FinalizedIsNextVersion
<1>3. /\ z.attestation = g.attestation /\ z.receipt = g.receipt /\ z.evidence = g.evidence
      /\ z.files = g.files /\ z.included = g.included /\ z.outer = g.outer
      /\ z.instructions = g.instructions /\ z.portal = g.portal
  BY <1>1 DEF ContentIsUnchanged, ContentFields
<1>4. /\ g.review = f.review /\ z.review = f.review /\ g.bundle = f.bundle /\ z.bundle = f.bundle
      /\ w.attestation.review = f.review /\ w.portal.review = f.review /\ w.portal.bundle = f.bundle
      /\ f.visible = [attestation |-> w.attestation.id, bundle |-> f.bundle, generated |-> g.id]
  BY <1>1 DEF PackageIsOfOneReview
<1>5. z.id # g.id
  BY <1>1, <1>2 DEF manifestAccepted, FinalizedSupersedes
<1>6. g.sealed = z.sealed /\ g.extra = z.extra
  BY <1>1 DEF IsManifest, manifestAccepted, ManifestSchema
<1>7. gateManifestAccepted(g)
  BY <1>1, <1>2, ManifestCovers DEF GeneratedSupersedesNothing
<1>8. gateManifestAccepted(z)
  <2>1. PathsHaveTheirRoles(z)
    BY <1>3 DEF PathsHaveTheirRoles
  <2>2. GeneratedSupersedesNothing(z)
    BY <1>2 DEF GeneratedSupersedesNothing
  <2> QED
    BY <1>1, <2>1, <2>2, ManifestCovers
<1>9. gatePortalAccepted(w.portal)
  BY <1>1, PortalCovers
<1>10. gateFinalizationAccepted(f)
  <2>1. f.visible.bundle = f.bundle /\ f.visible.generated = f.generated
    BY <1>2, <1>4
  <2>2. ~collectRemediationTextViolations(f.text, FALSE)
    BY <1>1, NarrativeCovers
  <2>3. f.actor = "customer_user" /\ f.sealed /\ f.version >= 2 /\ f.shown
    BY <1>1 DEF FinalizationSchema
  <2>4. f.exported = (f.exportedAt # Unset)
    BY <1>1, Zenon DEF FinalizationSchema
  <2>5. f.generated # f.finalized
    BY <1>2, <1>5
  <2> QED
    BY <1>1, <2>1, <2>2, <2>3, <2>4, <2>5, Zenon DEF gateFinalizationAccepted
<1>11. z = [g EXCEPT !.id = z.id, !.version = g.version + 1, !.state = "finalized", !.at = z.at,
                     !.supersedes = g.id]
  <2> DEFINE n == [g EXCEPT !.id = z.id, !.version = g.version + 1, !.state = "finalized",
                            !.at = z.at, !.supersedes = g.id]
  <2>1. g = [c \in ManifestFields |-> g[c]] /\ z = [c \in ManifestFields |-> z[c]]
    BY DEF IsManifest
  <2>2. DOMAIN n = DOMAIN g
    OBVIOUS
  <2>3. n = [c \in ManifestFields |-> n[c]]
    BY <2>1, <2>2
  <2>4. \A c \in ManifestFields \ {"id", "version", "state", "at", "supersedes"} : n[c] = g[c]
    BY <2>1
  <2>5. /\ n["id"] = z.id /\ n["version"] = g.version + 1 /\ n["state"] = "finalized"
        /\ n["at"] = z.at /\ n["supersedes"] = g.id
    BY <2>1 DEF ManifestFields
  <2> HIDE DEF n
  <2>6. \A c \in ManifestFields \ {"id", "version", "state", "at", "supersedes"} : z[c] = g[c]
    BY <1>3, <1>4, <1>6 DEF ManifestFields
  <2>7. \A c \in ManifestFields : z[c] = n[c]
    BY <1>2, <2>4, <2>5, <2>6
  <2>8. z = n
    BY <2>1, <2>3, <2>7
  <2> QED
    BY <2>8 DEF n
<1>12. gatePackageChainHolds(f, w)
  <2>1. f.visible.attestation = w.attestation.id
    BY <1>4
  <2>2. /\ g.attestation = w.attestation.id /\ w.portal.manifest = g.id
        /\ w.generatedSignature.identity = g.id /\ w.signature.identity = z.id
    BY <1>1 DEF ReceiptIsVerified, PortalIsThePackages, SignaturesHold,
                signatureEnvelopeMatchesExpectation
  <2> QED
    BY <1>2, <1>4, <1>11, <2>1, <2>2 DEF gatePackageChainHolds
<1> QED
  BY <1>7, <1>8, <1>9, <1>10, <1>12

LEMMA AttestedMappingCovers ==
  ASSUME kind = "attestation", AttestationContextHolds, attestationAccepted(rec, bound)
  PROVE  \A m \in bound.mappings : m.id = rec.mapping => gateMappingAccepted(m)
<1> SUFFICES ASSUME NEW m \in bound.mappings, m.id = rec.mapping PROVE gateMappingAccepted(m)
  OBVIOUS
<1>1. m.id # None /\ \A n \in bound.mappings : n = m
  BY DEF AttestationContextHolds
<1>2. PICK n \in bound.mappings : mappingAccepted(n, rec)
  BY <1>1 DEF attestationAccepted, MappingResolves
<1> QED
  BY <1>1, <1>2, MappingCovers

(* The draft's shape is all the gate needs beyond the control plane's own  *)
(* rules.                                                                  *)
LEMMA DraftPassesGate ==
  ASSUME DraftHolds, kind \in DOMAIN Honest \ JudgedKinds, RuntimeAccepts, ~KnownDisagreement
  PROVE  GateAccepts
<1>1. kind \in {"classification", "guidance", "status", "falsePositive", "path", "script",
                "acceptedRisk", "outcome", "attestation", "mapping", "staticBundle", "portal",
                "finalization", "pilotMetric", "pilotFeedback"}
  BY HonestKinds DEF JudgedKinds
<1>2. kind \in {"classification", "falsePositive", "acceptedRisk"} =>
        "finding_context_snippet" \notin rec.basis
  BY DEF DraftHolds, BasisIsDrafted, KnownDisagreement, SnippetDrift
<1>3. CASE kind = "classification"
  BY <1>2, <1>3, ClassificationCovers DEF RuntimeAccepts, GateAccepts
<1>4. CASE kind = "guidance"
  BY <1>4, GuidanceCovers DEF RuntimeAccepts, GateAccepts
<1>5. CASE kind = "status"
  BY <1>5, StatusCovers DEF RuntimeAccepts, GateAccepts
<1>6. CASE kind = "falsePositive"
  BY <1>2, <1>6, FalsePositiveCovers DEF RuntimeAccepts, GateAccepts
<1>7. CASE kind = "path"
  BY <1>7, PathCovers DEF RuntimeAccepts, GateAccepts
<1>8. CASE kind = "script"
  BY <1>8, ScriptCovers DEF RuntimeAccepts, GateAccepts
<1>9. CASE kind = "acceptedRisk"
  <2>1. \A t \in AcceptedRiskTexts(rec) : ~ExcusedElsewhere(t) /\ ~OnlyGateKnows(t)
    BY <1>9 DEF KnownDisagreement, MaskedClosure, ClosureDrift
  <2> QED
    BY <1>2, <1>9, <2>1, AcceptedRiskCovers DEF RuntimeAccepts, GateAccepts
<1>10. CASE kind = "outcome"
  BY <1>10, OutcomeCovers DEF RuntimeAccepts, GateAccepts
<1>11. CASE kind = "attestation"
  BY <1>11, AttestationCovers, AttestedMappingCovers DEF RuntimeAccepts, GateAccepts, DraftHolds
<1>12. CASE kind = "mapping"
  BY <1>12, MappingCovers DEF RuntimeAccepts, GateAccepts
<1>13. CASE kind = "staticBundle"
  BY <1>13, ManifestCovers DEF RuntimeAccepts, GateAccepts, KnownDisagreement, PackageDrift
<1>14. CASE kind = "portal"
  BY <1>14, PortalCovers DEF RuntimeAccepts, GateAccepts, KnownDisagreement, PackageDrift
<1>15. CASE kind = "finalization"
  BY <1>15, FinalizationCovers
     DEF RuntimeAccepts, GateAccepts, KnownDisagreement, PackageDrift, DraftHolds, PackageHolds
<1>16. CASE kind \in {"pilotMetric", "pilotFeedback"}
  BY <1>16, PilotMetricCovers, PilotFeedbackCovers DEF RuntimeAccepts, GateAccepts
<1> QED
  BY <1>1, <1>3, <1>4, <1>5, <1>6, <1>7, <1>8, <1>9, <1>10, <1>11, <1>12, <1>13, <1>14, <1>15, <1>16

LEMMA DraftIsRecordable == DraftHolds => RecordedPassesGate
<1> SUFFICES ASSUME DraftHolds PROVE RecordedPassesGate
  OBVIOUS
<1>1. kind \in DOMAIN Honest \ JudgedKinds /\ edits = 0 => RuntimeAccepts
  BY HonestIsAccepted DEF DraftHolds, UntouchedIsHonest
<1> QED
  BY <1>1, ScansCoverGate, DraftPassesGate DEF RecordedPassesGate

(* However often a record or what it is bound to is edited, what the       *)
(* control plane's rejectionFor... functions accept the gate's             *)
(* validate...Semantics accept too, apart from the known disagreements;    *)
(* every text the gate's scanners refuse the runtime's refuse; and an      *)
(* honest record is accepted.                                              *)
THEOREM RecordedAlwaysPassesGate == Spec => []RecordedPassesGate
BY DraftsKeepShape, DraftIsRecordable, PTL

-----------------------------------------------------------------------------
(* The events the builders make.                                           *)

(* What the schema asks of an event the append asks too, but for the       *)
(* reason, the customer's own words, the backing and the visibility.       *)
LEMMA SchemaAppends ==
  ASSUME NEW e, ReviewEventSchema(e), ReasonIsAppendable(e), PassEventIsAppendable(e), e.key = e.ref,
         e.type = "customer_accepted_risk_recorded" =>
           /\ e.actor \in {"customer_user", "reviewer", "vendor_service"}
           /\ acceptedRiskEventReasonCarriesCustomerEvidence(e.reason),
         e.type \in {"attestation_generated", "static_bundle_generated"} \cup PackageTypes =>
           e.visibility = "customer_facing"
  PROVE  eventAccepted(e)
BY DEF eventAccepted, ReviewEventSchema, RecordActorsSchema, PackageEventIsAppendable,
       typedReviewEventArtifactRefsMatch

LEMMA CleanReasonAppends ==
  ASSUME NEW e, CleanText(e.reason)
  PROVE  ReasonIsAppendable(e)
BY CleanIsAccepted DEF ReasonIsAppendable

PassTypes == {"verification_scope_recorded", "verification_evidence_recorded", "verification_recorded"}

(* An event of no pass has nothing to back. *)
LEMMA OtherTypesArePassed ==
  ASSUME NEW e, e.type \notin PassTypes
  PROVE  PassEventIsAppendable(e)
BY DEF PassEventIsAppendable, PassTypes

LEMMA RecordEventHolds ==
  ASSUME NEW r, NEW v, NEW type, NEW reason, NEW e \in RecordEvent(r, v, type, reason)
  PROVE  /\ e = TypedEvent(r, v, type, reason) /\ ReviewEventSchema(e)
         /\ e.type = type /\ e.reason = reason /\ e.key = e.ref /\ e.actor = r.actor
         /\ NoteIsInternal(e)
         /\ r.visibility = "internal_only" => e.visibility = "internal_only"
<1>1. /\ e = TypedEvent(r, v, type, reason) /\ ReviewEventSchema(e)
      /\ EnvelopeFits(r, v) /\ InternalStaysInternal(r, v) /\ NoteIsInternal(e)
  BY DEF RecordEvent, Built
<1>2. /\ e.type = type /\ e.reason = reason /\ e.key = r.id /\ e.ref = r.id
      /\ e.actor = Or(v.actor, r.actor) /\ e.visibility = Or(v.visibility, r.visibility)
  BY <1>1 DEF TypedEvent
<1>3. e.actor = r.actor
  BY <1>1, <1>2 DEF EnvelopeFits, Or
<1>4. r.visibility = "internal_only" => e.visibility = "internal_only"
  BY <1>1, <1>2 DEF InternalStaysInternal, ReviewEventSchema, Visibilities
<1> QED
  BY <1>1, <1>2, <1>3, <1>4

PlainTypes == {"remediation_guidance_recorded", "customer_remediation_recorded",
               "false_positive_recorded", "validation_recorded"}

LEMMA PlainRecordAppends ==
  ASSUME NEW r, NEW v, NEW type \in PlainTypes, NEW reason, CleanText(reason),
         NEW e \in RecordEvent(r, v, type, reason)
  PROVE  eventAccepted(e) /\ (r.visibility = "internal_only" => e.visibility = "internal_only")
<1>1. /\ ReviewEventSchema(e) /\ e.type = type /\ e.reason = reason /\ e.key = e.ref
      /\ r.visibility = "internal_only" => e.visibility = "internal_only"
  BY RecordEventHolds
<1>2. ReasonIsAppendable(e)
  BY <1>1, CleanReasonAppends
<1>3. PassEventIsAppendable(e)
  BY <1>1, OtherTypesArePassed DEF PassTypes, PlainTypes
<1>4. /\ e.type # "customer_accepted_risk_recorded"
      /\ e.type \notin {"attestation_generated", "static_bundle_generated"} \cup PackageTypes
  BY <1>1 DEF PlainTypes, PackageTypes
<1> QED
  BY <1>1, <1>2, <1>3, <1>4, SchemaAppends

LEMMA CarriesEvidence ==
  ASSUME NEW t \in Seq(CleanTokens), Len(t) > 4, t[5] # "cue",
         t[1] = "word", t[2] = "dot", t[3] = "word", t[4] = "colon"
  PROVE  acceptedRiskEventReasonCarriesCustomerEvidence(t)
<1>1. \A i \in 1 .. 4 : t[i] \in CleanTokens
  BY ElementOfSeq
<1>2. SubSeq(t, 1, 4) \in Seq(CleanTokens)
  BY <1>1, SubSeqProperties
<1>3. Len(SubSeq(t, 1, 4)) = 4 /\ \A i \in 1 .. 4 : SubSeq(t, 1, 4)[i] = t[i]
  BY <1>1, SubSeqProperties
<1>4. PICK u \in Seq(CleanTokens) : u = SubSeq(t, 1, 4)
  BY <1>2
<1>5. Len(u) = 4 /\ u[1] = "word" /\ u[2] = "dot" /\ u[3] = "word" /\ u[4] = "colon"
  BY <1>3, <1>4
<1>6. u = <<"word", "dot", "word", "colon">>
  BY <1>5
<1> QED
  BY <1>4, <1>6 DEF acceptedRiskEventReasonCarriesCustomerEvidence

LEMMA AcceptedRiskAppends ==
  ASSUME NEW r, NEW v, r.actor \in {"customer_user", "reviewer", "vendor_service"},
         NEW e \in RecordEvent(r, v, "customer_accepted_risk_recorded", acceptedRiskEventReason)
  PROVE  eventAccepted(e) /\ (r.visibility = "internal_only" => e.visibility = "internal_only")
<1>1. /\ ReviewEventSchema(e) /\ e.type = "customer_accepted_risk_recorded"
      /\ e.reason = acceptedRiskEventReason /\ e.key = e.ref /\ e.actor = r.actor
      /\ r.visibility = "internal_only" => e.visibility = "internal_only"
  BY RecordEventHolds
<1>2. CleanText(acceptedRiskEventReason)
  BY DEF CleanText, CleanTokens, acceptedRiskEventReason
<1>3. acceptedRiskEventReasonCarriesCustomerEvidence(acceptedRiskEventReason)
  <2>1. acceptedRiskEventReason \in Seq(CleanTokens) /\ Len(acceptedRiskEventReason) = 7
    BY DEF acceptedRiskEventReason, CleanTokens
  <2>2. /\ acceptedRiskEventReason[1] = "word" /\ acceptedRiskEventReason[2] = "dot"
        /\ acceptedRiskEventReason[3] = "word" /\ acceptedRiskEventReason[4] = "colon"
        /\ acceptedRiskEventReason[5] = "word"
    BY DEF acceptedRiskEventReason
  <2> QED
    BY <2>1, <2>2, CarriesEvidence
<1>4. ReasonIsAppendable(e)
  BY <1>1, <1>2, CleanReasonAppends
<1>5. PassEventIsAppendable(e)
  BY <1>1, OtherTypesArePassed DEF PassTypes
<1>6. e.type \notin {"attestation_generated", "static_bundle_generated"} \cup PackageTypes
  BY <1>1 DEF PackageTypes
<1> QED
  BY <1>1, <1>3, <1>4, <1>5, <1>6, SchemaAppends

(* An event of the pass, whose reason no scanner minds.                    *)
LEMMA ScopeAppends ==
  ASSUME NEW r, NEW v, r.actor \in {"customer_user", "reviewer", "vendor_service"},
         BackedUnlessCustomer(r), NEW e \in buildVerificationPassScopeEvent(r, v)
  PROVE  eventAccepted(e) /\ (r.visibility = "internal_only" => e.visibility = "internal_only")
<1>1. PICK o \in RecordEvent(r, v, "verification_scope_recorded", verificationPassScopeEventReason) :
        e = [o EXCEPT !.backing = r.backing]
  BY DEF buildVerificationPassScopeEvent
<1>2. /\ o = TypedEvent(r, v, "verification_scope_recorded", verificationPassScopeEventReason)
      /\ ReviewEventSchema(o) /\ o.type = "verification_scope_recorded"
      /\ o.reason = verificationPassScopeEventReason /\ o.key = o.ref /\ o.actor = r.actor
      /\ NoteIsInternal(o)
      /\ r.visibility = "internal_only" => o.visibility = "internal_only"
  BY <1>1, RecordEventHolds
<1>3. /\ e.type = o.type /\ e.reason = o.reason /\ e.key = o.key /\ e.ref = o.ref
      /\ e.actor = o.actor /\ e.note = o.note /\ e.visibility = o.visibility
      /\ e.backing = r.backing
  BY <1>1, <1>2 DEF TypedEvent
<1>4. CleanText(verificationPassScopeEventReason)
  BY DEF CleanText, CleanTokens, verificationPassScopeEventReason
<1>5. ReasonIsAppendable(e) /\ ~verificationArtifactTextHasForbiddenContent(e.reason)
  BY <1>2, <1>3, <1>4, CleanReasonAppends, CleanIsAccepted
<1>6. PassEventIsAppendable(e)
  BY <1>2, <1>3, <1>5 DEF PassEventIsAppendable, BackedUnlessCustomer
<1>7. NoteIsInternal(e) /\ e.key = e.ref
  BY <1>2, <1>3 DEF NoteIsInternal
<1>8. PackageEventIsAppendable(e)
  BY <1>2, <1>3 DEF PackageEventIsAppendable, PackageActorsSchema, PackageTypes, PilotTypes
<1> QED
  BY <1>2, <1>3, <1>5, <1>6, <1>7, <1>8
     DEF eventAccepted, ReviewerTypes, typedReviewEventArtifactRefsMatch

LEMMA PassStaysInternal ==
  ASSUME NEW r, NEW v, NEW reason, NEW type, NEW e \in PassEvent(r, v, type, reason)
  PROVE  r.visibility = "internal_only" => e.visibility = "internal_only"
<1>1. /\ e = [TypedEvent(r, v, type, reason) EXCEPT !.backing = r.backing, !.class = Retained]
      /\ ReviewEventSchema(e) /\ InternalStaysInternal(r, v)
  BY DEF PassEvent, Built
<1>2. e.visibility = Or(v.visibility, r.visibility)
  BY <1>1 DEF TypedEvent
<1> QED
  BY <1>1, <1>2 DEF InternalStaysInternal, ReviewEventSchema, Visibilities

LEMMA PassEventAppends ==
  ASSUME NEW r, NEW v, NEW reason, CleanText(reason),
         NEW type \in {"verification_evidence_recorded", "verification_recorded"},
         NEW e \in PassEvent(r, v, type, reason)
  PROVE  eventAccepted(e) /\ (r.visibility = "internal_only" => e.visibility = "internal_only")
<1>1. /\ e = [TypedEvent(r, v, type, reason) EXCEPT !.backing = r.backing, !.class = Retained]
      /\ ReviewEventSchema(e)
  BY DEF PassEvent, Built
<1>2. e.type = type /\ e.reason = reason /\ e.key = e.ref
  BY <1>1 DEF TypedEvent
<1>3. r.visibility = "internal_only" => e.visibility = "internal_only"
  BY PassStaysInternal
<1>4. ReasonIsAppendable(e) /\ ~verificationArtifactTextHasForbiddenContent(e.reason)
  BY <1>2, CleanReasonAppends, CleanIsAccepted
<1>5. PassEventIsAppendable(e)
  BY <1>1, <1>2, <1>4 DEF PassEventIsAppendable, ReviewEventSchema, RecordActorsSchema
<1>6. /\ e.type # "customer_accepted_risk_recorded"
      /\ e.type \notin {"attestation_generated", "static_bundle_generated"} \cup PackageTypes
  BY <1>2 DEF PackageTypes
<1> QED
  BY <1>1, <1>2, <1>3, <1>4, <1>5, <1>6, SchemaAppends

LEMMA PackageRecordAppends ==
  ASSUME NEW r, NEW v, NEW reason, CleanText(reason), NEW visibility,
         NEW type \in {"attestation_generated", "static_bundle_generated"} \cup PackageTypes
                        \cup PilotTypes,
         type \notin PilotTypes => visibility = "customer_facing",
         NEW e \in epic5ReviewEvent(r, v, type, visibility, reason)
  PROVE  eventAccepted(e) /\ e.visibility = visibility
<1>1. /\ e = [TypedEvent(r, v, type, reason) EXCEPT !.visibility = visibility, !.at = "own",
                                                    !.note = FALSE, !.class = Retained]
      /\ ReviewEventSchema(e)
  BY DEF epic5ReviewEvent, Built
<1>2. e.type = type /\ e.reason = reason /\ e.key = e.ref /\ e.visibility = visibility
  BY <1>1 DEF TypedEvent
<1>3. ReasonIsAppendable(e)
  BY <1>2, CleanReasonAppends
<1>4. PassEventIsAppendable(e) /\ e.type # "customer_accepted_risk_recorded"
  BY <1>2, OtherTypesArePassed DEF PassTypes, PackageTypes, PilotTypes
<1>5. e.type \in {"attestation_generated", "static_bundle_generated"} \cup PackageTypes =>
        e.visibility = "customer_facing"
  BY <1>2 DEF PackageTypes, PilotTypes
<1> QED
  BY <1>1, <1>2, <1>3, <1>4, <1>5, SchemaAppends

(* Clean words around a text that the scanners accept, and that has no     *)
(* underscore to join one of them to it, change no verdict.                *)
LEMMA WrappedIsAppendable ==
  ASSUME NEW p \in Seq(CleanTokens), NEW x \in Seq(Tokens), NEW s \in Seq(CleanTokens),
         ~LooseProse(x), ~textHasForbiddenClassificationContent(x)
  PROVE  /\ ~sourceTextForbiddenPhrase(p \o x \o s) /\ ~sourceCodeLikeTextReason(p \o x \o s)
         /\ ~claimSafeForbiddenPhrase(p \o x \o s) /\ ~customerProseForbidden(p \o x \o s)
<1>1. PICK t : t = p \o x \o s
  OBVIOUS
<1>2. PICK m \in Nat, n \in Nat, k \in Nat : m = Len(p) /\ n = Len(x) /\ k = Len(s)
  BY LenProperties
<1>3. CleanTokens \subseteq Tokens
  BY DEF CleanTokens, Tokens
<1>4. p \in Seq(Tokens) /\ s \in Seq(Tokens)
  BY <1>3, SeqMonotonic
<1>5. /\ p \o x \in Seq(Tokens) /\ Len(p \o x) = m + n
      /\ \A i \in 1 .. m + n : (p \o x)[i] = IF i <= m THEN p[i] ELSE x[i - m]
  BY <1>2, <1>4, ConcatProperties
<1>6. /\ t \in Seq(Tokens) /\ Len(t) = m + n + k
      /\ \A i \in 1 .. m + n + k : t[i] = IF i <= m + n THEN (p \o x)[i] ELSE s[i - (m + n)]
  <2>1. /\ (p \o x) \o s \in Seq(Tokens) /\ Len((p \o x) \o s) = (m + n) + k
        /\ \A i \in 1 .. (m + n) + k :
             ((p \o x) \o s)[i] = IF i <= m + n THEN (p \o x)[i] ELSE s[i - (m + n)]
    BY <1>2, <1>4, <1>5, ConcatProperties
  <2> QED
    BY <1>1, <2>1
<1>7. /\ \A j \in 1 .. n : t[m + j] = x[j]
      /\ \A i \in 1 .. m + n + k : \/ t[i] \in CleanTokens
                                   \/ i - m \in 1 .. n /\ t[i] = x[i - m]
  <2>1. \A i \in 1 .. m : p[i] \in CleanTokens
    BY <1>2, ElementOfSeq
  <2>2. \A i \in 1 .. k : s[i] \in CleanTokens
    BY <1>2, ElementOfSeq
  <2>3. \A j \in 1 .. n : t[m + j] = x[j]
    <3> SUFFICES ASSUME NEW j \in 1 .. n PROVE t[m + j] = x[j]
      OBVIOUS
    <3>1. j \in Int /\ 1 <= j /\ j <= n
      OBVIOUS
    <3>2. m + j \in 1 .. m + n /\ m + j \in 1 .. m + n + k /\ m + j <= m + n
      BY <3>1
    <3>3. ~(m + j <= m) /\ (m + j) - m = j
      BY <3>1
    <3>4. t[m + j] = (p \o x)[m + j]
      BY <1>6, <3>2
    <3>5. (p \o x)[m + j] = x[(m + j) - m]
      BY <1>5, <3>2, <3>3
    <3> QED
      BY <3>3, <3>4, <3>5
  <2>4. ASSUME NEW i \in 1 .. m + n + k
        PROVE  t[i] \in CleanTokens \/ (i - m \in 1 .. n /\ t[i] = x[i - m])
    <3>1. CASE i <= m
      <4>1. i \in 1 .. m /\ i \in 1 .. m + n /\ i <= m + n
        BY <3>1
      <4> QED
        BY <1>5, <1>6, <2>1, <3>1, <4>1
    <3>2. CASE i > m /\ i <= m + n
      <4>1. i - m \in 1 .. n /\ i \in 1 .. m + n /\ ~(i <= m)
        BY <3>2
      <4> QED
        BY <1>5, <1>6, <3>2, <4>1
    <3>3. CASE i > m + n
      <4>1. i - (m + n) \in 1 .. k /\ ~(i <= m + n)
        BY <3>3
      <4> QED
        BY <1>6, <2>2, <4>1
    <3> QED
      BY <3>1, <3>2, <3>3
  <2> QED
    BY <2>3, <2>4
<1>8. DOMAIN x = 1 .. n /\ DOMAIN t = 1 .. m + n + k
  BY <1>2, <1>6, LenProperties
<1>9. ASSUME NEW w, w \notin CleanTokens, NEW i \in DOMAIN t, t[i] = w
      PROVE  i - m \in DOMAIN x /\ x[i - m] = w /\ m + (i - m) = i /\ i - m \in Int /\ i \in Int
  <2>1. i \in 1 .. m + n + k
    BY <1>8
  <2>2. i - m \in 1 .. n /\ t[i] = x[i - m]
    BY <1>7, <1>9, <2>1
  <2>3. i \in Int /\ i - m \in Int /\ m + (i - m) = i
    BY <2>1
  <2> QED
    BY <1>8, <1>9, <2>2, <2>3
<1>10. \A w : w \notin CleanTokens /\ Has(t, w) => Has(x, w)
  BY <1>9 DEF Has
<1>11. /\ ~Has(x, "hidden") /\ ~Has(x, "source") /\ ~Has(x, "fence") /\ ~Has(x, "pilot")
       /\ ~Has(x, "join") /\ ~(Has(x, "branch") /\ (Has(x, "access") \/ Has(x, "location")))
  BY DEF LooseProse, sourceCodeLikeTextReason, textHasForbiddenClassificationContent,
         sourceTextForbiddenPhrase, containsHiddenControlCharacter, Has
<1>12. \A w \in {"hidden", "source", "fence", "pilot", "join", "branch", "access", "location",
                 "phraseA", "phraseB", "pii", "assures", "strong"} : w \notin CleanTokens
  BY DEF CleanTokens
<1>13. ~sourceTextForbiddenPhrase(t) /\ ~sourceCodeLikeTextReason(t) /\ ~Has(t, "pilot")
       /\ ~Has(t, "join") /\ ~containsHiddenControlCharacter(t)
  BY <1>10, <1>11, <1>12 DEF sourceTextForbiddenPhrase, containsHiddenControlCharacter,
                             sourceCodeLikeTextReason, Has
<1>14. ~claimSafeForbiddenPhrase(t)
  <2> SUFFICES ASSUME NEW i \in DOMAIN t, PhraseAt(t, i) \/ JoinedPhraseAt(t, i) PROVE FALSE
    BY <1>13 DEF claimSafeForbiddenPhrase
  <2>1. i \in Nat /\ i >= 1
    BY <1>8
  <2>2. ~JoinedPhraseAt(t, i)
    <3>1. i + 1 < Len(t) => i + 1 \in DOMAIN t
      BY <1>6, <1>8, <2>1
    <3> QED
      BY <1>13, <3>1 DEF JoinedPhraseAt, Has
  <2>3. t[i] = "phraseA" /\ i + 1 \in DOMAIN t /\ t[i + 1] = "phraseB"
    BY <1>6, <1>8, <2>1, <2>2 DEF PhraseAt
  <2>4. i - m \in DOMAIN x /\ x[i - m] = "phraseA"
    BY <1>9, <1>12, <2>3
  <2>5. (i + 1) - m \in DOMAIN x /\ x[(i + 1) - m] = "phraseB"
    BY <1>9, <1>12, <2>3
  <2>6. (i + 1) - m = (i - m) + 1 /\ i - m < n
    BY <1>8, <2>1, <2>4, <2>5
  <2>7. PhraseAt(x, i - m)
    BY <1>2, <2>4, <2>5, <2>6 DEF PhraseAt
  <2> QED
    BY <2>4, <2>7
       DEF textHasForbiddenClassificationContent, customerVisibleTextForbidden,
           claimSafeForbiddenPhrase
<1>15. ~piiTextForbidden(t)
  <2> SUFFICES ASSUME NEW i \in DOMAIN t, t[i] = "pii" PROVE FALSE
    BY DEF piiTextForbidden
  <2>1. i - m \in DOMAIN x /\ x[i - m] = "pii"
    BY <1>9, <1>12
  <2>2. ~isTypedIdentityReference(x)
    <3> SUFFICES ASSUME x = <<"ref">> PROVE FALSE
      BY DEF isTypedIdentityReference
    <3>1. i - m = 1
      BY <1>2, <1>8, <2>1
    <3> QED
      BY <2>1, <3>1
  <2> QED
    BY <2>1, <2>2
       DEF piiTextForbidden, textHasForbiddenClassificationContent, customerVisibleTextForbidden
<1>16. ASSUME NEW i \in DOMAIN t
       PROVE  ~familyClaimAppearsPositively(t, i)
  <2> SUFFICES ASSUME t[i] = "assures"
               PROVE  \E c \in 1 .. i - 1 : /\ IsCue(t, c) /\ SameClause(t, c, i)
                                            /\ \A h \in c .. i : t[h] # "strong"
    BY DEF familyClaimAppearsPositively
  <2>1. i - m \in DOMAIN x /\ x[i - m] = "assures" /\ i \in Int /\ i - m \in Int
    BY <1>9, <1>12
  <2>2. ~familyClaimAppearsPositively(x, i - m)
    BY <2>1 DEF textHasForbiddenClassificationContent, customerVisibleTextForbidden
  <2>3. PICK c \in 1 .. (i - m) - 1 : /\ IsCue(x, c) /\ SameClause(x, c, i - m)
                                      /\ \A h \in c .. i - m : x[h] # "strong"
    BY <2>1, <2>2 DEF familyClaimAppearsPositively
  <2>4. c \in Int /\ 1 <= c /\ c < i - m /\ i - m <= n
    BY <1>8, <2>1
  <2>5. m + c \in 1 .. i - 1 /\ c \in 1 .. n
    BY <2>1, <2>4
  <2>6. \A h \in m + c .. i : h - m \in c .. i - m /\ h - m \in 1 .. n /\ t[h] = x[h - m]
    <3> SUFFICES ASSUME NEW h \in m + c .. i
                 PROVE  h - m \in c .. i - m /\ h - m \in 1 .. n /\ t[h] = x[h - m]
      OBVIOUS
    <3>1. h - m \in c .. i - m /\ h - m \in 1 .. n /\ m + (h - m) = h
      BY <2>1, <2>4
    <3> QED
      BY <1>7, <3>1
  <2>7. SameClause(t, m + c, i) /\ \A h \in m + c .. i : t[h] # "strong"
    BY <2>3, <2>6 DEF SameClause
  <2>8. IsCue(t, m + c)
    <3>1. t[m + c] = "cue"
      BY <1>7, <2>3, <2>5 DEF IsCue
    <3>2. m + c > 1 => (m + c) - 1 \in DOMAIN t
      BY <1>8, <2>4, <2>5
    <3>3. m + c < Len(t) => (m + c) + 1 \in DOMAIN t
      BY <1>6, <1>8, <2>4
    <3> QED
      BY <1>13, <3>1, <3>2, <3>3 DEF IsCue, Has
  <2> QED
    BY <2>5, <2>7, <2>8
<1>17. ~customerProseForbidden(t)
  BY <1>13, <1>14, <1>15, <1>16
     DEF customerProseForbidden, textHasForbiddenClassificationContent, customerVisibleTextForbidden
<1> QED
  BY <1>1, <1>13, <1>14, <1>17

LEMMA ClassificationAppends ==
  ASSUME NEW r, NEW v, r.rationale \in Seq(Tokens), ~LooseProse(r.rationale),
         NEW e \in buildFindingClassificationEvent(r, v)
  PROVE  eventAccepted(e)
<1> DEFINE reason == classificationEventReason(r)
<1>1. classificationAccepted(r)
  BY DEF buildFindingClassificationEvent
<1>2. PICK o \in RecordEvent(r, v, "classification_recorded", reason) :
        e = [o EXCEPT !.supersedes = Or(v.supersedes, r.supersedes),
                      !.supersedesClass = r.supersedesClass]
  BY DEF buildFindingClassificationEvent
<1>3. ~textHasForbiddenClassificationContent(r.rationale)
  BY <1>1 DEF classificationAccepted, ClassificationTexts,
              textHasForbiddenClassificationOrSourceCodeContent
<1>4. /\ ~sourceTextForbiddenPhrase(reason) /\ ~sourceCodeLikeTextReason(reason)
      /\ ~claimSafeForbiddenPhrase(reason) /\ ~customerProseForbidden(reason)
  <2> DEFINE p == <<"word", "colon", "word", "dot", "word", "colon", "word", "dot", "word", "colon">>
             s == IF r.supersedesClass = None THEN <<"cue", "word", "word", "dot">>
                  ELSE <<"word", "word", "dot">>
  <2>1. p \in Seq(CleanTokens)
    BY DEF CleanTokens
  <2>2. /\ <<"cue", "word", "word", "dot">> \in Seq(CleanTokens)
        /\ <<"word", "word", "dot">> \in Seq(CleanTokens)
    BY DEF CleanTokens
  <2>3. s \in Seq(CleanTokens)
    BY <2>2
  <2>4. reason = p \o r.rationale \o s
    BY DEF classificationEventReason
  <2> HIDE DEF p, s, reason
  <2> QED
    BY <1>3, <2>1, <2>3, <2>4, WrappedIsAppendable
<1>5. /\ o = TypedEvent(r, v, "classification_recorded", reason) /\ ReviewEventSchema(o)
      /\ o.type = "classification_recorded" /\ o.reason = reason /\ o.key = o.ref
      /\ NoteIsInternal(o)
  BY <1>2, RecordEventHolds
<1> HIDE DEF reason
<1>6. /\ e.type = o.type /\ e.reason = o.reason /\ e.key = o.key /\ e.ref = o.ref
      /\ e.actor = o.actor /\ e.note = o.note /\ e.visibility = o.visibility
  BY <1>2, <1>5 DEF TypedEvent
<1>7. ReasonIsAppendable(e)
  BY <1>4, <1>5, <1>6 DEF ReasonIsAppendable
<1>8. e.actor = "reviewer" /\ NoteIsInternal(e) /\ e.key = e.ref
  BY <1>5, <1>6 DEF ReviewEventSchema, RecordActorsSchema, ReviewerTypes, NoteIsInternal
<1>9. PassEventIsAppendable(e) /\ PackageEventIsAppendable(e)
  BY <1>5, <1>6 DEF PassEventIsAppendable, PackageEventIsAppendable, PackageActorsSchema,
                    PackageTypes, PilotTypes
<1> QED
  BY <1>5, <1>6, <1>7, <1>8, <1>9 DEF eventAccepted, typedReviewEventArtifactRefsMatch

LEMMA ClassificationStaysInternal ==
  ASSUME NEW r, NEW v, NEW e \in buildFindingClassificationEvent(r, v)
  PROVE  r.visibility = "internal_only" => e.visibility = "internal_only"
<1>1. PICK o \in RecordEvent(r, v, "classification_recorded", classificationEventReason(r)) :
        e = [o EXCEPT !.supersedes = Or(v.supersedes, r.supersedes),
                      !.supersedesClass = r.supersedesClass]
  BY DEF buildFindingClassificationEvent
<1>2. /\ o = TypedEvent(r, v, "classification_recorded", classificationEventReason(r))
      /\ r.visibility = "internal_only" => o.visibility = "internal_only"
  BY <1>1, RecordEventHolds
<1>3. e.visibility = o.visibility
  BY <1>1, <1>2 DEF TypedEvent
<1> QED
  BY <1>2, <1>3

LEMMA OutcomeAppends ==
  ASSUME NEW r, NEW v, ~LooseProse(r.summary), NEW e \in buildSubmissionOutcomeEvent(r, v)
  PROVE  eventAccepted(e)
<1> DEFINE type == IF r.state = "rejected_no_receipt" THEN "submission_rejected"
                   ELSE "submission_quarantined"
           own == [id |-> r.id, actor |-> None, visibility |-> None]
<1>1. /\ e = [TypedEvent(own, v, type, r.summary) EXCEPT !.note = FALSE, !.supersedes = None]
      /\ ReviewEventSchema(e) /\ outcomeAccepted(r) /\ IsFailure(r)
  BY DEF buildSubmissionOutcomeEvent, Built
<1>2. e.type = type /\ e.reason = r.summary /\ e.key = e.ref
  BY <1>1 DEF TypedEvent
<1>3. type \in {"submission_rejected", "submission_quarantined"}
  OBVIOUS
<1> HIDE DEF type, own
<1>4. ~textHasForbiddenClassificationContent(r.summary)
  BY <1>1 DEF outcomeAccepted
<1>5. ReasonIsAppendable(e)
  BY <1>2, <1>4 DEF ReasonIsAppendable, LooseProse, textHasForbiddenClassificationContent,
                    customerVisibleTextForbidden, customerProseForbidden
<1>6. PassEventIsAppendable(e)
  BY <1>2, <1>3, OtherTypesArePassed DEF PassTypes
<1>7. /\ e.type # "customer_accepted_risk_recorded"
      /\ e.type \notin {"attestation_generated", "static_bundle_generated"} \cup PackageTypes
  BY <1>2, <1>3 DEF PackageTypes
<1> QED
  BY <1>1, <1>2, <1>5, <1>6, <1>7, SchemaAppends

(* An attestation the control plane accepts cites, for every record it     *)
(* speaks of, the newest event of that record, and nothing later than      *)
(* itself.                                                                 *)
LEMMA AcceptedIsAttested ==
  ASSUME attestationAccepted(rec, bound), LoggedOnce(bound.history), VersionsAreNumbers(bound.history)
  PROVE  AttestedIsRecorded
<1> DEFINE cited == UNION {rec.sections[s] : s \in {"findings_and_classification",
                             "remediation_and_validation", "verification_outcomes"}}
<1>1. /\ HistoryIsComplete(rec, bound) /\ SectionsAreExact(rec, bound)
      /\ \A d \in bound.addenda : AddendumAgrees(d, rec, bound)
  BY DEF attestationAccepted
<1>2. cited = RefsOf(bound.classifications) \cup RefsOf(bound.guidance \cup bound.paths \cup bound.scripts)
                \cup RefsOf(bound.evidence \cup bound.decisions)
  <2>1. cited = rec.sections["findings_and_classification"]
                  \cup rec.sections["remediation_and_validation"]
                  \cup rec.sections["verification_outcomes"]
    OBVIOUS
  <2> QED
    BY <1>1, <2>1 DEF SectionsAreExact
<1> HIDE DEF cited
<1>3. ASSUME NEW type, NEW ref, NEW at, type \notin VersionedTypes,
             RecordedBefore(type, ref, at, rec, bound)
      PROVE  \E e \in bound.history :
               /\ e.ref = ref /\ e.at <= rec.at
               /\ \A o \in bound.history : o.ref = ref /\ o.type = e.type => o.version <= e.version
  <2>1. PICK e \in bound.history : e.type = type /\ e.ref = ref /\ e.at <= rec.at
    BY <1>3 DEF RecordedBefore
  <2>2. \A o \in bound.history : o.ref = ref /\ o.type = e.type => o = e
    BY <1>3, <2>1 DEF LoggedOnce
  <2>3. e.version \in Nat
    BY DEF VersionsAreNumbers
  <2>4. \A o \in bound.history : o.ref = ref /\ o.type = e.type => o.version <= e.version
    BY <2>2, <2>3
  <2> QED
    BY <2>1, <2>4
<1>4. ASSUME NEW type, NEW r, ActiveIsCited(type, r, rec, bound)
      PROVE  \E e \in bound.history :
               /\ e.ref = r.id /\ e.at <= rec.at
               /\ \A o \in bound.history : o.ref = r.id /\ o.type = e.type => o.version <= e.version
  BY <1>4 DEF ActiveIsCited
<1>5. ASSUME NEW ref \in cited
      PROVE  \E e \in bound.history :
               /\ e.ref = ref /\ e.at <= rec.at
               /\ \A o \in bound.history : o.ref = ref /\ o.type = e.type => o.version <= e.version
  <2>1. CASE \E c \in bound.classifications : c.id = ref
    <3>1. PICK c \in bound.classifications : c.id = ref
      BY <2>1
    <3>2. RecordedBefore("classification_recorded", ref, c.at, rec, bound)
      BY <1>1, <3>1 DEF HistoryIsComplete
    <3>3. "classification_recorded" \notin VersionedTypes
      BY DEF VersionedTypes
    <3> QED
      BY <1>3, <3>2, <3>3
  <2>2. CASE \E c \in bound.guidance : c.id = ref
    <3>1. PICK c \in bound.guidance : c.id = ref
      BY <2>2
    <3>2. RecordedBefore("remediation_guidance_recorded", ref, c.at, rec, bound)
      BY <1>1, <3>1 DEF HistoryIsComplete
    <3>3. "remediation_guidance_recorded" \notin VersionedTypes
      BY DEF VersionedTypes
    <3> QED
      BY <1>3, <3>2, <3>3
  <2>3. CASE \E c \in bound.paths \cup bound.scripts : c.id = ref
    <3>1. PICK c \in bound.paths \cup bound.scripts : c.id = ref
      BY <2>3
    <3>2. RecordedBefore("validation_recorded", ref, c.at, rec, bound)
      BY <1>1, <3>1 DEF HistoryIsComplete
    <3>3. "validation_recorded" \notin VersionedTypes
      BY DEF VersionedTypes
    <3> QED
      BY <1>3, <3>2, <3>3
  <2>4. CASE \E c \in bound.evidence : c.id = ref
    <3>1. PICK c \in bound.evidence : c.id = ref
      BY <2>4
    <3>2. ActiveIsCited("verification_evidence_recorded", c, rec, bound)
      BY <1>1 DEF HistoryIsComplete
    <3> QED
      BY <1>4, <3>1, <3>2
  <2>5. CASE \E c \in bound.decisions : c.id = ref
    <3>1. PICK c \in bound.decisions : c.id = ref
      BY <2>5
    <3>2. ActiveIsCited("verification_recorded", c, rec, bound)
      BY <1>1 DEF HistoryIsComplete
    <3> QED
      BY <1>4, <3>1, <3>2
  <2> QED
    BY <1>2, <2>1, <2>2, <2>3, <2>4, <2>5 DEF RefsOf
<1>6. ASSUME NEW d \in bound.addenda
      PROVE  d.at <= rec.at /\ \A x \in d.findings :
               {x.classification, x.decision} \cup x.evidence \subseteq cited
  <2>1. d.at <= rec.at /\ \A x \in d.findings : FindingAgrees(x, d, bound)
    BY <1>1 DEF AddendumAgrees
  <2>2. ASSUME NEW x \in d.findings
        PROVE  {x.classification, x.decision} \cup x.evidence \subseteq cited
    <3>1. FindingAgrees(x, d, bound)
      BY <2>1
    <3>2. x.classification \in cited
      <4>1. \E c \in bound.classifications : c.id = x.classification
        BY <3>1 DEF FindingAgrees
      <4> QED
        BY <1>2, <4>1 DEF RefsOf
    <3>3. x.decision \in cited
      <4>1. \E c \in bound.decisions : c.id = x.decision
        BY <3>1 DEF FindingAgrees
      <4> QED
        BY <1>2, <4>1 DEF RefsOf
    <3>4. x.evidence \subseteq cited
      <4>1. \A ref \in x.evidence : \E c \in bound.evidence : c.id = ref
        BY <3>1 DEF FindingAgrees, EvidenceAgrees
      <4> QED
        BY <1>2, <4>1 DEF RefsOf
    <3> QED
      BY <3>2, <3>3, <3>4
  <2> QED
    BY <2>1, <2>2
<1> QED
  BY <1>5, <1>6 DEF AttestedIsRecorded, cited

(* Every builder's event, on a draft of the right shape. *)
BuiltHolds(e) ==
  /\ eventAccepted(e) \/ KnownRefusal
  /\ kind \notin {"outcome"} \cup (PackageKinds \ {"pilotMetric", "pilotFeedback"})
       /\ rec.visibility = "internal_only" => e.visibility = "internal_only"
  /\ kind = "attestation" => AttestedIsRecorded

LEMMA BuiltReasonsAreClean ==
  /\ CleanText(Absent) /\ CleanText(falsePositiveEventReason)
  /\ CleanText(validationScriptEventReason) /\ CleanText(Sentence)
  /\ CleanText(<<"word", "dot", "word", "colon", "word", "dot">>)
  /\ \A s : s # "not_verified" => CleanText(DecisionReason(s))
<1>1. CleanText(Absent) /\ CleanText(Sentence)
  BY DEF CleanText, CleanTokens, Absent, Sentence
<1>2. CleanText(falsePositiveEventReason)
  BY DEF CleanText, CleanTokens, falsePositiveEventReason
<1>3. CleanText(validationScriptEventReason)
  BY DEF CleanText, CleanTokens, validationScriptEventReason
<1>4. CleanText(<<"word", "dot", "word", "colon", "word", "dot">>)
  BY DEF CleanText, CleanTokens
<1>5. ASSUME NEW s, s # "not_verified"
      PROVE  CleanText(DecisionReason(s))
  <2>1. DecisionReason(s) = <<"word", "dot", "word", "colon">> \o <<"word", "dot">>
    BY <1>5 DEF DecisionReason
  <2>2. <<"word", "dot", "word", "colon">> \in Seq(CleanTokens) /\ <<"word", "dot">> \in Seq(CleanTokens)
    BY DEF CleanTokens
  <2>3. DecisionReason(s) \in Seq(CleanTokens)
    BY <2>1, <2>2, ConcatProperties
  <2> QED
    BY <2>3, ElementOfSeq, LenProperties DEF CleanText
<1> QED
  BY <1>1, <1>2, <1>3, <1>4, <1>5

LEMMA FindingEventsHold ==
  ASSUME DraftHolds, NEW e \in BuiltEvents,
         kind \in {"classification", "guidance", "status", "falsePositive", "path", "script",
                   "acceptedRisk"}
  PROVE  BuiltHolds(e)
<1>1. ASSUME eventAccepted(e) \/ KnownRefusal,
             rec.visibility = "internal_only" => e.visibility = "internal_only"
      PROVE  BuiltHolds(e)
  BY <1>1 DEF BuiltHolds
<1>2. CASE kind = "classification"
  <2>1. e \in buildFindingClassificationEvent(rec, env)
    BY <1>2 DEF BuiltEvents
  <2>2. rec.rationale \in Seq(Tokens)
    BY <1>2 DEF DraftHolds, RationaleIsText
  <2>3. eventAccepted(e) \/ KnownRefusal
    BY <1>2, <2>1, <2>2, ClassificationAppends DEF KnownRefusal
  <2> QED
    BY <1>1, <2>1, <2>3, ClassificationStaysInternal
<1>3. CASE kind \in {"guidance", "status", "falsePositive", "path", "script"}
  <2>1. \E type \in PlainTypes : \E reason \in {Absent, falsePositiveEventReason,
                                                validationScriptEventReason} :
          e \in RecordEvent(rec, env, type, reason)
    <3>1. CASE kind = "guidance"
      BY <3>1 DEF BuiltEvents, buildFindingRemediationGuidanceEvent, PlainTypes
    <3>2. CASE kind = "status"
      BY <3>2 DEF BuiltEvents, buildCustomerRemediationStatusEvent, PlainTypes
    <3>3. CASE kind = "falsePositive"
      BY <3>3 DEF BuiltEvents, buildFalsePositiveEvent, PlainTypes
    <3>4. CASE kind = "path"
      BY <3>4 DEF BuiltEvents, buildFindingValidationPathEvent, PlainTypes
    <3>5. CASE kind = "script"
      BY <3>5 DEF BuiltEvents, buildReviewerValidationScriptEvent, PlainTypes
    <3> QED
      BY <1>3, <3>1, <3>2, <3>3, <3>4, <3>5
  <2> QED
    BY <1>1, <2>1, PlainRecordAppends, BuiltReasonsAreClean
<1>4. CASE kind = "acceptedRisk"
  <2>1. /\ e \in RecordEvent(rec, env, "customer_accepted_risk_recorded", acceptedRiskEventReason)
        /\ rec.actor \in {"customer_user", "reviewer", "vendor_service"}
    BY <1>4 DEF BuiltEvents, buildCustomerAcceptedRiskEvent, acceptedRiskAccepted
  <2> QED
    BY <1>1, <2>1, AcceptedRiskAppends
<1> QED
  BY <1>2, <1>3, <1>4

LEMMA PassEventsHold ==
  ASSUME DraftHolds, NEW e \in BuiltEvents, kind \in {"passScope", "passEvidence", "passDecision"}
  PROVE  BuiltHolds(e)
<1>1. ASSUME eventAccepted(e) \/ KnownRefusal,
             rec.visibility = "internal_only" => e.visibility = "internal_only"
      PROVE  BuiltHolds(e)
  BY <1>1 DEF BuiltHolds
<1>2. CASE kind = "passScope"
  <2>1. e \in buildVerificationPassScopeEvent(rec, env)
    BY <1>2 DEF BuiltEvents
  <2>2. /\ rec.actor \in {"customer_user", "reviewer", "vendor_service"}
        /\ BackedUnlessCustomer(rec)
    BY <1>2 DEF DraftHolds, SelectionIsBacked
  <2> QED
    BY <1>1, <2>1, <2>2, ScopeAppends
<1>3. CASE kind = "passEvidence"
  <2>1. e \in PassEvent(rec, env, "verification_evidence_recorded",
                        <<"word", "dot", "word", "colon", "word", "dot">>)
    BY <1>3 DEF BuiltEvents, buildVerificationEvidenceEvent
  <2> QED
    BY <1>1, <2>1, PassEventAppends, BuiltReasonsAreClean
<1>4. CASE kind = "passDecision"
  <2>1. e \in PassEvent(rec, env, "verification_recorded", DecisionReason(rec.status))
    BY <1>4 DEF BuiltEvents, buildVerificationDecisionEvent
  <2>2. CASE rec.status = "not_verified"
    BY <1>1, <1>4, <2>1, <2>2, PassStaysInternal DEF KnownRefusal
  <2>3. CASE rec.status # "not_verified"
    BY <1>1, <2>1, <2>3, PassEventAppends, BuiltReasonsAreClean
  <2> QED
    BY <2>2, <2>3
<1> QED
  BY <1>2, <1>3, <1>4

LEMMA PackageEventsHold ==
  ASSUME DraftHolds, NEW e \in BuiltEvents,
         kind \in {"outcome", "attestation", "staticBundle", "finalization"}
  PROVE  BuiltHolds(e)
<1>1. kind \in {"outcome"} \cup (PackageKinds \ {"pilotMetric", "pilotFeedback"})
  BY DEF PackageKinds
<1>2. CASE kind = "outcome"
  <2>1. e \in buildSubmissionOutcomeEvent(rec, env)
    BY <1>2 DEF BuiltEvents
  <2> QED
    BY <1>1, <1>2, <2>1, OutcomeAppends DEF BuiltHolds, KnownRefusal
<1>3. CASE kind = "attestation"
  <2>1. /\ e \in epic5ReviewEvent(Authored(rec.id, rec.actor), env, "attestation_generated",
                                  "customer_facing", Sentence)
        /\ attestationAccepted(rec, bound)
    BY <1>3 DEF BuiltEvents, buildAttestationGeneratedEvent
  <2>2. eventAccepted(e)
    BY <2>1, PackageRecordAppends, BuiltReasonsAreClean
  <2>3. AttestedIsRecorded
    BY <1>3, <2>1, AcceptedIsAttested DEF DraftHolds, AttestationContextHolds
  <2> QED
    BY <1>1, <2>2, <2>3 DEF BuiltHolds
<1>4. CASE kind = "staticBundle"
  <2>1. e \in epic5ReviewEvent(Authored(rec.id, "vendor_service"), [env EXCEPT !.type = None],
                               "static_bundle_generated", "customer_facing", Sentence)
    BY <1>4 DEF BuiltEvents, buildStaticBundleGeneratedEvent
  <2>2. eventAccepted(e)
    BY <2>1, PackageRecordAppends, BuiltReasonsAreClean
  <2> QED
    BY <1>1, <1>4, <2>2 DEF BuiltHolds
<1>5. CASE kind = "finalization"
  <2>1. PICK type \in PackageTypes : e \in buildFinalizationEvent(rec, bound, env, type)
    BY <1>5 DEF BuiltEvents
  <2>2. e \in epic5ReviewEvent(Authored(rec.finalized, rec.actor), env, type, "customer_facing",
                               Sentence)
    BY <2>1 DEF buildFinalizationEvent
  <2>3. eventAccepted(e)
    BY <2>2, PackageRecordAppends, BuiltReasonsAreClean
  <2> QED
    BY <1>1, <1>5, <2>3 DEF BuiltHolds
<1> QED
  BY <1>2, <1>3, <1>4, <1>5

LEMMA PilotEventsHold ==
  ASSUME NEW e \in BuiltEvents, kind \in {"pilotMetric", "pilotFeedback"}
  PROVE  BuiltHolds(e)
<1>1. PICK type \in PilotTypes : e \in epic5ReviewEvent(rec, env, type, "internal_only", Absent)
  BY DEF BuiltEvents, buildPilotMetricEvent, buildPilotFeedbackEvent, PilotTypes
<1>2. CleanText(Absent)
  BY BuiltReasonsAreClean
<1>3. type \in {"attestation_generated", "static_bundle_generated"} \cup PackageTypes \cup PilotTypes
  OBVIOUS
<1>4. eventAccepted(e) /\ e.visibility = "internal_only"
  BY <1>1, <1>2, <1>3, PackageRecordAppends
<1> QED
  BY <1>4 DEF BuiltHolds

LEMMA DraftIsAppendable == DraftHolds => BuiltMeetsAppendRules
<1> SUFFICES ASSUME DraftHolds, NEW e \in BuiltEvents PROVE BuiltHolds(e)
  BY DEF BuiltMeetsAppendRules, BuiltHolds
<1>1. kind \in {"classification", "guidance", "status", "falsePositive", "path", "script",
                "acceptedRisk", "outcome", "passScope", "passEvidence", "passDecision",
                "attestation", "staticBundle", "finalization", "pilotMetric", "pilotFeedback"}
  BY DEF BuiltEvents
<1> QED
  BY <1>1, FindingEventsHold, PassEventsHold, PackageEventsHold, PilotEventsHold

(* However often a record, what it is bound to or its envelope is edited,  *)
(* the event its builder makes meets the rules of the append, apart from   *)
(* the known refusals; a record kept internal makes an internal event; and *)
(* an attestation is generated only when the history holds, in its newest  *)
(* version, every record it speaks of.                                     *)
THEOREM BuiltAlwaysMeetsAppendRules == Spec => []BuiltMeetsAppendRules
BY DraftsKeepShape, DraftIsAppendable, PTL

-----------------------------------------------------------------------------
(* The two judges of a pass, for any document and any context.             *)

(* A list without duplicates has as many elements as entries.              *)
LEMMA DistinctCounts ==
  ASSUME NEW n \in Nat, NEW g, \A i, j \in 1 .. n : g[i] = g[j] => i = j,
         NEW T, \A i \in 1 .. n : g[i] \in T, \A x \in T : \E i \in 1 .. n : g[i] = x
  PROVE  IsFiniteSet(T) /\ Cardinality(T) = n
<1> DEFINE h == [i \in 1 .. n |-> g[i]]
<1>1. IsFiniteSet(1 .. n) /\ Cardinality(1 .. n) = n
  <2>1. 1 \in Int /\ n \in Int
    OBVIOUS
  <2>2. IsFiniteSet(1 .. n) /\ Cardinality(1 .. n) = IF 1 > n THEN 0 ELSE n - 1 + 1
    BY <2>1, FS_Interval
  <2> QED
    BY <2>2
<1>2. h \in Bijection(1 .. n, T)
  <2>1. h \in Injection(1 .. n, T)
    BY DEF Injection, IsInjective
  <2>2. h \in Surjection(1 .. n, T)
    BY DEF Surjection
  <2> QED
    BY <2>1, <2>2 DEF Bijection
<1>3. ExistsBijection(1 .. n, T)
  BY <1>2 DEF ExistsBijection
<1> QED
  BY <1>1, <1>3, FS_Bijection

LEMMA DistinctElements ==
  ASSUME NEW S, NEW t \in Seq(S), Distinct(t)
  PROVE  IsFiniteSet(Elements(t)) /\ Cardinality(Elements(t)) = Len(t)
<1>1. Len(t) \in Nat /\ DOMAIN t = 1 .. Len(t)
  BY LenProperties
<1>2. \A i, j \in 1 .. Len(t) : t[i] = t[j] => i = j
  BY <1>1 DEF Distinct
<1>3. /\ \A i \in 1 .. Len(t) : t[i] \in Elements(t)
      /\ \A x \in Elements(t) : \E i \in 1 .. Len(t) : t[i] = x
  BY <1>1 DEF Elements
<1> QED
  BY <1>1, <1>2, <1>3, DistinctCounts

(* Where every id of a list names a record and no two records share an id, *)
(* as many records are named as the list has entries.                      *)
LEMMA NamedOnce ==
  ASSUME NEW S, NEW t \in Seq(S), Distinct(t), NEW R, \A x, y \in R : x.id = y.id => x = y,
         \A id \in Elements(t) : \E x \in R : x.id = id
  PROVE  Cardinality({x \in R : x.id \in Elements(t)}) = Len(t)
<1> DEFINE N == {x \in R : x.id \in Elements(t)}
           h == [x \in N |-> x.id]
<1>1. IsFiniteSet(Elements(t)) /\ Cardinality(Elements(t)) = Len(t)
  BY DistinctElements
<1>2. h \in Injection(N, Elements(t))
  BY DEF Injection, IsInjective
<1>3. h \in Surjection(N, Elements(t))
  <2>1. h \in [N -> Elements(t)]
    OBVIOUS
  <2>2. \A id \in Elements(t) : \E x \in N : h[x] = id
    OBVIOUS
  <2> QED
    BY <2>1, <2>2 DEF Surjection
<1>4. IsFiniteSet(N) /\ Cardinality(N) = Cardinality(Elements(t))
  BY <1>1, <1>2, <1>3, FS_Injection
<1> QED
  BY <1>1, <1>4

-----------------------------------------------------------------------------
(* Evidence. *)

LEMMA CommitCovers ==
  ASSUME NEW e, NEW k, CommitHolds(e, k, ControlPlane)
  PROVE  CommitHolds(e, k, Gate)
BY MeaningfulToGate DEF CommitHolds

LEMMA ArtifactScanCovers ==
  ASSUME NEW t, ~verificationArtifactTextHasForbiddenContent(t)
  PROVE  ~collectRemediationTextViolations(t, FALSE)
BY RemediationScanCovers DEF verificationArtifactTextHasForbiddenContent

(* Evidence the control plane accepts, of a classification its caller has  *)
(* read, the gate accepts, unless it names a script beside evidence of     *)
(* another kind: the control plane only asks that the script is selected.  *)
THEOREM AcceptedEvidencePassesGate ==
  ASSUME NEW e, NEW s, NEW c, NEW w, evidenceAccepted(e, s, c, w), c \in w.classifications,
         e.script # None => e.type = "reviewer_authored_script_output"
  PROVE  gateEvidenceAccepted(e) /\ gateEvidenceChainHolds(e, w)
<1>1. /\ EvidenceSchema(e) /\ EvidenceTypeSchema(e)
      /\ e.actor = "vendor_service" => e.backing
      /\ e.accessReview = e.review /\ e.pass = e.passRef
      /\ e.intake # "accepted_for_review" => isMeaningfulClassificationText(e.next)
      /\ \A t \in EvidenceTexts(e) : ~verificationArtifactTextHasForbiddenContent(t)
  BY DEF evidenceAccepted
<1>2. /\ s \in w.scopes /\ s.id = e.passRef /\ s.version = e.scopeVersion /\ s.review = e.review
      /\ c.review = e.review /\ c.id = e.classification /\ c.draft = e.draft
  BY DEF evidenceAccepted, activeVerificationScope, IsActive
<1>3. PICK f \in SelectedIn(s, e.draft) :
        /\ f.classification = e.classification /\ f.type = e.type
        /\ IF e.type = "follow_up_commit"
           THEN /\ e.path = None /\ e.script = None /\ e.artifacts = <<>>
                /\ \A k \in e.commit : CommitHolds(e, k, ControlPlane)
           ELSE ValidationEvidenceHolds(e, f, c, w)
  BY DEF evidenceAccepted
<1>4. /\ e.intake # "accepted_for_review" => isMeaningfulRemediationText(e.next)
      /\ \A t \in EvidenceTexts(e) : ~collectRemediationTextViolations(t, FALSE)
  BY <1>1, MeaningfulCovers, ArtifactScanCovers
<1>5. \E z \in w.scopes, q \in Named(w.classifications, e.classification) :
        /\ z.id = e.passRef /\ z.version = e.scopeVersion /\ z.review = e.review
        /\ q.review = e.review /\ q.draft = e.draft
        /\ \E g \in SelectedIn(z, e.draft) : g.classification = e.classification /\ g.type = e.type
  BY <1>2, <1>3 DEF Named
<1>6. CASE e.type = "follow_up_commit"
  <2>1. /\ e.path = None /\ e.script = None /\ e.artifacts = <<>>
        /\ \A k \in e.commit : CommitHolds(e, k, Gate)
    BY <1>3, <1>6, CommitCovers
  <2>2. DOMAIN e.artifacts = {} /\ Elements(e.artifacts) = {}
    BY <2>1 DEF Elements
  <2>3. gateEvidenceAccepted(e)
    BY <1>1, <1>4, <1>6, <2>1, <2>2 DEF gateEvidenceAccepted
  <2> QED
    BY <1>5, <2>1, <2>3 DEF gateEvidenceChainHolds
<1>7. CASE e.type # "follow_up_commit"
  <2>1. ValidationEvidenceHolds(e, f, c, w)
    BY <1>3, <1>7
  <2>2. PICK p \in resolveVerificationValidationPath(w, e.path, c) :
          e.type = "reviewer_authored_script_output" =>
            \E x \in Named(w.scripts, e.script) : x.path = e.path /\ validationScriptAccepted(x, p, {})
    BY <2>1 DEF ValidationEvidenceHolds
  <2>3. /\ p \in Named(w.paths, e.path)
        /\ p.review = e.review /\ p.classification = e.classification /\ p.draft = e.draft
    BY <1>2 DEF resolveVerificationValidationPath
  <2>4. gateEvidenceAccepted(e)
    <3>1. /\ e.commit = {}
          /\ \A i, j \in DOMAIN e.artifacts : e.artifacts[i].ref = e.artifacts[j].ref => i = j
          /\ \A a \in Elements(e.artifacts) : a.class # "never_collected"
      BY <2>1 DEF ValidationEvidenceHolds, verificationEvidenceLifecycleIsValid
    <3> QED
      BY <1>1, <1>4, <1>7, <3>1 DEF gateEvidenceAccepted
  <2>5. e.script # None =>
          \E x \in Named(w.scripts, e.script) :
            x.review = e.review /\ x.path = e.path /\ x.classification = e.classification
    BY <2>2, <2>3 DEF validationScriptAccepted
  <2> QED
    BY <1>5, <2>3, <2>4, <2>5 DEF gateEvidenceChainHolds
<1> QED
  BY <1>6, <1>7

-----------------------------------------------------------------------------
(* Decisions. *)

(* The evidence a decision names, where no recorded evidence has been      *)
(* corrected, is what its author supplied.                                 *)
LEMMA BoundIsRecorded ==
  ASSUME NEW d, NEW s, NEW c, NEW evidence, NEW w, decisionAccepted(d, s, c, evidence, w),
         UniqueById(w.evidence)
  PROVE  {e \in w.evidence : e.id \in Elements(d.evidence)}
            = {e \in evidence : e.id \in Elements(d.evidence)}
<1>1. \A e \in evidence : e.id \in Elements(d.evidence) => e \in w.evidence
  BY DEF decisionAccepted, BoundEvidenceHolds, IsActive
<1>2. {e.id : e \in {x \in evidence : x.id \in Elements(d.evidence)}} = Elements(d.evidence)
  BY DEF decisionAccepted
<1>3. \A q \in w.evidence : q.id \in Elements(d.evidence) => q \in evidence
  <2> SUFFICES ASSUME NEW q \in w.evidence, q.id \in Elements(d.evidence) PROVE q \in evidence
    OBVIOUS
  <2>1. PICK e \in evidence : e.id = q.id
    BY <1>2
  <2>2. e \in w.evidence
    BY <1>1, <2>1
  <2> QED
    BY <2>1, <2>2 DEF UniqueById
<1> QED
  BY <1>1, <1>3

LEMMA BoundIsCounted ==
  ASSUME NEW d, NEW s, NEW c, NEW evidence, NEW w, decisionAccepted(d, s, c, evidence, w),
         UniqueById(w.evidence), NEW S, d.evidence \in Seq(S)
  PROVE  Cardinality({e \in w.evidence : e.id \in Elements(d.evidence)}) = Len(d.evidence)
<1>1. Distinct(d.evidence)
  BY DEF decisionAccepted, DecisionSchema
<1>2. {e.id : e \in {x \in evidence : x.id \in Elements(d.evidence)}} = Elements(d.evidence)
  BY DEF decisionAccepted
<1>3. \A id \in Elements(d.evidence) : \E e \in w.evidence : e.id = id
  <2> SUFFICES ASSUME NEW id \in Elements(d.evidence) PROVE \E e \in w.evidence : e.id = id
    OBVIOUS
  <2>1. PICK e \in evidence : e.id = id
    BY <1>2
  <2> QED
    BY <2>1, BoundIsRecorded
<1>4. \A x, y \in w.evidence : x.id = y.id => x = y
  BY DEF UniqueById
<1> QED
  BY <1>1, <1>3, <1>4, NamedOnce

(* What the decision is measured by when its classification has no         *)
(* criteria: the selected finding then asks for more than a commit.        *)
MeasuredByPath(s, c) ==
  c.classification = "requires_customer_side_validation" /\ c.list = {} =>
    \A f \in SelectedIn(s, c.draft) : f.type # "follow_up_commit"

(* The paths that the recorded evidence a decision names refers to.        *)
CitedPaths(d, w) ==
  {p \in w.paths : \E e \in {x \in w.evidence : x.id \in Elements(d.evidence)} : p.id = e.path}

SelectedOnce(s) == \A i, j \in DOMAIN s.findings : s.findings[i].draft = s.findings[j].draft => i = j

(* The control plane measures a customer-side validation by the path the   *)
(* scope selects, the gate by the one path the evidence names: the same.   *)
LEMMA SamePath ==
  ASSUME NEW d, NEW s, NEW c, NEW evidence, NEW w, decisionAccepted(d, s, c, evidence, w),
         UniqueById(w.evidence), SelectedOnce(s), MeasuredByPath(s, c),
         c.classification = "requires_customer_side_validation", c.list = {},
         d.evidence # <<>>, NEW f \in SelectedIn(s, d.draft), NEW S, d.evidence \in Seq(S)
  PROVE  /\ Cardinality(CitedPaths(d, w)) = 1
         /\ CitedPaths(d, w) = resolveVerificationValidationPath(w, f.path, c)
<1> DEFINE cited == {e \in w.evidence : e.id \in Elements(d.evidence)}
           paths == {p \in w.paths : \E e \in cited : p.id = e.path}
           resolved == resolveVerificationValidationPath(w, f.path, c)
<1>1. cited = {e \in evidence : e.id \in Elements(d.evidence)}
  BY BoundIsRecorded
<1>2. c.draft = d.draft /\ f.type # "follow_up_commit"
  BY DEF decisionAccepted, MeasuredByPath
<1>3. \A e \in cited : e.path = f.path /\ resolved # {}
  <2> SUFFICES ASSUME NEW e \in cited PROVE e.path = f.path /\ resolved # {}
    OBVIOUS
  <2>1. evidenceAccepted(e, s, c, w) /\ e.draft = d.draft
    BY <1>1, <1>2 DEF decisionAccepted, BoundEvidenceHolds
  <2>2. PICK g \in SelectedIn(s, e.draft) :
          g.type = e.type /\ (e.type # "follow_up_commit" => ValidationEvidenceHolds(e, g, c, w))
    BY <2>1 DEF evidenceAccepted
  <2>3. g = f
    BY <2>1, <2>2 DEF SelectedIn, Elements, SelectedOnce
  <2> QED
    BY <1>2, <2>2, <2>3 DEF ValidationEvidenceHolds
<1>4. \E e \in cited : TRUE
  <2>1. 1 \in DOMAIN d.evidence
    <3>1. Len(d.evidence) \in Nat /\ DOMAIN d.evidence = 1 .. Len(d.evidence) /\ Len(d.evidence) # 0
      BY LenProperties, EmptySeq
    <3> QED
      BY <3>1
  <2>2. d.evidence[1] \in Elements(d.evidence)
    BY <2>1 DEF Elements
  <2>3. {e.id : e \in {x \in evidence : x.id \in Elements(d.evidence)}} = Elements(d.evidence)
    BY DEF decisionAccepted
  <2>4. PICK e \in evidence : e.id = d.evidence[1]
    BY <2>2, <2>3
  <2> QED
    BY <1>1, <2>2, <2>4
<1>5. PICK p \in resolved : TRUE
  BY <1>3, <1>4
<1>6. p \in w.paths /\ p.id = f.path /\ UniqueById(w.paths)
  BY DEF resolveVerificationValidationPath, Named
<1>7. paths = {p}
  <2>1. \A q \in paths : q = p
    BY <1>3, <1>6 DEF UniqueById
  <2>2. p \in paths
    BY <1>3, <1>4, <1>6
  <2> QED
    BY <2>1, <2>2
<1>8. resolved = {p}
  <2>1. \A q \in resolved : q = p
    BY <1>6 DEF resolveVerificationValidationPath, Named, UniqueById
  <2> QED
    BY <2>1
<1>9. Cardinality(paths) = 1
  BY <1>7, FS_Singleton
<1>10. paths = CitedPaths(d, w)
  BY DEF CitedPaths
<1> QED
  BY <1>7, <1>8, <1>9, <1>10

(* A decision the control plane accepts the gate accepts, when no recorded *)
(* evidence has a correction, which leaves the gate two documents of one   *)
(* id, and no finding that only asks for a commit is measured by a path.   *)
THEOREM AcceptedDecisionPassesGate ==
  ASSUME NEW d, NEW s, NEW c, NEW evidence, NEW w, decisionAccepted(d, s, c, evidence, w),
         c \in w.classifications, UniqueById(w.evidence), SelectedOnce(s), MeasuredByPath(s, c),
         NEW S, d.evidence \in Seq(S)
  PROVE  gateDecisionAccepted(d) /\ gateDecisionChainHolds(d, w)
<1> DEFINE cited == {e \in w.evidence : e.id \in Elements(d.evidence)}
           paths == CitedPaths(d, w)
<1>1. gateDecisionAccepted(d)
  <2>1. /\ DecisionSchema(d) /\ DecisionStatusSchema(d) /\ d.pass = d.passRef
        /\ CriteriaAreCovered(d)
        /\ d.status # "verification_complete" => isMeaningfulClassificationText(d.next)
        /\ \A t \in DecisionTexts(d) : ~verificationArtifactTextHasForbiddenContent(t)
    BY DEF decisionAccepted
  <2> QED
    BY <2>1, MeaningfulCovers, ArtifactScanCovers DEF gateDecisionAccepted
<1>2. Cardinality(cited) = Len(d.evidence)
  BY BoundIsCounted
<1>3. \A e \in cited :
        /\ e.review = d.review /\ e.pass = d.pass /\ e.passRef = d.passRef
        /\ e.draft = d.draft /\ e.classification = d.classification
  <2>1. cited = {e \in evidence : e.id \in Elements(d.evidence)}
    BY BoundIsRecorded
  <2> QED
    BY <2>1 DEF decisionAccepted, BoundEvidenceHolds
<1>4. PICK f \in SelectedIn(s, d.draft) : BeforeStateHolds(d, c, usableCriteria(f, c, w))
  BY DEF decisionAccepted
<1>5. d.evidence # <<>> /\ c.id = d.classification
  BY DEF decisionAccepted, DecisionSchema
<1>6. usableCriteria(f, c, w)
        = IF c.classification = "requires_customer_side_validation"
              /\ c.list = {} /\ Cardinality(paths) = 1
          THEN {p.expected : p \in paths} ELSE c.list
  <2>1. CASE c.classification = "requires_customer_side_validation" /\ c.list = {}
    <3>1. Cardinality(paths) = 1 /\ paths = resolveVerificationValidationPath(w, f.path, c)
      BY <1>5, <2>1, SamePath
    <3> HIDE DEF paths
    <3> QED
      BY <2>1, <3>1 DEF usableCriteria
  <2>2. CASE ~(c.classification = "requires_customer_side_validation" /\ c.list = {})
    BY <2>2 DEF usableCriteria
  <2> QED
    BY <2>1, <2>2
<1>7. c \in Named(w.classifications, d.classification)
  BY <1>5 DEF Named
<1>8. gateDecisionChainHolds(d, w)
  <2> HIDE DEF cited, paths
  <2>1. BeforeStateHolds(d, c, IF c.classification = "requires_customer_side_validation"
                                   /\ c.list = {} /\ Cardinality(paths) = 1
                                THEN {p.expected : p \in paths} ELSE c.list)
    BY <1>4, <1>6
  <2> QED
    BY <1>2, <1>3, <1>7, <2>1 DEF gateDecisionChainHolds, CitedPaths, cited, paths
<1> QED
  BY <1>1, <1>8

-----------------------------------------------------------------------------
(* Addenda. *)

(* Every deletion the addendum lists is of source its evidence left        *)
(* behind; the control plane dates only those.                             *)
DeletesCitedSource(a, evidence) ==
  \A x \in Elements(a.deleted) : \E e \in evidence : \E r \in Elements(e.artifacts) :
    x.artifact = r.ref /\ r.class \notin {Retained, OptIn}

(* Two entries of one list that name the same artifact are one entry. *)
LEMMA GoneOnce ==
  ASSUME NEW S, NEW a, a.retained \in Seq(S), a.deleted \in Seq(S), ResolvedOnce(a),
         NEW x \in Elements(a.deleted), NEW y \in Elements(a.deleted), x.artifact = y.artifact
  PROVE  x = y
<1> DEFINE m == Len(a.retained)
           n == Len(a.deleted)
           all == a.retained \o a.deleted
<1>1. m \in Nat /\ n \in Nat /\ DOMAIN a.deleted = 1 .. n
  BY LenProperties
<1>2. /\ all \in Seq(S) /\ Len(all) = m + n
      /\ \A i \in 1 .. m + n : all[i] = IF i <= m THEN a.retained[i] ELSE a.deleted[i - m]
  BY ConcatProperties
<1>3. DOMAIN all = 1 .. m + n
  BY <1>2, LenProperties
<1>4. \A i, j \in 1 .. m + n : all[i].artifact = all[j].artifact => i = j
  BY <1>3 DEF ResolvedOnce
<1> HIDE DEF m, n, all
<1>5. PICK i \in 1 .. n : x = a.deleted[i]
  BY <1>1 DEF Elements
<1>6. PICK j \in 1 .. n : y = a.deleted[j]
  BY <1>1 DEF Elements
<1>7. \A k \in 1 .. n : m + k \in 1 .. m + n /\ ~(m + k <= m) /\ (m + k) - m = k
  BY <1>1
<1>8. all[m + i] = x /\ all[m + j] = y
  BY <1>2, <1>5, <1>6, <1>7
<1>9. m + i = m + j
  BY <1>4, <1>7, <1>8
<1>10. i = j
  BY <1>1, <1>9
<1> QED
  BY <1>5, <1>6, <1>10

(* The entries of both lists together that name an artifact: what the gate *)
(* counts.                                                                 *)
EntriesOf(a, id) ==
  {i \in DOMAIN (a.retained \o a.deleted) : (a.retained \o a.deleted)[i].artifact = id}

LEMMA RetainedOnce ==
  ASSUME NEW S, NEW a, a.retained \in Seq(S), a.deleted \in Seq(S), ResolvedOnce(a),
         NEW x \in Elements(a.retained), NEW id, x.artifact = id
  PROVE  Cardinality(EntriesOf(a, id)) = 1
<1> DEFINE m == Len(a.retained)
           n == Len(a.deleted)
           all == a.retained \o a.deleted
           named == {i \in DOMAIN all : all[i].artifact = id}
<1>1. m \in Nat /\ n \in Nat /\ DOMAIN a.retained = 1 .. m
  BY LenProperties
<1>2. /\ all \in Seq(S) /\ Len(all) = m + n
      /\ \A i \in 1 .. m + n : all[i] = IF i <= m THEN a.retained[i] ELSE a.deleted[i - m]
  BY ConcatProperties
<1>3. DOMAIN all = 1 .. m + n
  BY <1>2, LenProperties
<1>4. \A i, j \in DOMAIN all : all[i].artifact = all[j].artifact => i = j
  BY DEF ResolvedOnce
<1> HIDE DEF m, n, all
<1>5. PICK i \in 1 .. m : x = a.retained[i]
  BY <1>1 DEF Elements
<1>6. i \in 1 .. m + n /\ i <= m
  BY <1>1
<1>7. i \in named
  BY <1>2, <1>3, <1>5, <1>6
<1>8. named = {i}
  BY <1>4, <1>7
<1>9. Cardinality(named) = 1
  BY <1>8, FS_Singleton
<1> QED
  BY <1>9 DEF EntriesOf, all

(* An addendum the control plane accepts the gate accepts, when no         *)
(* recorded evidence has a correction and it lists no deletion but of the  *)
(* source its evidence left behind.                                        *)
THEOREM AcceptedAddendumPassesGate ==
  ASSUME NEW a, NEW s, NEW decisions, NEW evidence, NEW w,
         addendumAccepted(a, s, decisions, evidence, w), UniqueById(w.evidence),
         DeletesCitedSource(a, evidence),
         NEW S, a.retained \in Seq(S), a.deleted \in Seq(S),
         NEW T, \A d \in decisions : d.evidence \in Seq(T)
  PROVE  gateAddendumAccepted(a) /\ gateAddendumChainHolds(a, decisions, w)
<1>1. /\ AddendumSchema(a) /\ a.pass = a.passRef /\ ResolvedOnce(a) /\ UniqueById(decisions)
      /\ Unresolved(a) \/ a.state = "not_finalized" => isMeaningfulClassificationText(a.next)
      /\ \A t \in AddendumTexts(a) : ~verificationArtifactTextHasForbiddenContent(t)
      /\ \A i, j \in DOMAIN a.findings : a.findings[i].draft = a.findings[j].draft => i = j
      /\ \A x \in Elements(a.findings) : ReportedFindingHolds(x, a, s, decisions, evidence, w)
      /\ \A e \in evidence : EvidenceIsAccountedFor(e, a, w)
      /\ {e.id : e \in evidence} = UNION {Elements(x.evidence) : x \in Elements(a.findings)}
  BY DEF addendumAccepted
<1>2. \A x \in Elements(a.findings) : \E d \in decisions : \E c :
        /\ d.id = x.decision /\ d.draft = x.draft /\ d.classification = x.classification
        /\ d.status = x.status /\ d.evidence = x.evidence /\ d.next = x.next
        /\ d.review = a.review
        /\ decisionAccepted(d, s, c, {e \in evidence : e.id \in Elements(x.evidence)}, w)
  BY <1>1 DEF ReportedFindingHolds, ReportsDecision, Named
<1>3. \A x \in Elements(a.findings) :
        x.status # "verification_complete" => isMeaningfulRemediationText(x.next)
  <2> SUFFICES ASSUME NEW x \in Elements(a.findings), x.status # "verification_complete"
               PROVE  isMeaningfulRemediationText(x.next)
    OBVIOUS
  <2>1. PICK d \in decisions : \E c :
          /\ d.status = x.status /\ d.next = x.next
          /\ decisionAccepted(d, s, c, {e \in evidence : e.id \in Elements(x.evidence)}, w)
    BY <1>2
  <2>2. isMeaningfulClassificationText(d.next)
    BY <2>1 DEF decisionAccepted
  <2> QED
    BY <2>1, <2>2, MeaningfulCovers
<1>4. \A i, j \in DOMAIN a.findings :
        (\/ a.findings[i].draft = a.findings[j].draft
         \/ a.findings[i].decision = a.findings[j].decision) => i = j
  <2> SUFFICES ASSUME NEW i \in DOMAIN a.findings, NEW j \in DOMAIN a.findings,
                      a.findings[i].decision = a.findings[j].decision
               PROVE  a.findings[i].draft = a.findings[j].draft
    BY <1>1
  <2>1. a.findings[i] \in Elements(a.findings) /\ a.findings[j] \in Elements(a.findings)
    BY DEF Elements
  <2>2. PICK d \in decisions : d.id = a.findings[i].decision /\ d.draft = a.findings[i].draft
    BY <1>2, <2>1
  <2>3. PICK v \in decisions : v.id = a.findings[j].decision /\ v.draft = a.findings[j].draft
    BY <1>2, <2>1
  <2>4. d = v
    BY <1>1, <2>2, <2>3 DEF UniqueById
  <2> QED
    BY <2>2, <2>3, <2>4
<1>5. \A x \in Elements(a.deleted) : x.at <= a.generated
  <2> SUFFICES ASSUME NEW x \in Elements(a.deleted) PROVE x.at <= a.generated
    OBVIOUS
  <2>1. PICK e \in evidence : \E r \in Elements(e.artifacts) :
          x.artifact = r.ref /\ r.class \notin {Retained, OptIn}
    BY DEF DeletesCitedSource
  <2>2. PICK r \in Elements(e.artifacts) : x.artifact = r.ref /\ r.class \notin {Retained, OptIn}
    BY <2>1
  <2>3. DeletionHolds(r, e, a, w)
    BY <1>1, <2>2 DEF EvidenceIsAccountedFor
  <2>4. PICK y \in Elements(a.deleted) : y.artifact = r.ref /\ y.at <= a.generated
    BY <2>3 DEF DeletionHolds
  <2>5. x = y
    BY <1>1, <2>2, <2>4, GoneOnce
  <2> QED
    BY <2>4, <2>5
<1>6. gateAddendumAccepted(a)
  BY <1>1, <1>3, <1>4, <1>5, MeaningfulCovers, ArtifactScanCovers DEF gateAddendumAccepted
<1>7. gateAddendumChainHolds(a, decisions, w)
  <2> SUFFICES ASSUME NEW x \in Elements(a.findings)
               PROVE  /\ \E d \in Named(decisions, x.decision) :
                           /\ d.review = a.review /\ d.draft = x.draft
                           /\ d.classification = x.classification /\ d.status = x.status
                      /\ Cardinality({e \in w.evidence : e.id \in Elements(x.evidence)})
                           = Len(x.evidence)
                      /\ \A id \in Elements(x.evidence) :
                           Cardinality(EntriesOf(a, id)) = 1
    BY DEF gateAddendumChainHolds, EntriesOf
  <2>1. PICK d \in decisions : \E c :
          /\ d.id = x.decision /\ d.draft = x.draft /\ d.classification = x.classification
          /\ d.status = x.status /\ d.evidence = x.evidence /\ d.review = a.review
          /\ decisionAccepted(d, s, c, {e \in evidence : e.id \in Elements(x.evidence)}, w)
    BY <1>2
  <2>2. Cardinality({e \in w.evidence : e.id \in Elements(x.evidence)}) = Len(x.evidence)
    <3>1. PICK c : decisionAccepted(d, s, c, {e \in evidence : e.id \in Elements(x.evidence)}, w)
      BY <2>1
    <3>2. d.evidence \in Seq(T)
      OBVIOUS
    <3>3. Cardinality({e \in w.evidence : e.id \in Elements(d.evidence)}) = Len(d.evidence)
      BY <3>1, <3>2, BoundIsCounted
    <3> QED
      BY <2>1, <3>3
  <2>3. ASSUME NEW id \in Elements(x.evidence)
        PROVE  Cardinality(EntriesOf(a, id)) = 1
    <3>1. id \in {e.id : e \in evidence}
      BY <1>1
    <3>2. PICK e \in evidence : e.id = id
      BY <3>1
    <3>3. PICK y \in Elements(a.retained) : y.artifact = id
      BY <1>1, <3>2 DEF EvidenceIsAccountedFor
    <3> QED
      BY <1>1, <3>3, RetainedOnce
  <2> QED
    BY <2>1, <2>2, <2>3 DEF Named
<1> QED
  BY <1>6, <1>7

-----------------------------------------------------------------------------
(* Scopes. *)

(* The two lists of allocation entries: only an included slot is numbered. *)
AllocationListed(s) ==
  /\ \E S : s.slots \in Seq(S) /\ s.extras \in Seq(S)
  /\ \A x \in Elements(s.extras) : x.slot = 0

LEMMA AllocatedEntries ==
  ASSUME NEW s, AllocationListed(s)
  PROVE  /\ Len(Allocated(s)) \in Nat /\ DOMAIN Allocated(s) = 1 .. Len(Allocated(s))
         /\ Elements(Allocated(s)) = Elements(s.slots) \cup Elements(s.extras)
<1> DEFINE m == Len(s.slots)
           n == Len(s.extras)
           all == s.slots \o s.extras
<1>1. PICK S : s.slots \in Seq(S) /\ s.extras \in Seq(S)
  BY DEF AllocationListed
<1>2. m \in Nat /\ n \in Nat /\ DOMAIN s.slots = 1 .. m /\ DOMAIN s.extras = 1 .. n
  BY <1>1, LenProperties
<1>3. /\ all \in Seq(S) /\ Len(all) = m + n
      /\ \A i \in 1 .. m + n : all[i] = IF i <= m THEN s.slots[i] ELSE s.extras[i - m]
  BY <1>1, ConcatProperties
<1>4. DOMAIN all = 1 .. m + n
  BY <1>3, LenProperties
<1> HIDE DEF m, n, all
<1>5. \A i \in 1 .. m : i \in 1 .. m + n /\ all[i] = s.slots[i]
  BY <1>2, <1>3
<1>6. \A i \in 1 .. n : m + i \in 1 .. m + n /\ all[m + i] = s.extras[i]
  <2>1. \A i \in 1 .. n : m + i \in 1 .. m + n /\ ~(m + i <= m) /\ (m + i) - m = i
    BY <1>2
  <2> QED
    BY <1>3, <2>1
<1>7. \A i \in 1 .. m + n : \/ i \in 1 .. m /\ all[i] = s.slots[i]
                            \/ i - m \in 1 .. n /\ all[i] = s.extras[i - m]
  BY <1>2, <1>3
<1>8. Elements(all) = Elements(s.slots) \cup Elements(s.extras)
  <2>1. \A x \in Elements(s.slots) : x \in Elements(all)
    BY <1>2, <1>4, <1>5 DEF Elements
  <2>2. \A x \in Elements(s.extras) : x \in Elements(all)
    BY <1>2, <1>4, <1>6 DEF Elements
  <2>3. \A x \in Elements(all) : x \in Elements(s.slots) \/ x \in Elements(s.extras)
    BY <1>2, <1>4, <1>7 DEF Elements
  <2> QED
    BY <2>1, <2>2, <2>3
<1> QED
  BY <1>2, <1>3, <1>4, <1>8 DEF Allocated, all

(* There are as many entries as selected scripts, no two of one script and *)
(* one for every selected script: every entry is of a selected script.     *)
LEMMA AllocationIsSelected ==
  ASSUME NEW s, AllocationListed(s), AllocationHolds(s),
         Len(Allocated(s)) = Cardinality(ScriptsSelected(s)),
         \A id \in ScriptsSelected(s) : \E a \in Elements(Allocated(s)) : a.script = id
  PROVE  \A a \in Elements(Allocated(s)) : a.script \in ScriptsSelected(s)
<1> DEFINE n == Len(Allocated(s))
           g == [i \in 1 .. n |-> Allocated(s)[i].script]
           T == {a.script : a \in Elements(Allocated(s))}
<1>1. n \in Nat /\ DOMAIN Allocated(s) = 1 .. n
  BY AllocatedEntries
<1>2. \A i, j \in 1 .. n : g[i] = g[j] => i = j
  BY <1>1 DEF AllocationHolds
<1>3. /\ \A i \in 1 .. n : g[i] \in T
      /\ \A x \in T : \E i \in 1 .. n : g[i] = x
  BY <1>1 DEF Elements
<1>4. IsFiniteSet(T) /\ Cardinality(T) = n
  <2> HIDE DEF g, T, n
  <2> QED
    BY ONLY <1>1, <1>2, <1>3, DistinctCounts
<1>5. ScriptsSelected(s) \in SUBSET T
  <2> SUFFICES ASSUME NEW id \in ScriptsSelected(s) PROVE id \in T
    OBVIOUS
  <2>1. PICK a \in Elements(Allocated(s)) : a.script = id
    OBVIOUS
  <2> QED
    BY <2>1
<1>6. ScriptsSelected(s) = T
  <2> HIDE DEF T
  <2> QED
    BY <1>4, <1>5, FS_Subset
<1> QED
  BY <1>6

(* The classification a scope selects for a finding. *)
LEMMA SelectedClassification ==
  ASSUME NEW s, NEW f, NEW w, UniqueById(w.classifications), SelectedClassificationHolds(s, f, w)
  PROVE  /\ \E c \in Named(w.classifications, f.classification) :
              c.review = s.review /\ c.draft = f.draft /\ c.classification = f.value
         /\ \A c \in Named(w.classifications, f.classification) :
              c.id = f.classification /\ c.review = s.review /\ c.draft = f.draft
<1>1. PICK c \in Named(w.classifications, f.classification) :
        c.review = s.review /\ c.draft = f.draft /\ c.classification = f.value
  BY DEF SelectedClassificationHolds
<1>2. \A q \in Named(w.classifications, f.classification) : q = c
  BY DEF Named, UniqueById
<1> QED
  BY <1>1, <1>2 DEF Named

(* The records a scope selects for a finding, one by one.                  *)
LEMMA SelectedRecordsResolve ==
  ASSUME NEW s, NEW f, NEW w, UniqueById(w.classifications), SelectedClassificationHolds(s, f, w),
         SelectedGuidanceHolds(s, f, w), SelectedStatusHolds(s, f, w), SelectedPathHolds(s, f, w),
         OutcomesHold(s, f, w)
  PROVE  /\ f.guidance # None => Named(OfFinding(w.guidance, s, f), f.guidance) # {}
         /\ f.status # None =>
              \E t \in Named(w.statuses, f.status) :
                /\ t.review = s.review /\ t.classification = f.classification
                /\ t.finding = f.draft /\ t.value = f.statusValue
         /\ f.path # None =>
              \E p \in Named(OfFinding(w.paths, s, f), f.path) :
                f.value = "requires_customer_side_validation" /\ f.eligibility = "eligible"
                   => p.verifiability # "additional_agreement_required"
         /\ f.risk # None => Named(OfFinding(w.risks, s, f), f.risk) # {}
         /\ f.fp # None => Named(OfFinding(w.falsePositives, s, f), f.fp) # {}
<1>1. f.guidance # None => Named(OfFinding(w.guidance, s, f), f.guidance) # {}
  BY DEF SelectedGuidanceHolds, IsLatest, Named
<1>2. ASSUME f.status # None
      PROVE  \E t \in Named(w.statuses, f.status) :
               /\ t.review = s.review /\ t.classification = f.classification
               /\ t.finding = f.draft /\ t.value = f.statusValue
  BY <1>2 DEF SelectedStatusHolds, IsLatest
<1>3. ASSUME f.path # None
      PROVE  \E p \in Named(OfFinding(w.paths, s, f), f.path) :
               f.value = "requires_customer_side_validation" /\ f.eligibility = "eligible"
                  => p.verifiability # "additional_agreement_required"
  BY <1>3 DEF SelectedPathHolds, Named
<1>4. ASSUME f.risk # None PROVE Named(OfFinding(w.risks, s, f), f.risk) # {}
  <2>1. PICK c \in Named(w.classifications, f.classification), a \in Named(w.risks, f.risk) :
          a.review = c.review /\ a.classification = c.id /\ a.draft = c.draft
    BY <1>4 DEF OutcomesHold, acceptedRiskAccepted
  <2> QED
    BY <2>1, SelectedClassification DEF OfFinding, Named
<1>5. ASSUME f.fp # None PROVE Named(OfFinding(w.falsePositives, s, f), f.fp) # {}
  <2>1. PICK c \in Named(w.classifications, f.classification), x \in Named(w.falsePositives, f.fp) :
          x.review = c.review /\ x.classification = c.id /\ x.draft = c.draft
    BY <1>5 DEF OutcomesHold, falsePositiveAccepted
  <2> QED
    BY <2>1, SelectedClassification DEF OfFinding, Named
<1> QED
  BY <1>1, <1>2, <1>3, <1>4, <1>5

(* A selected script has its entry in the list its package status calls    *)
(* for: the control plane compares slot numbers over both lists.           *)
LEMMA SelectedScriptResolves ==
  ASSUME NEW s, NEW f, NEW w, AllocationListed(s), AllocationHolds(s), UniqueById(w.paths),
         SelectedScriptsHold(s, f, w), SelectedPathHolds(s, f, w),
         NEW id \in Elements(f.scripts)
  PROVE  \E x \in Named(w.scripts, id) :
           /\ x.review = s.review /\ x.classification = f.classification
           /\ f.path # None => x.path = f.path
           /\ IF x.package = "included_base_package"
              THEN \E a \in Elements(s.slots) : a.script = id /\ a.slot = x.slot
              ELSE \E a \in Elements(s.extras) : a.script = id
<1>1. PICK p \in Named(w.paths, f.path), x \in Named(w.scripts, id), a \in Elements(Allocated(s)) :
        /\ validationScriptAccepted(x, p, {}) /\ x.classification = f.classification
        /\ a.script = id /\ a.slot = x.slot
  BY DEF SelectedScriptsHold
<1>2. f.path # None
  <2>1. f.scripts # <<>>
    BY DEF Elements
  <2> QED
    BY <2>1 DEF SelectedScriptsHold
<1>3. PICK q \in Named(w.paths, f.path) : q \in OfFinding(w.paths, s, f)
  BY <1>2 DEF SelectedPathHolds
<1>4. p = q
  BY DEF Named, UniqueById
<1>5. x.review = s.review /\ x.path = f.path /\ SlotHolds(x)
  BY <1>1, <1>3, <1>4 DEF validationScriptAccepted, OfFinding, Named
<1>6. a \in Elements(s.slots) \/ a \in Elements(s.extras)
  BY AllocatedEntries
<1>7. a \in Elements(s.slots) => a.slot \in 1 .. 3
  BY DEF AllocationHolds, Elements
<1>8. a \in Elements(s.extras) => a.slot = 0
  BY DEF AllocationListed
<1>9. 0 \notin 1 .. 3
  OBVIOUS
<1>10. IF x.package = "included_base_package" THEN a \in Elements(s.slots)
                                              ELSE a \in Elements(s.extras)
  BY <1>1, <1>5, <1>6, <1>7, <1>8, <1>9 DEF SlotHolds
<1> QED
  BY <1>1, <1>5, <1>10

(* A scope the control plane accepts the gate accepts.  The control plane  *)
(* asks every selected script for its allocation and counts; the gate asks *)
(* every allocation for its script.                                        *)
THEOREM AcceptedScopePassesGate ==
  ASSUME NEW s, NEW w, scopeAccepted(s, w), AllocationListed(s)
  PROVE  gateScopeAccepted(s) /\ gateScopeReferencesHold(s, w)
<1>1. /\ ScopeSchema(s) /\ ScopeActorHolds(s) /\ WindowHolds(s)
      /\ ~verificationScopeDeadlineBasisIsUnsafe(s) /\ AllocationHolds(s)
      /\ \A i, j \in DOMAIN s.findings : s.findings[i].draft = s.findings[j].draft => i = j
      /\ \A i, j \in DOMAIN s.findings :
           i # j => Elements(s.findings[i].scripts) \cap Elements(s.findings[j].scripts) = {}
      /\ Len(Allocated(s)) = Cardinality(ScriptsSelected(s))
      /\ \A t \in ScopeTexts(s) : ~verificationArtifactTextHasForbiddenContent(t)
  BY DEF scopeAccepted
<1>2. UniqueById(w.classifications) /\ UniqueById(w.paths)
  BY DEF scopeAccepted
<1>3. \A f \in Elements(s.findings) :
        /\ isMeaningfulClassificationText(f.reason) /\ isMeaningfulClassificationText(f.limits)
        /\ SelectedClassificationHolds(s, f, w) /\ SelectedDraftHolds(s, f, w)
        /\ SelectedGuidanceHolds(s, f, w) /\ SelectedStatusHolds(s, f, w)
        /\ SelectedPathHolds(s, f, w) /\ EligibleNeedsPath(f)
        /\ SelectedScriptsHold(s, f, w)
        /\ NextStepIsNamed(f)
        /\ OutcomesHold(s, f, w)
  BY DEF scopeAccepted
<1>4. \A f \in Elements(s.findings) : gateSelectedFindingAccepted(f)
  <2>1. \A f \in Elements(s.findings) : f.type \in RequestTypes
    BY <1>1 DEF ScopeSchema, SelectedFindingSchema
  <2> QED
    BY <1>3, <2>1 DEF gateSelectedFindingAccepted, isMeaningfulClassificationText, OutcomesHold
<1>5. \A f \in Elements(s.findings) : \A id \in Elements(f.scripts) :
        \E a \in Elements(Allocated(s)) : a.script = id /\ a.finding = f.draft
  BY <1>3 DEF SelectedScriptsHold
<1>6. gateAllocationAccepted(s)
  <2>1. \A id \in ScriptsSelected(s) : \E a \in Elements(Allocated(s)) : a.script = id
    BY <1>5 DEF ScriptsSelected
  <2>2. \A a \in Elements(Allocated(s)) : a.script \in ScriptsSelected(s)
    BY <1>1, <2>1, AllocationIsSelected
  <2>3. ASSUME NEW a \in Elements(Allocated(s))
        PROVE  \E f \in Elements(s.findings) : f.draft = a.finding /\ a.script \in Elements(f.scripts)
    <3>1. PICK f \in Elements(s.findings) : a.script \in Elements(f.scripts)
      BY <2>2 DEF ScriptsSelected
    <3>2. PICK b \in Elements(Allocated(s)) : b.script = a.script /\ b.finding = f.draft
      BY <1>5, <3>1
    <3>3. a = b
      BY <1>1, <3>2 DEF AllocationHolds, Elements
    <3> QED
      BY <3>1, <3>2, <3>3
  <2> QED
    BY <1>1, <2>3 DEF gateAllocationAccepted
<1>7. \A t \in ScopeTexts(s) : ~gateScopeTextHasForbiddenContent(t)
  BY <1>1, ScopeScanCovers
<1>8. gateScopeAccepted(s)
  BY <1>1, <1>4, <1>6, <1>7 DEF gateScopeAccepted
<1>9. ASSUME NEW f \in Elements(s.findings), NEW id \in Elements(f.scripts)
      PROVE  \E x \in Named(w.scripts, id) :
               /\ x.review = s.review /\ x.classification = f.classification
               /\ f.path # None => x.path = f.path
               /\ IF x.package = "included_base_package"
                  THEN \E a \in Elements(s.slots) : a.script = id /\ a.slot = x.slot
                  ELSE \E a \in Elements(s.extras) : a.script = id
  BY <1>1, <1>2, <1>3, SelectedScriptResolves
<1>10. gateScopeReferencesHold(s, w)
  BY <1>2, <1>3, <1>9, SelectedClassification, SelectedRecordsResolve DEF gateScopeReferencesHold
<1> QED
  BY <1>8, <1>10

-----------------------------------------------------------------------------
(* The pass again: what its documents and its records look like.           *)

PassClassifications ==
  {Classification("c1", "d1", 0), Classification("c2", "d2", 0), Classification("c1b", "d1", 2)}

CorrectedDecision == [Decision("d1") EXCEPT !.version = 2]

PassDecisions == {Decision("d1"), Decision("d2"), CorrectedDecision}

SlotEntries == [slot : {1, 2}, script : {"s2"}, finding : {"d1", "d2"}]

ExtraEntries == [slot : {0}, script : {"s2"}, finding : {"d2"}, pricing : {"pricing_tbd"},
                 priced : {TRUE}, reason : {PassPlain}]

RecordsHold(w) ==
  /\ {"classifications", "decisions"} \subseteq DOMAIN w
  /\ w.classifications \subseteq PassClassifications /\ w.decisions \subseteq PassDecisions

DocumentHolds ==
  /\ passKind = "scope" =>
       /\ {"slots", "extras", "findings"} \subseteq DOMAIN doc
       /\ doc.slots \in Seq(SlotEntries) /\ doc.extras \in Seq(ExtraEntries)
  /\ passKind \in {"decision1", "decision2"} =>
       "evidence" \in DOMAIN doc /\ doc.evidence \in Seq({"e1", "e2"})
  /\ passKind = "addendum" => "findings" \in DOMAIN doc /\ DOMAIN doc.findings = 1 .. 2

PassShape == RecordsHold(world) /\ RecordsHold(view) /\ DocumentHolds

LEMMA PassDecisionsTyped ==
  ASSUME NEW d \in PassDecisions
  PROVE  d.evidence \in Seq({"e1", "e2"})
<1>1. \A x \in {"e1", "e2"} : <<x>> \in Seq({"e1", "e2"})
  OBVIOUS
<1>2. Decision("d1").evidence = <<"e1">> /\ Decision("d2").evidence = <<"e2">>
  BY DEF Decision
<1>3. CorrectedDecision.evidence = Decision("d1").evidence
  BY DEF CorrectedDecision, Decision
<1> QED
  BY <1>1, <1>2, <1>3 DEF PassDecisions

LEMMA PassScopeFindings ==
  ASSUME NEW s \in PassScopes
  PROVE  /\ DOMAIN s.findings = 1 .. 2
         /\ s.findings[1].draft = "d1" /\ s.findings[2].draft = "d2"
         /\ s.findings[2].type = "reviewer_authored_script_output"
<1> DEFINE F == Finding("d1", "c1", "follow_up_commit")
           G == Finding("d2", "c2", "reviewer_authored_script_output")
<1>1. F.draft = "d1" /\ G.draft = "d2" /\ G.type = "reviewer_authored_script_output"
      /\ "eligibility" \in DOMAIN G
  BY DEF Finding
<1>2. Scope.findings = <<F, G>> /\ "findings" \in DOMAIN Scope
  BY DEF Scope
<1> HIDE DEF F, G
<1>3. DOMAIN Scope.findings = 1 .. 2 /\ Scope.findings[1] = F /\ Scope.findings[2] = G
  BY <1>2
<1>4. /\ DOMAIN CorrectedScope.findings = 1 .. 2 /\ CorrectedScope.findings[1] = F
      /\ CorrectedScope.findings[2] = [G EXCEPT !.eligibility = "out_of_scope"]
  <2> DEFINE S1 == [Scope EXCEPT !.version = 2]
             S2 == [S1 EXCEPT !.recorded = 9]
             S3 == [S2 EXCEPT !.findings[2].eligibility = "out_of_scope"]
  <2>1. CorrectedScope = S3
    BY DEF CorrectedScope
  <2>2. S2.findings = Scope.findings /\ "findings" \in DOMAIN S2
    BY <1>2
  <2> HIDE DEF S1, S2
  <2>3. S3.findings = [S2.findings EXCEPT ![2].eligibility = "out_of_scope"]
    BY <2>2
  <2> HIDE DEF S3
  <2> QED
    BY <1>3, <2>1, <2>2, <2>3
<1>5. LET H == [G EXCEPT !.eligibility = "out_of_scope"] IN
      H.draft = "d2" /\ H.type = "reviewer_authored_script_output"
  BY <1>1
<1> QED
  BY <1>1, <1>3, <1>4, <1>5 DEF PassScopes

LEMMA ShapeInit == PassInit => PassShape
<1> SUFFICES ASSUME PassInit PROVE PassShape
  OBVIOUS
<1>1. /\ {"classifications", "decisions"} \subseteq DOMAIN HonestWorld
      /\ HonestWorld.classifications = {Classification("c1", "d1", 0), Classification("c2", "d2", 0)}
      /\ HonestWorld.decisions = {Decision("d1"), Decision("d2")}
  BY DEF HonestWorld
<1>2. RecordsHold(world)
  BY <1>1 DEF PassInit, RecordsHold, PassClassifications, PassDecisions
<1>3. RecordsHold(view)
  BY <1>1 DEF PassInit, RecordsHold, PassClassifications, PassDecisions
<1>4. passKind = "scope" =>
        /\ {"slots", "extras", "findings"} \subseteq DOMAIN doc
        /\ doc.slots \in Seq(SlotEntries) /\ doc.extras \in Seq(ExtraEntries)
  <2> SUFFICES ASSUME passKind = "scope"
               PROVE  /\ {"slots", "extras", "findings"} \subseteq DOMAIN doc
                      /\ doc.slots \in Seq(SlotEntries) /\ doc.extras \in Seq(ExtraEntries)
    OBVIOUS
  <2>1. doc = Scope
    BY DEF PassInit, HonestPass
  <2>2. /\ {"slots", "extras", "findings"} \subseteq DOMAIN Scope
        /\ Scope.slots = <<[slot |-> 1, script |-> "s2", finding |-> "d2"]>> /\ Scope.extras = <<>>
    BY DEF Scope
  <2>3. [slot |-> 1, script |-> "s2", finding |-> "d2"] \in SlotEntries
    BY DEF SlotEntries
  <2>4. \A x \in SlotEntries : <<x>> \in Seq(SlotEntries)
    OBVIOUS
  <2> QED
    BY <2>1, <2>2, <2>3, <2>4
<1>5. passKind \in {"decision1", "decision2"} =>
        "evidence" \in DOMAIN doc /\ doc.evidence \in Seq({"e1", "e2"})
  <2> SUFFICES ASSUME passKind \in {"decision1", "decision2"}
               PROVE  "evidence" \in DOMAIN doc /\ doc.evidence \in Seq({"e1", "e2"})
    OBVIOUS
  <2>1. doc \in {Decision("d1"), Decision("d2")}
    BY DEF PassInit, HonestPass
  <2>2. \A x : "evidence" \in DOMAIN Decision(x)
    BY DEF Decision
  <2> QED
    BY <2>1, <2>2, PassDecisionsTyped DEF PassDecisions
<1>6. passKind = "addendum" => "findings" \in DOMAIN doc /\ DOMAIN doc.findings = 1 .. 2
  <2>1. passKind = "addendum" => doc = Addendum
    BY DEF PassInit, HonestPass
  <2>2. "findings" \in DOMAIN Addendum /\ DOMAIN Addendum.findings = 1 .. 2
    BY DEF Addendum
  <2> QED
    BY <2>1, <2>2
<1> QED
  BY <1>2, <1>3, <1>4, <1>5, <1>6 DEF PassShape, DocumentHolds

(* What the author may put in place of a list is a list of the same kind.  *)
LEMMA EditedListsTyped ==
  /\ \A v \in PassAlternatives("slots") : v \in Seq(SlotEntries)
  /\ \A v \in PassAlternatives("extras") : v \in Seq(ExtraEntries)
  /\ \A v \in PassAlternatives("evidence") : v \in Seq({"e1", "e2"})
  /\ PassAlternatives("findings") = {}
<1>1. \A v \in PassAlternatives("slots") : v \in Seq(SlotEntries)
  <2>1. PassAlternatives("slots") =
         {<<>>, Scope.slots, Scope.slots \o Scope.slots,
          <<[slot |-> 2, script |-> "s2", finding |-> "d2"]>>,
          <<[slot |-> 1, script |-> "s2", finding |-> "d1"]>>}
    BY DEF PassAlternatives
  <2>2. Scope.slots = <<[slot |-> 1, script |-> "s2", finding |-> "d2"]>>
    BY DEF Scope
  <2>3. /\ [slot |-> 1, script |-> "s2", finding |-> "d2"] \in SlotEntries
        /\ [slot |-> 2, script |-> "s2", finding |-> "d2"] \in SlotEntries
        /\ [slot |-> 1, script |-> "s2", finding |-> "d1"] \in SlotEntries
    BY DEF SlotEntries
  <2>4. <<>> \in Seq(SlotEntries) /\ \A x \in SlotEntries : <<x>> \in Seq(SlotEntries)
    OBVIOUS
  <2>5. Scope.slots \in Seq(SlotEntries)
    BY <2>2, <2>3, <2>4
  <2>6. Scope.slots \o Scope.slots \in Seq(SlotEntries)
    BY <2>5, ConcatProperties
  <2> QED
    BY <2>1, <2>3, <2>4, <2>5, <2>6
<1>2. \A v \in PassAlternatives("extras") : v \in Seq(ExtraEntries)
  <2>1. PassAlternatives("extras") =
         {<<>>, <<[slot |-> 0, script |-> "s2", finding |-> "d2", pricing |-> "pricing_tbd",
                   priced |-> TRUE, reason |-> PassPlain]>>}
    BY DEF PassAlternatives
  <2>2. [slot |-> 0, script |-> "s2", finding |-> "d2", pricing |-> "pricing_tbd",
         priced |-> TRUE, reason |-> PassPlain] \in ExtraEntries
    BY DEF ExtraEntries
  <2>3. <<>> \in Seq(ExtraEntries) /\ \A x \in ExtraEntries : <<x>> \in Seq(ExtraEntries)
    OBVIOUS
  <2> QED
    BY <2>1, <2>2, <2>3
<1>3. \A v \in PassAlternatives("evidence") : v \in Seq({"e1", "e2"})
  <2>1. PassAlternatives("evidence") = {<<"e1">>, <<"e2">>, <<"e1", "e2">>}
    BY DEF PassAlternatives
  <2>2. \A x, y \in {"e1", "e2"} : <<x>> \in Seq({"e1", "e2"}) /\ <<x, y>> \in Seq({"e1", "e2"})
    OBVIOUS
  <2> QED
    BY <2>1, <2>2
<1>4. PassAlternatives("findings") = {}
  BY DEF PassAlternatives
<1> QED
  BY <1>1, <1>2, <1>3, <1>4

LEMMA EditKeepsShape == ASSUME PassShape, PassEdit PROVE PassShape'
<1>1. passKind' = passKind /\ world' = world /\ view' = view
  BY DEF PassEdit
<1>2. RecordsHold(world)' /\ RecordsHold(view)'
  BY <1>1 DEF PassShape, RecordsHold
<1>3. CASE \E f \in DOMAIN doc : \E v \in PassAlternativesIn(passKind, f) \ {doc[f]} :
             doc' = [doc EXCEPT ![f] = v]
  <2>1. PICK f \in DOMAIN doc : \E v \in PassAlternativesIn(passKind, f) :
          doc' = [doc EXCEPT ![f] = v]
    BY <1>3
  <2>2. PICK v \in PassAlternativesIn(passKind, f) : doc' = [doc EXCEPT ![f] = v]
    BY <2>1
  <2>3. f \in {"slots", "extras", "evidence", "findings"} => v \in PassAlternatives(f)
    BY DEF PassAlternativesIn
  <2>4. DOMAIN doc' = DOMAIN doc /\ \A g \in DOMAIN doc : doc'[g] = IF g = f THEN v ELSE doc[g]
    BY <2>2
  <2>5. passKind = "scope" =>
          /\ {"slots", "extras", "findings"} \subseteq DOMAIN doc'
          /\ doc'.slots \in Seq(SlotEntries) /\ doc'.extras \in Seq(ExtraEntries)
    BY <2>3, <2>4, EditedListsTyped DEF PassShape, DocumentHolds
  <2>6. passKind \in {"decision1", "decision2"} =>
          "evidence" \in DOMAIN doc' /\ doc'.evidence \in Seq({"e1", "e2"})
    BY <2>3, <2>4, EditedListsTyped DEF PassShape, DocumentHolds
  <2>7. passKind = "addendum" => "findings" \in DOMAIN doc' /\ DOMAIN doc'.findings = 1 .. 2
    BY <2>3, <2>4, EditedListsTyped DEF PassShape, DocumentHolds
  <2> QED
    BY <1>1, <1>2, <2>5, <2>6, <2>7 DEF PassShape, DocumentHolds
<1>4. CASE /\ passKind \in {"scope", "addendum"}
           /\ \E i \in DOMAIN doc.findings : \E f \in DOMAIN doc.findings[i] :
                \E v \in PassAlternatives(f) \ {doc.findings[i][f]} :
                  doc' = [doc EXCEPT !.findings[i][f] = v]
  <2>1. PICK i \in DOMAIN doc.findings : \E f, v : doc' = [doc EXCEPT !.findings[i][f] = v]
    BY <1>4
  <2>2. "findings" \in DOMAIN doc
    BY <1>4 DEF PassShape, DocumentHolds
  <2>3. /\ DOMAIN doc' = DOMAIN doc /\ DOMAIN doc'.findings = DOMAIN doc.findings
        /\ doc'.slots = doc.slots /\ doc'.extras = doc.extras
    BY <2>1, <2>2
  <2> QED
    BY <1>1, <1>2, <1>4, <2>3 DEF PassShape, DocumentHolds
<1> QED
  BY <1>3, <1>4 DEF PassEdit

(* What the corrections do to the classifications and the decisions. *)
LEMMA MovesKeepShape ==
  ASSUME PassShape, NEW w, Moves(w), RecordsHold(w)
  PROVE  PassShape'
<1>1. world' = w /\ UNCHANGED <<passKind, doc, view>>
  BY DEF Moves
<1> QED
  BY <1>1 DEF PassShape, RecordsHold, DocumentHolds

LEMMA CorrectionsKeepRecords ==
  ASSUME RecordsHold(world)
  PROVE  /\ CorrectScope => \E w : Moves(w) /\ RecordsHold(w)
         /\ CorrectEvidence => \E w : Moves(w) /\ RecordsHold(w)
         /\ CorrectDecision => \E w : Moves(w) /\ RecordsHold(w)
         /\ Reclassify => \E w : Moves(w) /\ RecordsHold(w)
         /\ Readvise => \E w : Moves(w) /\ RecordsHold(w)
         /\ Restate => \E w : Moves(w) /\ RecordsHold(w)
         /\ DeleteAgain => \E w : Moves(w) /\ RecordsHold(w)
<1> USE DEF RecordsHold
<1>1. CorrectScope => \E w : Moves(w) /\ RecordsHold(w)
  BY DEF CorrectScope
<1>2. CorrectEvidence => \E w : Moves(w) /\ RecordsHold(w)
  <2> SUFFICES ASSUME CorrectEvidence PROVE \E w : Moves(w) /\ RecordsHold(w)
    OBVIOUS
  <2> DEFINE w == [world EXCEPT !.evidence = @ \cup {CorrectedFollowUp},
                                !.events = Append(@, Event("ev5", "verification_evidence_recorded",
                                                           "e1", 2, "ev1"))]
  <2>1. Moves(w)
    BY DEF CorrectEvidence, CorrectedFollowUp
  <2>2. /\ DOMAIN w = DOMAIN world /\ w.classifications = world.classifications
        /\ w.decisions = world.decisions
    OBVIOUS
  <2> HIDE DEF w
  <2> QED
    BY <2>1, <2>2
<1>3. CorrectDecision => \E w : Moves(w) /\ RecordsHold(w)
  <2> SUFFICES ASSUME CorrectDecision PROVE \E w : Moves(w) /\ RecordsHold(w)
    OBVIOUS
  <2> DEFINE w == [world EXCEPT !.decisions = {CorrectedDecision, Decision("d2")},
                                !.events = Append(@, Event("ev5", "verification_recorded",
                                                           "v1", 2, "ev3"))]
  <2>1. Moves(w)
    BY DEF CorrectDecision, CorrectedDecision
  <2>2. /\ DOMAIN w = DOMAIN world /\ w.classifications = world.classifications
        /\ w.decisions = {CorrectedDecision, Decision("d2")}
    OBVIOUS
  <2>3. {CorrectedDecision, Decision("d2")} \subseteq PassDecisions
    BY DEF PassDecisions
  <2> HIDE DEF w
  <2> QED
    BY <2>1, <2>2, <2>3
<1>4. Reclassify => \E w : Moves(w) /\ RecordsHold(w)
  <2> SUFFICES ASSUME Reclassify PROVE \E w : Moves(w) /\ RecordsHold(w)
    OBVIOUS
  <2> DEFINE w == [world EXCEPT !.classifications = @ \cup {Classification("c1b", "d1", 2)}]
  <2>1. Moves(w)
    BY DEF Reclassify
  <2>2. /\ DOMAIN w = DOMAIN world /\ w.decisions = world.decisions
        /\ w.classifications = world.classifications \cup {Classification("c1b", "d1", 2)}
    OBVIOUS
  <2>3. world.classifications \cup {Classification("c1b", "d1", 2)} \subseteq PassClassifications
    BY DEF PassClassifications
  <2> HIDE DEF w
  <2> QED
    BY <2>1, <2>2, <2>3
<1>5. Readvise => \E w : Moves(w) /\ RecordsHold(w)
  BY DEF Readvise
<1>6. Restate => \E w : Moves(w) /\ RecordsHold(w)
  BY DEF Restate
<1>7. DeleteAgain => \E w : Moves(w) /\ RecordsHold(w)
  <2> SUFFICES ASSUME DeleteAgain PROVE \E w : Moves(w) /\ RecordsHold(w)
    OBVIOUS
  <2> DEFINE w == [world EXCEPT !.deletions = @ \cup {[id |-> "del2", artifacts |-> {"a1"}, at |-> 31,
                                                      status |-> "intended"]},
                                !.lifecycle = @ \cup {[review |-> "r1", artifact |-> "a1",
                                                      deletion |-> "del1", at |-> 31,
                                                      class |-> "transient_source_derived"]}]
  <2>1. Moves(w)
    BY DEF DeleteAgain
  <2>2. /\ DOMAIN w = DOMAIN world /\ w.classifications = world.classifications
        /\ w.decisions = world.decisions
    OBVIOUS
  <2> HIDE DEF w
  <2> QED
    BY <2>1, <2>2
<1> QED
  BY <1>1, <1>2, <1>3, <1>4, <1>5, <1>6, <1>7

LEMMA ShapeStep == PassShape /\ [PassNext]_passVars => PassShape'
<1> SUFFICES ASSUME PassShape, [PassNext]_passVars PROVE PassShape'
  OBVIOUS
<1>1. CASE PassEdit
  BY <1>1, EditKeepsShape
<1>2. CASE CorrectScope \/ CorrectEvidence \/ CorrectDecision \/ Reclassify \/ Readvise
             \/ Restate \/ DeleteAgain
  <2>1. RecordsHold(world)
    BY DEF PassShape
  <2>2. \E w : Moves(w) /\ RecordsHold(w)
    BY <1>2, <2>1, CorrectionsKeepRecords
  <2> QED
    BY <2>2, MovesKeepShape
<1>3. CASE \E p \in Parts : Read(p)
  <2>1. PICK p \in Parts : Read(p)
    BY <1>3
  <2>2. /\ DOMAIN view' = DOMAIN view
        /\ view'.classifications = IF p = "classifications" THEN world.classifications
                                   ELSE view.classifications
    BY <2>1 DEF Read, PassShape, RecordsHold
  <2>3. view'.decisions = IF p = "decisions" THEN world.decisions ELSE view.decisions
    BY <2>1 DEF Read, PassShape, RecordsHold
  <2>4. UNCHANGED <<passKind, doc, world>>
    BY <2>1 DEF Read
  <2> QED
    BY <2>2, <2>3, <2>4 DEF PassShape, RecordsHold, DocumentHolds
<1>4. CASE PickScope \/ PickEvidence
  <2>1. /\ DOMAIN view' = DOMAIN view /\ view'.classifications = view.classifications
        /\ view'.decisions = view.decisions
    BY <1>4 DEF PickScope, PickEvidence, PassShape, RecordsHold
  <2>2. UNCHANGED <<passKind, doc, world>>
    BY <1>4 DEF PickScope, PickEvidence
  <2> QED
    BY <2>1, <2>2 DEF PassShape, RecordsHold, DocumentHolds
<1>5. CASE UNCHANGED passVars
  BY <1>5 DEF passVars, PassShape, RecordsHold, DocumentHolds
<1> QED
  BY <1>1, <1>2, <1>3, <1>4, <1>5 DEF PassNext

(* Whatever an accepted decision names was recorded, under a recorded      *)
(* scope.                                                                  *)
LEMMA DecisionHasEvidence ==
  ASSUME NEW d, NEW s, NEW c, NEW evidence, NEW w, decisionAccepted(d, s, c, evidence, w),
         NEW S, d.evidence \in Seq(S)
  PROVE  s \in w.scopes /\ \E e \in evidence : e.draft = d.draft
<1>1. d.evidence # <<>> /\ Len(d.evidence) \in Nat /\ DOMAIN d.evidence = 1 .. Len(d.evidence)
  BY LenProperties DEF decisionAccepted, DecisionSchema
<1>2. Len(d.evidence) # 0
  BY <1>1, EmptySeq
<1>3. 1 \in DOMAIN d.evidence
  BY <1>1, <1>2
<1>4. d.evidence[1] \in Elements(d.evidence)
  BY <1>3 DEF Elements
<1>5. {e.id : e \in {x \in evidence : x.id \in Elements(d.evidence)}} = Elements(d.evidence)
  BY DEF decisionAccepted
<1>6. PICK e \in evidence : e.id = d.evidence[1]
  BY <1>4, <1>5
<1>7. evidenceAccepted(e, s, c, w) /\ e.draft = d.draft
  BY <1>4, <1>6 DEF decisionAccepted, BoundEvidenceHolds
<1> QED
  BY <1>7 DEF evidenceAccepted, activeVerificationScope, IsActive

(* No finding of the pass that only asks for a commit lacks criteria.      *)
LEMMA PassMeasures ==
  ASSUME NEW s \in PassScopes, NEW c \in PassClassifications
  PROVE  SelectedOnce(s) /\ MeasuredByPath(s, c)
<1>1. /\ DOMAIN s.findings = 1 .. 2
      /\ s.findings[1].draft = "d1" /\ s.findings[2].draft = "d2"
      /\ s.findings[2].type = "reviewer_authored_script_output"
  BY PassScopeFindings
<1>2. SelectedOnce(s)
  BY <1>1 DEF SelectedOnce
<1>3. c.classification = "requires_customer_side_validation" => c.draft = "d2"
  <2>1. \A id, at : /\ Classification(id, "d1", at).classification = "confirmed"
                    /\ Classification(id, "d2", at).draft = "d2"
    BY DEF Classification
  <2> QED
    BY <2>1 DEF PassClassifications
<1>4. \A f \in SelectedIn(s, "d2") : f.type # "follow_up_commit"
  BY <1>1 DEF SelectedIn, Elements
<1> QED
  BY <1>2, <1>3, <1>4 DEF MeasuredByPath

LEMMA EvidenceOfTheSecond ==
  /\ \A e \in PassEvidence : e.draft = "d2" => e = Evidence("d2")
  /\ \E r \in Elements(Evidence("d2").artifacts) : r.ref = "a1" /\ r.class \notin {Retained, OptIn}
<1>1. Evidence("d1").draft = "d1" /\ CorrectedFollowUp.draft = "d1"
  BY DEF Evidence, CorrectedFollowUp
<1>2. Evidence("d2").artifacts =
        <<[ref |-> "a1", class |-> "transient_source_derived", retention |-> None],
          [ref |-> "a2", class |-> OptIn, retention |-> "rt1"]>>
  BY DEF Evidence
<1>3. 1 \in DOMAIN Evidence("d2").artifacts
      /\ Evidence("d2").artifacts[1]
           = [ref |-> "a1", class |-> "transient_source_derived", retention |-> None]
  BY <1>2
<1>4. Evidence("d2").artifacts[1] \in Elements(Evidence("d2").artifacts)
  BY <1>3 DEF Elements
<1>5. Evidence("d2").artifacts[1].ref = "a1"
      /\ Evidence("d2").artifacts[1].class \notin {Retained, OptIn}
  BY <1>3 DEF Retained, OptIn
<1> QED
  BY <1>1, <1>4, <1>5 DEF PassEvidence

(* The pass reports both findings, so the second one's evidence is cited,  *)
(* and nothing but its source is ever listed as deleted.                   *)
LEMMA PassDeletesCitedSource ==
  ASSUME PassIInv, PassShape, passKind = "addendum",
         addendumAccepted(doc, view.scope, view.decisions, view.records, view)
  PROVE  DeletesCitedSource(doc, view.records)
<1>1. /\ \A x \in Elements(doc.findings) :
           ReportedFindingHolds(x, doc, view.scope, view.decisions, view.records, view)
      /\ \A i, j \in DOMAIN doc.findings : doc.findings[i].draft = doc.findings[j].draft => i = j
      /\ DOMAIN doc.findings = 1 .. 2
  BY DEF addendumAccepted, PassShape, DocumentHolds
<1>2. \A x \in Elements(doc.findings) :
        /\ view.scope \in PassScopes
        /\ SelectedIn(view.scope, x.draft) # {}
        /\ \E e \in view.records : e.draft = x.draft
  <2> SUFFICES ASSUME NEW x \in Elements(doc.findings)
               PROVE  /\ view.scope \in PassScopes
                      /\ SelectedIn(view.scope, x.draft) # {}
                      /\ \E e \in view.records : e.draft = x.draft
    OBVIOUS
  <2>1. PICK f \in SelectedIn(view.scope, x.draft), d \in Named(view.decisions, x.decision),
             c \in Named(view.classifications, x.classification) :
          /\ decisionAccepted(d, view.scope, c,
                              {e \in view.records : e.id \in Elements(x.evidence)}, view)
          /\ d.draft = x.draft
    BY <1>1 DEF ReportedFindingHolds, ReportsDecision
  <2>2. d.evidence \in Seq({"e1", "e2"})
    BY PassDecisionsTyped DEF PassShape, RecordsHold, Named
  <2>3. view.scope \in view.scopes
        /\ \E e \in {y \in view.records : y.id \in Elements(x.evidence)} : e.draft = d.draft
    BY <2>1, <2>2, DecisionHasEvidence
  <2> QED
    BY <2>1, <2>3 DEF PassIInv, ViewHolds
<1>3. doc.findings[1] \in Elements(doc.findings) /\ doc.findings[2] \in Elements(doc.findings)
      /\ doc.findings[1].draft # doc.findings[2].draft
  BY <1>1 DEF Elements
<1>4. \A x \in Elements(doc.findings) : x.draft \in {"d1", "d2"}
  BY <1>2, PassScopeFindings DEF SelectedIn, Elements
<1>5. PICK x \in Elements(doc.findings) : x.draft = "d2"
  BY <1>3, <1>4
<1>6. PICK e \in view.records : e.draft = "d2"
  BY <1>2, <1>5
<1>7. e = Evidence("d2")
  BY <1>6, EvidenceOfTheSecond DEF PassIInv, ViewHolds
<1>8. \A y \in Elements(doc.deleted) : y.artifact = "a1"
  <2> SUFFICES ASSUME NEW y \in Elements(doc.deleted) PROVE y.artifact = "a1"
    OBVIOUS
  <2>1. doc.deleted \in Seq(GoneEntries)
    BY DEF PassIInv, AddendumHolds
  <2>2. PICK i \in DOMAIN doc.deleted : y = doc.deleted[i]
    BY DEF Elements
  <2>3. y \in GoneEntries
    BY <2>1, <2>2, ElementOfSeq, LenProperties
  <2> QED
    BY <2>3 DEF GoneEntries
<1> QED
  BY <1>7, <1>8, EvidenceOfTheSecond DEF DeletesCitedSource

(* What the control plane accepts of the pass the gate accepts. *)
LEMMA AcceptedPassPassesGate == PassIInv /\ PassShape => PassRecordsPassGate
<1> SUFFICES ASSUME PassIInv, PassShape, passKind \in PassKinds, PassAccepted,
                    ~StrayScript, ~CorrectedEvidence
             PROVE  PassGateAccepts
  BY DEF PassRecordsPassGate
<1>1. UniqueById(view.evidence)
  BY DEF CorrectedEvidence, UniqueById
<1>2. CASE passKind = "scope"
  <2>1. scopeAccepted(doc, view)
    BY <1>2 DEF PassAccepted
  <2>2. doc.slots \in Seq(SlotEntries) /\ doc.extras \in Seq(ExtraEntries)
    BY <1>2 DEF PassShape, DocumentHolds
  <2>3. AllocationListed(doc)
    <3>1. doc.slots \in Seq(SlotEntries \cup ExtraEntries)
          /\ doc.extras \in Seq(SlotEntries \cup ExtraEntries)
      BY <2>2
    <3>2. \A x \in Elements(doc.extras) : x.slot = 0
      <4> SUFFICES ASSUME NEW i \in DOMAIN doc.extras PROVE doc.extras[i].slot = 0
        BY DEF Elements
      <4>1. doc.extras[i] \in ExtraEntries
        BY <2>2, ElementOfSeq, LenProperties
      <4> QED
        BY <4>1 DEF ExtraEntries
    <3> QED
      BY <3>1, <3>2 DEF AllocationListed
  <2> QED
    BY <1>2, <2>1, <2>3, AcceptedScopePassesGate DEF PassGateAccepts
<1>3. CASE passKind \in {"evidence1", "evidence2"}
  <2>1. PICK c \in Named(view.classifications, doc.classification) :
          evidenceAccepted(doc, view.scope, c, view)
    BY <1>3 DEF PassAccepted
  <2>2. doc.script # None => doc.type = "reviewer_authored_script_output"
    BY <1>3 DEF StrayScript
  <2>3. c \in view.classifications
    BY DEF Named
  <2>4. gateEvidenceAccepted(doc) /\ gateEvidenceChainHolds(doc, view)
    BY <2>1, <2>2, <2>3, AcceptedEvidencePassesGate
  <2> QED
    BY <1>3, <2>4 DEF PassGateAccepts
<1>4. CASE passKind \in {"decision1", "decision2"}
  <2> DEFINE records == {e \in view.records : e.id \in Elements(doc.evidence)}
  <2>1. PICK c \in Named(view.classifications, doc.classification) :
          decisionAccepted(doc, view.scope, c, records, view)
    BY <1>4 DEF PassAccepted
  <2> HIDE DEF records
  <2>2. doc.evidence \in Seq({"e1", "e2"})
    BY <1>4 DEF PassShape, DocumentHolds
  <2>3. c \in view.classifications /\ c \in PassClassifications
    BY DEF Named, PassShape, RecordsHold
  <2>4. view.scope \in view.scopes
    BY <2>1, <2>2, DecisionHasEvidence
  <2>5. view.scope \in PassScopes
    BY <2>4 DEF PassIInv, ViewHolds
  <2>6. SelectedOnce(view.scope) /\ MeasuredByPath(view.scope, c)
    BY <2>3, <2>5, PassMeasures
  <2>7. gateDecisionAccepted(doc) /\ gateDecisionChainHolds(doc, view)
    BY <1>1, <2>1, <2>2, <2>3, <2>6, AcceptedDecisionPassesGate
  <2> QED
    BY <1>4, <2>7 DEF PassGateAccepts
<1>5. CASE passKind = "addendum"
  <2>1. addendumAccepted(doc, view.scope, view.decisions, view.records, view)
    BY <1>5 DEF PassAccepted
  <2>2. DeletesCitedSource(doc, view.records)
    BY <1>5, <2>1, PassDeletesCitedSource
  <2>3. doc.retained \in Seq(KeptEntries) /\ doc.deleted \in Seq(GoneEntries)
    BY <1>5 DEF PassIInv, AddendumHolds
  <2>4. doc.retained \in Seq(KeptEntries \cup GoneEntries)
        /\ doc.deleted \in Seq(KeptEntries \cup GoneEntries)
    BY <2>3
  <2>5. \A d \in view.decisions : d.evidence \in Seq({"e1", "e2"})
    BY PassDecisionsTyped DEF PassShape, RecordsHold
  <2>6. gateAddendumAccepted(doc) /\ gateAddendumChainHolds(doc, view.decisions, view)
    BY <1>1, <2>1, <2>2, <2>4, <2>5, AcceptedAddendumPassesGate
  <2> QED
    BY <1>5, <2>6 DEF PassGateAccepts
<1> QED
  BY <1>2, <1>3, <1>4, <1>5 DEF PassKinds

-----------------------------------------------------------------------------
(* The run's specification: a step of a record's draft leaves the pass     *)
(* alone, and an author of drafts works on no pass.                        *)

PassHolds == passKind \in PassKinds => PassIInv /\ PassShape

LEMMA PassHoldsInit == Init => PassHolds
<1>1. Nothing \notin PassKinds
  BY DEF Nothing, PassKinds
<1> QED
  BY <1>1, PassInitHolds, ShapeInit DEF Init, PassHolds

LEMMA PassHoldsStep == PassHolds /\ [Next]_vars => PassHolds'
<1> SUFFICES ASSUME PassHolds, [Next]_vars, passKind' \in PassKinds PROVE (PassIInv /\ PassShape)'
  BY DEF PassHolds
<1>1. [PassNext]_passVars
  BY DEF Next, vars, passVars
<1>2. passKind \in PassKinds
  BY <1>1 DEF PassNext, passVars
<1> QED
  BY <1>1, <1>2, PassStepHolds, ShapeStep DEF PassHolds

(* Whatever is edited, corrected or read, in whatever order, the world and *)
(* the author's view hold records of this pass only, and the document has  *)
(* only lists of the entries it may have.                                  *)
THEOREM PassTyped == Spec => []PassHolds
BY PassHoldsInit, PassHoldsStep, PTL DEF Spec

LEMMA PassConsequences ==
  PassHolds => PassRecordsPassGate /\ DecidedOnHeads /\ SourceIsAccountedFor
<1>1. CASE passKind \in PassKinds
  BY <1>1, AcceptedPassPassesGate, HeadsDecide, SourceAccounted DEF PassHolds
<1>2. CASE passKind \notin PassKinds
  <2>1. passKind \notin {"decision1", "decision2"} /\ passKind # "addendum"
    BY <1>2 DEF PassKinds
  <2> QED
    BY <1>2, <2>1 DEF PassRecordsPassGate, DecidedOnHeads, SourceIsAccountedFor
<1> QED
  BY <1>1, <1>2

(* What the control plane accepts of a pass - scope, evidence, decision or *)
(* addendum - the gate accepts, however the document was edited and        *)
(* however stale the context its author had read, apart from the two known *)
(* disagreements.                                                          *)
THEOREM PassAlwaysPassesGate == Spec => []PassRecordsPassGate
BY PassTyped, PassConsequences, PTL

(* Superseded facts are not decided upon, however many corrections are     *)
(* recorded between the author's reads.                                    *)
THEOREM DecidedAlwaysOnHeads == Spec => []DecidedOnHeads
BY PassTyped, PassConsequences, PTL

(* No source outlives its report, however the addendum is edited.          *)
THEOREM SourceAlwaysAccountedFor == Spec => []SourceIsAccountedFor
BY PassTyped, PassConsequences, PTL

-----------------------------------------------------------------------------
(* The loops of the transparency proofs.  Induction is by least            *)
(* counterexample, and a loop is the function its recursion defines.       *)

LEMMA LeastOf ==
  ASSUME NEW D \in SUBSET Nat, D # {}
  PROVE  \E d \in D : \A y \in D : d <= y
<1> DEFINE R == OpToRel(<, Nat)
<1>1. IsWellFoundedOn(R, Nat)
  BY NatLessThanWellFounded
<1>2. \A x, y \in Nat : x < y => <<x, y>> \in R
  BY DEF OpToRel
<1> HIDE DEF R
<1>3. PICK d \in D : \A y \in D : ~(<<y, d>> \in R)
  BY <1>1, WFMin
<1>4. \A y \in D : y \in Nat /\ d \in Nat /\ ~(y < d)
  BY <1>2, <1>3
<1>5. \A y \in D : d <= y
  BY <1>4
<1> QED
  BY <1>5

(* Induction over a set of numbers: what holds at 0 and one further up.    *)
LEMMA Induction ==
  ASSUME NEW A \in SUBSET Nat, 0 \in A, \A k \in A : k + 1 \in A
  PROVE  A = Nat
<1> SUFFICES ASSUME A # Nat PROVE FALSE
  OBVIOUS
<1>1. Nat \ A \in SUBSET Nat /\ Nat \ A # {}
  OBVIOUS
<1>2. PICK d \in Nat \ A : \A y \in Nat \ A : d <= y
  BY <1>1, LeastOf
<1>3. d # 0 /\ d - 1 \in Nat /\ ~(d <= d - 1) /\ (d - 1) + 1 = d
  BY <1>2
<1>4. d - 1 \in A
  BY <1>2, <1>3
<1> QED
  BY <1>2, <1>3, <1>4

(* The first n rounds of the tree's levels.                                *)
LevelRounds(level, n, g) ==
  g[0] = level /\ \A k \in 1 .. n : g[k] = nextMerkleLevel(g[k - 1])

LEMMA LevelRoundsExist ==
  ASSUME NEW level, NEW n \in Nat
  PROVE  \E g : LevelRounds(level, n, g)
<1> DEFINE A == {m \in Nat : \E g : LevelRounds(level, m, g)}
<1>1. 0 \in A
  <2>1. LevelRounds(level, 0, [k \in {0} |-> level])
    BY DEF LevelRounds
  <2> QED
    BY <2>1
<1>2. ASSUME NEW m \in A PROVE m + 1 \in A
  <2>1. m \in Nat /\ m + 1 \in Nat
    OBVIOUS
  <2>2. PICK g : LevelRounds(level, m, g)
    OBVIOUS
  <2> DEFINE h == [k \in Nat |-> IF k = m + 1 THEN nextMerkleLevel(g[m]) ELSE g[k]]
  <2>3. h[0] = g[0] /\ \A k \in 1 .. m : h[k] = g[k] /\ h[k - 1] = g[k - 1]
    BY <2>1
  <2>4. h[m + 1] = nextMerkleLevel(h[m]) /\ (m + 1) - 1 = m
    BY <2>1
  <2>5. \A k \in 1 .. m + 1 : k \in 1 .. m \/ k = m + 1
    BY <2>1
  <2> HIDE DEF h
  <2>6. LevelRounds(level, m + 1, h)
    BY <2>2, <2>3, <2>4, <2>5 DEF LevelRounds
  <2> QED
    BY <2>1, <2>6
<1> HIDE DEF A
<1>3. A = Nat
  BY <1>1, <1>2, Induction DEF A
<1> QED
  BY <1>3 DEF A

LEMMA LevelRoundsAgree ==
  ASSUME NEW level, NEW m \in Nat, NEW n \in Nat, m <= n, NEW g, NEW h,
         LevelRounds(level, m, g), LevelRounds(level, n, h)
  PROVE  g[m] = h[m]
<1> DEFINE A == {k \in Nat : k <= m => g[k] = h[k]}
<1>1. 0 \in A
  BY DEF LevelRounds
<1>2. ASSUME NEW k \in A PROVE k + 1 \in A
  <2>1. k \in Nat /\ k + 1 \in Nat /\ (k + 1) - 1 = k
    OBVIOUS
  <2> SUFFICES ASSUME k + 1 <= m PROVE g[k + 1] = h[k + 1]
    BY <2>1
  <2>2. k + 1 \in 1 .. m /\ k + 1 \in 1 .. n /\ k <= m
    BY <2>1
  <2>3. g[k] = h[k]
    BY <2>2
  <2> QED
    BY <2>1, <2>2, <2>3 DEF LevelRounds
<1> HIDE DEF A
<1>3. A = Nat
  BY <1>1, <1>2, Induction DEF A
<1> QED
  BY <1>3 DEF A

(* The levels of a tree follow each other.                                 *)
LEMMA LevelsFollow ==
  ASSUME NEW level
  PROVE  /\ merkleLevels(level)[0] = level
         /\ \A k \in Nat : merkleLevels(level)[k + 1] = nextMerkleLevel(merkleLevels(level)[k])
<1> DEFINE Is(f) == f = [k \in Nat |-> IF k = 0 THEN level ELSE nextMerkleLevel(f[k - 1])]
           rounds(n) == CHOOSE g : LevelRounds(level, n, g)
           f == [n \in Nat |-> rounds(n)[n]]
<1>1. \A n \in Nat : LevelRounds(level, n, rounds(n))
  BY LevelRoundsExist
<1>2. f[0] = level
  BY <1>1 DEF LevelRounds
<1>3. ASSUME NEW k \in Nat, k # 0 PROVE f[k] = nextMerkleLevel(f[k - 1])
  <2>1. k - 1 \in Nat /\ k - 1 <= k /\ k \in 1 .. k
    BY <1>3
  <2>2. LevelRounds(level, k, rounds(k)) /\ LevelRounds(level, k - 1, rounds(k - 1))
    BY <1>1, <2>1
  <2> HIDE DEF rounds
  <2>3. rounds(k)[k] = nextMerkleLevel(rounds(k)[k - 1])
    BY <2>1, <2>2 DEF LevelRounds
  <2>4. rounds(k - 1)[k - 1] = rounds(k)[k - 1]
    BY <2>1, <2>2, LevelRoundsAgree
  <2> QED
    BY <2>1, <2>3, <2>4
<1>4. Is(f)
  <2> HIDE DEF rounds
  <2>1. \A k \in Nat : f[k] = IF k = 0 THEN level ELSE nextMerkleLevel(f[k - 1])
    BY <1>2, <1>3
  <2>2. f = [n \in Nat |-> f[n]]
    OBVIOUS
  <2> HIDE DEF f
  <2> QED
    BY <2>1, <2>2
<1>5. merkleLevels(level) = CHOOSE g : Is(g)
  BY DEF merkleLevels
<1> HIDE DEF f
<1>6. Is(merkleLevels(level))
  <2> HIDE DEF Is
  <2> QED
    BY <1>4, <1>5
<1>7. \A k \in Nat : merkleLevels(level)[k]
                       = IF k = 0 THEN level ELSE nextMerkleLevel(merkleLevels(level)[k - 1])
  BY <1>6
<1>8. \A k \in Nat : k + 1 \in Nat /\ k + 1 # 0 /\ (k + 1) - 1 = k
  OBVIOUS
<1> QED
  BY <1>7, <1>8

-----------------------------------------------------------------------------
(* One round of the walk that collects siblings, and of the verifier.      *)
WalkFrom(level, index) == [level |-> level, index |-> index, found |-> <<>>]

WalkOn(b) == [level |-> nextMerkleLevel(b.level), index |-> b.index \div 2,
              found |-> b.found \o siblingOf(b.level, b.index)]

ClimbFrom(node, index, width) == [node |-> node, index |-> index, width |-> width, used |-> 0]

ClimbOn(b, path) == IF b.width <= 1 \/ b.node = NoNode THEN b ELSE climbOne(b, path)

(* The first n rounds of the walk. *)
WalkRounds(level, index, n, g) ==
  g[0] = WalkFrom(level, index) /\ \A k \in 1 .. n : g[k] = WalkOn(g[k - 1])

LEMMA WalkRoundsExist ==
  ASSUME NEW level, NEW index, NEW n \in Nat
  PROVE  \E g : WalkRounds(level, index, n, g)
<1> DEFINE A == {m \in Nat : \E g : WalkRounds(level, index, m, g)}
<1>1. 0 \in A
  <2>1. WalkRounds(level, index, 0, [k \in {0} |-> WalkFrom(level, index)])
    BY DEF WalkRounds
  <2> QED
    BY <2>1
<1>2. ASSUME NEW m \in A PROVE m + 1 \in A
  <2>1. m \in Nat /\ m + 1 \in Nat /\ (m + 1) - 1 = m
    OBVIOUS
  <2>2. PICK g : WalkRounds(level, index, m, g)
    OBVIOUS
  <2> DEFINE k == m + 1
             h == [i \in Nat |-> IF i = k THEN WalkOn(g[k - 1]) ELSE g[i]]
  <2>3. h[0] = g[0] /\ \A i \in 1 .. m : h[i] = g[i] /\ h[i - 1] = g[i - 1]
    BY <2>1
  <2>4. h[k] = WalkOn(g[k - 1]) /\ h[k - 1] = g[k - 1]
    BY <2>1
  <2>5. \A i \in 1 .. m + 1 : i \in 1 .. m \/ i = k
    BY <2>1
  <2> HIDE DEF h, k
  <2>6. WalkRounds(level, index, m + 1, h)
    BY <2>2, <2>3, <2>4, <2>5 DEF WalkRounds
  <2> QED
    BY <2>1, <2>6
<1> HIDE DEF A
<1>3. A = Nat
  BY <1>1, <1>2, Induction DEF A
<1> QED
  BY <1>3 DEF A

LEMMA WalkRoundsAgree ==
  ASSUME NEW level, NEW index, NEW m \in Nat, NEW n \in Nat, m <= n, NEW g, NEW h,
         WalkRounds(level, index, m, g), WalkRounds(level, index, n, h)
  PROVE  g[m] = h[m]
<1> DEFINE A == {k \in Nat : k <= m => g[k] = h[k]}
<1>1. 0 \in A
  BY DEF WalkRounds
<1>2. ASSUME NEW k \in A PROVE k + 1 \in A
  <2>1. k \in Nat /\ k + 1 \in Nat /\ (k + 1) - 1 = k
    OBVIOUS
  <2> SUFFICES ASSUME k + 1 <= m PROVE g[k + 1] = h[k + 1]
    BY <2>1
  <2>2. k + 1 \in 1 .. m /\ k + 1 \in 1 .. n /\ k <= m
    BY <2>1
  <2>3. g[k] = h[k]
    BY <2>2
  <2> QED
    BY <2>1, <2>2, <2>3 DEF WalkRounds
<1> HIDE DEF A
<1>3. A = Nat
  BY <1>1, <1>2, Induction DEF A
<1> QED
  BY <1>3 DEF A

LEMMA WalkFollows ==
  ASSUME NEW level, NEW index
  PROVE  /\ siblingWalk(level, index)[0] = WalkFrom(level, index)
         /\ \A k \in Nat \ {0} : siblingWalk(level, index)[k] = WalkOn(siblingWalk(level, index)[k - 1])
<1> DEFINE Is(f) == f = [k \in Nat |-> IF k = 0 THEN WalkFrom(level, index) ELSE WalkOn(f[k - 1])]
           rounds(n) == CHOOSE g : WalkRounds(level, index, n, g)
           f == [n \in Nat |-> rounds(n)[n]]
<1>1. \A n \in Nat : WalkRounds(level, index, n, rounds(n))
  BY WalkRoundsExist
<1>2. f[0] = WalkFrom(level, index)
  BY <1>1 DEF WalkRounds
<1>3. ASSUME NEW k \in Nat, k # 0 PROVE f[k] = WalkOn(f[k - 1])
  <2>1. k - 1 \in Nat /\ k - 1 <= k /\ k \in 1 .. k
    BY <1>3
  <2>2. WalkRounds(level, index, k, rounds(k)) /\ WalkRounds(level, index, k - 1, rounds(k - 1))
    BY <1>1, <2>1
  <2> DEFINE g == rounds(k)
  <2> HIDE DEF rounds
  <2>3. g[k] = WalkOn(g[k - 1])
    BY <2>1, <2>2 DEF WalkRounds
  <2>4. rounds(k - 1)[k - 1] = g[k - 1]
    BY <2>1, <2>2, WalkRoundsAgree
  <2>5. f[k] = g[k] /\ f[k - 1] = g[k - 1]
    BY <2>1, <2>4
  <2> HIDE DEF f, g
  <2> QED
    BY <2>3, <2>5
<1>4. Is(f)
  <2> HIDE DEF rounds
  <2>1. \A k \in Nat : f[k] = IF k = 0 THEN WalkFrom(level, index) ELSE WalkOn(f[k - 1])
    BY <1>2, <1>3
  <2>2. f = [n \in Nat |-> f[n]]
    OBVIOUS
  <2> HIDE DEF f
  <2> QED
    BY <2>1, <2>2
<1>5. siblingWalk(level, index) = CHOOSE g : Is(g)
  BY DEF siblingWalk, WalkFrom, WalkOn
<1> HIDE DEF f
<1>6. Is(siblingWalk(level, index))
  <2> HIDE DEF Is
  <2> QED
    BY <1>4, <1>5
<1> QED
  BY <1>6

(* The first n rounds of the verifier. *)
ClimbRounds(node, index, width, path, n, g) ==
  g[0] = ClimbFrom(node, index, width) /\ \A k \in 1 .. n : g[k] = ClimbOn(g[k - 1], path)

LEMMA ClimbRoundsExist ==
  ASSUME NEW node, NEW index, NEW width, NEW path, NEW n \in Nat
  PROVE  \E g : ClimbRounds(node, index, width, path, n, g)
<1> DEFINE A == {m \in Nat : \E g : ClimbRounds(node, index, width, path, m, g)}
<1>1. 0 \in A
  <2>1. ClimbRounds(node, index, width, path, 0, [k \in {0} |-> ClimbFrom(node, index, width)])
    BY DEF ClimbRounds
  <2> QED
    BY <2>1
<1>2. ASSUME NEW m \in A PROVE m + 1 \in A
  <2>1. m \in Nat /\ m + 1 \in Nat /\ (m + 1) - 1 = m
    OBVIOUS
  <2>2. PICK g : ClimbRounds(node, index, width, path, m, g)
    OBVIOUS
  <2> DEFINE k == m + 1
             h == [i \in Nat |-> IF i = k THEN ClimbOn(g[k - 1], path) ELSE g[i]]
  <2>3. h[0] = g[0] /\ \A i \in 1 .. m : h[i] = g[i] /\ h[i - 1] = g[i - 1]
    BY <2>1
  <2>4. h[k] = ClimbOn(g[k - 1], path) /\ h[k - 1] = g[k - 1]
    BY <2>1
  <2>5. \A i \in 1 .. m + 1 : i \in 1 .. m \/ i = k
    BY <2>1
  <2> HIDE DEF h, k
  <2>6. ClimbRounds(node, index, width, path, m + 1, h)
    BY <2>2, <2>3, <2>4, <2>5 DEF ClimbRounds
  <2> QED
    BY <2>1, <2>6
<1> HIDE DEF A
<1>3. A = Nat
  BY <1>1, <1>2, Induction DEF A
<1> QED
  BY <1>3 DEF A

LEMMA ClimbRoundsAgree ==
  ASSUME NEW node, NEW index, NEW width, NEW path, NEW m \in Nat, NEW n \in Nat, m <= n, NEW g, NEW h,
         ClimbRounds(node, index, width, path, m, g), ClimbRounds(node, index, width, path, n, h)
  PROVE  g[m] = h[m]
<1> DEFINE A == {k \in Nat : k <= m => g[k] = h[k]}
<1>1. 0 \in A
  BY DEF ClimbRounds
<1>2. ASSUME NEW k \in A PROVE k + 1 \in A
  <2>1. k \in Nat /\ k + 1 \in Nat /\ (k + 1) - 1 = k
    OBVIOUS
  <2> SUFFICES ASSUME k + 1 <= m PROVE g[k + 1] = h[k + 1]
    BY <2>1
  <2>2. k + 1 \in 1 .. m /\ k + 1 \in 1 .. n /\ k <= m
    BY <2>1
  <2>3. g[k] = h[k]
    BY <2>2
  <2> QED
    BY <2>1, <2>2, <2>3 DEF ClimbRounds
<1> HIDE DEF A
<1>3. A = Nat
  BY <1>1, <1>2, Induction DEF A
<1> QED
  BY <1>3 DEF A

LEMMA ClimbFollows ==
  ASSUME NEW node, NEW index, NEW width, NEW path
  PROVE  /\ climbing(node, index, width, path)[0] = ClimbFrom(node, index, width)
         /\ \A k \in Nat \ {0} : climbing(node, index, width, path)[k] = ClimbOn(climbing(node, index, width, path)[k - 1], path)
<1> DEFINE Is(f) == f = [k \in Nat |-> IF k = 0 THEN ClimbFrom(node, index, width) ELSE ClimbOn(f[k - 1], path)]
           rounds(n) == CHOOSE g : ClimbRounds(node, index, width, path, n, g)
           f == [n \in Nat |-> rounds(n)[n]]
<1>1. \A n \in Nat : ClimbRounds(node, index, width, path, n, rounds(n))
  BY ClimbRoundsExist
<1>2. f[0] = ClimbFrom(node, index, width)
  BY <1>1 DEF ClimbRounds
<1>3. ASSUME NEW k \in Nat, k # 0 PROVE f[k] = ClimbOn(f[k - 1], path)
  <2>1. k - 1 \in Nat /\ k - 1 <= k /\ k \in 1 .. k
    BY <1>3
  <2>2. ClimbRounds(node, index, width, path, k, rounds(k)) /\ ClimbRounds(node, index, width, path, k - 1, rounds(k - 1))
    BY <1>1, <2>1
  <2> DEFINE g == rounds(k)
  <2> HIDE DEF rounds
  <2>3. g[k] = ClimbOn(g[k - 1], path)
    BY <2>1, <2>2 DEF ClimbRounds
  <2>4. rounds(k - 1)[k - 1] = g[k - 1]
    BY <2>1, <2>2, ClimbRoundsAgree
  <2>5. f[k] = g[k] /\ f[k - 1] = g[k - 1]
    BY <2>1, <2>4
  <2> HIDE DEF f, g
  <2> QED
    BY <2>3, <2>5
<1>4. Is(f)
  <2> HIDE DEF rounds
  <2>1. \A k \in Nat : f[k] = IF k = 0 THEN ClimbFrom(node, index, width) ELSE ClimbOn(f[k - 1], path)
    BY <1>2, <1>3
  <2>2. f = [n \in Nat |-> f[n]]
    OBVIOUS
  <2> HIDE DEF f
  <2> QED
    BY <2>1, <2>2
<1>5. climbing(node, index, width, path) = CHOOSE g : Is(g)
  BY DEF climbing, ClimbFrom, ClimbOn
<1> HIDE DEF f
<1>6. Is(climbing(node, index, width, path))
  <2> HIDE DEF Is
  <2> QED
    BY <1>4, <1>5
<1> QED
  BY <1>6

(* The first n links of a chain. *)
ChainRounds(ordered, n, g) ==
  g[0] = EmptyChain /\ \A k \in 1 .. n : g[k] = ChainLink(g[k - 1], ordered[k])

LEMMA ChainRoundsExist ==
  ASSUME NEW ordered, NEW n \in Nat
  PROVE  \E g : ChainRounds(ordered, n, g)
<1> DEFINE A == {m \in Nat : \E g : ChainRounds(ordered, m, g)}
<1>1. 0 \in A
  <2>1. ChainRounds(ordered, 0, [k \in {0} |-> EmptyChain])
    BY DEF ChainRounds
  <2> QED
    BY <2>1
<1>2. ASSUME NEW m \in A PROVE m + 1 \in A
  <2>1. m \in Nat /\ m + 1 \in Nat /\ (m + 1) - 1 = m
    OBVIOUS
  <2>2. PICK g : ChainRounds(ordered, m, g)
    OBVIOUS
  <2> DEFINE k == m + 1
             h == [i \in Nat |-> IF i = k THEN ChainLink(g[k - 1], ordered[k]) ELSE g[i]]
  <2>3. h[0] = g[0] /\ \A i \in 1 .. m : h[i] = g[i] /\ h[i - 1] = g[i - 1]
    BY <2>1
  <2>4. h[k] = ChainLink(g[k - 1], ordered[k]) /\ h[k - 1] = g[k - 1]
    BY <2>1
  <2>5. \A i \in 1 .. m + 1 : i \in 1 .. m \/ i = k
    BY <2>1
  <2> HIDE DEF h, k
  <2>6. ChainRounds(ordered, m + 1, h)
    BY <2>2, <2>3, <2>4, <2>5 DEF ChainRounds
  <2> QED
    BY <2>1, <2>6
<1> HIDE DEF A
<1>3. A = Nat
  BY <1>1, <1>2, Induction DEF A
<1> QED
  BY <1>3 DEF A

LEMMA ChainRoundsAgree ==
  ASSUME NEW ordered, NEW m \in Nat, NEW n \in Nat, m <= n, NEW g, NEW h,
         ChainRounds(ordered, m, g), ChainRounds(ordered, n, h)
  PROVE  g[m] = h[m]
<1> DEFINE A == {k \in Nat : k <= m => g[k] = h[k]}
<1>1. 0 \in A
  BY DEF ChainRounds
<1>2. ASSUME NEW k \in A PROVE k + 1 \in A
  <2>1. k \in Nat /\ k + 1 \in Nat /\ (k + 1) - 1 = k
    OBVIOUS
  <2> SUFFICES ASSUME k + 1 <= m PROVE g[k + 1] = h[k + 1]
    BY <2>1
  <2>2. k + 1 \in 1 .. m /\ k + 1 \in 1 .. n /\ k <= m
    BY <2>1
  <2>3. g[k] = h[k]
    BY <2>2
  <2> QED
    BY <2>1, <2>2, <2>3 DEF ChainRounds
<1> HIDE DEF A
<1>3. A = Nat
  BY <1>1, <1>2, Induction DEF A
<1> QED
  BY <1>3 DEF A

LEMMA ChainFollows ==
  ASSUME NEW ordered
  PROVE  /\ chainHeads(ordered)[0] = EmptyChain
         /\ \A k \in Nat \ {0} : chainHeads(ordered)[k] = ChainLink(chainHeads(ordered)[k - 1], ordered[k])
<1> DEFINE Is(f) == f = [k \in Nat |-> IF k = 0 THEN EmptyChain ELSE ChainLink(f[k - 1], ordered[k])]
           rounds(n) == CHOOSE g : ChainRounds(ordered, n, g)
           f == [n \in Nat |-> rounds(n)[n]]
<1>1. \A n \in Nat : ChainRounds(ordered, n, rounds(n))
  BY ChainRoundsExist
<1>2. f[0] = EmptyChain
  BY <1>1 DEF ChainRounds
<1>3. ASSUME NEW k \in Nat, k # 0 PROVE f[k] = ChainLink(f[k - 1], ordered[k])
  <2>1. k - 1 \in Nat /\ k - 1 <= k /\ k \in 1 .. k
    BY <1>3
  <2>2. ChainRounds(ordered, k, rounds(k)) /\ ChainRounds(ordered, k - 1, rounds(k - 1))
    BY <1>1, <2>1
  <2> DEFINE g == rounds(k)
  <2> HIDE DEF rounds
  <2>3. g[k] = ChainLink(g[k - 1], ordered[k])
    BY <2>1, <2>2 DEF ChainRounds
  <2>4. rounds(k - 1)[k - 1] = g[k - 1]
    BY <2>1, <2>2, ChainRoundsAgree
  <2>5. f[k] = g[k] /\ f[k - 1] = g[k - 1]
    BY <2>1, <2>4
  <2> HIDE DEF f, g
  <2> QED
    BY <2>3, <2>5
<1>4. Is(f)
  <2> HIDE DEF rounds
  <2>1. \A k \in Nat : f[k] = IF k = 0 THEN EmptyChain ELSE ChainLink(f[k - 1], ordered[k])
    BY <1>2, <1>3
  <2>2. f = [n \in Nat |-> f[n]]
    OBVIOUS
  <2> HIDE DEF f
  <2> QED
    BY <2>1, <2>2
<1>5. chainHeads(ordered) = CHOOSE g : Is(g)
  BY DEF chainHeads
<1> HIDE DEF f
<1>6. Is(chainHeads(ordered))
  <2> HIDE DEF Is
  <2> QED
    BY <1>4, <1>5
<1> QED
  BY <1>6

-----------------------------------------------------------------------------
(* The levels of a tree.                                                   *)

IsList(s) == \E S : s \in Seq(S)

LEMMA ListFacts ==
  ASSUME NEW s, IsList(s)
  PROVE  Len(s) \in Nat /\ DOMAIN s = 1 .. Len(s)
<1>1. PICK S : s \in Seq(S)
  BY DEF IsList
<1> QED
  BY <1>1, LenProperties

LEMMA FunctionIsList ==
  ASSUME NEW n \in Nat, NEW s, s = [i \in 1 .. n |-> s[i]]
  PROVE  IsList(s) /\ Len(s) = n
<1> DEFINE S == {s[i] : i \in 1 .. n}
<1>1. s \in [1 .. n -> S]
  OBVIOUS
<1>2. s \in Seq(S)
  BY <1>1, IsASeq
<1>3. Len(s) = n
  BY <1>1, <1>2, LenProperties
<1> QED
  BY <1>2, <1>3 DEF IsList

LEMMA HalfFacts ==
  ASSUME NEW n \in Nat
  PROVE  /\ Half(n) \in Nat
         /\ n > 1 => Half(n) >= 1 /\ Half(n) < n
         /\ n = 1 => Half(n) = 1
         /\ \A i \in 1 .. Half(n) : 2 * i - 1 \in 1 .. n
BY DEF Half

LEMMA NextLevel ==
  ASSUME NEW s, IsList(s)
  PROVE  /\ IsList(nextMerkleLevel(s)) /\ Len(nextMerkleLevel(s)) = Half(Len(s))
         /\ \A i \in 1 .. Half(Len(s)) :
              nextMerkleLevel(s)[i] = IF 2 * i > Len(s) THEN s[2 * i - 1]
                                      ELSE Node(s[2 * i - 1], s[2 * i])
<1> DEFINE t == nextMerkleLevel(s)
           n == Half(Len(s))
<1>1. n \in Nat
  BY ListFacts, HalfFacts
<1>2. t = [i \in 1 .. n |-> IF 2 * i > Len(s) THEN s[2 * i - 1] ELSE Node(s[2 * i - 1], s[2 * i])]
  BY DEF nextMerkleLevel
<1>3. \A i \in 1 .. n : t[i] = IF 2 * i > Len(s) THEN s[2 * i - 1] ELSE Node(s[2 * i - 1], s[2 * i])
  BY <1>2
<1>4. t = [i \in 1 .. n |-> t[i]]
  BY <1>2
<1> HIDE DEF t, n
<1>5. IsList(t) /\ Len(t) = n
  BY <1>1, <1>4, FunctionIsList
<1> QED
  BY <1>3, <1>5 DEF t, n

(* What a level holds, and how long it is.                                 *)
LEMMA LevelFacts ==
  ASSUME NEW s, IsList(s), s # <<>>, NEW k \in Nat
  PROVE  /\ IsList(merkleLevels(s)[k]) /\ Len(merkleLevels(s)[k]) >= 1
         /\ Len(merkleLevels(s)[k]) <= 1 \/ Len(merkleLevels(s)[k]) + k <= Len(s)
<1> DEFINE w(i) == merkleLevels(s)[i]
           Fits(i) == IsList(w(i)) /\ Len(w(i)) >= 1 /\ (Len(w(i)) <= 1 \/ Len(w(i)) + i <= Len(s))
           A == {i \in Nat : Fits(i)}
<1>1. Fits(0)
  <2>1. w(0) = s /\ Len(s) \in Nat
    BY LevelsFollow, ListFacts
  <2>2. Len(s) # 0
    <3>1. PICK S : s \in Seq(S)
      BY DEF IsList
    <3> QED
      BY <3>1, EmptySeq
  <2> QED
    BY <2>1, <2>2
<1>2. ASSUME NEW i \in Nat, Fits(i) PROVE Fits(i + 1)
  <2>1. w(i + 1) = nextMerkleLevel(w(i))
    BY LevelsFollow
  <2>2. IsList(w(i + 1)) /\ Len(w(i + 1)) = Half(Len(w(i)))
    BY <1>2, <2>1, NextLevel
  <2>3. Len(w(i)) \in Nat /\ Len(s) \in Nat
    BY <1>2, ListFacts
  <2>4. /\ Len(w(i)) > 1 => Half(Len(w(i))) >= 1 /\ Half(Len(w(i))) < Len(w(i))
        /\ Len(w(i)) = 1 => Half(Len(w(i))) = 1
        /\ Half(Len(w(i))) \in Nat
    BY <2>3, HalfFacts
  <2> DEFINE a == Len(w(i))
             b == Len(w(i + 1))
             n == Len(s)
  <2>5. a \in Nat /\ n \in Nat /\ b \in Nat /\ a >= 1 /\ (a <= 1 \/ a + i <= n)
    BY <1>2, <2>2, <2>3, <2>4
  <2>6. (a > 1 => b >= 1 /\ b < a) /\ (a = 1 => b = 1)
    BY <2>2, <2>4
  <2> HIDE DEF a, b, n
  <2>7. b >= 1 /\ (b <= 1 \/ b + (i + 1) <= n)
    BY <2>5, <2>6
  <2> QED
    BY <2>2, <2>7 DEF a, b, n
<1> HIDE DEF Fits
<1>4. A \in SUBSET Nat /\ 0 \in A /\ \A i \in A : i + 1 \in A
  BY <1>1, <1>2
<1> HIDE DEF A
<1>3. A = Nat
  BY <1>4, Induction
<1> USE DEF A
<1> QED
  BY <1>3 DEF Fits

LEMMA TopLevel ==
  ASSUME NEW s, IsList(s), s # <<>>
  PROVE  Len(merkleLevels(s)[Len(s)]) = 1 /\ Len(s) >= 1 /\ Len(s) \in Nat
<1>1. Len(s) \in Nat
  BY ListFacts
<1>2. merkleLevels(s)[0] = s /\ Len(merkleLevels(s)[0]) >= 1
  BY LevelsFollow, LevelFacts
<1>3. IsList(merkleLevels(s)[Len(s)]) /\ Len(merkleLevels(s)[Len(s)]) \in Nat
  BY <1>1, LevelFacts, ListFacts
<1>4. \/ Len(merkleLevels(s)[Len(s)]) <= 1
      \/ Len(merkleLevels(s)[Len(s)]) + Len(s) <= Len(s)
  BY <1>1, LevelFacts
<1>5. Len(merkleLevels(s)[Len(s)]) >= 1
  BY <1>1, LevelFacts
<1> DEFINE n == Len(s)
           top == Len(merkleLevels(s)[n])
<1>6. n \in Nat /\ top \in Nat /\ n >= 1 /\ top >= 1 /\ (top <= 1 \/ top + n <= n)
  BY <1>1, <1>2, <1>3, <1>4, <1>5
<1> HIDE DEF n, top
<1>7. top = 1
  BY <1>6
<1> QED
  BY <1>6, <1>7 DEF n, top

LEMMA LevelNodes ==
  ASSUME NEW s, IsList(s), s # <<>>, NEW k \in Nat, NEW i \in DOMAIN merkleLevels(s)[k + 1]
  PROVE  LET below == merkleLevels(s)[k] IN
         /\ i \in Nat /\ i >= 1 /\ 2 * i - 1 \in DOMAIN below
         /\ Len(merkleLevels(s)[k + 1]) = Half(Len(below))
         /\ \/ merkleLevels(s)[k + 1][i] = below[2 * i - 1] /\ 2 * i > Len(below)
            \/ /\ 2 * i \in DOMAIN below
               /\ merkleLevels(s)[k + 1][i] = Node(below[2 * i - 1], below[2 * i])
<1> DEFINE below == merkleLevels(s)[k]
           above == merkleLevels(s)[k + 1]
<1>1. IsList(below) /\ above = nextMerkleLevel(below)
  BY LevelsFollow, LevelFacts
<1> HIDE DEF below, above
<1>2. /\ IsList(above) /\ Len(above) = Half(Len(below))
      /\ \A j \in 1 .. Half(Len(below)) :
           above[j] = IF 2 * j > Len(below) THEN below[2 * j - 1]
                      ELSE Node(below[2 * j - 1], below[2 * j])
  BY <1>1, NextLevel
<1>3. Len(below) \in Nat /\ DOMAIN below = 1 .. Len(below) /\ DOMAIN above = 1 .. Half(Len(below))
  BY <1>1, <1>2, ListFacts
<1>4. i \in 1 .. Half(Len(below)) /\ 2 * i - 1 \in 1 .. Len(below) /\ Half(Len(below)) \in Nat
  BY <1>3, HalfFacts DEF above
<1>5. i \in Nat /\ i >= 1
  BY <1>4
<1>6. CASE 2 * i > Len(below)
  BY <1>2, <1>3, <1>4, <1>5, <1>6 DEF above, below
<1>7. CASE ~(2 * i > Len(below))
  <2>1. 2 * i \in 1 .. Len(below)
    BY <1>3, <1>5, <1>7
  <2>2. above[i] = Node(below[2 * i - 1], below[2 * i])
    BY <1>2, <1>4, <1>7
  <2> QED
    BY <1>2, <1>3, <1>4, <1>5, <2>1, <2>2 DEF above, below
<1> QED
  BY <1>6, <1>7

-----------------------------------------------------------------------------
(* What is in a tree.                                                      *)
AllLeaves(s) == \A i \in DOMAIN s : \E r, h : s[i] = Leaf(r, h)

InTree(x, s) == \E k \in Nat : \E i \in DOMAIN merkleLevels(s)[k] : merkleLevels(s)[k][i] = x

LEMMA TermsDiffer ==
  ASSUME NEW a, NEW b, NEW c, NEW d
  PROVE  /\ Leaf(a, b) # Node(c, d) /\ Leaf(a, b) # NoNode /\ Node(a, b) # NoNode
         /\ Leaf(a, b) = Leaf(c, d) => a = c /\ b = d
         /\ Node(a, b) = Node(c, d) => a = c /\ b = d
<1>1. DOMAIN Leaf(a, b) = {"leaf"} /\ DOMAIN Node(a, b) = {"node"} /\ DOMAIN NoNode = {"nothing"}
  BY DEF Leaf, Node, NoNode
<1>2. DOMAIN Node(c, d) = {"node"}
  BY DEF Node
<1>3. Leaf(a, b).leaf = <<a, b>> /\ Leaf(c, d).leaf = <<c, d>>
      /\ Node(a, b).node = <<a, b>> /\ Node(c, d).node = <<c, d>>
  BY DEF Leaf, Node
<1>4. Leaf(a, b) # Node(c, d) /\ Leaf(a, b) # NoNode /\ Node(a, b) # NoNode
  BY <1>1, <1>2
<1> QED
  BY <1>3, <1>4

(* A term of the tree is a leaf of it, or was hashed from two others of    *)
(* it.                                                                     *)
LEMMA TreeTerms ==
  ASSUME NEW s, IsList(s), s # <<>>, NEW x, InTree(x, s)
  PROVE  \/ \E i \in DOMAIN s : s[i] = x
         \/ \E a, b : x = Node(a, b) /\ InTree(a, s) /\ InTree(b, s)
<1> DEFINE D == {k \in Nat : \E i \in DOMAIN merkleLevels(s)[k] : merkleLevels(s)[k][i] = x}
<1>1. D \in SUBSET Nat /\ D # {}
  BY DEF InTree
<1>2. PICK k \in D : \A y \in D : k <= y
  BY <1>1, LeastOf
<1>3. k \in Nat
  OBVIOUS
<1>4. PICK i \in DOMAIN merkleLevels(s)[k] : merkleLevels(s)[k][i] = x
  OBVIOUS
<1>5. CASE k = 0
  <2>1. merkleLevels(s)[0] = s
    BY LevelsFollow
  <2> QED
    BY <1>4, <1>5, <2>1
<1>6. CASE k # 0
  <2>1. k - 1 \in Nat /\ (k - 1) + 1 = k /\ ~(k <= k - 1)
    BY <1>3, <1>6
  <2> DEFINE j == k - 1
             below == merkleLevels(s)[j]
  <2>7. j \in Nat /\ i \in DOMAIN merkleLevels(s)[j + 1] /\ k = j + 1
    BY <2>1
  <2> HIDE DEF j
  <2>2. /\ 2 * i - 1 \in DOMAIN below
        /\ \/ merkleLevels(s)[k][i] = below[2 * i - 1]
           \/ 2 * i \in DOMAIN below /\ merkleLevels(s)[k][i] = Node(below[2 * i - 1], below[2 * i])
    BY <2>7, LevelNodes
  <2>3. j \notin D
    BY <1>2, <2>1 DEF j
  <2>4. ~ \E q \in DOMAIN below : below[q] = x
    BY <2>7, <2>3
  <2>5. 2 * i \in DOMAIN below /\ x = Node(below[2 * i - 1], below[2 * i])
    BY <1>4, <2>2, <2>4
  <2>6. InTree(below[2 * i - 1], s) /\ InTree(below[2 * i], s)
    BY <2>7, <2>2, <2>5 DEF InTree
  <2> QED
    BY <2>5, <2>6
<1> QED
  BY <1>5, <1>6

LEMMA TreeLeaves ==
  ASSUME NEW s, IsList(s), s # <<>>, AllLeaves(s)
  PROVE  /\ \A r, h : InTree(Leaf(r, h), s) => \E i \in DOMAIN s : s[i] = Leaf(r, h)
         /\ \A a, b : InTree(Node(a, b), s) => InTree(a, s) /\ InTree(b, s)
         /\ ~InTree(NoNode, s)
<1>1. ASSUME NEW r, NEW h, InTree(Leaf(r, h), s) PROVE \E i \in DOMAIN s : s[i] = Leaf(r, h)
  BY <1>1, TreeTerms, TermsDiffer
<1>2. ASSUME NEW a, NEW b, InTree(Node(a, b), s) PROVE InTree(a, s) /\ InTree(b, s)
  <2>1. ~ \E i \in DOMAIN s : s[i] = Node(a, b)
    BY TermsDiffer DEF AllLeaves
  <2>2. PICK c, d : Node(a, b) = Node(c, d) /\ InTree(c, s) /\ InTree(d, s)
    BY <1>2, <2>1, TreeTerms
  <2> QED
    BY <2>2, TermsDiffer
<1>3. ~InTree(NoNode, s)
  <2> SUFFICES ASSUME InTree(NoNode, s) PROVE FALSE
    OBVIOUS
  <2>1. ~ \E i \in DOMAIN s : s[i] = NoNode
    BY TermsDiffer DEF AllLeaves
  <2> QED
    BY <2>1, TreeTerms, TermsDiffer
<1> QED
  BY <1>1, <1>2, <1>3

LEMMA RootInTree ==
  ASSUME NEW s, IsList(s), s # <<>>
  PROVE  InTree(computeMerkleRoot(s), s)
<1>1. Len(s) \in Nat /\ Len(merkleLevels(s)[Len(s)]) = 1 /\ IsList(merkleLevels(s)[Len(s)])
  BY TopLevel, LevelFacts
<1>2. 1 \in DOMAIN merkleLevels(s)[Len(s)]
  BY <1>1, ListFacts
<1> QED
  BY <1>1, <1>2 DEF InTree, computeMerkleRoot

-----------------------------------------------------------------------------
(* What a verified inclusion proof shows.                                  *)

IsClimber(b) == b.index \in Nat /\ b.width \in Nat /\ b.used \in Nat

LEMMA ClimbOneIs ==
  ASSUME NEW b, IsClimber(b), NEW path
  PROVE  /\ climbOne(b, path).index = b.index \div 2 /\ climbOne(b, path).width = Half(b.width)
         /\ \/ /\ b.index % 2 = 1 /\ climbOne(b, path).used = b.used + 1
               /\ climbOne(b, path).node =
                    IF b.used + 1 \in DOMAIN path /\ path[b.used + 1].position = "left"
                    THEN Node(path[b.used + 1].hash, b.node) ELSE NoNode
            \/ /\ b.index % 2 = 0 /\ b.index + 1 < b.width
               /\ climbOne(b, path).used = b.used + 1
               /\ climbOne(b, path).node =
                    IF b.used + 1 \in DOMAIN path /\ path[b.used + 1].position = "right"
                    THEN Node(b.node, path[b.used + 1].hash) ELSE NoNode
            \/ /\ b.index % 2 = 0 /\ b.index + 1 >= b.width
               /\ climbOne(b, path).used = b.used /\ climbOne(b, path).node = b.node
<1> DEFINE next == b.used + 1
           hasLeft == b.index % 2 = 1
           hasRight == ~hasLeft /\ b.index + 1 < b.width
           up(node, used) == [node |-> node, index |-> b.index \div 2, width |-> Half(b.width),
                              used |-> used]
           left == IF next \in DOMAIN path /\ path[next].position = "left"
                   THEN Node(path[next].hash, b.node) ELSE NoNode
           right == IF next \in DOMAIN path /\ path[next].position = "right"
                    THEN Node(b.node, path[next].hash) ELSE NoNode
<1>1. b.index \in Nat /\ b.width \in Nat /\ b.used \in Nat
  BY DEF IsClimber
<1>2. climbOne(b, path) = CASE hasLeft -> up(left, next) [] hasRight -> up(right, next)
                            [] ~hasLeft /\ ~hasRight -> up(b.node, b.used)
  BY DEF climbOne
<1>3. b.index % 2 = 1 \/ b.index % 2 = 0
  BY <1>1
<1>4. CASE hasLeft
  <2>1. climbOne(b, path) = up(left, next)
    BY <1>2, <1>4
  <2>2. /\ up(left, next).index = b.index \div 2 /\ up(left, next).width = Half(b.width)
        /\ up(left, next).used = next /\ up(left, next).node = left
    OBVIOUS
  <2> QED
    BY <1>4, <2>1, <2>2
<1>5. CASE ~hasLeft /\ b.index + 1 < b.width
  <2>1. climbOne(b, path) = up(right, next)
    BY <1>2, <1>5
  <2>2. /\ up(right, next).index = b.index \div 2 /\ up(right, next).width = Half(b.width)
        /\ up(right, next).used = next /\ up(right, next).node = right
    OBVIOUS
  <2> QED
    BY <1>3, <1>5, <2>1, <2>2
<1>6. CASE ~hasLeft /\ ~(b.index + 1 < b.width)
  <2>1. climbOne(b, path) = up(b.node, b.used)
    BY <1>2, <1>6
  <2>2. /\ up(b.node, b.used).index = b.index \div 2 /\ up(b.node, b.used).width = Half(b.width)
        /\ up(b.node, b.used).used = b.used /\ up(b.node, b.used).node = b.node
    OBVIOUS
  <2>3. b.index + 1 >= b.width
    BY <1>1, <1>6
  <2> QED
    BY <1>3, <1>6, <2>1, <2>2, <2>3
<1> QED
  BY <1>4, <1>5, <1>6

LEMMA ClimbStarts ==
  ASSUME NEW node, NEW index, NEW width, NEW path
  PROVE  /\ climbing(node, index, width, path)[0].node = node
         /\ climbing(node, index, width, path)[0].index = index
         /\ climbing(node, index, width, path)[0].width = width
         /\ climbing(node, index, width, path)[0].used = 0
<1>1. climbing(node, index, width, path)[0] = ClimbFrom(node, index, width)
  BY ClimbFollows
<1> QED
  BY <1>1 DEF ClimbFrom

LEMMA ClimbTyped ==
  ASSUME NEW node, NEW index \in Nat, NEW width \in Nat, NEW path, NEW k \in Nat
  PROVE  IsClimber(climbing(node, index, width, path)[k])
<1> DEFINE c(i) == climbing(node, index, width, path)[i]
           A == {i \in Nat : IsClimber(c(i))}
<1>1. 0 \in A
  BY ClimbStarts DEF IsClimber
<1>2. ASSUME NEW i \in Nat, IsClimber(c(i)) PROVE IsClimber(c(i + 1))
  <2>1. i + 1 \in Nat \ {0} /\ (i + 1) - 1 = i
    OBVIOUS
  <2>2. c(i + 1) = ClimbOn(c(i), path)
    BY <2>1, ClimbFollows
  <2> DEFINE b == c(i)
  <2> HIDE DEF b
  <2>3. IsClimber(b)
    BY <1>2 DEF b
  <2>4. IsClimber(climbOne(b, path))
    <3>1. b.index \div 2 \in Nat /\ Half(b.width) \in Nat /\ b.used + 1 \in Nat /\ b.used \in Nat
      BY <2>3, HalfFacts DEF IsClimber
    <3> QED
      BY <2>3, <3>1, ClimbOneIs DEF IsClimber
  <2> QED
    BY <2>2, <2>3, <2>4 DEF b, ClimbOn
<1>3. A \in SUBSET Nat /\ \A i \in A : i + 1 \in A
  BY <1>2
<1> HIDE DEF A
<1>4. A = Nat
  BY <1>1, <1>3, Induction
<1> QED
  BY <1>4 DEF A

(* Each round hashes the node into a term, or gives up.                    *)
LEMMA ClimbStep ==
  ASSUME NEW node, NEW index \in Nat, NEW width \in Nat, NEW path, NEW k \in Nat
  PROVE  LET b == climbing(node, index, width, path)[k]
             c == climbing(node, index, width, path)[k + 1]
         IN  /\ IsClimber(b) /\ c = ClimbOn(b, path)
             /\ \/ c.node = b.node \/ c.node = NoNode
                \/ \E x : c.node = Node(x, b.node) \/ c.node = Node(b.node, x)
<1> DEFINE b == climbing(node, index, width, path)[k]
           c == climbing(node, index, width, path)[k + 1]
<1>1. k + 1 \in Nat \ {0} /\ (k + 1) - 1 = k
  OBVIOUS
<1>2. c = ClimbOn(b, path)
  BY <1>1, ClimbFollows
<1>3. IsClimber(b)
  BY ClimbTyped
<1> HIDE DEF b, c
<1>4. CASE c = b
  BY <1>2, <1>3, <1>4 DEF b, c
<1>5. CASE c = climbOne(b, path)
  <2>1. \/ c.node = b.node \/ c.node = NoNode
        \/ \E x : c.node = Node(x, b.node) \/ c.node = Node(b.node, x)
    BY <1>3, <1>5, ClimbOneIs
  <2> QED
    BY <1>2, <1>3, <2>1 DEF b, c
<1> QED
  BY <1>2, <1>4, <1>5 DEF ClimbOn

(* A leaf from which a climb reaches the root is a leaf of the tree,       *)
(* whatever index, width and siblings a proof claims.                      *)
THEOREM VerifiedLeafIsInTree ==
  ASSUME NEW s, IsList(s), s # <<>>, AllLeaves(s),
         NEW r, NEW h, NEW index \in Nat, NEW width \in Nat, NEW path,
         climb(Leaf(r, h), index, width, path) = computeMerkleRoot(s)
  PROVE  \E i \in DOMAIN s : s[i] = Leaf(r, h)
<1> DEFINE c(k) == climbing(Leaf(r, h), index, width, path)[k]
           A == {k \in Nat : InTree(c(k).node, s) => InTree(Leaf(r, h), s)}
<1>1. 0 \in A
  BY ClimbStarts
<1>2. ASSUME NEW k \in Nat, InTree(c(k).node, s) => InTree(Leaf(r, h), s)
      PROVE  InTree(c(k + 1).node, s) => InTree(Leaf(r, h), s)
  <2>1. \/ c(k + 1).node = c(k).node \/ c(k + 1).node = NoNode
        \/ \E x : c(k + 1).node = Node(x, c(k).node) \/ c(k + 1).node = Node(c(k).node, x)
    BY ClimbStep
  <2> HIDE DEF c
  <2>2. InTree(c(k + 1).node, s) => InTree(c(k).node, s)
    BY <2>1, TreeLeaves
  <2> QED
    BY <1>2, <2>2
<1>3. A \in SUBSET Nat /\ \A k \in A : k + 1 \in A
  BY <1>2
<1> HIDE DEF A
<1>4. A = Nat
  BY <1>1, <1>3, Induction
<1>5. InTree(computeMerkleRoot(s), s) /\ computeMerkleRoot(s) # NoNode
  BY RootInTree, TreeLeaves
<1>6. c(width).node = computeMerkleRoot(s)
  BY <1>5 DEF climb
<1>7. InTree(Leaf(r, h), s)
  BY <1>4, <1>5, <1>6 DEF A
<1> QED
  BY <1>7, TreeLeaves

(* A climb of the tree's own width stays on its levels on the way up.      *)
LEMMA ClimbKeepsWidth ==
  ASSUME NEW s, IsList(s), s # <<>>, NEW node, NEW path,
         NEW index \in Nat, index < Len(s), NEW k \in Nat,
         climbing(node, index, Len(s), path)[k].node # NoNode
  PROVE  /\ climbing(node, index, Len(s), path)[k].width = Len(merkleLevels(s)[k])
         /\ climbing(node, index, Len(s), path)[k].index < Len(merkleLevels(s)[k])
<1> DEFINE c(i) == climbing(node, index, Len(s), path)[i]
           w(i) == Len(merkleLevels(s)[i])
           Keeps(i) == c(i).node # NoNode => c(i).width = w(i) /\ c(i).index < w(i)
           A == {i \in Nat : Keeps(i)}
<1>1. Keeps(0)
  <2>1. c(0).width = Len(s) /\ c(0).index = index /\ merkleLevels(s)[0] = s
    BY ClimbStarts, LevelsFollow
  <2> QED
    BY <2>1
<1>2. ASSUME NEW i \in Nat, Keeps(i), c(i + 1).node # NoNode
      PROVE  c(i + 1).width = w(i + 1) /\ c(i + 1).index < w(i + 1)
  <2>1. IsClimber(c(i)) /\ c(i + 1) = ClimbOn(c(i), path)
    BY ClimbStep, ListFacts
  <2>2. w(i) \in Nat /\ w(i) >= 1 /\ w(i + 1) = Half(w(i))
    BY LevelsFollow, LevelFacts, NextLevel, ListFacts
  <2> HIDE DEF c, w
  <2>3. c(i).node # NoNode
    BY <1>2, <2>1 DEF ClimbOn
  <2>4. c(i).width = w(i) /\ c(i).index < w(i) /\ c(i).index \in Nat
    BY <1>2, <2>1, <2>3 DEF IsClimber
  <2>5. CASE w(i) <= 1
    <3>1. c(i + 1) = c(i) /\ w(i) = 1 /\ w(i + 1) = 1
      BY <2>1, <2>2, <2>4, <2>5, HalfFacts DEF ClimbOn
    <3> QED
      BY <2>4, <3>1
  <2>6. CASE w(i) > 1
    <3>1. c(i + 1) = climbOne(c(i), path)
      BY <2>1, <2>2, <2>3, <2>4, <2>6 DEF ClimbOn
    <3>2. c(i + 1).index = c(i).index \div 2 /\ c(i + 1).width = Half(w(i))
      BY <2>1, <2>4, <3>1, ClimbOneIs
    <3>3. c(i).index \div 2 < Half(w(i))
      BY <2>2, <2>4 DEF Half
    <3> QED
      BY <2>2, <3>2, <3>3
  <2> QED
    BY <2>2, <2>5, <2>6
<1>3. A \in SUBSET Nat /\ 0 \in A /\ \A i \in A : i + 1 \in A
  BY <1>1, <1>2
<1> HIDE DEF A
<1>4. A = Nat
  BY <1>3, Induction
<1> QED
  BY <1>4 DEF A

AtItsPlace(c, level) == c.node # NoNode /\ c.node = level[c.index + 1]

LEMMA NodeIsOne ==
  ASSUME NEW a, NEW b, NEW c, NEW d, Node(a, b) = Node(c, d)
  PROVE  a = c /\ b = d
BY TermsDiffer

(* One round down: what a node was hashed from is at its place too.        *)
LEMMA ClimbBack ==
  ASSUME NEW s, IsList(s), s # <<>>, AllLeaves(s), NEW node, NEW path,
         NEW index \in Nat, index < Len(s), NEW k \in Nat,
         AtItsPlace(climbing(node, index, Len(s), path)[k + 1], merkleLevels(s)[k + 1])
  PROVE  AtItsPlace(climbing(node, index, Len(s), path)[k], merkleLevels(s)[k])
<1> DEFINE b == climbing(node, index, Len(s), path)[k]
           c == climbing(node, index, Len(s), path)[k + 1]
           below == merkleLevels(s)[k]
           above == merkleLevels(s)[k + 1]
<1>1. IsClimber(b) /\ c = ClimbOn(b, path) /\ Len(s) \in Nat
  BY ClimbStep, ListFacts
<1>2. c.node # NoNode /\ c.node = above[c.index + 1]
  BY DEF AtItsPlace
<1>3. b.node # NoNode
  BY <1>1, <1>2 DEF ClimbOn
<1>4. b.width = Len(below) /\ b.index < Len(below)
  BY <1>3, ClimbKeepsWidth
<1>11. k + 1 \in Nat
  OBVIOUS
<1>5. c.index < Len(above)
  BY <1>2, <1>11, ClimbKeepsWidth
<1>12. IsList(below) /\ Len(below) >= 1 /\ above = nextMerkleLevel(below)
  BY LevelsFollow, LevelFacts
<1>6. /\ IsList(below) /\ IsList(above) /\ above = nextMerkleLevel(below)
      /\ Len(below) >= 1 /\ Len(below) \in Nat /\ Len(above) \in Nat
      /\ DOMAIN above = 1 .. Len(above) /\ Len(above) = Half(Len(below))
      /\ \A i \in 1 .. Half(Len(below)) :
              above[i] = IF 2 * i > Len(below) THEN below[2 * i - 1]
                         ELSE Node(below[2 * i - 1], below[2 * i])
  <2> HIDE DEF below, above
  <2>1. Len(below) \in Nat
    BY <1>12, ListFacts
  <2>2. /\ IsList(above) /\ Len(above) = Half(Len(below))
        /\ \A i \in 1 .. Half(Len(below)) :
              above[i] = IF 2 * i > Len(below) THEN below[2 * i - 1]
                         ELSE Node(below[2 * i - 1], below[2 * i])
    BY <1>12, NextLevel
  <2>3. Len(above) \in Nat /\ DOMAIN above = 1 .. Len(above)
    BY <2>2, ListFacts
  <2> QED
    BY <1>12, <2>1, <2>2, <2>3
<1> HIDE DEF b, c, below, above
<1>7. CASE Len(below) <= 1
  <2>3. c = b
    BY <1>1, <1>4, <1>7 DEF ClimbOn
  <2>7. Len(below) \in Nat /\ Len(below) >= 1
    BY <1>6
  <2>4. Len(below) = 1
    <3> DEFINE n == Len(below)
    <3>1. n \in Nat /\ n >= 1 /\ n <= 1
      BY <1>7, <2>7
    <3> HIDE DEF n
    <3>2. n = 1
      BY <3>1
    <3> QED
      BY <3>2 DEF n
  <2>5. b.index = 0
    BY <1>1, <1>4, <2>4 DEF IsClimber
  <2>6. Half(Len(below)) = 1
    BY <2>4 DEF Half
  <2>1. c = b /\ b.index = 0 /\ Half(Len(below)) = 1 /\ Len(below) = 1
    BY <2>3, <2>4, <2>5, <2>6
  <2>2. above[1] = below[1]
    BY <1>6, <2>1
  <2> QED
    BY <1>2, <1>3, <2>1, <2>2 DEF AtItsPlace, b, below
<1>8. CASE Len(below) > 1
  <2>1. c = climbOne(b, path)
    BY <1>1, <1>3, <1>4, <1>6, <1>8 DEF ClimbOn
  <2> DEFINE i == b.index
             n == Len(below)
             j == i \div 2 + 1
  <2>2. i \in Nat /\ n \in Nat /\ i < n /\ c.index = i \div 2
    BY <1>1, <1>4, <1>6, <2>1, ClimbOneIs DEF IsClimber
  <2>3. j \in 1 .. Half(n) /\ c.node = above[j]
    BY <1>2, <1>5, <1>6, <2>2
  <2>4. /\ b.index % 2 = 1 => 2 * j = i + 1 /\ ~(2 * j > n)
        /\ b.index % 2 = 0 /\ i + 1 < n => 2 * j - 1 = i + 1 /\ ~(2 * j > n)
        /\ b.index % 2 = 0 /\ i + 1 >= n => 2 * j - 1 = i + 1 /\ 2 * j > n
    BY <2>2
  <2>5. above[j] = IF 2 * j > n THEN below[2 * j - 1] ELSE Node(below[2 * j - 1], below[2 * j])
    BY <1>6, <2>3
  <2> HIDE DEF j, n, i
  <2>6. \/ /\ b.index % 2 = 1
           /\ c.node = NoNode \/ c.node = Node(path[b.used + 1].hash, b.node)
        \/ /\ b.index % 2 = 0 /\ i + 1 < n
           /\ c.node = NoNode \/ c.node = Node(b.node, path[b.used + 1].hash)
        \/ b.index % 2 = 0 /\ i + 1 >= n /\ c.node = b.node
    BY <1>1, <1>4, <2>1, ClimbOneIs DEF i, n
  <2>7. CASE b.index % 2 = 1
    <3>1. c.node = Node(path[b.used + 1].hash, b.node)
      BY <1>2, <2>6, <2>7
    <3>2. c.node = Node(below[2 * j - 1], below[i + 1])
      BY <2>3, <2>4, <2>5, <2>7
    <3>3. b.node = below[i + 1]
      <4>1. Node(path[b.used + 1].hash, b.node) = Node(below[2 * j - 1], below[i + 1])
        BY <3>1, <3>2
      <4> QED
        BY <4>1, NodeIsOne
    <3> QED
      BY <1>3, <3>3 DEF AtItsPlace, b, below, i
  <2>8. CASE b.index % 2 = 0 /\ i + 1 < n
    <3>1. c.node = Node(b.node, path[b.used + 1].hash)
      BY <1>2, <2>2, <2>6, <2>8
    <3>2. c.node = Node(below[i + 1], below[2 * j])
      BY <2>3, <2>4, <2>5, <2>8
    <3>3. b.node = below[i + 1]
      <4>1. Node(b.node, path[b.used + 1].hash) = Node(below[i + 1], below[2 * j])
        BY <3>1, <3>2
      <4> QED
        BY <4>1, NodeIsOne
    <3> QED
      BY <1>3, <3>3 DEF AtItsPlace, b, below, i
  <2>9. CASE b.index % 2 = 0 /\ i + 1 >= n
    <3>1. c.node = b.node
      BY <2>2, <2>6, <2>9
    <3>2. c.node = below[i + 1]
      BY <2>3, <2>4, <2>5, <2>9
    <3> QED
      BY <1>3, <3>1, <3>2 DEF AtItsPlace, b, below, i
  <2> QED
    BY <2>6, <2>7, <2>8, <2>9
<1> QED
  BY <1>6, <1>7, <1>8

(* A climb of the tree's own width starts at the leaf its index names.     *)
THEOREM VerifiedLeafHasItsIndex ==
  ASSUME NEW s, IsList(s), s # <<>>, AllLeaves(s), NEW node, NEW path,
         NEW index \in Nat, index < Len(s),
         climb(node, index, Len(s), path) = computeMerkleRoot(s)
  PROVE  node = s[index + 1]
<1> DEFINE n == Len(s)
           c(k) == climbing(node, index, Len(s), path)[k]
           Placed(k) == AtItsPlace(c(k), merkleLevels(s)[k])
           A == {j \in Nat : j <= n => Placed(n - j)}
<1>1. n \in Nat /\ Len(merkleLevels(s)[n]) = 1
  BY TopLevel
<1>2. Placed(n)
  <2>1. computeMerkleRoot(s) # NoNode /\ computeMerkleRoot(s) = merkleLevels(s)[n][1]
    BY RootInTree, TreeLeaves DEF computeMerkleRoot
  <2>2. c(n).node = computeMerkleRoot(s)
    BY <2>1 DEF climb
  <2>3. c(n).index < 1 /\ c(n).index \in Nat
    BY <1>1, <2>1, <2>2, ClimbKeepsWidth, ClimbTyped DEF IsClimber
  <2>4. c(n).index + 1 = 1
    BY <2>3
  <2> QED
    BY <2>1, <2>2, <2>4 DEF AtItsPlace
<1>3. ASSUME NEW k \in Nat, Placed(k + 1) PROVE Placed(k)
  BY <1>3, ClimbBack
<1> HIDE DEF Placed, n
<1>4. 0 \in A
  <2>1. n - 0 = n
    BY <1>1
  <2> QED
    BY <1>2, <2>1
<1>5. ASSUME NEW j \in Nat, j <= n => Placed(n - j), j + 1 <= n PROVE Placed(n - (j + 1))
  <2> DEFINE k == n - (j + 1)
  <2>1. k \in Nat /\ k + 1 = n - j /\ j <= n
    BY <1>1, <1>5
  <2> QED
    BY <1>3, <1>5, <2>1
<1>6. A \in SUBSET Nat /\ \A j \in A : j + 1 \in A
  BY <1>5
<1> HIDE DEF A
<1>7. A = Nat
  BY <1>4, <1>6, Induction
<1>8. n \in A /\ n - n = 0 /\ n <= n
  BY <1>1, <1>7
<1>9. Placed(0)
  <2>1. Placed(n - n)
    BY <1>8 DEF A
  <2> QED
    BY <1>8, <2>1
<1>10. c(0).node = node /\ c(0).index = index /\ merkleLevels(s)[0] = s
  BY ClimbStarts, LevelsFollow
<1> QED
  BY <1>9, <1>10 DEF Placed, AtItsPlace

-----------------------------------------------------------------------------
(* Every leaf has a proof.                                                 *)

LEMMA ConcatList ==
  ASSUME NEW s, NEW t, IsList(s), IsList(t)
  PROVE  /\ IsList(s \o t) /\ Len(s \o t) = Len(s) + Len(t)
         /\ \A i \in 1 .. Len(s) : (s \o t)[i] = s[i]
         /\ \A i \in 1 .. Len(t) : (s \o t)[Len(s) + i] = t[i]
<1>1. PICK S : s \in Seq(S)
  BY DEF IsList
<1>2. PICK T : t \in Seq(T)
  BY DEF IsList
<1> DEFINE U == S \cup T
<1>3. s \in Seq(U) /\ t \in Seq(U)
  BY <1>1, <1>2, SeqMonotonic
<1> HIDE DEF U
<1>4. s \o t \in Seq(U) /\ Len(s \o t) = Len(s) + Len(t)
  BY <1>3, ConcatProperties
<1>5. \A i \in 1 .. Len(s) + Len(t) : (s \o t)[i] = IF i <= Len(s) THEN s[i] ELSE t[i - Len(s)]
  BY <1>3, ConcatProperties
<1> DEFINE m == Len(s)
           n == Len(t)
<1>6. m \in Nat /\ n \in Nat
  BY <1>3, LenProperties
<1>7. \A i \in 1 .. m + n : (s \o t)[i] = IF i <= m THEN s[i] ELSE t[i - m]
  BY <1>5
<1> HIDE DEF m, n
<1>8. \A i \in 1 .. m : (s \o t)[i] = s[i]
  <2> TAKE i \in 1 .. m
  <2>1. i \in 1 .. m + n /\ i <= m
    BY <1>6
  <2> QED
    BY <1>7, <2>1
<1>9. \A i \in 1 .. n : (s \o t)[m + i] = t[i]
  <2> TAKE i \in 1 .. n
  <2>1. m + i \in 1 .. m + n /\ ~(m + i <= m) /\ (m + i) - m = i
    BY <1>6
  <2> QED
    BY <1>7, <2>1
<1> QED
  BY <1>4, <1>8, <1>9 DEF IsList, m, n

StepOf(position, hash) == [position |-> position, hash |-> hash]

LEMMA SiblingIs ==
  ASSUME NEW level, NEW n \in Nat, Len(level) = n, NEW index \in Nat
  PROVE  /\ n > 1 /\ index < n /\ index % 2 = 1 =>
              siblingOf(level, index) = <<StepOf("left", level[index])>>
         /\ n > 1 /\ index % 2 = 0 /\ index + 1 < n =>
              siblingOf(level, index) = <<StepOf("right", level[index + 2])>>
         /\ n <= 1 \/ (index % 2 = 0 /\ index + 1 >= n) => siblingOf(level, index) = <<>>
         /\ siblingOf(level, index) = <<>> \/ \E x : siblingOf(level, index) = <<x>>
<1>1. CASE n > 1 /\ index < n /\ index % 2 = 1
  <2>1. index - 1 < n /\ (index - 1) + 1 = index
    BY <1>1
  <2> QED
    BY <1>1, <2>1 DEF siblingOf, StepOf
<1>2. CASE n > 1 /\ index % 2 = 0 /\ index + 1 < n
  <2>1. (index + 1) + 1 = index + 2
    OBVIOUS
  <2> QED
    BY <1>2, <2>1 DEF siblingOf, StepOf
<1>3. CASE n <= 1 \/ (index % 2 = 0 /\ index + 1 >= n)
  <2>1. ~(n > 1) \/ (~(index % 2 = 1) /\ ~(index + 1 < n))
    BY <1>3
  <2> QED
    BY <1>3, <2>1 DEF siblingOf
<1>4. siblingOf(level, index) = <<>> \/ \E x : siblingOf(level, index) = <<x>>
  BY DEF siblingOf
<1> QED
  BY <1>1, <1>2, <1>3, <1>4

LEMMA SiblingList ==
  ASSUME NEW level, Len(level) \in Nat, NEW index \in Nat
  PROVE  /\ IsList(siblingOf(level, index)) /\ Len(siblingOf(level, index)) <= 1
         /\ Len(siblingOf(level, index)) \in Nat
<1>1. CASE siblingOf(level, index) = <<>>
  <2>1. <<>> \in Seq({}) /\ Len(<<>>) = 0
    BY EmptySeq
  <2> QED
    BY <1>1, <2>1 DEF IsList
<1>2. CASE \E x : siblingOf(level, index) = <<x>>
  <2>1. PICK x : siblingOf(level, index) = <<x>>
    BY <1>2
  <2>2. <<x>> \in Seq({x}) /\ Len(<<x>>) = 1
    OBVIOUS
  <2>3. IsList(<<x>>)
    BY <2>2, Zenon DEF IsList
  <2>4. Len(<<x>>) <= 1 /\ Len(<<x>>) \in Nat
    BY <2>2
  <2> QED
    BY <2>1, <2>3, <2>4
<1> QED
  BY <1>1, <1>2, SiblingIs

LEMMA WalkStarts ==
  ASSUME NEW s, NEW index
  PROVE  /\ siblingWalk(s, index)[0].level = s /\ siblingWalk(s, index)[0].index = index
         /\ siblingWalk(s, index)[0].found = <<>>
<1>1. siblingWalk(s, index)[0] = WalkFrom(s, index)
  BY WalkFollows
<1> QED
  BY <1>1 DEF WalkFrom

LEMMA WalkStep ==
  ASSUME NEW s, NEW index, NEW k \in Nat
  PROVE  LET b == siblingWalk(s, index)[k]
             c == siblingWalk(s, index)[k + 1]
         IN  /\ c.level = nextMerkleLevel(b.level) /\ c.index = b.index \div 2
             /\ c.found = b.found \o siblingOf(b.level, b.index)
<1> DEFINE b == siblingWalk(s, index)[k]
           c == siblingWalk(s, index)[k + 1]
<1>1. k + 1 \in Nat \ {0} /\ (k + 1) - 1 = k
  OBVIOUS
<1>2. c = WalkOn(b)
  BY <1>1, WalkFollows
<1> HIDE DEF b, c
<1>3. /\ c.level = nextMerkleLevel(b.level) /\ c.index = b.index \div 2
      /\ c.found = b.found \o siblingOf(b.level, b.index)
  BY <1>2 DEF WalkOn
<1> QED
  BY <1>3 DEF b, c

(* The walk goes up the levels of the tree.                                *)
WalkIs(b, level) ==
  /\ b.level = level /\ b.index \in Nat /\ b.index < Len(level) /\ IsList(b.found)

LEMMA WalkTyped ==
  ASSUME NEW s, IsList(s), s # <<>>, NEW index \in Nat, index < Len(s), NEW k \in Nat
  PROVE  WalkIs(siblingWalk(s, index)[k], merkleLevels(s)[k])
<1> DEFINE b(i) == siblingWalk(s, index)[i]
           w(i) == merkleLevels(s)[i]
           A == {i \in Nat : WalkIs(b(i), w(i))}
<1>1. WalkIs(b(0), w(0))
  <2>1. b(0).level = s /\ b(0).index = index /\ b(0).found = <<>> /\ w(0) = s
    BY WalkStarts, LevelsFollow
  <2>2. IsList(<<>>)
    BY EmptySeq DEF IsList
  <2> HIDE DEF b, w
  <2> QED
    BY <2>1, <2>2 DEF WalkIs
<1>2. ASSUME NEW i \in Nat, WalkIs(b(i), w(i)) PROVE WalkIs(b(i + 1), w(i + 1))
  <2>1. /\ b(i + 1).level = nextMerkleLevel(b(i).level) /\ b(i + 1).index = b(i).index \div 2
        /\ b(i + 1).found = b(i).found \o siblingOf(b(i).level, b(i).index)
    BY WalkStep
  <2>2. w(i + 1) = nextMerkleLevel(w(i)) /\ IsList(w(i)) /\ Len(w(i)) >= 1
    BY LevelsFollow, LevelFacts
  <2> HIDE DEF b, w
  <2>3. /\ b(i).level = w(i) /\ b(i).index \in Nat /\ b(i).index < Len(w(i))
        /\ IsList(b(i).found)
    BY <1>2 DEF WalkIs
  <2>4. Len(w(i)) \in Nat /\ Len(w(i + 1)) = Half(Len(w(i)))
    BY <2>2, ListFacts, NextLevel
  <2>8. IsList(siblingOf(w(i), b(i).index))
    BY <2>3, <2>4, SiblingList
  <2>9. b(i + 1).found = b(i).found \o siblingOf(w(i), b(i).index)
    BY <2>1, <2>3
  <2>5. IsList(b(i + 1).found)
    <3> DEFINE t == siblingOf(w(i), b(i).index)
               u == b(i).found
    <3>1. IsList(t) /\ IsList(u)
      BY <2>3, <2>8
    <3> HIDE DEF t, u
    <3>2. IsList(u \o t)
      BY <3>1, ConcatList
    <3> QED
      BY <2>9, <3>2 DEF t, u
  <2> DEFINE n == Len(w(i))
             x == b(i).index
  <2>6. n \in Nat /\ x \in Nat /\ x < n
    BY <2>3, <2>4
  <2> HIDE DEF n, x
  <2>7. x \div 2 \in Nat /\ x \div 2 < Half(n)
    BY <2>6 DEF Half
  <2> QED
    BY <2>1, <2>2, <2>3, <2>4, <2>5, <2>7 DEF WalkIs, n, x
<1>3. A \in SUBSET Nat /\ 0 \in A /\ \A i \in A : i + 1 \in A
  BY <1>1, <1>2
<1> HIDE DEF A
<1>4. A = Nat
  BY <1>3, Induction
<1> QED
  BY <1>4 DEF A

(* What was found stays found.                                             *)
Extends(t, s) == Len(s) <= Len(t) /\ \A i \in 1 .. Len(s) : t[i] = s[i]

LEMMA FoundOnce ==
  ASSUME NEW s, IsList(s), s # <<>>, NEW index \in Nat, index < Len(s), NEW k \in Nat
  PROVE  LET b == siblingWalk(s, index)[k]
             c == siblingWalk(s, index)[k + 1]
             x == siblingOf(merkleLevels(s)[k], b.index)
         IN  /\ Len(b.found) \in Nat /\ Len(c.found) \in Nat /\ Extends(c.found, b.found)
             /\ Len(c.found) = Len(b.found) + Len(x) /\ Len(x) \in Nat /\ Len(x) <= 1
             /\ Len(x) = 1 => c.found[Len(b.found) + 1] = x[1]
<1> DEFINE b == siblingWalk(s, index)[k]
           c == siblingWalk(s, index)[k + 1]
           x == siblingOf(merkleLevels(s)[k], b.index)
<1>9. c.found = b.found \o siblingOf(b.level, b.index)
  BY WalkStep
<1>10. b.level = merkleLevels(s)[k] /\ IsList(b.found) /\ b.index \in Nat
  BY WalkTyped DEF WalkIs
<1>1. c.found = b.found \o x /\ IsList(b.found) /\ b.index \in Nat
  BY <1>9, <1>10
<1>2. IsList(merkleLevels(s)[k]) /\ Len(merkleLevels(s)[k]) \in Nat
  BY LevelFacts, ListFacts
<1>3. IsList(x) /\ Len(x) <= 1 /\ Len(x) \in Nat
  BY <1>1, <1>2, SiblingList
<1> HIDE DEF b, c, x
<1>4. /\ Len(c.found) = Len(b.found) + Len(x)
      /\ \A i \in 1 .. Len(b.found) : c.found[i] = b.found[i]
      /\ \A i \in 1 .. Len(x) : c.found[Len(b.found) + i] = x[i]
  BY <1>1, <1>3, ConcatList
<1>5. Len(b.found) \in Nat
  BY <1>1, ListFacts
<1> DEFINE l == Len(b.found)
           m == Len(c.found)
           n == Len(x)
<1>6. l \in Nat /\ n \in Nat /\ m = l + n
  BY <1>3, <1>4, <1>5
<1> HIDE DEF l, m, n
<1>7. m \in Nat /\ l <= m
  BY <1>6
<1>8. Extends(c.found, b.found) /\ Len(c.found) \in Nat
  BY <1>4, <1>7 DEF Extends, l, m
<1>11. Len(x) = 1 => c.found[Len(b.found) + 1] = x[1]
  BY <1>4
<1> QED
  BY <1>3, <1>4, <1>5, <1>8, <1>11 DEF b, c, x

LEMMA FoundStays ==
  ASSUME NEW s, IsList(s), s # <<>>, NEW index \in Nat, index < Len(s),
         NEW k \in Nat, NEW m \in Nat, k <= m
  PROVE  Extends(siblingWalk(s, index)[m].found, siblingWalk(s, index)[k].found)
<1> DEFINE f(i) == siblingWalk(s, index)[i].found
           Kept(d) == Extends(f(k + d), f(k))
           A == {d \in Nat : Kept(d)}
<1>1. Kept(0)
  <2>1. k + 0 = k /\ Len(f(k)) \in Nat
    BY FoundOnce
  <2> DEFINE n == Len(f(k))
  <2>2. n <= n
    BY <2>1
  <2> QED
    BY <2>1, <2>2 DEF Extends
<1>2. ASSUME NEW d \in Nat, Kept(d) PROVE Kept(d + 1)
  <2> DEFINE i == k + d
  <2>1. i \in Nat /\ k + (d + 1) = i + 1
    OBVIOUS
  <2>2. /\ Extends(f(i + 1), f(i)) /\ Len(f(i)) \in Nat /\ Len(f(i + 1)) \in Nat
        /\ Len(f(k)) \in Nat
    BY <2>1, FoundOnce
  <2>3. Extends(f(i), f(k))
    BY <1>2
  <2> HIDE DEF i, f
  <2> DEFINE p == Len(f(i + 1))
             q == Len(f(i))
             r == Len(f(k))
  <2>4. p \in Nat /\ q \in Nat /\ r \in Nat /\ q <= p /\ r <= q
    BY <2>2, <2>3 DEF Extends
  <2>5. /\ \A j \in 1 .. q : f(i + 1)[j] = f(i)[j]
        /\ \A j \in 1 .. r : f(i)[j] = f(k)[j]
    BY <2>2, <2>3 DEF Extends
  <2> HIDE DEF p, q, r
  <2>6. r <= p /\ \A j \in 1 .. r : j \in 1 .. q
    BY <2>4
  <2>7. Extends(f(i + 1), f(k))
    BY <2>5, <2>6 DEF Extends, p, r
  <2> QED
    BY <2>1, <2>7
<1> HIDE DEF f, Kept
<1>3. A \in SUBSET Nat /\ 0 \in A /\ \A d \in A : d + 1 \in A
  BY <1>1, <1>2
<1> HIDE DEF A
<1>4. A = Nat
  BY <1>3, Induction
<1>5. m - k \in Nat /\ k + (m - k) = m
  OBVIOUS
<1>6. m - k \in A
  BY <1>4, <1>5
<1>7. Extends(f(k + (m - k)), f(k))
  BY <1>6 DEF A, Kept
<1> QED
  BY <1>5, <1>7 DEF f

LEMMA LevelsAreNodes ==
  ASSUME NEW s, IsList(s), s # <<>>, AllLeaves(s), NEW k \in Nat,
         NEW i \in DOMAIN merkleLevels(s)[k]
  PROVE  merkleLevels(s)[k][i] # NoNode
BY TreeLeaves DEF InTree

(* The verifier, on the path that was found, follows the walk.             *)
Follows(c, b, level) ==
  /\ c.node = level[b.index + 1] /\ c.index = b.index /\ c.width = Len(level)
  /\ c.used = Len(b.found)

LEMMA ClimbFollowsWalk ==
  ASSUME NEW s, IsList(s), s # <<>>, AllLeaves(s), NEW index \in Nat, index < Len(s),
         NEW path, NEW k \in Nat,
         Follows(climbing(s[index + 1], index, Len(s), path)[k], siblingWalk(s, index)[k],
                 merkleLevels(s)[k]),
         IsList(path), Extends(path, siblingWalk(s, index)[k + 1].found)
  PROVE  Follows(climbing(s[index + 1], index, Len(s), path)[k + 1],
                 siblingWalk(s, index)[k + 1], merkleLevels(s)[k + 1])
<1> DEFINE c == climbing(s[index + 1], index, Len(s), path)[k]
           d == climbing(s[index + 1], index, Len(s), path)[k + 1]
           b == siblingWalk(s, index)[k]
           e == siblingWalk(s, index)[k + 1]
           below == merkleLevels(s)[k]
           above == merkleLevels(s)[k + 1]
           i == b.index
           n == Len(below)
           j == i \div 2 + 1
           x == siblingOf(below, i)
           u == Len(b.found)
<1>1. /\ c.node = below[i + 1] /\ c.index = i /\ c.width = n /\ c.used = u
  BY DEF Follows
<1>2. d = ClimbOn(c, path) /\ IsClimber(c)
  BY ClimbStep, ListFacts
<1>3. /\ IsList(below) /\ above = nextMerkleLevel(below) /\ n >= 1
      /\ b.level = below /\ i \in Nat /\ i < n
  BY LevelsFollow, LevelFacts, WalkTyped DEF WalkIs
<1>4. e.index = i \div 2
  BY WalkStep
<1>16. u \in Nat /\ Len(e.found) \in Nat
  BY FoundOnce
<1>17. Len(e.found) = u + Len(x) /\ Len(x) \in Nat
  BY FoundOnce
<1>18. Len(x) = 1 => e.found[u + 1] = x[1]
  BY FoundOnce
<1>5. /\ u \in Nat /\ Len(e.found) \in Nat
      /\ Len(e.found) = u + Len(x) /\ Len(x) \in Nat
      /\ Len(x) = 1 => e.found[u + 1] = x[1]
  BY <1>16, <1>17, <1>18
<1>6. below[i + 1] # NoNode
  <2>1. DOMAIN below = 1 .. n /\ n \in Nat
    BY <1>3, ListFacts
  <2>2. i + 1 \in 1 .. n
    BY <1>3, <2>1
  <2> QED
    BY <2>1, <2>2, LevelsAreNodes
<1>7. /\ Len(e.found) <= Len(path) /\ \A q \in 1 .. Len(e.found) : path[q] = e.found[q]
  BY DEF Extends
<1>8. Len(path) \in Nat /\ DOMAIN path = 1 .. Len(path)
  BY ListFacts
<1> HIDE DEF c, d, b, e, below, above
<1>9. n \in Nat /\ Len(above) = Half(n)
  BY <1>3, ListFacts, NextLevel
<1>10. \A q \in 1 .. Half(n) :
         above[q] = IF 2 * q > n THEN below[2 * q - 1] ELSE Node(below[2 * q - 1], below[2 * q])
  BY <1>3, NextLevel
<1>11. ASSUME NEW y, x = <<y>>
       PROVE  u + 1 \in DOMAIN path /\ path[u + 1] = y /\ Len(e.found) = u + 1
  <2>1. Len(x) = 1 /\ x[1] = y
    BY <1>11
  <2>2. Len(e.found) = u + 1 /\ e.found[u + 1] = y
    BY <1>5, <2>1
  <2> DEFINE p == Len(path)
  <2>5. u \in Nat /\ p \in Nat
    BY <1>5, <1>8
  <2>6. u + 1 <= p
    BY <1>7, <2>2
  <2>3. u + 1 <= p /\ p \in Nat /\ u + 1 \in 1 .. u + 1
    <3> HIDE DEF u, p
    <3> QED
      BY <2>5, <2>6
  <2> HIDE DEF p
  <2>4. u + 1 \in 1 .. p
    BY <1>5, <2>3
  <2> QED
    BY <1>7, <1>8, <2>2, <2>3, <2>4 DEF p
<1>12. x = <<>> => Len(e.found) = u
  <2> SUFFICES ASSUME x = <<>> PROVE Len(e.found) = u
    OBVIOUS
  <2>1. Len(x) = 0
    BY EmptySeq
  <2>2. Len(e.found) = u + 0
    BY <1>5, <2>1
  <2> QED
    BY <1>5, <2>2
<1>13. i \in Nat /\ i < n
  BY <1>3
<1> HIDE DEF i, n, x, u
<1>14. CASE n <= 1
  <2>1. n = 1 /\ i = 0
    BY <1>3, <1>9, <1>13, <1>14
  <2>2. d = c /\ x = <<>>
    BY <1>1, <1>2, <1>9, <1>13, <1>14, SiblingIs DEF ClimbOn, x, n
  <2>3. Half(n) = 1 /\ 0 \div 2 = 0 /\ i \div 2 = 0
    BY <2>1 DEF Half
  <2>4. above[1] = below[1]
    BY <1>10, <2>1, <2>3
  <2>5. /\ d.node = above[e.index + 1] /\ d.index = e.index /\ d.width = Len(above)
        /\ d.used = Len(e.found)
    BY <1>1, <1>4, <1>9, <1>12, <2>1, <2>2, <2>3, <2>4
  <2> QED
    BY <2>5 DEF Follows, d, e, above
<1>15. CASE n > 1
  <2>1. d = climbOne(c, path)
    BY <1>1, <1>2, <1>6, <1>9, <1>15 DEF ClimbOn
  <2>2. d.index = i \div 2 /\ d.width = Half(n)
    BY <1>1, <1>2, <2>1, ClimbOneIs
  <2>3. /\ j \in 1 .. Half(n) /\ e.index + 1 = j
        /\ i % 2 = 1 => 2 * j - 1 = i /\ 2 * j = i + 1 /\ ~(2 * j > n)
        /\ i % 2 = 0 /\ i + 1 < n => 2 * j - 1 = i + 1 /\ 2 * j = i + 2 /\ ~(2 * j > n)
        /\ i % 2 = 0 /\ i + 1 >= n => 2 * j - 1 = i + 1 /\ 2 * j > n
    BY <1>4, <1>9, <1>13 DEF Half
  <2>4. above[j] = IF 2 * j > n THEN below[2 * j - 1] ELSE Node(below[2 * j - 1], below[2 * j])
    BY <1>10, <2>3
  <2> HIDE DEF j
  <2>5. SUFFICES d.node = above[j] /\ d.used = Len(e.found)
    BY <1>4, <1>9, <2>2, <2>3 DEF Follows, d, e, above
  <2>6. \/ /\ i % 2 = 1 /\ d.used = u + 1
           /\ d.node = IF u + 1 \in DOMAIN path /\ path[u + 1].position = "left"
                       THEN Node(path[u + 1].hash, below[i + 1]) ELSE NoNode
        \/ /\ i % 2 = 0 /\ i + 1 < n /\ d.used = u + 1
           /\ d.node = IF u + 1 \in DOMAIN path /\ path[u + 1].position = "right"
                       THEN Node(below[i + 1], path[u + 1].hash) ELSE NoNode
        \/ i % 2 = 0 /\ i + 1 >= n /\ d.used = u /\ d.node = below[i + 1]
    BY <1>1, <1>2, <2>1, ClimbOneIs
  <2>7. CASE i % 2 = 1
    <3>1. x = <<StepOf("left", below[i])>>
      BY <1>9, <1>13, <1>15, <2>7, SiblingIs DEF x, n
    <3>2. u + 1 \in DOMAIN path /\ path[u + 1] = StepOf("left", below[i]) /\ Len(e.found) = u + 1
      BY <1>11, <3>1
    <3>3. path[u + 1].position = "left" /\ path[u + 1].hash = below[i]
      BY <3>2 DEF StepOf
    <3>4. d.node = Node(below[i], below[i + 1]) /\ d.used = u + 1
      BY <2>6, <2>7, <3>2, <3>3
    <3> QED
      BY <2>3, <2>4, <2>7, <3>2, <3>4
  <2>8. CASE i % 2 = 0 /\ i + 1 < n
    <3>1. x = <<StepOf("right", below[i + 2])>>
      BY <1>9, <1>13, <1>15, <2>8, SiblingIs DEF x, n
    <3>2. u + 1 \in DOMAIN path /\ path[u + 1] = StepOf("right", below[i + 2])
          /\ Len(e.found) = u + 1
      BY <1>11, <3>1
    <3>3. path[u + 1].position = "right" /\ path[u + 1].hash = below[i + 2]
      BY <3>2 DEF StepOf
    <3>4. d.node = Node(below[i + 1], below[i + 2]) /\ d.used = u + 1
      BY <1>9, <1>13, <2>6, <2>8, <3>2, <3>3
    <3> QED
      BY <2>3, <2>4, <2>8, <3>2, <3>4
  <2>9. CASE i % 2 = 0 /\ i + 1 >= n
    <3>1. x = <<>>
      BY <1>9, <1>13, <1>15, <2>9, SiblingIs DEF x, n
    <3>2. d.node = below[i + 1] /\ d.used = u
      BY <1>9, <1>13, <2>6, <2>9
    <3> QED
      BY <1>12, <2>3, <2>4, <2>9, <3>1, <3>2
  <2> QED
    BY <2>6, <2>7, <2>8, <2>9
<1> QED
  BY <1>9, <1>14, <1>15

(* From every leaf the siblings that inclusionProof collects lead the      *)
(* verifier to the root.                                                   *)
THEOREM EveryLeafHasItsPath ==
  ASSUME NEW s, IsList(s), s # <<>>, AllLeaves(s), NEW index \in Nat, index < Len(s)
  PROVE  climb(s[index + 1], index, Len(s), siblings(s, index)) = computeMerkleRoot(s)
<1> DEFINE n == Len(s)
           path == siblings(s, index)
           c(k) == climbing(s[index + 1], index, Len(s), path)[k]
           Goes(k) == Follows(c(k), siblingWalk(s, index)[k], merkleLevels(s)[k])
           A == {k \in Nat : k <= n => Goes(k)}
<1>1. n \in Nat /\ Len(merkleLevels(s)[n]) = 1
  BY TopLevel
<1>2. path = siblingWalk(s, index)[n].found /\ IsList(path)
  BY <1>1, WalkTyped DEF siblings, WalkIs
<1> HIDE DEF path
<1>3. Goes(0)
  <2>1. /\ c(0).node = s[index + 1] /\ c(0).index = index /\ c(0).width = Len(s)
        /\ c(0).used = 0
    BY ClimbStarts
  <2>2. /\ siblingWalk(s, index)[0].index = index /\ siblingWalk(s, index)[0].found = <<>>
        /\ merkleLevels(s)[0] = s
    BY WalkStarts, LevelsFollow
  <2>3. Len(<<>>) = 0
    BY EmptySeq
  <2> QED
    BY <2>1, <2>2, <2>3 DEF Follows
<1>4. ASSUME NEW k \in Nat, Goes(k), k + 1 <= n PROVE Goes(k + 1)
  <2>1. Extends(path, siblingWalk(s, index)[k + 1].found)
    BY <1>1, <1>2, <1>4, FoundStays
  <2> QED
    BY <1>2, <1>4, <2>1, ClimbFollowsWalk
<1> HIDE DEF Goes, n
<1>5. ASSUME NEW k \in Nat, k <= n => Goes(k), k + 1 <= n PROVE Goes(k + 1)
  <2>1. k <= n
    BY <1>1, <1>5
  <2> QED
    BY <1>4, <1>5, <2>1
<1>6. A \in SUBSET Nat /\ 0 \in A /\ \A k \in A : k + 1 \in A
  BY <1>3, <1>5
<1> HIDE DEF A
<1>7. A = Nat
  BY <1>6, Induction
<1>8. n <= n
  BY <1>1
<1>9. Goes(n)
  BY <1>1, <1>7, <1>8 DEF A
<1>10. /\ c(n).node = merkleLevels(s)[n][siblingWalk(s, index)[n].index + 1]
       /\ c(n).used = Len(path)
  BY <1>2, <1>9 DEF Goes, Follows
<1>11. siblingWalk(s, index)[n].index \in Nat /\ siblingWalk(s, index)[n].index < 1
  BY <1>1, WalkTyped DEF WalkIs
<1>12. siblingWalk(s, index)[n].index + 1 = 1
  BY <1>11
<1>13. c(n).node = computeMerkleRoot(s)
  BY <1>10, <1>12 DEF computeMerkleRoot, n
<1> QED
  BY <1>10, <1>13 DEF climb, path, n

-----------------------------------------------------------------------------
(* A path is no longer than the verifier allows.                           *)

LEMMA WidthHalves ==
  ASSUME NEW s, IsList(s), s # <<>>, NEW k \in Nat, NEW m \in Nat,
         Len(merkleLevels(s)[k]) <= 2 * m
  PROVE  Len(merkleLevels(s)[k + 1]) <= m
<1> DEFINE a == Len(merkleLevels(s)[k])
<1>1. IsList(merkleLevels(s)[k]) /\ merkleLevels(s)[k + 1] = nextMerkleLevel(merkleLevels(s)[k])
  BY LevelFacts, LevelsFollow
<1>2. a \in Nat /\ Len(merkleLevels(s)[k + 1]) = Half(a)
  BY <1>1, ListFacts, NextLevel
<1>3. a <= 2 * m
  OBVIOUS
<1> HIDE DEF a
<1>4. Half(a) <= m
  BY <1>2, <1>3 DEF Half
<1> QED
  BY <1>2, <1>4

LEMMA WidthFalls ==
  ASSUME NEW s, IsList(s), s # <<>>, NEW k \in Nat, NEW m \in Nat,
         Len(merkleLevels(s)[k]) <= 1024 * m
  PROVE  Len(merkleLevels(s)[k + 10]) <= m
<1> DEFINE w(i) == Len(merkleLevels(s)[i])
<1>1. ASSUME NEW i \in Nat, NEW a \in Nat, w(i) <= 2 * a PROVE w(i + 1) <= a
  BY <1>1, WidthHalves
<1>2. w(k) <= 1024 * m
  OBVIOUS
<1> HIDE DEF w
<1>3. 1024 * m = 2 * (512 * m) /\ 512 * m \in Nat /\ 512 * m = 2 * (256 * m) /\ 256 * m \in Nat
      /\ 256 * m = 2 * (128 * m) /\ 128 * m \in Nat /\ 128 * m = 2 * (64 * m) /\ 64 * m \in Nat
      /\ 64 * m = 2 * (32 * m) /\ 32 * m \in Nat
  OBVIOUS
<1>4. 32 * m = 2 * (16 * m) /\ 16 * m \in Nat /\ 16 * m = 2 * (8 * m) /\ 8 * m \in Nat
      /\ 8 * m = 2 * (4 * m) /\ 4 * m \in Nat /\ 4 * m = 2 * (2 * m) /\ 2 * m \in Nat
  OBVIOUS
<1>5. \A j \in Nat : (k + j) \in Nat /\ (k + j) + 1 = k + (j + 1)
  OBVIOUS
<1>6. w(k + 1) <= 512 * m
  BY <1>1, <1>2, <1>3
<1>7. w(k + 2) <= 256 * m
  BY <1>1, <1>3, <1>5, <1>6
<1>8. w(k + 3) <= 128 * m
  BY <1>1, <1>3, <1>5, <1>7
<1>9. w(k + 4) <= 64 * m
  BY <1>1, <1>3, <1>5, <1>8
<1>10. w(k + 5) <= 32 * m
  BY <1>1, <1>3, <1>5, <1>9
<1>11. w(k + 6) <= 16 * m
  BY <1>1, <1>3, <1>4, <1>5, <1>10
<1>12. w(k + 7) <= 8 * m
  BY <1>1, <1>4, <1>5, <1>11
<1>13. w(k + 8) <= 4 * m
  BY <1>1, <1>4, <1>5, <1>12
<1>14. w(k + 9) <= 2 * m
  BY <1>1, <1>4, <1>5, <1>13
<1>15. w(k + 10) <= m
  BY <1>1, <1>5, <1>14
<1> QED
  BY <1>15 DEF w

(* The largest tree a 32 bit number counts.                                *)
MaxTree == 2147483647

LEMMA ThirtyOneLevels ==
  ASSUME NEW s, IsList(s), s # <<>>, Len(s) <= MaxTree, NEW k \in Nat, k >= 31
  PROVE  Len(merkleLevels(s)[k]) <= 1
<1> DEFINE w(i) == Len(merkleLevels(s)[i])
           A == {d \in Nat : w(31 + d) <= 1}
<1> DEFINE pair == 2
           two == 1024 * pair
           middle == 1024 * two
<1>11. two \in Nat /\ middle \in Nat /\ pair \in Nat
  OBVIOUS
<1>1. w(0) <= 1024 * middle
  <2>1. merkleLevels(s)[0] = s /\ Len(s) \in Nat
    BY LevelsFollow, ListFacts
  <2> DEFINE n == Len(s)
  <2>2. n \in Nat /\ n <= MaxTree
    BY <2>1
  <2>4. MaxTree <= 1024 * middle /\ MaxTree \in Nat
    BY SMT DEF MaxTree
  <2> HIDE DEF n, middle
  <2>3. n <= 1024 * middle
    BY <1>11, <2>2, <2>4
  <2> QED
    BY <2>1, <2>3 DEF n
<1> HIDE DEF middle
<1>13. ASSUME NEW i \in Nat, NEW m \in Nat, w(i) <= 1024 * m PROVE w(i + 10) <= m
  BY <1>13, WidthFalls
<1>12. 0 \in Nat /\ 10 \in Nat /\ 20 \in Nat /\ 30 \in Nat
  OBVIOUS
<1>2. w(10) <= middle
  <2>1. w(0 + 10) <= middle
    BY <1>1, <1>11, <1>12, WidthFalls
  <2> QED
    BY <2>1
<1> HIDE DEF two
<1>3. w(20) <= two
  <2>1. w(10) <= 1024 * two
    BY <1>2 DEF middle
  <2>2. w(10 + 10) <= two
    BY <1>11, <1>12, <2>1, WidthFalls
  <2> QED
    BY <2>2
<1>4. w(30) <= 2
  <2> HIDE DEF pair
  <2>1. w(20) <= 1024 * pair
    BY <1>3 DEF two
  <2> HIDE DEF w
  <2>2. w(20 + 10) <= pair
    BY <1>11, <1>12, <1>13, <2>1
  <2> QED
    BY <2>2 DEF pair
<1>5. w(31 + 0) <= 1
  <2>1. w(30) <= 2 * 1
    BY <1>4
  <2>2. w(30 + 1) <= 1
    BY <1>12, <2>1, WidthHalves
  <2> QED
    BY <2>2
<1>6. ASSUME NEW d \in Nat, w(31 + d) <= 1 PROVE w(31 + (d + 1)) <= 1
  <2> DEFINE i == 31 + d
  <2>1. i \in Nat /\ i + 1 = 31 + (d + 1)
    OBVIOUS
  <2>2. IsList(merkleLevels(s)[i]) /\ w(i) \in Nat
    BY <2>1, LevelFacts, ListFacts
  <2>3. w(i) <= 2 * 1
    BY <1>6, <2>2
  <2>4. w(i + 1) <= 1
    BY <2>1, <2>3, WidthHalves
  <2> QED
    BY <2>1, <2>4
<1> HIDE DEF w
<1>7. A \in SUBSET Nat /\ 0 \in A /\ \A d \in A : d + 1 \in A
  BY <1>5, <1>6
<1> HIDE DEF A
<1>8. A = Nat
  BY <1>7, Induction
<1>9. k - 31 \in Nat /\ 31 + (k - 31) = k
  OBVIOUS
<1>10. w(31 + (k - 31)) <= 1
  BY <1>8, <1>9 DEF A
<1> QED
  BY <1>9, <1>10 DEF w

LEMMA PathIsShort ==
  ASSUME NEW s, IsList(s), s # <<>>, Len(s) <= MaxTree, NEW index \in Nat, index < Len(s)
  PROVE  Len(siblings(s, index)) <= 53
<1> DEFINE f(k) == Len(siblingWalk(s, index)[k].found)
           Short(k) == f(k) <= k /\ f(k) <= 31
           A == {k \in Nat : Short(k)}
<1>1. Short(0)
  <2>1. siblingWalk(s, index)[0].found = <<>> /\ Len(<<>>) = 0
    BY WalkStarts, EmptySeq
  <2> QED
    BY <2>1
<1>2. ASSUME NEW k \in Nat, Short(k) PROVE Short(k + 1)
  <2> DEFINE x == siblingOf(merkleLevels(s)[k], siblingWalk(s, index)[k].index)
             n == Len(x)
  <2>1. f(k) \in Nat /\ f(k + 1) \in Nat /\ f(k + 1) = f(k) + n /\ n \in Nat /\ n <= 1
    BY FoundOnce
  <2>2. CASE k >= 31
    <3>1. Len(merkleLevels(s)[k]) <= 1
      BY <2>2, ThirtyOneLevels
    <3>2. siblingWalk(s, index)[k].index \in Nat /\ Len(merkleLevels(s)[k]) \in Nat
      BY WalkTyped, LevelFacts, ListFacts DEF WalkIs
    <3>3. x = <<>>
      BY <3>1, <3>2, SiblingIs
    <3>4. n = 0
      BY <3>3, EmptySeq
    <3> HIDE DEF f, n
    <3> QED
      BY <1>2, <2>1, <3>4
  <2>3. CASE k < 31
    <3> HIDE DEF f, n
    <3> QED
      BY <1>2, <2>1, <2>3
  <2> QED
    BY <2>2, <2>3
<1> HIDE DEF Short
<1>3. A \in SUBSET Nat /\ 0 \in A /\ \A k \in A : k + 1 \in A
  BY <1>1, <1>2
<1> HIDE DEF A
<1>4. A = Nat
  BY <1>3, Induction
<1>5. Len(s) \in Nat
  BY ListFacts
<1>6. f(Len(s)) <= 31 /\ f(Len(s)) \in Nat
  BY <1>4, <1>5, FoundOnce DEF A, Short
<1> DEFINE l == f(Len(s))
<1>7. l \in Nat /\ l <= 31
  BY <1>6
<1>8. Len(siblings(s, index)) = l
  BY DEF siblings
<1> HIDE DEF l
<1>9. l <= 53
  BY <1>7
<1> QED
  BY <1>8, <1>9

-----------------------------------------------------------------------------
(* Sorting by counting: where no two keys are the same, each place in the  *)
(* order is taken once.                                                    *)

Below(S, f, j) == {k \in S : f[k] < f[j]}

LEMMA RankGrows ==
  ASSUME NEW S, IsFiniteSet(S), NEW f \in [S -> Int], NEW i \in S, NEW j \in S, f[i] < f[j]
  PROVE  Cardinality(Below(S, f, i)) < Cardinality(Below(S, f, j))
<1>1. /\ Below(S, f, j) \in SUBSET S /\ Below(S, f, i) \in SUBSET Below(S, f, j)
      /\ i \in Below(S, f, j) /\ i \notin Below(S, f, i)
  <2>1. f[i] \in Int /\ f[j] \in Int /\ \A k \in S : f[k] \in Int
    OBVIOUS
  <2>2. \A k \in S : f[k] < f[i] => f[k] < f[j]
    BY <2>1
  <2>3. ~(f[i] < f[i])
    BY <2>1
  <2> QED
    BY <2>2, <2>3 DEF Below
<1>2. IsFiniteSet(Below(S, f, j))
  BY <1>1, FS_Subset
<1>3. /\ IsFiniteSet(Below(S, f, i))
      /\ Cardinality(Below(S, f, i)) <= Cardinality(Below(S, f, j))
      /\ Cardinality(Below(S, f, j)) # Cardinality(Below(S, f, i))
  BY <1>1, <1>2, FS_Subset
<1>4. Cardinality(Below(S, f, i)) \in Nat /\ Cardinality(Below(S, f, j)) \in Nat
  BY <1>2, <1>3, FS_CardinalityType
<1> QED
  BY <1>3, <1>4

LEMMA RankIsPlace ==
  ASSUME NEW S, IsFiniteSet(S), NEW f \in [S -> Int], \A i, j \in S : f[i] = f[j] => i = j
  PROVE  /\ Cardinality(S) \in Nat
         /\ \A j \in S : Cardinality(Below(S, f, j)) + 1 \in 1 .. Cardinality(S)
         /\ \A i, j \in S : Cardinality(Below(S, f, i)) = Cardinality(Below(S, f, j)) => i = j
         /\ \A p \in 1 .. Cardinality(S) : \E j \in S : Cardinality(Below(S, f, j)) = p - 1
<1> DEFINE n == Cardinality(S)
           T == 1 .. n
           r(j) == Cardinality(Below(S, f, j))
           g == [j \in S |-> r(j) + 1]
<1>1. n \in Nat
  BY FS_CardinalityType
<1>2. ASSUME NEW j \in S PROVE r(j) \in Nat /\ r(j) + 1 \in T
  <2>1. Below(S, f, j) \in SUBSET S /\ j \notin Below(S, f, j)
    <3>1. f[j] \in Int
      OBVIOUS
    <3>2. ~(f[j] < f[j])
      BY <3>1
    <3> QED
      BY <3>2 DEF Below
  <2>2. IsFiniteSet(Below(S, f, j)) /\ r(j) <= n /\ r(j) # n
    BY <2>1, FS_Subset
  <2>3. r(j) \in Nat
    BY <2>2, FS_CardinalityType
  <2> HIDE DEF r, n
  <2> QED
    BY <1>1, <2>2, <2>3
<1>3. ASSUME NEW i \in S, NEW j \in S, r(i) = r(j) PROVE i = j
  <2>1. f[i] \in Int /\ f[j] \in Int
    OBVIOUS
  <2>2. ~(r(i) < r(j)) /\ ~(r(j) < r(i))
    BY <1>2, <1>3
  <2>3. ~(f[i] < f[j]) /\ ~(f[j] < f[i])
    BY <2>2, RankGrows
  <2>4. f[i] = f[j]
    BY <2>1, <2>3
  <2> QED
    BY <2>4
<1> HIDE DEF r
<1>4. g \in [S -> T]
  BY <1>2
<1>5. g \in Injection(S, T)
  <2>1. ASSUME NEW i \in S, NEW j \in S, g[i] = g[j] PROVE i = j
    <3>1. r(i) + 1 = r(j) + 1
      BY <2>1
    <3>2. r(i) = r(j)
      BY <1>2, <3>1
    <3> QED
      BY <1>3, <3>2
  <2> QED
    BY <1>4, <2>1 DEF Injection, IsInjective
<1>6. IsFiniteSet(T) /\ Cardinality(T) = n
  <2>1. 1 \in Int /\ n \in Int
    BY <1>1
  <2>2. IsFiniteSet(T) /\ Cardinality(T) = IF 1 > n THEN 0 ELSE n - 1 + 1
    BY <2>1, FS_Interval
  <2> HIDE DEF n
  <2> QED
    BY <1>1, <2>2
<1>7. g \in Surjection(S, T)
  BY <1>5, <1>6, FS_Injection
<1>8. ASSUME NEW p \in T PROVE \E j \in S : r(j) = p - 1
  <2>1. PICK j \in S : g[j] = p
    BY <1>7 DEF Surjection
  <2>2. r(j) + 1 = p /\ r(j) \in Nat
    BY <1>2, <2>1
  <2>3. r(j) = p - 1
    BY <2>2
  <2> QED
    BY <2>3
<1> QED
  BY <1>1, <1>2, <1>3, <1>8 DEF r

-----------------------------------------------------------------------------
(* A checkpoint and its proofs, for any heads.                             *)

IsHeads(heads) ==
  /\ IsFiniteSet(DOMAIN heads) /\ DOMAIN heads # {} /\ DOMAIN heads \subseteq Int

PlaceOf(r, heads) == Cardinality({q \in DOMAIN heads : q < r})

LEMMA HeadsInOrder ==
  ASSUME NEW heads, IsHeads(heads)
  PROVE  LET n == Cardinality(DOMAIN heads) IN
         /\ n \in Nat /\ n >= 1 /\ DOMAIN orderedHeads(heads) = 1 .. n
         /\ \A i \in 1 .. n : /\ orderedHeads(heads)[i] \in DOMAIN heads
                              /\ PlaceOf(orderedHeads(heads)[i], heads) = i - 1
         /\ \A r \in DOMAIN heads : /\ PlaceOf(r, heads) \in Nat /\ PlaceOf(r, heads) < n
                                    /\ orderedHeads(heads)[PlaceOf(r, heads) + 1] = r
<1> DEFINE D == DOMAIN heads
           n == Cardinality(D)
           f == [r \in D |-> r]
           o == orderedHeads(heads)
           At(i) == CHOOSE r \in D : PlaceOf(r, heads) = i - 1
<1>1. IsFiniteSet(D) /\ D # {} /\ D \subseteq Int
  BY DEF IsHeads
<1>2. f \in [D -> Int] /\ \A i, j \in D : f[i] = f[j] => i = j
  BY <1>1
<1>3. \A r \in D : Cardinality(Below(D, f, r)) = PlaceOf(r, heads)
  <2> TAKE r \in D
  <2>1. Below(D, f, r) = {q \in D : q < r}
    BY DEF Below
  <2> QED
    BY <2>1 DEF PlaceOf
<1>4. o = [i \in 1 .. n |-> At(i)]
  BY DEF orderedHeads, PlaceOf
<1> HIDE DEF D, f, o
<1>5. /\ n \in Nat
      /\ \A j \in D : PlaceOf(j, heads) + 1 \in 1 .. n
      /\ \A i, j \in D : PlaceOf(i, heads) = PlaceOf(j, heads) => i = j
      /\ \A p \in 1 .. n : \E j \in D : PlaceOf(j, heads) = p - 1
  <2>1. /\ n \in Nat
        /\ \A j \in D : Cardinality(Below(D, f, j)) + 1 \in 1 .. n
        /\ \A i, j \in D : Cardinality(Below(D, f, i)) = Cardinality(Below(D, f, j)) => i = j
        /\ \A p \in 1 .. n : \E j \in D : Cardinality(Below(D, f, j)) = p - 1
    BY <1>1, <1>2, RankIsPlace
  <2> HIDE DEF n
  <2> QED
    BY <1>3, <2>1
<1>6. n # 0
  BY <1>1, FS_EmptySet
<1>7. IsFiniteSet(D) => \A r \in D : PlaceOf(r, heads) \in Nat
  <2> SUFFICES ASSUME IsFiniteSet(D), NEW r \in D PROVE PlaceOf(r, heads) \in Nat
    OBVIOUS
  <2>1. {q \in D : q < r} \in SUBSET D
    OBVIOUS
  <2>2. IsFiniteSet({q \in D : q < r})
    BY <2>1, FS_Subset
  <2> QED
    BY <2>2, FS_CardinalityType DEF PlaceOf, D
<1> HIDE DEF n
<1>8. DOMAIN o = 1 .. n /\ \A i \in 1 .. n : o[i] = At(i)
  BY <1>4
<1>9. \A i \in 1 .. n : At(i) \in D /\ PlaceOf(At(i), heads) = i - 1
  BY <1>5
<1> HIDE DEF At
<1>10. \A i \in 1 .. n : o[i] \in D /\ PlaceOf(o[i], heads) = i - 1
  BY <1>8, <1>9
<1>11. ASSUME NEW r \in D
       PROVE  PlaceOf(r, heads) \in Nat /\ PlaceOf(r, heads) < n /\ o[PlaceOf(r, heads) + 1] = r
  <2> DEFINE p == PlaceOf(r, heads)
  <2>1. p \in Nat /\ p + 1 \in 1 .. n
    BY <1>1, <1>5, <1>7
  <2>2. PlaceOf(o[p + 1], heads) = (p + 1) - 1 /\ o[p + 1] \in D
    BY <1>10, <2>1
  <2>3. (p + 1) - 1 = p /\ p < n
    BY <1>5, <2>1
  <2>4. o[p + 1] = r
    BY <1>5, <2>2, <2>3
  <2> QED
    BY <2>1, <2>3, <2>4
<1>12. n >= 1
  BY <1>5, <1>6
<1> QED
  BY <1>5, <1>8, <1>10, <1>11, <1>12 DEF D, n, o

LEMMA LeavesOfHeads ==
  ASSUME NEW heads, IsHeads(heads)
  PROVE  /\ IsList(leaves(heads)) /\ leaves(heads) # <<>> /\ AllLeaves(leaves(heads))
         /\ Len(leaves(heads)) = Cardinality(DOMAIN heads)
         /\ \A i \in 1 .. Len(leaves(heads)) :
              leaves(heads)[i] = Leaf(orderedHeads(heads)[i], heads[orderedHeads(heads)[i]])
<1> DEFINE n == Cardinality(DOMAIN heads)
           o == orderedHeads(heads)
           s == leaves(heads)
<1>1. n \in Nat /\ n >= 1 /\ DOMAIN o = 1 .. n
  BY HeadsInOrder
<1>2. s = [i \in 1 .. n |-> Leaf(o[i], heads[o[i]])]
  BY <1>1 DEF leaves
<1>3. \A i \in 1 .. n : s[i] = Leaf(o[i], heads[o[i]])
  BY <1>2
<1>4. s = [i \in 1 .. n |-> s[i]]
  BY <1>2
<1> HIDE DEF n, o, s
<1>5. IsList(s) /\ Len(s) = n
  BY <1>1, <1>4, FunctionIsList
<1>6. DOMAIN s = 1 .. n
  BY <1>4
<1>7. AllLeaves(s)
  BY <1>3, <1>6 DEF AllLeaves
<1>8. s # <<>>
  <2>1. Len(<<>>) = 0
    BY EmptySeq
  <2> QED
    BY <1>1, <1>5, <2>1
<1> QED
  BY <1>3, <1>5, <1>7, <1>8 DEF n, o, s

(* Every head of a checkpoint has a proof that the public verifier         *)
(* accepts: what inclusionProof returns for it.                            *)
THEOREM EveryHeadVerifies ==
  ASSUME NEW heads, IsHeads(heads), Cardinality(DOMAIN heads) <= MaxTree,
         NEW r \in DOMAIN heads
  PROVE  verifyInclusionProof([review_id |-> r, head_hash |-> heads[r]],
                              inclusionProof(r, heads), computeCheckpoint(heads).merkle_root)
<1> DEFINE s == leaves(heads)
           n == Cardinality(DOMAIN heads)
           p == PlaceOf(r, heads)
           proof == inclusionProof(r, heads)
           head == [review_id |-> r, head_hash |-> heads[r]]
<1>1. /\ IsList(s) /\ s # <<>> /\ AllLeaves(s) /\ Len(s) = n
      /\ \A i \in 1 .. n : s[i] = Leaf(orderedHeads(heads)[i], heads[orderedHeads(heads)[i]])
  BY LeavesOfHeads
<1>2. /\ n \in Nat /\ n >= 1 /\ p \in Nat /\ p < n /\ orderedHeads(heads)[p + 1] = r
  BY HeadsInOrder
<1>3. /\ proof.review_id = r /\ proof.leaf_index = p /\ proof.tree_size = n
      /\ proof.siblings = siblings(s, p)
  BY DEF inclusionProof, PlaceOf
<1>4. computeCheckpoint(heads).merkle_root = computeMerkleRoot(s)
  BY DEF computeCheckpoint
<1>5. head.review_id = r /\ head.head_hash = heads[r]
  OBVIOUS
<1> HIDE DEF s, n, p, proof, head
<1>6. s[p + 1] = Leaf(r, heads[r])
  <2>1. p + 1 \in 1 .. n
    BY <1>2
  <2> QED
    BY <1>1, <1>2, <2>1
<1>7. climb(s[p + 1], p, Len(s), siblings(s, p)) = computeMerkleRoot(s)
  BY <1>1, <1>2, EveryLeafHasItsPath
<1>8. climb(Leaf(r, heads[r]), p, n, siblings(s, p)) = computeMerkleRoot(s)
  BY <1>1, <1>6, <1>7
<1>9. Len(s) <= MaxTree
  BY <1>1 DEF n
<1>10. Len(siblings(s, p)) <= 53
  BY <1>1, <1>2, <1>9, PathIsShort
<1>11. isMerkleProof(proof)
  BY <1>2, <1>3, <1>10 DEF isMerkleProof
<1>12. verifyInclusionProof(head, proof, computeCheckpoint(heads).merkle_root)
  BY <1>3, <1>4, <1>5, <1>8, <1>11 DEF verifyInclusionProof
<1> QED
  BY <1>12 DEF head, proof

(* What the public verifier accepts is a head of the checkpoint, whatever  *)
(* the proof claims; and a proof of the checkpoint's own size has the      *)
(* head's own index.                                                       *)
THEOREM VerifiedIsHead ==
  ASSUME NEW heads, IsHeads(heads), NEW head, NEW proof,
         proof.leaf_index \in Int, proof.tree_size \in Int,
         verifyInclusionProof(head, proof, computeCheckpoint(heads).merkle_root)
  PROVE  /\ head.review_id \in DOMAIN heads /\ head.head_hash = heads[head.review_id]
         /\ proof.tree_size = Cardinality(DOMAIN heads) =>
              proof.leaf_index = PlaceOf(head.review_id, heads)
<1> DEFINE s == leaves(heads)
           n == Cardinality(DOMAIN heads)
           o == orderedHeads(heads)
           r == head.review_id
           h == head.head_hash
           index == proof.leaf_index
           width == proof.tree_size
           path == proof.siblings
<1>1. /\ IsList(s) /\ s # <<>> /\ AllLeaves(s) /\ Len(s) = n
      /\ \A i \in 1 .. n : s[i] = Leaf(o[i], heads[o[i]])
  BY LeavesOfHeads
<1>2. n \in Nat /\ \A i \in 1 .. n : o[i] \in DOMAIN heads /\ PlaceOf(o[i], heads) = i - 1
  BY HeadsInOrder
<1>3. computeCheckpoint(heads).merkle_root = computeMerkleRoot(s)
  BY DEF computeCheckpoint
<1>4. index \in Nat /\ width \in Nat /\ index < width
  BY DEF verifyInclusionProof, isMerkleProof
<1>5. climb(Leaf(r, h), index, width, path) = computeMerkleRoot(s)
  BY <1>3 DEF verifyInclusionProof
<1> HIDE DEF s, n, o, r, h, index, width, path
<1>6. \E i \in DOMAIN s : s[i] = Leaf(r, h)
  BY <1>1, <1>4, <1>5, VerifiedLeafIsInTree
<1>7. DOMAIN s = 1 .. n
  BY <1>1, ListFacts
<1>8. PICK i \in 1 .. n : s[i] = Leaf(r, h)
  BY <1>6, <1>7
<1>9. r = o[i] /\ h = heads[o[i]]
  <2>1. Leaf(r, h) = Leaf(o[i], heads[o[i]])
    BY <1>1, <1>8
  <2> QED
    BY <2>1, TermsDiffer
<1>10. r \in DOMAIN heads /\ h = heads[r]
  BY <1>2, <1>9
<1>11. ASSUME width = n PROVE index = PlaceOf(r, heads)
  <2>1. climb(Leaf(r, h), index, Len(s), path) = computeMerkleRoot(s) /\ index < Len(s)
    BY <1>1, <1>4, <1>5, <1>11
  <2>2. Leaf(r, h) = s[index + 1]
    BY <1>1, <1>4, <2>1, VerifiedLeafHasItsIndex
  <2>3. index + 1 \in 1 .. n /\ (index + 1) - 1 = index
    BY <1>2, <1>4, <1>11
  <2>4. Leaf(r, h) = Leaf(o[index + 1], heads[o[index + 1]])
    BY <1>1, <2>2, <2>3
  <2>5. r = o[index + 1]
    BY <2>4, TermsDiffer
  <2> QED
    BY <1>2, <2>3, <2>5
<1> QED
  BY <1>10, <1>11 DEF r, h, index, width, n

-----------------------------------------------------------------------------
(* The chain of a review log, for any events.                              *)

LEMMA LinksDiffer ==
  ASSUME NEW a, NEW b, NEW d, NEW e
  PROVE  /\ ChainLink(a, d) # EmptyChain /\ ChainLink(a, d) # Throws /\ EmptyChain # Throws
         /\ ChainLink(a, d) = ChainLink(b, e) => a = b /\ d.sequence = e.sequence /\ d.id = e.id
<1>1. /\ DOMAIN ChainLink(a, d) = {"prev", "sequence", "event"}
      /\ DOMAIN EmptyChain = {"empty"} /\ DOMAIN Throws = {"head"}
  BY DEF ChainLink, EmptyChain, Throws
<1>2. "prev" \notin {"empty"} /\ "prev" \notin {"head"} /\ "empty" \notin {"head"}
  OBVIOUS
<1>3. ChainLink(a, d) # EmptyChain /\ ChainLink(a, d) # Throws /\ EmptyChain # Throws
  BY <1>1, <1>2
<1>4. /\ ChainLink(a, d).prev = a /\ ChainLink(b, e).prev = b
      /\ ChainLink(a, d).sequence = d.sequence /\ ChainLink(b, e).sequence = e.sequence
      /\ ChainLink(a, d).event = d.id /\ ChainLink(b, e).event = e.id
  BY DEF ChainLink
<1> QED
  BY <1>3, <1>4

SameLink(d, e) == d.sequence = e.sequence /\ d.id = e.id

LEMMA ChainDecides ==
  ASSUME NEW o, NEW p, NEW m \in Nat, NEW n \in Nat, chainHeads(o)[m] = chainHeads(p)[n]
  PROVE  m = n /\ \A k \in 1 .. m : SameLink(o[k], p[k])
<1> DEFINE a(i) == chainHeads(o)[i]
           b(i) == chainHeads(p)[i]
           Same(i) == \A j \in Nat : a(i) = b(j) => i = j /\ \A k \in 1 .. i : SameLink(o[k], p[k])
           A == {i \in Nat : Same(i)}
<1>1. /\ a(0) = EmptyChain /\ b(0) = EmptyChain
      /\ \A k \in Nat \ {0} : a(k) = ChainLink(a(k - 1), o[k])
      /\ \A k \in Nat \ {0} : b(k) = ChainLink(b(k - 1), p[k])
  BY ChainFollows
<1>2. a(m) = b(n)
  OBVIOUS
<1> HIDE DEF a, b
<1>3. Same(0)
  <2> SUFFICES ASSUME NEW j \in Nat, a(0) = b(j)
               PROVE  0 = j /\ \A k \in 1 .. 0 : SameLink(o[k], p[k])
    OBVIOUS
  <2>1. ASSUME j # 0 PROVE FALSE
    <3>1. b(j) = ChainLink(b(j - 1), p[j])
      BY <1>1, <2>1
    <3> QED
      BY <1>1, <3>1, LinksDiffer
  <2> QED
    BY <2>1
<1>4. ASSUME NEW i \in Nat, Same(i) PROVE Same(i + 1)
  <2> SUFFICES ASSUME NEW j \in Nat, a(i + 1) = b(j)
               PROVE  i + 1 = j /\ \A k \in 1 .. i + 1 : SameLink(o[k], p[k])
    OBVIOUS
  <2>1. i + 1 \in Nat \ {0} /\ (i + 1) - 1 = i
    OBVIOUS
  <2>2. a(i + 1) = ChainLink(a(i), o[i + 1])
    BY <1>1, <2>1
  <2>3. j # 0
    BY <1>1, <2>2, LinksDiffer
  <2>4. b(j) = ChainLink(b(j - 1), p[j]) /\ j - 1 \in Nat
    BY <1>1, <2>3
  <2>5. ChainLink(a(i), o[i + 1]) = ChainLink(b(j - 1), p[j])
    BY <2>2, <2>4
  <2>6. a(i) = b(j - 1) /\ SameLink(o[i + 1], p[j])
    BY <2>5, LinksDiffer DEF SameLink
  <2>7. i = j - 1 /\ \A k \in 1 .. i : SameLink(o[k], p[k])
    BY <1>4, <2>4, <2>6
  <2>8. j = i + 1
    BY <2>4, <2>7
  <2>9. \A k \in 1 .. i + 1 : k \in 1 .. i \/ k = i + 1
    OBVIOUS
  <2> QED
    BY <2>6, <2>7, <2>8, <2>9
<1> HIDE DEF Same
<1>5. A \in SUBSET Nat /\ 0 \in A /\ \A i \in A : i + 1 \in A
  BY <1>3, <1>4
<1> HIDE DEF A
<1>6. A = Nat
  BY <1>5, Induction
<1>7. Same(m)
  BY <1>6 DEF A
<1> QED
  BY <1>2, <1>7 DEF Same

LEMMA ChainsAgree ==
  ASSUME NEW o, NEW p, NEW m \in Nat, \A k \in 1 .. m : SameLink(o[k], p[k])
  PROVE  chainHeads(o)[m] = chainHeads(p)[m]
<1> DEFINE a(i) == chainHeads(o)[i]
           b(i) == chainHeads(p)[i]
           A == {i \in Nat : i <= m => a(i) = b(i)}
<1>1. /\ a(0) = EmptyChain /\ b(0) = EmptyChain
      /\ \A k \in Nat \ {0} : a(k) = ChainLink(a(k - 1), o[k])
      /\ \A k \in Nat \ {0} : b(k) = ChainLink(b(k - 1), p[k])
  BY ChainFollows
<1> HIDE DEF a, b
<1>2. ASSUME NEW i \in Nat, i <= m => a(i) = b(i), i + 1 <= m PROVE a(i + 1) = b(i + 1)
  <2>1. i + 1 \in Nat \ {0} /\ (i + 1) - 1 = i /\ i <= m /\ i + 1 \in 1 .. m
    BY <1>2
  <2>2. a(i + 1) = ChainLink(a(i), o[i + 1]) /\ b(i + 1) = ChainLink(b(i), p[i + 1])
    BY <1>1, <2>1
  <2>3. SameLink(o[i + 1], p[i + 1])
    BY <2>1
  <2> QED
    BY <1>2, <2>1, <2>2, <2>3 DEF ChainLink, SameLink
<1>3. A \in SUBSET Nat /\ 0 \in A /\ \A i \in A : i + 1 \in A
  BY <1>1, <1>2
<1> HIDE DEF A
<1>4. A = Nat
  BY <1>3, Induction
<1>5. m <= m
  OBVIOUS
<1>6. a(m) = b(m)
  BY <1>4, <1>5 DEF A
<1> QED
  BY <1>6 DEF a, b

(* Events in numbers that no two of them share.                            *)
Numbered(events) ==
  /\ IsList(events) /\ DistinctSequences(events)
  /\ \A i \in DOMAIN events : events[i].sequence \in Int

NumbersOf(events) == {events[i].sequence : i \in DOMAIN events}

CountBelow(N, x) == Cardinality({y \in N : y < x})

(* An event's place is the count of the numbers below its own.             *)
LEMMA PlaceByNumber ==
  ASSUME NEW events, Numbered(events), NEW j \in DOMAIN events
  PROVE  Cardinality({k \in DOMAIN events : events[k].sequence < events[j].sequence})
           = CountBelow(NumbersOf(events), events[j].sequence)
<1> DEFINE x == events[j].sequence
           K == {k \in DOMAIN events : events[k].sequence < x}
           Y == {y \in NumbersOf(events) : y < x}
           g == [k \in K |-> events[k].sequence]
<1>1. Len(events) \in Nat /\ DOMAIN events = 1 .. Len(events)
  BY ListFacts DEF Numbered
<1>2. IsFiniteSet(DOMAIN events)
  <2>1. 1 \in Int /\ Len(events) \in Int
    BY <1>1
  <2>2. IsFiniteSet(1 .. Len(events))
    BY <2>1, FS_Interval
  <2> QED
    BY <1>1, <2>2
<1>3. IsFiniteSet(K)
  <2>1. K \in SUBSET DOMAIN events
    OBVIOUS
  <2> QED
    BY <1>2, <2>1, FS_Subset
<1>4. g \in [K -> Y]
  BY DEF NumbersOf
<1>5. g \in Injection(K, Y)
  <2>1. \A a, b \in K : g[a] = g[b] => a = b
    BY DEF Numbered, DistinctSequences
  <2> QED
    BY <1>4, <2>1 DEF Injection, IsInjective
<1>6. g \in Surjection(K, Y)
  <2>1. \A y \in Y : \E k \in K : g[k] = y
    BY DEF NumbersOf
  <2> QED
    BY <1>4, <2>1 DEF Surjection
<1>7. ExistsBijection(K, Y)
  BY <1>5, <1>6 DEF ExistsBijection, Bijection
<1>8. Cardinality(Y) = Cardinality(K)
  BY <1>3, <1>7, FS_Bijection
<1> QED
  BY <1>8 DEF CountBelow

LEMMA EventsInOrder ==
  ASSUME NEW events, Numbered(events)
  PROVE  LET n == Len(events)
             N == NumbersOf(events)
         IN  /\ n \in Nat /\ DOMAIN events = 1 .. n
             /\ IsFiniteSet(N) /\ Cardinality(N) = n /\ N \subseteq Int
             /\ \A i \in 1 .. n : \E j \in 1 .. n :
                  Ordered(events)[i] = events[j] /\ CountBelow(N, events[j].sequence) = i - 1
             /\ \A j \in 1 .. n : \E i \in 1 .. n : Ordered(events)[i] = events[j]
<1> DEFINE n == Len(events)
           S == 1 .. n
           N == NumbersOf(events)
           f == [i \in S |-> events[i].sequence]
           r(j) == Cardinality({k \in DOMAIN events : events[k].sequence < events[j].sequence})
           At(i) == CHOOSE j \in DOMAIN events : r(j) = i - 1
           o == Ordered(events)
<1>1. n \in Nat /\ DOMAIN events = S /\ \A i \in S : events[i].sequence \in Int
  BY ListFacts DEF Numbered
<1>2. IsFiniteSet(S) /\ Cardinality(S) = n
  <2>1. 1 \in Int /\ n \in Int
    BY <1>1
  <2>2. IsFiniteSet(S) /\ Cardinality(S) = IF 1 > n THEN 0 ELSE n - 1 + 1
    BY <2>1, FS_Interval
  <2> HIDE DEF n
  <2> QED
    BY <1>1, <2>2
<1>3. f \in [S -> Int] /\ \A i, j \in S : f[i] = f[j] => i = j
  BY <1>1 DEF Numbered, DistinctSequences
<1>4. \A j \in S : Cardinality(Below(S, f, j)) = r(j)
  <2> TAKE j \in S
  <2>1. Below(S, f, j) = {k \in DOMAIN events : events[k].sequence < events[j].sequence}
    BY <1>1 DEF Below
  <2> QED
    BY <2>1
<1>5. o = [i \in DOMAIN events |-> events[At(i)]]
  BY DEF Ordered
<1>6. \A j \in S : r(j) = CountBelow(N, events[j].sequence)
  BY <1>1, PlaceByNumber
<1>7. IsFiniteSet(N) /\ Cardinality(N) = n /\ N \subseteq Int
  <2>1. N = {f[i] : i \in S}
    BY <1>1 DEF NumbersOf
  <2> HIDE DEF N, f
  <2>2. N \subseteq Int
    BY <1>3, <2>1
  <2>3. f \in [S -> N]
    BY <1>3, <2>1
  <2>4. f \in Injection(S, N) /\ f \in Surjection(S, N)
    BY <1>3, <2>1, <2>3 DEF Injection, IsInjective, Surjection
  <2>5. ExistsBijection(S, N)
    BY <2>4 DEF ExistsBijection, Bijection
  <2> QED
    BY <1>2, <2>2, <2>5, FS_Bijection
<1> HIDE DEF r, f, o
<1>8. /\ \A j \in S : r(j) + 1 \in 1 .. n
      /\ \A i, j \in S : r(i) = r(j) => i = j
      /\ \A p \in 1 .. n : \E j \in S : r(j) = p - 1
  <2>1. /\ \A j \in S : Cardinality(Below(S, f, j)) + 1 \in 1 .. Cardinality(S)
        /\ \A i, j \in S : Cardinality(Below(S, f, i)) = Cardinality(Below(S, f, j)) => i = j
        /\ \A p \in 1 .. Cardinality(S) : \E j \in S : Cardinality(Below(S, f, j)) = p - 1
    BY <1>2, <1>3, RankIsPlace
  <2> QED
    BY <1>2, <1>4, <2>1
<1>9. \A i \in S : At(i) \in S /\ r(At(i)) = i - 1
  BY <1>1, <1>8
<1> HIDE DEF At, N
<1>10. \A i \in S : o[i] = events[At(i)]
  BY <1>1, <1>5
<1>11. \A i \in S : \E j \in S : o[i] = events[j] /\ CountBelow(N, events[j].sequence) = i - 1
  BY <1>6, <1>9, <1>10
<1>12. ASSUME NEW j \in S PROVE \E i \in S : o[i] = events[j]
  <2> DEFINE i == r(j) + 1
  <2>1. i \in S
    BY <1>8
  <2>2. r(j) \in Nat
    <3>1. {k \in DOMAIN events : events[k].sequence < events[j].sequence} \in SUBSET S
      BY <1>1
    <3>2. IsFiniteSet({k \in DOMAIN events : events[k].sequence < events[j].sequence})
      BY <1>2, <3>1, FS_Subset
    <3> QED
      BY <3>2, FS_CardinalityType DEF r
  <2>3. i - 1 = r(j)
    BY <2>2
  <2> HIDE DEF i
  <2>4. r(At(i)) = r(j) /\ At(i) \in S
    BY <1>9, <2>1, <2>3
  <2>5. At(i) = j
    BY <1>8, <2>4
  <2> QED
    BY <1>10, <2>1, <2>5
<1> QED
  BY <1>1, <1>7, <1>11, <1>12 DEF N, o

LEMMA CountsDecide ==
  ASSUME NEW N, IsFiniteSet(N), N \subseteq Int, NEW x \in N, NEW y \in N,
         CountBelow(N, x) = CountBelow(N, y)
  PROVE  x = y
<1> DEFINE f == [z \in N |-> z]
<1>1. f \in [N -> Int] /\ \A i, j \in N : f[i] = f[j] => i = j
  OBVIOUS
<1>2. \A z \in N : Below(N, f, z) = {w \in N : w < z}
  BY DEF Below
<1>3. Cardinality(Below(N, f, x)) = Cardinality(Below(N, f, y))
  BY <1>2 DEF CountBelow
<1> HIDE DEF f
<1>4. \A i, j \in N : Cardinality(Below(N, f, i)) = Cardinality(Below(N, f, j)) => i = j
  BY <1>1, RankIsPlace
<1> QED
  BY <1>3, <1>4

LinksOf(events) == {<<events[i].sequence, events[i].id>> : i \in DOMAIN events}

LEMMA SameLinksSameOrder ==
  ASSUME NEW d, NEW e, Numbered(d), Numbered(e), LinksOf(d) = LinksOf(e)
  PROVE  Len(d) = Len(e) /\ \A i \in 1 .. Len(e) : SameLink(Ordered(d)[i], Ordered(e)[i])
<1> DEFINE N == NumbersOf(e)
           n == Len(e)
<1>1. NumbersOf(d) \subseteq NumbersOf(e)
  <2> SUFFICES ASSUME NEW i \in DOMAIN d PROVE d[i].sequence \in NumbersOf(e)
    BY DEF NumbersOf
  <2>1. <<d[i].sequence, d[i].id>> \in LinksOf(e)
    BY DEF LinksOf
  <2> QED
    BY <2>1 DEF LinksOf, NumbersOf
<1>2. NumbersOf(e) \subseteq NumbersOf(d)
  <2> SUFFICES ASSUME NEW i \in DOMAIN e PROVE e[i].sequence \in NumbersOf(d)
    BY DEF NumbersOf
  <2>1. <<e[i].sequence, e[i].id>> \in LinksOf(d)
    BY DEF LinksOf
  <2> QED
    BY <2>1 DEF LinksOf, NumbersOf
<1>3. NumbersOf(d) = N
  BY <1>1, <1>2
<1>4. Len(d) = n
  BY <1>3, EventsInOrder
<1>5. IsFiniteSet(N) /\ N \subseteq Int /\ DOMAIN e = 1 .. n /\ DOMAIN d = 1 .. n
  BY <1>4, EventsInOrder
<1>6. ASSUME NEW i \in 1 .. n PROVE SameLink(Ordered(d)[i], Ordered(e)[i])
  <2>1. PICK p \in 1 .. n : Ordered(d)[i] = d[p] /\ CountBelow(N, d[p].sequence) = i - 1
    <3>1. \A k \in 1 .. Len(d) : \E j \in 1 .. Len(d) :
            Ordered(d)[k] = d[j] /\ CountBelow(NumbersOf(d), d[j].sequence) = k - 1
      BY EventsInOrder
    <3> HIDE DEF n, N
    <3> QED
      BY <1>3, <1>4, <3>1
  <2>2. PICK q \in 1 .. n : Ordered(e)[i] = e[q] /\ CountBelow(N, e[q].sequence) = i - 1
    BY EventsInOrder
  <2>3. d[p].sequence \in N /\ e[q].sequence \in N
    BY <1>3, <1>5 DEF NumbersOf
  <2>4. d[p].sequence = e[q].sequence
    BY <1>5, <2>1, <2>2, <2>3, CountsDecide
  <2>5. <<d[p].sequence, d[p].id>> \in LinksOf(e)
    BY <1>5 DEF LinksOf
  <2>6. PICK j \in DOMAIN e : <<d[p].sequence, d[p].id>> = <<e[j].sequence, e[j].id>>
    BY <2>5 DEF LinksOf
  <2>7. d[p].sequence = e[j].sequence /\ d[p].id = e[j].id
    BY <2>6
  <2>8. j = q
    BY <1>5, <2>4, <2>7 DEF Numbered, DistinctSequences
  <2> QED
    BY <2>1, <2>2, <2>4, <2>7, <2>8 DEF SameLink
<1> QED
  BY <1>4, <1>6

LEMMA FoldIsNoThrow ==
  ASSUME NEW events, IsList(events)
  PROVE  FoldChain(events) # Throws
<1> DEFINE n == Len(events)
           o == Ordered(events)
<1>1. n \in Nat
  BY ListFacts
<1>2. CASE n = 0
  BY <1>2, ChainFollows, LinksDiffer DEF FoldChain
<1>3. CASE n # 0
  <2>1. chainHeads(o)[n] = ChainLink(chainHeads(o)[n - 1], o[n])
    BY <1>1, <1>3, ChainFollows
  <2> QED
    BY <2>1, LinksDiffer DEF FoldChain
<1> QED
  BY <1>2, <1>3

LEMMA ShortChainDecides ==
  ASSUME NEW log, Numbered(log), OneReview(log), Len(log) <= MaxReviewEvents,
         NEW events, IsList(events), \A i \in DOMAIN events : events[i].sequence \in Int
  PROVE  verifyReviewChainHead(events, computeReviewChainHead(log)) = "verified"
           <=> /\ Len(events) <= MaxReviewEvents
               /\ OneReview(events) /\ DistinctSequences(events)
               /\ \A i \in DOMAIN events : events[i].honest
               /\ LinksOf(events) = LinksOf(log)
<1> DEFINE claimed == computeReviewChainHead(log)
           valid == /\ Len(events) <= MaxReviewEvents
                    /\ OneReview(events) /\ DistinctSequences(events)
                    /\ \A i \in DOMAIN events : events[i].honest
           m == Len(events)
           n == Len(log)
           o == Ordered(events)
           p == Ordered(log)
<1>1. claimed = FoldChain(log) /\ claimed # Throws
  BY FoldIsNoThrow DEF computeReviewChainHead, Numbered
<1>2. verifyReviewChainHead(events, claimed) = "verified"
        <=> valid /\ FoldChain(events) = claimed
  <2> DEFINE fold == FoldChain(events)
  <2>1. verifyReviewChainHead(events, claimed) =
          CASE claimed = Throws -> "invalid_claimed_head"
            [] claimed # Throws /\ ~valid -> "invalid_events"
            [] claimed # Throws /\ valid -> IF fold = claimed THEN "verified" ELSE "head_mismatch"
    BY DEF verifyReviewChainHead
  <2> HIDE DEF claimed, valid, fold
  <2>2. CASE valid
    BY <1>1, <2>1, <2>2 DEF fold
  <2>3. CASE ~valid
    BY <1>1, <2>1, <2>3 DEF fold
  <2> QED
    BY <2>2, <2>3
<1>3. m \in Nat /\ n \in Nat
  BY ListFacts DEF Numbered
<1>4. ASSUME valid PROVE FoldChain(events) = claimed <=> LinksOf(events) = LinksOf(log)
  <2>1. Numbered(events)
    BY <1>4 DEF Numbered
  <2>2. DOMAIN events = 1 .. m /\ DOMAIN log = 1 .. n
    BY <2>1, EventsInOrder
  <2>3. ASSUME FoldChain(events) = claimed PROVE LinksOf(events) = LinksOf(log)
    <3>1. chainHeads(o)[m] = chainHeads(p)[n]
      BY <1>1, <2>3 DEF FoldChain
    <3>2. m = n /\ \A k \in 1 .. m : SameLink(o[k], p[k])
      BY <1>3, <3>1, ChainDecides
    <3>3. /\ \A j \in 1 .. m : \E i \in 1 .. m : o[i] = events[j]
          /\ \A i \in 1 .. m : \E j \in 1 .. m : o[i] = events[j]
      BY <2>1, EventsInOrder
    <3>4. /\ \A j \in 1 .. n : \E i \in 1 .. n : p[i] = log[j]
          /\ \A i \in 1 .. n : \E j \in 1 .. n : p[i] = log[j]
      BY EventsInOrder
    <3> HIDE DEF m, n, o, p
    <3>5. ASSUME NEW j \in 1 .. m
          PROVE  \E k \in 1 .. n : SameLink(events[j], log[k])
      <4>1. PICK i \in 1 .. m : o[i] = events[j]
        BY <3>3
      <4>2. PICK k \in 1 .. n : p[i] = log[k]
        BY <3>2, <3>4
      <4> QED
        BY <3>2, <4>1, <4>2
    <3>6. ASSUME NEW k \in 1 .. n
          PROVE  \E j \in 1 .. m : SameLink(events[j], log[k])
      <4>1. PICK i \in 1 .. n : p[i] = log[k]
        BY <3>4
      <4>2. PICK j \in 1 .. m : o[i] = events[j]
        BY <3>2, <3>3
      <4> QED
        BY <3>2, <4>1, <4>2
    <3>7. LinksOf(events) \subseteq LinksOf(log)
      BY <2>2, <3>5 DEF LinksOf, SameLink
    <3>8. LinksOf(log) \subseteq LinksOf(events)
      <4> SUFFICES ASSUME NEW k \in 1 .. n PROVE <<log[k].sequence, log[k].id>> \in LinksOf(events)
        BY <2>2 DEF LinksOf
      <4>1. PICK j \in 1 .. m : SameLink(events[j], log[k])
        BY <3>6
      <4> QED
        BY <2>2, <4>1 DEF LinksOf, SameLink
    <3> QED
      BY <3>7, <3>8
  <2>4. ASSUME LinksOf(events) = LinksOf(log) PROVE FoldChain(events) = claimed
    <3>1. m = n /\ \A i \in 1 .. n : SameLink(o[i], p[i])
      BY <2>1, <2>4, SameLinksSameOrder
    <3>2. chainHeads(o)[n] = chainHeads(p)[n]
      BY <1>3, <3>1, ChainsAgree
    <3> QED
      BY <1>1, <3>1, <3>2 DEF FoldChain
  <2> QED
    BY <2>3, <2>4
<1> HIDE DEF claimed
<1> QED
  BY <1>2, <1>4 DEF claimed

(* A recomputed head decides: the public verifier accepts events against   *)
(* the head that computeReviewChainHead gave for a log just when they are  *)
(* of one review, true to their ids, numbered once each, and the log's     *)
(* own numbers and ids, and neither is longer than MAX_REVIEW_EVENTS.      *)
THEOREM ChainHeadDecides ==
  ASSUME NEW log, Numbered(log), OneReview(log),
         NEW events, IsList(events), \A i \in DOMAIN events : events[i].sequence \in Int
  PROVE  verifyReviewChainHead(events, computeReviewChainHead(log)) = "verified"
           <=> /\ Len(log) <= MaxReviewEvents /\ Len(events) <= MaxReviewEvents
               /\ OneReview(events) /\ DistinctSequences(events)
               /\ \A i \in DOMAIN events : events[i].honest
               /\ LinksOf(events) = LinksOf(log)
<1>1. CASE Len(log) <= MaxReviewEvents
  BY <1>1, ShortChainDecides
<1>2. CASE ~(Len(log) <= MaxReviewEvents)
  <2> DEFINE claimed == computeReviewChainHead(log)
             verdict == verifyReviewChainHead(events, claimed)
  <2>1. claimed = Throws
    BY <1>2 DEF computeReviewChainHead
  <2>2. claimed = Throws => verdict = "invalid_claimed_head"
    BY DEF verifyReviewChainHead
  <2>3. "invalid_claimed_head" # "verified"
    OBVIOUS
  <2> HIDE DEF claimed, verdict
  <2>4. verdict # "verified"
    BY <2>1, <2>2, <2>3
  <2> QED
    BY <1>2, <2>4 DEF claimed, verdict
<1> QED
  BY <1>1, <1>2

-----------------------------------------------------------------------------
(* The proofs of MCRecords.                                                *)

LEMMA HeadsAreHeads ==
  ASSUME NEW n \in 1 .. MaxHeads
  PROVE  /\ n \in Nat /\ IsHeads(HeadsOf(n)) /\ Cardinality(DOMAIN HeadsOf(n)) = n /\ n <= MaxTree
         /\ DOMAIN HeadsOf(n) = 1 .. n
         /\ \A r \in 1 .. n : PlaceOf(r, HeadsOf(n)) = r - 1
<1>1. n \in Nat /\ n >= 1 /\ n <= MaxTree
  BY HeadsAssumption, SMT DEF MaxTree
<1>2. DOMAIN HeadsOf(n) = 1 .. n
  BY DEF HeadsOf
<1>3. IsFiniteSet(1 .. n) /\ Cardinality(1 .. n) = n
  BY <1>1, FS_Interval
<1>4. 1 .. n # {} /\ 1 .. n \subseteq Int
  BY <1>1
<1>5. ASSUME NEW r \in 1 .. n PROVE PlaceOf(r, HeadsOf(n)) = r - 1
  <2>1. {q \in 1 .. n : q < r} = 1 .. (r - 1)
    BY <1>1
  <2>2. r - 1 \in Int /\ (r - 1) - 1 + 1 = r - 1 /\ (1 > r - 1 => r - 1 = 0)
    BY <1>1
  <2>3. Cardinality(1 .. (r - 1)) = r - 1
    BY <2>2, FS_Interval
  <2> QED
    BY <1>2, <2>1, <2>3 DEF PlaceOf
<1> QED
  BY <1>1, <1>2, <1>3, <1>4, <1>5 DEF IsHeads

LEMMA ChainIsNumbered ==
  ASSUME NEW n \in 1 .. MaxHeads
  PROVE  /\ Numbered(ChainEvents(n)) /\ OneReview(ChainEvents(n))
         /\ DOMAIN ChainEvents(n) = 1 .. n /\ Len(ChainEvents(n)) = n
         /\ \A i \in 1 .. n :
              /\ ChainEvents(n)[i].sequence = i /\ ChainEvents(n)[i].id = <<"event", i>>
              /\ ChainEvents(n)[i].review = "r1" /\ ChainEvents(n)[i].honest
<1> DEFINE c == ChainEvents(n)
<1>1. n \in Nat
  BY HeadsAssumption
<1>2. DOMAIN c = 1 .. n
  BY DEF ChainEvents
<1>3. \A i \in 1 .. n : /\ c[i].sequence = i /\ c[i].id = <<"event", i>>
                        /\ c[i].review = "r1" /\ c[i].honest
  BY DEF ChainEvents
<1>4. c = [i \in 1 .. n |-> c[i]]
  BY DEF ChainEvents
<1> HIDE DEF c
<1>5. IsList(c) /\ Len(c) = n
  BY <1>1, <1>4, FunctionIsList
<1>6. Numbered(c) /\ OneReview(c)
  BY <1>1, <1>2, <1>3, <1>5 DEF Numbered, DistinctSequences, OneReview
<1> QED
  BY <1>2, <1>3, <1>5, <1>6 DEF c

ProofFields == {"size", "review", "hash", "index", "width", "siblings"}

(* A proof that was not changed is the checkpoint's own. *)
ProofIsShaped ==
  kind = "proof" =>
    /\ DOMAIN rec = ProofFields /\ rec.size \in 1 .. MaxHeads
    /\ rec.review \in Int /\ rec.index \in Int /\ rec.width \in Int
    /\ edits = 0 => \E r \in 1 .. rec.size : rec = ProofOf(rec.size, r)

EventFields == {"review", "sequence", "id", "honest"}

(* An event of a drafted chain is one of the log or shows that it is not. *)
IsDrafted(e, n) ==
  /\ DOMAIN e = EventFields /\ e.sequence \in Int
  /\ \/ \E i \in 1 .. n : e = ChainEvents(n)[i]
     \/ e.honest = FALSE
     \/ e.id = <<"event", 0>>

(* No edit makes a chain longer than the log it is of. *)
IsDraftedChain(s, n) ==
  IsList(s) /\ Len(s) <= n /\ \A i \in DOMAIN s : IsDrafted(s[i], n)

ChainIsShaped ==
  kind = "chain" =>
    /\ DOMAIN rec = {"size", "events"} /\ rec.size \in 1 .. MaxHeads
    /\ IsDraftedChain(rec.events, rec.size)

ProofHolds == edits \in Nat /\ ProofIsShaped /\ ChainIsShaped

LEMMA ChangedIsDrafted ==
  ASSUME NEW n, NEW e, DOMAIN e = EventFields, e.sequence \in Int, NEW c \in Changed(e)
  PROVE  IsDrafted(c, n)
<1>1. CASE c = [e EXCEPT !.honest = FALSE]
  <2>1. DOMAIN c = EventFields /\ c.sequence = e.sequence /\ c.honest = FALSE
    BY <1>1 DEF EventFields
  <2> QED
    BY <2>1 DEF IsDrafted
<1>2. CASE c = [e EXCEPT !.id = <<"event", 0>>]
  <2>1. DOMAIN c = EventFields /\ c.sequence = e.sequence /\ c.id = <<"event", 0>>
    BY <1>2 DEF EventFields
  <2> QED
    BY <2>1 DEF IsDrafted
<1> QED
  BY <1>1, <1>2 DEF Changed

LEMMA OtherIsDrafted ==
  ASSUME NEW n, NEW e, IsDrafted(e, n),
         NEW c \in Changed(e) \cup Changed([e EXCEPT !.review = "r2"])
                     \cup Changed([e EXCEPT !.sequence = 2])
                     \cup Changed([e EXCEPT !.sequence = 0])
  PROVE  IsDrafted(c, n)
<1> DEFINE a == [e EXCEPT !.review = "r2"]
           b == [e EXCEPT !.sequence = 2]
           d == [e EXCEPT !.sequence = 0]
<1>1. DOMAIN e = EventFields /\ e.sequence \in Int
  BY DEF IsDrafted
<1>2. DOMAIN a = EventFields /\ a.sequence \in Int
  BY <1>1 DEF EventFields
<1>3. DOMAIN b = EventFields /\ b.sequence \in Int
  BY <1>1 DEF EventFields
<1>4. DOMAIN d = EventFields /\ d.sequence \in Int
  BY <1>1 DEF EventFields
<1>5. c \in Changed(e) \/ c \in Changed(a) \/ c \in Changed(b) \/ c \in Changed(d)
  OBVIOUS
<1> HIDE DEF a, b, d
<1> QED
  BY <1>1, <1>2, <1>3, <1>4, <1>5, ChangedIsDrafted

LEMMA EditedChain ==
  ASSUME NEW n \in Nat, NEW s, IsDraftedChain(s, n), NEW t \in EventEdits(s)
  PROVE  IsDraftedChain(t, n)
<1> DEFINE m == Len(s)
           D == {s[i] : i \in 1 .. m}
<1>1. m \in Nat /\ m <= n /\ DOMAIN s = 1 .. m
  BY ListFacts DEF IsDraftedChain
<1>2. \A e \in D : IsDrafted(e, n)
  BY <1>1 DEF IsDraftedChain
<1>3. CASE \E i \in 1 .. m : t = Without(s, i)
  <2>1. PICK i \in 1 .. m : t = Without(s, i)
    BY <1>3
  <2>2. s \in Seq(D)
    <3>1. PICK S : s \in Seq(S)
      BY DEF IsDraftedChain, IsList
    <3> QED
      BY <3>1
  <2>3. Len(s) = m
    OBVIOUS
  <2> HIDE DEF m, D
  <2>4. SubSeq(s, 1, i - 1) \in Seq(D) /\ SubSeq(s, i + 1, Len(s)) \in Seq(D)
    BY <1>1, <2>2, <2>3
  <2>5. Len(SubSeq(s, 1, i - 1)) = i - 1 /\ Len(SubSeq(s, i + 1, Len(s))) = m - i
    BY <1>1, <2>2, <2>3
  <2>6. t \in Seq(D) /\ Len(t) = (i - 1) + (m - i)
    <3> DEFINE u == SubSeq(s, 1, i - 1)
               w == SubSeq(s, i + 1, Len(s))
    <3>1. t = u \o w
      BY <2>1 DEF Without
    <3> HIDE DEF u, w
    <3>2. u \in Seq(D) /\ w \in Seq(D) /\ Len(u) = i - 1 /\ Len(w) = m - i
      BY <2>4, <2>5 DEF u, w
    <3>3. u \o w \in Seq(D) /\ Len(u \o w) = Len(u) + Len(w)
      BY <3>2, ConcatProperties
    <3> QED
      BY <3>1, <3>2, <3>3
  <2>7. Len(t) <= n
    BY <1>1, <2>6
  <2>8. \A j \in DOMAIN t : t[j] \in D
    BY <2>6
  <2>9. IsList(t)
    BY <2>6 DEF IsList
  <2> QED
    BY <1>2, <2>7, <2>8, <2>9 DEF IsDraftedChain
<1>4. CASE \E i \in 1 .. m - 1 : t = SwapEvents(s, i)
  <2>1. PICK i \in 1 .. m - 1 : t = SwapEvents(s, i)
    BY <1>4
  <2>2. i \in 1 .. m /\ i + 1 \in 1 .. m
    BY <1>1
  <2>3. /\ t = [j \in 1 .. m |-> t[j]]
        /\ \A j \in 1 .. m : t[j] = IF j = i + 1 THEN s[i] ELSE IF j = i THEN s[i + 1] ELSE s[j]
    BY <1>1, <2>1, <2>2 DEF SwapEvents
  <2> HIDE DEF m
  <2>4. IsList(t) /\ Len(t) = m
    BY <1>1, <2>3, FunctionIsList
  <2>5. \A j \in 1 .. m : t[j] \in D
    BY <1>1, <2>2, <2>3
  <2>6. DOMAIN t = 1 .. m
    BY <2>3
  <2> QED
    BY <1>1, <1>2, <2>4, <2>5, <2>6 DEF IsDraftedChain
<1>5. CASE \E i \in 1 .. m : \E e : IsDrafted(e, n) /\ t = [s EXCEPT ![i] = e]
  <2>0. PICK i \in 1 .. m : \E e : IsDrafted(e, n) /\ t = [s EXCEPT ![i] = e]
    BY <1>5
  <2>1. PICK e : IsDrafted(e, n) /\ t = [s EXCEPT ![i] = e]
    BY <2>0
  <2>2. /\ t = [j \in 1 .. m |-> t[j]]
        /\ \A j \in 1 .. m : t[j] = IF j = i THEN e ELSE s[j]
    BY <1>1, <2>1
  <2> HIDE DEF m
  <2>3. IsList(t) /\ Len(t) = m
    BY <1>1, <2>2, FunctionIsList
  <2>4. \A j \in 1 .. m : t[j] \in D \/ t[j] = e
    BY <1>1, <2>2
  <2>5. DOMAIN t = 1 .. m
    BY <2>2
  <2> QED
    BY <1>1, <1>2, <2>1, <2>3, <2>4, <2>5 DEF IsDraftedChain
<1>6. ASSUME NEW i \in 1 .. m, NEW e \in Changed(s[i]) \cup Changed([s[i] EXCEPT !.review = "r2"])
                          \cup Changed([s[i] EXCEPT !.sequence = 2])
                          \cup Changed([s[i] EXCEPT !.sequence = 0])
      PROVE  IsDrafted(e, n)
  <2>1. IsDrafted(s[i], n)
    BY <1>2
  <2> QED
    BY <2>1, OtherIsDrafted
<1> DEFINE C(i) == Changed(s[i]) \cup Changed([s[i] EXCEPT !.review = "r2"])
                     \cup Changed([s[i] EXCEPT !.sequence = 2])
                     \cup Changed([s[i] EXCEPT !.sequence = 0])
<1>7. t \in {Without(s, i) : i \in 1 .. m} \cup {SwapEvents(s, i) : i \in 1 .. m - 1}
            \cup UNION {{[s EXCEPT ![i] = e] : e \in C(i)} : i \in 1 .. m}
  BY <1>1 DEF EventEdits
<1>8. \A i \in 1 .. m : \A e \in C(i) : IsDrafted(e, n)
  BY <1>6
<1> HIDE DEF C, m
<1> QED
  BY <1>3, <1>4, <1>5, <1>7, <1>8

LEMMA ProofInit == Init => ProofHolds
<1> SUFFICES ASSUME Init PROVE ProofHolds
  OBVIOUS
<1>1. edits = 0
  BY DEF Init, RecordInit
<1>2. CASE \E n \in 1 .. MaxHeads : \E r \in 1 .. n : kind = "proof" /\ rec = ProofOf(n, r)
  <2>1. PICK n \in 1 .. MaxHeads : \E r \in 1 .. n : kind = "proof" /\ rec = ProofOf(n, r)
    BY <1>2
  <2>2. PICK r \in 1 .. n : kind = "proof" /\ rec = ProofOf(n, r)
    BY <2>1
  <2>3. n \in Nat /\ r \in Int
    BY HeadsAssumption
  <2>4. inclusionProof(r, HeadsOf(n)).leaf_index = r - 1
    BY HeadsAreHeads DEF inclusionProof, PlaceOf
  <2>5. /\ DOMAIN rec = ProofFields /\ rec.size = n /\ rec.review = r /\ rec.width = n
        /\ rec.index = inclusionProof(r, HeadsOf(n)).leaf_index
    BY <2>2 DEF ProofOf, ProofFields
  <2>6. rec.index \in Int
    BY <2>3, <2>4, <2>5
  <2> QED
    BY <1>1, <2>2, <2>3, <2>5, <2>6 DEF ProofHolds, ProofIsShaped, ChainIsShaped
<1>3. CASE \E n \in 1 .. MaxHeads : kind = "chain" /\ rec = ChainOf(n)
  <2>1. PICK n \in 1 .. MaxHeads : kind = "chain" /\ rec = ChainOf(n)
    BY <1>3
  <2>2. n \in Nat
    BY HeadsAssumption
  <2>3. DOMAIN rec = {"size", "events"} /\ rec.size = n /\ rec.events = ChainEvents(n)
    BY <2>1 DEF ChainOf
  <2>4. /\ Numbered(ChainEvents(n)) /\ Len(ChainEvents(n)) = n
        /\ DOMAIN ChainEvents(n) = 1 .. n
    BY ChainIsNumbered
  <2>5. \A i \in 1 .. n : DOMAIN ChainEvents(n)[i] = EventFields
    BY DEF ChainEvents, EventFields
  <2>6. \A i \in 1 .. n : IsDrafted(ChainEvents(n)[i], n)
    BY <2>4, <2>5 DEF IsDrafted, Numbered
  <2>7. IsDraftedChain(ChainEvents(n), n)
    BY <2>2, <2>4, <2>6 DEF IsDraftedChain, Numbered
  <2> QED
    BY <1>1, <2>1, <2>3, <2>7 DEF ProofHolds, ProofIsShaped, ChainIsShaped
<1>4. CASE kind \notin {"proof", "chain"}
  BY <1>1, <1>4 DEF ProofHolds, ProofIsShaped, ChainIsShaped
<1>5. kind \in {"proof", "chain"} => \E p \in HonestProofs : kind = p[1] /\ rec = p[2]
  BY HonestKinds DEF Init, RecordInit, Nothing
<1>6. ASSUME NEW p \in HonestProofs, kind = p[1], rec = p[2]
      PROVE  \/ \E n \in 1 .. MaxHeads : \E r \in 1 .. n : kind = "proof" /\ rec = ProofOf(n, r)
             \/ \E n \in 1 .. MaxHeads : kind = "chain" /\ rec = ChainOf(n)
  <2>1. CASE \E n \in 1 .. MaxHeads : \E r \in 1 .. n : p = <<"proof", ProofOf(n, r)>>
    BY <1>6, <2>1
  <2>2. CASE \E n \in 1 .. MaxHeads : p = <<"chain", ChainOf(n)>>
    BY <1>6, <2>2
  <2> QED
    BY <2>1, <2>2 DEF HonestProofs
<1> QED
  BY <1>2, <1>3, <1>4, <1>5, <1>6

LEMMA EditProofKeeps == ASSUME ProofHolds, EditProof PROVE ProofHolds'
<1>1. kind \in {"proof", "chain"} /\ kind' = kind /\ edits' = edits + 1 /\ edits \in Nat
  BY DEF EditProof, ProofKinds, ProofHolds
<1>2. PICK f \in DOMAIN rec : \E v \in ProofAlternatives(f) : rec' = [rec EXCEPT ![f] = v]
  BY DEF EditProof
<1>3. PICK v \in ProofAlternatives(f) : rec' = [rec EXCEPT ![f] = v]
  BY <1>2
<1>4. DOMAIN rec' = DOMAIN rec /\ \A c \in DOMAIN rec : rec'[c] = IF c = f THEN v ELSE rec[c]
  BY <1>3
<1>5. edits' \in Nat /\ edits' # 0
  BY <1>1
<1>6. f # "size"
  BY <1>3 DEF ProofAlternatives
<1>7. CASE kind = "proof"
  <2>1. /\ DOMAIN rec = ProofFields /\ rec.size \in 1 .. MaxHeads
        /\ rec.review \in Int /\ rec.index \in Int /\ rec.width \in Int
    BY <1>7 DEF ProofHolds, ProofIsShaped
  <2>2. /\ rec'.size = rec.size
        /\ rec'.review = IF f = "review" THEN v ELSE rec.review
        /\ rec'.index = IF f = "index" THEN v ELSE rec.index
        /\ rec'.width = IF f = "width" THEN v ELSE rec.width
    BY <1>4, <1>6, <2>1 DEF ProofFields
  <2>3. rec.size \in Int
    BY <2>1, HeadsAssumption
  <2>4. f \in {"review", "index", "width"} => v \in 1 .. rec.size + 1 \/ v \in 0 .. rec.size
    BY <1>3 DEF ProofAlternatives
  <2>5. f \in {"review", "index", "width"} => v \in Int
    BY <2>3, <2>4
  <2> QED
    BY <1>1, <1>4, <1>5, <1>7, <2>1, <2>2, <2>5 DEF ProofHolds, ProofIsShaped, ChainIsShaped
<1>8. CASE kind = "chain"
  <2>1. /\ DOMAIN rec = {"size", "events"} /\ rec.size \in 1 .. MaxHeads
        /\ IsDraftedChain(rec.events, rec.size)
    BY <1>8 DEF ProofHolds, ChainIsShaped
  <2>2. f = "events" /\ rec'.size = rec.size /\ rec'.events = v
    BY <1>4, <1>6, <2>1
  <2>3. v \in EventEdits(rec.events)
    BY <1>3, <2>2 DEF ProofAlternatives
  <2>4. rec.size \in Nat
    BY <2>1, HeadsAssumption
  <2>5. IsDraftedChain(v, rec.size)
    BY <2>1, <2>3, <2>4, EditedChain
  <2> QED
    BY <1>1, <1>4, <1>5, <1>8, <2>1, <2>2, <2>5 DEF ProofHolds, ProofIsShaped, ChainIsShaped
<1> QED
  BY <1>1, <1>7, <1>8

LEMMA ProofStep == ProofHolds /\ [Next]_vars => ProofHolds'
<1> SUFFICES ASSUME ProofHolds, [Next]_vars PROVE ProofHolds'
  OBVIOUS
<1>1. CASE EditProof
  BY <1>1, EditProofKeeps
<1>2. CASE kind \notin {"proof", "chain"} /\ kind' = kind /\ edits' \in {edits, edits + 1}
  BY <1>2 DEF ProofHolds, ProofIsShaped, ChainIsShaped
<1>3. CASE UNCHANGED recordVars
  BY <1>3 DEF ProofHolds, ProofIsShaped, ChainIsShaped, recordVars
<1>4. kind \in DOMAIN Honest \cup {"text"} => kind \notin {"proof", "chain"}
  BY HonestKinds
<1>5. ASSUME NEW w, Type(w) PROVE kind \in {"text"} /\ kind' = kind /\ edits' = edits
  BY <1>5 DEF Type
<1>6. CASE Edit \/ EditClassification \/ EditPackageRecord \/ EditContext \/ EditEnvelope
  <2>1. kind \in DOMAIN Honest
    BY <1>6, HonestKinds
       DEF Edit, EditClassification, EditPackageRecord, EditContext, EditEnvelope, Kinds, PackageKinds
  <2>2. kind' = kind /\ edits' = edits + 1
    BY <1>6 DEF Edit, EditClassification, EditPackageRecord, EditContext, EditEnvelope
  <2> QED
    BY <1>2, <1>4, <2>1, <2>2
<1> QED
  BY <1>1, <1>2, <1>3, <1>4, <1>5, <1>6 DEF Next, RecordNext, vars

LEMMA SurjectionIsOnce ==
  ASSUME NEW S, NEW T, IsFiniteSet(S), Cardinality(S) <= Cardinality(T), NEW f \in [S -> T],
         \A k \in T : \E i \in S : f[i] = k,
         NEW i \in S, NEW j \in S, f[i] = f[j]
  PROVE  i = j
<1>1. f \in Surjection(S, T)
  BY DEF Surjection
<1>2. /\ IsFiniteSet(T) /\ Cardinality(T) <= Cardinality(S)
      /\ Cardinality(T) = Cardinality(S) <=> f \in Injection(S, T)
  BY <1>1, FS_Surjection
<1>3. Cardinality(S) \in Nat /\ Cardinality(T) \in Nat
  BY <1>2, FS_CardinalityType
<1>4. f \in Injection(S, T)
  BY <1>2, <1>3
<1> QED
  BY <1>4 DEF Injection, IsInjective

LEMMA ProofDecides ==
  ASSUME ProofHolds, kind = "proof"
  PROVE  LET verified == verifyInclusionProof([review_id |-> rec.review, head_hash |-> rec.hash],
                           [review_id |-> rec.review, leaf_index |-> rec.index,
                            tree_size |-> rec.width, siblings |-> rec.siblings],
                           computeCheckpoint(HeadsOf(rec.size)).merkle_root) IN
         /\ edits = 0 => verified
         /\ verified => /\ rec.review \in 1 .. rec.size /\ rec.hash = HeadsOf(rec.size)[rec.review]
                        /\ rec.width = rec.size => rec.index = rec.review - 1
<1> DEFINE n == rec.size
           heads == HeadsOf(n)
           head == [review_id |-> rec.review, head_hash |-> rec.hash]
           proof == [review_id |-> rec.review, leaf_index |-> rec.index,
                     tree_size |-> rec.width, siblings |-> rec.siblings]
           root == computeCheckpoint(heads).merkle_root
           verified == verifyInclusionProof(head, proof, root)
<1>1. /\ n \in 1 .. MaxHeads /\ rec.index \in Int /\ rec.width \in Int
      /\ edits = 0 => \E r \in 1 .. n : rec = ProofOf(n, r)
  BY DEF ProofHolds, ProofIsShaped
<1>2. /\ IsHeads(heads) /\ Cardinality(DOMAIN heads) = n /\ n <= MaxTree /\ DOMAIN heads = 1 .. n
      /\ \A r \in 1 .. n : PlaceOf(r, heads) = r - 1
  BY <1>1, HeadsAreHeads
<1>3. ASSUME edits = 0 PROVE verified
  <2>1. PICK r \in 1 .. n : rec = ProofOf(n, r)
    BY <1>1, <1>3
  <2> HIDE DEF heads, n
  <2>2. verifyInclusionProof([review_id |-> r, head_hash |-> heads[r]], inclusionProof(r, heads), root)
    BY <1>2, <2>1, EveryHeadVerifies
  <2>3. /\ rec.review = r /\ rec.hash = heads[r] /\ rec.width = n
        /\ rec.index = inclusionProof(r, heads).leaf_index
        /\ rec.siblings = inclusionProof(r, heads).siblings
    BY <2>1 DEF ProofOf, heads
  <2>4. inclusionProof(r, heads) = [review_id |-> r, leaf_index |-> inclusionProof(r, heads).leaf_index,
                                    tree_size |-> n, siblings |-> inclusionProof(r, heads).siblings]
    BY <1>2 DEF inclusionProof
  <2> QED
    BY <2>2, <2>3, <2>4
<1>4. ASSUME verified
      PROVE  /\ rec.review \in 1 .. n /\ rec.hash = heads[rec.review]
             /\ rec.width = n => rec.index = rec.review - 1
  <2>1. /\ proof.leaf_index = rec.index /\ proof.tree_size = rec.width
        /\ head.review_id = rec.review /\ head.head_hash = rec.hash
    OBVIOUS
  <2> HIDE DEF head, proof, heads, n
  <2>2. /\ head.review_id \in DOMAIN heads /\ head.head_hash = heads[head.review_id]
        /\ proof.tree_size = Cardinality(DOMAIN heads) =>
             proof.leaf_index = PlaceOf(head.review_id, heads)
    BY <1>1, <1>2, <1>4, <2>1, VerifiedIsHead
  <2> QED
    BY <1>2, <2>1, <2>2
<1> QED
  BY <1>3, <1>4

LEMMA ChainIsDecided ==
  ASSUME NEW n \in 1 .. MaxHeads, NEW s, IsDraftedChain(s, n)
  PROVE  verifyReviewChainHead(s, computeReviewChainHead(ChainEvents(n))) = "verified"
           <=> /\ n <= MaxReviewEvents
               /\ {s[i] : i \in DOMAIN s} = {ChainEvents(n)[i] : i \in 1 .. n}
<1> DEFINE c == ChainEvents(n)
           m == Len(s)
           Same == {s[i] : i \in DOMAIN s} = {c[i] : i \in 1 .. n}
<1>1. /\ IsList(s) /\ m <= n /\ \A i \in DOMAIN s : IsDrafted(s[i], n)
  BY DEF IsDraftedChain
<1>2. m \in Nat /\ DOMAIN s = 1 .. m /\ n \in Nat
  BY <1>1, ListFacts, HeadsAssumption
<1>3. /\ Numbered(c) /\ OneReview(c) /\ DOMAIN c = 1 .. n /\ Len(c) = n
      /\ \A i \in 1 .. n : /\ c[i].sequence = i /\ c[i].id = <<"event", i>>
                           /\ c[i].review = "r1" /\ c[i].honest
  BY ChainIsNumbered
<1>4. \A i \in 1 .. m : /\ s[i].sequence \in Int
                        /\ \/ \E k \in 1 .. n : s[i] = c[k]
                           \/ s[i].honest = FALSE
                           \/ s[i].id = <<"event", 0>>
  BY <1>1, <1>2 DEF IsDrafted
<1> DEFINE w == Len(c)
<1>a. n <= MaxReviewEvents => m <= MaxReviewEvents
  BY <1>1, <1>2, ReviewEventsAssumption
<1> HIDE DEF c, w
<1>5. verifyReviewChainHead(s, computeReviewChainHead(c)) = "verified"
        <=> /\ n <= MaxReviewEvents
            /\ OneReview(s) /\ DistinctSequences(s) /\ \A i \in DOMAIN s : s[i].honest
            /\ LinksOf(s) = LinksOf(c)
  <2>1. \A i \in DOMAIN s : s[i].sequence \in Int
    BY <1>2, <1>4
  <2>2. verifyReviewChainHead(s, computeReviewChainHead(c)) = "verified"
          <=> /\ w <= MaxReviewEvents /\ m <= MaxReviewEvents
              /\ OneReview(s) /\ DistinctSequences(s) /\ \A i \in DOMAIN s : s[i].honest
              /\ LinksOf(s) = LinksOf(c)
    BY <1>1, <1>3, <2>1, ChainHeadDecides DEF w
  <2>3. w = n
    BY <1>3 DEF w
  <2> HIDE DEF m
  <2> QED
    BY <1>a, <2>2, <2>3
<1> HIDE DEF m
<1>6. ASSUME \A i \in DOMAIN s : s[i].honest, LinksOf(s) = LinksOf(c) PROVE Same
  <2>1. ASSUME NEW i \in 1 .. m PROVE \E k \in 1 .. n : s[i] = c[k]
    <3>1. <<s[i].sequence, s[i].id>> \in LinksOf(c)
      BY <1>2, <1>6 DEF LinksOf
    <3>2. PICK k \in 1 .. n : <<s[i].sequence, s[i].id>> = <<c[k].sequence, c[k].id>>
      BY <1>3, <3>1 DEF LinksOf
    <3>3. s[i].id = <<"event", k>> /\ k # 0
      BY <1>2, <1>3, <3>2
    <3>4. s[i].id # <<"event", 0>>
      BY <3>3
    <3>5. s[i].honest # FALSE
      BY <1>2, <1>6
    <3> QED
      BY <1>4, <3>4, <3>5
  <2>2. ASSUME NEW k \in 1 .. n PROVE \E i \in 1 .. m : s[i] = c[k]
    <3>1. <<c[k].sequence, c[k].id>> \in LinksOf(s)
      BY <1>3, <1>6 DEF LinksOf
    <3>2. PICK i \in 1 .. m : <<c[k].sequence, c[k].id>> = <<s[i].sequence, s[i].id>>
      BY <1>2, <3>1 DEF LinksOf
    <3>3. PICK j \in 1 .. n : s[i] = c[j]
      BY <2>1
    <3>4. j = k
      BY <1>3, <3>2, <3>3
    <3> QED
      BY <3>3, <3>4
  <2>3. {s[i] : i \in DOMAIN s} \subseteq {c[k] : k \in 1 .. n}
    BY <1>2, <2>1
  <2>4. {c[k] : k \in 1 .. n} \subseteq {s[i] : i \in DOMAIN s}
    BY <1>2, <2>2
  <2> QED
    BY <2>3, <2>4
<1>7. ASSUME Same
      PROVE  /\ OneReview(s) /\ DistinctSequences(s) /\ \A i \in DOMAIN s : s[i].honest
             /\ LinksOf(s) = LinksOf(c)
  <2>1. \A i \in 1 .. m : \E k \in 1 .. n : s[i] = c[k]
    BY <1>2, <1>7
  <2>2. \A k \in 1 .. n : \E i \in 1 .. m : s[i] = c[k]
    BY <1>2, <1>7
  <2>3. OneReview(s) /\ \A i \in DOMAIN s : s[i].honest
    <3>1. \A i \in 1 .. m : s[i].review = "r1" /\ s[i].honest
      BY <1>3, <2>1
    <3> QED
      BY <1>2, <3>1 DEF OneReview
  <2>4. LinksOf(s) = LinksOf(c)
    <3>1. LinksOf(s) \subseteq LinksOf(c)
      BY <1>2, <1>3, <2>1 DEF LinksOf
    <3>2. LinksOf(c) \subseteq LinksOf(s)
      <4> SUFFICES ASSUME NEW k \in 1 .. n PROVE <<c[k].sequence, c[k].id>> \in LinksOf(s)
        BY <1>3 DEF LinksOf
      <4>1. PICK i \in 1 .. m : s[i] = c[k]
        BY <2>2
      <4> QED
        BY <1>2, <4>1 DEF LinksOf
    <3> QED
      BY <3>1, <3>2
  <2>5. DistinctSequences(s)
    <3> DEFINE f == [i \in 1 .. m |-> s[i].sequence]
    <3>1. f \in [1 .. m -> 1 .. n]
      BY <1>3, <2>1
    <3>2. \A k \in 1 .. n : \E i \in 1 .. m : f[i] = k
      BY <1>3, <2>2
    <3>3. \A i \in 1 .. m : f[i] = s[i].sequence
      OBVIOUS
    <3> HIDE DEF f
    <3>4. IsFiniteSet(1 .. m) /\ Cardinality(1 .. m) <= Cardinality(1 .. n)
      <4>1. m <= n
        BY <1>1 DEF m
      <4>2. IsFiniteSet(1 .. m) /\ Cardinality(1 .. m) = m
        BY <1>2, FS_Interval
      <4>3. Cardinality(1 .. n) = n
        BY <1>2, FS_Interval
      <4> QED
        BY <4>1, <4>2, <4>3
    <3> DEFINE S == 1 .. m
               T == 1 .. n
    <3>5. /\ f \in [S -> T] /\ (\A k \in T : \E i \in S : f[i] = k)
          /\ IsFiniteSet(S) /\ Cardinality(S) <= Cardinality(T)
      BY <3>1, <3>2, <3>4
    <3> HIDE DEF S, T
    <3>6. \A i, j \in S : f[i] = f[j] => i = j
      BY <3>5, SurjectionIsOnce
    <3> QED
      BY <1>2, <3>3, <3>6 DEF DistinctSequences, S
  <2> QED
    BY <2>3, <2>4, <2>5
<1> HIDE DEF Same
<1>8. verifyReviewChainHead(s, computeReviewChainHead(c)) = "verified"
        <=> n <= MaxReviewEvents /\ Same
  BY <1>5, <1>6, <1>7
<1> QED
  BY <1>8 DEF Same, c

(* ProofsDecide: a transparency proof that the public verifier accepts     *)
(* proves it.  Every review under a checkpoint has a proof that is         *)
(* accepted; and however often a proof or the events of a chain are        *)
(* changed, what verifyInclusionProof accepts is a head of the checkpoint, *)
(* at its own index when the size is the checkpoint's, and                 *)
(* verifyReviewChainHead accepts just the events of the log, up to         *)
(* MAX_REVIEW_EVENTS of them.                                              *)
THEOREM ProofsAlwaysDecide == Spec => []ProofsDecide
<1>1. ProofHolds => ProofsDecide
  <2> SUFFICES ASSUME ProofHolds PROVE ProofsDecide
    OBVIOUS
  <2>1. ASSUME kind = "chain"
        PROVE  verifyReviewChainHead(rec.events, computeReviewChainHead(ChainEvents(rec.size)))
                 = "verified"
               <=> /\ rec.size <= MaxReviewEvents
                   /\ {rec.events[i] : i \in DOMAIN rec.events}
                        = {ChainEvents(rec.size)[i] : i \in 1 .. rec.size}
    BY <2>1, ChainIsDecided DEF ProofHolds, ChainIsShaped
  <2> QED
    BY <2>1, ProofDecides DEF ProofsDecide
<1> QED
  BY <1>1, ProofInit, ProofStep, PTL DEF Spec
=============================================================================
