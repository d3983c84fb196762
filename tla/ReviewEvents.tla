---------------------------- MODULE ReviewEvents ----------------------------
(***************************************************************************)
(* The authority boundary of the review history: which events              *)
(* appendReviewEvent (apps/control-plane/src/index.ts) lets a caller add   *)
(* to a review's log, and what the log therefore looks like when callers   *)
(* race.                                                                   *)
(*                                                                         *)
(* A caller loads the log, drafts an event numbered events.length, has the *)
(* boundary decide on the loaded copy, and hands the event to the store's  *)
(* append.  Loading, drafting and deciding look at one copy only, so they  *)
(* are one step; append is another, and other callers come between.        *)
(*                                                                         *)
(* An event's identity is the hash of its content; here it is the          *)
(* position the event has in the log, so `supersedes' is a position, 0     *)
(* for none, and a position past the end stands for an id that no logged   *)
(* event has.  `id' is what the idempotency key spells out.  Wording       *)
(* rules (source text, claims, personal data) only refuse an event for     *)
(* its own text and are left out, and so are shapes a schema refuses.      *)
(***************************************************************************)
EXTENDS Integers, Sequences, FiniteSets

CONSTANTS
  Writers,       \* callers of appendReviewEvent
  Types,         \* event types they draft
  Actors,        \* actor types they draft them for
  Names,         \* record, bundle and verification pass ids
  Refs,          \* values of supersedes_classification_record_ref
  Digests,       \* manifest, attestation and finalization record hashes
  MaxVersion,    \* versions in the keys
  Times,         \* event timestamps
  MaxEvents,     \* bound on the length of the log
  None           \* an absent field

ASSUME ReviewEventsAssumption ==
  /\ MaxVersion \in Nat
  /\ MaxEvents \in Nat
  /\ Times \subseteq Nat
  /\ Actors \subseteq {"local_runner", "customer_user", "vendor_service", "reviewer"}

VARIABLES
  log,           \* the review's events, by sequence number
  draft          \* per writer: an accepted event on its way to the store

vars == <<log, draft>>

-----------------------------------------------------------------------------
(* Event types by the rules that apply to them. *)

CUSTOMER_CORRECTION_EVENT_TYPES ==
  {"customer_remediation_recorded", "customer_accepted_risk_recorded"}

EPIC5_VERSIONED_EVENT_TYPES ==
  {"attestation_generated", "static_bundle_generated",
   "attestation_package_finalized", "attestation_package_exported",
   "pilot_metric_recorded", "pilot_feedback_recorded"}

PackageTypes == {"attestation_package_finalized", "attestation_package_exported"}

(* Versioned by record: evidence and decisions of a verification. *)
VerificationTypes == {"verification_evidence_recorded", "verification_recorded"}

VersionedTypes ==
  EPIC5_VERSIONED_EVENT_TYPES \cup VerificationTypes
     \cup {"verification_scope_recorded"}

OutcomeTypes == {"false_positive_recorded", "customer_accepted_risk_recorded"}

(* What only a reviewer says and no customer event may correct. *)
ExpertTypes ==
  {"classification_recorded", "remediation_guidance_recorded",
   "validation_recorded", "false_positive_recorded"}

(* Types whose corrections are of the same type, all the way down. *)
ClosedTypes ==
  VerificationTypes \cup OutcomeTypes \cup {"verification_scope_recorded"}

(* Slots of a validation event: 0 for a validation path, 1 to 3 for an     *)
(* included script, 4 for an additional script candidate.                  *)
IncludedSlots == 1 .. 3
Slots == {0} \cup IncludedSlots \cup {4}

-----------------------------------------------------------------------------
(* Drafts. *)

(* What the idempotency key of a type names.  Keys of the other types are  *)
(* the record they are about.                                              *)
Identities(t) ==
  [family    : IF t = "attestation_generated" THEN {None} ELSE Names,
   version   : IF t \in VersionedTypes THEN 1 .. MaxVersion ELSE {0},
   artifact  : IF t \in EPIC5_VERSIONED_EVENT_TYPES THEN Digests ELSE {None},
   record    : IF t \in PackageTypes THEN Digests ELSE {None},
   generated : IF t \in PackageTypes THEN Digests ELSE {None}]

(* Every event a caller may draft on a log of n events.  `backed' is a     *)
(* customer_actor_ref, selection evidence or quoted rationale.             *)
EventsAt(n, t) ==
  [type       : {t},
   seq        : {n},
   id         : Identities(t),
   actor      : Actors,
   backed     : IF t \in ClosedTypes THEN BOOLEAN ELSE {TRUE},
   visibility : IF t \in EPIC5_VERSIONED_EVENT_TYPES
                THEN {"customer_facing", "internal_only"} ELSE {"internal_only"},
   slot       : IF t = "validation_recorded" THEN Slots ELSE {0},
   supersedes : 0 .. n + 1,
   corrects   : Refs,
   at         : Times]

(* The idempotency key; scripts and paths have keys of their own. *)
Key(e) == <<e.type, e.slot > 0, e.id>>

-----------------------------------------------------------------------------
(* Event-local rules. *)

(* rejectionForReviewEventSemantics: who may record what, and how visibly. *)
SemanticsHold(e) ==
  /\ e.type \in {"classification_recorded", "remediation_guidance_recorded",
                 "validation_recorded", "false_positive_recorded",
                 "verification_recorded"}
        => e.actor = "reviewer"
  /\ e.type = "customer_remediation_recorded" => e.actor = "customer_user"
  /\ e.type = "customer_accepted_risk_recorded"
        => e.actor # "local_runner" /\ e.backed
  /\ e.type = "verification_scope_recorded"
        => e.actor # "local_runner" /\ (e.actor = "customer_user" \/ e.backed)
  /\ e.type = "verification_evidence_recorded"
        => \/ e.actor = "customer_user"
           \/ e.actor = "vendor_service" /\ e.backed
  /\ e.type = "attestation_generated"
        => /\ e.actor \in {"reviewer", "vendor_service"}
           /\ e.visibility = "customer_facing"
  /\ e.type = "static_bundle_generated"
        => e.actor = "vendor_service" /\ e.visibility = "customer_facing"
  /\ e.type \in PackageTypes
        => e.actor = "customer_user" /\ e.visibility = "customer_facing"
  /\ e.type \in {"pilot_metric_recorded", "pilot_feedback_recorded"}
        => /\ e.actor \in {"reviewer", "vendor_service"}
           /\ e.visibility = "internal_only"
  /\ e.type \in OutcomeTypes => e.corrects = None

(* An event that speaks for the customer. *)
SpeaksForCustomer(e) ==
  e.type \in CUSTOMER_CORRECTION_EVENT_TYPES \/ e.actor = "customer_user"

-----------------------------------------------------------------------------
(* Rules about the event and the log before it. *)

(* latestVerificationScopeEvent, latestVersionedVerificationEvent and      *)
(* latestEpic5FamilyEvent: the logged event of e's type and family with    *)
(* the highest version, 0 for none.                                        *)
SameFamily(x, e) == x.type = e.type /\ x.id.family = e.id.family

ActiveHead(l, e) ==
  LET family == {i \in DOMAIN l : SameFamily(l[i], e)} IN
  IF family = {} THEN 0
  ELSE CHOOSE i \in family : \A j \in family :
          \/ l[j].id.version < l[i].id.version
          \/ l[j].id.version = l[i].id.version /\ j <= i

(* verificationScopeCorrectionVersionIsValid and                           *)
(* versionedVerificationCorrectionIsValid.                                 *)
CorrectsOlderVersion(l, e) ==
  e.supersedes # 0 =>
     /\ e.supersedes \in DOMAIN l
     /\ SameFamily(l[e.supersedes], e)
     /\ e.id.version > l[e.supersedes].id.version

(* Mutant of ScopeVersionHolds: a scope need not supersede the active one. *)
ScopeVersionIgnoresHead(l, e) ==
  e.type = "verification_scope_recorded" => CorrectsOlderVersion(l, e)

(* A scope may start at any version; a further one supersedes the active   *)
(* one.                                                                    *)
ScopeVersionHolds(l, e) ==
  e.type = "verification_scope_recorded" =>
     /\ ActiveHead(l, e) # 0 => e.supersedes = ActiveHead(l, e)
     /\ CorrectsOlderVersion(l, e)

VerificationVersionHolds(l, e) ==
  e.type \in VerificationTypes =>
     /\ IF ActiveHead(l, e) = 0
        THEN e.id.version = 1 /\ e.supersedes = 0
        ELSE e.supersedes = ActiveHead(l, e)
     /\ CorrectsOlderVersion(l, e)

Epic5VersionHolds(l, e) ==
  e.type \in EPIC5_VERSIONED_EVENT_TYPES =>
     IF ActiveHead(l, e) = 0
     THEN e.id.version = 1 /\ e.supersedes = 0
     ELSE /\ e.supersedes = ActiveHead(l, e)
          /\ e.id.version > l[ActiveHead(l, e)].id.version

(* A finalization is of a bundle that was generated, by its manifest; the  *)
(* first such event (log.events.find) must not be later.                   *)
Generates(g, e) ==
  /\ g.type = "static_bundle_generated"
  /\ g.id.family = e.id.family
  /\ g.id.artifact = e.id.generated

FinalizedAfterGenerated(l, e) ==
  e.type = "attestation_package_finalized" =>
     \E g \in DOMAIN l :
        /\ Generates(l[g], e)
        /\ \A j \in 1 .. g - 1 : ~Generates(l[j], e)
        /\ l[g].at <= e.at

(* An export is of a finalization, the same in every part of its key; keys *)
(* are unique, so there is one.                                            *)
Finalizes(f, e) == f.type = "attestation_package_finalized" /\ f.id = e.id

ExportedAfterFinalized(l, e) ==
  e.type = "attestation_package_exported" =>
     \E f \in DOMAIN l : Finalizes(l[f], e) /\ l[f].at <= e.at

(* Mutant of SupersedesChain: only the event that is corrected directly. *)
SupersedesOneHop(l, i) == IF i = 0 THEN {} ELSE {i}

(* supersedesChain: the i-th event, what it corrects, what that corrects   *)
(* and so on: the least set of events that holds the i-th and, with an     *)
(* event, the one it supersedes.                                           *)
ClosedUnderSupersedes(l, S) ==
  \A k \in S : l[k].supersedes # 0 => l[k].supersedes \in S

SupersedesChain(l, i) ==
  {j \in DOMAIN l : \A S \in SUBSET DOMAIN l :
      i \in S /\ ClosedUnderSupersedes(l, S) => j \in S}

ChainHolds(l, e) ==
  e.supersedes # 0 =>
     /\ e.supersedes \in DOMAIN l
     /\ \A i \in SupersedesChain(l, e.supersedes) :
          /\ ~(SpeaksForCustomer(e) /\ l[i].type \in ExpertTypes)
          /\ e.type \in ClosedTypes \/ l[i].type \in ClosedTypes
                => l[i].type = e.type

(* supersedes_classification_record_ref names a logged classification and  *)
(* is no customer's to use.                                                *)
RefHolds(l, e) ==
  e.corrects # None =>
     /\ e.type \notin OutcomeTypes
     /\ ~SpeaksForCustomer(e)
     /\ \E i \in DOMAIN l : /\ l[i].type = "classification_recorded"
                            /\ l[i].id.family = e.corrects

(* rejectionForEventVersionAndSupersedesChain. *)
StructureHolds(l, e) ==
  /\ \A i \in DOMAIN l : l[i].seq < e.seq
  /\ ScopeVersionHolds(l, e)
  /\ VerificationVersionHolds(l, e)
  /\ Epic5VersionHolds(l, e)
  /\ FinalizedAfterGenerated(l, e)
  /\ ExportedAfterFinalized(l, e)
  /\ ChainHolds(l, e)
  /\ RefHolds(l, e)

(* rejectionForValidationEventPackageAppend: three included scripts, each  *)
(* in a slot of its own.                                                   *)
IncludedScripts(l) == {i \in DOMAIN l : l[i].slot \in IncludedSlots}

ScriptCapHolds(l, e) ==
  e.slot \in IncludedSlots =>
     /\ Cardinality(IncludedScripts(l)) < 3
     /\ \A i \in IncludedScripts(l) : l[i].slot # e.slot

(* reviewEventLogIsValid: what appendReviewEvent asks of a loaded log      *)
(* before it looks at the new event.                                       *)
ReviewEventLogIsValid(l) ==
  \A i \in DOMAIN l :
     /\ SemanticsHold(l[i])
     /\ l[i].supersedes < i
     /\ \A j \in 1 .. i - 1 : l[j].seq < l[i].seq /\ Key(l[j]) # Key(l[i])

(* storedReviewEventLogIsAppendValid: the log, replayed event by event     *)
(* from an empty one.                                                      *)
StoredReviewEventLogIsAppendValid(l) ==
  \A i \in DOMAIN l :
     /\ SemanticsHold(l[i])
     /\ \A j \in 1 .. i - 1 : Key(l[j]) # Key(l[i])
     /\ StructureHolds(SubSeq(l, 1, i - 1), l[i])

(* appendReviewEvent answers "appended".  Which of several reasons a       *)
(* refusal names is left out, so the order of the checks is free.          *)
AppendReviewEvent(l, e) ==
  /\ SemanticsHold(e)
  /\ \A i \in DOMAIN l : Key(l[i]) # Key(e)
  /\ StructureHolds(l, e)
  /\ ScriptCapHolds(l, e)
  /\ ReviewEventLogIsValid(l)

-----------------------------------------------------------------------------
Init ==
  /\ log = <<>>
  /\ draft = [w \in Writers |-> None]

(* A caller loads the log and drafts an event, and the boundary accepts    *)
(* it.  A refused draft changes nothing.                                   *)
Propose(w) ==
  /\ draft[w] = None
  /\ Len(log) < MaxEvents
  /\ \E t \in Types : \E e \in EventsAt(Len(log), t) :
        AppendReviewEvent(log, e) /\ draft' = [draft EXCEPT ![w] = e]
  /\ UNCHANGED log

(* Mutant of Store: the table has no PRIMARY KEY on the number. *)
StoreAnyNumber(w) ==
  /\ draft[w] # None
  /\ log' = IF \A i \in DOMAIN log : Key(log[i]) # Key(draft[w])
            THEN Append(log, draft[w])
            ELSE log
  /\ draft' = [draft EXCEPT ![w] = None]

(* The store's append, as AppendOnlyLog shows it to behave: a used key is  *)
(* a replay or a conflict, a taken number is refused, and neither changes  *)
(* the log.  The caller is answered either way.                            *)
Store(w) ==
  /\ draft[w] # None
  /\ log' = IF /\ \A i \in DOMAIN log : Key(log[i]) # Key(draft[w])
               /\ draft[w].seq = Len(log)
            THEN Append(log, draft[w])
            ELSE log
  /\ draft' = [draft EXCEPT ![w] = None]

Next == \E w \in Writers : Store(w) \/ Propose(w)

Spec == Init /\ [][Next]_vars

-----------------------------------------------------------------------------
(* Properties. *)

TypeOK ==
  /\ Len(log) \in 0 .. MaxEvents
  /\ \A i \in 1 .. Len(log) : \E t \in Types : log[i] \in EventsAt(i - 1, t)
  /\ DOMAIN draft = Writers
  /\ \A w \in Writers : draft[w] # None =>
        \E n \in 0 .. Len(log), t \in Types : draft[w] \in EventsAt(n, t)

(* Corrections of a versioned record form one line: each event of a family *)
(* supersedes the one logged before it and has a higher version, although  *)
(* every writer chose its predecessor on a copy that may be stale when the *)
(* event is stored.                                                        *)
FamiliesAreLinear ==
  \A i \in DOMAIN log : log[i].type \in VersionedTypes =>
     LET earlier == {j \in 1 .. i - 1 : SameFamily(log[j], log[i])} IN
     IF earlier = {} THEN log[i].supersedes = 0
     ELSE LET last == CHOOSE j \in earlier : \A k \in earlier : k <= j IN
          /\ log[i].supersedes = last
          /\ log[i].id.version > log[last].id.version

(* No event that speaks for the customer stands, over however many         *)
(* corrections of corrections, on a reviewer's classification, guidance,   *)
(* validation or false positive: the customer's events and all they rest   *)
(* on are a set of events without one.                                     *)
ExpertRecordsStand ==
  \E clean \in SUBSET DOMAIN log :
     /\ \A i \in DOMAIN log : SpeaksForCustomer(log[i]) => i \in clean
     /\ \A i \in clean : /\ log[i].type \notin ExpertTypes
                         /\ log[i].supersedes \in clean \cup {0}

(* What was exported had been finalized at that version, and what was      *)
(* finalized had been generated: an export rests on three logged events    *)
(* in this order of log and of time, and no finalization is exported       *)
(* twice.                                                                  *)
ExportsAreGrounded ==
  \A i \in DOMAIN log : log[i].type = "attestation_package_exported" =>
     /\ \E f \in 1 .. i - 1 : \E g \in 1 .. f - 1 :
          /\ Finalizes(log[f], log[i]) /\ Generates(log[g], log[f])
          /\ log[g].at <= log[f].at /\ log[f].at <= log[i].at
     /\ \A k \in DOMAIN log :
          log[k].type = log[i].type /\ SameFamily(log[k], log[i])
             /\ log[k].id.version = log[i].id.version => k = i

(* The base package's scripts: at most three, each slot once, also when    *)
(* two reviewers add scripts at the same time.                             *)
IncludedScriptsFit ==
  /\ Cardinality(IncludedScripts(log)) <= 3
  /\ \A i, j \in IncludedScripts(log) : log[i].slot = log[j].slot => i = j

(* A stored log is one the boundary can still read: it is valid as a       *)
(* loaded log, and replaying it event by event refuses nothing.  Otherwise *)
(* every later append to the review would be refused for ever.             *)
LogStaysAppendable ==
  ReviewEventLogIsValid(log) /\ StoredReviewEventLogIsAppendValid(log)
=============================================================================
