--------------------------- MODULE PackageProofs ---------------------------
(* What intake, the promotion of a gate and the two judges of a submitted  *)
(* document keep true for any number of handlers, operators, requests and  *)
(* versions, and for any document whatever its fields say.                 *)
EXTENDS MCPackage, LogRowsTheorems

-----------------------------------------------------------------------------
(* Intake.                                                                 *)

(* A handler that mints has one request of its own, its caller's object no *)
(* longer.                                                                 *)
ClonedIsOwn ==
  /\ step \in [Handlers -> {"verify", "identities", "artifacts", "digested", "prepare", "mint",
                            "complete", "outcome", "done"}]
  /\ live \in [Handlers -> Requests]
  /\ snap \in [Handlers -> SUBSET Requests]
  /\ \A h \in Handlers : step[h] = "mint" => \E x \in Requests : snap[h] = {x}

(* No result says received: that is for an outcome with a receipt. *)
ResultStates == {"verified_receipt_eligible", "quarantined_no_receipt", "rejected_no_receipt"}

IntakeInv ==
  /\ ClonedIsOwn
  /\ DOMAIN result = Handlers /\ result = [h \in Handlers |-> result[h]]
  /\ \A h \in Handlers : \A res \in result[h] : res.state \in ResultStates
  /\ receipts \subseteq prepared
  /\ ReceiptIsEarned

LEMMA FailureStates ==
  ASSUME NEW q, NEW b
  PROVE  failureResult(q, b).state \in ResultStates \ {"verified_receipt_eligible"}
BY DEF failureResult, ResultStates

LEMMA VerifiedStates ==
  ASSUME NEW r
  PROVE  verifyIntakeSubmission(r).state \in ResultStates
<1>1. Eligible(r).state \in ResultStates
  BY DEF Eligible, ResultStates
<1>2. \A q, b : failureResult(q, b).state \in ResultStates
  BY FailureStates
<1> QED
  BY <1>1, <1>2 DEF verifyIntakeSubmission

(* A step of one handler changes its own result only, to one of results.   *)
LEMMA ResultsStay ==
  ASSUME IntakeInv, NEW h \in Handlers, NEW res, res.state \in ResultStates,
         result' = [result EXCEPT ![h] = {res}]
  PROVE  /\ DOMAIN result' = Handlers /\ result' = [g \in Handlers |-> result'[g]]
         /\ \A g \in Handlers : \A x \in result'[g] : x.state \in ResultStates
BY DEF IntakeInv

LEMMA GotoFacts ==
  ASSUME IntakeInv, NEW h \in Handlers, Goto(h, "complete") \/ Goto(h, "outcome") \/ Goto(h, "done")
           \/ Goto(h, "identities") \/ Goto(h, "artifacts") \/ Goto(h, "digested")
           \/ Goto(h, "prepare"),
         UNCHANGED <<live, snap>>
  PROVE  ClonedIsOwn'
BY DEF IntakeInv, ClonedIsOwn, Goto

LEMMA EarnedStays ==
  ASSUME IntakeInv, UNCHANGED <<receipts, prepared, outcomes>>
  PROVE  receipts' \subseteq prepared' /\ ReceiptIsEarned'
BY DEF IntakeInv, ReceiptIsEarned

LEMMA ResultsUnchanged ==
  ASSUME IntakeInv, UNCHANGED result
  PROVE  /\ DOMAIN result' = Handlers /\ result' = [g \in Handlers |-> result'[g]]
         /\ \A g \in Handlers : \A x \in result'[g] : x.state \in ResultStates
BY DEF IntakeInv

LEMMA MintKeeps ==
  ASSUME IntakeInv, NEW h \in Handlers, prepareVendorReceipt(h)
  PROVE  IntakeInv'
<1>1. PICK at \in Times, signing \in BOOLEAN :
        LET verified == verifyIntakeSubmission(RequestOf[CHOOSE x \in snap[h] : TRUE])
            r == Subject(h)
        IN  IF verified.state # "verified_receipt_eligible"
            THEN noReceiptResult(h, verified)
            ELSE IF ~validateReceiptPreflight(r, at, signing)
                 THEN noReceiptResult(h, failureResult(FALSE, FALSE))
                 ELSE /\ prepared' = prepared \cup {Unsigned(r, at)}
                      /\ Goto(h, "complete")
                      /\ UNCHANGED result
  BY DEF prepareVendorReceipt
<1>2. /\ step[h] = "mint" /\ UNCHANGED <<live, seen, issues, snap, receipts, outcomes>>
  BY DEF prepareVendorReceipt
<1>3. PICK x \in Requests : snap[h] = {x}
  BY <1>2 DEF IntakeInv, ClonedIsOwn
<1> DEFINE r == RequestOf[x]
<1>4. (CHOOSE y \in snap[h] : TRUE) = x
  BY <1>3
<1>5. Subject(h) = r
  BY <1>4 DEF Subject
<1>6. ASSUME NEW failure, failure.state \in ResultStates, noReceiptResult(h, failure)
      PROVE  IntakeInv'
  <2>1. ClonedIsOwn'
    BY <1>2, <1>6, GotoFacts DEF noReceiptResult
  <2>2. receipts' \subseteq prepared' /\ ReceiptIsEarned'
    BY <1>2, <1>6, EarnedStays DEF noReceiptResult
  <2>3. /\ DOMAIN result' = Handlers /\ result' = [g \in Handlers |-> result'[g]]
        /\ \A g \in Handlers : \A y \in result'[g] : y.state \in ResultStates
    BY <1>6, ResultsStay DEF noReceiptResult
  <2> QED
    BY <2>1, <2>2, <2>3 DEF IntakeInv
<1>7. ASSUME verifyIntakeSubmission(r).state = "verified_receipt_eligible",
             validateReceiptPreflight(r, at, signing),
             prepared' = prepared \cup {Unsigned(r, at)}, Goto(h, "complete"), UNCHANGED result
      PROVE  IntakeInv'
  <2>1. r \in EligibleRequests
    BY <1>7 DEF EligibleRequests
  <2>2. Unsigned(r, at).subject = buildIntakeRecord(r) /\ Unsigned(r, at).time >= r.at
    BY <1>7 DEF Unsigned, validateReceiptPreflight
  <2> HIDE DEF r
  <2>3. ReceiptIsEarned' /\ receipts' \subseteq prepared'
    BY <1>2, <1>7, <2>1, <2>2 DEF IntakeInv, ReceiptIsEarned
  <2>4. ClonedIsOwn'
    BY <1>2, <1>7, GotoFacts
  <2> QED
    BY <1>7, <2>3, <2>4, ResultsUnchanged DEF IntakeInv
<1>8. verifyIntakeSubmission(r).state \in ResultStates /\ failureResult(FALSE, FALSE).state \in ResultStates
  BY VerifiedStates, FailureStates
<1> HIDE DEF r
<1>9. verifyIntakeSubmission(RequestOf[CHOOSE y \in snap[h] : TRUE]) = verifyIntakeSubmission(r)
  BY <1>4 DEF r
<1> QED
  BY <1>1, <1>5, <1>6, <1>7, <1>8, <1>9

LEMMA CompleteKeeps ==
  ASSUME IntakeInv, NEW h \in Handlers, completeVendorReceipt(h)
  PROVE  IntakeInv'
<1>1. PICK mine \in prepared, signed \in prepared, verified \in BOOLEAN :
       IF signed = mine /\ verified
       THEN /\ receipts' = receipts \cup {mine}
            /\ Goto(h, "outcome") /\ UNCHANGED <<result, prepared>>
       ELSE noReceiptResult(h, failureResult(FALSE, FALSE)) /\ UNCHANGED receipts
  BY DEF completeVendorReceipt
<1>2. UNCHANGED <<live, seen, issues, snap, outcomes>>
  BY DEF completeVendorReceipt
<1>3. CASE /\ receipts' = receipts \cup {mine}
           /\ Goto(h, "outcome") /\ UNCHANGED <<result, prepared>>
  <2>1. ReceiptIsEarned' /\ receipts' \subseteq prepared'
    BY <1>2, <1>3 DEF IntakeInv, ReceiptIsEarned
  <2>2. ClonedIsOwn'
    BY <1>2, <1>3, GotoFacts
  <2> QED
    BY <1>3, <2>1, <2>2, ResultsUnchanged DEF IntakeInv
<1>4. CASE noReceiptResult(h, failureResult(FALSE, FALSE)) /\ UNCHANGED receipts
  <2>1. ClonedIsOwn'
    BY <1>2, <1>4, GotoFacts DEF noReceiptResult
  <2>2. receipts' \subseteq prepared' /\ ReceiptIsEarned'
    BY <1>2, <1>4, EarnedStays DEF noReceiptResult
  <2>3. failureResult(FALSE, FALSE).state \in ResultStates
    BY FailureStates
  <2>4. /\ DOMAIN result' = Handlers /\ result' = [g \in Handlers |-> result'[g]]
        /\ \A g \in Handlers : \A y \in result'[g] : y.state \in ResultStates
    BY <1>4, <2>3, ResultsStay DEF noReceiptResult
  <2> QED
    BY <2>1, <2>2, <2>4 DEF IntakeInv
<1> QED
  BY <1>1, <1>3, <1>4

LEMMA OutcomeKeeps ==
  ASSUME IntakeInv, NEW h \in Handlers, buildSubmissionOutcome(h)
  PROVE  IntakeInv'
<1>1. Goto(h, "done") /\ UNCHANGED <<live, seen, issues, result, snap, prepared, receipts>>
  BY DEF buildSubmissionOutcome
<1>2. ClonedIsOwn'
  BY <1>1, GotoFacts
<1>3. PICK res \in result[h] :
       \/ /\ res.state = "verified_receipt_eligible"
          /\ \E t \in receipts, at \in Times, record \in res.record :
               outcomes' = IF ReceiptFits(t, record) /\ at >= t.time
                           THEN outcomes \cup {[state |-> "received_with_receipt",
                                                next |-> "verify_receipt", record |-> {record},
                                                receipt |-> {t}, at |-> at]}
                           ELSE outcomes
       \/ /\ res.state # "verified_receipt_eligible"
          /\ outcomes' = outcomes \cup {[state |-> res.state, next |-> res.next, record |-> {},
                                         receipt |-> {}, at |-> 0]}
  BY DEF buildSubmissionOutcome
<1>4. res.state \in ResultStates
  BY DEF IntakeInv
<1> DEFINE Good(o) == /\ o.state = "received_with_receipt" <=> o.receipt # {}
                      /\ \A t \in o.receipt, record \in o.record :
                           ReceiptFits(t, record) /\ t \in receipts /\ o.at >= t.time
<1>5. \A o \in outcomes : Good(o)
  BY DEF IntakeInv, ReceiptIsEarned
<1>6. ASSUME NEW t \in receipts, NEW at \in Times, NEW record \in res.record,
             ReceiptFits(t, record), at >= t.time
      PROVE  Good([state |-> "received_with_receipt", next |-> "verify_receipt",
                   record |-> {record}, receipt |-> {t}, at |-> at])
  BY <1>6
<1>7. Good([state |-> res.state, next |-> res.next, record |-> {}, receipt |-> {}, at |-> 0])
  BY <1>4 DEF ResultStates
<1> HIDE DEF Good
<1>8. \A o \in outcomes' : Good(o)
  BY <1>3, <1>5, <1>6, <1>7
<1>9. ReceiptIsEarned'
  BY <1>1, <1>8 DEF IntakeInv, ReceiptIsEarned, Good
<1> QED
  BY <1>1, <1>2, <1>9, ResultsUnchanged DEF IntakeInv

LEMMA VerifyKeeps ==
  ASSUME IntakeInv, NEW h \in Handlers,
         ChangeRequest(h) \/ VerifySchemas(h) \/ VerifyHead(h) \/ VerifyArtifacts(h)
           \/ VerifyTail(h) \/ PrepareClones(h)
  PROVE  IntakeInv'
<1>1. UNCHANGED <<prepared, receipts, outcomes>>
  BY DEF ChangeRequest, VerifySchemas, VerifyHead, VerifyArtifacts, VerifyTail, PrepareClones
<1>2. receipts' \subseteq prepared' /\ ReceiptIsEarned'
  BY <1>1, EarnedStays
<1>3. ClonedIsOwn'
  <2>1. CASE ChangeRequest(h)
    BY <2>1 DEF ChangeRequest, IntakeInv, ClonedIsOwn
  <2>2. CASE VerifySchemas(h)
    BY <2>2, GotoFacts DEF VerifySchemas
  <2>3. CASE VerifyHead(h)
    BY <2>3, GotoFacts DEF VerifyHead
  <2>4. CASE VerifyTail(h)
    BY <2>4, GotoFacts DEF VerifyTail
  <2>5. CASE PrepareClones(h)
    BY <2>5 DEF PrepareClones, IntakeInv, ClonedIsOwn, Goto
  <2>6. CASE VerifyArtifacts(h)
    BY <2>6, GotoFacts DEF VerifyArtifacts
  <2> QED
    BY <2>1, <2>2, <2>3, <2>4, <2>5, <2>6
<1>4. UNCHANGED result \/ \E res : res.state \in ResultStates /\ result' = [result EXCEPT ![h] = {res}]
  <2>1. CASE ChangeRequest(h) \/ VerifyHead(h) \/ VerifyArtifacts(h) \/ PrepareClones(h)
    BY <2>1 DEF ChangeRequest, VerifyHead, VerifyArtifacts, PrepareClones
  <2>2. CASE VerifySchemas(h)
    BY <2>2, VerifiedStates DEF VerifySchemas
  <2>3. CASE VerifyTail(h)
    <3>1. Eligible(RequestOf[live[h]]).state \in ResultStates
      BY DEF Eligible, ResultStates
    <3>2. \A q : failureResult(q, FALSE).state \in ResultStates
      BY FailureStates
    <3> QED
      BY <2>3, <3>1, <3>2 DEF VerifyTail
  <2> QED
    BY <2>1, <2>2, <2>3
<1>5. /\ DOMAIN result' = Handlers /\ result' = [g \in Handlers |-> result'[g]]
      /\ \A g \in Handlers : \A x \in result'[g] : x.state \in ResultStates
  BY <1>4, ResultsUnchanged, ResultsStay
<1> QED
  BY <1>2, <1>3, <1>5 DEF IntakeInv

(* However many handlers run and whatever their callers do to the request  *)
(* objects at any await (intake/src/index.ts), a receipt is about one      *)
(* request that passed every check as a whole, and a received outcome has  *)
(* such a receipt, about the same submission and no later than itself.     *)
THEOREM ReceiptsAreAlwaysEarned == IntakeSpec => []ReceiptIsEarned
<1>1. IntakeInit => IntakeInv
  <2> SUFFICES ASSUME IntakeInit PROVE IntakeInv
    OBVIOUS
  <2>1. ClonedIsOwn
    BY DEF IntakeInit, ClonedIsOwn
  <2>2. ReceiptIsEarned /\ receipts \subseteq prepared
    BY DEF IntakeInit, ReceiptIsEarned
  <2>3. DOMAIN result = Handlers /\ result = [h \in Handlers |-> result[h]]
        /\ \A h \in Handlers : result[h] = {}
    BY DEF IntakeInit
  <2> QED
    BY <2>1, <2>2, <2>3 DEF IntakeInv
<1>2. IntakeInv /\ [IntakeNext]_intakeVars => IntakeInv'
  <2> SUFFICES ASSUME IntakeInv, [IntakeNext]_intakeVars PROVE IntakeInv'
    OBVIOUS
  <2>1. CASE UNCHANGED intakeVars
    <3>1. ClonedIsOwn'
      BY <2>1 DEF intakeVars, IntakeInv, ClonedIsOwn
    <3> QED
      BY <2>1, <3>1, EarnedStays, ResultsUnchanged DEF intakeVars, IntakeInv
  <2>2. CASE IntakeNext
    BY <2>2, VerifyKeeps, MintKeeps, CompleteKeeps, OutcomeKeeps DEF IntakeNext
  <2> QED
    BY <2>1, <2>2
<1>3. IntakeInv => ReceiptIsEarned
  BY DEF IntakeInv
<1> QED
  BY <1>1, <1>2, <1>3, PTL DEF IntakeSpec

-----------------------------------------------------------------------------
(* The promotion of the environment gate.                                  *)

PromotionSteps == {"judge", "refused", "begin", "insert", "rolled back", "promoted"}
PromotionType == [pc : PromotionSteps, package : Packages, day : Days \cup {0}]

IsPromoted(v) == \E x \in promoted : x.package.decision.proposed = v

Judged(p, day) == evaluateEnvironmentGatePromotion(p, p.decision.prev, day)

(* What came through the judgment is what is inserted, and what was        *)
(* inserted is there with all it stands on.                                *)
PromotionTyped == promotion \in [Promoters -> PromotionType]
JudgedFirst ==
  \A o \in Promoters : promotion[o].pc \in {"begin", "insert"} =>
     Judged(promotion[o].package, promotion[o].day)
PromotedIsRecorded ==
  \A x \in promoted :
    LET d == x.package.decision
    IN  /\ Judged(x.package, x.day)
        /\ x.package.evidence \subseteq evidence /\ d \in decisions
        /\ d.proposed \in DOMAIN gates /\ gates[d.proposed] = x.package.gate
        /\ \A y \in promoted : y.package.decision.proposed = d.proposed => y = x

(* A version that was not promoted was seeded, and none was both. *)
VersionsAreAccountedFor ==
  /\ DOMAIN gates \subseteq 1 .. MaxVersion /\ seeded \subseteq DOMAIN gates
  /\ \A v \in DOMAIN gates : IsPromoted(v) \/ v \in seeded
  /\ \A x \in promoted : x.package.decision.proposed \notin seeded

(* The host runs with a gate that its binding found valid. *)
BoundIsValid ==
  bound # 0 => /\ bound \in DOMAIN gates
               /\ EnvironmentGateSchema(gates[bound]) /\ RealEvidenceSchema(gates[bound])

PromotionInv ==
  /\ PromotionTyped /\ JudgedFirst /\ PromotedIsRecorded
  /\ VersionsAreAccountedFor /\ BoundIsValid

(* The version that is read is one that is there, and the last. *)
LEMMA CurrentIsThere ==
  ASSUME DOMAIN gates \subseteq 1 .. MaxVersion
  PROVE  CurrentVersion = 0 \/ CurrentVersion \in DOMAIN gates
<1>1. CASE DOMAIN gates = {}
  BY <1>1 DEF CurrentVersion
<1>2. CASE DOMAIN gates # {}
  <2>1. \E m \in DOMAIN gates : \A k \in DOMAIN gates : k <= m
    BY <1>2, PromotionAssumption, LastExists
  <2> QED
    BY <1>2, <2>1 DEF CurrentVersion
<1> QED
  BY <1>1, <1>2

(* A row for a new version leaves the others alone. *)
LEMMA WithGateAdds ==
  ASSUME NEW v, NEW g, v \notin DOMAIN gates, gates' = WithGate(v, g)
  PROVE  /\ DOMAIN gates' = DOMAIN gates \cup {v} /\ gates'[v] = g
         /\ \A w \in DOMAIN gates : gates'[w] = gates[w] /\ w # v
BY DEF WithGate

LEMMA SeedKeeps ==
  ASSUME PromotionInv, seedEnvironmentGate
  PROVE  PromotionInv'
<1>1. PICK v \in 1 .. MaxVersion, g \in Seeds :
        v \notin DOMAIN gates /\ gates' = WithGate(v, g) /\ seeded' = seeded \cup {v}
  BY DEF seedEnvironmentGate
<1>2. UNCHANGED <<decisions, evidence, promotion, promoted, bound>>
  BY DEF seedEnvironmentGate
<1>3. /\ DOMAIN gates' = DOMAIN gates \cup {v} /\ gates'[v] = g
      /\ \A w \in DOMAIN gates : gates'[w] = gates[w] /\ w # v
  BY <1>1, WithGateAdds
<1>4. PromotionTyped' /\ JudgedFirst'
  BY <1>2 DEF PromotionInv, PromotionTyped, JudgedFirst
<1>5. PromotedIsRecorded'
  BY <1>2, <1>3 DEF PromotionInv, PromotedIsRecorded
<1>6. VersionsAreAccountedFor'
  <2>1. \A w : IsPromoted(w)' <=> IsPromoted(w)
    BY <1>2 DEF IsPromoted
  <2>2. \A x \in promoted : x.package.decision.proposed \in DOMAIN gates
    BY DEF PromotionInv, PromotedIsRecorded
  <2> QED
    BY <1>1, <1>2, <1>3, <2>1, <2>2 DEF PromotionInv, VersionsAreAccountedFor
<1>7. BoundIsValid'
  BY <1>2, <1>3 DEF PromotionInv, BoundIsValid
<1> QED
  BY <1>4, <1>5, <1>6, <1>7 DEF PromotionInv

(* The tables stay. *)
LEMMA TablesStay ==
  ASSUME PromotionInv, UNCHANGED <<gates, decisions, evidence, promoted, seeded>>,
         PromotionTyped', JudgedFirst', BoundIsValid'
  PROVE  PromotionInv'
<1>1. PromotedIsRecorded'
  BY DEF PromotionInv, PromotedIsRecorded
<1>2. \A w : IsPromoted(w)' <=> IsPromoted(w)
  BY DEF IsPromoted
<1>3. VersionsAreAccountedFor'
  BY <1>2 DEF PromotionInv, VersionsAreAccountedFor
<1> QED
  BY <1>1, <1>3 DEF PromotionInv

LEMMA BoundStays ==
  ASSUME PromotionInv, UNCHANGED <<gates, bound>>
  PROVE  BoundIsValid'
BY DEF PromotionInv, BoundIsValid

LEMMA JudgeKeeps ==
  ASSUME PromotionInv, NEW o \in Promoters, JudgePromotion(o)
  PROVE  PromotionInv'
<1>0. PICK today \in Days :
        promotion' = [promotion EXCEPT ![o] =
          [pc |-> IF evaluateEnvironmentGatePromotion(promotion[o].package, CurrentVersion, today)
                  THEN "begin" ELSE "refused",
           package |-> promotion[o].package, day |-> today]]
  BY DEF JudgePromotion
<1> DEFINE p == promotion[o].package
           accepted == evaluateEnvironmentGatePromotion(p, CurrentVersion, today)
           next == [pc |-> IF accepted THEN "begin" ELSE "refused", package |-> p, day |-> today]
<1>1. promotion \in [Promoters -> PromotionType]
  BY DEF PromotionInv, PromotionTyped
<1>2. promotion[o] \in PromotionType /\ p \in Packages
  BY <1>1 DEF PromotionType
<1>3. next \in PromotionType
  BY <1>1, <1>2 DEF PromotionType, PromotionSteps
<1>4. promotion' = [promotion EXCEPT ![o] = next]
  BY <1>0
<1>5. accepted => Judged(p, today)
  BY DEF Judged, evaluateEnvironmentGatePromotion
<1>6. next.pc \in {"begin", "insert"} => accepted
  OBVIOUS
<1>7. next.package = p /\ next.day = today
  OBVIOUS
<1> HIDE DEF next, accepted, p
<1>8. PromotionTyped'
  BY <1>1, <1>3, <1>4 DEF PromotionTyped
<1>9. JudgedFirst'
  BY <1>1, <1>4, <1>5, <1>6, <1>7 DEF PromotionInv, JudgedFirst
<1> QED
  BY <1>8, <1>9, TablesStay, BoundStays DEF JudgePromotion

LEMMA PcMoves ==
  ASSUME PromotionInv, NEW o \in Promoters, NEW goal \in PromotionSteps,
         promotion' = [promotion EXCEPT ![o].pc = goal],
         goal \in {"begin", "insert"} => promotion[o].pc = "begin"
  PROVE  PromotionTyped' /\ JudgedFirst'
<1> DEFINE next == [pc |-> goal, package |-> promotion[o].package, day |-> promotion[o].day]
<1>1. promotion \in [Promoters -> PromotionType] /\ promotion[o] \in PromotionType
  BY DEF PromotionInv, PromotionTyped
<1>2. next \in PromotionType /\ next.pc = goal /\ next.package = promotion[o].package
      /\ next.day = promotion[o].day /\ next = [promotion[o] EXCEPT !.pc = goal]
  BY <1>1 DEF PromotionType
<1>3. promotion' = [promotion EXCEPT ![o] = next]
  BY <1>1, <1>2
<1> HIDE DEF next
<1>4. PromotionTyped'
  BY <1>1, <1>2, <1>3 DEF PromotionTyped, PromotionInv
<1>5. JudgedFirst'
  BY <1>1, <1>2, <1>3 DEF PromotionInv, JudgedFirst
<1> QED
  BY <1>4, <1>5

LEMMA CommitKeeps ==
  ASSUME PromotionInv, NEW o \in Promoters, CommitPromotion(o)
  PROVE  PromotionInv'
<1> DEFINE p == promotion[o].package
           x == [package |-> p, day |-> promotion[o].day, by |-> o]
           v == p.decision.proposed
<1>1. promotion[o].pc = "insert" /\ UNCHANGED <<bound, seeded>> /\ Judged(p, promotion[o].day)
  BY DEF CommitPromotion, PromotionInv, JudgedFirst
<1>2. CASE /\ promotion' = [promotion EXCEPT ![o].pc = "rolled back"]
           /\ UNCHANGED <<evidence, decisions, gates, promoted>>
  BY <1>1, <1>2, PcMoves, TablesStay, BoundStays DEF PromotionSteps
<1>3. CASE /\ InsertsGate(v)
           /\ evidence' = evidence \cup p.evidence /\ decisions' = decisions \cup {p.decision}
           /\ gates' = WithGate(v, p.gate) /\ promoted' = promoted \cup {x}
           /\ promotion' = [promotion EXCEPT ![o].pc = "promoted"]
  <2>1. PromotionTyped' /\ JudgedFirst'
    BY <1>1, <1>3, PcMoves DEF PromotionSteps
  <2>2. v \in 1 .. MaxVersion /\ v \notin DOMAIN gates
    BY <1>3 DEF InsertsGate
  <2>3. /\ DOMAIN gates' = DOMAIN gates \cup {v} /\ gates'[v] = p.gate
        /\ \A w \in DOMAIN gates : gates'[w] = gates[w] /\ w # v
    BY <1>3, <2>2, WithGateAdds
  <2>4. x.package = p /\ x.day = promotion[o].day
    OBVIOUS
  <2> HIDE DEF x
  <2>5. \A y \in promoted : y.package.decision.proposed \in DOMAIN gates
    BY DEF PromotionInv, PromotedIsRecorded
  <2>6. PromotedIsRecorded'
    <3> SUFFICES ASSUME NEW y \in promoted'
                 PROVE  /\ Judged(y.package, y.day)
                        /\ y.package.evidence \subseteq evidence' /\ y.package.decision \in decisions'
                        /\ y.package.decision.proposed \in DOMAIN gates'
                        /\ gates'[y.package.decision.proposed] = y.package.gate
                        /\ \A z \in promoted' :
                             z.package.decision.proposed = y.package.decision.proposed => z = y
      BY DEF PromotedIsRecorded
    <3>1. CASE y = x
      BY <3>1, <1>1, <1>3, <2>2, <2>3, <2>4, <2>5
    <3>2. CASE y \in promoted
      <4>1. /\ Judged(y.package, y.day)
            /\ y.package.evidence \subseteq evidence /\ y.package.decision \in decisions
            /\ y.package.decision.proposed \in DOMAIN gates
            /\ gates[y.package.decision.proposed] = y.package.gate
            /\ \A z \in promoted :
                 z.package.decision.proposed = y.package.decision.proposed => z = y
        BY <3>2 DEF PromotionInv, PromotedIsRecorded
      <4> QED
        BY <4>1, <1>3, <2>2, <2>3, <2>4
    <3> QED
      BY <3>1, <3>2, <1>3
  <2>7. VersionsAreAccountedFor'
    <3>1. \E y \in promoted' : y.package.decision.proposed = v
      BY <1>3, <2>4
    <3>2. \A w \in DOMAIN gates : IsPromoted(w)' \/ w \in seeded
      BY <1>3, <2>3 DEF IsPromoted, PromotionInv, VersionsAreAccountedFor
    <3>4. \A y \in promoted' : y.package.decision.proposed \notin seeded
      BY <1>3, <2>2, <2>4 DEF PromotionInv, VersionsAreAccountedFor
    <3> HIDE DEF v
    <3>3. \A w \in DOMAIN gates' : IsPromoted(w)' \/ w \in seeded
      BY <2>3, <3>1, <3>2 DEF IsPromoted
    <3> QED
      BY <1>1, <2>2, <2>3, <3>3, <3>4 DEF PromotionInv, VersionsAreAccountedFor
  <2>8. BoundIsValid'
    BY <1>1, <2>3 DEF PromotionInv, BoundIsValid
  <2> QED
    BY <2>1, <2>6, <2>7, <2>8 DEF PromotionInv
<1> QED
  BY <1>2, <1>3 DEF CommitPromotion

LEMMA PromotionStepKeeps ==
  ASSUME PromotionInv, [PromotionNext]_gateVars
  PROVE  PromotionInv'
<1>1. CASE seedEnvironmentGate
  BY <1>1, SeedKeeps
<1>2. CASE bindEnvironmentGate
  <2>1. CurrentVersion = 0 \/ CurrentVersion \in DOMAIN gates
    BY CurrentIsThere DEF PromotionInv, VersionsAreAccountedFor
  <2>2. PromotionTyped' /\ JudgedFirst'
    BY <1>2 DEF bindEnvironmentGate, PromotionInv, PromotionTyped, JudgedFirst
  <2>3. BoundIsValid'
    BY <1>2, <2>1 DEF bindEnvironmentGate, BoundIsValid
  <2> QED
    BY <1>2, <2>2, <2>3, TablesStay DEF bindEnvironmentGate
<1>4. ASSUME NEW o \in Promoters, JudgePromotion(o) PROVE PromotionInv'
  BY <1>4, JudgeKeeps
<1>5. ASSUME NEW o \in Promoters, BeginPromotion(o) PROVE PromotionInv'
  <2>1. PICK goal \in {"insert", "rolled back"} : promotion' = [promotion EXCEPT ![o].pc = goal]
    BY <1>5 DEF BeginPromotion
  <2>2. PromotionTyped' /\ JudgedFirst'
    BY <1>5, <2>1, PcMoves DEF BeginPromotion, PromotionSteps
  <2> QED
    BY <1>5, <2>2, TablesStay, BoundStays DEF BeginPromotion
<1>6. ASSUME NEW o \in Promoters, CommitPromotion(o) PROVE PromotionInv'
  BY <1>6, CommitKeeps
<1>7. ASSUME NEW o \in Promoters, TryAgain(o) PROVE PromotionInv'
  <2>1. PICK p \in Packages :
          promotion' = [promotion EXCEPT ![o] = [pc |-> "judge", package |-> p, day |-> 0]]
    BY <1>7 DEF TryAgain
  <2>2. PromotionTyped'
    BY <1>7, <2>1 DEF TryAgain, PromotionInv, PromotionTyped, PromotionType, PromotionSteps
  <2>3. JudgedFirst'
    BY <2>1 DEF PromotionInv, PromotionTyped, JudgedFirst
  <2> QED
    BY <1>7, <2>2, <2>3, TablesStay, BoundStays DEF TryAgain
<1>8. CASE UNCHANGED gateVars
  <2>1. PromotionTyped' /\ JudgedFirst'
    BY <1>8 DEF gateVars, PromotionInv, PromotionTyped, JudgedFirst
  <2> QED
    BY <1>8, <2>1, TablesStay, BoundStays DEF gateVars
<1> QED
  BY <1>1, <1>2, <1>4, <1>5, <1>6, <1>7, <1>8 DEF PromotionNext

(* What a judged package binds: passing evidence for every control, fresh  *)
(* at the decision and at the judgment and produced by no approver.        *)
LEMMA JudgedIsBacked ==
  ASSUME NEW p, NEW day, Judged(p, day), NEW c \in Controls
  PROVE  \E e \in p.evidence :
           /\ e.control = c /\ e.result = "passed" /\ e.release = p.decision.release
           /\ p.decision.at - e.observed <= FRESHNESS /\ day - e.observed <= FRESHNESS
           /\ e.producer \notin Actors(p.decision)
<1> DEFINE d == p.decision
<1>1. /\ d.decision = "approved" /\ BindsEveryControl(d)
      /\ \A i \in DOMAIN d.bindings :
            \E e \in BoundTo(d.bindings[i], p.evidence) :
              EvidenceFits(d, d.bindings[i], e) /\ FreshNow(d, e, day)
      /\ Actors(d) \cap Producers(d, p.evidence) = {}
  BY DEF Judged, evaluateEnvironmentGatePromotion
<1> HIDE DEF d
<1>2. PICK i \in DOMAIN d.bindings : d.bindings[i].control = c
  BY <1>1 DEF BindsEveryControl
<1>3. PICK e \in BoundTo(d.bindings[i], p.evidence) :
        EvidenceFits(d, d.bindings[i], e) /\ FreshNow(d, e, day)
  BY <1>1
<1>4. e \in p.evidence /\ e.id = d.bindings[i].ref
  BY DEF BoundTo
<1>5. e.producer \in Producers(d, p.evidence)
  BY <1>4 DEF Producers
<1>6. /\ e.control = c /\ e.result = "passed" /\ e.release = d.release
      /\ d.at - e.observed <= FRESHNESS /\ day - e.observed <= FRESHNESS
  BY <1>1, <1>2, <1>3 DEF EvidenceFits, FreshNow
<1> QED
  BY <1>1, <1>4, <1>5, <1>6 DEF d

(* However promotions, seedings and boots interleave (promote-environment- *)
(* gate.mjs, seed-environment-gate.mjs, gate-binding.ts), a promoted gate  *)
(* is the row of its version for good, was promoted once and never over a  *)
(* seeded one, and stands on its recorded decision and on independent      *)
(* evidence for every control that was fresh at the decision and at the    *)
(* instant the promotion was judged at; a host takes real source only with *)
(* a ready gate, which was promoted with its decision or, whatever its     *)
(* body, seeded by an operator.                                            *)
THEOREM PromotedGateAlwaysStands == PromotionSpec => []PromotedGateStands
<1>1. PromotionInit => PromotionInv
  <2> SUFFICES ASSUME PromotionInit PROVE PromotionInv
    OBVIOUS
  <2>0. \A o \in Promoters : \E p \in Packages :
          promotion[o] = [pc |-> "judge", package |-> p, day |-> 0]
    BY DEF PromotionInit
  <2>01. \A o \in Promoters : promotion[o] \in PromotionType /\ promotion[o].pc = "judge"
    <3> TAKE o \in Promoters
    <3>1. PICK p \in Packages : promotion[o] = [pc |-> "judge", package |-> p, day |-> 0]
      BY <2>0
    <3> QED
      BY <3>1 DEF PromotionType, PromotionSteps
  <2>1. PromotionTyped /\ JudgedFirst
    BY <2>01 DEF PromotionInit, PromotionTyped, JudgedFirst
  <2>2. DOMAIN gates = {}
    BY DEF PromotionInit
  <2> QED
    BY <2>1, <2>2 DEF PromotionInit, PromotionInv, PromotedIsRecorded, VersionsAreAccountedFor,
       BoundIsValid
<1>2. PromotionInv => PromotedGateStands
  <2> SUFFICES ASSUME PromotionInv PROVE PromotedGateStands
    OBVIOUS
  <2>1. ASSUME bound > 0, TakesRealSource(gates[bound])
        PROVE  /\ gates[bound].profile = Ready /\ gates[bound].ready
               /\ \/ bound \in seeded
                  \/ \E x \in promoted : /\ x.package.decision.proposed = bound
                                         /\ gates[bound].decision = x.package.decision.id
    <3>1. /\ bound \in DOMAIN gates /\ RealEvidenceSchema(gates[bound])
          /\ IsPromoted(bound) \/ bound \in seeded
      <4>1. bound # 0
        BY <2>1
      <4> QED
        BY <4>1 DEF PromotionInv, BoundIsValid, VersionsAreAccountedFor
    <3>2. gates[bound].profile = Ready /\ gates[bound].ready
      BY <2>1, <3>1 DEF RealEvidenceSchema
    <3>3. ASSUME NEW x \in promoted, x.package.decision.proposed = bound
          PROVE  gates[bound].decision = x.package.decision.id
      <4>1. Judged(x.package, x.day) /\ gates[bound] = x.package.gate
        BY <3>3 DEF PromotionInv, PromotedIsRecorded
      <4>2. x.package.gate.profile = Ready => x.package.gate.decision = x.package.decision.id
        BY <4>1 DEF Judged, evaluateEnvironmentGatePromotion
      <4> QED
        BY <3>2, <4>1, <4>2
    <3> QED
      BY <3>1, <3>2, <3>3 DEF IsPromoted
  <2>2. ASSUME NEW x \in promoted
        PROVE  LET d == x.package.decision
               IN  /\ gates[d.proposed] = x.package.gate /\ d.proposed \notin seeded
                   /\ d \in decisions /\ d.decision = "approved"
                   /\ \A c \in Controls : \E e \in evidence :
                        /\ e.control = c /\ e.result = "passed" /\ e.release = d.release
                        /\ d.at - e.observed <= FRESHNESS /\ x.day - e.observed <= FRESHNESS
                        /\ e.producer \notin Actors(d)
                   /\ \A y \in promoted : y.package.decision.proposed = d.proposed => y = x
    <3> DEFINE d == x.package.decision
    <3>1. /\ Judged(x.package, x.day) /\ x.package.evidence \subseteq evidence
          /\ gates[d.proposed] = x.package.gate /\ d \in decisions /\ d.proposed \notin seeded
          /\ \A y \in promoted : y.package.decision.proposed = d.proposed => y = x
      BY DEF PromotionInv, PromotedIsRecorded, VersionsAreAccountedFor
    <3>2. d.decision = "approved"
      BY <3>1 DEF Judged, evaluateEnvironmentGatePromotion
    <3>3. \A c \in Controls : \E e \in evidence :
            /\ e.control = c /\ e.result = "passed" /\ e.release = d.release
            /\ d.at - e.observed <= FRESHNESS /\ x.day - e.observed <= FRESHNESS
            /\ e.producer \notin Actors(d)
      BY <3>1, JudgedIsBacked
    <3> QED
      BY <3>1, <3>2, <3>3
  <2> QED
    BY <2>1, <2>2 DEF PromotedGateStands
<1> QED
  BY <1>1, <1>2, PromotionStepKeeps, PTL DEF PromotionSpec

-----------------------------------------------------------------------------
(* The documents.                                                          *)

(* Rows and artifacts are lists, and a bundle ships at most one policy. *)
Listed(s) == s \in Seq(Elements(s))
DocumentTyped ==
  /\ kind \in {"policy", "receipt"} => Listed(rec.rows)
  /\ kind = "request" =>
       /\ Listed(rec.artifacts)
       /\ \A p, q \in rec.shipped.policy : p = q /\ Listed(p.rows)

LEMMA ListsAreFinite ==
  ASSUME NEW s, Listed(s)
  PROVE  /\ Len(s) \in Nat /\ DOMAIN s = 1 .. Len(s) /\ IsFiniteSet(DOMAIN s)
         /\ Cardinality(DOMAIN s) = Len(s)
<1>1. Len(s) \in Nat /\ DOMAIN s = 1 .. Len(s)
  BY DEF Listed
<1>2. IsFiniteSet(1 .. Len(s)) /\ Cardinality(1 .. Len(s)) = Len(s)
  <2> DEFINE n == Len(s)
  <2> HIDE DEF n
  <2>1. n \in Nat
    BY <1>1 DEF n
  <2>2. /\ IsFiniteSet(1 .. n)
        /\ Cardinality(1 .. n) = IF 1 > n THEN 0 ELSE n - 1 + 1
    BY <2>1, FS_Interval
  <2>3. IsFiniteSet(1 .. n) /\ Cardinality(1 .. n) = n
    BY <2>1, <2>2
  <2> QED
    BY <2>3 DEF n
<1> QED
  BY <1>1, <1>2

(* As many categories as rows: no row repeats a category. *)
LEMMA CompleteIsDistinct ==
  ASSUME NEW d, Listed(d.rows), CategoriesComplete(d)
  PROVE  \A i, j \in DOMAIN d.rows : d.rows[i].category = d.rows[j].category => i = j
<1> DEFINE T == {r.category : r \in Elements(d.rows)}
           f == [i \in DOMAIN d.rows |-> d.rows[i].category]
<1>1. IsFiniteSet(DOMAIN d.rows) /\ Cardinality(DOMAIN d.rows) = Len(d.rows)
  BY ListsAreFinite
<1>2. Cardinality(T) = Len(d.rows)
  BY DEF CategoriesComplete
<1>3. f \in Surjection(DOMAIN d.rows, T)
  <2>1. f \in [DOMAIN d.rows -> T]
    BY DEF Elements
  <2>2. \A t \in T : \E i \in DOMAIN d.rows : f[i] = t
    BY DEF Elements
  <2> QED
    BY <2>1, <2>2 DEF Surjection
<1> HIDE DEF T
<1>4. f \in Injection(DOMAIN d.rows, T)
  <2> HIDE DEF f
  <2> QED
    BY <1>1, <1>2, <1>3, FS_SurjSameCardinalityImpliesInj
<1> QED
  BY <1>4 DEF Injection, IsInjective

(* The one row of a category is the first. *)
LEMMA FirstIsOnly ==
  ASSUME NEW d, Listed(d.rows), CategoriesComplete(d), NEW c, NEW i \in CategoryRows(d, c)
  PROVE  FirstRow(d, c) = d.rows[i] /\ HasRow(d, c)
<1>1. i \in DOMAIN d.rows /\ i \in Nat
  BY ListsAreFinite DEF CategoryRows
<1>2. CategoryRows(d, c) = {i}
  BY <1>1, CompleteIsDistinct DEF CategoryRows
<1>3. (CHOOSE k \in CategoryRows(d, c) : \A j \in CategoryRows(d, c) : k <= j) = i
  BY <1>1, <1>2
<1> QED
  BY <1>2, <1>3 DEF FirstRow, HasRow

LEMMA OnceIsFound ==
  ASSUME NEW d, Listed(d.rows), NEW c, NEW flag, ContainsOnce(d, c, flag)
  PROVE  \E i \in CategoryRows(d, c) : d.rows[i].included = flag
<1> DEFINE S == {i \in CategoryRows(d, c) : d.rows[i].included = flag}
<1>1. S \in SUBSET DOMAIN d.rows
  BY DEF CategoryRows
<1>2. Cardinality(S) = 1
  BY DEF ContainsOnce
<1> HIDE DEF S
<1>3. IsFiniteSet(S)
  BY <1>1, ListsAreFinite, FS_Subset
<1>4. S # {}
  BY <1>2, <1>3, FS_Singleton
<1> QED
  BY <1>4 DEF S

(* The gate's rule on the source categories (C7-04) follows from the       *)
(* schema together with the port.                                          *)
LEMMA PolicyPasses ==
  ASSUME NEW p, Listed(p.rows), DisclosurePolicySchema(p), disclosurePolicyAccepted(p)
  PROVE  gateDisclosurePolicyAccepted(p)
<1> SUFFICES ASSUME p.mode \in Modes
             PROVE  PolicyCategoriesHold(p) /\ gatePolicyModeHolds(p) /\ PolicyRetentionHolds(p)
  BY DEF gateDisclosurePolicyAccepted
<1>1. PolicyCategoriesHold(p) /\ PolicyModeHolds(p) /\ PolicyRetentionHolds(p)
  BY DEF disclosurePolicyAccepted
<1>2. CategoriesComplete(p)
  BY <1>1 DEF PolicyCategoriesHold
<1>3. ASSUME NEW c, ContainsOnce(p, c, TRUE) PROVE Includes(p, c)
  <2> DEFINE flag == TRUE
  <2>0. ContainsOnce(p, c, flag)
    BY <1>3
  <2> HIDE DEF flag
  <2>01. \E i \in CategoryRows(p, c) : p.rows[i].included = flag
    BY <2>0, OnceIsFound
  <2>1. PICK i \in CategoryRows(p, c) : p.rows[i].included = TRUE
    BY <2>01 DEF flag
  <2>2. FirstRow(p, c) = p.rows[i] /\ HasRow(p, c)
    BY <1>2, <2>1, FirstIsOnly
  <2>3. FirstRow(p, c).included = TRUE
    BY <2>1, <2>2, Zenon
  <2> QED
    BY <2>2, <2>3, Zenon DEF Includes
<1>4. ASSUME NEW c, ContainsOnce(p, c, FALSE) PROVE ~Includes(p, c)
  <2> DEFINE flag == FALSE
  <2>0. ContainsOnce(p, c, flag)
    BY <1>4
  <2> HIDE DEF flag
  <2>01. \E i \in CategoryRows(p, c) : p.rows[i].included = flag
    BY <2>0, OnceIsFound
  <2>1. PICK i \in CategoryRows(p, c) : p.rows[i].included = FALSE
    BY <2>01 DEF flag
  <2>2. FirstRow(p, c) = p.rows[i] /\ HasRow(p, c)
    BY <1>2, <2>1, FirstIsOnly
  <2>3. FirstRow(p, c).included = FALSE
    BY <2>1, <2>2, Zenon
  <2> QED
    BY <2>2, <2>3, Zenon DEF Includes
<1>5. gatePolicyModeHolds(p)
  BY <1>1, <1>3, <1>4 DEF gatePolicyModeHolds, DisclosurePolicySchema,
     PolicyFindingContextSchema, PolicyExtendedSchema
<1> QED
  BY <1>1, <1>5

LEMMA ManifestPasses ==
  ASSUME NEW m, outboundManifestAccepted(m)
  PROVE  gateOutboundManifestAccepted(m)
BY DEF outboundManifestAccepted, gateOutboundManifestAccepted, gateManifestHeaderAccepted,
   gateManifestRowsAccepted, ManifestStateHolds, ManifestModeHolds, Modes, SourceCategories

LEMMA ReceiptPasses ==
  ASSUME NEW t, NEW o, Listed(t.rows), verifyVendorReceiptRecordSync(t, o)
  PROVE  gateVendorReceiptAccepted(t)
<1>1. /\ VendorReceiptSchema(t) /\ comparisonRowsMatchReceipt(t) /\ KeyMetadataHolds(t)
      /\ t.sig.type = "vendor_receipt" /\ t.sig.identity = t.id /\ t.meta.identity = t.id
      /\ t.sealed /\ isArtifactCountSummary(t.approved) /\ isArtifactCountSummary(t.received)
      /\ t.approved = t.received
  BY DEF verifyVendorReceiptRecordSync
<1>2. \A i, j \in DOMAIN t.rows : t.rows[i].field = t.rows[j].field => i = j
  <2> SUFFICES ASSUME NEW i \in DOMAIN t.rows, NEW j \in DOMAIN t.rows,
                      t.rows[i].field = t.rows[j].field
               PROVE  i = j
    OBVIOUS
  <2> DEFINE S == {k \in DOMAIN t.rows : t.rows[k].field = t.rows[i].field}
  <2>1. t.rows[i].field \in ComparisonFields
    BY <1>1 DEF comparisonRowsMatchReceipt, Elements
  <2>2. Cardinality(S) = 1
    BY <1>1, <2>1 DEF VendorReceiptSchema, ReceiptRowsSchema
  <2>3. S \in SUBSET DOMAIN t.rows /\ i \in S /\ j \in S
    OBVIOUS
  <2> HIDE DEF S
  <2>4. IsFiniteSet(S)
    BY <2>3, ListsAreFinite, FS_Subset
  <2>5. PICK x : S = {x}
    BY <2>2, <2>4, FS_Singleton
  <2> QED
    BY <2>3, <2>5
<1>3. gateReceiptSignatureAccepted(t)
  BY <1>1 DEF VendorReceiptSchema, ReceiptIdentitySchema, ReceiptSignatureSchema,
     gateReceiptSignatureAccepted
<1> QED
  BY <1>1, <1>2, <1>3 DEF gateVendorReceiptAccepted, comparisonRowsMatchReceipt,
     isArtifactCountSummary, gateCountSummaryAccepted

LEMMA ReadinessPasses ==
  ASSUME NEW p, PromotionAccepts(p)
  PROVE  /\ TwoApproversAndSeal(p.decision) => gateDecisionAccepted(p.decision, p.evidence)
         /\ EnvironmentGateSchema(p.gate) /\ RealEvidenceSchema(p.gate) =>
              gateGateAccepted(p.gate, {p.decision})
<1> DEFINE d == p.decision
<1>1. /\ d.decision = "approved" /\ d.proposed = d.prev + 1 /\ BindsEveryControl(d)
      /\ \A i \in DOMAIN d.bindings :
            \E e \in BoundTo(d.bindings[i], p.evidence) : EvidenceFits(d, d.bindings[i], e)
      /\ Actors(d) \cap Producers(d, p.evidence) = {}
      /\ d.digest = p.gate.body /\ (p.gate.profile = Ready => p.gate.decision = d.id)
  BY DEF PromotionAccepts, evaluateEnvironmentGatePromotion
<1>2. d.signed
  BY <1>1 DEF PromotionAccepts, ReadinessDecisionSchema
<1> HIDE DEF d
<1>3. TwoApproversAndSeal(d) => gateDecisionAccepted(d, p.evidence)
  BY <1>1, <1>2 DEF TwoApproversAndSeal, gateDecisionAccepted
<1>4. EnvironmentGateSchema(p.gate) /\ RealEvidenceSchema(p.gate) => gateGateAccepted(p.gate, {d})
  BY <1>1 DEF EnvironmentGateSchema, RealEvidenceSchema, gateGateAccepted
<1> QED
  BY <1>3, <1>4 DEF d

LEMMA AttemptPasses ==
  ASSUME NEW a, LocalRunnerAttemptSchema(a), AttemptWordingHolds(a)
  PROVE  gateAttemptAccepted(a)
BY DEF LocalRunnerAttemptSchema, AttemptBundleSchema, AttemptApprovalSchema, AttemptRemoteSchema,
   AttemptTrustSchema, gateAttemptAccepted

(* An artifact that the gate finds cleaned up has an intent that does. *)
LEMMA CleanedUp ==
  ASSUME NEW b, NEW a \in b.artifacts, gateBundleAccepted(b), a.class \in SourceClasses
  PROVE  \E n \in DOMAIN b.intents :
           b.intents[n].ref = a.ref /\ b.intents[n].required /\ b.intents[n].deletion = "pending"
<1>1. Cardinality(CleansUp(b, a)) = 1
  BY DEF gateBundleAccepted
<1>2. CleansUp(b, a) # {}
  BY <1>1, FS_EmptySet
<1> QED
  BY <1>2 DEF CleansUp

LEMMA CleanupPasses ==
  ASSUME NEW b, OneIntentEach(b), gateBundleAccepted(b)
  PROVE  bundleCleanupAccepted(b)
<1>1. ASSUME NEW a \in b.artifacts, a.class \in SourceClasses
      PROVE  \E i \in Elements(b.intents) : i.ref = a.ref
  BY <1>1, CleanedUp DEF Elements
<1>2. ASSUME NEW i \in Elements(b.intents), i.class = Transient
      PROVE  i.required /\ i.deletion = "pending"
  <2>1. PICK n \in DOMAIN b.intents : b.intents[n] = i
    BY DEF Elements
  <2>2. PICK a \in b.artifacts : a.ref = i.ref /\ a.class = i.class
    BY <2>1 DEF OneIntentEach
  <2>3. PICK m \in DOMAIN b.intents :
          b.intents[m].ref = a.ref /\ b.intents[m].required /\ b.intents[m].deletion = "pending"
    BY <1>2, <2>2, CleanedUp DEF SourceClasses
  <2>4. m = n
    BY <2>1, <2>2, <2>3 DEF OneIntentEach
  <2> QED
    BY <2>1, <2>3, <2>4
<1> QED
  BY <1>1, <1>2 DEF bundleCleanupAccepted, gateBundleAccepted

(* Whatever a document says, in any field and any number of them: what the *)
(* runtime's schemas and ports (submitted-artifact-semantics.ts,           *)
(* vendor-receipt-verification.ts) accept, the repository gate             *)
(* (protocol-utils.mjs) accepts; and a bundle whose cleanup the gate       *)
(* accepts, intent by intent, the runtime accepts.                         *)
THEOREM AnyAcceptedPassesGate ==
  ASSUME DocumentTyped
  PROVE  AcceptedPassesGate
<1>1. kind = "policy" /\ DisclosurePolicySchema(rec) /\ disclosurePolicyAccepted(rec) =>
        gateDisclosurePolicyAccepted(rec)
  BY PolicyPasses DEF DocumentTyped
<1>2. kind = "receipt" /\ verifyVendorReceiptRecordSync(rec, ReceiptOutcome) =>
        gateVendorReceiptAccepted(rec)
  BY ReceiptPasses DEF DocumentTyped
<1>3. kind = "approval" /\ CustomerApprovalSchema(rec) /\ customerApprovalAccepted(rec) =>
        gateCustomerApprovalAccepted(rec)
  BY DEF CustomerApprovalSchema, customerApprovalAccepted, gateCustomerApprovalAccepted
<1>4. kind = "bundle" /\ OneIntentEach(rec) /\ gateBundleAccepted(rec) => bundleCleanupAccepted(rec)
  BY CleanupPasses
<1> QED
  BY <1>1, <1>2, <1>3, <1>4, ManifestPasses, AttemptPasses, ReadinessPasses DEF AcceptedPassesGate

-----------------------------------------------------------------------------
(* What intake finds eligible passed every check. *)
LEMMA EligiblePassedAll ==
  ASSUME NEW r, verifyIntakeSubmission(r).state = "verified_receipt_eligible"
  PROVE  /\ validateRequestSchemas(r) /\ ~HeadRejects(r, r) /\ ~TailRejects(r)
         /\ ~HeadQuarantines(r) /\ ~TailQuarantines(r)
<1>1. \A q, b : failureResult(q, b).state # "verified_receipt_eligible"
  BY DEF failureResult
<1> QED
  BY <1>1 DEF verifyIntakeSubmission

LEMMA OneIsThere ==
  ASSUME NEW r, Listed(r.artifacts), NEW a \in Elements(r.artifacts)
  PROVE  TypeCount(r, a.type) > 0
<1> DEFINE S == {i \in DOMAIN r.artifacts : r.artifacts[i].type = a.type}
<1>1. S \in SUBSET DOMAIN r.artifacts /\ S # {}
  BY DEF Elements
<1>2. TypeCount(r, a.type) = Cardinality(S)
  BY DEF TypeCount
<1> HIDE DEF S
<1>3. IsFiniteSet(S)
  BY <1>1, ListsAreFinite, FS_Subset
<1>4. Cardinality(S) \in Nat /\ Cardinality(S) # 0
  BY <1>1, <1>3, FS_CardinalityType, FS_EmptySet
<1> QED
  BY <1>2, <1>4

(* For every request (intake/src/index.ts): one that is eligible for a     *)
(* receipt brings real source only into an environment that is ready for   *)
(* it and nothing its manifest does not account for, and its parts belong  *)
(* together as the gate wants them to.                                     *)
THEOREM RealSourceAlwaysStaysOut ==
  ASSUME DocumentTyped
  PROVE  RealSourceStaysOut
<1> SUFFICES ASSUME kind = "request", verifyIntakeSubmission(rec).state = "verified_receipt_eligible"
             PROVE  /\ \A a \in Elements(rec.artifacts) :
                         /\ a.type \in SourceTypes /\ ~(a.declared /\ a.marked) =>
                              /\ rec.gate.profile = "real_snippet_ready" /\ rec.gate.ready
                              /\ TypeAccepted(a, rec.gate)
                         /\ a.class \in rec.gate.classes
                         /\ a.class = OptIn => rec.gate.profile = "real_snippet_ready"
                         /\ a.type = "raw_snippet" => "raw_snippets" \in rec.manifest.included
                         /\ a.type = "targeted_file" => "targeted_files" \in rec.manifest.included
                    /\ rec.approval.shown = rec.manifest.warnings
                    /\ rec.approval.decision = "approved"
                    /\ rec.signature.identity = rec.bundle.id
                    /\ gateBundleChainAccepted(rec.bundle, rec.approval, rec.manifest)
                    /\ \A p \in rec.shipped.policy : gateDisclosurePolicyAccepted(p)
  BY DEF RealSourceStaysOut
<1>0. /\ Listed(rec.artifacts)
      /\ \A p, q \in rec.shipped.policy : p = q /\ Listed(p.rows)
  BY DEF DocumentTyped
<1>1. /\ validateRequestSchemas(rec) /\ ~HeadRejects(rec, rec) /\ ~TailRejects(rec)
      /\ ~HeadQuarantines(rec) /\ ~TailQuarantines(rec)
  BY EligiblePassedAll
<1>2. /\ validateApprovalAndManifestChain(rec) /\ validateSignatureEnvelopeTrustBoundary(rec)
      /\ rec.gate \in TrustedGates
  BY <1>1 DEF HeadRejects, HeadQuarantines, validateEnvironmentEvidenceGate
<1>3. /\ validateArtifacts(rec) /\ validateShippedControlArtifacts(rec)
      /\ validatePhysicalEvidenceCategoryInclusion(rec)
      /\ ClassesAllowed(rec) /\ SourceBoundaryHolds(rec)
  BY <1>1 DEF TailRejects, ControlRejects, TailQuarantines
<1>4. ASSUME NEW a \in Elements(rec.artifacts), a.type \in SourceTypes, ~(a.declared /\ a.marked)
      PROVE  /\ rec.gate.profile = "real_snippet_ready" /\ rec.gate.ready
             /\ TypeAccepted(a, rec.gate)
  <2>1. a.bytes # "missing"
    BY <1>3 DEF validateArtifacts
  <2>2. validateSourceArtifactBoundary(a, rec.gate)
    BY <1>3, <1>4, <2>1 DEF SourceBoundaryHolds
  <2> QED
    BY <1>4, <2>2 DEF validateSourceArtifactBoundary
<1>5. ASSUME NEW a \in Elements(rec.artifacts)
      PROVE  a.class \in rec.gate.classes
  BY <1>3 DEF ClassesAllowed
<1>6. OptIn \in rec.gate.classes => rec.gate.profile = "real_snippet_ready"
  BY <1>2 DEF TrustedGates
<1>7. ASSUME NEW a \in Elements(rec.artifacts)
      PROVE  /\ a.type = "raw_snippet" => "raw_snippets" \in rec.manifest.included
             /\ a.type = "targeted_file" => "targeted_files" \in rec.manifest.included
  <2>1. TypeCount(rec, a.type) > 0
    BY <1>0, OneIsThere
  <2>2. /\ PhysicalType["raw_snippets"] = "raw_snippet"
        /\ PhysicalType["targeted_files"] = "targeted_file"
        /\ "raw_snippets" \in DOMAIN PhysicalType /\ "targeted_files" \in DOMAIN PhysicalType
    BY DEF PhysicalType
  <2> QED
    BY <1>3, <2>1, <2>2 DEF validatePhysicalEvidenceCategoryInclusion
<1>8. \A p \in rec.shipped.policy : gateDisclosurePolicyAccepted(p)
  <2>1. PICK p \in rec.shipped.policy : DisclosurePolicySchema(p) /\ disclosurePolicyAccepted(p)
    BY <1>3 DEF validateShippedControlArtifacts
  <2>2. gateDisclosurePolicyAccepted(p)
    BY <1>0, <2>1, PolicyPasses
  <2> QED
    BY <1>0, <2>2
<1>9. /\ rec.approval.shown = rec.manifest.warnings /\ rec.approval.decision = "approved"
      /\ gateBundleChainAccepted(rec.bundle, rec.approval, rec.manifest)
  BY <1>2 DEF validateApprovalAndManifestChain, gateBundleChainAccepted
<1>10. rec.signature.identity = rec.bundle.id
  BY <1>2 DEF validateSignatureEnvelopeTrustBoundary
<1> QED
  BY <1>4, <1>5, <1>6, <1>7, <1>8, <1>9, <1>10
============================================================================
