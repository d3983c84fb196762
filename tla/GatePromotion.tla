--------------------------- MODULE GatePromotion ---------------------------
(***************************************************************************)
(* The environment evidence gate of a deployment and how it is promoted:   *)
(* scripts/promote-environment-gate.mjs with lib/promote-environment-      *)
(* gate.mjs, scripts/seed-environment-gate.mjs and the host's              *)
(* gate-binding.ts; and the repository gate's judgment of the readiness    *)
(* records (scripts/lib/protocol-utils.mjs).                               *)
(*                                                                         *)
(* A package is what one promotion brings: the decision, the evidence it   *)
(* binds, the proposed gate and the outcome of verifying the decision's    *)
(* signature.  `sealed' says that a record's id is the hash of its         *)
(* content.  An instant is a number of days.                               *)
(***************************************************************************)
EXTENDS OutboundPackage

CONSTANTS Controls,    \* ENVIRONMENT_READINESS_CONTROLS
          Promoters,   \* operators running the promotion script
          Packages,    \* what they may bring
          Seeds,       \* gate bodies the seeding script may bring, of any kind
          MaxVersion,  \* bound on gate versions
          Days         \* the instants a promotion may be judged at

ASSUME PromotionAssumption == MaxVersion \in Nat

FRESHNESS == 7

VARIABLES
  gates,      \* function from versions to gates: environment_evidence_gate
  decisions,  \* environment_readiness_decision rows
  evidence,   \* environment_readiness_evidence rows
  promotion,  \* [Promoters -> [pc, package]]
  promoted,   \* history: the packages promoted, with the day they were judged at
  seeded,     \* history: the versions the seeding script inserted
  bound       \* the version the pilot host runs with, 0 when it does not run

gateVars == <<gates, decisions, evidence, promotion, promoted, seeded, bound>>

-----------------------------------------------------------------------------
(* Readiness records. *)

ReadinessEvidenceSchema(e) ==
  e.control \in Controls /\ e.result \in {"passed", "failed"} /\ e.attachments # {}

(* Exactly one binding for each control, one approver in each role, and a  *)
(* signature exactly on an approval.                                       *)
ReadinessDecisionSchema(d) ==
  /\ d.decision \in {"approved", "declined"}
  /\ d.decision = "approved" <=> d.signed
  /\ d.prev >= 1 /\ d.proposed >= 2

DecisionBindingsSchema(d) ==
  /\ Len(d.bindings) = Cardinality(Controls)
  /\ \A c \in Controls : Cardinality({i \in DOMAIN d.bindings : d.bindings[i].control = c}) = 1

DecisionApproversSchema(d) == DOMAIN d.approvers = {"security", "operations"}

Actors(d) == {d.approvers[role] : role \in DOMAIN d.approvers}

BoundTo(b, records) == {e \in records : e.id = b.ref}

BindsEveryControl(d) ==
  /\ Len(d.bindings) = Cardinality(Controls)
  /\ {d.bindings[i].control : i \in DOMAIN d.bindings} = Controls

(* The evidence bound as one control: of that control, of this release,    *)
(* passing, and seen and reviewed in the week before the decision.         *)
EvidenceFits(d, b, e) ==
  /\ e.control = b.control /\ e.release = d.release
  /\ d.decision = "approved" =>
        /\ e.result = "passed"
        /\ e.reviewed <= d.at /\ e.observed <= d.at
        /\ d.at - e.observed <= FRESHNESS /\ d.at - e.reviewed <= FRESHNESS

Producers(d, records) ==
  {e.producer : e \in {x \in records : \E i \in DOMAIN d.bindings : d.bindings[i].ref = x.id}}

(* validateEnvironmentReadinessEvidenceSemantics: nobody reviews his own,  *)
(* nothing is reviewed before it is seen or collected after.               *)
gateEvidenceAccepted(e) ==
  /\ e.sealed /\ e.producer # e.reviewer /\ e.reviewed >= e.observed
  /\ \A a \in e.attachments : a.collected <= e.observed
  /\ \A a, b \in e.attachments : a.check = b.check \/ a.digest = b.digest => a = b

gateDecisionAccepted(d, records) ==
  /\ d.sealed /\ d.proposed = d.prev + 1 /\ BindsEveryControl(d)
  /\ Cardinality(Actors(d)) = 2
  /\ \A i \in DOMAIN d.bindings :
        \E e \in BoundTo(d.bindings[i], records) : EvidenceFits(d, d.bindings[i], e)
  /\ Actors(d) \cap Producers(d, records) = {}
  /\ d.decision = "approved" => d.signed /\ d.signedTime = d.at

(* validateEnvironmentEvidenceGateSemantics. *)
gateGateAccepted(g, known) ==
  /\ g.profile \in {Synthetic, Candidate, Ready}
  /\ g.profile # Ready => ~TakesRealSource(g)
  /\ TakesRealSource(g) => g.ready /\ OptIn \in g.classes
  /\ g.profile = Ready =>
        \E d \in known : d.id = g.decision /\ d.decision = "approved" /\ d.digest = g.body

-----------------------------------------------------------------------------
(* evaluateEnvironmentGatePromotion. *)

FreshNow(d, e, today) ==
  /\ today - e.observed <= FRESHNESS /\ today - e.reviewed <= FRESHNESS
  /\ today - d.at <= FRESHNESS

(* Mutant of evaluateEnvironmentGatePromotion: age is not looked at again. *)
evaluatePromotionUndated(p, current, today) ==
  LET d == p.decision
  IN  /\ d.decision = "approved"
      /\ d.proposed = d.prev + 1 /\ current = d.prev
      /\ BindsEveryControl(d)
      /\ \A i \in DOMAIN d.bindings :
            \E e \in BoundTo(d.bindings[i], p.evidence) :
              EvidenceFits(d, d.bindings[i], e)
      /\ Actors(d) \cap Producers(d, p.evidence) = {}
      /\ p.verified = "verified"
      /\ d.digest = p.gate.body
      /\ p.gate.profile = Ready => p.gate.decision = d.id

evaluateEnvironmentGatePromotion(p, current, today) ==
  LET d == p.decision
  IN  /\ d.decision = "approved"
      /\ d.proposed = d.prev + 1 /\ current = d.prev
      /\ BindsEveryControl(d)
      /\ \A i \in DOMAIN d.bindings :
            \E e \in BoundTo(d.bindings[i], p.evidence) :
              EvidenceFits(d, d.bindings[i], e) /\ FreshNow(d, e, today)
      /\ Actors(d) \cap Producers(d, p.evidence) = {}
      /\ p.verified = "verified"
      /\ d.digest = p.gate.body
      /\ p.gate.profile = Ready => p.gate.decision = d.id

-----------------------------------------------------------------------------
(* The scripts.  The current version is read when the promotion is judged  *)
(* and again in its transaction, which commits as a whole or not at all.   *)

CurrentVersion ==
  IF DOMAIN gates = {} THEN 0 ELSE CHOOSE v \in DOMAIN gates : \A w \in DOMAIN gates : w <= v

WithGate(v, g) == [w \in DOMAIN gates \cup {v} |-> IF w = v THEN g ELSE gates[w]]

PromotionInit ==
  /\ gates = <<>>
  /\ decisions = {} /\ evidence = {} /\ promoted = {} /\ seeded = {} /\ bound = 0
  /\ promotion \in [Promoters -> {[pc |-> "judge", package |-> p, day |-> 0] : p \in Packages}]

(* The body is not looked at; a version that is there stays as it is. *)
seedEnvironmentGate ==
  /\ \E v \in 1 .. MaxVersion, g \in Seeds :
       v \notin DOMAIN gates /\ gates' = WithGate(v, g) /\ seeded' = seeded \cup {v}
  /\ UNCHANGED <<decisions, evidence, promotion, promoted, bound>>

(* promoteEnvironmentGate up to its transaction.  The instant is the wall  *)
(* clock's or the one its operator gives as --now, so it is any.           *)
JudgePromotion(o) ==
  LET p == promotion[o].package
  IN  /\ promotion[o].pc = "judge"
      /\ \E today \in Days :
           promotion' = [promotion EXCEPT ![o] =
             [pc |-> IF evaluateEnvironmentGatePromotion(p, CurrentVersion, today)
                     THEN "begin" ELSE "refused",
              package |-> p, day |-> today]]
      /\ UNCHANGED <<gates, decisions, evidence, promoted, seeded, bound>>

(* persistEnvironmentGatePromotion selects the current version ... *)
BeginPromotion(o) ==
  /\ promotion[o].pc = "begin"
  /\ promotion' = [promotion EXCEPT ![o].pc =
       IF CurrentVersion = promotion[o].package.decision.prev THEN "insert" ELSE "rolled back"]
  /\ UNCHANGED <<gates, decisions, evidence, promoted, seeded, bound>>

(* insertCanonical: a row of that id with another body is a conflict. *)
InsertsCanonical(table, row) == \A r \in table : r.id = row.id => r = row

(* INSERT ... ON CONFLICT (version) DO NOTHING. *)
InsertsGate(v) == v \in 1 .. MaxVersion /\ v \notin DOMAIN gates

(* ... and inserts the records and the gate. *)
CommitPromotion(o) ==
  LET p == promotion[o].package
  IN  /\ promotion[o].pc = "insert"
      /\ IF /\ \A e \in p.evidence : InsertsCanonical(evidence, e)
            /\ InsertsCanonical(decisions, p.decision)
            /\ InsertsGate(p.decision.proposed)
         THEN /\ evidence' = evidence \cup p.evidence
              /\ decisions' = decisions \cup {p.decision}
              /\ gates' = WithGate(p.decision.proposed, p.gate)
              /\ promoted' = promoted \cup {[package |-> p, day |-> promotion[o].day, by |-> o]}
              /\ promotion' = [promotion EXCEPT ![o].pc = "promoted"]
         ELSE /\ promotion' = [promotion EXCEPT ![o].pc = "rolled back"]
              /\ UNCHANGED <<evidence, decisions, gates, promoted>>
      /\ UNCHANGED <<seeded, bound>>

(* An operator tries again, perhaps with another package. *)
TryAgain(o) ==
  /\ promotion[o].pc \in {"refused", "rolled back", "promoted"}
  /\ \E p \in Packages :
       promotion' = [promotion EXCEPT ![o] = [pc |-> "judge", package |-> p, day |-> 0]]
  /\ UNCHANGED <<gates, decisions, evidence, promoted, seeded, bound>>

(* bindEnvironmentGate when the pilot host boots: the current gate, if it  *)
(* is valid and of a profile the deployment accepts.                       *)
bindEnvironmentGate ==
  /\ bound' = IF /\ CurrentVersion > 0
                 /\ EnvironmentGateSchema(gates[CurrentVersion])
                 /\ RealEvidenceSchema(gates[CurrentVersion])
                 /\ gates[CurrentVersion].profile \in {Candidate, Ready}
              THEN CurrentVersion ELSE 0
  /\ UNCHANGED <<gates, decisions, evidence, promotion, promoted, seeded>>

PromotionNext ==
  \/ seedEnvironmentGate \/ bindEnvironmentGate
  \/ \E o \in Promoters :
       JudgePromotion(o) \/ BeginPromotion(o) \/ CommitPromotion(o) \/ TryAgain(o)

PromotionSpec == PromotionInit /\ [][PromotionNext]_gateVars

-----------------------------------------------------------------------------
(* However promotions and seedings interleave, a promoted gate is the row  *)
(* of its version for good, was promoted once and never over a seeded one, *)
(* and stands on its recorded decision and on recorded evidence for every  *)
(* control that passed, was at most a week old at the decision and at the  *)
(* instant it was judged at, and was produced by no approver.  A pilot     *)
(* host takes real source only under a gate that is ready for it, and that *)
(* is a promoted one, bound to the decision it was promoted with, or one   *)
(* that an operator seeded, whose body nothing judges but the binding.     *)
PromotedGateStands ==
  /\ bound > 0 /\ TakesRealSource(gates[bound]) =>
        /\ gates[bound].profile = Ready /\ gates[bound].ready
        /\ \/ bound \in seeded
           \/ \E x \in promoted : /\ x.package.decision.proposed = bound
                                  /\ gates[bound].decision = x.package.decision.id
  /\ \A x \in promoted :
    LET d == x.package.decision
    IN  /\ gates[d.proposed] = x.package.gate /\ d.proposed \notin seeded
        /\ d \in decisions /\ d.decision = "approved"
        /\ \A c \in Controls : \E e \in evidence :
             /\ e.control = c /\ e.result = "passed" /\ e.release = d.release
             /\ d.at - e.observed <= FRESHNESS /\ x.day - e.observed <= FRESHNESS
             /\ e.producer \notin Actors(d)
        /\ \A y \in promoted : y.package.decision.proposed = d.proposed => y = x

(* protocol/README.md: a decision binds two distinct approvers, and the    *)
(* repository gate accepts every decision that opened an environment.      *)
PromotedDecisionPassesGate ==
  \A x \in promoted :
    /\ gateDecisionAccepted(x.package.decision, evidence)
    /\ \A e \in x.package.evidence : gateEvidenceAccepted(e)
=============================================================================
