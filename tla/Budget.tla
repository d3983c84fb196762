------------------------------- MODULE Budget -------------------------------
(***************************************************************************)
(* The demo budget: the meter derived from billable review events          *)
(* (services/host/src/submission/event-derived-budget-meter.ts), its tiers *)
(* (budget-tiers.ts), the halt guard and the two ratio checks of the       *)
(* submission routes (services/host/src/routes/submissions.ts) and intake  *)
(* (services/intake/src/index.ts validateDemoBudgetEnforcement).  Each     *)
(* client opens an attempt and finalizes it; every handler reads the meter *)
(* before its awaits and acts on the reading after them.                   *)
(***************************************************************************)
EXTENDS Integers, FiniteSets

CONSTANTS
  Clients,
  Ceiling,        \* monthly_unit_ceiling
  Unit,           \* unit_per_billable_event
  Months          \* bound: months, as 1 .. Months

ASSUME BudgetAssumption ==
  IsFiniteSet(Clients) /\ Ceiling \in Nat \ {0} /\ Unit \in Nat \ {0} /\ Months \in Nat \ {0}

VARIABLES
  month,
  granted,        \* receipt_issued events of each month
  refusals,       \* submission_rejected and _quarantined events of each month
  client,         \* where each client's requests are
  reading         \* the billable events the request counted

budgetVars == <<month, granted, refusals, client, reading>>

(* Mutant of AtLeast: the percentage itself is below it. *)
MoreThan(billable, percent) == 100 * billable * Unit > percent * Ceiling

(* A ratio is compared as billable * Unit / Ceiling, in hundredths. *)
AtLeast(billable, percent) == 100 * billable * Unit >= percent * Ceiling

(* The events of the month that are of a billable type. *)
Billable(m) == granted[m] + refusals[m]

(* The least count whose ratio reaches a percentage. *)
Reaches(percent) == (percent * Ceiling + 100 * Unit - 1) \div (100 * Unit)

BudgetTypeOK ==
  /\ month \in 1 .. Months
  /\ granted \in [1 .. Months -> Nat]
  /\ refusals \in [1 .. Months -> Nat]
  /\ client \in [Clients ->
       {"idle", "openRatio", "slow", "opened", "finalizeRatio", "append"}]
  /\ reading \in [Clients -> Nat]
  /\ \A c \in Clients : client[c] = "slow" => AtLeast(reading[c], 50)

BudgetInit ==
  /\ month = 1
  /\ granted = [m \in 1 .. Months |-> 0]
  /\ refusals = [m \in 1 .. Months |-> 0]
  /\ client = [c \in Clients |-> "idle"]
  /\ reading = [c \in Clients |-> 0]

ClientTo(c, at) == client' = [client EXCEPT ![c] = at]
ReadMeter(c) == reading' = [reading EXCEPT ![c] = Billable(month)]

(* registerBudgetHaltGuard, before every business request. *)
Halted == AtLeast(Billable(month), 100)

MonthTurns ==
  /\ month < Months
  /\ month' = month + 1
  /\ UNCHANGED <<granted, refusals, client, reading>>

(* POST /v0/submissions. *)
OpenGuard(c) ==
  /\ client[c] = "idle" /\ ~Halted
  /\ ClientTo(c, "openRatio")
  /\ UNCHANGED <<month, granted, refusals, reading>>

(* budgetTierFor: from 50 percent on the request is slowed down. *)
Warns(billable) == AtLeast(billable, 50)

OpenRatio(c) ==
  /\ client[c] = "openRatio"
  /\ ReadMeter(c)
  /\ ClientTo(c, IF Warns(Billable(month)) THEN "slow" ELSE "opened")
  /\ UNCHANGED <<month, granted, refusals>>

(* After the wait the reading from before it decides. *)
OpenSlowed(c) ==
  /\ client[c] = "slow"
  /\ ClientTo(c, IF AtLeast(reading[c], 95) THEN "idle" ELSE "opened")
  /\ UNCHANGED <<month, granted, refusals, reading>>

(* The finalize request. *)
FinalizeGuard(c) ==
  /\ client[c] = "opened"
  /\ IF Halted THEN ClientTo(c, "idle") ELSE ClientTo(c, "finalizeRatio")
  /\ UNCHANGED <<month, granted, refusals, reading>>

FinalizeRatio(c) ==
  /\ client[c] = "finalizeRatio"
  /\ ReadMeter(c)
  /\ ClientTo(c, "append")
  /\ UNCHANGED <<month, granted, refusals>>

(* The outcome's event, dated when it is appended.  At 95 percent intake   *)
(* rejects; below it other checks may reject or quarantine as well.        *)
AppendOutcome(c) ==
  /\ client[c] = "append"
  /\ ClientTo(c, "idle")
  /\ reading' = [reading EXCEPT ![c] = 0]
  /\ \/ /\ ~AtLeast(reading[c], 95)
        /\ granted' = [granted EXCEPT ![month] = @ + 1]
        /\ UNCHANGED refusals
     \/ /\ refusals' = [refusals EXCEPT ![month] = @ + 1]
        /\ UNCHANGED granted
  /\ UNCHANGED month

BudgetNext ==
  \/ MonthTurns
  \/ \E c \in Clients :
       \/ OpenGuard(c) \/ OpenRatio(c) \/ OpenSlowed(c)
       \/ FinalizeGuard(c) \/ FinalizeRatio(c) \/ AppendOutcome(c)

BudgetSpec == BudgetInit /\ [][BudgetNext]_budgetVars

-----------------------------------------------------------------------------
(* Receipts stop at 95 percent of the ceiling of every month, but for one  *)
(* per request that had read the meter before: the reading that decides is *)
(* the finalize request's own.                                             *)
ReceiptsAreBounded ==
  \A m \in 1 .. Months : granted[m] <= Reaches(95) - 1 + Cardinality(Clients)

(* Billable events of every kind stop at the ceiling, likewise. *)
SpendIsBounded ==
  \A m \in 1 .. Months : granted[m] + refusals[m] <= Reaches(100) - 1 + Cardinality(Clients)

(* The demo's spend is bounded in every month, whatever was read before    *)
(* the awaits of a handler and compared after them.                        *)
BudgetHolds == ReceiptsAreBounded /\ SpendIsBounded
=============================================================================
