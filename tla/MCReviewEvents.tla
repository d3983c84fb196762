--------------------------- MODULE MCReviewEvents ---------------------------
(***************************************************************************)
(* A small instance of ReviewEvents for TLC.  A log in which every event   *)
(* type meets every other is too large, so a behaviour picks one topic of  *)
(* the rules at the start and its callers draft that topic's events only,  *)
(* each topic with bounds of its own.  Every step of a topic is a step of  *)
(* ReviewEvents with the constants of the configuration.                   *)
(***************************************************************************)
EXTENDS GateLog, TLC

CONSTANTS n1, n2, d1, d2

VARIABLE topic

AllTypes ==
  VersionedTypes \cup ExpertTypes \cup OutcomeTypes
     \cup CUSTOMER_CORRECTION_EVENT_TYPES \cup {"receipt_issued"}

(* Versions of verification scopes and evidence. *)
Verification == INSTANCE ReviewEvents WITH
  Types <- {"verification_scope_recorded", "verification_evidence_recorded"},
  Actors <- {"customer_user", "vendor_service"},
  Names <- {n1}, Refs <- {None}, Digests <- {}, MaxVersion <- 3,
  Times <- {0}, MaxEvents <- 3

(* Generating, finalizing and exporting a package. *)
Package == INSTANCE ReviewEvents WITH
  Types <- {"static_bundle_generated"} \cup PackageTypes,
  Actors <- {"customer_user", "vendor_service"},
  Names <- {n1}, Refs <- {None}, Digests <- {d1, d2}, MaxVersion <- 2,
  Times <- {0, 1}, MaxEvents <- 4

(* Validation paths and scripts of two reviewers. *)
Scripts == INSTANCE ReviewEvents WITH
  Types <- {"validation_recorded"}, Actors <- {"reviewer"},
  Names <- {n1, n2}, Refs <- {None}, Digests <- {}, MaxVersion <- 1,
  Times <- {0}, MaxEvents <- 3

(* Corrections of corrections, by reviewers and customers. *)
Corrections == INSTANCE ReviewEvents WITH
  Types <- {"receipt_issued", "classification_recorded",
            "false_positive_recorded"} \cup CUSTOMER_CORRECTION_EVENT_TYPES,
  Actors <- {"customer_user", "reviewer"},
  Names <- {n1}, Refs <- {None, n1}, Digests <- {}, MaxVersion <- 1,
  Times <- {0}, MaxEvents <- 4

(* Events a customer sees between events that only learning has. *)
Learning == INSTANCE ReviewEvents WITH
  Types <- {"attestation_generated", "pilot_metric_recorded"},
  Actors <- {"reviewer", "customer_user"},
  Names <- {n1}, Refs <- {None}, Digests <- {d1}, MaxVersion <- 2,
  Times <- {0, 1}, MaxEvents <- 3

MCInit == Init /\ topic \in {"verification", "package", "scripts", "corrections", "learning"}

MCNext ==
  /\ UNCHANGED topic
  /\ \/ topic = "verification" /\ Verification!Next
     \/ topic = "package" /\ Package!Next
     \/ topic = "scripts" /\ Scripts!Next
     \/ topic = "corrections" /\ Corrections!Next
     \/ topic = "learning" /\ Learning!Next

MCSpec == MCInit /\ [][MCNext]_<<vars, topic>>

\* Writers and digests are interchangeable model values.
Symmetry == Permutations(Writers) \cup Permutations(Digests)
=============================================================================
