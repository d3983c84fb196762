-------------------------- MODULE MCEvidenceStore --------------------------
(***************************************************************************)
(* Small instances of what the evidence store keeps: an append-only log,   *)
(* an object on disk, and the job queue with the workers that drain it.    *)
(* They share no state, so a behaviour is of one of them.                  *)
(***************************************************************************)
EXTENDS AppendOnlyLog, ObjectStore, NormalizeWorker, TLC

VARIABLE topic

storeVars == <<vars, objectVars, workerVars, topic>>

MCInit == topic \in {"log", "object", "jobs"} /\ Init /\ ObjectInit /\ WorkerInit

MCNext ==
  /\ UNCHANGED topic
  /\ \/ topic = "log" /\ Next /\ UNCHANGED <<objectVars, workerVars>>
     \/ topic = "object" /\ ObjectNext /\ UNCHANGED <<vars, workerVars>>
     \/ topic = "jobs" /\ WorkerNext /\ UNCHANGED <<vars, objectVars>>

MCSpec == MCInit /\ [][MCNext]_storeVars

\* Keys, workers, attempts are interchangeable.
Symmetry ==
  UNION {Permutations(S) : S \in {Keys, Workers, Attempts}}
=============================================================================
