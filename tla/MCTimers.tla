------------------------------ MODULE MCTimers ------------------------------
(***************************************************************************)
(* Small instances of the commands of the worker.  A behaviour is of one   *)
(* topic: "uploads" has one retention record and everything that can       *)
(* happen around its pass; "records" has two records that share an         *)
(* artifact, all recorded and stored before the first pass; "checkpoints"  *)
(* has checkpoint runs over two logs within one second, "seconds" over one *)
(* log while the clock moves; "jobs" has the normalization loop.           *)
(***************************************************************************)
EXTENDS Retention, Transparency, NormalizeWorker, TLC

CONSTANTS r1, r2, d1, d2, v1, v2

VARIABLE topic

timerVars == <<retentionVars, transparencyVars, workerVars, topic>>

OfRecords == (r1 :> <<d1>>) @@ (r2 :> <<d1, d2>>)
Ends == (r1 :> 1) @@ (r2 :> 2)
TwoReviews == <<v1, v2>>

MCInit ==
  /\ topic \in {"uploads", "records", "checkpoints", "seconds", "jobs"}
  /\ TransparencyInit /\ WorkerInit
  /\ \/ topic # "records" /\ RetentionInit
     \/ topic = "records"
        /\ time = 0 /\ setBacks = 0 /\ mishaps = 0
        /\ recorded = Records /\ bytes = Artifacts /\ refs = Artifacts /\ proof = {}
        /\ upload = [d \in Artifacts |-> "idle"]
        /\ purges = <<>> /\ purgeClaim = [r \in Records |-> "free"]
        /\ pass = NoPass /\ eraser = [s \in Sources |-> NotErasing]

Uploads ==
  /\ topic = "uploads"
  /\ \/ TimePasses \/ ClockSetBack \/ OptIn(r1) \/ PurgeClaimAges(r1)
     \/ PutStep(d1) \/ OperatorDelete(d1)
     \/ StartRetention \/ PassStep \/ EraseStep("op")
     \/ Mishap
RecordsOnly ==
  /\ topic = "records"
  /\ \/ TimePasses \/ \E r \in Records : PurgeClaimAges(r)
     \/ StartRetention \/ PassStep \/ PurgeThrows \/ RetentionDies
Checkpointing ==
  /\ topic \in {"checkpoints", "seconds"}
  /\ TransparencyNext
  /\ IF topic = "checkpoints" THEN second' = 0 ELSE logLength'[v2] = 0
Normalizing == topic = "jobs" /\ WorkerNext

MCNext ==
  /\ UNCHANGED topic
  /\ \/ (Uploads \/ RecordsOnly) /\ UNCHANGED <<transparencyVars, workerVars>>
     \/ Checkpointing /\ UNCHANGED <<retentionVars, workerVars>>
     \/ Normalizing /\ UNCHANGED <<retentionVars, transparencyVars>>

(* The fairness of the three modules, each for its topics. *)
MCFairness ==
  /\ WF_retentionVars(topic \in {"uploads", "records"} /\ StartRetention)
  /\ WF_retentionVars(topic \in {"uploads", "records"} /\ PassStep)
  /\ \A r \in {r1, r2} :
       WF_retentionVars(topic \in {"uploads", "records"} /\ PurgeClaimAges(r))
  /\ WF_transparencyVars(topic \in {"checkpoints", "seconds"} /\ StartCheckpoint)
  /\ WF_transparencyVars(topic \in {"checkpoints", "seconds"} /\ RunStep)
  /\ \A w \in Workers : WF_workerVars(topic = "jobs" /\ Work(w))
  /\ \A a \in Attempts : WF_workerVars(topic = "jobs" /\ ClaimAges(a))
  /\ \A a \in Attempts : <>[][~Enqueue(a)]_workerVars

MCSpec == MCInit /\ [][MCNext]_timerVars /\ MCFairness
=============================================================================
