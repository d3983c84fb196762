----------------------------- MODULE Retention -----------------------------
(***************************************************************************)
(* Retention expiry: the timer command `retention` of the worker           *)
(* (services/host/src/worker/main.ts), which enqueues a purge job for      *)
(* every retention record whose period has ended and drains the queue      *)
(* (packages/evidence-store/src/retention-expiry.ts), deleting artifacts   *)
(* by the three statements of ArtifactStore.delete; an operator's delete   *)
(* of the same artifacts; late uploads; and what the presence reader of    *)
(* the normalization worker says of an artifact meanwhile.                 *)
(*                                                                         *)
(* systemd runs at most one retention pass at a time.  A pass reads the    *)
(* clock once.  Processes die and statements throw at any point.           *)
(***************************************************************************)
EXTENDS Integers, Sequences, FiniteSets, JobQueue

CONSTANTS
  Records,        \* retention opt-in records
  Artifacts,      \* sha256 digests
  RetainedBy,     \* the digests of each record, in order
  EndOf,          \* retention_period.end_timestamp of each record
  MaxTime,        \* bound: last reading of the clock
  MaxMishaps,     \* bound: crashes and statements that throw
  MaxBack         \* bound: times the clock is set back

ASSUME RetentionAssumption ==
  /\ IsFiniteSet(Records)
  /\ RetainedBy \in [Records -> Seq(Artifacts)]
  /\ EndOf \in [Records -> Nat]
  /\ MaxTime \in Nat /\ MaxMishaps \in Nat /\ MaxBack \in Nat

VARIABLES
  time, setBacks,
  recorded,       \* retention_opt_in_record rows
  bytes,          \* objects on disk
  refs,           \* artifact_reference rows
  proof,          \* deletion_evidence rows: digest, source, status
  upload,         \* where the put of each digest is
  purges,         \* the purge jobs by enqueued_at
  purgeClaim,     \* claimed_at of each job
  pass,           \* the retention pass: its step, its now, what is left
  eraser,         \* where each delete of an artifact is
  mishaps

stores == <<recorded, bytes, refs, proof>>
retentionQueue == <<purges, purgeClaim>>
retentionVars ==
  <<time, setBacks, stores, upload, retentionQueue, pass, eraser, mishaps>>

(* A delete is called by the expiry pass or by an operator, and its        *)
(* evidence has an id of its own: exp_<digest> or op_<digest>.             *)
Sources == {"exp", "op"}
Evidence(d, s, status) == [digest |-> d, source |-> s, status |-> status]

NoPass == [step |-> "idle", now |-> 0, due |-> <<>>, job |-> "none", left |-> <<>>]
NotErasing == [step |-> "idle", digest |-> "none"]
EraseSteps == {"intend", "remove", "confirm", "verify"}

RetentionTypeOK ==
  /\ time \in 0 .. MaxTime /\ setBacks \in 0 .. MaxBack
  /\ recorded \subseteq Records
  /\ bytes \subseteq Artifacts /\ refs \subseteq Artifacts
  /\ proof \subseteq
       [digest : Artifacts, source : Sources, status : {"unverified", "verified"}]
  /\ upload \in [Artifacts -> {"idle", "bytes", "row"}]
  /\ purges \in Seq(Records)
  /\ purgeClaim \in [Records -> {"free", "held", "stale"}]
  /\ pass \in [step : {"idle", "catchUp", "claim", "purge", "giveBack"}, now : 0 .. MaxTime,
               due : Seq(Records), job : Records \cup {"none"}, left : Seq(Artifacts)]
  /\ IF pass.step \in {"purge", "giveBack"} THEN pass.job \in Records ELSE pass.job = "none"
  /\ eraser \in [Sources -> [step : EraseSteps \cup {"idle"},
                             digest : Artifacts \cup {"none"}]]
  /\ mishaps \in 0 .. MaxMishaps

RetentionInit ==
  /\ time = 0 /\ setBacks = 0
  /\ recorded = {} /\ bytes = {} /\ refs = {} /\ proof = {}
  /\ upload = [d \in Artifacts |-> "idle"]
  /\ purges = <<>>
  /\ purgeClaim = [r \in Records |-> "free"]
  /\ pass = NoPass
  /\ eraser = [s \in Sources |-> NotErasing]
  /\ mishaps = 0

Enqueued(r) == HasRow(purges, r)
HasProof(d, s, status) == Evidence(d, s, status) \in proof

(* A record is due from its end timestamp on. *)
DueAt(r, now) == EndOf[r] <= now

(* What the presence reader answers: any evidence row, an intent too,      *)
(* wins over the reference row, which is never deleted.                    *)
Presence(d) ==
  IF \E e \in proof : e.digest = d THEN "deleted"
  ELSE IF d \in refs THEN "stored" ELSE "unknown"

-----------------------------------------------------------------------------
(* Around the pass: the clock, opt-ins, uploads.                           *)

TimePasses ==
  /\ time < MaxTime
  /\ time' = time + 1
  /\ UNCHANGED <<setBacks, stores, upload, retentionQueue, pass, eraser, mishaps>>

ClockSetBack ==
  /\ setBacks < MaxBack /\ time > 0
  /\ time' = time - 1
  /\ setBacks' = setBacks + 1
  /\ UNCHANGED <<stores, upload, retentionQueue, pass, eraser, mishaps>>

(* RetentionRecordStore.record: ON CONFLICT DO NOTHING. *)
OptIn(r) ==
  /\ r \notin recorded
  /\ recorded' = recorded \cup {r}
  /\ UNCHANGED <<time, setBacks, bytes, refs, proof, upload, retentionQueue, pass, eraser, mishaps>>

(* Mutant of PutFindsNoRow: a put looks for the object, not for the row. *)
PutFindsNoBytes(d) ==
  /\ upload[d] = "idle" /\ d \notin bytes
  /\ upload' = [upload EXCEPT ![d] = "bytes"]
  /\ UNCHANGED <<time, setBacks, stores, retentionQueue, pass, eraser, mishaps>>

(* ArtifactStore.put: with a row it answers already_present, also after a  *)
(* purge; without one it writes the bytes, then the row.                   *)
PutFindsNoRow(d) ==
  /\ upload[d] = "idle" /\ d \notin refs
  /\ upload' = [upload EXCEPT ![d] = "bytes"]
  /\ UNCHANGED <<time, setBacks, stores, retentionQueue, pass, eraser, mishaps>>

PutWritesBytes(d) ==
  /\ upload[d] = "bytes"
  /\ bytes' = bytes \cup {d}
  /\ upload' = [upload EXCEPT ![d] = "row"]
  /\ UNCHANGED <<time, setBacks, recorded, refs, proof, retentionQueue, pass, eraser, mishaps>>

PutInsertsRow(d) ==
  /\ upload[d] = "row"
  /\ refs' = refs \cup {d}
  /\ upload' = [upload EXCEPT ![d] = "idle"]
  /\ UNCHANGED <<time, setBacks, recorded, bytes, proof, retentionQueue, pass, eraser, mishaps>>

PutStep(d) == PutFindsNoRow(d) \/ PutWritesBytes(d) \/ PutInsertsRow(d)

PutDies(d) ==
  /\ mishaps < MaxMishaps /\ upload[d] # "idle"
  /\ mishaps' = mishaps + 1
  /\ upload' = [upload EXCEPT ![d] = "idle"]
  /\ UNCHANGED <<time, setBacks, stores, retentionQueue, pass, eraser>>

-----------------------------------------------------------------------------
(* ArtifactStore.delete, for the pass and for an operator.                 *)

Erase(s, d) == eraser' = [eraser EXCEPT ![s] = [step |-> "intend", digest |-> d]]
EraseTo(s, step) == eraser' = [eraser EXCEPT ![s].step = step]

(* Mutant of EraseIntends: the intent is not recorded. *)
EraseIntendsNothing(s) ==
  /\ eraser[s].step = "intend"
  /\ EraseTo(s, "remove")
  /\ UNCHANGED <<time, setBacks, stores, upload, retentionQueue, pass, mishaps>>

(* The unverified attempt is recorded first, once per id. *)
EraseIntends(s) ==
  /\ eraser[s].step = "intend"
  /\ proof' = proof \cup {Evidence(eraser[s].digest, s, "unverified")}
  /\ EraseTo(s, "remove")
  /\ UNCHANGED <<time, setBacks, recorded, bytes, refs, upload, retentionQueue, pass, mishaps>>

EraseRemoves(s) ==
  /\ eraser[s].step = "remove"
  /\ bytes' = bytes \ {eraser[s].digest}
  /\ EraseTo(s, "confirm")
  /\ UNCHANGED <<time, setBacks, recorded, refs, proof, upload, retentionQueue, pass, mishaps>>

(* Bytes that are there again make the deletion not_verified, which the    *)
(* callers do not look at.                                                 *)
EraseConfirms(s) ==
  /\ eraser[s].step = "confirm"
  /\ IF eraser[s].digest \in bytes
     THEN eraser' = [eraser EXCEPT ![s] = NotErasing]
     ELSE EraseTo(s, "verify")
  /\ UNCHANGED <<time, setBacks, stores, upload, retentionQueue, pass, mishaps>>

(* Mutant of EraseVerifies: the answer is given without the row. *)
EraseVerifiesNothing(s) ==
  /\ eraser[s].step = "verify"
  /\ eraser' = [eraser EXCEPT ![s] = NotErasing]
  /\ UNCHANGED <<time, setBacks, stores, upload, retentionQueue, pass, mishaps>>

EraseVerifies(s) ==
  /\ eraser[s].step = "verify"
  /\ proof' = proof \cup {Evidence(eraser[s].digest, s, "verified")}
  /\ eraser' = [eraser EXCEPT ![s] = NotErasing]
  /\ UNCHANGED <<time, setBacks, recorded, bytes, refs, upload, retentionQueue, pass, mishaps>>

EraseStep(s) ==
  EraseIntends(s) \/ EraseRemoves(s) \/ EraseConfirms(s) \/ EraseVerifies(s)

(* operatorDeleteArtifact. *)
OperatorDelete(d) ==
  /\ eraser["op"].step = "idle"
  /\ Erase("op", d)
  /\ UNCHANGED <<time, setBacks, stores, upload, retentionQueue, pass, mishaps>>

OperatorDies ==
  /\ mishaps < MaxMishaps /\ eraser["op"].step # "idle"
  /\ mishaps' = mishaps + 1
  /\ eraser' = [eraser EXCEPT !["op"] = NotErasing]
  /\ UNCHANGED <<time, setBacks, stores, upload, retentionQueue, pass>>

-----------------------------------------------------------------------------
(* The retention pass.                                                     *)

(* A claim is now older than STALE_CLAIM_SECONDS. *)
PurgeClaimAges(r) ==
  /\ Enqueued(r) /\ purgeClaim[r] = "held"
  /\ pass.job # r
  /\ purgeClaim' = [purgeClaim EXCEPT ![r] = "stale"]
  /\ UNCHANGED <<time, setBacks, stores, upload, purges, pass, eraser, mishaps>>

(* The timer starts the command: now is read once, releaseStaleJobClaims,  *)
(* listDue(now).                                                           *)
StartRetention ==
  /\ pass.step = "idle"
  /\ purgeClaim' =
       [r \in Records |-> IF purgeClaim[r] = "stale" THEN "free" ELSE purgeClaim[r]]
  /\ \E due \in [1 .. Cardinality({r \in recorded : DueAt(r, time)})
                   -> {r \in recorded : DueAt(r, time)}] :
       /\ \A i, j \in DOMAIN due : i # j => due[i] # due[j]
       /\ pass' = [NoPass EXCEPT !.step = "catchUp", !.now = time, !.due = due]
  /\ UNCHANGED <<time, setBacks, stores, upload, purges, eraser, mishaps>>

(* Every digest of the record has verified evidence of an expiry purge. *)
AlreadyPurged(r) ==
  \A i \in 1 .. Len(RetainedBy[r]) : HasProof(RetainedBy[r][i], "exp", "verified")

(* catchUpRetentionExpiry, one record: skip it or enqueue its job, unless  *)
(* there is one.                                                           *)
CatchUp ==
  /\ pass.step = "catchUp"
  /\ IF pass.due = <<>>
     THEN pass' = [pass EXCEPT !.step = "claim"] /\ UNCHANGED retentionQueue
     ELSE LET r == Head(pass.due) IN
          /\ pass' = [pass EXCEPT !.due = Tail(@)]
          /\ IF AlreadyPurged(r) \/ Enqueued(r)
             THEN UNCHANGED retentionQueue
             ELSE /\ purges' = Append(purges, r)
                  /\ purgeClaim' = [purgeClaim EXCEPT ![r] = "free"]
  /\ UNCHANGED <<time, setBacks, stores, upload, eraser, mishaps>>

(* The jobs nobody holds. *)
Claimable == Unclaimed(purges, purgeClaim)

(* No job is left: the pass ends. *)
RetentionEnds ==
  /\ pass.step = "claim" /\ Claimable = {}
  /\ pass' = NoPass
  /\ UNCHANGED <<time, setBacks, stores, upload, retentionQueue, eraser, mishaps>>

(* A due job is claimed and worked on. *)
ClaimPurge ==
  /\ pass.step = "claim" /\ Claimable # {}
  /\ LET r == Oldest(purges, Claimable) IN
     /\ DueAt(r, pass.now)
     /\ purgeClaim' = [purgeClaim EXCEPT ![r] = "held"]
     /\ pass' = [pass EXCEPT !.step = "purge", !.job = r, !.left = RetainedBy[r]]
  /\ UNCHANGED <<time, setBacks, stores, upload, purges, eraser, mishaps>>

(* A job that is not due, as the pass sees the time, is claimed and given  *)
(* back: it is the oldest free job again.                                  *)
ClaimNotDue ==
  /\ pass.step = "claim" /\ Claimable # {}
  /\ LET r == Oldest(purges, Claimable) IN
     /\ ~DueAt(r, pass.now)
     /\ purgeClaim' = [purgeClaim EXCEPT ![r] = "held"]
     /\ pass' = [pass EXCEPT !.step = "giveBack", !.job = r]
  /\ UNCHANGED <<time, setBacks, stores, upload, purges, eraser, mishaps>>

GiveBack ==
  /\ pass.step = "giveBack"
  /\ purgeClaim' = [purgeClaim EXCEPT ![pass.job] = "free"]
  /\ pass' = [pass EXCEPT !.step = "claim", !.job = "none"]
  /\ UNCHANGED <<time, setBacks, stores, upload, purges, eraser, mishaps>>

PurgeNext ==
  /\ pass.step = "purge" /\ pass.left # <<>> /\ eraser["exp"].step = "idle"
  /\ Erase("exp", Head(pass.left))
  /\ pass' = [pass EXCEPT !.left = Tail(@)]
  /\ UNCHANGED <<time, setBacks, stores, upload, retentionQueue, mishaps>>

(* Mutant of CompletePurge: the job is failed, which gives it back. *)
CompletePurgeFails ==
  /\ pass.step = "purge" /\ pass.left = <<>> /\ eraser["exp"].step = "idle"
  /\ purgeClaim' = [purgeClaim EXCEPT ![pass.job] = "free"]
  /\ pass' = [pass EXCEPT !.step = "claim", !.job = "none"]
  /\ UNCHANGED <<time, setBacks, stores, upload, purges, eraser, mishaps>>

(* complete, whether or not the deletions were verified: the job's row is  *)
(* deleted.                                                                *)
CompletePurge ==
  /\ pass.step = "purge" /\ pass.left = <<>> /\ eraser["exp"].step = "idle"
  /\ purges' = Without(purges, pass.job)
  /\ pass' = [pass EXCEPT !.step = "claim", !.job = "none"]
  /\ UNCHANGED <<time, setBacks, stores, upload, purgeClaim, eraser, mishaps>>

(* A delete that throws: the job is given back and the pass ends. *)
PurgeThrows ==
  /\ mishaps < MaxMishaps /\ eraser["exp"].step # "idle"
  /\ mishaps' = mishaps + 1
  /\ purgeClaim' = [purgeClaim EXCEPT ![pass.job] = "free"]
  /\ pass' = NoPass
  /\ eraser' = [eraser EXCEPT !["exp"] = NotErasing]
  /\ UNCHANGED <<time, setBacks, stores, upload, purges>>

(* The process dies, or a statement outside of the deletes throws. *)
RetentionDies ==
  /\ mishaps < MaxMishaps /\ pass.step # "idle"
  /\ mishaps' = mishaps + 1
  /\ pass' = NoPass
  /\ eraser' = [eraser EXCEPT !["exp"] = NotErasing]
  /\ UNCHANGED <<time, setBacks, stores, upload, retentionQueue>>

PassStep ==
  \/ CatchUp \/ RetentionEnds \/ ClaimPurge \/ ClaimNotDue \/ GiveBack
  \/ PurgeNext \/ CompletePurge \/ EraseStep("exp")

Mishap == PurgeThrows \/ RetentionDies \/ OperatorDies \/ \E d \in Artifacts : PutDies(d)

RetentionNext ==
  \/ TimePasses \/ ClockSetBack
  \/ \E r \in Records : OptIn(r) \/ PurgeClaimAges(r)
  \/ \E d \in Artifacts : PutStep(d) \/ OperatorDelete(d)
  \/ StartRetention \/ PassStep \/ EraseStep("op")
  \/ Mishap

(* The timer fires again and again, a pass that can step does, claims age. *)
RetentionFairness ==
  /\ WF_retentionVars(StartRetention)
  /\ WF_retentionVars(PassStep)
  /\ \A r \in Records : WF_retentionVars(PurgeClaimAges(r))

RetentionSpec == RetentionInit /\ [][RetentionNext]_retentionVars /\ RetentionFairness

-----------------------------------------------------------------------------
(* An artifact the presence reader calls stored can be read: the intent to *)
(* delete it is on record before its bytes go, and bytes come before rows. *)
StoredIsReadable == \A d \in Artifacts : Presence(d) = "stored" => d \in bytes

Names(r, d) == \E i \in 1 .. Len(RetainedBy[r]) : RetainedBy[r][i] = d

(* An artifact that has its row is presented as stored, and its bytes are  *)
(* there, until an operator sets about deleting it or the first of the     *)
(* records that name it ends, unless the clock was set back meanwhile.     *)
(* The first end decides: a record that shares the artifact and runs       *)
(* longer does not keep it.                                                *)
KeptToFirstEnd ==
  \A d \in refs :
    \/ Presence(d) = "stored" /\ d \in bytes
    \/ HasProof(d, "op", "unverified")
    \/ \E r \in recorded : EndOf[r] <= time /\ Names(r, d)
    \/ setBacks > 0

(* An artifact is readable as long as it is presented as stored, and       *)
(* presented so until an operator or the end of a record takes it away.    *)
StoredIsKept == StoredIsReadable /\ KeptToFirstEnd

(* Purged bytes never come back: their row stays and answers every later   *)
(* upload of the same bytes with already_present, whatever passes, deletes *)
(* and opt-ins follow.  Only a put that found no row before the purge may  *)
(* still write.                                                            *)
PurgedStaysPurged ==
  \A d \in Artifacts :
    [](d \in refs \ bytes /\ upload[d] = "idle" => [](d \notin bytes))

(* The artifact is stored, nobody is putting it, and no expiry purge of it *)
(* has found its bytes gone.                                               *)
StoredUnpurged(d) ==
  /\ d \in refs /\ upload[d] = "idle"
  /\ ~HasProof(d, "exp", "verified")
  /\ eraser["exp"] # [step |-> "verify", digest |-> d]

(* Every digest of a due record gets verified evidence, although passes    *)
(* die between any two statements, deletes throw and an upload puts bytes  *)
(* back while they are deleted.  For an artifact that is stored by then    *)
(* the bytes are gone with it, and stay away by PurgedStaysPurged.  An     *)
(* upload that lands after the re-read of its own purge is in neither: its *)
(* record counts as purged and its bytes stay.                             *)
ExpiredIsPurged ==
  \A r \in Records : \A i \in 1 .. Len(RetainedBy[r]) :
    LET d == RetainedBy[r][i]
        due == r \in recorded /\ EndOf[r] <= time
    IN /\ due ~> (HasProof(d, "exp", "verified") \/ setBacks > 0)
       /\ (due /\ StoredUnpurged(d)) ~>
            ((HasProof(d, "exp", "verified") /\ d \notin bytes) \/ setBacks > 0)

(* A pass ends, unless the clock was set back: then a job left over from   *)
(* an earlier pass is claimed and failed without end.                      *)
RetentionPassEnds == (pass.step # "idle") ~> (pass.step = "idle" \/ setBacks > 0)
=============================================================================
