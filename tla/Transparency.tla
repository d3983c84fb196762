---------------------------- MODULE Transparency ----------------------------
(***************************************************************************)
(* Transparency checkpoints: the timer command `checkpoint` of the worker  *)
(* (services/host/src/worker/transparency.ts) computes a checkpoint over   *)
(* the heads of all review logs, publishes it to an off-box anchor, reads  *)
(* it back and records the publication with the heads it covers            *)
(* (packages/evidence-store/src/transparency/publication.ts).              *)
(*                                                                         *)
(* Review logs grow while their heads are loaded one by one.  The anchor   *)
(* may lose a request, an answer or a record, or change a record.  The     *)
(* process dies between any two statements.  systemd runs one at a time.   *)
(*                                                                         *)
(* A head is the length of the log it was computed from, since a chain     *)
(* hash binds every event; a checkpoint is the heads it was computed from, *)
(* since the Merkle root binds them (see MerkleTree); a checkpoint id is   *)
(* the checkpoint and its time of publication.                             *)
(***************************************************************************)
EXTENDS Integers, Sequences, FiniteSets

CONSTANTS
  ReviewOrder,    \* the review ids, in the order of the database
  MaxLog,         \* bound: events of one review
  MaxSecond,      \* bound: seconds that pass
  MaxOutages      \* bound: deaths, lost calls, and records the anchor spoils

ASSUME TransparencyAssumption ==
  /\ Len(ReviewOrder) \in Nat
  /\ MaxLog \in Nat /\ MaxSecond \in Nat /\ MaxOutages \in Nat

VARIABLES
  logLength,      \* events in each review's log
  second,         \* the clock
  anchor,         \* what the anchor has of each checkpoint id put to it
  published,      \* transparency_checkpoint_publication, by recorded_at
  headRows,       \* chain_head_anchor rows
  run,            \* the checkpoint run: its step and what it has in hand
  outages

transparencyVars ==
  <<logLength, second, anchor, published, headRows, run, outages>>

ChainedReviews == {ReviewOrder[i] : i \in 1 .. Len(ReviewOrder)}
Heads == [ChainedReviews -> 0 .. MaxLog]
NoHeads == [r \in ChainedReviews |-> 0]
Checkpoints == [heads : Heads, at : 0 .. MaxSecond]

(* The first of some reviews, in the order of the database. *)
FirstOf(reviews) ==
  LET places == {i \in 1 .. Len(ReviewOrder) : ReviewOrder[i] \in reviews}
  IN ReviewOrder[CHOOSE i \in places : \A j \in places : i <= j]

NoRun == [step |-> "idle", heads |-> NoHeads, left |-> {}, record |-> <<>>]
RunSteps ==
  {"idle", "list", "load", "compare", "reread", "put", "readBack", "record", "rows"}

TransparencyTypeOK ==
  /\ logLength \in Heads
  /\ second \in 0 .. MaxSecond
  /\ anchor \in [Checkpoints -> {"absent", "kept", "lost", "changed"}]
  /\ published \in Seq(Checkpoints)
  /\ headRows \subseteq ChainedReviews \X (1 .. MaxLog)
  /\ run \in [step : RunSteps, heads : Heads, left : SUBSET ChainedReviews,
              record : Checkpoints \cup {<<>>}]
  /\ run.step \in {"put", "readBack", "record", "rows"} => run.record \in Checkpoints
  /\ run.step = "rows" => \A r \in run.left : run.heads[r] > 0
  /\ outages \in 0 .. MaxOutages

TransparencyInit ==
  /\ logLength = NoHeads
  /\ second = 0
  /\ anchor = [c \in Checkpoints |-> "absent"]
  /\ published = <<>>
  /\ headRows = {}
  /\ run = NoRun
  /\ outages = 0

-----------------------------------------------------------------------------
(* The world around a run.                                                 *)

LogGrows(r) ==
  /\ logLength[r] < MaxLog
  /\ logLength' = [logLength EXCEPT ![r] = @ + 1]
  /\ UNCHANGED <<second, anchor, published, headRows, run, outages>>

SecondPasses ==
  /\ second < MaxSecond
  /\ second' = second + 1
  /\ UNCHANGED <<logLength, anchor, published, headRows, run, outages>>

AnchorSpoils(c) ==
  /\ outages < MaxOutages /\ anchor[c] = "kept"
  /\ outages' = outages + 1
  /\ \E state \in {"lost", "changed"} : anchor' = [anchor EXCEPT ![c] = state]
  /\ UNCHANGED <<logLength, second, published, headRows, run>>

-----------------------------------------------------------------------------
(* loadReviewHeads.                                                        *)

StartCheckpoint ==
  /\ run.step = "idle"
  /\ run' = [NoRun EXCEPT !.step = "list"]
  /\ UNCHANGED <<logLength, second, anchor, published, headRows, outages>>

(* SELECT DISTINCT review_id: the reviews that have events. *)
ListReviews ==
  /\ run.step = "list"
  /\ run' = [run EXCEPT !.step = "load",
                        !.left = {r \in ChainedReviews : logLength[r] > 0}]
  /\ UNCHANGED <<logLength, second, anchor, published, headRows, outages>>

(* One log at a time; the others grow meanwhile. *)
LoadHead ==
  /\ run.step = "load"
  /\ run' =
       IF run.left = {} THEN [run EXCEPT !.step = "compare"]
       ELSE LET r == FirstOf(run.left) IN
            [run EXCEPT !.left = @ \ {r}, !.heads[r] = logLength[r]]
  /\ UNCHANGED <<logLength, second, anchor, published, headRows, outages>>

-----------------------------------------------------------------------------
(* runTransparencyCheckpoint.                                              *)

Latest == published[Len(published)]

(* Mutant of CompareLatest: the number of reviews decides. *)
CompareLatestBySize ==
  LET size(heads) == Cardinality({r \in ChainedReviews : heads[r] > 0}) IN
  /\ run.step = "compare"
  /\ IF published # <<>> /\ size(Latest.heads) = size(run.heads)
     THEN run' = [run EXCEPT !.step = "reread"]
     ELSE run' = [run EXCEPT !.step = "put",
                             !.record = [heads |-> run.heads, at |-> second]]
  /\ UNCHANGED <<logLength, second, anchor, published, headRows, outages>>

(* Mutant of CompareLatest: the first publication is compared. *)
CompareFirst ==
  /\ run.step = "compare"
  /\ IF published # <<>> /\ published[1].heads = run.heads
     THEN run' = [run EXCEPT !.step = "reread"]
     ELSE run' = [run EXCEPT !.step = "put",
                             !.record = [heads |-> run.heads, at |-> second]]
  /\ UNCHANGED <<logLength, second, anchor, published, headRows, outages>>

(* The latest publication has this root and size: read it again.  Else     *)
(* publish, with the time it is now.                                       *)
CompareLatest ==
  /\ run.step = "compare"
  /\ IF published # <<>> /\ Latest.heads = run.heads
     THEN run' = [run EXCEPT !.step = "reread"]
     ELSE run' = [run EXCEPT !.step = "put",
                             !.record = [heads |-> run.heads, at |-> second]]
  /\ UNCHANGED <<logLength, second, anchor, published, headRows, outages>>

(* The record is there as it was put: the run ends "unchanged".  Lost or   *)
(* changed, it throws.  Either way nothing is written.                     *)
RereadLatest ==
  /\ run.step = "reread"
  /\ run' = NoRun
  /\ UNCHANGED <<logLength, second, anchor, published, headRows, outages>>

(* anchor.put.  Putting an id again stores the same record again. *)
PutCheckpoint ==
  /\ run.step = "put"
  /\ anchor' = [anchor EXCEPT ![run.record] = "kept"]
  /\ run' = [run EXCEPT !.step = "readBack"]
  /\ UNCHANGED <<logLength, second, published, headRows, outages>>

(* The request or its answer is lost, or the answer names no reference:    *)
(* the run throws.                                                         *)
PutFails ==
  /\ run.step = "put" /\ outages < MaxOutages
  /\ outages' = outages + 1
  /\ \/ UNCHANGED anchor
     \/ anchor' = [anchor EXCEPT ![run.record] = "kept"]
  /\ run' = NoRun
  /\ UNCHANGED <<logLength, second, published, headRows>>

(* The anchor answers with a reference and keeps nothing. *)
PutIsNotKept ==
  /\ run.step = "put" /\ outages < MaxOutages
  /\ outages' = outages + 1
  /\ run' = [run EXCEPT !.step = "readBack"]
  /\ UNCHANGED <<logLength, second, anchor, published, headRows>>

(* verifyPublishedCheckpoint: found, true to its id, and as expected. *)
ReadBack ==
  /\ run.step = "readBack"
  /\ IF anchor[run.record] = "kept"
     THEN run' = [run EXCEPT !.step = "record"]
     ELSE run' = NoRun
  /\ UNCHANGED <<logLength, second, anchor, published, headRows, outages>>

(* INSERT ... ON CONFLICT (checkpoint_id) DO NOTHING, then one row per     *)
(* covered head.                                                           *)
RecordPublication ==
  /\ run.step = "record"
  /\ published' =
       IF \E i \in 1 .. Len(published) : published[i] = run.record
       THEN published ELSE Append(published, run.record)
  /\ run' = [run EXCEPT !.step = "rows",
                        !.left = {r \in ChainedReviews : run.heads[r] > 0}]
  /\ UNCHANGED <<logLength, second, anchor, headRows, outages>>

RecordHead ==
  /\ run.step = "rows"
  /\ IF run.left = {}
     THEN run' = NoRun /\ UNCHANGED headRows
     ELSE LET r == FirstOf(run.left) IN
          /\ headRows' = headRows \cup {<<r, run.heads[r]>>}
          /\ run' = [run EXCEPT !.left = @ \ {r}]
  /\ UNCHANGED <<logLength, second, anchor, published, outages>>

CheckpointDies ==
  /\ outages < MaxOutages /\ run.step # "idle"
  /\ outages' = outages + 1
  /\ run' = NoRun
  /\ UNCHANGED <<logLength, second, anchor, published, headRows>>

RunStep ==
  \/ ListReviews \/ LoadHead \/ CompareLatest \/ RereadLatest
  \/ PutCheckpoint \/ ReadBack \/ RecordPublication \/ RecordHead

TransparencyNext ==
  \/ \E r \in ChainedReviews : LogGrows(r)
  \/ SecondPasses
  \/ \E c \in Checkpoints : AnchorSpoils(c)
  \/ StartCheckpoint \/ RunStep \/ PutFails \/ PutIsNotKept \/ CheckpointDies

(* The timer fires again and again and a run that can step does. *)
TransparencyFairness ==
  WF_transparencyVars(StartCheckpoint) /\ WF_transparencyVars(RunStep)

TransparencySpec ==
  TransparencyInit /\ [][TransparencyNext]_transparencyVars /\ TransparencyFairness

-----------------------------------------------------------------------------
(* "it never reports a publication it could not read back": a recorded     *)
(* publication was at the anchor, although an anchor may answer a put that *)
(* it does not keep.                                                       *)
PublicationWasKept == \A i \in 1 .. Len(published) : anchor[published[i]] # "absent"

(* Publications move forward: although heads are loaded one by one while   *)
(* the logs grow, no publication covers less of any log than an earlier    *)
(* one, and consecutive ones differ.                                       *)
PublicationsGrow ==
  \A i \in 2 .. Len(published) :
    /\ \A r \in ChainedReviews : published[i - 1].heads[r] <= published[i].heads[r]
    /\ published[i - 1].heads # published[i].heads

(* A recorded head is covered by a recorded publication. *)
HeadRowsArePublished ==
  \A row \in headRows :
    \E i \in 1 .. Len(published) : published[i].heads[row[1]] = row[2]

(* What the tables say was published was kept by the anchor and moves      *)
(* forward, whatever a crash or an outage came between.                    *)
PublicationsStand == PublicationsGrow /\ PublicationWasKept /\ HeadRowsArePublished

(* Every event of every review is covered by a publication at last. *)
EventsGetAnchored ==
  \A r \in ChainedReviews : \A n \in 1 .. MaxLog :
    (logLength[r] >= n) ~>
      (\E i \in 1 .. Len(published) : published[i].heads[r] >= n)
=============================================================================
