------------------------------ MODULE JobQueue ------------------------------
(* The statements of the Postgres job queue, over the job rows of one type *)
(* in the order of enqueued_at: what an INSERT conflicts with, which row a *)
(* claim takes, and what a DELETE leaves.  Retention and the normalization *)
(* worker use it, each with the claims of its own jobs.                    *)
EXTENDS Integers, Sequences

HasRow(queue, job) == \E i \in 1 .. Len(queue) : queue[i] = job

(* WHERE claimed_at IS NULL: the places of the rows nobody holds. *)
Unclaimed(queue, claimOf) == {i \in 1 .. Len(queue) : claimOf[queue[i]] = "free"}

(* ORDER BY enqueued_at LIMIT 1. *)
Oldest(queue, places) == queue[CHOOSE i \in places : \A j \in places : i <= j]

(* DELETE WHERE job_id: a row that is gone already is not missed. *)
Without(queue, job) ==
  IF HasRow(queue, job)
  THEN LET i == CHOOSE i \in 1 .. Len(queue) : queue[i] = job
       IN SubSeq(queue, 1, i - 1) \o SubSeq(queue, i + 1, Len(queue))
  ELSE queue
=============================================================================
