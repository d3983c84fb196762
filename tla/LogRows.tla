------------------------------ MODULE LogRows ------------------------------
(***************************************************************************)
(* The rows of an append-only log table (review_event and                  *)
(* evidence_lifecycle_event) and the three statements by which             *)
(* createPostgresAppendOnlyLog.append reads and writes them.               *)
(*                                                                         *)
(* A row is [review, seq, key, body].  The body stands for the canonical   *)
(* bytes of everything else in the event; two events are the same event    *)
(* when review, seq, key and body are the same, which is what equality of  *)
(* the canonical digest means.                                             *)
(***************************************************************************)
EXTENDS Integers, FiniteSets

Row(review, seq, key, body) ==
  [review |-> review, seq |-> seq, key |-> key, body |-> body]

(* The rows of one review: what loadLog reads. *)
RowsOf(log, r) == {x \in log : x.review = r}

(* The rows that hold an idempotency key. *)
KeyRows(log, r, k) == {x \in RowsOf(log, r) : x.key = k}

(* events.length, the number the submission event appender gives the next  *)
(* event.                                                                  *)
EventCount(log, r) == Cardinality(RowsOf(log, r))

(* nextSequenceNumber: one more than the highest recorded number, 0 for an *)
(* empty log.                                                              *)
NextSequenceNumber(log, r) ==
  CHOOSE n \in {0} \cup {x.seq + 1 : x \in RowsOf(log, r)} :
     \A x \in RowsOf(log, r) : x.seq < n

(* The row of a review with a number: the n-th event of the loaded log,    *)
(* which loadLog orders by sequence_number.                                *)
RowAt(log, r, n) == CHOOSE x \in RowsOf(log, r) : x.seq = n

(* Mutant of KeySelect: whatever is recorded under the key is a replay. *)
KeySelectIgnoresBody(log, e) ==
  IF KeyRows(log, e.review, e.key) = {} THEN "absent" ELSE "same"

(* The answer of append's first SELECT: no row under the key, the same     *)
(* event, or another body under the key.                                   *)
KeySelect(log, e) ==
  IF KeyRows(log, e.review, e.key) = {} THEN "absent"
  ELSE IF e \in log THEN "same" ELSE "differs"

(* append's second SELECT: max(sequence_number) is below the new number.   *)
BelowNew(log, e) == \A x \in RowsOf(log, e.review) : x.seq < e.seq

(* The INSERT meets neither PRIMARY KEY (review_id, sequence_number) nor   *)
(* UNIQUE (review_id, idempotency_key).                                    *)
InsertAllowed(log, e) ==
  \A x \in RowsOf(log, e.review) : x.seq # e.seq /\ x.key # e.key

-----------------------------------------------------------------------------
(* Properties of a log table, stated once for every module that keeps one. *)

(* No review has two rows with one number or two rows with one key. *)
UniqueRows(log) ==
  \A x, y \in log :
     x.review = y.review /\ (x.seq = y.seq \/ x.key = y.key) => x = y

(* The numbers of a review run 0, 1, 2, ... without a gap. *)
NoGaps(log) ==
  \A x \in log : \A m \in 0 .. x.seq :
     \E y \in log : y.review = x.review /\ y.seq = m
=============================================================================
