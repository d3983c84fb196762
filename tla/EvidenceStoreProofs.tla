------------------------ MODULE EvidenceStoreProofs ------------------------
(* What the evidence store and its background passes keep true for any     *)
(* number of reviews, artifacts, workers, clients and pieces of time: the  *)
(* job queue, the transparency checkpoints, retention and deletion, the    *)
(* object store, and the normalization worker.                             *)
EXTENDS AppendOnlyLog, NormalizeWorker, ObjectStore, Retention, Transparency,
        LogRowsTheorems, SequenceTheorems

-----------------------------------------------------------------------------
(* The append-only log is a gap-free, append-only history for any number   *)
(* of appenders, reviews, keys and bodies.                                 *)

(* The table of a typed state is a log in the sense of LogRowsTheorems. *)
LEMMA TypedIsLog == TypeOK => IsLog(log)
  BY DEF TypeOK, IsLog, Events

(* The number a caller derives from a gap-free log is recorded or next. *)
LEMMA DerivedOnPrefix ==
  ASSUME TypeOK, Unique, Contiguous,
         NEW r \in Reviews, NEW k \in Keys, NEW s \in DerivedSeq(r, k)
  PROVE  /\ s \in Nat
         /\ \A m \in 0 .. s - 1 : \E y \in RowsOf(log, r) : y.seq = m
<1>1. IsLog(log) /\ UniqueRows(log) /\ NoGaps(log)
  BY TypedIsLog DEF Unique, Contiguous
<1>2. CASE KeyRows(log, r, k) # {}
  <2>1. PICK x \in KeyRows(log, r, k) : s = x.seq
    BY <1>2 DEF DerivedSeq
  <2>2. x \in log /\ x.review = r /\ x.seq \in Nat
    BY <1>1, <2>1 DEF KeyRows, RowsOf, IsLog
  <2> QED
    BY <1>1, <2>1, <2>2 DEF NoGaps, RowsOf
<1>3. CASE KeyRows(log, r, k) = {}
  <2>1. s = EventCount(log, r)
    BY <1>1, <1>3, NextIsCount DEF DerivedSeq
  <2>2. /\ s \in Nat
        /\ \A m \in Nat : (\E y \in RowsOf(log, r) : y.seq = m) <=> m < s
    BY <1>1, <2>1, SeqsAreBelowCount
  <2> QED
    BY <2>2
<1> QED
  BY <1>2, <1>3

-----------------------------------------------------------------------------
(* The inductive invariant holds initially. *)
LEMMA InitLogInv == Init => LogInv
<1> SUFFICES ASSUME Init PROVE LogInv
  OBVIOUS
<1> USE DEF Init
<1>1. TypeOK
  BY FS_EmptySet DEF TypeOK, Steps, Results
<1>2. Unique /\ Contiguous
  BY DEF Unique, UniqueRows, Contiguous, NoGaps
<1>3. AcknowledgedIsLogged /\ BuiltOnPrefix
  BY DEF AcknowledgedIsLogged, BuiltOnPrefix
<1> QED
  BY <1>1, <1>2, <1>3 DEF LogInv

(* A step that leaves the table alone and lets every busy appender keep    *)
(* its event preserves the three facts about the table.                    *)
LEMMA TableUnchanged ==
  ASSUME LogInv, UNCHANGED log
  PROVE  Unique' /\ Contiguous'
  BY DEF LogInv, Unique, Contiguous

LEMMA LoadStep ==
  ASSUME LogInv, NEW p \in Appenders, NEW r \in Reviews, NEW k \in Keys,
         NEW b \in Bodies, Load(p, r, k, b)
  PROVE  LogInv'
<1>1. PICK s \in DerivedSeq(r, k) :
        LET e == Row(r, s, k, b) IN
        /\ ev' = [ev EXCEPT ![p] = e]
        /\ \/ KeySelect(log, e) = "differs" /\ Answer(p, "conflict")
           \/ KeySelect(log, e) = "same" /\ Answer(p, "idempotent_noop")
           \/ /\ KeySelect(log, e) \in {"absent", "same"}
              /\ pc' = [pc EXCEPT ![p] = "lock"]
              /\ result' = [result EXCEPT ![p] = "none"]
  BY DEF Load
<1> DEFINE e == Row(r, s, k, b)
<1>2. log' = log
  BY DEF Load
<1>3. s \in Nat /\ \A m \in 0 .. s - 1 : \E y \in RowsOf(log, r) : y.seq = m
  BY DerivedOnPrefix DEF LogInv
<1>4. e \in Events /\ e.review = r /\ e.seq = s
  BY <1>3 DEF Row, Events
<1>5. KeySelect(log, e) = "same" => e \in log
  BY DEF KeySelect
<1> HIDE DEF e
<1>6. ev' = [ev EXCEPT ![p] = e]
  BY <1>1 DEF e
<1>7. \/ KeySelect(log, e) = "same" /\ Answer(p, "idempotent_noop")
      \/ Answer(p, "conflict")
      \/ /\ pc' = [pc EXCEPT ![p] = "lock"]
         /\ result' = [result EXCEPT ![p] = "none"]
  BY <1>1 DEF e
<1>8. TypeOK'
  BY <1>2, <1>4, <1>6, <1>7 DEF LogInv, TypeOK, Answer, Steps, Results
<1>9. AcknowledgedIsLogged'
  BY <1>2, <1>4, <1>5, <1>6, <1>7
     DEF LogInv, TypeOK, AcknowledgedIsLogged, Answer
<1>10. BuiltOnPrefix'
  <2> SUFFICES ASSUME NEW q \in Appenders, pc'[q] # "idle",
                      NEW m \in 0 .. ev'[q].seq - 1
               PROVE  \E y \in RowsOf(log, ev'[q].review) : y.seq = m
    BY <1>2 DEF BuiltOnPrefix
  <2>1. CASE q = p
    BY <2>1, <1>3, <1>4, <1>6 DEF LogInv, TypeOK
  <2>2. CASE q # p
    BY <2>2, <1>6, <1>7 DEF LogInv, TypeOK, BuiltOnPrefix, Answer
  <2> QED
    BY <2>1, <2>2
<1> QED
  BY <1>2, <1>8, <1>9, <1>10, TableUnchanged DEF LogInv

(* The statements that only read, and the crash. *)
LEMMA ReadStep ==
  ASSUME LogInv, NEW p \in Appenders,
         Lock(p) \/ SelectKey(p) \/ SelectMax(p) \/ Crash(p)
  PROVE  LogInv'
<1>1. log' = log /\ ev' = ev
  BY DEF Lock, SelectKey, SelectMax, Crash
<1>2. pc[p] # "idle" /\ ev[p] \in Events
  BY DEF Lock, SelectKey, SelectMax, Crash, LogInv, TypeOK
<1>3. \/ Answer(p, "idempotent_noop") /\ ev[p] \in log
      \/ \E x \in {"conflict", "not_monotonic", "none"} : Answer(p, x)
      \/ \E x \in {"key", "max", "insert"} : Goto(p, x)
  BY DEF Lock, SelectKey, SelectMax, Crash, KeySelect
<1>4. TypeOK'
  BY <1>1, <1>2, <1>3 DEF LogInv, TypeOK, Answer, Goto, Steps, Results
<1>5. AcknowledgedIsLogged'
  BY <1>1, <1>3 DEF LogInv, TypeOK, AcknowledgedIsLogged, Answer, Goto
<1>6. BuiltOnPrefix'
  <2>1. \A q \in Appenders : pc'[q] # "idle" => pc[q] # "idle"
    BY <1>2, <1>3 DEF Answer, Goto, LogInv, TypeOK
  <2> QED
    BY <1>1, <2>1 DEF LogInv, BuiltOnPrefix
<1> QED
  BY <1>1, <1>4, <1>5, <1>6, TableUnchanged DEF LogInv

(* The INSERT adds the row that comes next, or nothing. *)
LEMMA InsertIsNext ==
  ASSUME LogInv, NEW p \in Appenders, pc[p] = "insert",
         InsertAllowed(log, ev[p])
  PROVE  ev[p].seq = EventCount(log, ev[p].review)
<1> DEFINE e == ev[p]
<1>1. e \in Events /\ e.seq \in Nat
  BY DEF LogInv, TypeOK, Events
<1>2. /\ EventCount(log, e.review) \in Nat
      /\ \A m \in Nat : (\E y \in RowsOf(log, e.review) : y.seq = m)
                          <=> m < EventCount(log, e.review)
  BY TypedIsLog, SeqsAreBelowCount DEF LogInv, Unique, Contiguous
<1>3. ~(e.seq < EventCount(log, e.review))
  BY <1>1, <1>2 DEF InsertAllowed
<1>4. \A m \in 0 .. e.seq - 1 : m < EventCount(log, e.review)
  BY <1>1, <1>2 DEF LogInv, BuiltOnPrefix
<1> QED
  BY <1>1, <1>2, <1>3, <1>4

LEMMA InsertStep ==
  ASSUME LogInv, NEW p \in Appenders, Insert(p)
  PROVE  LogInv'
<1> DEFINE e == ev[p]
<1>1. e \in Events /\ ev' = ev /\ pc[p] = "insert"
  BY DEF Insert, LogInv, TypeOK
<1>2. CASE UNCHANGED log /\ Answer(p, "threw")
  <2>1. TypeOK'
    BY <1>1, <1>2 DEF LogInv, TypeOK, Answer, Steps, Results
  <2>2. AcknowledgedIsLogged' /\ BuiltOnPrefix'
    BY <1>1, <1>2 DEF LogInv, TypeOK, AcknowledgedIsLogged, BuiltOnPrefix, Answer
  <2> QED
    BY <1>2, <2>1, <2>2, TableUnchanged DEF LogInv
<1>3. CASE InsertAllowed(log, e) /\ log' = log \cup {e} /\ Answer(p, "appended")
  <2>1. TypeOK'
    <3>1. IsFiniteSet(log')
      BY <1>3, FS_AddElement DEF LogInv, TypeOK
    <3> QED
      BY <1>1, <1>3, <3>1 DEF LogInv, TypeOK, Answer, Steps, Results
  <2>2. Unique'
    BY <1>3 DEF LogInv, Unique, UniqueRows, InsertAllowed, RowsOf
  <2>3. Contiguous'
    <3> SUFFICES ASSUME NEW x \in log', NEW m \in 0 .. x.seq
                 PROVE  \E y \in log' : y.review = x.review /\ y.seq = m
      BY DEF Contiguous, NoGaps
    <3>1. CASE x \in log
      BY <1>3, <3>1 DEF LogInv, Contiguous, NoGaps
    <3>2. CASE x = e /\ m = e.seq
      BY <1>3, <3>2
    <3>3. CASE x = e /\ m # e.seq
      <4>1. m \in 0 .. e.seq - 1
        BY <1>1, <3>3 DEF Events
      <4> QED
        BY <1>1, <1>3, <3>3, <4>1 DEF LogInv, BuiltOnPrefix, RowsOf
    <3> QED
      BY <1>3, <3>1, <3>2, <3>3
  <2>4. AcknowledgedIsLogged'
    BY <1>1, <1>3 DEF LogInv, TypeOK, AcknowledgedIsLogged, Answer
  <2>5. BuiltOnPrefix'
    BY <1>1, <1>3 DEF LogInv, TypeOK, BuiltOnPrefix, Answer, RowsOf
  <2> QED
    BY <2>1, <2>2, <2>3, <2>4, <2>5 DEF LogInv
<1> QED
  BY <1>2, <1>3 DEF Insert

LEMMA NextLogInv == LogInv /\ [Next]_vars => LogInv'
<1> SUFFICES ASSUME LogInv, [Next]_vars PROVE LogInv'
  OBVIOUS
<1>1. CASE UNCHANGED vars
  BY <1>1 DEF vars, LogInv, TypeOK, Unique, Contiguous, AcknowledgedIsLogged,
              BuiltOnPrefix
<1>2. CASE Next
  BY <1>2, LoadStep, ReadStep, InsertStep DEF Next
<1> QED
  BY <1>1, <1>2

-----------------------------------------------------------------------------
(* The inductive invariant holds throughout: rows are typed and unique,    *)
(* and a losing or crashed appender leaves no gap.                         *)
THEOREM LogInvariant == Spec => []LogInv
  BY InitLogInv, NextLogInv, PTL DEF Spec

(* createPostgresAppendOnlyLog keeps one row per number and per key        *)
(* although nothing serializes its statements.                             *)
THEOREM LogUnique == Spec => []Unique
<1>1. LogInv => Unique
  BY DEF LogInv
<1> QED
  BY <1>1, LogInvariant, PTL

(* events.length is always the next free number. *)
THEOREM LogContiguous == Spec => []Contiguous
<1>1. LogInv => Contiguous
  BY DEF LogInv
<1> QED
  BY <1>1, LogInvariant, PTL

(* An append that answers appended or idempotent_noop has its event in the *)
(* log.                                                                    *)
THEOREM LogAcknowledges == Spec => []AcknowledgedIsLogged
<1>1. LogInv => AcknowledgedIsLogged
  BY DEF LogInv
<1> QED
  BY <1>1, LogInvariant, PTL

(* No statement of append removes or rewrites a row. *)
THEOREM LogAppendOnly == Spec => AppendOnly
<1>1. [Next]_vars => [log \subseteq log']_vars
  BY DEF Next, Load, Lock, SelectKey, SelectMax, Insert, Crash, vars
<1> QED
  BY <1>1, PTL DEF Spec, AppendOnly

-----------------------------------------------------------------------------
(* The history seen through the refinement mapping. *)
LEMMA HistoryOf ==
  ASSUME NEW r \in Reviews
  PROVE  history[r] = [i \in 1 .. EventCount(log, r) |->
                         [key |-> RowAt(log, r, i - 1).key,
                          body |-> RowAt(log, r, i - 1).body]]
  BY DEF history

(* The successful INSERT is one Append of the abstract history. *)
LEMMA InsertAppends ==
  ASSUME LogInv, LogInv', NEW p \in Appenders, pc[p] = "insert",
         InsertAllowed(log, ev[p]), log' = log \cup {ev[p]}
  PROVE  History!Next
<1> DEFINE e == ev[p]
           r == e.review
           n == EventCount(log, r)
           entry(i) == [key |-> RowAt(log, r, i - 1).key,
                      body |-> RowAt(log, r, i - 1).body]
<1>1. e \in Events /\ r \in Reviews /\ e.key \in Keys /\ e.body \in Bodies
  BY DEF LogInv, TypeOK, Events
<1>2. /\ IsLog(log) /\ UniqueRows(log) /\ NoGaps(log)
      /\ IsLog(log') /\ UniqueRows(log') /\ NoGaps(log')
  BY TypedIsLog DEF LogInv, Unique, Contiguous, TypeOK, IsLog, Events
<1>3. e.seq = n /\ n \in Nat
  BY <1>2, InsertIsNext, SeqsAreBelowCount
<1>4. /\ EventCount(log', r) = n + 1
      /\ RowAt(log', r, n) = e
      /\ \A q : q # r => RowsOf(log', q) = RowsOf(log, q)
      /\ \A m \in Nat : m < n => RowAt(log', r, m) = RowAt(log, r, m)
  <2> DEFINE new == log \cup {e}
  <2>1. IsLog(new) /\ UniqueRows(new) /\ NoGaps(new) /\ log' = new
    BY <1>2
  <2>2. e.seq = EventCount(log, e.review) /\ InsertAllowed(log, e)
    BY <1>3
  <2> HIDE DEF e
  <2>3. /\ EventCount(new, e.review) = EventCount(log, e.review) + 1
        /\ RowAt(new, e.review, e.seq) = e
        /\ \A q : q # e.review => RowsOf(new, q) = RowsOf(log, q)
        /\ \A m \in Nat : m < EventCount(log, e.review) =>
              RowAt(new, e.review, m) = RowAt(log, e.review, m)
    BY <1>2, <2>1, <2>2, AddNextRow
  <2> HIDE DEF new
  <2> QED
    BY <1>3, <2>1, <2>3
<1> HIDE DEF n, e
<1>5. history[r] = [i \in 1 .. n |-> entry(i)]
  BY <1>1 DEF history, n
<1>6. history'[r] = Append(history[r], [key |-> e.key, body |-> e.body])
  <2>1. history'[r] = [i \in 1 .. n + 1 |->
                         [key |-> RowAt(log', r, i - 1).key,
                          body |-> RowAt(log', r, i - 1).body]]
    BY <1>1, <1>4 DEF history
  <2>2. ASSUME NEW i \in 1 .. n + 1
        PROVE  [key |-> RowAt(log', r, i - 1).key,
                body |-> RowAt(log', r, i - 1).body]
                 = IF i <= n THEN entry(i) ELSE [key |-> e.key, body |-> e.body]
    <3>1. CASE i <= n
      <4>1. i - 1 \in Nat /\ i - 1 < n
        BY <1>3, <3>1
      <4>2. RowAt(log', r, i - 1) = RowAt(log, r, i - 1)
        BY <1>4, <4>1
      <4> QED
        BY <3>1, <4>2
    <3>2. CASE i = n + 1
      <4>1. i - 1 = n /\ ~(i <= n)
        BY <1>3, <3>2
      <4>2. RowAt(log', r, i - 1) = e
        BY <1>4, <4>1
      <4> QED
        BY <4>1, <4>2
    <3> QED
      BY <1>3, <3>1, <3>2
  <2>3. history'[r] = [i \in 1 .. n + 1 |->
           IF i <= n THEN entry(i) ELSE [key |-> e.key, body |-> e.body]]
    BY <2>1, <2>2
  <2> HIDE DEF entry
  <2> QED
    BY <1>3, <1>5, <2>3
<1>7. \A q \in Reviews : q # r => history'[q] = history[q]
  BY <1>4 DEF history, EventCount, RowAt
<1>8. history' = [history EXCEPT ![r] = Append(@, [key |-> e.key, body |-> e.body])]
  <2>1. history = [q \in Reviews |-> history[q]] /\ history' = [q \in Reviews |-> history'[q]]
    BY DEF history
  <2> HIDE DEF history
  <2> QED
    BY <1>1, <1>6, <1>7, <2>1
<1>9. \A i \in 1 .. Len(history[r]) : history[r][i].key # e.key
  <2>1. Len(history[r]) = n
    BY <1>3, <1>5
  <2>2. ASSUME NEW i \in 1 .. n PROVE history[r][i].key # e.key
    <3>1. RowAt(log, r, i - 1) \in RowsOf(log, r)
      BY <1>2, <1>3, RowAtIsRow DEF n
    <3>2. history[r][i].key = RowAt(log, r, i - 1).key
      BY <1>5
    <3> QED
      BY <3>1, <3>2 DEF InsertAllowed, e
  <2> QED
    BY <2>1, <2>2
<1> QED
  BY <1>1, <1>8, <1>9 DEF History!Next, History!Append1

(* The racing, unserialized statements implement one ordered history per   *)
(* review that only grows at its end.                                      *)
THEOREM LogRefinesHistory == Spec => ImplementsHistory
<1>1. Init => History!Init
  <2> SUFFICES ASSUME Init PROVE History!Init
    OBVIOUS
  <2>1. \A r \in Reviews : EventCount(log, r) = 0
    BY FS_EmptySet DEF Init, EventCount, RowsOf
  <2>2. ASSUME NEW r \in Reviews PROVE history[r] = <<>>
    BY <2>1 DEF history
  <2> QED
    BY <2>2 DEF History!Init, history
<1>2. LogInv /\ LogInv' /\ [Next]_vars => [History!Next]_history
  <2> SUFFICES ASSUME LogInv, LogInv', [Next]_vars PROVE [History!Next]_history
    OBVIOUS
  <2>1. CASE UNCHANGED log
    BY <2>1 DEF history
  <2>2. CASE ~UNCHANGED log
    <3>1. PICK p \in Appenders : Insert(p)
      BY <2>2 DEF Next, vars, Load, Lock, SelectKey, SelectMax, Crash
    <3> QED
      BY <2>2, <3>1, InsertAppends DEF Insert
  <2> QED
    BY <2>1, <2>2
<1> QED
  BY <1>1, <1>2, LogInvariant, PTL DEF Spec, ImplementsHistory, History!Spec

-----------------------------------------------------------------------------
(* The job queue.                                                          *)

(* job_id is the primary key of the table. *)
OneRowEach(q) == \A i, j \in 1 .. Len(q) : q[i] = q[j] => i = j

(* What a claim takes is a row that nobody holds. *)
LEMMA OldestIsRow ==
  ASSUME NEW S, NEW q \in Seq(S), NEW claimOf, Unclaimed(q, claimOf) # {}
  PROVE  LET id == Oldest(q, Unclaimed(q, claimOf))
         IN id \in S /\ HasRow(q, id) /\ claimOf[id] = "free"
<1> DEFINE places == Unclaimed(q, claimOf)
<1>1. places \in SUBSET Nat /\ places # {}
  BY DEF Unclaimed
<1>2. \E i \in places : \A j \in places : i <= j
  <2> HIDE DEF places
  <2> QED
    BY <1>1, LeastExists
<1>3. PICK i \in places : Oldest(q, places) = q[i]
  BY <1>2 DEF Oldest
<1>4. i \in 1 .. Len(q) /\ claimOf[q[i]] = "free"
  BY <1>3 DEF Unclaimed
<1> HIDE DEF places
<1>5. Oldest(q, places) \in S /\ HasRow(q, Oldest(q, places))
      /\ claimOf[Oldest(q, places)] = "free"
  BY <1>3, <1>4 DEF HasRow
<1> QED
  BY <1>5 DEF places

(* Taking one place out of a sequence moves the later ones up. *)
LEMMA TakenOut ==
  ASSUME NEW S, NEW q \in Seq(S), NEW i \in 1 .. Len(q)
  PROVE  LET rest == SubSeq(q, 1, i - 1) \o SubSeq(q, i + 1, Len(q))
         IN /\ rest \in Seq(S)
            /\ Len(rest) = Len(q) - 1
            /\ \A k \in 1 .. Len(q) - 1 :
                 rest[k] = IF k < i THEN q[k] ELSE q[k + 1]
<1> DEFINE a == SubSeq(q, 1, i - 1)
           b == SubSeq(q, i + 1, Len(q))
<1>1. a \in Seq(S) /\ Len(a) = i - 1 /\ \A k \in 1 .. i - 1 : a[k] = q[k]
  BY SMTT(30)
<1>2. b \in Seq(S) /\ Len(b) = Len(q) - i /\ \A k \in 1 .. Len(q) - i : b[k] = q[k + i]
  BY SMTT(30)
<1> HIDE DEF a, b
<1>3. /\ a \o b \in Seq(S) /\ Len(a \o b) = Len(a) + Len(b)
      /\ \A k \in 1 .. Len(a) + Len(b) : (a \o b)[k] = IF k <= Len(a) THEN a[k] ELSE b[k - Len(a)]
  BY <1>1, <1>2, ConcatProperties
<1>4. ASSUME NEW k \in 1 .. Len(q) - 1
      PROVE  (a \o b)[k] = IF k < i THEN q[k] ELSE q[k + 1]
  <2>1. CASE k < i
    BY <2>1, <1>1, <1>2, <1>3
  <2>2. CASE ~(k < i)
    <3>1. k - (i - 1) \in 1 .. Len(q) - i /\ k - (i - 1) + i = k + 1
      BY <2>2
    <3>2. (a \o b)[k] = b[k - (i - 1)]
      BY <2>2, <1>1, <1>2, <1>3
    <3> QED
      BY <3>1, <3>2, <1>2, <2>2
  <2> QED
    BY <2>1, <2>2
<1>5. a \o b \in Seq(S) /\ Len(a \o b) = Len(q) - 1
  BY <1>1, <1>2, <1>3
<1> QED
  BY <1>4, <1>5 DEF a, b

(* DELETE takes the row of the job and no other. *)
LEMMA WithoutRow ==
  ASSUME NEW S, NEW q \in Seq(S), NEW id
  PROVE  /\ Without(q, id) \in Seq(S)
         /\ \A x : x # id => (HasRow(Without(q, id), x) <=> HasRow(q, x))
         /\ OneRowEach(q) => OneRowEach(Without(q, id)) /\ ~HasRow(Without(q, id), id)
<1>1. CASE ~HasRow(q, id)
  BY <1>1 DEF Without
<1>2. CASE HasRow(q, id)
  <2>1. PICK i \in 1 .. Len(q) :
          /\ q[i] = id
          /\ Without(q, id) = SubSeq(q, 1, i - 1) \o SubSeq(q, i + 1, Len(q))
    BY <1>2 DEF Without, HasRow
  <2> DEFINE rest == Without(q, id)
             n == Len(q)
  <2>2. /\ rest \in Seq(S) /\ n \in Nat /\ Len(rest) = n - 1
        /\ \A k \in 1 .. n - 1 : rest[k] = IF k < i THEN q[k] ELSE q[k + 1]
    <3> DEFINE left == SubSeq(q, 1, i - 1) \o SubSeq(q, i + 1, Len(q))
    <3>1. /\ left \in Seq(S) /\ Len(left) = n - 1
          /\ \A k \in 1 .. n - 1 : left[k] = IF k < i THEN q[k] ELSE q[k + 1]
      BY TakenOut
    <3>2. rest = left
      BY <2>1
    <3> HIDE DEF rest, left
    <3> QED
      BY <3>1, <3>2
  <2>3. i \in 1 .. n /\ q[i] = id
    BY <2>1
  <2>4. ASSUME NEW x, x # id, HasRow(q, x) PROVE HasRow(rest, x)
    <3>1. PICK k \in 1 .. n : q[k] = x /\ k # i
      BY <2>3, <2>4 DEF HasRow
    <3>2. CASE k < i
      <4>1. k \in 1 .. n - 1 /\ rest[k] = x
        BY <3>1, <3>2, <2>2, <2>3
      <4> QED
        BY <4>1, <2>2 DEF HasRow
    <3>3. CASE k > i
      <4>1. k - 1 \in 1 .. n - 1 /\ rest[k - 1] = x
        BY <3>1, <3>3, <2>2, <2>3
      <4> QED
        BY <4>1, <2>2 DEF HasRow
    <3> QED
      BY <3>1, <3>2, <3>3, <2>2, <2>3
  <2> HIDE DEF rest
  <2>5. ASSUME NEW x, HasRow(rest, x) PROVE HasRow(q, x)
    <3>1. PICK k \in 1 .. n - 1 : rest[k] = x
      BY <2>2, <2>5 DEF HasRow
    <3>2. k \in 1 .. n /\ k + 1 \in 1 .. n /\ (x = q[k] \/ x = q[k + 1])
      BY <3>1, <2>2
    <3> QED
      BY <3>2 DEF HasRow
  <2>6. ASSUME OneRowEach(q) PROVE OneRowEach(rest) /\ ~HasRow(rest, id)
    <3> DEFINE at(k) == IF k < i THEN k ELSE k + 1
    <3>0. \A k \in 1 .. n - 1 : at(k) \in 1 .. n /\ at(k) # i /\ rest[k] = q[at(k)]
      BY <2>2, <2>3
    <3>01. \A k, m \in 1 .. n - 1 : at(k) = at(m) => k = m
      BY <2>3
    <3> HIDE DEF at
    <3>1. \A k, m \in 1 .. n - 1 : rest[k] = rest[m] => k = m
      BY <3>0, <3>01, <2>6 DEF OneRowEach
    <3>2. \A k \in 1 .. n - 1 : rest[k] # id
      BY <3>0, <2>3, <2>6 DEF OneRowEach
    <3> QED
      BY <3>1, <3>2, <2>2 DEF OneRowEach, HasRow
  <2> QED
    BY <2>2, <2>4, <2>5, <2>6 DEF rest
<1> QED
  BY <1>1, <1>2

(* INSERT ... ON CONFLICT DO NOTHING adds the row it does not find. *)
LEMMA AppendedRow ==
  ASSUME NEW S, NEW q \in Seq(S), NEW id \in S
  PROVE  /\ Append(q, id) \in Seq(S)
         /\ \A x : HasRow(Append(q, id), x) <=> HasRow(q, x) \/ x = id
         /\ OneRowEach(q) /\ ~HasRow(q, id) => OneRowEach(Append(q, id))
<1> DEFINE more == Append(q, id)
           n == Len(q)
<1>1. more \in Seq(S) /\ n \in Nat /\ Len(more) = n + 1 /\ more[n + 1] = id
      /\ \A k \in 1 .. n : more[k] = q[k]
  OBVIOUS
<1> HIDE DEF more
<1>2. ASSUME NEW x PROVE HasRow(more, x) <=> HasRow(q, x) \/ x = id
  <2>1. ASSUME HasRow(q, x) PROVE HasRow(more, x)
    <3>1. PICK k \in 1 .. n : q[k] = x
      BY <2>1 DEF HasRow
    <3>2. k \in 1 .. Len(more) /\ more[k] = x
      BY <3>1, <1>1
    <3> QED
      BY <3>2 DEF HasRow
  <2>2. ASSUME x = id PROVE HasRow(more, x)
    <3>1. n + 1 \in 1 .. Len(more) /\ more[n + 1] = x
      BY <2>2, <1>1
    <3> QED
      BY <3>1 DEF HasRow
  <2>3. ASSUME HasRow(more, x) PROVE HasRow(q, x) \/ x = id
    <3>1. PICK k \in 1 .. n + 1 : more[k] = x
      BY <2>3, <1>1 DEF HasRow
    <3>2. CASE k \in 1 .. n
      BY <3>1, <3>2, <1>1 DEF HasRow
    <3> QED
      BY <3>1, <3>2, <1>1
  <2> QED
    BY <2>1, <2>2, <2>3
<1>3. ASSUME OneRowEach(q), ~HasRow(q, id) PROVE OneRowEach(more)
  <2> SUFFICES ASSUME NEW k \in 1 .. n + 1, NEW m \in 1 .. n + 1, more[k] = more[m] PROVE k = m
    BY <1>1 DEF OneRowEach
  <2>1. CASE k \in 1 .. n /\ m \in 1 .. n
    BY <2>1, <1>1, <1>3 DEF OneRowEach
  <2>2. CASE k = n + 1 /\ m \in 1 .. n
    BY <2>2, <1>1, <1>3 DEF HasRow
  <2>3. CASE m = n + 1 /\ k \in 1 .. n
    BY <2>3, <1>1, <1>3 DEF HasRow
  <2> QED
    BY <2>1, <2>2, <2>3, <1>1
<1> QED
  BY <1>1, <1>2, <1>3 DEF more

-----------------------------------------------------------------------------
(* The transparency checkpoints.                                           *)

Upto(a, b) == \A r \in ChainedReviews : a[r] <= b[r]

(* What a run has in hand, step by step: the logs it still has to load are *)
(* the only ones of which the latest publication may cover more; from the  *)
(* comparison on it covers at least as much of every log.                  *)
RunIsForward ==
  /\ Upto(run.heads, logLength)
  /\ published # <<>> => Upto(Latest.heads, logLength)
  /\ run.step \in {"idle", "list"} => run.heads = NoHeads /\ run.left = {}
  /\ run.step = "load" /\ published # <<>> =>
       \A r \in ChainedReviews \ run.left : Latest.heads[r] <= run.heads[r]
  /\ run.step \in {"compare", "put", "readBack", "record"} /\ published # <<>> =>
       Upto(Latest.heads, run.heads)
RunHoldsRecord ==
  /\ run.step \in {"put", "readBack", "record", "rows"} => run.record.heads = run.heads
  /\ run.step \in {"put", "readBack", "record"} /\ published # <<>> =>
       Latest.heads # run.heads
  /\ run.step = "record" => anchor[run.record] # "absent"
  /\ run.step = "rows" => \E i \in 1 .. Len(published) : published[i] = run.record

TransparencyInv ==
  TransparencyTypeOK /\ RunIsForward /\ RunHoldsRecord /\ PublicationsStand

(* FirstOf picks one of the reviews it is given. *)
LEMMA FirstOfIsOne ==
  ASSUME NEW S \in SUBSET ChainedReviews, S # {}
  PROVE  FirstOf(S) \in S
<1> DEFINE places == {i \in 1 .. Len(ReviewOrder) : ReviewOrder[i] \in S}
<1>1. places \in SUBSET Nat /\ places # {}
  BY TransparencyAssumption DEF ChainedReviews
<1>2. \E i \in places : \A j \in places : i <= j
  BY <1>1, LeastExists
<1>3. PICK i \in places : FirstOf(S) = ReviewOrder[i]
  BY <1>2 DEF FirstOf
<1> QED
  BY <1>3

LEMMA TransparencyTypeHolds ==
  ASSUME TransparencyTypeOK, [TransparencyNext]_transparencyVars
  PROVE  TransparencyTypeOK'
<1> USE TransparencyAssumption DEF TransparencyTypeOK, RunSteps
<1>0. NoHeads \in Heads
  BY DEF NoHeads, Heads
<1>01. NoRun \in [step : RunSteps, heads : Heads, left : SUBSET ChainedReviews,
                  record : Checkpoints \cup {<<>>}] /\ NoRun.step = "idle"
  BY <1>0 DEF NoRun
<1> HIDE DEF RunSteps
<1>1. ASSUME NEW r \in ChainedReviews, LogGrows(r) PROVE TransparencyTypeOK'
  BY <1>1 DEF LogGrows, Heads
<1>2. CASE SecondPasses
  BY <1>2 DEF SecondPasses
<1>3. ASSUME NEW c \in Checkpoints, AnchorSpoils(c) PROVE TransparencyTypeOK'
  BY <1>3 DEF AnchorSpoils
<1>4. CASE StartCheckpoint
  <2>1. run' \in [step : RunSteps, heads : Heads, left : SUBSET ChainedReviews,
                  record : Checkpoints \cup {<<>>}] /\ run'.step = "list"
    BY <1>4, <1>0 DEF StartCheckpoint, NoRun, RunSteps
  <2> QED
    BY <2>1, <1>4 DEF StartCheckpoint
<1>5. CASE ListReviews
  <2>1. run' \in [step : RunSteps, heads : Heads, left : SUBSET ChainedReviews,
                  record : Checkpoints \cup {<<>>}] /\ run'.step = "load"
    BY <1>5 DEF ListReviews, RunSteps
  <2> QED
    BY <2>1, <1>5 DEF ListReviews
<1>6. CASE LoadHead
  <2>1. run' \in [step : RunSteps, heads : Heads, left : SUBSET ChainedReviews,
                  record : Checkpoints \cup {<<>>}] /\ run'.step \in {"load", "compare"}
    <3>1. CASE run.left = {}
      BY <3>1, <1>6 DEF LoadHead, RunSteps
    <3>2. CASE run.left # {}
      <4> DEFINE r == FirstOf(run.left)
      <4>1. r \in ChainedReviews
        BY <3>2, FirstOfIsOne
      <4> HIDE DEF r
      <4>2. [run.heads EXCEPT ![r] = logLength[r]] \in Heads
        BY <4>1 DEF Heads
      <4>3. run' = [run EXCEPT !.left = @ \ {r}, !.heads[r] = logLength[r]]
        BY <3>2, <1>6 DEF LoadHead, r
      <4>4. run.step = "load"
        BY <1>6 DEF LoadHead
      <4> QED
        BY <4>2, <4>3, <4>4 DEF RunSteps
    <3> QED
      BY <3>1, <3>2
  <2> QED
    BY <2>1, <1>6 DEF LoadHead
<1>7. CASE CompareLatest
  <2>1. [heads |-> run.heads, at |-> second] \in Checkpoints
    BY DEF Checkpoints
  <2>2. run' \in [step : RunSteps, heads : Heads, left : SUBSET ChainedReviews,
                  record : Checkpoints \cup {<<>>}]
        /\ run'.step \in {"reread", "put"} /\ (run'.step = "put" => run'.record \in Checkpoints)
    BY <2>1, <1>7 DEF CompareLatest, RunSteps
  <2> QED
    BY <2>2, <1>7 DEF CompareLatest
<1>8. CASE RereadLatest
  BY <1>8, <1>01 DEF RereadLatest
<1>9. CASE PutCheckpoint
  BY <1>9 DEF PutCheckpoint, RunSteps
<1>10. CASE PutFails
  BY <1>10, <1>01 DEF PutFails
<1>11. CASE PutIsNotKept
  BY <1>11 DEF PutIsNotKept, RunSteps
<1>12. CASE ReadBack
  BY <1>12, <1>01 DEF ReadBack, RunSteps
<1>13. CASE RecordPublication
  <2>1. run' \in [step : RunSteps, heads : Heads, left : SUBSET ChainedReviews,
                  record : Checkpoints \cup {<<>>}]
        /\ run'.step = "rows" /\ run'.record \in Checkpoints
    BY <1>13 DEF RecordPublication, RunSteps
  <2>3. \A r \in run'.left : run'.heads[r] > 0
    BY <1>13 DEF RecordPublication
  <2>2. published' \in Seq(Checkpoints)
    BY <1>13 DEF RecordPublication
  <2> QED
    BY <2>1, <2>2, <2>3, <1>13 DEF RecordPublication
<1>14. CASE RecordHead
  <2>1. CASE run.left = {}
    BY <2>1, <1>14, <1>01 DEF RecordHead
  <2>2. CASE run.left # {}
    <3> DEFINE r == FirstOf(run.left)
    <3>1. r \in run.left
      BY <2>2, FirstOfIsOne
    <3> HIDE DEF r
    <3>2. /\ run.step = "rows" /\ run' = [run EXCEPT !.left = @ \ {r}]
          /\ headRows' = headRows \cup {<<r, run.heads[r]>>}
          /\ UNCHANGED <<logLength, second, anchor, published, outages>>
      BY <2>2, <1>14 DEF RecordHead, r
    <3>3. run.heads[r] \in 1 .. MaxLog
      BY <3>1, <3>2 DEF Heads
    <3>4. headRows' \subseteq ChainedReviews \X (1 .. MaxLog)
      BY <3>1, <3>2, <3>3
    <3>5. run' \in [step : RunSteps, heads : Heads, left : SUBSET ChainedReviews,
                    record : Checkpoints \cup {<<>>}]
          /\ run'.step = "rows" /\ run'.heads = run.heads /\ run'.left \subseteq run.left
          /\ run'.record = run.record
      BY <3>1, <3>2
    <3> QED
      BY <3>2, <3>4, <3>5
  <2> QED
    BY <2>1, <2>2
<1>15. CASE CheckpointDies
  BY <1>15, <1>01 DEF CheckpointDies
<1>16. CASE UNCHANGED transparencyVars
  BY <1>16 DEF transparencyVars
<1> QED
  BY <1>1, <1>2, <1>3, <1>4, <1>5, <1>6, <1>7, <1>8, <1>9, <1>10, <1>11, <1>12, <1>13,
     <1>14, <1>15, <1>16 DEF TransparencyNext, RunStep

LEMMA QuietRunKeepsPublications ==
  ASSUME TransparencyTypeOK, PublicationsStand, UNCHANGED <<published, headRows>>,
         \A c \in Checkpoints : anchor[c] # "absent" => anchor'[c] # "absent"
  PROVE  PublicationsStand'
<1>1. \A i \in 1 .. Len(published) : published[i] \in Checkpoints
  BY DEF TransparencyTypeOK
<1> QED
  BY <1>1 DEF PublicationsStand, PublicationsGrow, PublicationWasKept, HeadRowsArePublished

(* A run that starts or gives up has nothing in hand. *)
LEMMA FreshRunIsForward ==
  ASSUME TransparencyTypeOK, RunIsForward, UNCHANGED <<logLength, published>>,
         run'.step \in {"idle", "list"}, run'.heads = NoHeads, run'.left = {}
  PROVE  RunIsForward' /\ RunHoldsRecord'
<1>1. Upto(NoHeads, logLength)
  BY DEF Upto, NoHeads, TransparencyTypeOK, Heads
<1> QED
  BY <1>1 DEF RunIsForward, RunHoldsRecord, Upto, Latest

LEMMA LatestIsHeads ==
  ASSUME TransparencyTypeOK, published # <<>>
  PROVE  Latest \in Checkpoints /\ Latest.heads \in Heads /\ Len(published) \in 1 .. Len(published)
<1>1. published \in Seq(Checkpoints)
  BY DEF TransparencyTypeOK
<1>2. Len(published) \in 1 .. Len(published)
  BY <1>1
<1>3. Latest \in Checkpoints
  BY <1>1, <1>2 DEF Latest
<1> QED
  BY <1>2, <1>3 DEF Checkpoints

LEMMA TransparencyStep ==
  ASSUME TransparencyInv, [TransparencyNext]_transparencyVars
  PROVE  RunIsForward' /\ RunHoldsRecord' /\ PublicationsStand'
<1> USE TransparencyAssumption DEF TransparencyInv
<1>0. NoRun.step = "idle" /\ NoRun.heads = NoHeads /\ NoRun.left = {}
  BY DEF NoRun
<1>01. /\ run \in [step : RunSteps, heads : Heads, left : SUBSET ChainedReviews,
                    record : Checkpoints \cup {<<>>}]
       /\ logLength \in [ChainedReviews -> 0 .. MaxLog] /\ run.heads \in [ChainedReviews -> 0 .. MaxLog]
  BY DEF TransparencyTypeOK, Heads
<1>02. published # <<>> => Latest.heads \in [ChainedReviews -> 0 .. MaxLog]
  BY LatestIsHeads DEF Heads
<1>1. ASSUME NEW r \in ChainedReviews, LogGrows(r) PROVE RunIsForward' /\ RunHoldsRecord' /\ PublicationsStand'
  <2>1. UNCHANGED <<published, headRows, anchor, run>> /\ Latest' = Latest
    BY <1>1 DEF LogGrows, Latest
  <2>2. \A x \in ChainedReviews : logLength[x] <= logLength'[x]
    BY <1>1, <1>01 DEF LogGrows
  <2>22. logLength' \in [ChainedReviews -> 0 .. MaxLog]
    BY <1>1, <1>01 DEF LogGrows
  <2>3. RunIsForward'
    BY <2>1, <2>2, <2>22, <1>01, <1>02 DEF RunIsForward, Upto
  <2> QED
    BY <2>1, <2>3, QuietRunKeepsPublications DEF RunHoldsRecord
<1>2. CASE SecondPasses
  BY <1>2, QuietRunKeepsPublications DEF SecondPasses, RunIsForward, RunHoldsRecord, Latest
<1>3. ASSUME NEW c \in Checkpoints, AnchorSpoils(c) PROVE RunIsForward' /\ RunHoldsRecord' /\ PublicationsStand'
  <2>1. UNCHANGED <<published, headRows, logLength, run>> /\ Latest' = Latest
    BY <1>3 DEF AnchorSpoils, Latest
  <2>2. \A x \in Checkpoints : anchor[x] # "absent" => anchor'[x] # "absent"
    BY <1>3 DEF AnchorSpoils, TransparencyTypeOK
  <2>3. run.step = "record" => run.record \in Checkpoints
    BY DEF TransparencyTypeOK
  <2> QED
    BY <2>1, <2>2, <2>3, QuietRunKeepsPublications DEF RunIsForward, RunHoldsRecord
<1>4. CASE StartCheckpoint
  <2>1. run'.step = "list" /\ run'.heads = NoHeads /\ run'.left = {}
    BY <1>4 DEF StartCheckpoint, NoRun
  <2> QED
    BY <1>4, <2>1, FreshRunIsForward, QuietRunKeepsPublications DEF StartCheckpoint
<1>5. CASE ListReviews
  <2>1. /\ UNCHANGED <<published, headRows, logLength, anchor>> /\ Latest' = Latest
        /\ run'.step = "load" /\ run'.heads = NoHeads
        /\ run'.left = {r \in ChainedReviews : logLength[r] > 0}
    BY <1>5, <1>01 DEF ListReviews, Latest, RunIsForward
  <2>2. Upto(NoHeads, logLength)
    BY <1>01 DEF Upto, NoHeads
  <2>3. ASSUME published # <<>>, NEW r \in ChainedReviews, r \notin run'.left
        PROVE  Latest.heads[r] <= NoHeads[r]
    <3>1. ~(logLength[r] > 0) /\ logLength[r] \in 0 .. MaxLog /\ Latest.heads[r] \in 0 .. MaxLog
      BY <2>1, <2>3, <1>01, <1>02
    <3> QED
      BY <3>1, <2>3 DEF RunIsForward, Upto, NoHeads
  <2> QED
    BY <2>1, <2>2, <2>3, QuietRunKeepsPublications DEF RunIsForward, RunHoldsRecord
<1>6. CASE LoadHead
  <2>1. UNCHANGED <<published, headRows, logLength, anchor>> /\ Latest' = Latest /\ run.step = "load"
    BY <1>6 DEF LoadHead, Latest
  <2>2. CASE run.left = {}
    <3>1. run'.step = "compare" /\ run'.heads = run.heads
      BY <1>6, <2>2, <1>01 DEF LoadHead
    <3> QED
      BY <2>1, <2>2, <3>1, QuietRunKeepsPublications DEF RunIsForward, RunHoldsRecord, Upto
  <2>3. CASE run.left # {}
    <3> DEFINE r == FirstOf(run.left)
    <3>1. r \in run.left /\ r \in ChainedReviews
      BY <2>3, <1>01, FirstOfIsOne
    <3> HIDE DEF r
    <3>2. run' = [run EXCEPT !.left = @ \ {r}, !.heads[r] = logLength[r]]
      BY <2>3, <1>6 DEF LoadHead, r
    <3>3. /\ run'.step = "load" /\ run'.left = run.left \ {r}
          /\ run'.heads = [run.heads EXCEPT ![r] = logLength[r]]
      BY <3>1, <3>2, <2>1, <1>01
    <3>4. \A x \in ChainedReviews : run'.heads[x] = (IF x = r THEN logLength[r] ELSE run.heads[x])
      BY <3>3, <1>01
    <3>5. Upto(run'.heads, logLength)
      BY <3>4, <1>01 DEF RunIsForward, Upto
    <3>6. ASSUME published # <<>>, NEW x \in ChainedReviews, x \notin run'.left
          PROVE  Latest.heads[x] <= run'.heads[x]
      BY <3>6, <3>3, <3>4, <2>1 DEF RunIsForward, Upto
    <3> QED
      BY <2>1, <3>3, <3>5, <3>6, QuietRunKeepsPublications DEF RunIsForward, RunHoldsRecord
  <2> QED
    BY <2>2, <2>3
<1>7. CASE CompareLatest
  <2>1. /\ UNCHANGED <<published, headRows, logLength, anchor>> /\ Latest' = Latest
        /\ run.step = "compare" /\ run'.heads = run.heads
    BY <1>7, <1>01 DEF CompareLatest, Latest
  <2>2. \/ run'.step = "reread"
        \/ /\ run'.step = "put" /\ run'.record.heads = run.heads
           /\ published # <<>> => Latest.heads # run.heads
    <3>1. CASE published # <<>> /\ Latest.heads = run.heads
      BY <3>1, <1>7, <1>01 DEF CompareLatest
    <3>2. CASE ~(published # <<>> /\ Latest.heads = run.heads)
      <4>1. run' = [run EXCEPT !.step = "put", !.record = [heads |-> run.heads, at |-> second]]
        BY <3>2, <1>7 DEF CompareLatest
      <4>2. run'.step = "put" /\ run'.record = [heads |-> run.heads, at |-> second]
        BY <4>1, <1>01
      <4> QED
        BY <3>2, <4>2
    <3> QED
      BY <3>1, <3>2
  <2> QED
    BY <2>1, <2>2, QuietRunKeepsPublications DEF RunIsForward, RunHoldsRecord
<1>8. CASE RereadLatest
  BY <1>8, <1>0, FreshRunIsForward, QuietRunKeepsPublications DEF RereadLatest
<1>9. CASE PutCheckpoint
  <2>1. /\ UNCHANGED <<published, headRows, logLength>> /\ Latest' = Latest
        /\ run.step = "put" /\ run'.heads = run.heads /\ run'.step = "readBack"
        /\ run'.record = run.record
    BY <1>9, <1>01 DEF PutCheckpoint, Latest
  <2>2. \A c \in Checkpoints : anchor[c] # "absent" => anchor'[c] # "absent"
    BY <1>9 DEF PutCheckpoint, TransparencyTypeOK
  <2> QED
    BY <2>1, <2>2, QuietRunKeepsPublications DEF RunIsForward, RunHoldsRecord
<1>10. CASE PutFails
  <2>2. \A c \in Checkpoints : anchor[c] # "absent" => anchor'[c] # "absent"
    BY <1>10 DEF PutFails, TransparencyTypeOK
  <2> QED
    BY <2>2, <1>10, <1>0, FreshRunIsForward, QuietRunKeepsPublications DEF PutFails
<1>11. CASE PutIsNotKept
  <2>1. /\ UNCHANGED <<published, headRows, logLength, anchor>> /\ Latest' = Latest
        /\ run.step = "put" /\ run'.heads = run.heads /\ run'.step = "readBack"
        /\ run'.record = run.record
    BY <1>11, <1>01 DEF PutIsNotKept, Latest
  <2> QED
    BY <2>1, QuietRunKeepsPublications DEF RunIsForward, RunHoldsRecord
<1>12. CASE ReadBack
  <2>1. UNCHANGED <<published, headRows, logLength, anchor>> /\ Latest' = Latest /\ run.step = "readBack"
    BY <1>12 DEF ReadBack, Latest
  <2>2. CASE anchor[run.record] = "kept"
    <3>1. run'.heads = run.heads /\ run'.step = "record" /\ run'.record = run.record
      BY <2>2, <1>12, <1>01 DEF ReadBack
    <3> QED
      BY <2>1, <2>2, <3>1, QuietRunKeepsPublications DEF RunIsForward, RunHoldsRecord
  <2>3. CASE anchor[run.record] # "kept"
    BY <2>1, <2>3, <1>12, <1>0, FreshRunIsForward, QuietRunKeepsPublications DEF ReadBack
  <2> QED
    BY <2>2, <2>3
<1>13. CASE RecordPublication
  <2>1. /\ UNCHANGED <<headRows, logLength, anchor>> /\ run.step = "record"
        /\ run'.heads = run.heads /\ run'.step = "rows" /\ run'.record = run.record
    BY <1>13, <1>01 DEF RecordPublication
  <2>2. run.record \in Checkpoints /\ run.record.heads = run.heads
        /\ anchor[run.record] # "absent" /\ published \in Seq(Checkpoints)
    BY <2>1 DEF RunHoldsRecord, TransparencyTypeOK
  <2>3. CASE \E i \in 1 .. Len(published) : published[i] = run.record
    <3>1. published' = published /\ Latest' = Latest
      BY <2>3, <1>13 DEF RecordPublication, Latest
    <3> QED
      BY <2>1, <2>2, <2>3, <3>1, QuietRunKeepsPublications DEF RunIsForward, RunHoldsRecord
  <2>4. CASE ~ \E i \in 1 .. Len(published) : published[i] = run.record
    <3> DEFINE n == Len(published)
    <3>1. published' = Append(published, run.record)
      BY <2>4, <1>13 DEF RecordPublication
    <3>2. /\ n \in Nat /\ Len(published') = n + 1 /\ published'[n + 1] = run.record
          /\ \A i \in 1 .. n : published'[i] = published[i]
          /\ published' # <<>>
      BY <3>1, <2>2
    <3>3. Latest' = run.record
      BY <3>2 DEF Latest
    <3>4. RunIsForward'
      BY <3>3, <2>1, <2>2 DEF RunIsForward, Upto
    <3>5. RunHoldsRecord'
      BY <2>1, <2>2, <3>2, <3>3 DEF RunHoldsRecord
    <3>6. PublicationsGrow'
      <4> SUFFICES ASSUME NEW i \in 2 .. Len(published')
                   PROVE /\ \A r \in ChainedReviews : published'[i - 1].heads[r] <= published'[i].heads[r]
                         /\ published'[i - 1].heads # published'[i].heads
        BY DEF PublicationsGrow
      <4>1. CASE i <= n
        BY <4>1, <3>2 DEF PublicationsStand, PublicationsGrow
      <4>2. CASE i = n + 1
        <5>1. n >= 1 /\ published # <<>> /\ published'[i - 1] = Latest /\ published'[i] = run.record
          BY <4>2, <3>2, <2>2 DEF Latest
        <5> QED
          BY <5>1, <2>1, <2>2 DEF RunIsForward, RunHoldsRecord, Upto
      <4> QED
        BY <4>1, <4>2, <3>2
    <3>7. PublicationWasKept'
      BY <3>2, <2>1, <2>2 DEF PublicationsStand, PublicationWasKept
    <3>8. HeadRowsArePublished'
      <4> SUFFICES ASSUME NEW anchored \in headRows
                   PROVE  \E i \in 1 .. Len(published') : published'[i].heads[anchored[1]] = anchored[2]
        BY <2>1 DEF HeadRowsArePublished
      <4>1. PICK i \in 1 .. n : published[i].heads[anchored[1]] = anchored[2]
        BY DEF PublicationsStand, HeadRowsArePublished
      <4>2. i \in 1 .. Len(published') /\ published'[i].heads[anchored[1]] = anchored[2]
        BY <4>1, <3>2
      <4> QED
        BY <4>2
    <3> QED
      BY <3>4, <3>5, <3>6, <3>7, <3>8 DEF PublicationsStand
  <2> QED
    BY <2>3, <2>4
<1>14. CASE RecordHead
  <2>0. UNCHANGED <<published, logLength, anchor>> /\ Latest' = Latest /\ run.step = "rows"
    BY <1>14 DEF RecordHead, Latest
  <2>1. CASE run.left = {}
    BY <2>1, <1>14, <1>0, FreshRunIsForward, QuietRunKeepsPublications DEF RecordHead
  <2>2. CASE run.left # {}
    <3>1. /\ run'.step = "rows" /\ run'.heads = run.heads /\ run'.record = run.record
          /\ \E r \in ChainedReviews : headRows' = headRows \cup {<<r, run.heads[r]>>}
      <4>1. FirstOf(run.left) \in ChainedReviews
        BY <2>2, <1>01, FirstOfIsOne
      <4> QED
        BY <4>1, <2>2, <1>14, <1>01 DEF RecordHead
    <3>2. RunIsForward' /\ RunHoldsRecord'
      BY <2>0, <3>1 DEF RunIsForward, RunHoldsRecord
    <3>3. HeadRowsArePublished'
      <4> SUFFICES ASSUME NEW anchored \in headRows'
                   PROVE  \E i \in 1 .. Len(published) : published[i].heads[anchored[1]] = anchored[2]
        BY <2>0 DEF HeadRowsArePublished
      <4>1. PICK r \in ChainedReviews : headRows' = headRows \cup {<<r, run.heads[r]>>}
        BY <3>1
      <4>2. CASE anchored \in headRows
        BY <4>2 DEF PublicationsStand, HeadRowsArePublished
      <4>3. CASE anchored = <<r, run.heads[r]>>
        <5>1. PICK i \in 1 .. Len(published) : published[i] = run.record
          BY <2>0 DEF RunHoldsRecord
        <5>2. published[i].heads[anchored[1]] = anchored[2]
          BY <5>1, <4>3, <2>0 DEF RunHoldsRecord
        <5> QED
          BY <5>2
      <4> QED
        BY <4>1, <4>2, <4>3
    <3> QED
      BY <2>0, <3>2, <3>3 DEF PublicationsStand, PublicationsGrow, PublicationWasKept
  <2> QED
    BY <2>1, <2>2
<1>15. CASE CheckpointDies
  BY <1>15, <1>0, FreshRunIsForward, QuietRunKeepsPublications DEF CheckpointDies
<1>16. CASE UNCHANGED transparencyVars
  BY <1>16, QuietRunKeepsPublications DEF transparencyVars, RunIsForward, RunHoldsRecord, Latest
<1> QED
  BY <1>1, <1>2, <1>3, <1>4, <1>5, <1>6, <1>7, <1>8, <1>9, <1>10, <1>11, <1>12, <1>13,
     <1>14, <1>15, <1>16 DEF TransparencyNext, RunStep, TransparencyInv

LEMMA TransparencyInitially == TransparencyInit => TransparencyInv
<1> SUFFICES ASSUME TransparencyInit PROVE TransparencyInv
  OBVIOUS
<1> USE TransparencyAssumption DEF TransparencyInit
<1>1. NoHeads \in Heads /\ Upto(NoHeads, NoHeads)
  BY DEF NoHeads, Heads, Upto
<1>2. run.step = "idle" /\ run.heads = NoHeads /\ run.left = {} /\ published = <<>>
  BY DEF NoRun
<1>3. TransparencyTypeOK
  BY <1>1 DEF TransparencyTypeOK, NoRun, RunSteps
<1>4. RunIsForward /\ RunHoldsRecord
  BY <1>1, <1>2 DEF RunIsForward, RunHoldsRecord
<1>5. PublicationsStand
  BY DEF PublicationsStand, PublicationsGrow, PublicationWasKept, HeadRowsArePublished
<1> QED
  BY <1>3, <1>4, <1>5 DEF TransparencyInv

(* What runTransparencyCheckpoint has recorded was at the anchor, covers   *)
(* at least as much of every log as what was recorded before it, and       *)
(* stands behind every chain_head_anchor row, although runs die and the    *)
(* anchor loses calls and records at any point.                            *)
THEOREM PublicationsAlwaysStand == TransparencySpec => []PublicationsStand
<1>1. TransparencyInit => TransparencyInv
  BY TransparencyInitially
<1>2. TransparencyInv /\ [TransparencyNext]_transparencyVars => TransparencyInv'
  BY TransparencyTypeHolds, TransparencyStep DEF TransparencyInv
<1>3. TransparencyInv => PublicationsStand
  BY DEF TransparencyInv
<1> QED
  BY <1>1, <1>2, <1>3, PTL DEF TransparencySpec

-----------------------------------------------------------------------------
(* Retention and deletion.                                                 *)

AnyProof(d) == \E e \in proof : e.digest = d

(* Bytes come before their row, and an intent before the bytes go. *)
BytesBehindRows ==
  \A d \in Artifacts : (d \in refs \/ upload[d] = "row") /\ ~AnyProof(d) => d \in bytes
ErasersIntend ==
  \A s \in Sources :
    /\ eraser[s].step # "idle" => eraser[s].digest \in Artifacts
    /\ eraser[s].step \in {"remove", "confirm", "verify"} =>
         HasProof(eraser[s].digest, s, "unverified")

(* Evidence begins with its intent. *)
IntentsFirst == \A e \in proof : HasProof(e.digest, e.source, "unverified")

(* An expiry purges for a record that names the artifact and has ended. *)
NotPurgedEarly ==
  \A d \in Artifacts :
    HasProof(d, "exp", "unverified") /\ setBacks = 0 =>
      \E r \in recorded : EndOf[r] <= time /\ Names(r, d)

(* The pass works on jobs of recorded opt-ins, purges those that are due   *)
(* as it sees the time, and erases what they retain.                       *)
PassIsDue ==
  /\ setBacks = 0 => pass.now <= time
  /\ purges \in Seq(recorded) /\ pass.due \in Seq(recorded)
  /\ pass.step \in {"purge", "giveBack"} => pass.job \in recorded
  /\ pass.step = "purge" =>
       /\ DueAt(pass.job, pass.now)
       /\ \A i \in 1 .. Len(pass.left) : Names(pass.job, pass.left[i])
  /\ eraser["exp"].step # "idle" => pass.step = "purge" /\ Names(pass.job, eraser["exp"].digest)

RetentionInv ==
  RetentionTypeOK /\ BytesBehindRows /\ ErasersIntend /\ IntentsFirst /\ PassIsDue /\ NotPurgedEarly

PassType == [step : {"idle", "catchUp", "claim", "purge", "giveBack"}, now : 0 .. MaxTime,
             due : Seq(Records), job : Records \cup {"none"}, left : Seq(Artifacts)]
EraserType == [Sources -> [step : EraseSteps \cup {"idle"}, digest : Artifacts \cup {"none"}]]

LEMMA NoPassIsPass == NoPass \in PassType /\ NoPass.step = "idle" /\ NoPass.job = "none"
                      /\ NoPass.now = 0 /\ NoPass.due = <<>>
BY RetentionAssumption DEF NoPass, PassType

LEMMA NotErasingIsIdle ==
  NotErasing \in [step : EraseSteps \cup {"idle"}, digest : Artifacts \cup {"none"}]
  /\ NotErasing.step = "idle"
BY DEF NotErasing

LEMMA EraserStaysTyped ==
  ASSUME eraser \in EraserType, NEW s \in Sources
  PROVE  /\ \A step \in EraseSteps : [eraser EXCEPT ![s].step = step] \in EraserType
         /\ [eraser EXCEPT ![s] = NotErasing] \in EraserType
<1>1. ASSUME NEW step \in EraseSteps PROVE [eraser EXCEPT ![s].step = step] \in EraserType
  <2>1. [eraser[s] EXCEPT !.step = step] \in
          [step : EraseSteps \cup {"idle"}, digest : Artifacts \cup {"none"}]
    BY DEF EraserType
  <2>2. [eraser EXCEPT ![s].step = step] = [eraser EXCEPT ![s] = [eraser[s] EXCEPT !.step = step]]
    OBVIOUS
  <2> QED
    BY <2>1, <2>2 DEF EraserType
<1> QED
  BY <1>1, NotErasingIsIdle DEF EraserType

(* The due records of a pass, in some order. *)
LEMMA DueIsSeq ==
  ASSUME NEW S \in SUBSET Records, NEW due \in [1 .. Cardinality(S) -> S]
  PROVE  due \in Seq(S)
<1>1. Cardinality(S) \in Nat
  BY RetentionAssumption, FS_Subset, FS_CardinalityType
<1> QED
  BY <1>1, SeqDef

LEMMA RetentionTypeHolds ==
  ASSUME RetentionTypeOK, ErasersIntend, PassIsDue, [RetentionNext]_retentionVars
  PROVE  RetentionTypeOK'
<1> USE RetentionAssumption DEF RetentionTypeOK, stores, retentionQueue
<1>01. pass \in PassType
  BY DEF PassType
<1>02. eraser \in EraserType
  BY DEF EraserType
<1>1. CASE TimePasses
  BY <1>1 DEF TimePasses
<1>2. CASE ClockSetBack
  BY <1>2 DEF ClockSetBack
<1>3. ASSUME NEW r \in Records, OptIn(r) PROVE RetentionTypeOK'
  BY <1>3 DEF OptIn
<1>4. ASSUME NEW r \in Records, PurgeClaimAges(r) PROVE RetentionTypeOK'
  BY <1>4 DEF PurgeClaimAges
<1>5. ASSUME NEW d \in Artifacts, PutStep(d) PROVE RetentionTypeOK'
  BY <1>5 DEF PutStep, PutFindsNoRow, PutWritesBytes, PutInsertsRow
<1>6. ASSUME NEW d \in Artifacts, OperatorDelete(d) PROVE RetentionTypeOK'
  <2>1. eraser' \in EraserType
    BY <1>6, <1>02 DEF OperatorDelete, Erase, EraserType, EraseSteps, Sources
  <2> QED
    BY <2>1, <1>6 DEF OperatorDelete, EraserType
<1>7. CASE StartRetention
  <2> DEFINE S == {r \in recorded : DueAt(r, time)}
  <2>1. PICK due \in [1 .. Cardinality(S) -> S] :
          pass' = [NoPass EXCEPT !.step = "catchUp", !.now = time, !.due = due]
    BY <1>7 DEF StartRetention
  <2>2. S \in SUBSET Records
    OBVIOUS
  <2>3. due \in Seq(Records)
    <3> HIDE DEF S
    <3> QED
      BY <2>2, DueIsSeq, SeqMonotonic
  <2>4. pass' \in PassType /\ pass'.step = "catchUp" /\ pass'.job = "none"
    <3>1. pass' = [step |-> "catchUp", now |-> time, due |-> due, job |-> "none", left |-> <<>>]
      BY <2>1 DEF NoPass
    <3> QED
      BY <3>1, <2>3 DEF PassType
  <2>5. purgeClaim' \in [Records -> {"free", "held", "stale"}]
    BY <1>7 DEF StartRetention
  <2> QED
    BY <2>4, <2>5, <1>7 DEF StartRetention, PassType
<1>8. CASE CatchUp
  <2>1. CASE pass.due = <<>>
    <3>1. pass' \in PassType /\ pass'.step = "claim" /\ pass'.job = pass.job /\ pass.job = "none"
      BY <2>1, <1>8, <1>01 DEF CatchUp, PassType
    <3> QED
      BY <3>1, <2>1, <1>8 DEF CatchUp, PassType
  <2>2. CASE pass.due # <<>>
    <3>1. Head(pass.due) \in Records /\ Tail(pass.due) \in Seq(Records)
      BY <2>2
    <3>2. pass' = [pass EXCEPT !.due = Tail(pass.due)] /\ pass.step = "catchUp"
      BY <2>2, <1>8 DEF CatchUp
    <3>3. pass' \in PassType /\ pass'.step = "catchUp" /\ pass'.job = pass.job
      BY <3>1, <3>2, <1>01 DEF PassType
    <3>4. purges' \in Seq(Records) /\ purgeClaim' \in [Records -> {"free", "held", "stale"}]
      <4> DEFINE r == Head(pass.due)
      <4>1. \/ UNCHANGED <<purges, purgeClaim>>
            \/ purges' = Append(purges, r) /\ purgeClaim' = [purgeClaim EXCEPT ![r] = "free"]
        BY <2>2, <1>8 DEF CatchUp
      <4>2. r \in Records
        BY <3>1
      <4>3. purges \in Seq(Records) /\ purgeClaim \in [Records -> {"free", "held", "stale"}]
        OBVIOUS
      <4> HIDE DEF r, RetentionTypeOK
      <4>4. Append(purges, r) \in Seq(Records)
        BY <4>2, <4>3
      <4>5. [purgeClaim EXCEPT ![r] = "free"] \in [Records -> {"free", "held", "stale"}]
        BY <4>2, <4>3
      <4> QED
        BY <4>1, <4>3, <4>4, <4>5
    <3> QED
      BY <3>2, <3>3, <3>4, <1>8 DEF CatchUp, PassType
  <2> QED
    BY <2>1, <2>2
<1>9. CASE RetentionEnds
  BY <1>9, NoPassIsPass DEF RetentionEnds, PassType
<1>10. CASE ClaimPurge
  <2>1. Oldest(purges, Claimable) \in Records
    BY <1>10, OldestIsRow DEF ClaimPurge, Claimable
  <2>2. pass' \in PassType /\ pass'.step = "purge" /\ pass'.job \in Records
    BY <2>1, <1>10, <1>01 DEF ClaimPurge, PassType
  <2>3. purgeClaim' \in [Records -> {"free", "held", "stale"}]
    BY <1>10 DEF ClaimPurge
  <2> QED
    BY <2>2, <2>3, <1>10 DEF ClaimPurge, PassType
<1>11. CASE ClaimNotDue
  <2>1. Oldest(purges, Claimable) \in Records
    BY <1>11, OldestIsRow DEF ClaimNotDue, Claimable
  <2>2. pass' \in PassType /\ pass'.step = "giveBack" /\ pass'.job \in Records
    BY <2>1, <1>11, <1>01 DEF ClaimNotDue, PassType
  <2>3. purgeClaim' \in [Records -> {"free", "held", "stale"}]
    BY <1>11 DEF ClaimNotDue
  <2> QED
    BY <2>2, <2>3, <1>11 DEF ClaimNotDue, PassType
<1>12. CASE GiveBack
  <2>2. pass' \in PassType /\ pass'.step = "claim" /\ pass'.job = "none"
    BY <1>12, <1>01 DEF GiveBack, PassType
  <2> QED
    BY <2>2, <1>12 DEF GiveBack, PassType
<1>13. CASE PurgeNext
  <2>1. Head(pass.left) \in Artifacts /\ Tail(pass.left) \in Seq(Artifacts)
    BY <1>13 DEF PurgeNext
  <2>2. pass' \in PassType /\ pass'.step = "purge" /\ pass'.job = pass.job
    BY <2>1, <1>13, <1>01 DEF PurgeNext, PassType
  <2>3. eraser' \in EraserType
    BY <2>1, <1>13, <1>02 DEF PurgeNext, Erase, EraserType, EraseSteps, Sources
  <2> QED
    BY <2>2, <2>3, <1>13 DEF PurgeNext, PassType, EraserType
<1>14. CASE CompletePurge
  <2>1. pass' \in PassType /\ pass'.step = "claim" /\ pass'.job = "none"
    BY <1>14, <1>01 DEF CompletePurge, PassType
  <2>3. purges' \in Seq(Records)
    BY <1>14, WithoutRow DEF CompletePurge
  <2> QED
    BY <2>1, <2>3, <1>14 DEF CompletePurge, PassType
<1>15. ASSUME NEW s \in Sources, EraseStep(s) PROVE RetentionTypeOK'
  <2>0. eraser[s].step # "idle" /\ eraser[s].digest \in Artifacts
    BY <1>15 DEF EraseStep, EraseIntends, EraseRemoves, EraseConfirms, EraseVerifies, ErasersIntend
  <2>1. eraser' \in EraserType
    <3>1. \/ \E step \in EraseSteps : eraser' = [eraser EXCEPT ![s].step = step]
          \/ eraser' = [eraser EXCEPT ![s] = NotErasing]
      <4>1. CASE EraseIntends(s)
        BY <4>1 DEF EraseIntends, EraseTo, EraseSteps
      <4>2. CASE EraseRemoves(s)
        BY <4>2 DEF EraseRemoves, EraseTo, EraseSteps
      <4>3. CASE EraseConfirms(s)
        BY <4>3 DEF EraseConfirms, EraseTo, EraseSteps
      <4>4. CASE EraseVerifies(s)
        BY <4>4 DEF EraseVerifies
      <4> QED
        BY <4>1, <4>2, <4>3, <4>4, <1>15 DEF EraseStep
    <3> QED
      <4>1. /\ \A step \in EraseSteps : [eraser EXCEPT ![s].step = step] \in EraserType
            /\ [eraser EXCEPT ![s] = NotErasing] \in EraserType
        BY <1>02, EraserStaysTyped
      <4> HIDE DEF RetentionTypeOK
      <4> QED
        BY <3>1, <4>1, Zenon
  <2>2. proof' \subseteq
          [digest : Artifacts, source : Sources, status : {"unverified", "verified"}]
    BY <2>0, <1>15 DEF EraseStep, EraseIntends, EraseRemoves, EraseConfirms, EraseVerifies, Evidence
  <2>3. bytes' \subseteq Artifacts
    BY <1>15 DEF EraseStep, EraseIntends, EraseRemoves, EraseConfirms, EraseVerifies
  <2> QED
    BY <2>1, <2>2, <2>3, <1>15 DEF EraseStep, EraseIntends, EraseRemoves, EraseConfirms,
         EraseVerifies, EraserType
<1>16. CASE PurgeThrows
  <2>1. eraser' \in EraserType
    BY <1>16, <1>02, NotErasingIsIdle DEF PurgeThrows, EraserType, Sources
  <2>2. purgeClaim' \in [Records -> {"free", "held", "stale"}]
    BY <1>16 DEF PurgeThrows
  <2> QED
    BY <2>1, <2>2, <1>16, NoPassIsPass DEF PurgeThrows, PassType, EraserType
<1>17. CASE RetentionDies
  <2>1. eraser' \in EraserType
    BY <1>17, <1>02, NotErasingIsIdle DEF RetentionDies, EraserType, Sources
  <2> QED
    BY <2>1, <1>17, NoPassIsPass DEF RetentionDies, PassType, EraserType
<1>18. CASE OperatorDies
  <2>1. eraser' \in EraserType
    BY <1>18, <1>02, NotErasingIsIdle DEF OperatorDies, EraserType, Sources
  <2> QED
    BY <2>1, <1>18 DEF OperatorDies, EraserType
<1>19. ASSUME NEW d \in Artifacts, PutDies(d) PROVE RetentionTypeOK'
  BY <1>19 DEF PutDies
<1>20. CASE UNCHANGED retentionVars
  BY <1>20 DEF retentionVars
<1> QED
  BY <1>1, <1>2, <1>3, <1>4, <1>5, <1>6, <1>7, <1>8, <1>9, <1>10, <1>11, <1>12, <1>13, <1>14,
     <1>15, <1>16, <1>17, <1>18, <1>19, <1>20 DEF RetentionNext, PassStep, Mishap, Sources

-----------------------------------------------------------------------------
(* Every step keeps the evidence, adds rows only behind bytes and takes    *)
(* bytes only behind evidence.                                             *)
BytesMove ==
  /\ proof \subseteq proof'
  /\ \A d \in Artifacts :
       /\ d \in refs' \/ upload'[d] = "row" => d \in refs \/ upload[d] = "row" \/ d \in bytes'
       /\ d \in bytes /\ d \notin bytes' => AnyProof(d)

LEMMA BytesStep ==
  ASSUME RetentionInv, [RetentionNext]_retentionVars
  PROVE  BytesBehindRows'
<1> USE DEF RetentionInv, stores, retentionQueue
<1>1. ASSUME NEW d \in Artifacts, PutStep(d) \/ PutDies(d) PROVE BytesMove
  <2>1. upload \in [Artifacts -> {"idle", "bytes", "row"}]
    BY DEF RetentionTypeOK
  <2>2. UNCHANGED proof /\ bytes \subseteq bytes'
    BY <1>1 DEF PutStep, PutFindsNoRow, PutWritesBytes, PutInsertsRow, PutDies
  <2>3. \A x \in Artifacts : x # d => upload'[x] = upload[x] /\ (x \in refs' <=> x \in refs)
    BY <2>1, <1>1 DEF PutStep, PutFindsNoRow, PutWritesBytes, PutInsertsRow, PutDies
  <2>4. d \in refs' \/ upload'[d] = "row" => d \in refs \/ upload[d] = "row" \/ d \in bytes'
    BY <2>1, <1>1 DEF PutStep, PutFindsNoRow, PutWritesBytes, PutInsertsRow, PutDies
  <2> QED
    BY <2>2, <2>3, <2>4 DEF BytesMove
<1>2. ASSUME NEW s \in Sources, EraseStep(s) PROVE BytesMove
  <2>1. ASSUME EraseRemoves(s) PROVE BytesMove
    <3>1. Evidence(eraser[s].digest, s, "unverified") \in proof
      BY <2>1 DEF EraseRemoves, ErasersIntend, HasProof
    <3>2. AnyProof(eraser[s].digest)
      BY <3>1 DEF AnyProof, Evidence
    <3> QED
      BY <2>1, <3>2 DEF EraseRemoves, BytesMove
  <2> QED
    BY <2>1, <1>2 DEF EraseStep, EraseIntends, EraseConfirms, EraseVerifies, BytesMove
<1>3. ASSUME UNCHANGED <<proof, refs, upload, bytes>> PROVE BytesMove
  BY <1>3 DEF BytesMove
<1>4. ASSUME
           \/ TimePasses \/ ClockSetBack \/ StartRetention \/ CatchUp \/ RetentionEnds \/ ClaimPurge
           \/ ClaimNotDue \/ GiveBack \/ PurgeNext \/ CompletePurge \/ PurgeThrows \/ RetentionDies
           \/ OperatorDies \/ UNCHANGED retentionVars
      PROVE BytesMove
  BY <1>3, <1>4 DEF TimePasses, ClockSetBack, StartRetention, CatchUp, RetentionEnds, ClaimPurge,
       ClaimNotDue, GiveBack, PurgeNext, CompletePurge, PurgeThrows, RetentionDies, OperatorDies,
       retentionVars
<1>5. ASSUME NEW r \in Records, OptIn(r) \/ PurgeClaimAges(r) PROVE BytesMove
  BY <1>3, <1>5 DEF OptIn, PurgeClaimAges
<1>6. ASSUME NEW d \in Artifacts, OperatorDelete(d) PROVE BytesMove
  BY <1>3, <1>6 DEF OperatorDelete
<1>7. BytesMove
  <2> HIDE DEF RetentionInv
  <2> QED
    BY <1>1, <1>2, <1>4, <1>5, <1>6 DEF RetentionNext, PassStep, Mishap, Sources
<1> QED
  BY <1>7 DEF BytesMove, BytesBehindRows, AnyProof

(* One delete moves on and the other does not. *)
LEMMA OneEraserMoves ==
  ASSUME RetentionInv, NEW s \in Sources, EraseStep(s)
  PROVE  /\ \A x \in Sources : x # s => eraser'[x] = eraser[x]
         /\ eraser[s].step # "idle"
         /\ \/ eraser'[s].step = "idle"
            \/ /\ eraser'[s].digest = eraser[s].digest
               /\ eraser'[s].step \in {"remove", "confirm", "verify"}
               /\ \/ eraser[s].step = "intend" /\ HasProof(eraser[s].digest, s, "unverified")'
                  \/ eraser[s].step \in {"remove", "confirm"}
         /\ proof \subseteq proof'
<1>0. eraser \in EraserType
  BY DEF RetentionInv, RetentionTypeOK, EraserType
<1>1. CASE EraseIntends(s)
  <2>1. eraser' = [eraser EXCEPT ![s].step = "remove"] /\ eraser[s].step = "intend"
        /\ proof' = proof \cup {Evidence(eraser[s].digest, s, "unverified")}
    BY <1>1 DEF EraseIntends, EraseTo
  <2>2. eraser'[s].digest = eraser[s].digest /\ eraser'[s].step = "remove"
    BY <2>1, <1>0 DEF EraserType
  <2> QED
    BY <2>1, <2>2, <1>0 DEF EraserType, HasProof
<1>2. CASE EraseRemoves(s)
  <2>1. eraser' = [eraser EXCEPT ![s].step = "confirm"] /\ eraser[s].step = "remove" /\ proof' = proof
    BY <1>2 DEF EraseRemoves, EraseTo
  <2>2. eraser'[s].digest = eraser[s].digest /\ eraser'[s].step = "confirm"
    BY <2>1, <1>0 DEF EraserType
  <2> QED
    BY <2>1, <2>2, <1>0 DEF EraserType
<1>3. CASE EraseConfirms(s)
  <2>0. eraser[s].step = "confirm" /\ proof' = proof
    BY <1>3 DEF EraseConfirms, stores
  <2>1. CASE eraser' = [eraser EXCEPT ![s].step = "verify"]
    <3>2. eraser'[s].digest = eraser[s].digest /\ eraser'[s].step = "verify"
      BY <2>1, <1>0 DEF EraserType
    <3> QED
      BY <2>0, <2>1, <3>2, <1>0 DEF EraserType
  <2>2. CASE eraser' = [eraser EXCEPT ![s] = NotErasing]
    BY <2>0, <2>2, <1>0, NotErasingIsIdle DEF EraserType
  <2> QED
    BY <2>1, <2>2, <1>3 DEF EraseConfirms, EraseTo
<1>4. CASE EraseVerifies(s)
  BY <1>4, <1>0, NotErasingIsIdle DEF EraseVerifies, EraserType
<1> QED
  BY <1>1, <1>2, <1>3, <1>4 DEF EraseStep

LEMMA ErasersStep ==
  ASSUME RetentionInv, [RetentionNext]_retentionVars
  PROVE  ErasersIntend'
<1> USE DEF RetentionInv, stores, retentionQueue
<1>0. eraser \in EraserType
  BY DEF RetentionTypeOK, EraserType
<1>1. ASSUME NEW s \in Sources, EraseStep(s) PROVE ErasersIntend'
  <2>1. /\ \A x \in Sources : x # s => eraser'[x] = eraser[x]
        /\ eraser[s].step # "idle"
        /\ \/ eraser'[s].step = "idle"
           \/ /\ eraser'[s].digest = eraser[s].digest
              /\ eraser'[s].step \in {"remove", "confirm", "verify"}
              /\ \/ eraser[s].step = "intend" /\ HasProof(eraser[s].digest, s, "unverified")'
                 \/ eraser[s].step \in {"remove", "confirm"}
        /\ proof \subseteq proof'
    BY <1>1, OneEraserMoves
  <2> QED
    BY <2>1 DEF ErasersIntend, HasProof
<1>2. ASSUME NEW d \in Artifacts, NEW s \in Sources, Erase(s, d), UNCHANGED proof
      PROVE  ErasersIntend'
  <2>1. eraser'[s].step = "intend" /\ eraser'[s].digest = d
        /\ \A x \in Sources : x # s => eraser'[x] = eraser[x]
    BY <1>0, <1>2 DEF Erase, EraserType
  <2> QED
    BY <2>1, <1>2 DEF ErasersIntend, HasProof
<1>3. ASSUME NEW s \in Sources, eraser' = [eraser EXCEPT ![s] = NotErasing], UNCHANGED proof
      PROVE  ErasersIntend'
  <2>1. eraser'[s].step = "idle" /\ \A x \in Sources : x # s => eraser'[x] = eraser[x]
    BY <1>0, <1>3, NotErasingIsIdle DEF EraserType
  <2> QED
    BY <2>1, <1>3 DEF ErasersIntend, HasProof
<1>4. CASE UNCHANGED <<proof, eraser>>
  BY <1>4 DEF ErasersIntend, HasProof
<1>5. CASE PurgeNext
  <2>1. Head(pass.left) \in Artifacts
    BY <1>5 DEF PurgeNext, RetentionTypeOK
  <2> QED
    BY <2>1, <1>2, <1>5 DEF PurgeNext, Sources
<1>6. CASE \/ TimePasses \/ ClockSetBack \/ StartRetention \/ CatchUp \/ RetentionEnds \/ ClaimPurge
           \/ ClaimNotDue \/ GiveBack \/ CompletePurge \/ UNCHANGED retentionVars
  BY <1>4, <1>6 DEF TimePasses, ClockSetBack, StartRetention, CatchUp, RetentionEnds, ClaimPurge,
       ClaimNotDue, GiveBack, CompletePurge, retentionVars
<1>7. CASE PurgeThrows \/ RetentionDies \/ OperatorDies
  BY <1>3, <1>7 DEF PurgeThrows, RetentionDies, OperatorDies, Sources
<1>8. ASSUME NEW r \in Records, OptIn(r) \/ PurgeClaimAges(r) PROVE ErasersIntend'
  BY <1>4, <1>8 DEF OptIn, PurgeClaimAges
<1>9. ASSUME NEW d \in Artifacts, PutStep(d) \/ PutDies(d) PROVE ErasersIntend'
  BY <1>4, <1>9 DEF PutStep, PutFindsNoRow, PutWritesBytes, PutInsertsRow, PutDies
<1>10. ASSUME NEW d \in Artifacts, OperatorDelete(d) PROVE ErasersIntend'
  BY <1>2, <1>10 DEF OperatorDelete, Sources
<1> HIDE DEF RetentionInv
<1> QED
  BY <1>1, <1>5, <1>6, <1>7, <1>8, <1>9, <1>10 DEF RetentionNext, PassStep, Mishap, Sources

LEMMA IntentsStep ==
  ASSUME RetentionInv, [RetentionNext]_retentionVars
  PROVE  IntentsFirst'
<1> USE DEF stores, retentionQueue
<1>1. ASSUME UNCHANGED proof PROVE IntentsFirst'
  BY <1>1 DEF RetentionInv, IntentsFirst, HasProof
<1>2. ASSUME NEW s \in Sources, EraseStep(s) PROVE IntentsFirst'
  <2>1. CASE EraseRemoves(s) \/ EraseConfirms(s)
    BY <2>1, <1>1 DEF EraseRemoves, EraseConfirms
  <2>a. ASSUME NEW status, Evidence(eraser[s].digest, s, "unverified") \in proof',
               proof' = proof \cup {Evidence(eraser[s].digest, s, status)}
        PROVE  IntentsFirst'
    <3> SUFFICES ASSUME NEW e \in proof' PROVE Evidence(e.digest, e.source, "unverified") \in proof'
      BY DEF IntentsFirst, HasProof
    <3>1. CASE e \in proof
      BY <3>1, <2>a DEF RetentionInv, IntentsFirst, HasProof
    <3>2. CASE e \notin proof
      <4>1. e.digest = eraser[s].digest /\ e.source = s
        BY <3>2, <2>a DEF Evidence
      <4> QED
        BY <4>1, <2>a
    <3> QED
      BY <3>1, <3>2
  <2>2. CASE EraseIntends(s)
    BY <2>2, <2>a DEF EraseIntends, HasProof
  <2>3. CASE EraseVerifies(s)
    <3>1. HasProof(eraser[s].digest, s, "unverified")
      BY <2>3 DEF EraseVerifies, RetentionInv, ErasersIntend
    <3> QED
      BY <2>3, <3>1, <2>a DEF EraseVerifies, HasProof
  <2> QED
    BY <2>1, <2>2, <2>3, <1>2 DEF EraseStep
<1>3. CASE \/ TimePasses \/ ClockSetBack \/ StartRetention \/ CatchUp \/ RetentionEnds \/ ClaimPurge
           \/ ClaimNotDue \/ GiveBack \/ PurgeNext \/ CompletePurge \/ PurgeThrows \/ RetentionDies
           \/ OperatorDies \/ UNCHANGED retentionVars
  BY <1>1, <1>3 DEF TimePasses, ClockSetBack, StartRetention, CatchUp, RetentionEnds, ClaimPurge,
       ClaimNotDue, GiveBack, PurgeNext, CompletePurge, PurgeThrows, RetentionDies, OperatorDies,
       retentionVars
<1>4. ASSUME NEW r \in Records, OptIn(r) \/ PurgeClaimAges(r) PROVE IntentsFirst'
  BY <1>1, <1>4 DEF OptIn, PurgeClaimAges
<1>5. ASSUME NEW d \in Artifacts, OperatorDelete(d) \/ PutStep(d) \/ PutDies(d) PROVE IntentsFirst'
  BY <1>1, <1>5 DEF OperatorDelete, PutStep, PutFindsNoRow, PutWritesBytes, PutInsertsRow, PutDies
<1> QED
  BY <1>2, <1>3, <1>4, <1>5 DEF RetentionNext, PassStep, Mishap, Sources

-----------------------------------------------------------------------------
(* A step outside of the pass. *)
LEMMA PassLeftAlone ==
  ASSUME RetentionInv, UNCHANGED <<purges, pass>>, recorded \subseteq recorded',
         setBacks' = 0 => setBacks = 0 /\ time <= time',
         time' \in Nat,
         eraser'["exp"].step # "idle" =>
           eraser["exp"].step # "idle" /\ eraser'["exp"].digest = eraser["exp"].digest
  PROVE  PassIsDue'
<1>1. purges \in Seq(recorded') /\ pass.due \in Seq(recorded')
  BY SeqMonotonic DEF RetentionInv, PassIsDue
<1>2. pass.now \in Nat /\ time \in Nat
  BY RetentionAssumption DEF RetentionInv, RetentionTypeOK
<1> QED
  BY <1>1, <1>2 DEF RetentionInv, PassIsDue, DueAt, Names

(* A pass that is over. *)
LEMMA PassOver ==
  ASSUME RetentionInv, pass' = NoPass, UNCHANGED <<purges, recorded, time, setBacks>>,
         eraser'["exp"].step = "idle"
  PROVE  PassIsDue'
<1>1. pass'.step = "idle" /\ pass'.now = 0 /\ pass'.due = <<>>
  BY NoPassIsPass
<1>2. time \in Nat
  BY RetentionAssumption DEF RetentionInv, RetentionTypeOK
<1> QED
  BY <1>1, <1>2 DEF RetentionInv, PassIsDue

LEMMA PassDueStep ==
  ASSUME RetentionInv, [RetentionNext]_retentionVars, RetentionTypeOK'
  PROVE  PassIsDue'
<1> USE DEF stores, retentionQueue
<1>0. /\ pass \in PassType /\ eraser \in EraserType /\ recorded \subseteq Records
      /\ time \in Nat /\ time' \in Nat /\ setBacks \in Nat /\ pass.now \in Nat
  BY RetentionAssumption DEF RetentionInv, RetentionTypeOK, PassType, EraserType
<1>01. /\ purges \in Seq(recorded) /\ pass.due \in Seq(recorded)
       /\ setBacks = 0 => pass.now <= time
  BY DEF RetentionInv, PassIsDue
<1>1. CASE TimePasses
  BY <1>0, <1>1, PassLeftAlone DEF TimePasses
<1>2. CASE ClockSetBack
  BY <1>0, <1>2, PassLeftAlone DEF ClockSetBack
<1>3. ASSUME NEW r \in Records, OptIn(r) \/ PurgeClaimAges(r) PROVE PassIsDue'
  BY <1>0, <1>3, PassLeftAlone DEF OptIn, PurgeClaimAges
<1>4. ASSUME NEW d \in Artifacts, PutStep(d) \/ PutDies(d) PROVE PassIsDue'
  BY <1>0, <1>4, PassLeftAlone DEF PutStep, PutFindsNoRow, PutWritesBytes, PutInsertsRow, PutDies
<1>5. ASSUME NEW d \in Artifacts, OperatorDelete(d) PROVE PassIsDue'
  <2>1. eraser'["exp"] = eraser["exp"]
    BY <1>0, <1>5 DEF OperatorDelete, Erase, EraserType, Sources
  <2> QED
    BY <2>1, <1>0, <1>5, PassLeftAlone DEF OperatorDelete
<1>6. CASE OperatorDies
  <2>1. eraser'["exp"] = eraser["exp"]
    BY <1>0, <1>6 DEF OperatorDies, EraserType, Sources
  <2> QED
    BY <2>1, <1>0, <1>6, PassLeftAlone DEF OperatorDies
<1>7. ASSUME NEW s \in Sources, EraseStep(s) PROVE PassIsDue'
  <2>1. UNCHANGED <<time, setBacks, recorded, purges, pass>>
    BY <1>7 DEF EraseStep, EraseIntends, EraseRemoves, EraseConfirms, EraseVerifies
  <2>2. eraser'["exp"].step # "idle" =>
           eraser["exp"].step # "idle" /\ eraser'["exp"].digest = eraser["exp"].digest
    BY <1>7, OneEraserMoves DEF Sources
  <2> QED
    BY <2>1, <2>2, <1>0, PassLeftAlone
<1>8. CASE StartRetention
  <2> DEFINE S == {r \in recorded : DueAt(r, time)}
  <2>1. PICK due \in [1 .. Cardinality(S) -> S] :
          pass' = [NoPass EXCEPT !.step = "catchUp", !.now = time, !.due = due]
    BY <1>8 DEF StartRetention
  <2>2. S \in SUBSET Records /\ S \subseteq recorded
    BY <1>0
  <2>3. due \in Seq(recorded)
    <3> HIDE DEF S
    <3> QED
      BY <2>2, DueIsSeq, SeqMonotonic
  <2>4. pass'.step = "catchUp" /\ pass'.now = time /\ pass'.due = due
    BY <2>1 DEF NoPass
  <2>5. UNCHANGED <<time, setBacks, recorded, purges, eraser>> /\ pass.step = "idle"
    BY <1>8 DEF StartRetention
  <2>6. eraser["exp"].step = "idle"
    BY <2>5 DEF RetentionInv, PassIsDue
  <2> QED
    BY <2>3, <2>4, <2>5, <2>6, <1>0, <1>01 DEF PassIsDue
<1>9. CASE CatchUp
  <2>1. UNCHANGED <<time, setBacks, recorded, eraser>> /\ pass.step = "catchUp"
        /\ eraser["exp"].step = "idle"
    BY <1>9 DEF CatchUp, RetentionInv, PassIsDue
  <2>2. CASE pass.due = <<>>
    <3>1. pass'.step = "claim" /\ pass'.now = pass.now /\ pass'.due = pass.due /\ purges' = purges
      BY <2>2, <1>9, <1>0 DEF CatchUp, PassType
    <3> QED
      BY <2>1, <3>1, <1>01 DEF PassIsDue
  <2>3. CASE pass.due # <<>>
    <3>1. Head(pass.due) \in recorded /\ Tail(pass.due) \in Seq(recorded)
      BY <2>3, <1>01
    <3>2. pass' = [pass EXCEPT !.due = Tail(pass.due)]
      BY <2>3, <1>9 DEF CatchUp
    <3>3. pass'.step = "catchUp" /\ pass'.now = pass.now /\ pass'.due = Tail(pass.due)
      BY <3>2, <2>1, <1>0 DEF PassType
    <3>4. purges' = purges \/ purges' = Append(purges, Head(pass.due))
      BY <2>3, <1>9 DEF CatchUp
    <3>5. purges' \in Seq(recorded)
      <4>1. Append(purges, Head(pass.due)) \in Seq(recorded)
        BY <3>1, <1>01
      <4> QED
        BY <4>1, <3>4, <1>01
    <3> QED
      BY <2>1, <3>1, <3>3, <3>5, <1>01 DEF PassIsDue
  <2> QED
    BY <2>2, <2>3
<1>10. CASE RetentionEnds
  <2>1. eraser'["exp"].step = "idle"
    BY <1>10 DEF RetentionEnds, RetentionInv, PassIsDue
  <2> QED
    BY <2>1, <1>10, PassOver DEF RetentionEnds
<1>11. CASE ClaimPurge
  <2> DEFINE r == Oldest(purges, Claimable)
  <2>1. r \in recorded
    BY <1>11, <1>01, OldestIsRow DEF ClaimPurge, Claimable
  <2> HIDE DEF r
  <2>2. /\ UNCHANGED <<time, setBacks, recorded, purges, eraser>> /\ pass.step = "claim"
        /\ DueAt(r, pass.now)
        /\ pass' = [pass EXCEPT !.step = "purge", !.job = r, !.left = RetainedBy[r]]
    BY <1>11 DEF ClaimPurge, r
  <2>3. /\ pass'.step = "purge" /\ pass'.job = r /\ pass'.left = RetainedBy[r]
        /\ pass'.now = pass.now /\ pass'.due = pass.due
    BY <2>2, <1>0 DEF PassType
  <2>4. \A i \in 1 .. Len(RetainedBy[r]) : Names(r, RetainedBy[r][i])
    BY DEF Names
  <2>5. eraser["exp"].step = "idle"
    BY <2>2 DEF RetentionInv, PassIsDue
  <2> QED
    BY <2>1, <2>2, <2>3, <2>4, <2>5, <1>01 DEF PassIsDue, DueAt, Names
<1>12. CASE ClaimNotDue
  <2> DEFINE r == Oldest(purges, Claimable)
  <2>1. r \in recorded
    BY <1>12, <1>01, OldestIsRow DEF ClaimNotDue, Claimable
  <2> HIDE DEF r
  <2>2. /\ UNCHANGED <<time, setBacks, recorded, purges, eraser>> /\ pass.step = "claim"
        /\ pass' = [pass EXCEPT !.step = "giveBack", !.job = r]
    BY <1>12 DEF ClaimNotDue, r
  <2>3. /\ pass'.step = "giveBack" /\ pass'.job = r
        /\ pass'.now = pass.now /\ pass'.due = pass.due
    BY <2>2, <1>0 DEF PassType
  <2>5. eraser["exp"].step = "idle"
    BY <2>2 DEF RetentionInv, PassIsDue
  <2> QED
    BY <2>1, <2>2, <2>3, <2>5, <1>01 DEF PassIsDue
<1>13. CASE GiveBack
  <2>1. /\ UNCHANGED <<time, setBacks, recorded, purges, eraser>> /\ pass.step = "giveBack"
        /\ pass'.step = "claim" /\ pass'.now = pass.now /\ pass'.due = pass.due
    BY <1>13, <1>0 DEF GiveBack, PassType
  <2>5. eraser["exp"].step = "idle"
    BY <2>1 DEF RetentionInv, PassIsDue
  <2> QED
    BY <2>1, <2>5, <1>01 DEF PassIsDue
<1>14. CASE PurgeNext
  <2>1. /\ UNCHANGED <<time, setBacks, recorded, purges>> /\ pass.step = "purge" /\ pass.left # <<>>
        /\ pass' = [pass EXCEPT !.left = Tail(pass.left)]
        /\ eraser' = [eraser EXCEPT !["exp"] = [step |-> "intend", digest |-> Head(pass.left)]]
    BY <1>14 DEF PurgeNext, Erase
  <2>2. /\ pass'.step = "purge" /\ pass'.now = pass.now /\ pass'.due = pass.due
        /\ pass'.job = pass.job /\ pass'.left = Tail(pass.left)
    BY <2>1, <1>0 DEF PassType
  <2>3. eraser'["exp"].digest = Head(pass.left)
    BY <2>1, <1>0 DEF EraserType, Sources
  <2>4. /\ \A i \in 1 .. Len(pass.left) : Names(pass.job, pass.left[i])
        /\ pass.job \in recorded /\ DueAt(pass.job, pass.now)
    BY <2>1 DEF RetentionInv, PassIsDue
  <2>5. pass.left \in Seq(Artifacts)
    BY <1>0 DEF PassType
  <2>6. Names(pass.job, Head(pass.left))
    <3>1. 1 \in 1 .. Len(pass.left) /\ Head(pass.left) = pass.left[1]
      BY <2>1, <2>5
    <3> QED
      BY <2>4, <3>1
  <2>7. \A i \in 1 .. Len(Tail(pass.left)) : Names(pass.job, Tail(pass.left)[i])
    <3>1. \A i \in 1 .. Len(Tail(pass.left)) :
            Tail(pass.left)[i] = pass.left[i + 1] /\ i + 1 \in 1 .. Len(pass.left)
      BY <2>1, <2>5
    <3> QED
      BY <2>4, <3>1
  <2> QED
    BY <2>1, <2>2, <2>3, <2>4, <2>6, <2>7, <1>01 DEF PassIsDue, DueAt, Names
<1>15. CASE CompletePurge
  <2>1. /\ UNCHANGED <<time, setBacks, recorded, eraser>> /\ pass.step = "purge"
        /\ eraser["exp"].step = "idle"
        /\ pass'.step = "claim" /\ pass'.now = pass.now /\ pass'.due = pass.due
    BY <1>15, <1>0 DEF CompletePurge, PassType
  <2>4. purges' \in Seq(recorded)
    BY <1>15, <1>01, WithoutRow DEF CompletePurge
  <2> QED
    BY <2>1, <2>4, <1>01 DEF PassIsDue
<1>16. CASE PurgeThrows
  <2>1. eraser'["exp"].step = "idle"
    BY <1>16, <1>0, NotErasingIsIdle DEF PurgeThrows, EraserType, Sources
  <2> QED
    BY <2>1, <1>16, PassOver DEF PurgeThrows
<1>17. CASE RetentionDies
  <2>1. eraser'["exp"].step = "idle"
    BY <1>17, <1>0, NotErasingIsIdle DEF RetentionDies, EraserType, Sources
  <2> QED
    BY <2>1, <1>17, PassOver DEF RetentionDies
<1>18. CASE UNCHANGED retentionVars
  BY <1>0, <1>18, PassLeftAlone DEF retentionVars
<1> QED
  BY <1>1, <1>2, <1>3, <1>4, <1>5, <1>6, <1>7, <1>8, <1>9, <1>10, <1>11, <1>12, <1>13, <1>14,
     <1>15, <1>16, <1>17, <1>18 DEF RetentionNext, PassStep, Mishap, Sources

(* The first evidence of an expiry is written by the pass, of a digest its *)
(* job retains; records stay and time moves on while the clock is not set  *)
(* back.                                                                   *)
PurgeMove ==
  /\ recorded \subseteq recorded'
  /\ setBacks' = 0 => setBacks = 0 /\ time <= time'
  /\ \A d \in Artifacts :
       HasProof(d, "exp", "unverified")' /\ ~HasProof(d, "exp", "unverified") =>
         /\ eraser["exp"].step = "intend" /\ eraser["exp"].digest = d
         /\ UNCHANGED time

LEMMA PurgeMoves ==
  ASSUME RetentionInv, [RetentionNext]_retentionVars
  PROVE  PurgeMove
<1> USE DEF stores, retentionQueue
<1>0. time \in Nat /\ setBacks \in Nat
  BY RetentionAssumption DEF RetentionInv, RetentionTypeOK
<1>1. ASSUME UNCHANGED <<proof, time, setBacks>>, recorded \subseteq recorded' PROVE PurgeMove
  BY <1>0, <1>1 DEF PurgeMove, HasProof
<1>2. CASE TimePasses \/ ClockSetBack
  BY <1>0, <1>2 DEF TimePasses, ClockSetBack, PurgeMove, HasProof
<1>3. ASSUME NEW s \in Sources, EraseStep(s) PROVE PurgeMove
  <2>1. CASE EraseRemoves(s) \/ EraseConfirms(s)
    BY <2>1, <1>1 DEF EraseRemoves, EraseConfirms
  <2>2. CASE EraseIntends(s)
    BY <2>2, <1>0 DEF EraseIntends, PurgeMove, HasProof, Evidence
  <2>3. CASE EraseVerifies(s)
    BY <2>3, <1>0 DEF EraseVerifies, PurgeMove, HasProof, Evidence
  <2> QED
    BY <2>1, <2>2, <2>3, <1>3 DEF EraseStep
<1>4. CASE \/ StartRetention \/ CatchUp \/ RetentionEnds \/ ClaimPurge
           \/ ClaimNotDue \/ GiveBack \/ PurgeNext \/ CompletePurge \/ PurgeThrows \/ RetentionDies
           \/ OperatorDies \/ UNCHANGED retentionVars
  BY <1>1, <1>4 DEF StartRetention, CatchUp, RetentionEnds, ClaimPurge,
       ClaimNotDue, GiveBack, PurgeNext, CompletePurge, PurgeThrows, RetentionDies, OperatorDies,
       retentionVars
<1>5. ASSUME NEW r \in Records, OptIn(r) \/ PurgeClaimAges(r) PROVE PurgeMove
  BY <1>1, <1>5 DEF OptIn, PurgeClaimAges
<1>6. ASSUME NEW d \in Artifacts, OperatorDelete(d) \/ PutStep(d) \/ PutDies(d) PROVE PurgeMove
  BY <1>1, <1>6 DEF OperatorDelete, PutStep, PutFindsNoRow, PutWritesBytes, PutInsertsRow, PutDies
<1> QED
  BY <1>2, <1>3, <1>4, <1>5, <1>6 DEF RetentionNext, PassStep, Mishap, Sources

LEMMA NotEarlyStep ==
  ASSUME RetentionInv, [RetentionNext]_retentionVars, RetentionTypeOK'
  PROVE  NotPurgedEarly'
<1> SUFFICES ASSUME NEW d \in Artifacts, HasProof(d, "exp", "unverified")', setBacks' = 0
             PROVE  \E r \in recorded' : EndOf[r] <= time' /\ Names(r, d)
  BY DEF NotPurgedEarly, Names
<1>1. PurgeMove
  BY PurgeMoves
<1>2. /\ time \in Nat /\ time' \in Nat /\ setBacks = 0 /\ time <= time'
      /\ recorded \subseteq Records /\ recorded \subseteq recorded' /\ EndOf \in [Records -> Nat]
      /\ pass.now \in Nat
  BY <1>1, RetentionAssumption DEF PurgeMove, RetentionInv, RetentionTypeOK
<1>3. CASE HasProof(d, "exp", "unverified")
  <2>1. PICK r \in recorded : EndOf[r] <= time /\ Names(r, d)
    BY <1>2, <1>3 DEF RetentionInv, NotPurgedEarly, Names
  <2> QED
    BY <1>2, <2>1
<1>4. CASE ~HasProof(d, "exp", "unverified")
  <2>1. eraser["exp"].step = "intend" /\ eraser["exp"].digest = d
    BY <1>1, <1>4 DEF PurgeMove
  <2>2. pass.job \in recorded /\ Names(pass.job, d) /\ EndOf[pass.job] <= pass.now /\ pass.now <= time
    BY <2>1, <1>2 DEF RetentionInv, PassIsDue, DueAt
  <2> QED
    BY <1>2, <2>2
<1> QED
  BY <1>3, <1>4

LEMMA RetentionInitially == RetentionInit => RetentionInv
<1> SUFFICES ASSUME RetentionInit PROVE RetentionInv
  OBVIOUS
<1> USE RetentionAssumption DEF RetentionInit
<1>1. pass \in PassType /\ pass.step = "idle" /\ pass.job = "none" /\ pass.now = 0
      /\ pass.due = <<>>
  BY NoPassIsPass
<1>2. eraser \in EraserType /\ \A s \in Sources : eraser[s].step = "idle"
  BY NotErasingIsIdle DEF EraserType
<1>3. RetentionTypeOK
  BY <1>1, <1>2 DEF RetentionTypeOK, PassType, EraserType
<1>4. BytesBehindRows /\ ErasersIntend /\ IntentsFirst
  BY <1>2 DEF BytesBehindRows, ErasersIntend, IntentsFirst
<1>5. PassIsDue
  BY <1>1, <1>2 DEF PassIsDue, Sources
<1>6. NotPurgedEarly
  BY DEF NotPurgedEarly, HasProof
<1> QED
  BY <1>3, <1>4, <1>5, <1>6 DEF RetentionInv

LEMMA RetentionStep == RetentionInv /\ [RetentionNext]_retentionVars => RetentionInv'
<1> SUFFICES ASSUME RetentionInv, [RetentionNext]_retentionVars PROVE RetentionInv'
  OBVIOUS
<1>1. RetentionTypeOK'
  BY RetentionTypeHolds DEF RetentionInv
<1> QED
  BY <1>1, BytesStep, ErasersStep, IntentsStep, PassDueStep, NotEarlyStep DEF RetentionInv

(* The retention pass, the operator's delete and the uploads are typed. *)
THEOREM RetentionTyped == RetentionSpec => []RetentionTypeOK
<1>1. RetentionInv => RetentionTypeOK
  BY DEF RetentionInv
<1> QED
  BY <1>1, RetentionInitially, RetentionStep, PTL DEF RetentionSpec

(* An artifact the presence reader calls stored has its bytes, and an      *)
(* artifact with a row is called so until an operator deletes it or the    *)
(* first of the records that name it ends, for any set of records and      *)
(* artifacts, with any number of crashes.                                  *)
THEOREM StoredIsAlwaysKept == RetentionSpec => []StoredIsKept
<1>1. RetentionInv => StoredIsReadable
  BY DEF RetentionInv, BytesBehindRows, AnyProof, StoredIsReadable, Presence
<1>2. RetentionInv => KeptToFirstEnd
  <2> SUFFICES ASSUME RetentionInv, NEW d \in refs,
                      ~(Presence(d) = "stored" /\ d \in bytes),
                      ~HasProof(d, "op", "unverified"), setBacks = 0
               PROVE  \E r \in recorded : EndOf[r] <= time /\ Names(r, d)
    <3>1. RetentionInv => setBacks \in Nat
      BY RetentionAssumption DEF RetentionInv, RetentionTypeOK
    <3> QED
      BY <3>1 DEF KeptToFirstEnd
  <2>1. d \in Artifacts
    BY DEF RetentionInv, RetentionTypeOK
  <2>2. PICK e \in proof : e.digest = d
    BY <1>1, <2>1 DEF Presence, StoredIsReadable
  <2>3. e.source \in Sources /\ HasProof(d, e.source, "unverified")
    BY <2>2 DEF RetentionInv, RetentionTypeOK, IntentsFirst
  <2> QED
    BY <2>1, <2>3 DEF Sources, RetentionInv, NotPurgedEarly
<1>3. RetentionInv => StoredIsKept
  BY <1>1, <1>2 DEF StoredIsKept
<1> QED
  BY <1>3, RetentionInitially, RetentionStep, PTL DEF RetentionSpec

LEMMA PurgedIsStable ==
  ASSUME NEW d \in Artifacts, RetentionInv, [RetentionNext]_retentionVars,
         d \in refs \ bytes, upload[d] = "idle"
  PROVE  d \in refs' \ bytes' /\ upload'[d] = "idle"
<1> USE DEF stores, retentionQueue
<1>0. upload \in [Artifacts -> {"idle", "bytes", "row"}]
  BY DEF RetentionInv, RetentionTypeOK
<1>1. ASSUME UNCHANGED <<refs, upload>>, bytes' \subseteq bytes
      PROVE  d \in refs' \ bytes' /\ upload'[d] = "idle"
  BY <1>1
<1>2. ASSUME NEW x \in Artifacts, PutStep(x) \/ PutDies(x)
      PROVE  d \in refs' \ bytes' /\ upload'[d] = "idle"
  BY <1>0, <1>2 DEF PutStep, PutFindsNoRow, PutWritesBytes, PutInsertsRow, PutDies
<1>3. ASSUME NEW s \in Sources, EraseStep(s)
      PROVE  d \in refs' \ bytes' /\ upload'[d] = "idle"
  BY <1>1, <1>3 DEF EraseStep, EraseIntends, EraseRemoves, EraseConfirms, EraseVerifies
<1>4. CASE \/ TimePasses \/ ClockSetBack \/ StartRetention \/ CatchUp \/ RetentionEnds \/ ClaimPurge
           \/ ClaimNotDue \/ GiveBack \/ PurgeNext \/ CompletePurge \/ PurgeThrows \/ RetentionDies
           \/ OperatorDies \/ UNCHANGED retentionVars
  BY <1>1, <1>4 DEF TimePasses, ClockSetBack, StartRetention, CatchUp, RetentionEnds, ClaimPurge,
       ClaimNotDue, GiveBack, PurgeNext, CompletePurge, PurgeThrows, RetentionDies, OperatorDies,
       retentionVars
<1>5. ASSUME NEW r \in Records, OptIn(r) \/ PurgeClaimAges(r)
      PROVE  d \in refs' \ bytes' /\ upload'[d] = "idle"
  BY <1>1, <1>5 DEF OptIn, PurgeClaimAges
<1>6. ASSUME NEW x \in Artifacts, OperatorDelete(x)
      PROVE  d \in refs' \ bytes' /\ upload'[d] = "idle"
  BY <1>1, <1>6 DEF OperatorDelete
<1> QED
  BY <1>2, <1>3, <1>4, <1>5, <1>6 DEF RetentionNext, PassStep, Mishap, Sources

(* ArtifactStore.put answers a purged digest with already_present: its     *)
(* bytes never come back once no put of it is under way.                   *)
THEOREM PurgedAlwaysStaysPurged == RetentionSpec => PurgedStaysPurged
<1>1. ASSUME NEW d \in Artifacts
      PROVE  RetentionSpec =>
               [](d \in refs \ bytes /\ upload[d] = "idle" => [](d \notin bytes))
  <2> DEFINE P == d \in refs \ bytes /\ upload[d] = "idle"
             Q == d \notin bytes
  <2>1. RetentionInv /\ P /\ [RetentionNext]_retentionVars => P'
    BY PurgedIsStable
  <2>2. P => Q
    OBVIOUS
  <2> HIDE DEF P, Q
  <2>3. RetentionSpec => [](P => []Q)
    BY <2>1, <2>2, RetentionInitially, RetentionStep, PTL DEF RetentionSpec
  <2> QED
    BY <2>3 DEF P, Q
<1> QED
  BY <1>1 DEF PurgedStaysPurged

-----------------------------------------------------------------------------
(* The object store.                                                       *)

(* While no two puts have been at one file, the file in place is whole and *)
(* nobody writes to it, and a put has written what it is past writing, in  *)
(* the temporary file, alone.                                              *)
TargetIsWhole ==
  target # NoFile =>
    Whole(target) /\ target # temporary /\ \A p \in Putters : fd[p] # target
PutHasWritten ==
  \A p \in Putters :
    /\ At(p, "write1") \/ At(p, "write2") \/ At(p, "rename") =>
         fd[p] = temporary /\ temporary # NoFile
    /\ At(p, "write2") \/ At(p, "rename") => content[fd[p]][1] = p
    /\ At(p, "rename") => content[fd[p]][2] = p
PutsAlone ==
  \A p \in Putters :
    /\ fd[p] # NoFile => At(p, "write1") \/ At(p, "write2") \/ At(p, "rename")
    /\ \A q \in Putters : p # q => fd[p] = NoFile \/ fd[q] = NoFile
Unshared == ~shared => TargetIsWhole /\ PutHasWritten /\ PutsAlone

(* What has to be on record before bytes go, and where bytes are before a  *)
(* row is.                                                                 *)
PurgeIsRecorded ==
  /\ \A u \in Purgers : objectPc[u] \in {"remove", "has", "verified"} => evidence # {}
  /\ \A p \in Putters : At(p, "insert") /\ evidence = {} => target # NoFile
  /\ row /\ evidence = {} => target # NoFile

(* A settled deletion has the row that keeps every later put out. *)
SettledHasRow ==
  settled => target = NoFile /\ row /\ \A p \in Putters : ~PutUnderWay(p)

ObjectInv ==
  ObjectTypeOK /\ Unshared /\ PurgeIsRecorded /\ SettledHasRow /\ BrokenOnlyIfShared

LEMMA ObjectGotoFacts ==
  ASSUME ObjectTypeOK, NEW c \in Calls, NEW step \in ObjectSteps, ObjectGoto(c, step)
  PROVE  /\ objectPc' \in [Calls -> ObjectSteps]
         /\ objectPc'[c] = step
         /\ \A x \in Calls : x # c => objectPc'[x] = objectPc[x]
BY DEF ObjectTypeOK, ObjectGoto

LEMMA CallsAreCalls == Putters \subseteq Calls /\ Readers \subseteq Calls /\ Purgers \subseteq Calls
BY DEF Calls

(* A step of one call that leaves files, rows and histories alone and does *)
(* not go where a file or evidence is needed.                              *)
LEMMA CallMoves ==
  ASSUME ObjectInv, NEW c \in Calls, NEW step \in ObjectSteps, ObjectGoto(c, step),
         UNCHANGED <<content, temporary, target, row, evidence, fd, got, crashes, objectHistory>>,
         step \notin {"write1", "write2", "rename", "insert"},
         objectPc[c] \notin {"write1", "write2", "rename"},
         step \in {"remove", "has", "verified"} => evidence # {},
         step = "open" => ~row
  PROVE  ObjectInv'
<1> USE ObjectStoreAssumption, CallsAreCalls DEF ObjectInv, At
<1>1. /\ objectPc' \in [Calls -> ObjectSteps] /\ objectPc'[c] = step
      /\ \A x \in Calls : x # c => objectPc'[x] = objectPc[x]
  BY ObjectGotoFacts
<1>2. ObjectTypeOK'
  BY <1>1 DEF ObjectTypeOK, objectHistory
<1>3. Unshared'
  BY <1>1 DEF Unshared, TargetIsWhole, PutHasWritten, PutsAlone, Whole, objectHistory
<1>4. PurgeIsRecorded'
  BY <1>1 DEF PurgeIsRecorded
<1>5. SettledHasRow'
  BY <1>1 DEF SettledHasRow, PutUnderWay, objectHistory
<1>6. BrokenOnlyIfShared'
  BY DEF BrokenOnlyIfShared, objectHistory
<1> QED
  BY <1>2, <1>3, <1>4, <1>5, <1>6

LEMMA ObjectPuts ==
  ASSUME ObjectInv, NEW p \in Putters, Put(p)
  PROVE  ObjectInv'
<1> USE ObjectStoreAssumption, CallsAreCalls DEF ObjectInv, At
<1>0. /\ content \in [Inodes -> [Pieces -> Putters \cup {"empty"}]]
      /\ fd \in [Putters -> Inodes \cup {NoFile}]
      /\ objectPc \in [Calls -> ObjectSteps] /\ p \in Calls
      /\ temporary \in Inodes \cup {NoFile}
  BY DEF ObjectTypeOK
<1>1. CASE PutBegin(p)
  BY <1>1, <1>0, CallMoves DEF PutBegin, ObjectSteps
<1>2. CASE ObjectPutSelect(p)
  <2>1. CASE row
    BY <1>2, <2>1, <1>0, CallMoves DEF ObjectPutSelect, ObjectSteps
  <2>2. CASE ~row
    BY <1>2, <2>2, <1>0, CallMoves DEF ObjectPutSelect, ObjectSteps
  <2> QED
    BY <2>1, <2>2
<1>3. CASE Open(p)
  <2>1. objectPc' \in [Calls -> ObjectSteps] /\ objectPc'[p] = "write1" /\ objectPc[p] = "open"
        /\ \A x \in Calls : x # p => objectPc'[x] = objectPc[x]
    BY <1>3, <1>0, ObjectGotoFacts DEF Open, ObjectSteps
  <2>2. PICK i \in Opened :
          /\ content' = [content EXCEPT ![i] = Empty]
          /\ temporary' = i
          /\ fd' = [fd EXCEPT ![p] = i]
          /\ shared' = (shared \/ \E q \in Putters : fd[q] = i)
    BY <1>3 DEF Open
  <2>3. i \in Inodes /\ (temporary # NoFile => i = temporary) /\ (temporary = NoFile => i \in Unused)
    BY <2>2, <1>0 DEF Opened, Unused
  <2>4. content' \in [Inodes -> [Pieces -> Putters \cup {"empty"}]]
        /\ \A x \in Inodes : x # i => content'[x] = content[x]
    BY <2>2, <2>3, <1>0 DEF Empty
  <2>5. /\ fd' \in [Putters -> Inodes \cup {NoFile}] /\ fd'[p] = i
        /\ \A q \in Putters : q # p => fd'[q] = fd[q]
    BY <2>2, <2>3, <1>0
  <2>6. UNCHANGED <<target, row, evidence, got, crashes, settled>>
    BY <1>3 DEF Open
  <2>7. ObjectTypeOK'
    <3>1. shared' \in BOOLEAN
      BY <2>2, Zenon DEF ObjectTypeOK
    <3> QED
      BY <2>1, <2>2, <2>3, <2>4, <2>5, <2>6, <3>1 DEF ObjectTypeOK
  <2>8. ASSUME ~shared' PROVE ~shared /\ \A q \in Putters : fd[q] # i
    BY <2>2, <2>8
  <2>9. ASSUME ~shared' PROVE \A q \in Putters : q # p => fd[q] = NoFile
    <3> SUFFICES ASSUME NEW q \in Putters, q # p, fd[q] # NoFile PROVE FALSE
      OBVIOUS
    <3>1. fd[q] = temporary /\ temporary # NoFile
      BY <2>8, <2>9 DEF Unshared, PutsAlone, PutHasWritten
    <3> QED
      BY <3>1, <2>3, <2>8, <2>9
  <2>10. ASSUME ~shared' PROVE i # target
    BY <2>3, <2>8, <2>10 DEF Unshared, TargetIsWhole, Unused
  <2>11. ASSUME ~shared' PROVE TargetIsWhole'
    BY <2>2, <2>4, <2>5, <2>6, <2>8, <2>10, <2>11 DEF Unshared, TargetIsWhole, Whole, ObjectTypeOK
  <2>12. ASSUME ~shared' PROVE PutHasWritten' /\ PutsAlone'
    <3>1. \A q \in Putters : q # p => objectPc'[q] \notin {"write1", "write2", "rename"}
      BY <2>1, <2>8, <2>9, <2>12 DEF Unshared, PutHasWritten
    <3>2. temporary' # NoFile /\ fd'[p] = temporary' /\ objectPc'[p] = "write1"
      BY <2>1, <2>2, <2>3, <2>5
    <3>3. PutHasWritten'
      BY <3>1, <3>2 DEF PutHasWritten
    <3>4. PutsAlone'
      BY <2>5, <2>9, <2>12, <3>2 DEF PutsAlone
    <3> QED
      BY <3>3, <3>4
  <2>13. PurgeIsRecorded'
    BY <2>1, <2>6 DEF PurgeIsRecorded
  <2>14. SettledHasRow'
    BY <2>1, <2>6 DEF SettledHasRow, PutUnderWay
  <2>15. BrokenOnlyIfShared'
    BY <2>2, <2>6 DEF BrokenOnlyIfShared
  <2> QED
    BY <2>7, <2>11, <2>12, <2>13, <2>14, <2>15 DEF Unshared
<1>4. ASSUME NEW step, NEW n \in Pieces, NEW next \in ObjectSteps, Write(p, step, n, next),
             \/ step = "write1" /\ n = 1 /\ next = "write2"
             \/ step = "write2" /\ n = 2 /\ next = "rename"
      PROVE  ObjectInv'
  <2> DEFINE i == fd[p]
  <2>1. objectPc' \in [Calls -> ObjectSteps] /\ objectPc'[p] = next /\ objectPc[p] = step
        /\ \A x \in Calls : x # p => objectPc'[x] = objectPc[x]
    BY <1>4, <1>0, ObjectGotoFacts DEF Write
  <2>2. i \in Inodes
    BY <2>1, <1>4, <1>0 DEF ObjectTypeOK
  <2>3. /\ UNCHANGED <<temporary, target, row, evidence, fd, got, crashes>>
        /\ shared' = shared /\ settled' = settled
    BY <1>4 DEF Write, objectHistory
  <2>a. ~shared => i = temporary /\ i # target
    BY <2>1, <1>4, <1>0, <2>2 DEF Unshared, PutHasWritten, TargetIsWhole
  <2> HIDE DEF i
  <2>4. content' = [content EXCEPT ![i][n] = p]
    BY <1>4 DEF Write, i
  <2>5. content' \in [Inodes -> [Pieces -> Putters \cup {"empty"}]]
        /\ (\A x \in Inodes : x # i => content'[x] = content[x])
        /\ content'[i][n] = p /\ (\A m \in Pieces : m # n => content'[i][m] = content[i][m])
    BY <2>4, <2>2, <1>0
  <2>6. ObjectTypeOK'
    BY <2>1, <2>2, <2>3, <2>5, <1>4 DEF ObjectTypeOK, i
  <2>7. ASSUME ~shared PROVE TargetIsWhole'
    BY <2>a, <2>3, <2>5, <2>7 DEF Unshared, TargetIsWhole, Whole, ObjectTypeOK
  <2>8. ASSUME ~shared PROVE PutsAlone'
    BY <2>1, <2>3, <1>4, <2>8 DEF Unshared, PutsAlone
  <2>9. ASSUME ~shared PROVE PutHasWritten'
    <3>1. fd[p] = i /\ fd[p] # NoFile
      BY <2>2 DEF i
    <3>2. \A q \in Putters : q # p => objectPc'[q] \notin {"write1", "write2", "rename"}
      BY <2>1, <2>9, <3>1 DEF Unshared, PutsAlone, PutHasWritten
    <3>3. fd'[p] = i /\ i = temporary' /\ temporary' # NoFile
      BY <2>a, <2>2, <2>3, <2>9, <3>1
    <3>4. objectPc'[p] \in {"write2", "rename"} => content'[i][1] = p
      BY <2>1, <2>5, <1>4, <2>9, <3>1 DEF Unshared, PutHasWritten, Pieces
    <3>5. objectPc'[p] = "rename" => content'[i][2] = p
      BY <2>1, <2>5, <1>4
    <3> QED
      BY <3>2, <3>3, <3>4, <3>5 DEF PutHasWritten
  <2>10. PurgeIsRecorded'
    BY <2>1, <2>3, <1>4 DEF PurgeIsRecorded
  <2>11. SettledHasRow'
    BY <2>1, <2>3, <1>4 DEF SettledHasRow, PutUnderWay
  <2>12. BrokenOnlyIfShared'
    BY <2>3 DEF BrokenOnlyIfShared
  <2> QED
    BY <2>3, <2>6, <2>7, <2>8, <2>9, <2>10, <2>11, <2>12 DEF Unshared
<1>5. CASE WriteFirst(p)
  BY <1>4, <1>5 DEF WriteFirst, Pieces, ObjectSteps
<1>6. CASE WriteLast(p)
  BY <1>4, <1>6 DEF WriteLast, Pieces, ObjectSteps
<1>7. CASE Rename(p)
  <2>0. objectPc[p] = "rename"
    BY <1>7 DEF Rename
  <2>1. /\ fd' \in [Putters -> Inodes \cup {NoFile}] /\ fd'[p] = NoFile
        /\ \A q \in Putters : q # p => fd'[q] = fd[q]
    BY <1>7, <1>0 DEF Rename
  <2>2. UNCHANGED <<content, row, evidence, got, crashes>> /\ shared' = shared /\ settled' = settled
    BY <1>7 DEF Rename, objectHistory
  <2>3. ~settled
    BY <2>0 DEF SettledHasRow, PutUnderWay
  <2>4. CASE temporary # NoFile
    <3>1. objectPc' \in [Calls -> ObjectSteps] /\ objectPc'[p] = "insert"
          /\ \A x \in Calls : x # p => objectPc'[x] = objectPc[x]
      BY <1>7, <2>4, <1>0, ObjectGotoFacts DEF Rename, ObjectSteps
    <3>2. target' = temporary /\ temporary' = NoFile /\ temporary \in Inodes
      BY <1>7, <2>4, <1>0 DEF Rename
    <3>3. ObjectTypeOK'
      BY <2>1, <2>2, <3>1, <3>2 DEF ObjectTypeOK
    <3>4. ASSUME ~shared PROVE TargetIsWhole' /\ PutHasWritten' /\ PutsAlone'
      <4>1. fd[p] = temporary /\ content[temporary][1] = p /\ content[temporary][2] = p
        BY <2>0, <3>4 DEF Unshared, PutHasWritten
      <4>2. \A q \in Putters : fd'[q] = NoFile
        BY <2>1, <2>4, <3>4, <4>1 DEF Unshared, PutsAlone
      <4>3. \A q \in Putters : objectPc'[q] \notin {"write1", "write2", "rename"}
        BY <2>1, <2>4, <3>1, <3>4, <4>2 DEF Unshared, PutHasWritten
      <4>4. TargetIsWhole'
        BY <2>2, <3>2, <4>1, <4>2 DEF TargetIsWhole, Whole, Pieces
      <4> QED
        BY <4>2, <4>3, <4>4 DEF PutHasWritten, PutsAlone
    <3>5. PurgeIsRecorded'
      BY <2>2, <3>1, <3>2 DEF PurgeIsRecorded
    <3> QED
      BY <2>2, <2>3, <3>3, <3>4, <3>5 DEF Unshared, SettledHasRow, BrokenOnlyIfShared
  <2>5. CASE temporary = NoFile
    <3>1. objectPc' \in [Calls -> ObjectSteps] /\ objectPc'[p] = "idle"
          /\ \A x \in Calls : x # p => objectPc'[x] = objectPc[x]
      BY <1>7, <2>5, <1>0, ObjectGotoFacts DEF Rename, ObjectSteps
    <3>2. target' = target /\ temporary' = temporary /\ shared
      BY <1>7, <2>0, <2>5 DEF Rename, Unshared, PutHasWritten
    <3>3. ObjectTypeOK'
      BY <2>1, <2>2, <3>1, <3>2 DEF ObjectTypeOK
    <3>4. PurgeIsRecorded'
      BY <2>2, <3>1, <3>2 DEF PurgeIsRecorded
    <3> QED
      BY <2>2, <2>3, <3>2, <3>3, <3>4 DEF Unshared, SettledHasRow, BrokenOnlyIfShared
  <2> QED
    BY <2>4, <2>5
<1>8. CASE InsertRow(p)
  <2>1. objectPc' \in [Calls -> ObjectSteps] /\ objectPc'[p] = "idle" /\ objectPc[p] = "insert"
        /\ \A x \in Calls : x # p => objectPc'[x] = objectPc[x]
    BY <1>8, <1>0, ObjectGotoFacts DEF InsertRow, ObjectSteps
  <2>2. /\ row' = TRUE /\ UNCHANGED <<content, temporary, target, evidence, fd, got, crashes>>
        /\ shared' = shared /\ settled' = settled
    BY <1>8 DEF InsertRow, objectHistory
  <2>3. evidence = {} => target # NoFile
    BY <2>1 DEF PurgeIsRecorded
  <2>4. ObjectTypeOK'
    BY <2>1, <2>2 DEF ObjectTypeOK
  <2>5. Unshared'
    BY <2>1, <2>2 DEF Unshared, TargetIsWhole, PutHasWritten, PutsAlone, Whole
  <2>6. PurgeIsRecorded'
    BY <2>1, <2>2, <2>3 DEF PurgeIsRecorded
  <2>7. SettledHasRow' /\ BrokenOnlyIfShared'
    BY <2>1, <2>2 DEF SettledHasRow, PutUnderWay, BrokenOnlyIfShared
  <2> QED
    BY <2>4, <2>5, <2>6, <2>7
<1> QED
  BY <1>1, <1>2, <1>3, <1>5, <1>6, <1>7, <1>8 DEF Put

(* The rest of the store leaves the files that are written alone. *)
LEMMA ObjectReads ==
  ASSUME ObjectInv, NEW r \in Readers, Get(r)
  PROVE  ObjectInv'
<1> USE ObjectStoreAssumption, CallsAreCalls DEF ObjectInv, At
<1>0. r \in Calls /\ got \in [Readers -> {"none", "whole", "broken", "not_found"}]
  BY DEF ObjectTypeOK
<1>1. PICK step \in {"getSelect", "read", "idle"} :
        /\ objectPc' \in [Calls -> ObjectSteps] /\ objectPc'[r] = step
        /\ \A x \in Calls : x # r => objectPc'[x] = objectPc[x]
  BY <1>0, ObjectGotoFacts DEF Get, GetBegin, GetSelect, Read, ObjectSteps
<1>2. /\ UNCHANGED <<content, temporary, target, row, evidence, fd, crashes>>
      /\ shared' = shared /\ settled' = settled
      /\ objectPc[r] \in {"idle", "getSelect", "read"}
  BY DEF Get, GetBegin, GetSelect, Read, objectHistory
<1>3. got' \in [Readers -> {"none", "whole", "broken", "not_found"}]
  BY <1>0 DEF Get, GetBegin, GetSelect, Read
<1>4. BrokenOnlyIfShared'
  <2>1. ASSUME ~shared, NEW x \in Readers PROVE got'[x] # "broken"
    <3>1. got[x] # "broken"
      BY <2>1 DEF BrokenOnlyIfShared
    <3>2. CASE Read(r)
      BY <3>1, <3>2, <2>1, <1>0 DEF Read, Unshared, TargetIsWhole
    <3>3. CASE GetBegin(r) \/ GetSelect(r)
      BY <3>1, <3>3, <1>0 DEF GetBegin, GetSelect
    <3> QED
      BY <3>2, <3>3 DEF Get
  <2> QED
    BY <2>1, <1>2 DEF BrokenOnlyIfShared
<1>5. ObjectTypeOK'
  BY <1>1, <1>2, <1>3 DEF ObjectTypeOK
<1>6. Unshared'
  BY <1>1, <1>2 DEF Unshared, TargetIsWhole, PutHasWritten, PutsAlone, Whole
<1>7. PurgeIsRecorded'
  BY <1>1, <1>2 DEF PurgeIsRecorded
<1>8. SettledHasRow'
  BY <1>1, <1>2 DEF SettledHasRow, PutUnderWay
<1> QED
  BY <1>4, <1>5, <1>6, <1>7, <1>8

LEMMA ObjectDeletes ==
  ASSUME ObjectInv, NEW u \in Purgers, Delete(u)
  PROVE  ObjectInv'
<1> USE ObjectStoreAssumption, CallsAreCalls DEF ObjectInv, At
<1>0. u \in Calls
  OBVIOUS
<1>1. CASE PurgeBegin(u)
  BY <1>1, <1>0, CallMoves DEF PurgeBegin, ObjectSteps
<1>2. ASSUME NEW from \in {"unverified", "verified"}, NEW to \in {"remove", "idle"},
             objectPc[u] = from, ObjectGoto(u, to), evidence' = evidence \cup {from},
             UNCHANGED <<content, temporary, target, row, fd, got, crashes, objectHistory>>
      PROVE  ObjectInv'
  <2>1. objectPc' \in [Calls -> ObjectSteps] /\ objectPc'[u] = to
        /\ \A x \in Calls : x # u => objectPc'[x] = objectPc[x]
    BY <1>2, <1>0, ObjectGotoFacts DEF ObjectSteps
  <2>2. evidence' # {} /\ shared' = shared /\ settled' = settled
    BY <1>2 DEF objectHistory
  <2>3. ObjectTypeOK'
    BY <1>2, <2>1, <2>2 DEF ObjectTypeOK
  <2>4. Unshared'
    BY <1>2, <2>1, <2>2 DEF Unshared, TargetIsWhole, PutHasWritten, PutsAlone, Whole
  <2>5. PurgeIsRecorded'
    BY <2>2 DEF PurgeIsRecorded
  <2>6. SettledHasRow' /\ BrokenOnlyIfShared'
    BY <1>2, <2>1, <2>2 DEF SettledHasRow, PutUnderWay, BrokenOnlyIfShared
  <2> QED
    BY <2>3, <2>4, <2>5, <2>6
<1>3. CASE InsertUnverified(u) \/ InsertVerified(u)
  BY <1>2, <1>3 DEF InsertUnverified, InsertVerified
<1>4. CASE Remove(u)
  <2>1. objectPc' \in [Calls -> ObjectSteps] /\ objectPc'[u] = "has" /\ objectPc[u] = "remove"
        /\ \A x \in Calls : x # u => objectPc'[x] = objectPc[x]
    BY <1>4, <1>0, ObjectGotoFacts DEF Remove, ObjectSteps
  <2>2. /\ target' = NoFile /\ UNCHANGED <<content, temporary, row, evidence, fd, got, crashes>>
        /\ shared' = shared /\ settled' = settled
    BY <1>4 DEF Remove, objectHistory
  <2>3. evidence # {}
    BY <2>1 DEF PurgeIsRecorded
  <2>4. ObjectTypeOK'
    BY <2>1, <2>2 DEF ObjectTypeOK
  <2>5. Unshared'
    BY <2>1, <2>2 DEF Unshared, TargetIsWhole, PutHasWritten, PutsAlone
  <2>6. PurgeIsRecorded'
    BY <2>2, <2>3 DEF PurgeIsRecorded
  <2>7. SettledHasRow' /\ BrokenOnlyIfShared'
    BY <2>1, <2>2 DEF SettledHasRow, PutUnderWay, BrokenOnlyIfShared
  <2> QED
    BY <2>4, <2>5, <2>6, <2>7
<1>5. CASE Has(u)
  <2>1. objectPc' \in [Calls -> ObjectSteps] /\ objectPc[u] = "has"
        /\ objectPc'[u] = (IF target = NoFile THEN "verified" ELSE "idle")
        /\ \A x \in Calls : x # u => objectPc'[x] = objectPc[x]
    BY <1>5, <1>0, ObjectGotoFacts DEF Has, ObjectSteps
  <2>2. /\ UNCHANGED <<content, temporary, target, row, evidence, fd, got, crashes, shared>>
        /\ settled' = (settled \/ (target = NoFile /\ row /\ \A p \in Putters : ~PutUnderWay(p)))
    BY <1>5 DEF Has
  <2>3. settled' \in BOOLEAN
    BY <2>2, Zenon DEF ObjectTypeOK
  <2>4. ObjectTypeOK'
    BY <2>1, <2>2, <2>3 DEF ObjectTypeOK
  <2>5. Unshared'
    BY <2>1, <2>2 DEF Unshared, TargetIsWhole, PutHasWritten, PutsAlone, Whole
  <2>6. PurgeIsRecorded'
    BY <2>1, <2>2 DEF PurgeIsRecorded
  <2>7. SettledHasRow'
    <3>1. settled' => target = NoFile /\ row /\ \A p \in Putters : ~PutUnderWay(p)
      BY <2>2 DEF SettledHasRow
    <3> QED
      BY <2>1, <2>2, <3>1 DEF SettledHasRow, PutUnderWay
  <2>8. BrokenOnlyIfShared'
    BY <2>2 DEF BrokenOnlyIfShared
  <2> QED
    BY <2>4, <2>5, <2>6, <2>7, <2>8
<1> QED
  BY <1>1, <1>3, <1>4, <1>5 DEF Delete

LEMMA ObjectCrashes ==
  ASSUME ObjectInv, NEW c \in Calls, CallCrash(c)
  PROVE  ObjectInv'
<1> USE ObjectStoreAssumption, CallsAreCalls DEF ObjectInv, At
<1>1. objectPc' \in [Calls -> ObjectSteps] /\ objectPc'[c] = "idle"
      /\ \A x \in Calls : x # c => objectPc'[x] = objectPc[x]
  BY ObjectGotoFacts DEF CallCrash, ObjectSteps
<1>2. /\ crashes' \in 0 .. MaxCrashes
      /\ fd' \in [Putters -> Inodes \cup {NoFile}]
      /\ \A p \in Putters : fd'[p] = IF p = c THEN NoFile ELSE fd[p]
      /\ UNCHANGED <<content, temporary, target, row, evidence, got>>
      /\ shared' = shared /\ settled' = settled
  BY DEF CallCrash, ObjectTypeOK, objectHistory
<1>3. ObjectTypeOK'
  BY <1>1, <1>2 DEF ObjectTypeOK
<1>4. Unshared'
  BY <1>1, <1>2 DEF Unshared, TargetIsWhole, PutHasWritten, PutsAlone, Whole
<1>5. PurgeIsRecorded'
  BY <1>1, <1>2 DEF PurgeIsRecorded
<1>6. SettledHasRow' /\ BrokenOnlyIfShared'
  BY <1>1, <1>2 DEF SettledHasRow, PutUnderWay, BrokenOnlyIfShared
<1> QED
  BY <1>3, <1>4, <1>5, <1>6

LEMMA ObjectInitially == ObjectInit => ObjectInv
<1> SUFFICES ASSUME ObjectInit PROVE ObjectInv
  OBVIOUS
<1> USE ObjectStoreAssumption, CallsAreCalls DEF ObjectInit
<1>1. ObjectTypeOK
  <2>1. content \in [Inodes -> [Pieces -> Putters \cup {"empty"}]]
    BY DEF Empty
  <2>2. objectPc \in [Calls -> ObjectSteps] /\ \A p \in Putters : objectPc[p] = "idle"
    BY DEF ObjectSteps
  <2>3. /\ temporary \in Inodes \cup {NoFile} /\ target \in Inodes \cup {NoFile}
        /\ evidence \subseteq {"unverified", "verified"} /\ fd \in [Putters -> Inodes \cup {NoFile}]
        /\ got \in [Readers -> {"none", "whole", "broken", "not_found"}]
    OBVIOUS
  <2>4. row \in BOOLEAN /\ shared \in BOOLEAN /\ settled \in BOOLEAN
    BY Zenon
  <2>5. crashes \in 0 .. MaxCrashes
    OBVIOUS
  <2> HIDE DEF ObjectInit
  <2> QED
    BY <2>1, <2>2, <2>3, <2>4, <2>5 DEF ObjectTypeOK
<1>2. \A c \in Calls : objectPc[c] = "idle"
  OBVIOUS
<1>3. Unshared
  BY <1>2 DEF Unshared, TargetIsWhole, PutHasWritten, PutsAlone, At
<1>4. PurgeIsRecorded /\ SettledHasRow /\ BrokenOnlyIfShared
  BY <1>2 DEF PurgeIsRecorded, SettledHasRow, BrokenOnlyIfShared, At
<1> QED
  BY <1>1, <1>3, <1>4 DEF ObjectInv

LEMMA ObjectStep == ObjectInv /\ [ObjectNext]_objectVars => ObjectInv'
<1> SUFFICES ASSUME ObjectInv, [ObjectNext]_objectVars PROVE ObjectInv'
  OBVIOUS
<1>1. CASE UNCHANGED objectVars
  <2>1. ObjectTypeOK'
    BY <1>1 DEF objectVars, objectHistory, ObjectInv, ObjectTypeOK
  <2>2. Unshared'
    BY <1>1 DEF objectVars, objectHistory, ObjectInv, Unshared, TargetIsWhole, PutHasWritten,
         PutsAlone, Whole, At
  <2>3. PurgeIsRecorded' /\ SettledHasRow' /\ BrokenOnlyIfShared'
    BY <1>1 DEF objectVars, objectHistory, ObjectInv, PurgeIsRecorded, SettledHasRow,
         PutUnderWay, BrokenOnlyIfShared, At
  <2> QED
    BY <2>1, <2>2, <2>3 DEF ObjectInv
<1> QED
  BY <1>1, ObjectPuts, ObjectReads, ObjectDeletes, ObjectCrashes DEF ObjectNext

(* For any number of puts, reads and deletions of a digest that die        *)
(* anywhere: a read of the object store is broken only after two puts were *)
(* at the one temporary file of the digest.                                *)
THEOREM ReadsAreWholeUnlessShared == ObjectSpec => []BrokenOnlyIfShared
<1>1. ObjectInv => BrokenOnlyIfShared
  BY DEF ObjectInv
<1> QED
  BY <1>1, ObjectStep, ObjectInitially, PTL DEF ObjectSpec

(* For any number of puts, reads and deletions of a digest that die        *)
(* anywhere, deletions of an artifact without a row included: the row of   *)
(* ArtifactStore.put points at an object until a deletion is recorded, and *)
(* a deletion that settles an artifact is final.                           *)
THEOREM RowsAreAlwaysTrue == ObjectSpec => []RowsAreTrue
<1>1. ObjectInv => RowPointsAtObject
  BY DEF ObjectInv, Unshared, TargetIsWhole, PurgeIsRecorded, RowPointsAtObject
<1>2. ObjectInv => SettledIsGone
  BY DEF ObjectInv, SettledHasRow, SettledIsGone
<1>3. ObjectInv => RowsAreTrue
  BY <1>1, <1>2 DEF RowsAreTrue
<1> QED
  BY <1>3, ObjectStep, ObjectInitially, PTL DEF ObjectSpec

-----------------------------------------------------------------------------
(* The normalization worker.                                               *)

Fresh(a) == jobResult[a] = NoResult

(* What a worker hopes for is a draft set of its own attempt, stored as    *)
(* far as it has come, and what was recorded can be read.                  *)
ResultsAreTrue ==
  /\ draftRows \subseteq draftBytes
  /\ \A w \in Workers :
       /\ workerPc[w] \in {"putSelect", "putBytes", "putRow", "classify"} =>
            /\ found[w].outcome = "normalized" /\ found[w].draft \in Drafts
            /\ found[w].draft.attempt = job[w].attempt
            /\ found[w] \in JobResults
       /\ workerPc[w] = "putRow" => found[w].draft \in draftBytes
       /\ workerPc[w] = "classify" => found[w].draft \in draftRows
       /\ workerPc[w] = "record" =>
            /\ found[w] \in JobResults
            /\ found[w].outcome = "normalized" =>
                 /\ found[w].draft.attempt = job[w].attempt
                 /\ found[w].draft \in draftBytes \cap draftRows \cap classified
  /\ NormalizedIsStored

(* A row goes only after the result of its attempt is recorded. *)
RowsGoLast ==
  /\ \A w \in Workers : workerPc[w] = "complete" => ~Fresh(job[w].attempt)
  /\ \A k \in accesses : Queued(k[1]) \/ ~Fresh(k[1])
  /\ OneRowEach(queue)
  /\ DoneMeansRecorded

(* A worker that reads or may come to read. *)
Reading(w) ==
  workerPc[w] \in TrySteps \/ (workerPc[w] = "find" /\ Fresh(job[w].attempt))

(* Until its result is recorded, an attempt has one row and its tries have *)
(* numbers of their own, also in the keys of the access log.               *)
TriesAreDistinct ==
  /\ \A w \in Workers : workerPc[w] \in BusySteps /\ Fresh(job[w].attempt) =>
       job[w].try <= tries[job[w].attempt]
  /\ \A k \in accesses : Fresh(k[1]) => k[2] <= tries[k[1]]
  /\ \A w, v \in Workers : w # v /\ Reading(w) /\ Reading(v) => job[w] # job[v]
  /\ \A w \in Workers : Reading(w) =>
       /\ workerPc[w] \in {"find", "lookUp", "readScope"} =>
            AccessKey(w, "readScope") \notin accesses
       /\ workerPc[w] \in {"find", "lookUp", "readScope", "readFindings"} =>
            AccessKey(w, "readFindings") \notin accesses

(* Claims past the limit are held by workers that give the job up, or died.*)
GivingUp(a) ==
  {w \in Workers : /\ workerPc[w] \in {"find", "record", "complete"}
                   /\ job[w].attempt = a /\ job[w].try > MaxAttempts}
TriesAreCounted ==
  /\ \A a \in Attempts :
       Queued(a) => tries[a] <= MaxAttempts + Cardinality(GivingUp(a)) + aborts
  /\ ClaimsAreBounded

WorkerInv ==
  WorkerTypeOK /\ ResultsAreTrue /\ RowsGoLast /\ TriesAreDistinct /\ TriesAreCounted

LEMMA ResultsDiffer ==
  /\ NoResult.outcome = "none" /\ NoResult \notin JobResults
  /\ \A r \in JobResults : r.outcome \in {"rejected", "normalized"}
  /\ \A reason \in Reasons : Rejected(reason) \in JobResults /\ Rejected(reason).outcome = "rejected"
  /\ \A d \in Drafts : /\ Normalized(d) \in JobResults /\ Normalized(d).draft = d
                       /\ Normalized(d).outcome = "normalized"
  /\ \A r \in JobResults : r.outcome = "normalized" => r.draft \in Drafts
<1>1. \A r \in JobResults : r.outcome \in {"rejected", "normalized"}
  BY DEF JobResults, Rejected, Normalized
<1>2. NoResult.outcome = "none"
  BY DEF NoResult
<1>3. \A reason \in Reasons : Rejected(reason) \in JobResults /\ Rejected(reason).outcome = "rejected"
  BY DEF JobResults, Rejected
<1>4. \A d \in Drafts : /\ Normalized(d) \in JobResults /\ Normalized(d).draft = d
                        /\ Normalized(d).outcome = "normalized"
  BY DEF JobResults, Normalized
<1>5. \A r \in JobResults : r.outcome = "normalized" => r.draft \in Drafts
  BY DEF JobResults, Normalized, Rejected
<1> QED
  BY <1>1, <1>2, <1>3, <1>4, <1>5

JobType == [attempt : Attempts, try : Nat]

LEMMA NoJobIsIdle == NoJob.try = 0 /\ NoJob \in JobType \cup {NoJob}
BY DEF NoJob

LEMMA StepsAreSteps ==
  /\ BusySteps \subseteq WorkerSteps /\ TrySteps \subseteq BusySteps /\ ReadSteps \subseteq TrySteps
  /\ {"asleep", "claim"} \subseteq WorkerSteps
  /\ "asleep" \notin BusySteps /\ "claim" \notin BusySteps
  /\ {"lookUp", "readScope", "readFindings", "normalize", "putSelect", "putBytes", "putRow",
      "classify", "fail"} = TrySteps
  /\ {"find", "record", "complete"} \subseteq BusySteps
  /\ {"find", "record", "complete"} \cap TrySteps = {}
BY DEF WorkerSteps, BusySteps, TrySteps, ReadSteps

OthersStay(w) ==
  \A v \in Workers : v # w =>
    workerPc'[v] = workerPc[v] /\ job'[v] = job[v] /\ found'[v] = found[v]

LEMMA WorkerGotoFacts ==
  ASSUME WorkerTypeOK, NEW w \in Workers, NEW step \in WorkerSteps, WorkerGoto(w, step)
  PROVE  /\ workerPc' \in [Workers -> WorkerSteps] /\ workerPc'[w] = step
         /\ \A v \in Workers : v # w => workerPc'[v] = workerPc[v]
BY DEF WorkerTypeOK, WorkerGoto

LEMMA ConcludeFacts ==
  ASSUME WorkerTypeOK, NEW w \in Workers, NEW r \in JobResults, Conclude(w, r)
  PROVE  /\ workerPc' \in [Workers -> WorkerSteps] /\ workerPc'[w] = "record"
         /\ found' \in [Workers -> JobResults \cup {NoResult}] /\ found'[w] = r
         /\ \A v \in Workers : v # w => workerPc'[v] = workerPc[v] /\ found'[v] = found[v]
<1>1. WorkerGoto(w, "record") /\ "record" \in WorkerSteps
  BY StepsAreSteps DEF Conclude
<1>2. /\ workerPc' \in [Workers -> WorkerSteps] /\ workerPc'[w] = "record"
      /\ \A v \in Workers : v # w => workerPc'[v] = workerPc[v]
  BY <1>1, WorkerGotoFacts
<1> QED
  BY <1>2 DEF Conclude, WorkerTypeOK

LEMMA ForgetFacts ==
  ASSUME WorkerTypeOK, NEW w \in Workers, Forget(w)
  PROVE  /\ job' \in [Workers -> JobType \cup {NoJob}] /\ job'[w] = NoJob
         /\ found' \in [Workers -> JobResults \cup {NoResult}] /\ found'[w] = NoResult
         /\ \A v \in Workers : v # w => job'[v] = job[v] /\ found'[v] = found[v]
BY DEF WorkerTypeOK, Forget, JobType

-----------------------------------------------------------------------------
(* What a step of one worker leaves true when the tables stay. *)

LEMMA ResultsKept ==
  ASSUME WorkerInv, NEW w \in Workers, OthersStay(w), UNCHANGED jobResult,
         draftBytes \subseteq draftBytes', draftRows \subseteq draftRows',
         classified \subseteq classified', draftRows' \subseteq draftBytes',
         workerPc'[w] \in {"putSelect", "putBytes", "putRow", "classify"} =>
            /\ found'[w].outcome = "normalized" /\ found'[w].draft \in Drafts
            /\ found'[w].draft.attempt = job'[w].attempt /\ found'[w] \in JobResults,
         workerPc'[w] = "putRow" => found'[w].draft \in draftBytes',
         workerPc'[w] = "classify" => found'[w].draft \in draftRows',
         workerPc'[w] = "record" =>
            /\ found'[w] \in JobResults
            /\ found'[w].outcome = "normalized" =>
                 /\ found'[w].draft.attempt = job'[w].attempt
                 /\ found'[w].draft \in draftBytes' \cap draftRows' \cap classified'
  PROVE  ResultsAreTrue'
<1>1. NormalizedIsStored'
  BY DEF WorkerInv, ResultsAreTrue, NormalizedIsStored
<1>2. ASSUME NEW v \in Workers, v # w
      PROVE  /\ workerPc'[v] \in {"putSelect", "putBytes", "putRow", "classify"} =>
                  /\ found'[v].outcome = "normalized" /\ found'[v].draft \in Drafts
                  /\ found'[v].draft.attempt = job'[v].attempt /\ found'[v] \in JobResults
             /\ workerPc'[v] = "putRow" => found'[v].draft \in draftBytes'
             /\ workerPc'[v] = "classify" => found'[v].draft \in draftRows'
             /\ workerPc'[v] = "record" =>
                  /\ found'[v] \in JobResults
                  /\ found'[v].outcome = "normalized" =>
                       /\ found'[v].draft.attempt = job'[v].attempt
                       /\ found'[v].draft \in draftBytes' \cap draftRows' \cap classified'
  <2>1. workerPc'[v] = workerPc[v] /\ job'[v] = job[v] /\ found'[v] = found[v]
    BY <1>2 DEF OthersStay
  <2> QED
    BY <2>1 DEF WorkerInv, ResultsAreTrue
<1> QED
  BY <1>1, <1>2 DEF ResultsAreTrue

LEMMA RowsKept ==
  ASSUME WorkerInv, NEW w \in Workers, OthersStay(w), UNCHANGED <<jobResult, queue>>,
         \A k \in accesses' : k \in accesses \/ Queued(k[1]) \/ ~Fresh(k[1]),
         workerPc'[w] = "complete" => ~Fresh(job'[w].attempt),
         workerPc'[w] \in BusySteps \ {"complete"} =>
           Queued(job'[w].attempt) \/ ~Fresh(job'[w].attempt)
  PROVE  RowsGoLast'
<1>1. \A v \in Workers : workerPc'[v] = "complete" => ~Fresh(job'[v].attempt)
  BY DEF OthersStay, WorkerInv, RowsGoLast
<1>2. \A v \in Workers : workerPc'[v] \in BusySteps \ {"complete"} =>
         Queued(job'[v].attempt) \/ ~Fresh(job'[v].attempt)
  BY DEF OthersStay, WorkerInv, RowsGoLast, DoneMeansRecorded, Fresh
<1>3. OneRowEach(queue)
  BY DEF WorkerInv, RowsGoLast
<1>4. \A x : (Fresh(x)' <=> Fresh(x)) /\ (Queued(x)' <=> Queued(x))
  BY DEF Fresh, Queued, HasRow
<1>5. \A k \in accesses' : Queued(k[1]) \/ ~Fresh(k[1])
  BY DEF WorkerInv, RowsGoLast
<1>6. OneRowEach(queue)'
  BY <1>3 DEF OneRowEach
<1> QED
  BY <1>1, <1>2, <1>4, <1>5, <1>6 DEF RowsGoLast, DoneMeansRecorded, Fresh, Queued

LEMMA DistinctKept ==
  ASSUME WorkerInv, NEW w \in Workers, OthersStay(w), UNCHANGED <<tries, accesses>>,
         \A a \in Attempts : Fresh(a)' => Fresh(a),
         workerPc'[w] \in BusySteps =>
           /\ workerPc[w] \in BusySteps /\ job'[w] = job[w]
           /\ workerPc'[w] \in TrySteps => Reading(w)
           /\ workerPc'[w] # "find"
           /\ workerPc'[w] \in {"lookUp", "readScope"} => workerPc[w] \in {"find", "lookUp"}
           /\ workerPc'[w] # "readFindings"
  PROVE  TriesAreDistinct'
<1>0. /\ \A v \in Workers : workerPc[v] \in BusySteps => job[v] \in JobType
      /\ accesses \subseteq Attempts \X Nat \X ReadSteps
      /\ BusySteps \subseteq WorkerSteps /\ TrySteps \subseteq BusySteps /\ "find" \in BusySteps
      /\ "find" \notin TrySteps
      /\ {"lookUp", "readScope", "readFindings"} \subseteq TrySteps
  BY StepsAreSteps DEF WorkerInv, WorkerTypeOK, JobType
<1>1. ASSUME NEW v \in Workers, workerPc'[v] \in BusySteps
      PROVE  /\ workerPc[v] \in BusySteps /\ job'[v] = job[v] /\ job[v].attempt \in Attempts
             /\ Reading(v)' => Reading(v)
             /\ workerPc'[v] \in {"find", "lookUp", "readScope"} =>
                  workerPc[v] \in {"find", "lookUp", "readScope"}
             /\ workerPc'[v] \in {"find", "lookUp", "readScope", "readFindings"} =>
                  workerPc[v] \in {"find", "lookUp", "readScope", "readFindings"}
  <2>1. CASE v = w
    BY <2>1, <1>0, <1>1 DEF Reading, JobType
  <2>2. CASE v # w
    <3>1. workerPc'[v] = workerPc[v] /\ job'[v] = job[v]
      BY <2>2 DEF OthersStay
    <3>2. job[v].attempt \in Attempts
      BY <3>1, <1>0, <1>1 DEF JobType
    <3> QED
      BY <3>1, <3>2, <1>1 DEF Reading
  <2> QED
    BY <2>1, <2>2
<1>2. ASSUME NEW v \in Workers, workerPc'[v] \in BusySteps, jobResult'[job'[v].attempt] = NoResult
      PROVE  job'[v].try <= tries[job'[v].attempt]
  <2>1. Fresh(job[v].attempt)
    BY <1>1, <1>2 DEF Fresh
  <2> QED
    BY <2>1, <1>1, <1>2 DEF WorkerInv, TriesAreDistinct
<1>3. \A k \in accesses : Fresh(k[1])' => k[2] <= tries[k[1]]
  BY <1>0 DEF WorkerInv, TriesAreDistinct
<1>4. \A v \in Workers : Reading(v)' => workerPc'[v] \in BusySteps
  BY <1>0 DEF Reading
<1>5. \A u, v \in Workers : u # v /\ Reading(u)' /\ Reading(v)' => job'[u] # job'[v]
  BY <1>1, <1>4 DEF WorkerInv, TriesAreDistinct
<1>6. ASSUME NEW v \in Workers, Reading(v)'
      PROVE  /\ workerPc'[v] \in {"find", "lookUp", "readScope"} =>
                  AccessKey(v, "readScope")' \notin accesses
             /\ workerPc'[v] \in {"find", "lookUp", "readScope", "readFindings"} =>
                  AccessKey(v, "readFindings")' \notin accesses
  <2>1. AccessKey(v, "readScope")' = AccessKey(v, "readScope")
        /\ AccessKey(v, "readFindings")' = AccessKey(v, "readFindings")
    BY <1>1, <1>4, <1>6 DEF AccessKey
  <2> QED
    BY <2>1, <1>1, <1>4, <1>6 DEF WorkerInv, TriesAreDistinct
<1> QED
  BY <1>2, <1>3, <1>5, <1>6 DEF TriesAreDistinct, Fresh

LEMMA GivingUpIsFinite ==
  ASSUME WorkerInv, NEW a
  PROVE  /\ IsFiniteSet(GivingUp(a)) /\ Cardinality(GivingUp(a)) \in Nat
         /\ Cardinality(Workers) \in Nat /\ Cardinality(GivingUp(a)) <= Cardinality(Workers)
<1>1. GivingUp(a) \in SUBSET Workers
  BY DEF GivingUp
<1> QED
  BY <1>1, WorkerAssumption, FS_Subset, FS_CardinalityType

LEMMA CountedKept ==
  ASSUME WorkerInv, WorkerTypeOK', UNCHANGED tries,
         \A a \in Attempts : Queued(a)' => Queued(a) /\ GivingUp(a) \subseteq GivingUp(a)',
         UNCHANGED aborts
  PROVE  TriesAreCounted'
<1>1. ASSUME NEW a \in Attempts, Queued(a)'
      PROVE  tries[a] <= MaxAttempts + Cardinality(GivingUp(a)') + aborts
  <2>1. GivingUp(a) \in SUBSET GivingUp(a)' /\ GivingUp(a)' \in SUBSET Workers
    BY <1>1 DEF GivingUp
  <2>2. IsFiniteSet(GivingUp(a)')
    BY <2>1, WorkerAssumption, FS_Subset
  <2>3. /\ Cardinality(GivingUp(a)) <= Cardinality(GivingUp(a)')
        /\ Cardinality(GivingUp(a)) \in Nat /\ Cardinality(GivingUp(a)') \in Nat
    BY <2>1, <2>2, FS_Subset, FS_CardinalityType, GivingUpIsFinite
  <2>4. tries[a] <= MaxAttempts + Cardinality(GivingUp(a)) + aborts /\ tries[a] \in Nat
        /\ aborts \in Nat
    BY <1>1, WorkerAssumption DEF WorkerInv, TriesAreCounted, WorkerTypeOK
  <2> QED
    BY <2>3, <2>4, WorkerAssumption
<1> QED
  BY <1>1 DEF TriesAreCounted, WorkerInv, ClaimsAreBounded

-----------------------------------------------------------------------------
(* A worker moves on within its job; the tables but the draft sets stay. *)
LEMMA JobGoesOn ==
  ASSUME WorkerInv, NEW w \in Workers,
         UNCHANGED <<queue, claim, tries, jobResult, accesses, aborts, job>>,
         workerPc' \in [Workers -> WorkerSteps], found' \in [Workers -> JobResults \cup {NoResult}],
         \A v \in Workers : v # w => workerPc'[v] = workerPc[v] /\ found'[v] = found[v],
         draftBytes \subseteq draftBytes', draftRows \subseteq draftRows',
         classified \subseteq classified', draftRows' \subseteq draftBytes',
         draftBytes' \subseteq Drafts, classified' \subseteq Drafts,
         workerPc[w] \in BusySteps, workerPc'[w] \in BusySteps, workerPc[w] # "complete",
         workerPc'[w] = "complete" => ~Fresh(job[w].attempt),
         workerPc'[w] \in TrySteps => Reading(w) /\ workerPc[w] \notin {"record", "complete"},
         workerPc'[w] # "find", workerPc'[w] # "readFindings",
         workerPc'[w] \in {"lookUp", "readScope"} => workerPc[w] \in {"find", "lookUp"},
         workerPc[w] = "find" /\ job[w].try > MaxAttempts => workerPc'[w] \in {"record", "complete"},
         workerPc[w] = "record" => workerPc'[w] = "complete",
         workerPc'[w] \in {"putSelect", "putBytes", "putRow", "classify"} =>
            /\ found'[w].outcome = "normalized" /\ found'[w].draft \in Drafts
            /\ found'[w].draft.attempt = job[w].attempt /\ found'[w] \in JobResults,
         workerPc'[w] = "putRow" => found'[w].draft \in draftBytes',
         workerPc'[w] = "classify" => found'[w].draft \in draftRows',
         workerPc'[w] = "record" =>
            /\ found'[w] \in JobResults
            /\ found'[w].outcome = "normalized" =>
                 /\ found'[w].draft.attempt = job[w].attempt
                 /\ found'[w].draft \in draftBytes' \cap draftRows' \cap classified'
  PROVE  WorkerInv'
<1>1. OthersStay(w)
  BY DEF OthersStay
<1>2. WorkerTypeOK'
  <2>1. \A v \in Workers : workerPc'[v] \in BusySteps => job[v] \in [attempt : Attempts, try : Nat]
    BY DEF WorkerInv, WorkerTypeOK
  <2>2. draftRows' \subseteq Drafts
    OBVIOUS
  <2> QED
    BY <2>1, <2>2 DEF WorkerInv, WorkerTypeOK
<1>3. ResultsAreTrue'
  BY <1>1, ResultsKept
<1>4. RowsGoLast'
  <2>1. Queued(job[w].attempt) \/ ~Fresh(job[w].attempt)
    BY DEF WorkerInv, RowsGoLast, DoneMeansRecorded, Fresh
  <2> QED
    BY <1>1, <2>1, RowsKept
<1>5. TriesAreDistinct'
  <2>1. \A a \in Attempts : Fresh(a)' => Fresh(a)
    BY DEF Fresh
  <2> QED
    BY <1>1, <2>1, DistinctKept
<1>6. TriesAreCounted'
  <2>1. \A a : Queued(a)' => Queued(a)
    BY DEF Queued, HasRow
  <2>2. ASSUME NEW a, NEW v \in GivingUp(a) PROVE v \in GivingUp(a)'
    <3>1. v \in Workers /\ workerPc[v] \in {"find", "record", "complete"} /\ job[v].attempt = a
          /\ job[v].try > MaxAttempts
      BY <2>2 DEF GivingUp
    <3>2. workerPc'[v] \in {"find", "record", "complete"}
      BY <3>1
    <3> QED
      BY <3>1, <3>2 DEF GivingUp
  <2>3. \A a \in Attempts : Queued(a)' => Queued(a) /\ GivingUp(a) \subseteq GivingUp(a)'
    BY <2>1, <2>2
  <2> QED
    BY <2>3, <1>2, CountedKept
<1> QED
  BY <1>2, <1>3, <1>4, <1>5, <1>6 DEF WorkerInv

LEMMA FindKeeps ==
  ASSUME WorkerInv, NEW w \in Workers, FindResult(w)
  PROVE  WorkerInv'
<1>0. /\ workerPc[w] = "find" /\ WorkerTypeOK
      /\ draftBytes \subseteq Drafts /\ classified \subseteq Drafts /\ draftRows \subseteq draftBytes
      /\ UNCHANGED <<queue, claim, tries, jobResult, accesses, aborts, job, draftBytes, draftRows, classified>>
      /\ found \in [Workers -> JobResults \cup {NoResult}]
      /\ job[w].try \in Nat /\ MaxAttempts \in Nat
  BY WorkerAssumption, StepsAreSteps DEF FindResult, rows, drafts, WorkerInv, WorkerTypeOK, ResultsAreTrue
<1>1. {"find", "record", "complete", "lookUp"} \subseteq BusySteps /\ "lookUp" \in TrySteps
      /\ BusySteps \subseteq WorkerSteps /\ "record" \notin TrySteps /\ "complete" \notin TrySteps
  BY StepsAreSteps
<1>2. CASE ~Fresh(job[w].attempt) /\ WorkerGoto(w, "complete") /\ UNCHANGED found
  <2>1. /\ workerPc' \in [Workers -> WorkerSteps] /\ workerPc'[w] = "complete"
        /\ \A v \in Workers : v # w => workerPc'[v] = workerPc[v]
    BY <1>0, <1>1, <1>2, WorkerGotoFacts
  <2> QED
    BY <1>0, <1>1, <1>2, <2>1, JobGoesOn
<1>3. CASE Conclude(w, Rejected("worker_attempts_exhausted"))
  <2>1. Rejected("worker_attempts_exhausted") \in JobResults
        /\ Rejected("worker_attempts_exhausted").outcome = "rejected"
    BY ResultsDiffer DEF Reasons
  <2>2. /\ workerPc' \in [Workers -> WorkerSteps] /\ workerPc'[w] = "record"
        /\ found' \in [Workers -> JobResults \cup {NoResult}]
        /\ found'[w] = Rejected("worker_attempts_exhausted")
        /\ \A v \in Workers : v # w => workerPc'[v] = workerPc[v] /\ found'[v] = found[v]
    BY <1>0, <1>3, <2>1, ConcludeFacts
  <2> QED
    BY <1>0, <1>1, <2>1, <2>2, JobGoesOn
<1>4. CASE Fresh(job[w].attempt) /\ job[w].try <= MaxAttempts /\ WorkerGoto(w, "lookUp")
           /\ UNCHANGED found
  <2>1. /\ workerPc' \in [Workers -> WorkerSteps] /\ workerPc'[w] = "lookUp"
        /\ \A v \in Workers : v # w => workerPc'[v] = workerPc[v]
    BY <1>0, <1>1, <1>4, WorkerGotoFacts
  <2>2. Reading(w) /\ ~(job[w].try > MaxAttempts)
    BY <1>0, <1>4 DEF Reading
  <2> QED
    BY <1>0, <1>1, <1>4, <2>1, <2>2, JobGoesOn
<1> QED
  BY <1>2, <1>3, <1>4 DEF FindResult, Fresh

(* The steps of a try that read nothing. *)
LEMMA TryGoesOn ==
  ASSUME WorkerInv, NEW w \in Workers, NEW step \in TrySteps, workerPc[w] \in TrySteps,
         WorkerGoto(w, step), step # "readFindings",
         step \in {"lookUp", "readScope"} => workerPc[w] = "lookUp",
         UNCHANGED <<queue, claim, tries, jobResult, accesses, aborts, job>>,
         found' \in [Workers -> JobResults \cup {NoResult}],
         \A v \in Workers : v # w => found'[v] = found[v],
         draftBytes \subseteq draftBytes', draftRows \subseteq draftRows', UNCHANGED classified,
         draftRows' \subseteq draftBytes', draftBytes' \subseteq Drafts,
         step \in {"putSelect", "putBytes", "putRow", "classify"} =>
            /\ found'[w].outcome = "normalized" /\ found'[w].draft \in Drafts
            /\ found'[w].draft.attempt = job[w].attempt /\ found'[w] \in JobResults,
         step = "putRow" => found'[w].draft \in draftBytes',
         step = "classify" => found'[w].draft \in draftRows'
  PROVE  WorkerInv'
<1>1. /\ TrySteps \subseteq BusySteps /\ BusySteps \subseteq WorkerSteps
      /\ {"find", "record", "complete"} \cap TrySteps = {}
  BY StepsAreSteps
<1>2. /\ workerPc' \in [Workers -> WorkerSteps] /\ workerPc'[w] = step
      /\ \A v \in Workers : v # w => workerPc'[v] = workerPc[v]
  BY <1>1, WorkerGotoFacts DEF WorkerInv
<1>3. Reading(w)
  BY DEF Reading
<1>4. classified' \subseteq Drafts
  BY DEF WorkerInv, WorkerTypeOK
<1>5. step # "find" /\ step # "record" /\ step # "complete" /\ workerPc[w] # "find"
      /\ workerPc[w] # "record" /\ workerPc[w] # "complete"
  BY <1>1
<1> QED
  BY <1>1, <1>2, <1>3, <1>4, <1>5, JobGoesOn

(* A try that ends in a result. *)
LEMMA TryConcludes ==
  ASSUME WorkerInv, NEW w \in Workers, workerPc[w] \in TrySteps,
         Conclude(w, Rejected("permanent")),
         UNCHANGED <<queue, claim, tries, jobResult, accesses, aborts, job, drafts>>
  PROVE  WorkerInv'
<1>1. /\ TrySteps \subseteq BusySteps /\ BusySteps \subseteq WorkerSteps
      /\ {"find", "record", "complete"} \cap TrySteps = {} /\ "record" \in BusySteps
  BY StepsAreSteps
<1>2. Rejected("permanent") \in JobResults /\ Rejected("permanent").outcome = "rejected"
  BY ResultsDiffer DEF Reasons
<1>3. /\ workerPc' \in [Workers -> WorkerSteps] /\ workerPc'[w] = "record"
      /\ found' \in [Workers -> JobResults \cup {NoResult}] /\ found'[w] = Rejected("permanent")
      /\ \A v \in Workers : v # w => workerPc'[v] = workerPc[v] /\ found'[v] = found[v]
  BY <1>2, ConcludeFacts DEF WorkerInv
<1>4. /\ draftBytes \subseteq Drafts /\ classified \subseteq Drafts /\ draftRows \subseteq draftBytes
      /\ UNCHANGED <<draftBytes, draftRows, classified>>
  BY DEF WorkerInv, WorkerTypeOK, ResultsAreTrue, drafts
<1>5. "record" \notin TrySteps /\ workerPc[w] # "find" /\ workerPc[w] # "record"
      /\ workerPc[w] # "complete"
  BY <1>1
<1> QED
  BY <1>1, <1>2, <1>3, <1>4, <1>5, JobGoesOn

LEMMA TryKeeps ==
  ASSUME WorkerInv, NEW w \in Workers,
         LookUp(w) \/ Normalize(w) \/ PutSelect(w) \/ PutBytes(w) \/ PutRow(w) \/ Classify(w)
  PROVE  WorkerInv'
<1> USE DEF rows, drafts
<1>0. /\ found \in [Workers -> JobResults \cup {NoResult}]
      /\ draftBytes \subseteq Drafts /\ classified \subseteq Drafts /\ draftRows \subseteq draftBytes
  BY DEF WorkerInv, WorkerTypeOK, ResultsAreTrue
<1>1. {"lookUp", "readScope", "normalize", "putSelect", "putBytes", "putRow", "classify", "fail"}
        \subseteq TrySteps
  BY StepsAreSteps
<1>2. workerPc[w] \in {"putSelect", "putBytes", "putRow", "classify"} =>
        /\ found[w].outcome = "normalized" /\ found[w].draft \in Drafts
        /\ found[w].draft.attempt = job[w].attempt /\ found[w] \in JobResults
  BY DEF WorkerInv, ResultsAreTrue
<1>3. workerPc[w] \in TrySteps => job[w].attempt \in Attempts
  BY StepsAreSteps DEF WorkerInv, WorkerTypeOK
<1>4. CASE LookUp(w)
  <2>1. workerPc[w] = "lookUp"
        /\ UNCHANGED <<queue, claim, tries, jobResult, accesses, aborts, job, drafts>>
    BY <1>4 DEF LookUp
  <2>2. CASE WorkerGoto(w, "readScope") /\ UNCHANGED found
    BY <1>0, <1>1, <2>1, <2>2, TryGoesOn
  <2>3. CASE Conclude(w, Rejected("permanent"))
    BY <1>1, <2>1, <2>3, TryConcludes
  <2>4. CASE WorkerGoto(w, "fail") /\ UNCHANGED found
    BY <1>0, <1>1, <2>1, <2>4, TryGoesOn
  <2> QED
    BY <1>4, <2>2, <2>3, <2>4 DEF LookUp
<1>5. CASE Normalize(w)
  <2>1. workerPc[w] = "normalize"
        /\ UNCHANGED <<queue, claim, tries, jobResult, accesses, aborts, job, drafts>>
    BY <1>5 DEF Normalize
  <2>2. CASE Conclude(w, Rejected("permanent"))
    BY <1>1, <2>1, <2>2, TryConcludes
  <2>3. ASSUME NEW t \in Stamps, WorkerGoto(w, "putSelect"),
               found' = [found EXCEPT ![w] = Normalized([attempt |-> job[w].attempt, at |-> t])]
        PROVE  WorkerInv'
    <3> DEFINE d == [attempt |-> job[w].attempt, at |-> t]
    <3>1. d \in Drafts /\ d.attempt = job[w].attempt
      BY <1>1, <1>3, <2>1 DEF Drafts
    <3> HIDE DEF d
    <3>2. /\ Normalized(d) \in JobResults /\ Normalized(d).draft = d
          /\ Normalized(d).outcome = "normalized"
      BY <3>1, ResultsDiffer
    <3>3. found' = [found EXCEPT ![w] = Normalized(d)]
      BY <2>3 DEF d
    <3>4. /\ found' \in [Workers -> JobResults \cup {NoResult}] /\ found'[w] = Normalized(d)
          /\ \A v \in Workers : v # w => found'[v] = found[v]
      BY <3>2, <3>3, <1>0
    <3> QED
      BY <1>0, <1>1, <2>1, <2>3, <3>1, <3>2, <3>4, TryGoesOn
  <2>4. CASE WorkerGoto(w, "fail") /\ UNCHANGED found
    BY <1>0, <1>1, <2>1, <2>4, TryGoesOn
  <2> QED
    BY <1>5, <2>2, <2>3, <2>4 DEF Normalize
<1>6. CASE PutSelect(w)
  <2>1. workerPc[w] = "putSelect"
        /\ UNCHANGED <<queue, claim, tries, jobResult, accesses, aborts, job, drafts, found>>
    BY <1>6 DEF PutSelect
  <2>2. CASE found[w].draft \in draftRows /\ WorkerGoto(w, "classify")
    BY <1>0, <1>1, <1>2, <2>1, <2>2, TryGoesOn
  <2>3. CASE WorkerGoto(w, "putBytes")
    BY <1>0, <1>1, <1>2, <2>1, <2>3, TryGoesOn
  <2>4. CASE WorkerGoto(w, "fail")
    BY <1>0, <1>1, <2>1, <2>4, TryGoesOn
  <2> QED
    BY <1>6, <2>2, <2>3, <2>4 DEF PutSelect
<1>7. CASE PutBytes(w)
  <2>1. /\ workerPc[w] = "putBytes" /\ WorkerGoto(w, "putRow")
        /\ draftBytes' = draftBytes \cup {found[w].draft}
        /\ UNCHANGED <<queue, claim, tries, jobResult, accesses, aborts, job, draftRows, classified, found>>
    BY <1>7 DEF PutBytes
  <2> QED
    BY <1>0, <1>1, <1>2, <2>1, TryGoesOn
<1>8. CASE PutRow(w)
  <2>1. /\ workerPc[w] = "putRow" /\ WorkerGoto(w, "classify")
        /\ draftRows' = draftRows \cup {found[w].draft}
        /\ UNCHANGED <<queue, claim, tries, jobResult, accesses, aborts, job, draftBytes, classified, found>>
    BY <1>8 DEF PutRow
  <2>2. found[w].draft \in draftBytes
    BY <2>1 DEF WorkerInv, ResultsAreTrue
  <2> QED
    BY <1>0, <1>1, <1>2, <2>1, <2>2, TryGoesOn
<1>9. CASE Classify(w)
  <2>1. /\ workerPc[w] = "classify" /\ WorkerGoto(w, "record")
        /\ classified' = classified \cup {found[w].draft}
        /\ UNCHANGED <<queue, claim, tries, jobResult, accesses, aborts, job, draftBytes, draftRows, found>>
    BY <1>9 DEF Classify
  <2>2. found[w].draft \in draftRows
    BY <2>1 DEF WorkerInv, ResultsAreTrue
  <2>3. /\ "record" \in WorkerSteps /\ "record" \in BusySteps /\ "classify" \in BusySteps
        /\ "record" \notin TrySteps
    BY StepsAreSteps
  <2>4. /\ workerPc' \in [Workers -> WorkerSteps] /\ workerPc'[w] = "record"
        /\ \A v \in Workers : v # w => workerPc'[v] = workerPc[v]
    BY <2>1, <2>3, WorkerGotoFacts DEF WorkerInv
  <2> QED
    BY <1>0, <1>2, <2>1, <2>2, <2>3, <2>4, JobGoesOn
<1> QED
  BY <1>4, <1>5, <1>6, <1>7, <1>8, <1>9

(* A read logs a key no other worker has and no try had before. *)
LEMMA ReadKeeps ==
  ASSUME WorkerInv, NEW w \in Workers, NEW step, NEW next, ReadArtifact(w, step, next),
         \/ step = "readScope" /\ next = "readFindings"
         \/ step = "readFindings" /\ next = "normalize"
  PROVE  WorkerInv'
<1> USE DEF rows, drafts
<1>0. /\ found \in [Workers -> JobResults \cup {NoResult}]
      /\ draftBytes \subseteq Drafts /\ classified \subseteq Drafts /\ draftRows \subseteq draftBytes
      /\ workerPc[w] = step /\ UNCHANGED <<queue, claim, tries, jobResult, drafts, job, found, aborts>>
  BY DEF WorkerInv, WorkerTypeOK, ResultsAreTrue, ReadArtifact
<1>1. /\ TrySteps = {"lookUp", "readScope", "readFindings", "normalize", "putSelect", "putBytes",
                     "putRow", "classify", "fail"}
      /\ TrySteps \subseteq BusySteps /\ BusySteps \subseteq WorkerSteps /\ "find" \in BusySteps
  BY StepsAreSteps
<1>2. CASE WorkerGoto(w, "fail") /\ UNCHANGED accesses
  BY <1>0, <1>1, <1>2, TryGoesOn
<1>3. ASSUME NEW to \in {next, "fail"}, WorkerGoto(w, to), AccessKey(w, step) \notin accesses,
             accesses' = accesses \cup {AccessKey(w, step)}
      PROVE  WorkerInv'
  <2> DEFINE K == AccessKey(w, step)
  <2>1. /\ to \in TrySteps /\ workerPc' \in [Workers -> WorkerSteps] /\ workerPc'[w] = to
        /\ \A v \in Workers : v # w => workerPc'[v] = workerPc[v]
    BY <1>1, <1>3, WorkerGotoFacts DEF WorkerInv
  <2>2. job[w] \in JobType /\ job[w].attempt \in Attempts /\ job[w].try \in Nat
    BY <1>0, <1>1 DEF WorkerInv, WorkerTypeOK, JobType
  <2>3. K = <<job[w].attempt, job[w].try, step>> /\ K[1] = job[w].attempt /\ K[2] = job[w].try
    BY DEF AccessKey
  <2>4. K \in Attempts \X Nat \X ReadSteps
    BY <2>2, <2>3 DEF ReadSteps
  <2> HIDE DEF K
  <2>5. accesses' = accesses \cup {K}
    BY <1>3 DEF K
  <2>6. WorkerTypeOK'
    <3>1. accesses' \subseteq Attempts \X Nat \X ReadSteps
      BY <2>4, <2>5 DEF WorkerInv, WorkerTypeOK
    <3>2. \A v \in Workers : workerPc'[v] \in BusySteps => job[v] \in [attempt : Attempts, try : Nat]
      BY <2>1, <2>2 DEF WorkerInv, WorkerTypeOK, JobType
    <3> QED
      BY <1>0, <2>1, <3>1, <3>2 DEF WorkerInv, WorkerTypeOK
  <2>7. OthersStay(w) /\ Reading(w)
    BY <1>0, <1>1, <2>1 DEF OthersStay, Reading
  <2>8. workerPc'[w] \in {"readFindings", "normalize", "fail"}
    BY <2>1
  <2>9. ResultsAreTrue'
    BY <1>0, <2>7, <2>8, ResultsKept
  <2>10. Queued(job[w].attempt) \/ ~Fresh(job[w].attempt)
    BY <1>0, <1>1 DEF WorkerInv, RowsGoLast, DoneMeansRecorded, Fresh
  <2>11. RowsGoLast'
    BY <1>0, <2>3, <2>5, <2>7, <2>8, <2>10, RowsKept
  <2>12. TriesAreCounted'
    <3>1. \A a : Queued(a)' => Queued(a)
      BY <1>0 DEF Queued, HasRow
    <3>2. \A a : GivingUp(a) \subseteq GivingUp(a)'
      BY <1>0, <2>1 DEF GivingUp
    <3> QED
      BY <1>0, <2>6, <3>1, <3>2, CountedKept
  <2>13. TriesAreDistinct'
    <3>1. \A v \in Workers : /\ Reading(v)' => Reading(v)
                             /\ workerPc'[v] \in BusySteps => workerPc[v] \in BusySteps
      BY <1>0, <1>1, <2>1 DEF Reading, Fresh
    <3>2. \A v \in Workers : workerPc'[v] \in BusySteps /\ jobResult'[job'[v].attempt] = NoResult =>
            job'[v].try <= tries'[job'[v].attempt]
      BY <1>0, <3>1 DEF WorkerInv, TriesAreDistinct, Fresh
    <3>3. \A k \in accesses' : jobResult'[k[1]] = NoResult => k[2] <= tries'[k[1]]
      <4>1. jobResult[K[1]] = NoResult => K[2] <= tries[K[1]]
        BY <1>0, <1>1, <2>3 DEF WorkerInv, TriesAreDistinct, Fresh
      <4> QED
        BY <1>0, <2>5, <4>1 DEF WorkerInv, TriesAreDistinct, Fresh
    <3>4. \A u, v \in Workers : u # v /\ Reading(u)' /\ Reading(v)' => job'[u] # job'[v]
      BY <1>0, <3>1 DEF WorkerInv, TriesAreDistinct
    <3>5. ASSUME NEW v \in Workers, Reading(v)'
          PROVE  /\ workerPc'[v] \in {"find", "lookUp", "readScope"} =>
                      AccessKey(v, "readScope")' \notin accesses'
                 /\ workerPc'[v] \in {"find", "lookUp", "readScope", "readFindings"} =>
                      AccessKey(v, "readFindings")' \notin accesses'
      <4>0. AccessKey(v, "readScope")' = AccessKey(v, "readScope")
            /\ AccessKey(v, "readFindings")' = AccessKey(v, "readFindings")
        BY <1>0 DEF AccessKey
      <4>1. CASE v = w
        <5>1. workerPc'[v] \notin {"find", "lookUp", "readScope"}
          BY <4>1, <2>8
        <5>2. CASE workerPc'[v] = "readFindings"
          <6>1. step = "readScope" /\ AccessKey(v, "readFindings") \notin accesses
            BY <4>1, <5>2, <1>0, <2>1, <2>7 DEF WorkerInv, TriesAreDistinct
          <6>2. AccessKey(v, "readFindings") # K
            BY <6>1, <2>3 DEF AccessKey
          <6> QED
            BY <4>0, <5>1, <6>1, <6>2, <2>5
        <5> QED
          BY <5>1, <5>2
      <4>2. CASE v # w
        <5>1. workerPc'[v] = workerPc[v] /\ Reading(v) /\ job[v] # job[w]
          BY <4>2, <2>1, <2>7, <3>1, <3>5 DEF WorkerInv, TriesAreDistinct
        <5>2. /\ workerPc[v] \in {"find", "lookUp", "readScope"} =>
                   AccessKey(v, "readScope") \notin accesses
              /\ workerPc[v] \in {"find", "lookUp", "readScope", "readFindings"} =>
                   AccessKey(v, "readFindings") \notin accesses
          BY <5>1 DEF WorkerInv, TriesAreDistinct
        <5>3. job[v] \in JobType
          BY <5>1, <1>1 DEF Reading, WorkerInv, WorkerTypeOK, JobType
        <5>4. job[v].attempt # job[w].attempt \/ job[v].try # job[w].try
          BY <5>1, <5>3, <2>2 DEF JobType
        <5>5. AccessKey(v, "readScope") # K /\ AccessKey(v, "readFindings") # K
          BY <5>4, <2>3 DEF AccessKey
        <5> QED
          BY <4>0, <5>1, <5>2, <5>5, <2>5
      <4> QED
        BY <4>1, <4>2
    <3> QED
      BY <3>2, <3>3, <3>4, <3>5 DEF TriesAreDistinct, Fresh
  <2> QED
    BY <2>6, <2>9, <2>11, <2>12, <2>13 DEF WorkerInv
<1> QED
  BY <1>2, <1>3 DEF ReadArtifact

-----------------------------------------------------------------------------
(* Claims may be taken away at any moment: nothing else speaks of them. *)
LEMMA ClaimsDoNotMatter ==
  ASSUME WorkerInv, claim' \in [Attempts -> {"free", "held", "stale"}],
         UNCHANGED <<queue, tries, jobResult, accesses, drafts, workerPc, job, found, aborts>>
  PROVE  WorkerInv'
<1> USE DEF drafts
<1>1. WorkerTypeOK'
  BY DEF WorkerInv, WorkerTypeOK
<1>2. ResultsAreTrue'
  BY DEF WorkerInv, ResultsAreTrue, NormalizedIsStored
<1>3. \A x : (Fresh(x)' <=> Fresh(x)) /\ (Queued(x)' <=> Queued(x))
  BY DEF Fresh, Queued
<1>4. RowsGoLast'
  BY <1>3 DEF WorkerInv, RowsGoLast, DoneMeansRecorded, OneRowEach, Fresh
<1>5. TriesAreDistinct'
  BY <1>3 DEF WorkerInv, TriesAreDistinct, Reading, AccessKey, Fresh
<1>6. TriesAreCounted'
  <2>1. \A a : GivingUp(a)' = GivingUp(a)
    BY DEF GivingUp
  <2> QED
    BY <2>1, <1>3 DEF WorkerInv, TriesAreCounted, ClaimsAreBounded
<1> QED
  BY <1>1, <1>2, <1>4, <1>5, <1>6 DEF WorkerInv

(* A worker puts its job down: the row stays, or its attempt has a result. *)
LEMMA WorkerRests ==
  ASSUME WorkerInv, WorkerTypeOK', NEW w \in Workers, OthersStay(w),
         workerPc'[w] \in {"asleep", "claim"},
         UNCHANGED <<jobResult, drafts, accesses, tries>>, OneRowEach(queue'),
         \A a \in Attempts : /\ Queued(a)' => Queued(a)
                             /\ Queued(a) => Queued(a)' \/ ~Fresh(a),
         \/ aborts' = aborts + 1
         \/ /\ aborts' = aborts
            /\ \A a \in Attempts : Queued(a)' => w \notin GivingUp(a)
  PROVE  WorkerInv'
<1> USE DEF drafts
<1>0. /\ "asleep" \notin BusySteps /\ "claim" \notin BusySteps /\ "complete" \in BusySteps
      /\ BusySteps \subseteq WorkerSteps /\ TrySteps \subseteq BusySteps
  BY StepsAreSteps
<1>1. workerPc'[w] \notin BusySteps /\ workerPc'[w] # "complete"
  BY <1>0
<1>2. ResultsAreTrue'
  <2>1. draftRows' \subseteq draftBytes'
    BY DEF WorkerInv, ResultsAreTrue
  <2> QED
    BY <2>1, ResultsKept
<1>3. \A x : Fresh(x)' <=> Fresh(x)
  BY DEF Fresh
<1>7. \A a \in Attempts : /\ HasRow(queue', a) <=> Queued(a)'
                          /\ Queued(a) => HasRow(queue', a) \/ ~Fresh(a)
  BY DEF Queued
<1>4. RowsGoLast'
  <2>1. \A v \in Workers : workerPc'[v] = "complete" => ~Fresh(job'[v].attempt)
    BY <1>1 DEF OthersStay, WorkerInv, RowsGoLast
  <2>2. ASSUME NEW v \in Workers, workerPc'[v] \in BusySteps \ {"complete"}
        PROVE  HasRow(queue', job'[v].attempt) \/ ~Fresh(job'[v].attempt)
    <3>1. v # w /\ workerPc'[v] = workerPc[v] /\ job'[v] = job[v]
      BY <1>1, <2>2 DEF OthersStay
    <3>2. job[v].attempt \in Attempts
      BY <3>1, <2>2 DEF WorkerInv, WorkerTypeOK
    <3>3. Queued(job[v].attempt) \/ ~Fresh(job[v].attempt)
      BY <3>1, <2>2 DEF WorkerInv, RowsGoLast, DoneMeansRecorded, Fresh
    <3>4. HasRow(queue', job[v].attempt) \/ ~Fresh(job[v].attempt)
      BY <3>2, <3>3, <1>7
    <3> QED
      BY <3>1, <3>4
  <2>3. \A k \in accesses' : HasRow(queue', k[1]) \/ ~Fresh(k[1])
    BY <1>7 DEF WorkerInv, WorkerTypeOK, RowsGoLast
  <2> QED
    BY <2>1, <2>2, <2>3, <1>3 DEF RowsGoLast, DoneMeansRecorded, OneRowEach, Fresh, Queued
<1>5. TriesAreDistinct'
  BY <1>1, <1>3, DistinctKept
<1>6. TriesAreCounted'
  <2>1. ASSUME NEW a \in Attempts, Queued(a)'
        PROVE  tries[a] <= MaxAttempts + Cardinality(GivingUp(a)') + aborts'
    <3> DEFINE G == GivingUp(a)
               H == GivingUp(a)'
    <3>1. G \ {w} \in SUBSET H /\ H \in SUBSET Workers
      BY DEF GivingUp, OthersStay
    <3>2. IsFiniteSet(G) /\ Cardinality(G) \in Nat
      BY GivingUpIsFinite
    <3> HIDE DEF G, H
    <3>3. IsFiniteSet(H) /\ Cardinality(H) \in Nat
      BY <3>1, WorkerAssumption, FS_Subset, FS_CardinalityType
    <3>4. Cardinality(G \ {w}) <= Cardinality(H)
      BY <3>1, <3>3, FS_Subset
    <3>5. Cardinality(G \ {w}) = IF w \in G THEN Cardinality(G) - 1 ELSE Cardinality(G)
      BY <3>2, FS_RemoveElement
    <3>6. tries[a] <= MaxAttempts + Cardinality(G) + aborts
      BY <2>1 DEF G, WorkerInv, TriesAreCounted
    <3>7. tries[a] \in Nat /\ aborts \in Nat /\ MaxAttempts \in Nat /\ aborts' \in Nat
      BY WorkerAssumption DEF WorkerInv, WorkerTypeOK
    <3>8. aborts' = aborts + 1 \/ (aborts' = aborts /\ w \notin G)
      BY <2>1 DEF G
    <3>9. tries[a] <= MaxAttempts + Cardinality(H) + aborts'
      BY <3>2, <3>3, <3>4, <3>5, <3>6, <3>7, <3>8
    <3> QED
      BY <3>9 DEF H
  <2> QED
    BY <2>1 DEF TriesAreCounted, WorkerInv, ClaimsAreBounded
<1> QED
  BY <1>2, <1>4, <1>5, <1>6 DEF WorkerInv

(* Dying, failing and finishing, and a pass that starts or finds nothing.  *)
LEMMA AbortKeeps ==
  ASSUME WorkerInv, NEW w \in Workers, Abort(w)
  PROVE  WorkerInv'
<1> USE DEF rows, drafts
<1>1. WorkerTypeOK /\ "asleep" \in WorkerSteps /\ "asleep" \notin BusySteps
  BY StepsAreSteps DEF WorkerInv
<1>2. /\ workerPc' \in [Workers -> WorkerSteps] /\ workerPc'[w] = "asleep"
      /\ \A v \in Workers : v # w => workerPc'[v] = workerPc[v]
  BY <1>1, WorkerGotoFacts DEF Abort
<1>3. /\ job' \in [Workers -> JobType \cup {NoJob}] /\ job'[w] = NoJob
      /\ found' \in [Workers -> JobResults \cup {NoResult}] /\ found'[w] = NoResult
      /\ \A v \in Workers : v # w => job'[v] = job[v] /\ found'[v] = found[v]
  BY <1>1, ForgetFacts DEF Abort
<1>4. OthersStay(w)
  BY <1>2, <1>3 DEF OthersStay
<1>5. aborts' = aborts + 1 /\ aborts' \in 0 .. MaxAborts
      /\ UNCHANGED <<queue, claim, tries, jobResult, accesses, draftBytes, draftRows, classified>>
  BY <1>1, WorkerAssumption DEF Abort, WorkerTypeOK
<1>6. WorkerTypeOK'
  <2>1. \A v \in Workers : workerPc'[v] \in BusySteps => job'[v] \in [attempt : Attempts, try : Nat]
    BY <1>1, <1>2, <1>3 DEF WorkerTypeOK
  <2> QED
    BY <1>1, <1>2, <1>3, <1>5, <2>1 DEF WorkerTypeOK, JobType
<1>7. OneRowEach(queue') /\ \A a : Queued(a)' <=> Queued(a)
  BY <1>5 DEF WorkerInv, RowsGoLast, OneRowEach, Queued
<1> QED
  BY <1>2, <1>4, <1>5, <1>6, <1>7, WorkerRests

LEMMA FailKeeps ==
  ASSUME WorkerInv, NEW w \in Workers, FailJob(w)
  PROVE  WorkerInv'
<1> USE DEF rows, drafts
<1>1. WorkerTypeOK /\ "asleep" \in WorkerSteps /\ "asleep" \notin BusySteps
  BY StepsAreSteps DEF WorkerInv
<1>2. /\ workerPc' \in [Workers -> WorkerSteps] /\ workerPc'[w] = "asleep"
      /\ \A v \in Workers : v # w => workerPc'[v] = workerPc[v]
  BY <1>1, WorkerGotoFacts DEF FailJob
<1>3. /\ job' \in [Workers -> JobType \cup {NoJob}] /\ job'[w] = NoJob
      /\ found' \in [Workers -> JobResults \cup {NoResult}] /\ found'[w] = NoResult
      /\ \A v \in Workers : v # w => job'[v] = job[v] /\ found'[v] = found[v]
  BY <1>1, ForgetFacts DEF FailJob
<1>4. OthersStay(w)
  BY <1>2, <1>3 DEF OthersStay
<1>5. /\ UNCHANGED <<queue, tries, jobResult, accesses, draftBytes, draftRows, classified, aborts>>
      /\ claim' \in [Attempts -> {"free", "held", "stale"}]
  BY <1>1 DEF FailJob, ReleaseRow, WorkerTypeOK
<1>6. WorkerTypeOK'
  <2>1. \A v \in Workers : workerPc'[v] \in BusySteps => job'[v] \in [attempt : Attempts, try : Nat]
    BY <1>1, <1>2, <1>3 DEF WorkerTypeOK
  <2> QED
    BY <1>1, <1>2, <1>3, <1>5, <2>1 DEF WorkerTypeOK, JobType
<1>7. OneRowEach(queue') /\ \A a : Queued(a)' <=> Queued(a)
  BY <1>5 DEF WorkerInv, RowsGoLast, OneRowEach, Queued
<1>8. \A a : w \notin GivingUp(a)
  BY DEF FailJob, GivingUp
<1> QED
  BY <1>2, <1>4, <1>5, <1>6, <1>7, <1>8, WorkerRests

LEMMA CompleteKeeps ==
  ASSUME WorkerInv, NEW w \in Workers, Complete(w)
  PROVE  WorkerInv'
<1> USE DEF rows, drafts
<1>1. /\ WorkerTypeOK /\ "claim" \in WorkerSteps /\ "claim" \notin BusySteps
      /\ workerPc[w] = "complete" /\ ~Fresh(job[w].attempt)
  BY StepsAreSteps DEF WorkerInv, RowsGoLast, Complete
<1>2. /\ workerPc' \in [Workers -> WorkerSteps] /\ workerPc'[w] = "claim"
      /\ \A v \in Workers : v # w => workerPc'[v] = workerPc[v]
  BY <1>1, WorkerGotoFacts DEF Complete
<1>3. /\ job' \in [Workers -> JobType \cup {NoJob}] /\ job'[w] = NoJob
      /\ found' \in [Workers -> JobResults \cup {NoResult}] /\ found'[w] = NoResult
      /\ \A v \in Workers : v # w => job'[v] = job[v] /\ found'[v] = found[v]
  BY <1>1, ForgetFacts DEF Complete
<1>4. OthersStay(w)
  BY <1>2, <1>3 DEF OthersStay
<1>5. /\ UNCHANGED <<claim, tries, jobResult, accesses, draftBytes, draftRows, classified, aborts>>
      /\ queue' = Without(queue, job[w].attempt)
  BY DEF Complete, DeleteRow
<1>6. /\ queue' \in Seq(Attempts) /\ OneRowEach(queue')
      /\ ~HasRow(queue', job[w].attempt)
      /\ \A x : x # job[w].attempt => (HasRow(queue', x) <=> HasRow(queue, x))
  <2>1. queue \in Seq(Attempts) /\ OneRowEach(queue)
    BY <1>1 DEF WorkerTypeOK, WorkerInv, RowsGoLast
  <2> QED
    BY <2>1, <1>5, WithoutRow
<1>7. WorkerTypeOK'
  <2>1. \A v \in Workers : workerPc'[v] \in BusySteps => job'[v] \in [attempt : Attempts, try : Nat]
    BY <1>1, <1>2, <1>3 DEF WorkerTypeOK
  <2> QED
    BY <1>1, <1>2, <1>3, <1>5, <1>6, <2>1 DEF WorkerTypeOK, JobType
<1>8. \A a : Queued(a)' <=> HasRow(queue', a)
  BY DEF Queued
<1>9. \A a : /\ Queued(a)' => Queued(a) /\ a # job[w].attempt
             /\ Queued(a) => Queued(a)' \/ ~Fresh(a)
  BY <1>1, <1>6, <1>8 DEF Queued
<1>10. \A a : Queued(a)' => w \notin GivingUp(a)
  BY <1>9 DEF GivingUp
<1> QED
  BY <1>2, <1>4, <1>5, <1>6, <1>7, <1>9, <1>10, WorkerRests

LEMMA StartKeeps ==
  ASSUME WorkerInv, NEW w \in Workers,
         workerPc[w] \in {"asleep", "claim"}, NEW step \in {"asleep", "claim"}, WorkerGoto(w, step),
         claim' \in [Attempts -> {"free", "held", "stale"}],
         UNCHANGED <<queue, tries, jobResult, accesses, drafts, job, found, aborts>>
  PROVE  WorkerInv'
<1> USE DEF drafts
<1>1. /\ WorkerTypeOK /\ "claim" \in WorkerSteps /\ "asleep" \in WorkerSteps
      /\ "claim" \notin BusySteps /\ "asleep" \notin BusySteps
  BY StepsAreSteps DEF WorkerInv
<1>2. /\ workerPc' \in [Workers -> WorkerSteps] /\ workerPc'[w] = step
      /\ \A v \in Workers : v # w => workerPc'[v] = workerPc[v]
  BY <1>1, WorkerGotoFacts
<1>3. OthersStay(w)
  BY <1>2 DEF OthersStay
<1>4. WorkerTypeOK'
  <2>1. \A v \in Workers : workerPc'[v] \in BusySteps => job'[v] \in [attempt : Attempts, try : Nat]
    BY <1>1, <1>2 DEF WorkerTypeOK
  <2> QED
    BY <1>1, <1>2, <2>1 DEF WorkerTypeOK
<1>5. OneRowEach(queue') /\ \A a : Queued(a)' <=> Queued(a)
  BY DEF WorkerInv, RowsGoLast, OneRowEach, Queued
<1>6. \A a : w \notin GivingUp(a)
  BY DEF GivingUp
<1> QED
  BY <1>2, <1>3, <1>4, <1>5, <1>6, WorkerRests

-----------------------------------------------------------------------------
(* The first result of an attempt stays, and is one that can be read. *)
LEMMA RecordKeeps ==
  ASSUME WorkerInv, NEW w \in Workers, RecordResult(w)
  PROVE  WorkerInv'
<1> USE DEF rows, drafts
<1> DEFINE a == job[w].attempt
<1>1. /\ WorkerTypeOK /\ {"record", "complete"} \subseteq BusySteps
      /\ "complete" \in WorkerSteps /\ "complete" \notin TrySteps
      /\ workerPc[w] = "record" /\ WorkerGoto(w, "complete")
      /\ UNCHANGED <<queue, claim, tries, accesses, draftBytes, draftRows, classified, job, found, aborts>>
  BY StepsAreSteps DEF WorkerInv, RecordResult
<1>2. /\ workerPc' \in [Workers -> WorkerSteps] /\ workerPc'[w] = "complete"
      /\ \A v \in Workers : v # w => workerPc'[v] = workerPc[v]
  BY <1>1, WorkerGotoFacts
<1>3. /\ a \in Attempts /\ found[w] \in JobResults /\ found[w] # NoResult
      /\ found[w].outcome = "normalized" =>
           /\ found[w].draft.attempt = a
           /\ found[w].draft \in draftBytes \cap draftRows \cap classified
  BY <1>1, ResultsDiffer DEF WorkerTypeOK, WorkerInv, ResultsAreTrue
<1>4. /\ jobResult' \in [Attempts -> JobResults \cup {NoResult}]
      /\ jobResult'[a] = (IF jobResult[a] = NoResult THEN found[w] ELSE jobResult[a])
      /\ \A x \in Attempts : x # a => jobResult'[x] = jobResult[x]
  BY <1>1, <1>3 DEF RecordResult, WorkerTypeOK
<1> HIDE DEF a
<1>5. OthersStay(w)
  BY <1>1, <1>2 DEF OthersStay
<1>6. \A x \in Attempts : jobResult'[x] = NoResult => jobResult[x] = NoResult
  BY <1>3, <1>4
<1>7. jobResult'[a] # NoResult
  BY <1>3, <1>4
<1>8. WorkerTypeOK'
  <2>1. \A v \in Workers : workerPc'[v] \in BusySteps => job'[v] \in [attempt : Attempts, try : Nat]
    BY <1>1, <1>2 DEF WorkerTypeOK
  <2> QED
    BY <1>1, <1>2, <1>4, <2>1 DEF WorkerTypeOK
<1>9. ResultsAreTrue'
  <2>1. NormalizedIsStored'
    BY <1>1, <1>3, <1>4 DEF WorkerInv, ResultsAreTrue, NormalizedIsStored
  <2>2. ASSUME NEW v \in Workers, workerPc'[v] \in {"putSelect", "putBytes", "putRow", "classify", "record"}
        PROVE  workerPc'[v] = workerPc[v]
    BY <1>2, <2>2
  <2>3. \A v \in Workers :
       /\ workerPc'[v] \in {"putSelect", "putBytes", "putRow", "classify"} =>
            /\ found[v].outcome = "normalized" /\ found[v].draft \in Drafts
            /\ found[v].draft.attempt = job[v].attempt
            /\ found[v] \in JobResults
       /\ workerPc'[v] = "putRow" => found[v].draft \in draftBytes
       /\ workerPc'[v] = "classify" => found[v].draft \in draftRows
       /\ workerPc'[v] = "record" =>
            /\ found[v] \in JobResults
            /\ found[v].outcome = "normalized" =>
                 /\ found[v].draft.attempt = job[v].attempt
                 /\ found[v].draft \in draftBytes \cap draftRows \cap classified
    BY <2>2 DEF WorkerInv, ResultsAreTrue
  <2>4. draftRows \subseteq draftBytes
    BY DEF WorkerInv, ResultsAreTrue
  <2> QED
    BY <1>1, <2>1, <2>3, <2>4 DEF ResultsAreTrue
<1>10. RowsGoLast'
  <2>1. \A v \in Workers : workerPc[v] \in BusySteps => job[v].attempt \in Attempts
    BY <1>1 DEF WorkerTypeOK
  <2>2. \A v \in Workers : workerPc'[v] = "complete" => jobResult'[job[v].attempt] # NoResult
    BY <1>1, <1>2, <1>6, <1>7, <2>1 DEF WorkerInv, RowsGoLast, Fresh, a
  <2>3. \A k \in accesses : HasRow(queue, k[1]) \/ jobResult'[k[1]] # NoResult
    <3>1. \A k \in accesses : k[1] \in Attempts
      BY <1>1 DEF WorkerTypeOK
    <3> QED
      BY <3>1, <1>6 DEF WorkerInv, RowsGoLast, Fresh, Queued
  <2>4. \A v \in Workers : workerPc'[v] \in BusySteps \ {"complete"} =>
          HasRow(queue, job[v].attempt) \/ jobResult'[job[v].attempt] # NoResult
    BY <1>1, <1>2, <1>6, <2>1 DEF WorkerInv, RowsGoLast, DoneMeansRecorded, Queued
  <2>5. OneRowEach(queue)
    BY DEF WorkerInv, RowsGoLast
  <2> QED
    BY <1>1, <2>2, <2>3, <2>4, <2>5 DEF RowsGoLast, DoneMeansRecorded, OneRowEach, Fresh, Queued
<1>11. TriesAreDistinct'
  <2>1. \A x \in Attempts : Fresh(x)' => Fresh(x)
    BY <1>6 DEF Fresh
  <2> QED
    BY <1>1, <1>2, <1>5, <2>1, DistinctKept
<1>12. TriesAreCounted'
  <2>1. \A x : Queued(x)' => Queued(x)
    BY <1>1 DEF Queued
  <2>2. \A x : GivingUp(x) \subseteq GivingUp(x)'
    BY <1>1, <1>2 DEF GivingUp
  <2> QED
    BY <1>1, <1>8, <2>1, <2>2, CountedKept
<1> QED
  BY <1>8, <1>9, <1>10, <1>11, <1>12 DEF WorkerInv

(* A claim is a try with a number no worker and no key of the log has. *)
LEMMA ClaimKeeps ==
  ASSUME WorkerInv, NEW w \in Workers, Claim(w)
  PROVE  WorkerInv'
<1> USE DEF rows, drafts
<1> DEFINE a == Oldest(queue, Unclaimed(queue, claim))
<1>1. /\ WorkerTypeOK /\ workerPc[w] = "claim" /\ "find" \in WorkerSteps /\ "find" \in BusySteps
      /\ "find" \notin TrySteps /\ "claim" \notin BusySteps /\ TrySteps \subseteq BusySteps
      /\ UNCHANGED <<queue, jobResult, accesses, draftBytes, draftRows, classified, found, aborts>>
  BY StepsAreSteps DEF WorkerInv, Claim
<1>2. CASE Unclaimed(queue, claim) = {}
  <2>1. WorkerGoto(w, "asleep") /\ UNCHANGED <<claim, tries, job>>
    BY <1>2 DEF Claim
  <2>2. claim' \in [Attempts -> {"free", "held", "stale"}]
    BY <1>1, <2>1 DEF WorkerTypeOK
  <2> QED
    BY <1>1, <2>1, <2>2, StartKeeps
<1>3. CASE Unclaimed(queue, claim) # {}
  <2>1. /\ claim' = [claim EXCEPT ![a] = "held"] /\ tries' = [tries EXCEPT ![a] = @ + 1]
        /\ job' = [job EXCEPT ![w] = [attempt |-> a, try |-> tries[a] + 1]]
        /\ WorkerGoto(w, "find")
    BY <1>3 DEF Claim
  <2>2. a \in Attempts /\ HasRow(queue, a)
    <3>1. queue \in Seq(Attempts)
      BY <1>1 DEF WorkerTypeOK
    <3> QED
      BY <3>1, <1>3, OldestIsRow
  <2> HIDE DEF a
  <2>3. /\ workerPc' \in [Workers -> WorkerSteps] /\ workerPc'[w] = "find"
        /\ \A v \in Workers : v # w => workerPc'[v] = workerPc[v]
    BY <1>1, <2>1, WorkerGotoFacts
  <2>4. /\ tries[a] \in Nat /\ tries' \in [Attempts -> Nat] /\ tries'[a] = tries[a] + 1
        /\ \A x \in Attempts : x # a => tries'[x] = tries[x]
        /\ \A x \in Attempts : tries[x] \in Nat /\ tries[x] <= tries'[x]
    BY <1>1, <2>1, <2>2 DEF WorkerTypeOK
  <2>5. /\ job' \in [Workers -> JobType \cup {NoJob}] /\ job'[w] \in JobType
        /\ job'[w].attempt = a /\ job'[w].try = tries[a] + 1
        /\ \A v \in Workers : v # w => job'[v] = job[v]
    BY <1>1, <2>1, <2>2, <2>4 DEF WorkerTypeOK, JobType
  <2>6. OthersStay(w)
    BY <1>1, <2>3, <2>5 DEF OthersStay
  <2>7. WorkerTypeOK'
    <3>1. \A v \in Workers : workerPc'[v] \in BusySteps => job'[v] \in [attempt : Attempts, try : Nat]
      BY <1>1, <2>3, <2>5 DEF WorkerTypeOK, JobType
    <3>2. claim' \in [Attempts -> {"free", "held", "stale"}]
      BY <1>1, <2>1 DEF WorkerTypeOK
    <3> QED
      BY <1>1, <2>3, <2>4, <2>5, <3>1, <3>2 DEF WorkerTypeOK, JobType
  <2>8. ResultsAreTrue'
    <3>1. draftRows' \subseteq draftBytes'
      BY <1>1 DEF WorkerInv, ResultsAreTrue
    <3> QED
      BY <1>1, <2>3, <2>6, <3>1, ResultsKept
  <2>9. RowsGoLast'
    <3>1. Queued(job'[w].attempt)
      BY <2>2, <2>5 DEF Queued
    <3> QED
      BY <1>1, <2>3, <2>6, <3>1, RowsKept
  <2>10. TriesAreDistinct'
    <3>0. \A v \in Workers : workerPc[v] \in BusySteps =>
            job[v] \in JobType /\ job[v].attempt \in Attempts /\ job[v].try \in Nat
      BY <1>1 DEF WorkerTypeOK, JobType
    <3>1. \A v \in Workers : v # w /\ Reading(v)' => Reading(v) /\ workerPc[v] \in BusySteps
      BY <1>1, <2>3, <2>5 DEF Reading, Fresh
    <3>2. ASSUME NEW v \in Workers, workerPc'[v] \in BusySteps, jobResult'[job'[v].attempt] = NoResult
          PROVE  job'[v].try <= tries'[job'[v].attempt]
      <4>1. CASE v = w
        BY <4>1, <2>4, <2>5
      <4>2. CASE v # w
        <5>1. workerPc[v] \in BusySteps /\ job'[v] = job[v] /\ Fresh(job[v].attempt)
          BY <4>2, <3>2, <1>1, <2>3, <2>5 DEF Fresh
        <5>2. job[v].try <= tries[job[v].attempt]
          BY <5>1 DEF WorkerInv, TriesAreDistinct
        <5> QED
          BY <5>1, <5>2, <3>0, <2>4, <2>7 DEF WorkerTypeOK
      <4> QED
        BY <4>1, <4>2
    <3>3. \A k \in accesses : jobResult[k[1]] = NoResult =>
            k[1] \in Attempts /\ k[2] \in Nat /\ k[2] <= tries[k[1]]
      BY <1>1 DEF WorkerTypeOK, WorkerInv, TriesAreDistinct, Fresh
    <3>4. \A k \in accesses' : jobResult'[k[1]] = NoResult => k[2] <= tries'[k[1]]
      <4> SUFFICES ASSUME NEW k \in accesses, jobResult[k[1]] = NoResult PROVE k[2] <= tries'[k[1]]
        BY <1>1
      <4>1. k[1] \in Attempts /\ k[2] \in Nat /\ k[2] <= tries[k[1]]
        BY <3>3
      <4>2. tries[k[1]] \in Nat /\ tries[k[1]] <= tries'[k[1]] /\ tries'[k[1]] \in Nat
        BY <4>1, <2>4
      <4> QED
        BY <4>1, <4>2
    <3>5. ASSUME NEW v \in Workers, v # w, Reading(v)', Reading(w)' PROVE job'[v] # job'[w]
      <4>1. jobResult[a] = NoResult
        BY <3>5, <1>1, <2>3, <2>5 DEF Reading, Fresh
      <4>2. job'[v] = job[v] /\ workerPc[v] \in BusySteps
        BY <3>1, <3>5, <2>5
      <4>3. SUFFICES ASSUME job[v] = job'[w] PROVE FALSE
        BY <4>2
      <4>4. job[v].attempt = a /\ job[v].try = tries[a] + 1
        BY <4>3, <2>5
      <4>5. job[v].try <= tries[a]
        BY <4>1, <4>2, <4>4 DEF WorkerInv, TriesAreDistinct, Fresh
      <4> QED
        BY <4>4, <4>5, <2>4
    <3>6. \A u, v \in Workers : u # v /\ Reading(u)' /\ Reading(v)' => job'[u] # job'[v]
      <4>1. \A u, v \in Workers : u # v /\ u # w /\ v # w /\ Reading(u)' /\ Reading(v)' => job'[u] # job'[v]
        BY <3>1, <2>5 DEF WorkerInv, TriesAreDistinct
      <4> QED
        BY <4>1, <3>5
    <3>7. ASSUME NEW v \in Workers, Reading(v)'
          PROVE  /\ workerPc'[v] \in {"find", "lookUp", "readScope"} =>
                      AccessKey(v, "readScope")' \notin accesses'
                 /\ workerPc'[v] \in {"find", "lookUp", "readScope", "readFindings"} =>
                      AccessKey(v, "readFindings")' \notin accesses'
      <4>1. CASE v = w
        <5>1. jobResult[a] = NoResult
          BY <4>1, <3>7, <1>1, <2>3, <2>5 DEF Reading, Fresh
        <5>2. ASSUME NEW k \in accesses, k[1] = a, k[2] = tries[a] + 1 PROVE FALSE
          <6>1. k[2] <= tries[a]
            BY <5>1, <5>2, <3>3
          <6> QED
            BY <6>1, <5>2, <2>4
        <5>3. AccessKey(v, "readScope")' = <<a, tries[a] + 1, "readScope">>
              /\ AccessKey(v, "readFindings")' = <<a, tries[a] + 1, "readFindings">>
          BY <4>1, <2>5 DEF AccessKey
        <5> QED
          BY <5>2, <5>3, <1>1
      <4>2. CASE v # w
        <5>1. /\ AccessKey(v, "readScope")' = AccessKey(v, "readScope")
              /\ AccessKey(v, "readFindings")' = AccessKey(v, "readFindings")
              /\ workerPc'[v] = workerPc[v] /\ Reading(v)
          BY <4>2, <3>1, <3>7, <2>3, <2>5 DEF AccessKey
        <5> QED
          BY <5>1, <1>1 DEF WorkerInv, TriesAreDistinct
      <4> QED
        BY <4>1, <4>2
    <3> QED
      BY <3>2, <3>4, <3>6, <3>7 DEF TriesAreDistinct, Fresh
  <2>11. TriesAreCounted'
    <3>0. /\ MaxAttempts \in Nat /\ aborts \in Nat /\ aborts <= MaxAborts /\ aborts' = aborts
          /\ MaxAborts \in Nat /\ Cardinality(Workers) \in Nat
      BY <1>1, WorkerAssumption, FS_CardinalityType DEF WorkerTypeOK
    <3>1. ASSUME NEW x \in Attempts, HasRow(queue, x)
          PROVE  /\ tries'[x] <= MaxAttempts + Cardinality(GivingUp(x)') + aborts
                 /\ tries'[x] <= MaxAttempts + Cardinality(Workers) + MaxAborts
      <4> DEFINE G == GivingUp(x)
                 H == GivingUp(x)'
      <4>1. G \in SUBSET H /\ H \in SUBSET Workers /\ w \notin G
        BY <1>1, <2>3, <2>5 DEF GivingUp
      <4>2. x = a /\ tries[a] + 1 > MaxAttempts => w \in H
        BY <2>3, <2>5 DEF GivingUp
      <4>3. IsFiniteSet(G) /\ Cardinality(G) \in Nat
        BY GivingUpIsFinite
      <4>4. tries[x] <= MaxAttempts + Cardinality(G) + aborts
        BY <3>1 DEF WorkerInv, TriesAreCounted, Queued
      <4> HIDE DEF G, H
      <4>5. IsFiniteSet(H) /\ Cardinality(H) \in Nat /\ Cardinality(H) <= Cardinality(Workers)
        BY <4>1, WorkerAssumption, FS_Subset, FS_CardinalityType
      <4>6. Cardinality(G) <= Cardinality(H)
        BY <4>1, <4>5, FS_Subset
      <4>7. w \in H => Cardinality(G) + 1 <= Cardinality(H)
        <5>1. Cardinality(G \cup {w}) = Cardinality(G) + 1
          BY <4>1, <4>3, FS_AddElement
        <5>2. w \in H => G \cup {w} \in SUBSET H
          BY <4>1
        <5>3. w \in H => Cardinality(G \cup {w}) <= Cardinality(H)
          BY <5>2, <4>5, FS_Subset
        <5> QED
          BY <5>1, <5>3
      <4>8. tries'[x] <= MaxAttempts + Cardinality(H) + aborts
        <5>1. CASE x # a
          BY <5>1, <2>4, <3>0, <4>3, <4>4, <4>5, <4>6
        <5>2. CASE x = a
          BY <5>2, <2>4, <3>0, <4>2, <4>3, <4>4, <4>5, <4>7
        <5> QED
          BY <5>1, <5>2
      <4>9. tries'[x] \in Nat
        BY <2>4
      <4>10. tries'[x] <= MaxAttempts + Cardinality(Workers) + MaxAborts
        BY <3>0, <4>5, <4>8, <4>9
      <4> QED
        BY <4>8, <4>10 DEF H
    <3>2. \A x \in Attempts : tries'[x] <= MaxAttempts + Cardinality(Workers) + MaxAborts
      BY <3>1, <2>2, <2>4 DEF WorkerInv, TriesAreCounted, ClaimsAreBounded
    <3> QED
      BY <1>1, <3>0, <3>1, <3>2 DEF TriesAreCounted, ClaimsAreBounded, Queued
  <2> QED
    BY <2>7, <2>8, <2>9, <2>10, <2>11 DEF WorkerInv
<1> QED
  BY <1>2, <1>3

-----------------------------------------------------------------------------
(* A finalize that is replayed after the job was done starts a new count,  *)
(* when no worker and no key of a try of that attempt is still at stake.   *)
LEMMA EnqueueKeeps ==
  ASSUME WorkerInv, NEW a \in Attempts, Enqueue(a)
  PROVE  WorkerInv'
<1> USE DEF drafts
<1>1. /\ WorkerTypeOK /\ ~HasRow(queue, a) /\ queue' = Append(queue, a)
      /\ UNCHANGED <<jobResult, accesses, draftBytes, draftRows, classified, workerPc, job, found, aborts>>
      /\ "complete" \in BusySteps /\ TrySteps \subseteq BusySteps /\ "find" \in BusySteps
  BY StepsAreSteps DEF WorkerInv, Enqueue, Queued
<1>2. /\ claim' \in [Attempts -> {"free", "held", "stale"}] /\ tries' \in [Attempts -> Nat]
      /\ tries'[a] = 0 /\ \A x \in Attempts : x # a => tries'[x] = tries[x]
  BY <1>1 DEF WorkerTypeOK, Enqueue
<1>3. /\ queue' \in Seq(Attempts) /\ OneRowEach(queue')
      /\ \A x : HasRow(queue', x) <=> HasRow(queue, x) \/ x = a
  <2>1. queue \in Seq(Attempts) /\ OneRowEach(queue)
    BY <1>1 DEF WorkerTypeOK, WorkerInv, RowsGoLast
  <2> QED
    BY <2>1, <1>1, AppendedRow
<1>4. \A v \in Workers : workerPc[v] \in BusySteps =>
        job[v].attempt \in Attempts /\ (Fresh(job[v].attempt) => job[v].attempt # a)
  BY <1>1 DEF WorkerTypeOK, WorkerInv, RowsGoLast, DoneMeansRecorded, Queued, Fresh
<1>5. \A k \in accesses : k[1] \in Attempts /\ (Fresh(k[1]) => k[1] # a)
  BY <1>1 DEF WorkerTypeOK, WorkerInv, RowsGoLast, Queued
<1>6. WorkerTypeOK'
  BY <1>1, <1>2, <1>3 DEF WorkerTypeOK
<1>7. ResultsAreTrue'
  BY <1>1 DEF WorkerInv, ResultsAreTrue, NormalizedIsStored
<1>8. \A x : (Fresh(x)' <=> Fresh(x)) /\ (Queued(x) => HasRow(queue', x))
  BY <1>1, <1>3 DEF Fresh, Queued
<1>9. RowsGoLast'
  <2>1. \A k \in accesses : HasRow(queue', k[1]) \/ ~Fresh(k[1])
    BY <1>8 DEF WorkerInv, RowsGoLast
  <2>2. \A v \in Workers : workerPc[v] \in BusySteps \ {"complete"} =>
          HasRow(queue', job[v].attempt) \/ jobResult[job[v].attempt] # NoResult
    BY <1>8 DEF WorkerInv, RowsGoLast, DoneMeansRecorded
  <2>3. \A v \in Workers : workerPc[v] = "complete" => ~Fresh(job[v].attempt)
    BY DEF WorkerInv, RowsGoLast
  <2> QED
    BY <1>1, <1>3, <2>1, <2>2, <2>3 DEF RowsGoLast, DoneMeansRecorded, OneRowEach, Fresh, Queued
<1>10. TriesAreDistinct'
  <2>1. \A v \in Workers : workerPc[v] \in BusySteps /\ jobResult[job[v].attempt] = NoResult =>
          job[v].try <= tries'[job[v].attempt]
    BY <1>2, <1>4 DEF WorkerInv, TriesAreDistinct, Fresh
  <2>2. \A k \in accesses : jobResult[k[1]] = NoResult => k[2] <= tries'[k[1]]
    BY <1>2, <1>5 DEF WorkerInv, TriesAreDistinct, Fresh
  <2>3. \A v \in Workers : (Reading(v)' <=> Reading(v))
    BY <1>1 DEF Reading, Fresh
  <2>4. \A v, u \in Workers : v # u /\ Reading(v) /\ Reading(u) => job[v] # job[u]
    BY DEF WorkerInv, TriesAreDistinct
  <2>5. \A v \in Workers : Reading(v) =>
         /\ workerPc[v] \in {"find", "lookUp", "readScope"} =>
              AccessKey(v, "readScope") \notin accesses
         /\ workerPc[v] \in {"find", "lookUp", "readScope", "readFindings"} =>
              AccessKey(v, "readFindings") \notin accesses
    BY DEF WorkerInv, TriesAreDistinct
  <2> QED
    BY <1>1, <2>1, <2>2, <2>3, <2>4, <2>5 DEF TriesAreDistinct, Fresh, AccessKey
<1>11. TriesAreCounted'
  <2>0. MaxAttempts \in Nat /\ aborts \in Nat /\ MaxAborts \in Nat /\ Cardinality(Workers) \in Nat
    BY <1>1, WorkerAssumption, FS_CardinalityType DEF WorkerTypeOK
  <2>1. \A x : GivingUp(x)' = GivingUp(x)
    BY <1>1 DEF GivingUp
  <2>2. ASSUME NEW x \in Attempts, HasRow(queue', x)
        PROVE  tries'[x] <= MaxAttempts + Cardinality(GivingUp(x)) + aborts
    <3>1. CASE x # a
      BY <3>1, <2>2, <1>2, <1>3 DEF WorkerInv, TriesAreCounted, Queued
    <3>2. CASE x = a
      <4>1. Cardinality(GivingUp(x)) \in Nat
        BY GivingUpIsFinite
      <4> QED
        BY <3>2, <4>1, <2>0, <1>2
    <3> QED
      BY <3>1, <3>2
  <2>3. \A x \in Attempts : tries'[x] <= MaxAttempts + Cardinality(Workers) + MaxAborts
    BY <2>0, <1>2 DEF WorkerInv, TriesAreCounted, ClaimsAreBounded
  <2> QED
    BY <1>1, <2>1, <2>2, <2>3 DEF TriesAreCounted, ClaimsAreBounded, Queued
<1> QED
  BY <1>6, <1>7, <1>9, <1>10, <1>11 DEF WorkerInv

LEMMA WorkerInvHoldsAtFirst == WorkerInit => WorkerInv
<1> SUFFICES ASSUME WorkerInit PROVE WorkerInv
  OBVIOUS
<1>0. /\ "asleep" \in WorkerSteps /\ "asleep" \notin BusySteps /\ "complete" \in BusySteps
      /\ TrySteps \subseteq BusySteps /\ "find" \in BusySteps /\ "record" \in BusySteps
  BY StepsAreSteps
<1>1. \A w \in Workers : workerPc[w] = "asleep" /\ job[w] = NoJob /\ found[w] = NoResult
  BY DEF WorkerInit
<1>2. WorkerTypeOK
  <2>1. queue \in Seq(Attempts) /\ aborts \in 0 .. MaxAborts
    BY WorkerAssumption DEF WorkerInit
  <2>2. \A w \in Workers : workerPc[w] \notin BusySteps
    BY <1>0, <1>1
  <2> QED
    BY <2>1, <2>2, <1>0 DEF WorkerInit, WorkerTypeOK
<1>3. ResultsAreTrue
  <2>1. \A a \in Attempts : jobResult[a].outcome = "none"
    BY ResultsDiffer DEF WorkerInit
  <2> QED
    BY <2>1, <1>1 DEF WorkerInit, ResultsAreTrue, NormalizedIsStored
<1>4. RowsGoLast
  BY <1>0, <1>1 DEF WorkerInit, RowsGoLast, DoneMeansRecorded, OneRowEach
<1>5. \A w \in Workers : ~Reading(w)
  BY <1>0, <1>1 DEF Reading
<1>6. TriesAreDistinct
  BY <1>0, <1>1, <1>5 DEF WorkerInit, TriesAreDistinct
<1>7. TriesAreCounted
  <2>1. Cardinality(Workers) \in Nat /\ MaxAttempts \in Nat /\ MaxAborts \in Nat
    BY WorkerAssumption, FS_CardinalityType
  <2>2. \A a \in Attempts : tries[a] = 0
    BY DEF WorkerInit
  <2>3. \A a \in Attempts : ~HasRow(queue, a)
    BY DEF WorkerInit, HasRow
  <2> QED
    BY <2>1, <2>2, <2>3 DEF TriesAreCounted, ClaimsAreBounded, Queued
<1> QED
  BY <1>2, <1>3, <1>4, <1>6, <1>7 DEF WorkerInv

LEMMA WorkerStepKeeps ==
  ASSUME WorkerInv, [WorkerNext]_workerVars
  PROVE  WorkerInv'
<1>1. ASSUME NEW a \in Attempts, Enqueue(a) PROVE WorkerInv'
  BY <1>1, EnqueueKeeps
<1>2. ASSUME NEW a \in Attempts, ClaimAges(a) PROVE WorkerInv'
  <2>1. claim' \in [Attempts -> {"free", "held", "stale"}]
    BY <1>2 DEF ClaimAges, WorkerInv, WorkerTypeOK
  <2> QED
    BY <1>2, <2>1, ClaimsDoNotMatter DEF ClaimAges
<1>3. CASE UNCHANGED workerVars
  <2>1. UNCHANGED <<queue, tries, jobResult, accesses, drafts, workerPc, job, found, aborts, claim>>
    BY <1>3 DEF workerVars, rows
  <2>2. claim' \in [Attempts -> {"free", "held", "stale"}]
    BY <2>1 DEF WorkerInv, WorkerTypeOK
  <2> QED
    BY <2>1, <2>2, ClaimsDoNotMatter
<1>4. ASSUME NEW w \in Workers, StartPass(w) PROVE WorkerInv'
  <2>1. claim' \in [Attempts -> {"free", "held", "stale"}]
    BY <1>4 DEF StartPass, WorkerInv, WorkerTypeOK
  <2> QED
    BY <1>4, <2>1, StartKeeps DEF StartPass
<1>5. ASSUME NEW w \in Workers, Claim(w) PROVE WorkerInv'
  BY <1>5, ClaimKeeps
<1>6. ASSUME NEW w \in Workers, FindResult(w) PROVE WorkerInv'
  BY <1>6, FindKeeps
<1>7. ASSUME NEW w \in Workers, Try(w) PROVE WorkerInv'
  <2>1. CASE ReadScope(w)
    BY <2>1, ReadKeeps DEF ReadScope
  <2>2. CASE ReadFindings(w)
    BY <2>2, ReadKeeps DEF ReadFindings
  <2> QED
    BY <1>7, <2>1, <2>2, TryKeeps DEF Try
<1>8. ASSUME NEW w \in Workers, RecordResult(w) PROVE WorkerInv'
  BY <1>8, RecordKeeps
<1>9. ASSUME NEW w \in Workers, Complete(w) PROVE WorkerInv'
  BY <1>9, CompleteKeeps
<1>10. ASSUME NEW w \in Workers, FailJob(w) PROVE WorkerInv'
  BY <1>10, FailKeeps
<1>11. ASSUME NEW w \in Workers, Abort(w) PROVE WorkerInv'
  BY <1>11, AbortKeeps
<1> QED
  BY <1>1, <1>2, <1>3, <1>4, <1>5, <1>6, <1>7, <1>8, <1>9, <1>10, <1>11 DEF WorkerNext, Work

(* However many workers run, however often claims go stale under a busy    *)
(* worker or a pass dies between two statements (normalize-job.ts,         *)
(* job-queue.ts): a result that says normalized names a stored draft set   *)
(* of its own attempt, no row goes before its result is recorded, a row    *)
(* is claimed a bounded number of times, and no two tries read under the   *)
(* same idempotency key.                                                   *)
THEOREM JobsAlwaysKept == WorkerSpec => []JobsAreKept
<1>1. WorkerInv => JobsAreKept
  <2> SUFFICES ASSUME WorkerInv PROVE JobsAreKept
    OBVIOUS
  <2>1. ASSUME NEW w \in Workers, workerPc[w] \in ReadSteps
        PROVE  /\ AccessKey(w, workerPc[w]) \notin accesses
               /\ \A v \in Workers \ {w} : workerPc[v] \in TrySteps => job[v] # job[w]
    <3>1. workerPc[w] \in TrySteps /\ workerPc[w] \in {"readScope", "readFindings"}
      BY <2>1, StepsAreSteps DEF ReadSteps
    <3>2. Reading(w)
      BY <3>1 DEF Reading
    <3>3. \A v \in Workers \ {w} : workerPc[v] \in TrySteps => job[v] # job[w]
      BY <3>2 DEF WorkerInv, TriesAreDistinct, Reading
    <3>4. AccessKey(w, workerPc[w]) \notin accesses
      BY <3>1, <3>2 DEF WorkerInv, TriesAreDistinct
    <3> QED
      BY <3>3, <3>4
  <2> QED
    BY <2>1 DEF WorkerInv, ResultsAreTrue, RowsGoLast, TriesAreCounted, JobsAreKept, ReadScopesDistinct
<1> QED
  BY <1>1, WorkerInvHoldsAtFirst, WorkerStepKeeps, PTL DEF WorkerSpec
============================================================================
