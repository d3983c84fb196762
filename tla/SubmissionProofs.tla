-------------------------- MODULE SubmissionProofs --------------------------
(* What the submission routes keep true for any number of requests,        *)
(* attempts, reviews and artifacts, and any number of crashes.             *)
EXTENDS Submission, LogRowsTheorems

AppendSteps == {"row", "accKey", "accMax", "accInsert"}
EventSteps == {"evKey", "evMax", "evInsert", "outcome"}
DecidedSteps == {"build", "load", "enqueue"} \cup EventSteps

(* Every number below the one an event was built with is taken. *)
OnPrefix(log, e) ==
  \A m \in 0 .. e.seq - 1 : \E y \in log : y.review = e.review /\ y.seq = m

(* The locals a handler has set by the time it reaches a step. *)
LocalsSet(h) ==
  /\ attempt[loc[h].att] # NoBody
  /\ pc[h] \in PutSteps \cup ReadSteps => loc[h].i \in 1 .. Len(ManifestOf(loc[h].att))
  /\ pc[h] = "replay" => outcome[loc[h].att] # NoOutcome
  /\ pc[h] = "receipt" => /\ loc[h].state = "received_with_receipt"
                          /\ loc[h].receipt \in Receipts
  /\ pc[h] \in DecidedSteps => loc[h].state \in States

(* The events a handler is appending are built on rows that are there. *)
AccessBuilt(h) ==
  /\ loc[h].access \in AccessEvents
  /\ loc[h].access.review = ReviewOf[loc[h].att]
  /\ loc[h].access.key = AccessKey(loc[h].att, Digest(h))
  /\ OnPrefix(lifecycle, loc[h].access)

EventBuilt(h) ==
  /\ loc[h].event \in ReviewEvents
  /\ loc[h].event.review = ReviewOf[loc[h].att]
  /\ loc[h].event.key = loc[h].att
  /\ loc[h].event.body[1] = EventType[loc[h].state]
  /\ OnPrefix(reviewLog, loc[h].event)

HandlerOK(h) ==
  /\ pc[h] # "idle" => LocalsSet(h)
  /\ pc[h] \in AppendSteps => AccessBuilt(h)
  /\ pc[h] \in EventSteps => EventBuilt(h)

(* The first inductive invariant: types, locals and both logs. *)
ShapeInv ==
  /\ TypeOK
  /\ LogsStayOrdered
  /\ \A h \in Requests : HandlerOK(h)

(* Attempt a has an access event for digest d. *)
Logged(a, d) == \E x \in lifecycle : x.review = ReviewOf[a] /\ x.key = AccessKey(a, d)

HandlerReads(h) ==
  LET a == loc[h].att
      m == ManifestOf(a)
  IN
  /\ pc[h] \in ReadSteps => \A j \in 1 .. loc[h].i - 1 : Logged(a, m[j])
  /\ pc[h] = "bytes" => Logged(a, m[loc[h].i])
  /\ pc[h] \in DecideSteps => \A j \in 1 .. Len(m) : Logged(a, m[j])

(* The second: a handler that has read an artifact has logged the read. *)
ReadsInv ==
  /\ ReadsAreLogged
  /\ \A a \in Attempts : outcome[a] # NoOutcome => attempt[a] # NoBody
  /\ \A h \in Requests : HandlerReads(h)

HandlerDecides(h) ==
  LET l == loc[h] IN
  /\ pc[h] = "receipt" => l.receipt.attempt = l.att
  /\ pc[h] \in DecidedSteps /\ l.state = "received_with_receipt" =>
        l.receipt \in receipts /\ l.receipt.attempt = l.att
  /\ pc[h] = "outcome" => l.event \in reviewLog
  /\ pc[h] = "enqueue" => /\ l.state = "received_with_receipt"
                          /\ outcome[l.att].state = "received_with_receipt"

(* The third: receipts, review events, outcomes, jobs and answers agree. *)
DecisionInv ==
  /\ OutcomeReceiptDurable
  /\ OutcomeMatchesEvent
  /\ JobOnlyForReceived
  /\ ReplyAgrees
  /\ \A h \in Requests : HandlerDecides(h)

-----------------------------------------------------------------------------
(* What a step may do to the stores and to the other handlers.             *)

(* Nothing that was written goes away or changes. *)
StoresGrow ==
  /\ \A a \in Attempts : attempt[a] # NoBody => attempt'[a] = attempt[a]
  /\ \A a \in Attempts : outcome[a] # NoOutcome => outcome'[a] = outcome[a]
  /\ objects \subseteq objects' /\ artifactRow \subseteq artifactRow'
  /\ classified \subseteq classified' /\ lifecycle \subseteq lifecycle'
  /\ receipts \subseteq receipts' /\ reviewLog \subseteq reviewLog'
  /\ jobs \subseteq jobs'

(* Only handler h moves. *)
Moves(h) ==
  \A q \in Requests \ {h} :
     pc'[q] = pc[q] /\ loc'[q] = loc[q] /\ reply'[q] = reply[q]

LEMMA SendGrows ==
  ASSUME TypeOK, NEW h \in Requests, Send(h)
  PROVE  StoresGrow /\ Moves(h)
  BY DEF TypeOK, Send, Open, PutBegin, FinalizeBegin, Begin, StoresGrow, Moves, stores

LEMMA PutGrows ==
  ASSUME TypeOK, NEW h \in Requests, Put(h) \/ ReplyMissing(h) \/ Replay(h)
  PROVE  StoresGrow /\ Moves(h)
  BY DEF TypeOK, Put, PutSelect, PutBytes, PutInsert, PutClassify, ReplyMissing, Replay,
         At, Goto, Reply, StoresGrow, Moves, stores

LEMMA ReadGrows ==
  ASSUME TypeOK, NEW h \in Requests, ReadBack(h)
  PROVE  StoresGrow /\ Moves(h)
  BY DEF TypeOK, ReadBack, Mint, GetRow, AccessKeySelect, AccessMaxSelect, AccessInsert,
         GetBytes, At, Goto, Incomplete, Fail, Reply, StoresGrow, Moves, stores

LEMMA DecideGrows ==
  ASSUME TypeOK, NEW h \in Requests, Decide(h)
  PROVE  StoresGrow /\ Moves(h)
  BY DEF TypeOK, Decide, Verify, RecordReceipt, Build, LoadReviewLog, ReviewKeySelect,
         ReviewMaxSelect, ReviewInsert, RecordOutcome, EnqueueNormalization,
         At, Goto, Fail, Reply, StoresGrow, Moves, stores
-----------------------------------------------------------------------------
(* The first invariant.                                                    *)

(* A handler that does not move stays in order. *)
LEMMA HandlerStays ==
  ASSUME ShapeInv, StoresGrow, NEW q \in Requests,
         pc'[q] = pc[q], loc'[q] = loc[q]
  PROVE  HandlerOK(q)'
<1>1. pc[q] # "idle" => loc[q].att \in Attempts /\ loc[q] \in Locals
  BY DEF ShapeInv, TypeOK, Locals
<1>2. pc[q] # "idle" => attempt'[loc[q].att] = attempt[loc[q].att] /\ attempt[loc[q].att] # NoBody
  BY <1>1 DEF ShapeInv, HandlerOK, LocalsSet, StoresGrow
<1>3. pc[q] # "idle" => LocalsSet(q)'
  BY <1>1, <1>2 DEF ShapeInv, HandlerOK, LocalsSet, StoresGrow, ManifestOf
<1>4. pc[q] \in AppendSteps => AccessBuilt(q)'
  BY <1>1, <1>2 DEF ShapeInv, HandlerOK, AccessBuilt, AppendSteps, StoresGrow,
                    ManifestOf, Digest, OnPrefix, AccessEvents
<1>5. pc[q] \in EventSteps => EventBuilt(q)'
  BY <1>1, <1>2 DEF ShapeInv, HandlerOK, EventBuilt, EventSteps, StoresGrow,
                    OnPrefix, ReviewEvents
<1> QED
  BY <1>3, <1>4, <1>5 DEF HandlerOK

(* A step of handler h keeps the invariant when it keeps the types, the    *)
(* logs and h itself in order.                                             *)
LEMMA OneMoves ==
  ASSUME ShapeInv, StoresGrow, NEW h \in Requests, Moves(h),
         TypeOK', LogsStayOrdered', HandlerOK(h)'
  PROVE  ShapeInv'
<1>1. \A q \in Requests : HandlerOK(q)'
  BY HandlerStays DEF Moves
<1> QED
  BY <1>1 DEF ShapeInv

(* Both logs are unchanged. *)
LEMMA LogsUnchanged ==
  ASSUME ShapeInv, UNCHANGED <<lifecycle, reviewLog>>
  PROVE  LogsStayOrdered'
  BY DEF ShapeInv, LogsStayOrdered, UniqueRows, NoGaps

(* A request begins. *)
LEMMA SendShape ==
  ASSUME ShapeInv, NEW h \in Requests, Send(h)
  PROVE  ShapeInv'
<1>1. StoresGrow /\ Moves(h)
  BY SendGrows DEF ShapeInv
<1>2. PICK a \in Attempts : \/ \E b \in Bodies : Open(h, a, b)
                            \/ PutBegin(h, a)
                            \/ FinalizeBegin(h, a)
  BY DEF Send
<1>3. ASSUME NEW step \in Steps, NEW i \in Nat, Begin(h, step, a, i)
      PROVE  /\ clock' = clock /\ crashes' = crashes
             /\ pc' \in [Requests -> Steps] /\ pc'[h] = step
             /\ loc' \in [Requests -> Locals \cup {NoLocals}]
             /\ loc'[h] \in Locals /\ loc'[h].att = a /\ loc'[h].i = i
             /\ reply' \in [Requests -> Replies]
  BY <1>3 DEF ShapeInv, TypeOK, Begin, Locals, Replies, NoReply
<1>4. LogsStayOrdered'
  BY <1>2, LogsUnchanged DEF Open, PutBegin, FinalizeBegin, stores
<1>5. CASE \E b \in Bodies : Open(h, a, b)
  <2>1. PICK b \in Bodies : Open(h, a, b)
    BY <1>5
  <2>2. Begin(h, "missing", a, 0) /\ "missing" \in Steps
    BY <2>1 DEF Open, Steps
  <2>3. attempt'[a] # NoBody
    BY <2>1, SubmissionAssumption DEF Open, NoBody, ShapeInv, TypeOK
  <2>4. TypeOK'
    BY <1>1, <1>3, <2>1, <2>2 DEF Open, ShapeInv, TypeOK, Moves
  <2>5. HandlerOK(h)'
    BY <1>3, <2>2, <2>3 DEF HandlerOK, LocalsSet, PutSteps, ReadSteps, AppendSteps,
                            EventSteps, DecidedSteps
  <2> QED
    BY <1>1, <1>4, <2>4, <2>5, OneMoves
<1>6. CASE PutBegin(h, a)
  <2>1. PICK i \in 1 .. Len(ManifestOf(a)) : Begin(h, "putSelect", a, i)
    BY <1>6 DEF PutBegin
  <2>2. "putSelect" \in Steps /\ i \in Nat /\ attempt[a] # NoBody
    BY <1>6 DEF PutBegin, Steps, PutSteps
  <2>3. UNCHANGED stores
    BY <1>6 DEF PutBegin
  <2>4. TypeOK'
    BY <1>1, <1>3, <2>1, <2>2, <2>3 DEF stores, ShapeInv, TypeOK, Moves
  <2>5. HandlerOK(h)'
    BY <1>3, <2>1, <2>2, <2>3
       DEF stores, HandlerOK, LocalsSet, ManifestOf, PutSteps, ReadSteps, AppendSteps,
           EventSteps, DecidedSteps
  <2> QED
    BY <1>1, <1>4, <2>4, <2>5, OneMoves
<1>7. CASE FinalizeBegin(h, a)
  <2>1. UNCHANGED stores /\ attempt[a] # NoBody
    BY <1>7 DEF FinalizeBegin
  <2>2. ManifestOf(a) \in Seq(Digests)
    BY <2>1, SubmissionAssumption DEF ShapeInv, TypeOK, ManifestOf
  <2>3. CASE outcome[a] # NoOutcome
    <3>1. Begin(h, "replay", a, 0) /\ "replay" \in Steps
      BY <1>7, <2>3 DEF FinalizeBegin, Steps
    <3>2. TypeOK'
      BY <1>1, <1>3, <2>1, <3>1 DEF stores, ShapeInv, TypeOK, Moves
    <3>3. HandlerOK(h)'
      BY <1>3, <2>1, <2>3, <3>1
         DEF stores, HandlerOK, LocalsSet, PutSteps, ReadSteps, AppendSteps,
             EventSteps, DecidedSteps
    <3> QED
      BY <1>1, <1>4, <3>2, <3>3, OneMoves
  <2>4. CASE outcome[a] = NoOutcome
    <3>1. Begin(h, ReadNext(a, 0), a, 1)
      BY <1>7, <2>4 DEF FinalizeBegin
    <3>2. /\ ReadNext(a, 0) \in {"mint", "verify"}
          /\ ReadNext(a, 0) = "mint" => 1 \in 1 .. Len(ManifestOf(a))
          /\ ReadNext(a, 0) \in Steps
      BY <2>2 DEF ReadNext, Steps, ReadSteps, DecideSteps
    <3>3. TypeOK'
      BY <1>1, <1>3, <2>1, <3>1, <3>2 DEF stores, ShapeInv, TypeOK, Moves
    <3>4. HandlerOK(h)'
      BY <1>3, <2>1, <3>1, <3>2
         DEF stores, HandlerOK, LocalsSet, ManifestOf, PutSteps, ReadSteps, AppendSteps,
             EventSteps, DecidedSteps
    <3> QED
      BY <1>1, <1>4, <3>3, <3>4, OneMoves
  <2> QED
    BY <2>3, <2>4
<1> QED
  BY <1>2, <1>5, <1>6, <1>7
(* The stores and the clock have their types. *)
StoresTyped ==
  /\ clock \in Times
  /\ crashes \in 0 .. MaxCrashes
  /\ attempt \in [Attempts -> Bodies \cup {NoBody}]
  /\ objects \subseteq Digests
  /\ artifactRow \subseteq Digests
  /\ classified \subseteq Digests
  /\ lifecycle \subseteq AccessEvents /\ IsFiniteSet(lifecycle)
  /\ receipts \subseteq Receipts
  /\ reviewLog \subseteq ReviewEvents /\ IsFiniteSet(reviewLog)
  /\ outcome \in [Attempts -> Outcomes \cup {NoOutcome}]
  /\ jobs \subseteq Attempts

LEMMA TypedStores == TypeOK => StoresTyped
  BY DEF TypeOK, StoresTyped

LEMMA SameStoresTyped ==
  ASSUME TypeOK, UNCHANGED <<clock, crashes, stores>>
  PROVE  StoresTyped'
  BY DEF TypeOK, StoresTyped, stores

(* A handler that answers is in order. *)
LEMMA ReplyShape ==
  ASSUME ShapeInv, StoresGrow, NEW h \in Requests, NEW answer \in Replies,
         Reply(h, answer), StoresTyped', LogsStayOrdered'
  PROVE  ShapeInv'
<1>1. Moves(h)
  BY DEF Reply, Moves, ShapeInv, TypeOK
<1>2. pc'[h] = "idle"
  BY DEF Reply, ShapeInv, TypeOK
<1>3. TypeOK'
  BY <1>1, <1>2 DEF Reply, ShapeInv, TypeOK, StoresTyped, Steps, Moves
<1>4. HandlerOK(h)'
  BY <1>2 DEF HandlerOK, AppendSteps, EventSteps
<1> QED
  BY <1>1, <1>3, <1>4, OneMoves

(* The two refusals answer nothing but their code. *)
LEMMA RefusalShape ==
  ASSUME ShapeInv, NEW h \in Requests, Incomplete(h) \/ Fail(h),
         UNCHANGED <<clock, crashes, stores>>
  PROVE  ShapeInv'
<1>1. StoresGrow
  BY DEF StoresGrow, stores
<1>2. StoresTyped' /\ LogsStayOrdered'
  BY SameStoresTyped, LogsUnchanged DEF ShapeInv, stores
<1>3. [code |-> "incomplete"] \in Replies /\ [code |-> "error"] \in Replies
  BY DEF Replies
<1> QED
  BY <1>1, <1>2, <1>3, ReplyShape DEF Incomplete, Fail

(* A handler that goes to its next step with new locals is in order when   *)
(* what that step needs is there.                                          *)
LEMMA AdvanceShape ==
  ASSUME ShapeInv, StoresGrow, NEW h \in Requests, NEW step \in Steps, NEW l \in Locals,
         pc' = [pc EXCEPT ![h] = step], loc' = [loc EXCEPT ![h] = l], reply' = reply,
         StoresTyped', LogsStayOrdered', HandlerOK(h)'
  PROVE  ShapeInv'
<1>1. Moves(h)
  BY DEF Moves, ShapeInv, TypeOK
<1>2. TypeOK'
  BY DEF ShapeInv, TypeOK, StoresTyped
<1> QED
  BY <1>1, <1>2, OneMoves

LEMMA GotoShape ==
  ASSUME ShapeInv, StoresGrow, NEW h \in Requests, pc[h] # "idle",
         NEW step \in Steps, Goto(h, step),
         StoresTyped', LogsStayOrdered', HandlerOK(h)'
  PROVE  ShapeInv'
<1>1. loc[h] \in Locals /\ loc' = [loc EXCEPT ![h] = loc[h]]
  BY DEF Goto, ShapeInv, TypeOK
<1> QED
  BY <1>1, AdvanceShape DEF Goto

(* What a busy handler knows of its attempt. *)
LEMMA BusyHandler ==
  ASSUME ShapeInv, NEW h \in Requests, pc[h] # "idle"
  PROVE  /\ loc[h] \in Locals /\ loc[h].att \in Attempts
         /\ attempt[loc[h].att] \in Bodies /\ attempt[loc[h].att] # NoBody
         /\ ManifestOf(loc[h].att) \in Seq(Digests)
         /\ Listed(loc[h].att) \subseteq Digests
         /\ pc[h] \in PutSteps \cup ReadSteps => Digest(h) \in Digests
<1>1. loc[h] \in Locals /\ loc[h].att \in Attempts
  BY DEF ShapeInv, TypeOK, Locals
<1>2. attempt[loc[h].att] \in Bodies /\ attempt[loc[h].att] # NoBody
  BY <1>1 DEF ShapeInv, TypeOK, HandlerOK, LocalsSet
<1>3. ManifestOf(loc[h].att) \in Seq(Digests)
  BY <1>2, SubmissionAssumption DEF ManifestOf
<1>4. Listed(loc[h].att) \subseteq Digests
  BY <1>3 DEF Listed
<1>5. pc[h] \in PutSteps \cup ReadSteps => Digest(h) \in Digests
  BY <1>3 DEF ShapeInv, HandlerOK, LocalsSet, Digest
<1> QED
  BY <1>1, <1>2, <1>3, <1>4, <1>5

(* An upload, and the answers that only read. *)
LEMMA PutShape ==
  ASSUME ShapeInv, NEW h \in Requests, Put(h)
  PROVE  ShapeInv'
<1>1. StoresGrow /\ Moves(h)
  BY PutGrows DEF ShapeInv
<1>2. PICK step \in {"putBytes", "putInsert", "putClassify", "missing"} : Goto(h, step)
  BY DEF Put, PutSelect, PutBytes, PutInsert, PutClassify
<1>3. pc[h] \in PutSteps /\ pc[h] # "idle" /\ step \in Steps
  BY DEF Put, PutSelect, PutBytes, PutInsert, PutClassify, At, PutSteps, Steps
<1>4. Digest(h) \in Digests
  BY <1>3, BusyHandler
<1>5. UNCHANGED <<clock, crashes, attempt, lifecycle, receipts, reviewLog, outcome, jobs>>
  BY DEF Put, PutSelect, PutBytes, PutInsert, PutClassify, At, stores
<1>6. StoresTyped'
  BY <1>4, <1>5, TypedStores
     DEF ShapeInv, StoresTyped, Put, PutSelect, PutBytes, PutInsert, PutClassify, stores
<1>7. LogsStayOrdered'
  BY <1>5, LogsUnchanged
<1>8. HandlerOK(h)'
  BY <1>2, <1>3, <1>5
     DEF ShapeInv, TypeOK, Goto, HandlerOK, LocalsSet, ManifestOf, PutSteps, ReadSteps,
         AppendSteps, EventSteps, DecidedSteps
<1> QED
  BY <1>1, <1>2, <1>3, <1>6, <1>7, <1>8, GotoShape

LEMMA AnswerShape ==
  ASSUME ShapeInv, NEW h \in Requests, ReplyMissing(h) \/ Replay(h)
  PROVE  ShapeInv'
<1> DEFINE a == loc[h].att
           m == [code |-> "missing", att |-> a, missing |-> Missing(a)]
           o == [code |-> "outcome", att |-> a, state |-> outcome[a].state,
                 receipt |-> outcome[a].receipt]
<1>1. StoresGrow
  BY PutGrows DEF ShapeInv
<1>2. pc[h] # "idle" /\ UNCHANGED <<clock, crashes>>
  BY DEF ReplyMissing, Replay, At
<1>3. a \in Attempts /\ Missing(a) \subseteq Digests
  BY <1>2, BusyHandler DEF Missing
<1>4. CASE ReplyMissing(h)
  <2>1. m \in Replies
    BY <1>3 DEF Replies
  <2>2. StoresTyped' /\ LogsStayOrdered'
    BY <1>2, <1>4, SameStoresTyped, LogsUnchanged DEF ReplyMissing, ShapeInv, stores
  <2>3. Reply(h, m)
    BY <1>4 DEF ReplyMissing
  <2> HIDE DEF m
  <2> QED
    BY <1>1, <2>1, <2>2, <2>3, ReplyShape
<1>5. CASE Replay(h)
  <2>1. outcome[a] \in Outcomes
    BY <1>2, <1>3, <1>5 DEF Replay, At, ShapeInv, HandlerOK, LocalsSet, TypeOK
  <2>2. o \in Replies
    BY <1>3, <2>1 DEF Replies, Outcomes
  <2>3. StoresTyped'
    BY <1>2, <1>3, <1>5, TypedStores DEF Replay, ShapeInv, StoresTyped
  <2>4. LogsStayOrdered'
    BY <1>5, LogsUnchanged DEF Replay
  <2>5. Reply(h, o)
    BY <1>5 DEF Replay
  <2> HIDE DEF o
  <2> QED
    BY <1>1, <2>2, <2>3, <2>4, <2>5, ReplyShape
<1> QED
  BY <1>4, <1>5
(* The number a handler derives from a log is recorded or next. *)
LEMMA DerivedOnPrefix ==
  ASSUME NEW log, IsLog(log), UniqueRows(log), NoGaps(log), NEW r, NEW k, NEW s,
         \/ \E x \in KeyRows(log, r, k) : s = x.seq
         \/ s = EventCount(log, r)
  PROVE  /\ s \in Nat
         /\ \A m \in 0 .. s - 1 : \E y \in log : y.review = r /\ y.seq = m
<1>1. CASE \E x \in KeyRows(log, r, k) : s = x.seq
  <2>1. PICK x \in KeyRows(log, r, k) : s = x.seq
    BY <1>1
  <2>2. x \in log /\ x.review = r /\ x.seq \in Nat
    BY <2>1 DEF KeyRows, RowsOf, IsLog
  <2>3. \A m \in 0 .. x.seq : \E y \in log : y.review = r /\ y.seq = m
    BY <2>2 DEF NoGaps
  <2>4. \A m \in 0 .. s - 1 : m \in 0 .. x.seq
    BY <2>1, <2>2
  <2> QED
    BY <2>1, <2>2, <2>3, <2>4
<1>2. CASE s = EventCount(log, r)
  <2>1. /\ s \in Nat
        /\ \A m \in Nat : (\E y \in RowsOf(log, r) : y.seq = m) <=> m < s
    BY <1>2, SeqsAreBelowCount
  <2>2. \A m \in 0 .. s - 1 : m \in Nat /\ m < s
    BY <2>1
  <2>3. \A m \in 0 .. s - 1 : \E y \in RowsOf(log, r) : y.seq = m
    BY <2>1, <2>2
  <2> QED
    BY <2>1, <2>3 DEF RowsOf
<1> QED
  BY <1>1, <1>2

(* An INSERT that the constraints allow keeps a log unique and gap-free. *)
LEMMA InsertOrdered ==
  ASSUME NEW log, UniqueRows(log), NoGaps(log), NEW e, e.seq \in Nat,
         InsertAllowed(log, e), OnPrefix(log, e)
  PROVE  UniqueRows(log \cup {e}) /\ NoGaps(log \cup {e})
<1>1. UniqueRows(log \cup {e})
  BY DEF UniqueRows, InsertAllowed, RowsOf
<1>2. ASSUME NEW x \in log \cup {e}, NEW m \in 0 .. x.seq
      PROVE  \E y \in log \cup {e} : y.review = x.review /\ y.seq = m
  <2>1. CASE x \in log
    BY <2>1 DEF NoGaps
  <2>2. CASE x = e /\ m = e.seq
    BY <2>2
  <2>3. CASE x = e /\ m # e.seq
    <3>1. m \in 0 .. e.seq - 1
      BY <2>3
    <3> QED
      BY <2>3, <3>1 DEF OnPrefix
  <2> QED
    BY <2>1, <2>2, <2>3
<1> QED
  BY <1>1, <1>2 DEF NoGaps

LEMMA LogsAreLogs ==
  ASSUME ShapeInv
  PROVE  /\ IsLog(lifecycle) /\ UniqueRows(lifecycle) /\ NoGaps(lifecycle)
         /\ IsLog(reviewLog) /\ UniqueRows(reviewLog) /\ NoGaps(reviewLog)
  BY DEF ShapeInv, TypeOK, LogsStayOrdered, IsLog, AccessEvents, ReviewEvents

(* The access event is built on the lifecycle log that was loaded. *)
LEMMA MintShape ==
  ASSUME ShapeInv, NEW h \in Requests, Mint(h)
  PROVE  ShapeInv'
<1> DEFINE a == loc[h].att
           r == ReviewOf[a]
           k == AccessKey(a, Digest(h))
           s == IF KeyRows(lifecycle, r, k) # {}
                THEN (CHOOSE x \in KeyRows(lifecycle, r, k) : TRUE).seq
                ELSE NextSequenceNumber(lifecycle, r)
           e == Row(r, s, k, clock)
           l == [loc[h] EXCEPT !.access = e]
<1>1. pc[h] = "mint" /\ UNCHANGED <<clock, crashes, stores>>
  BY DEF Mint, At
<1>2. /\ loc[h] \in Locals /\ a \in Attempts /\ attempt[a] # NoBody
      /\ Digest(h) \in Digests /\ r \in Reviews
  BY <1>1, BusyHandler, SubmissionAssumption DEF ReadSteps
<1>3. /\ s \in Nat
      /\ \A m \in 0 .. s - 1 : \E y \in lifecycle : y.review = r /\ y.seq = m
  <2>1. NextSequenceNumber(lifecycle, r) = EventCount(lifecycle, r)
    BY LogsAreLogs, NextIsCount
  <2>2. \/ \E x \in KeyRows(lifecycle, r, k) : s = x.seq
        \/ s = EventCount(lifecycle, r)
    BY <2>1
  <2> HIDE DEF r, k, s
  <2> QED
    BY <2>2, LogsAreLogs, DerivedOnPrefix
<1>4. /\ e \in AccessEvents /\ e.review = r /\ e.key = k /\ e.seq = s
      /\ OnPrefix(lifecycle, e)
  <2>1. clock \in Times /\ k \in Attempts \X Digests
    BY <1>2 DEF ShapeInv, TypeOK, AccessKey
  <2> HIDE DEF s, k, r
  <2> QED
    BY <1>2, <1>3, <2>1 DEF Row, AccessEvents, OnPrefix
<1> HIDE DEF e
<1>5. CASE Incomplete(h)
  BY <1>1, <1>5, RefusalShape
<1>6. CASE /\ pc' = [pc EXCEPT ![h] = "row"]
           /\ loc' = [loc EXCEPT ![h].access = e]
           /\ UNCHANGED reply
  <2>1. loc' = [loc EXCEPT ![h] = l]
    BY <1>6
  <2>2. /\ l \in Locals /\ l.att = a /\ l.i = loc[h].i /\ l.access = e
    BY <1>2, <1>4 DEF Locals
  <2> HIDE DEF l
  <2>3. loc'[h] = l /\ pc'[h] = "row"
    BY <1>6, <2>1 DEF ShapeInv, TypeOK
  <2>4. StoresGrow /\ StoresTyped' /\ LogsStayOrdered'
    BY <1>1, SameStoresTyped, LogsUnchanged DEF ShapeInv, stores, StoresGrow
  <2>5. Digest(h)' = Digest(h)
    BY <1>1, <2>2, <2>3 DEF Digest, ManifestOf, stores
  <2>6. LocalsSet(h)'
    BY <1>1, <1>2, <2>2, <2>3
       DEF ShapeInv, HandlerOK, LocalsSet, stores, ManifestOf, ReadSteps, PutSteps,
           DecidedSteps, EventSteps
  <2>7. AccessBuilt(h)'
    BY <1>1, <1>4, <2>2, <2>3, <2>5 DEF AccessBuilt, OnPrefix, stores, AccessKey
  <2>8. HandlerOK(h)' /\ "row" \in Steps
    BY <2>3, <2>6, <2>7 DEF HandlerOK, EventSteps, Steps, ReadSteps
  <2> QED
    BY <1>6, <2>1, <2>2, <2>4, <2>8, AdvanceShape
<1> QED
  BY <1>5, <1>6 DEF Mint, e
(* A step that only decides where the handler goes next. *)
LEMMA QuietGoto ==
  ASSUME ShapeInv, NEW h \in Requests, pc[h] # "idle", NEW step \in Steps, Goto(h, step),
         UNCHANGED <<clock, crashes, stores>>,
         (pc[h] \in ReadSteps /\ step \in ReadSteps)
           \/ (pc[h] \in DecideSteps /\ step \in DecideSteps),
         step \in DecidedSteps => loc[h].state \in States,
         step # "receipt",
         step \in AppendSteps => AccessBuilt(h),
         step \in EventSteps => EventBuilt(h)
  PROVE  ShapeInv'
<1>1. StoresGrow /\ StoresTyped' /\ LogsStayOrdered'
  BY SameStoresTyped, LogsUnchanged DEF ShapeInv, stores, StoresGrow
<1>2. pc'[h] = step /\ loc'[h] = loc[h]
  BY DEF Goto, ShapeInv, TypeOK
<1>3. LocalsSet(h)'
  BY <1>2 DEF ShapeInv, HandlerOK, LocalsSet, stores, ManifestOf, ReadSteps, PutSteps, DecideSteps
<1>4. (step \in AppendSteps => AccessBuilt(h)') /\ (step \in EventSteps => EventBuilt(h)')
  BY <1>2 DEF AccessBuilt, EventBuilt, stores, OnPrefix, Digest, ManifestOf
<1>5. HandlerOK(h)'
  BY <1>2, <1>3, <1>4 DEF HandlerOK
<1> QED
  BY <1>1, <1>5, GotoShape

(* Reading one artifact back, after the access was minted. *)
LEMMA ReadShape ==
  ASSUME ShapeInv, NEW h \in Requests, GetRow(h) \/ AccessKeySelect(h) \/ AccessMaxSelect(h)
  PROVE  ShapeInv'
<1>1. /\ pc[h] \in {"row", "accKey", "accMax"}
      /\ UNCHANGED <<clock, crashes, stores>>
  BY DEF GetRow, AccessKeySelect, AccessMaxSelect, At
<1>2. \/ Incomplete(h)
      \/ \E step \in {"accKey", "bytes", "accMax", "accInsert"} : Goto(h, step)
  BY DEF GetRow, AccessKeySelect, AccessMaxSelect
<1>3. AccessBuilt(h)
  BY <1>1 DEF ShapeInv, HandlerOK, AppendSteps
<1>4. CASE Incomplete(h)
  BY <1>1, <1>4, RefusalShape
<1>5. ASSUME NEW step \in {"accKey", "bytes", "accMax", "accInsert"}, Goto(h, step)
      PROVE  ShapeInv'
  <2>1. /\ pc[h] # "idle" /\ pc[h] \in ReadSteps /\ step \in ReadSteps /\ step \in Steps
        /\ step \notin DecidedSteps /\ step \notin EventSteps /\ step # "receipt"
    BY <1>1 DEF ReadSteps, Steps, DecidedSteps, EventSteps
  <2>2. /\ step \in DecidedSteps => loc[h].state \in States
        /\ step \in AppendSteps => AccessBuilt(h)
        /\ step \in EventSteps => EventBuilt(h)
    BY <1>3, <2>1
  <2>3. UNCHANGED <<clock, crashes, stores>>
    BY <1>1
  <2> QED
    BY <1>5, <2>1, <2>2, <2>3, QuietGoto
<1> QED
  BY <1>2, <1>4, <1>5

LEMMA AccessInsertShape ==
  ASSUME ShapeInv, NEW h \in Requests, AccessInsert(h)
  PROVE  ShapeInv'
<1> DEFINE e == loc[h].access
<1>1. pc[h] = "accInsert" /\ UNCHANGED <<clock, crashes>>
  BY DEF AccessInsert, At
<1>2. AccessBuilt(h) /\ e \in AccessEvents /\ e.seq \in Nat /\ OnPrefix(lifecycle, e)
  BY <1>1 DEF ShapeInv, HandlerOK, AppendSteps, AccessBuilt, AccessEvents
<1>3. CASE ~InsertAllowed(lifecycle, e)
  <2>1. Fail(h) /\ UNCHANGED stores
    BY <1>3 DEF AccessInsert, stores
  <2> QED
    BY <1>1, <2>1, RefusalShape
<1>4. CASE InsertAllowed(lifecycle, e)
  <2>1. lifecycle' = lifecycle \cup {e} /\ Goto(h, "bytes")
    BY <1>4 DEF AccessInsert
  <2>2. UNCHANGED <<attempt, objects, artifactRow, classified, receipts, reviewLog, outcome, jobs>>
    BY DEF AccessInsert
  <2>3. StoresGrow
    BY <2>1, <2>2 DEF StoresGrow
  <2>4. StoresTyped'
    <3>1. IsFiniteSet(lifecycle')
      BY <2>1, FS_AddElement DEF ShapeInv, TypeOK
    <3> QED
      BY <1>1, <1>2, <2>1, <2>2, <3>1, TypedStores DEF ShapeInv, StoresTyped
  <2>5. UniqueRows(lifecycle') /\ NoGaps(lifecycle')
    <3> HIDE DEF e
    <3> QED
      BY <1>2, <1>4, <2>1, LogsAreLogs, InsertOrdered
  <2>6. LogsStayOrdered'
    BY <2>2, <2>5 DEF ShapeInv, LogsStayOrdered
  <2>7. pc'[h] = "bytes" /\ loc'[h] = loc[h]
    BY <2>1 DEF Goto, ShapeInv, TypeOK
  <2>8. HandlerOK(h)' /\ "bytes" \in Steps
    BY <1>1, <2>2, <2>7
       DEF ShapeInv, HandlerOK, LocalsSet, ManifestOf, PutSteps, ReadSteps, AppendSteps,
           EventSteps, DecidedSteps, Steps
  <2> QED
    BY <1>1, <2>1, <2>3, <2>4, <2>6, <2>8, GotoShape
<1> QED
  BY <1>3, <1>4

LEMMA GetBytesShape ==
  ASSUME ShapeInv, NEW h \in Requests, GetBytes(h)
  PROVE  ShapeInv'
<1> DEFINE a == loc[h].att
           l == [loc[h] EXCEPT !.i = loc[h].i + 1]
           step == ReadNext(a, loc[h].i)
<1>1. pc[h] = "bytes" /\ UNCHANGED <<clock, crashes, stores>>
  BY DEF GetBytes, At
<1>2. /\ loc[h] \in Locals /\ attempt[a] # NoBody
      /\ ManifestOf(a) \in Seq(Digests) /\ loc[h].i \in 1 .. Len(ManifestOf(a))
  BY <1>1, BusyHandler DEF ShapeInv, HandlerOK, LocalsSet, ReadSteps
<1>3. CASE Incomplete(h)
  BY <1>1, <1>3, RefusalShape
<1>4. CASE /\ pc' = [pc EXCEPT ![h] = step]
           /\ loc' = [loc EXCEPT ![h].i = @ + 1]
           /\ UNCHANGED reply
  <2>1. loc' = [loc EXCEPT ![h] = l]
    BY <1>4
  <2>2. l \in Locals /\ l.att = a /\ l.i = loc[h].i + 1
    BY <1>2 DEF Locals
  <2>3. /\ step \in {"mint", "verify"} /\ step \in Steps
        /\ step = "mint" => loc[h].i + 1 \in 1 .. Len(ManifestOf(a))
    BY <1>2 DEF ReadNext, Steps, ReadSteps, DecideSteps
  <2> HIDE DEF l, step
  <2>4. loc'[h] = l /\ pc'[h] = step
    BY <1>4, <2>1 DEF ShapeInv, TypeOK
  <2>5. StoresGrow /\ StoresTyped' /\ LogsStayOrdered'
    BY <1>1, SameStoresTyped, LogsUnchanged DEF ShapeInv, stores, StoresGrow
  <2>6. HandlerOK(h)'
    BY <1>1, <1>2, <2>2, <2>3, <2>4
       DEF HandlerOK, LocalsSet, ManifestOf, PutSteps, ReadSteps, AppendSteps,
           EventSteps, DecidedSteps, stores
  <2> QED
    BY <1>4, <2>1, <2>2, <2>3, <2>5, <2>6, AdvanceShape
<1> QED
  BY <1>3, <1>4 DEF GetBytes
(* The verdict, with or without a receipt. *)
LEMMA VerifyShape ==
  ASSUME ShapeInv, NEW h \in Requests, Verify(h)
  PROVE  ShapeInv'
<1> DEFINE a == loc[h].att
           new == [attempt |-> a, at |-> clock]
<1>1. pc[h] = "verify" /\ UNCHANGED <<clock, crashes, stores>> /\ reply' = reply
  BY DEF Verify, At
<1>2. loc[h] \in Locals /\ a \in Attempts /\ attempt[a] # NoBody /\ new \in Receipts
  BY <1>1, BusyHandler DEF ShapeInv, TypeOK, Receipts
<1>3. StoresGrow /\ StoresTyped' /\ LogsStayOrdered'
  BY <1>1, SameStoresTyped, LogsUnchanged DEF ShapeInv, stores, StoresGrow
<1> HIDE DEF new
<1>4. PICK s \in Decisions :
         IF s = "received_with_receipt"
         THEN /\ loc' = [loc EXCEPT ![h].state = s, ![h].receipt = new]
              /\ pc' = [pc EXCEPT ![h] = "receipt"]
         ELSE /\ loc' = [loc EXCEPT ![h].state = s]
              /\ pc' = [pc EXCEPT ![h] = "build"]
  BY DEF Verify, new
<1>5. s \in States
  BY SubmissionAssumption DEF States
<1>6. CASE s = "received_with_receipt"
  <2> DEFINE l == [loc[h] EXCEPT !.state = s, !.receipt = new]
  <2>1. loc' = [loc EXCEPT ![h] = l] /\ pc' = [pc EXCEPT ![h] = "receipt"]
    BY <1>2, <1>4, <1>6 DEF ShapeInv, TypeOK
  <2>2. l \in Locals /\ l.att = a /\ l.state = s /\ l.receipt = new
    BY <1>2, <1>5 DEF Locals
  <2> HIDE DEF l
  <2>3. loc'[h] = l /\ pc'[h] = "receipt"
    BY <2>1 DEF ShapeInv, TypeOK
  <2>4. HandlerOK(h)' /\ "receipt" \in Steps
    BY <1>1, <1>2, <1>5, <1>6, <2>2, <2>3
       DEF HandlerOK, LocalsSet, PutSteps, ReadSteps, AppendSteps, EventSteps,
           DecidedSteps, stores, Steps, DecideSteps
  <2> QED
    BY <1>1, <1>3, <2>1, <2>2, <2>4, AdvanceShape
<1>7. CASE s # "received_with_receipt"
  <2> DEFINE l == [loc[h] EXCEPT !.state = s]
  <2>1. loc' = [loc EXCEPT ![h] = l] /\ pc' = [pc EXCEPT ![h] = "build"]
    BY <1>4, <1>7
  <2>2. l \in Locals /\ l.att = a /\ l.state = s
    BY <1>2, <1>5 DEF Locals
  <2> HIDE DEF l
  <2>3. loc'[h] = l /\ pc'[h] = "build"
    BY <2>1 DEF ShapeInv, TypeOK
  <2>4. HandlerOK(h)' /\ "build" \in Steps
    BY <1>1, <1>2, <1>5, <2>2, <2>3
       DEF HandlerOK, LocalsSet, PutSteps, ReadSteps, AppendSteps, EventSteps,
           DecidedSteps, stores, Steps, DecideSteps
  <2> QED
    BY <1>1, <1>3, <2>1, <2>2, <2>4, AdvanceShape
<1> QED
  BY <1>6, <1>7

LEMMA RecordReceiptShape ==
  ASSUME ShapeInv, NEW h \in Requests, RecordReceipt(h)
  PROVE  ShapeInv'
<1>1. /\ pc[h] = "receipt" /\ Goto(h, "build") /\ receipts' = receipts \cup {loc[h].receipt}
      /\ UNCHANGED <<clock, crashes, attempt, objects, artifactRow, classified, lifecycle,
                     reviewLog, outcome, jobs>>
  BY DEF RecordReceipt, At
<1>2. loc[h].receipt \in Receipts /\ loc[h].state \in States
  BY <1>1 DEF ShapeInv, HandlerOK, LocalsSet, States
<1>3. StoresGrow
  BY <1>1 DEF StoresGrow
<1>4. StoresTyped'
  BY <1>1, <1>2, TypedStores DEF ShapeInv, StoresTyped
<1>5. LogsStayOrdered'
  BY <1>1, LogsUnchanged
<1>6. pc'[h] = "build" /\ loc'[h] = loc[h]
  BY <1>1 DEF Goto, ShapeInv, TypeOK
<1>7. HandlerOK(h)' /\ "build" \in Steps
  BY <1>1, <1>2, <1>6
     DEF ShapeInv, HandlerOK, LocalsSet, PutSteps, ReadSteps, AppendSteps, EventSteps,
         DecidedSteps, Steps, DecideSteps
<1> QED
  BY <1>1, <1>3, <1>4, <1>5, <1>7, GotoShape

LEMMA BuildShape ==
  ASSUME ShapeInv, NEW h \in Requests, Build(h)
  PROVE  ShapeInv'
<1> DEFINE l == [loc[h] EXCEPT !.at = clock]
<1>1. /\ pc[h] = "build" /\ UNCHANGED <<clock, crashes, stores>> /\ reply' = reply
      /\ loc' = [loc EXCEPT ![h] = l] /\ pc' = [pc EXCEPT ![h] = "load"]
  BY DEF Build, At
<1>2. loc[h] \in Locals /\ attempt[loc[h].att] # NoBody /\ loc[h].state \in States
  BY <1>1, BusyHandler DEF ShapeInv, HandlerOK, LocalsSet, DecidedSteps
<1>3. l \in Locals /\ l.att = loc[h].att /\ l.state = loc[h].state
  BY <1>2 DEF ShapeInv, TypeOK, Locals
<1> HIDE DEF l
<1>4. loc'[h] = l /\ pc'[h] = "load"
  BY <1>1 DEF ShapeInv, TypeOK
<1>5. StoresGrow /\ StoresTyped' /\ LogsStayOrdered'
  BY <1>1, SameStoresTyped, LogsUnchanged DEF ShapeInv, stores, StoresGrow
<1>6. HandlerOK(h)' /\ "load" \in Steps
  BY <1>1, <1>2, <1>3, <1>4
     DEF HandlerOK, LocalsSet, PutSteps, ReadSteps, AppendSteps, EventSteps,
         DecidedSteps, stores, Steps, DecideSteps
<1> QED
  BY <1>1, <1>3, <1>5, <1>6, AdvanceShape

(* The review event is built on the review log that was loaded. *)
LEMMA LoadShape ==
  ASSUME ShapeInv, NEW h \in Requests, LoadReviewLog(h)
  PROVE  ShapeInv'
<1> DEFINE a == loc[h].att
           r == ReviewOf[a]
           s == IF KeyRows(reviewLog, r, a) # {}
                THEN (CHOOSE x \in KeyRows(reviewLog, r, a) : TRUE).seq
                ELSE EventCount(reviewLog, r)
           b == <<EventType[loc[h].state], loc[h].at>>
           e == Row(r, s, a, b)
           l == [loc[h] EXCEPT !.event = e]
<1>1. pc[h] = "load" /\ UNCHANGED <<clock, crashes, stores>>
  BY DEF LoadReviewLog, At
<1>2. /\ loc[h] \in Locals /\ a \in Attempts /\ attempt[a] # NoBody
      /\ r \in Reviews /\ loc[h].state \in States
  BY <1>1, BusyHandler, SubmissionAssumption
     DEF ShapeInv, HandlerOK, LocalsSet, DecidedSteps
<1>3. /\ s \in Nat
      /\ \A m \in 0 .. s - 1 : \E y \in reviewLog : y.review = r /\ y.seq = m
  <2>1. \/ \E x \in KeyRows(reviewLog, r, a) : s = x.seq
        \/ s = EventCount(reviewLog, r)
    OBVIOUS
  <2> HIDE DEF r, a, s
  <2> QED
    BY <2>1, LogsAreLogs, DerivedOnPrefix
<1>4. /\ b \in {EventType[t] : t \in States} \X Times
      /\ b[1] = EventType[loc[h].state]
  BY <1>2 DEF Locals
<1>5. /\ e \in ReviewEvents /\ e.review = r /\ e.key = a /\ e.seq = s /\ e.body = b
      /\ OnPrefix(reviewLog, e)
  <2> HIDE DEF s, r, a, b
  <2> QED
    BY <1>2, <1>3, <1>4 DEF Row, ReviewEvents, OnPrefix
<1> HIDE DEF e
<1>6. CASE Fail(h)
  BY <1>1, <1>6, RefusalShape
<1>7. ASSUME NEW step \in {"outcome", "evKey"},
             pc' = [pc EXCEPT ![h] = step], loc' = [loc EXCEPT ![h].event = e],
             UNCHANGED reply
      PROVE  ShapeInv'
  <2>1. loc' = [loc EXCEPT ![h] = l]
    BY <1>7
  <2>2. /\ l \in Locals /\ l.att = a /\ l.state = loc[h].state /\ l.event = e
    BY <1>2, <1>5 DEF Locals
  <2> HIDE DEF l
  <2>3. loc'[h] = l /\ pc'[h] = step
    BY <1>7, <2>1 DEF ShapeInv, TypeOK
  <2>4. StoresGrow /\ StoresTyped' /\ LogsStayOrdered'
    BY <1>1, SameStoresTyped, LogsUnchanged DEF ShapeInv, stores, StoresGrow
  <2>5. EventBuilt(h)'
    BY <1>1, <1>4, <1>5, <2>2, <2>3 DEF EventBuilt, OnPrefix, stores
  <2>6. LocalsSet(h)'
    BY <1>1, <1>2, <2>2, <2>3
       DEF LocalsSet, stores, ReadSteps, PutSteps, DecidedSteps, EventSteps
  <2>7. HandlerOK(h)' /\ step \in Steps
    BY <2>3, <2>5, <2>6 DEF HandlerOK, AppendSteps, Steps, DecideSteps
  <2> QED
    BY <1>7, <2>1, <2>2, <2>4, <2>7, AdvanceShape
<1>8. \/ Fail(h)
      \/ \E step \in {"outcome", "evKey"} :
            /\ pc' = [pc EXCEPT ![h] = step]
            /\ loc' = [loc EXCEPT ![h].event = e]
            /\ UNCHANGED reply
  BY DEF LoadReviewLog, e
<1> QED
  BY <1>6, <1>7, <1>8
LEMMA ReviewSelectShape ==
  ASSUME ShapeInv, NEW h \in Requests, ReviewKeySelect(h) \/ ReviewMaxSelect(h)
  PROVE  ShapeInv'
<1>1. pc[h] \in {"evKey", "evMax"} /\ UNCHANGED <<clock, crashes, stores>>
  BY DEF ReviewKeySelect, ReviewMaxSelect, At
<1>2. \/ Fail(h)
      \/ \E step \in {"outcome", "evMax", "evInsert"} : Goto(h, step)
  BY DEF ReviewKeySelect, ReviewMaxSelect
<1>3. EventBuilt(h) /\ loc[h].state \in States
  BY <1>1 DEF ShapeInv, HandlerOK, LocalsSet, EventSteps, DecidedSteps
<1>4. CASE Fail(h)
  BY <1>1, <1>4, RefusalShape
<1>5. ASSUME NEW step \in {"outcome", "evMax", "evInsert"}, Goto(h, step)
      PROVE  ShapeInv'
  <2>1. /\ pc[h] # "idle" /\ pc[h] \in DecideSteps /\ step \in DecideSteps /\ step \in Steps
        /\ step \notin AppendSteps /\ step # "receipt"
    BY <1>1 DEF DecideSteps, Steps, AppendSteps
  <2>2. /\ step \in DecidedSteps => loc[h].state \in States
        /\ step \in AppendSteps => AccessBuilt(h)
        /\ step \in EventSteps => EventBuilt(h)
    BY <1>3, <2>1
  <2>3. UNCHANGED <<clock, crashes, stores>>
    BY <1>1
  <2> QED
    BY <1>5, <2>1, <2>2, <2>3, QuietGoto
<1> QED
  BY <1>2, <1>4, <1>5

LEMMA ReviewInsertShape ==
  ASSUME ShapeInv, NEW h \in Requests, ReviewInsert(h)
  PROVE  ShapeInv'
<1> DEFINE e == loc[h].event
<1>1. pc[h] = "evInsert" /\ UNCHANGED <<clock, crashes>>
  BY DEF ReviewInsert, At
<1>2. EventBuilt(h) /\ e \in ReviewEvents /\ e.seq \in Nat /\ OnPrefix(reviewLog, e)
  BY <1>1 DEF ShapeInv, HandlerOK, EventSteps, EventBuilt, ReviewEvents
<1>3. CASE ~InsertAllowed(reviewLog, e)
  <2>1. Fail(h) /\ UNCHANGED stores
    BY <1>3 DEF ReviewInsert, stores
  <2> QED
    BY <1>1, <2>1, RefusalShape
<1>4. CASE InsertAllowed(reviewLog, e)
  <2>1. reviewLog' = reviewLog \cup {e} /\ Goto(h, "outcome")
    BY <1>4 DEF ReviewInsert
  <2>2. UNCHANGED <<attempt, objects, artifactRow, classified, lifecycle, receipts, outcome, jobs>>
    BY DEF ReviewInsert
  <2>3. StoresGrow
    BY <2>1, <2>2 DEF StoresGrow
  <2>4. StoresTyped'
    <3>1. IsFiniteSet(reviewLog')
      BY <2>1, FS_AddElement DEF ShapeInv, TypeOK
    <3> QED
      BY <1>1, <1>2, <2>1, <2>2, <3>1, TypedStores DEF ShapeInv, StoresTyped
  <2>5. UniqueRows(reviewLog') /\ NoGaps(reviewLog')
    <3> HIDE DEF e
    <3> QED
      BY <1>2, <1>4, <2>1, LogsAreLogs, InsertOrdered
  <2>6. LogsStayOrdered'
    BY <2>2, <2>5 DEF ShapeInv, LogsStayOrdered
  <2>7. pc'[h] = "outcome" /\ loc'[h] = loc[h]
    BY <2>1 DEF Goto, ShapeInv, TypeOK
  <2>8. EventBuilt(h)'
    BY <1>2, <2>3, <2>7 DEF EventBuilt, OnPrefix, StoresGrow
  <2>9. HandlerOK(h)' /\ "outcome" \in Steps
    BY <1>1, <2>2, <2>7, <2>8
       DEF ShapeInv, HandlerOK, LocalsSet, PutSteps, ReadSteps, AppendSteps,
           EventSteps, DecidedSteps, Steps, DecideSteps
  <2> QED
    BY <1>1, <2>1, <2>3, <2>4, <2>6, <2>9, GotoShape
<1> QED
  BY <1>3, <1>4

(* Recording the outcome, queueing the job, and the answer. *)
LEMMA OutcomeShape ==
  ASSUME ShapeInv, NEW h \in Requests, RecordOutcome(h) \/ EnqueueNormalization(h)
  PROVE  ShapeInv'
<1> DEFINE a == loc[h].att
<1>1. pc[h] \in {"outcome", "enqueue"} /\ UNCHANGED <<clock, crashes>>
  BY DEF RecordOutcome, EnqueueNormalization, At
<1>2. loc[h] \in Locals /\ a \in Attempts /\ attempt[a] # NoBody /\ loc[h].state \in States
  BY <1>1, BusyHandler DEF ShapeInv, HandlerOK, LocalsSet, EventSteps, DecidedSteps
<1>3. StoresGrow
  BY DecideGrows DEF ShapeInv, Decide
<1>4. UNCHANGED <<attempt, objects, artifactRow, classified, lifecycle, receipts, reviewLog>>
  BY DEF RecordOutcome, EnqueueNormalization
<1>5. [state |-> loc[h].state, receipt |-> loc[h].receipt] \in Outcomes
  BY <1>2 DEF Locals, Outcomes
<1>6. StoresTyped'
  BY <1>1, <1>2, <1>4, <1>5, TypedStores
     DEF ShapeInv, StoresTyped, RecordOutcome, EnqueueNormalization
<1>7. LogsStayOrdered'
  BY <1>4, LogsUnchanged
<1>8. Built(h) \in Replies
  BY <1>2 DEF Built, Replies, Locals
<1>9. CASE Reply(h, Built(h))
  BY <1>3, <1>6, <1>7, <1>8, <1>9, ReplyShape
<1>10. CASE Goto(h, "enqueue")
  <2>1. pc'[h] = "enqueue" /\ loc'[h] = loc[h]
    BY <1>10 DEF Goto, ShapeInv, TypeOK
  <2>2. HandlerOK(h)' /\ "enqueue" \in Steps
    BY <1>2, <1>4, <2>1
       DEF HandlerOK, LocalsSet, PutSteps, ReadSteps, AppendSteps, EventSteps,
           DecidedSteps, Steps, DecideSteps
  <2> QED
    BY <1>1, <1>3, <1>6, <1>7, <1>10, <2>2, GotoShape
<1> QED
  BY <1>9, <1>10 DEF RecordOutcome, EnqueueNormalization

(* Time passes, the host stops, or nothing happens. *)
LEMMA OutsideShape ==
  ASSUME ShapeInv, Tick \/ HostCrash \/ UNCHANGED vars
  PROVE  ShapeInv'
<1>1. UNCHANGED stores
  BY DEF Tick, HostCrash, vars
<1>2. StoresTyped'
  BY <1>1, TypedStores, SubmissionAssumption
     DEF ShapeInv, StoresTyped, stores, Tick, HostCrash, vars, Times
<1>3. LogsStayOrdered'
  BY <1>1, LogsUnchanged DEF stores
<1>4. CASE HostCrash
  <2>1. TypeOK'
    BY <1>2, <1>4 DEF HostCrash, TypeOK, StoresTyped, Steps, Replies, NoReply
  <2>2. \A h \in Requests : HandlerOK(h)'
    BY <1>4 DEF HostCrash, HandlerOK, AppendSteps, EventSteps
  <2> QED
    BY <1>3, <2>1, <2>2 DEF ShapeInv
<1>5. CASE Tick \/ UNCHANGED vars
  <2>1. UNCHANGED <<pc, loc, reply>> /\ StoresGrow
    BY <1>1, <1>5 DEF Tick, vars, stores, StoresGrow
  <2>2. TypeOK'
    BY <1>2, <2>1 DEF ShapeInv, TypeOK, StoresTyped
  <2>3. \A h \in Requests : HandlerOK(h)'
    BY <2>1, HandlerStays
  <2> QED
    BY <1>3, <2>2, <2>3 DEF ShapeInv
<1> QED
  BY <1>4, <1>5

LEMMA NextShape == ShapeInv /\ [Next]_vars => ShapeInv'
<1> SUFFICES ASSUME ShapeInv, [Next]_vars PROVE ShapeInv'
  OBVIOUS
<1>1. ASSUME NEW h \in Requests, Proceed(h) PROVE ShapeInv'
  <2>1. CASE ReplyMissing(h) \/ Replay(h) \/ Put(h)
    BY <2>1, AnswerShape, PutShape
  <2>2. CASE ReadBack(h)
    BY <2>2, MintShape, ReadShape, AccessInsertShape, GetBytesShape DEF ReadBack
  <2>3. CASE Decide(h)
    BY <2>3, VerifyShape, RecordReceiptShape, BuildShape, LoadShape, ReviewSelectShape,
       ReviewInsertShape, OutcomeShape DEF Decide
  <2> QED
    BY <1>1, <2>1, <2>2, <2>3 DEF Proceed
<1> QED
  BY <1>1, SendShape, OutsideShape DEF Next

LEMMA InitShape == Init => ShapeInv
<1> SUFFICES ASSUME Init PROVE ShapeInv
  OBVIOUS
<1>1. TypeOK
  BY FS_EmptySet, SubmissionAssumption
     DEF Init, TypeOK, Times, Steps, Replies, NoReply
<1>2. LogsStayOrdered
  BY DEF Init, LogsStayOrdered, UniqueRows, NoGaps
<1>3. \A h \in Requests : HandlerOK(h)
  BY DEF Init, HandlerOK, AppendSteps, EventSteps
<1> QED
  BY <1>1, <1>2, <1>3 DEF ShapeInv

(* Types, locals and both logs are in order throughout. *)
THEOREM SubmissionShape == Spec => []ShapeInv
  BY InitShape, NextShape, PTL DEF Spec

(* The variables of the submission routes keep their types. *)
THEOREM SubmissionTypeOK == Spec => []TypeOK
<1>1. ShapeInv => TypeOK
  BY DEF ShapeInv
<1> QED
  BY <1>1, SubmissionShape, PTL

(* Finalizes that race for the numbers of the review log and the lifecycle *)
(* log leave both without a gap and without a number or key used twice.    *)
THEOREM SubmissionLogsStayOrdered == Spec => []LogsStayOrdered
<1>1. ShapeInv => LogsStayOrdered
  BY DEF ShapeInv
<1> QED
  BY <1>1, SubmissionShape, PTL
-----------------------------------------------------------------------------
(* Action properties and the second invariant.                             *)

LEMMA NextGrows == TypeOK /\ [Next]_vars => StoresGrow
<1> SUFFICES ASSUME TypeOK, [Next]_vars PROVE StoresGrow
  OBVIOUS
<1>1. CASE Tick \/ HostCrash \/ UNCHANGED vars
  BY <1>1 DEF Tick, HostCrash, vars, stores, StoresGrow
<1>2. ASSUME NEW h \in Requests, Send(h) \/ Proceed(h) PROVE StoresGrow
  BY <1>2, SendGrows, PutGrows, ReadGrows, DecideGrows DEF Proceed
<1> QED
  BY <1>1, <1>2 DEF Next

(* No step of any handler changes an opened attempt or a recorded outcome, *)
(* or removes an access event, a review event or a receipt.                *)
THEOREM SubmissionRecordsAreFinal == Spec => RecordsAreFinal
<1>1. TypeOK /\ [Next]_vars =>
        [/\ \A a \in Attempts : attempt[a] # NoBody => attempt'[a] = attempt[a]
         /\ \A a \in Attempts : outcome[a] # NoOutcome => outcome'[a] = outcome[a]
         /\ lifecycle \subseteq lifecycle'
         /\ reviewLog \subseteq reviewLog'
         /\ receipts \subseteq receipts']_vars
  BY NextGrows DEF StoresGrow
<1> QED
  BY <1>1, SubmissionTypeOK, PTL DEF Spec, RecordsAreFinal

LEMMA LoggedIsKeyRow ==
  ASSUME NEW a, NEW d
  PROVE  Logged(a, d) <=> KeyRows(lifecycle, ReviewOf[a], AccessKey(a, d)) # {}
  BY DEF Logged, KeyRows, RowsOf

(* What is logged stays logged. *)
LEMMA LoggedStays ==
  ASSUME StoresGrow, NEW a, NEW d, Logged(a, d)
  PROVE  Logged(a, d)'
  BY DEF StoresGrow, Logged

(* A manifest whose attempt is open stays the manifest. *)
LEMMA ManifestStays ==
  ASSUME StoresGrow, NEW a \in Attempts, attempt[a] # NoBody
  PROVE  ManifestOf(a)' = ManifestOf(a) /\ Listed(a)' = Listed(a)
  BY DEF StoresGrow, ManifestOf, Listed

LEMMA ReadsStay ==
  ASSUME ShapeInv, StoresGrow, NEW q \in Requests, HandlerReads(q),
         pc'[q] = pc[q], loc'[q] = loc[q]
  PROVE  HandlerReads(q)'
<1>1. CASE pc[q] = "idle"
  BY <1>1 DEF HandlerReads, ReadSteps, DecideSteps
<1>2. CASE pc[q] # "idle"
  <2>1. ManifestOf(loc[q].att)' = ManifestOf(loc[q].att)
    BY <1>2, BusyHandler, ManifestStays
  <2> QED
    BY <2>1, LoggedStays DEF HandlerReads, ManifestOf
<1> QED
  BY <1>1, <1>2

(* A step inside the reading or the deciding part of a handler keeps what  *)
(* it has read.                                                            *)
LEMMA ReadsCarryOver ==
  ASSUME ShapeInv, StoresGrow, NEW h \in Requests, HandlerReads(h), pc[h] # "idle",
         loc'[h].att = loc[h].att, loc'[h].i = loc[h].i,
         \/ pc[h] \in ReadSteps /\ pc'[h] \in ReadSteps
         \/ pc[h] \in DecideSteps /\ pc'[h] \in DecideSteps,
         pc'[h] = "bytes" => Logged(loc[h].att, Digest(h))'
  PROVE  HandlerReads(h)'
<1> DEFINE a == loc[h].att
           m == Manifest[attempt[a]]
<1>1. attempt'[a] = attempt[a]
  BY BusyHandler DEF StoresGrow
<1>2. /\ pc[h] \in ReadSteps => \A j \in 1 .. loc[h].i - 1 : Logged(a, m[j])
      /\ pc[h] \in DecideSteps => \A j \in 1 .. Len(m) : Logged(a, m[j])
  BY DEF HandlerReads, ManifestOf
<1>3. \A d : Logged(a, d) => \E x \in lifecycle' : x.review = ReviewOf[a] /\ x.key = AccessKey(a, d)
  BY DEF StoresGrow, Logged
<1>4. pc'[h] = "bytes" =>
        \E x \in lifecycle' : x.review = ReviewOf[a] /\ x.key = AccessKey(a, m[loc[h].i])
  BY <1>1 DEF Digest, ManifestOf, Logged
<1> QED
  BY <1>1, <1>2, <1>3, <1>4 DEF HandlerReads, ReadSteps, DecideSteps, ManifestOf, Logged

(* Where the reading steps lead, with which locals. *)
LEMMA ReadBackReads ==
  ASSUME ShapeInv, NEW h \in Requests, HandlerReads(h), ReadBack(h)
  PROVE  HandlerReads(h)'
<1> DEFINE a == loc[h].att
<1>1. StoresGrow
  BY ReadGrows DEF ShapeInv
<1>2. pc[h] \in ReadSteps /\ pc[h] # "idle"
  BY DEF ReadBack, Mint, GetRow, AccessKeySelect, AccessMaxSelect, AccessInsert, GetBytes,
         At, ReadSteps
<1>3. loc[h] \in Locals /\ attempt'[a] = attempt[a] /\ loc[h].i \in 1 .. Len(ManifestOf(a))
  BY <1>1, <1>2, BusyHandler DEF StoresGrow, ShapeInv, HandlerOK, LocalsSet
<1>4. CASE pc'[h] = "idle"
  BY <1>4 DEF HandlerReads, ReadSteps, DecideSteps
<1>5. CASE Mint(h) /\ pc'[h] # "idle"
  <2>1. pc'[h] = "row" /\ loc'[h].att = a /\ loc'[h].i = loc[h].i
    BY <1>3, <1>5
       DEF Mint, Incomplete, Reply, ShapeInv, TypeOK, Locals
  <2> QED
    BY <1>1, <1>2, <2>1, ReadsCarryOver DEF ReadSteps
<1>6. CASE (GetRow(h) \/ AccessKeySelect(h) \/ AccessMaxSelect(h)) /\ pc'[h] # "idle"
  <2>1. loc' = loc /\ lifecycle' = lifecycle /\ pc'[h] \in ReadSteps
    BY <1>6 DEF GetRow, AccessKeySelect, AccessMaxSelect, Goto, Incomplete, Reply, stores,
                ShapeInv, TypeOK, ReadSteps
  <2>2. AccessBuilt(h)
    BY <1>6 DEF GetRow, AccessKeySelect, AccessMaxSelect, At, ShapeInv, HandlerOK, AppendSteps
  <2>3. pc'[h] = "bytes" => loc[h].access \in lifecycle
    BY <1>6 DEF GetRow, AccessKeySelect, AccessMaxSelect, Goto, Incomplete, Reply,
                ShapeInv, TypeOK, KeySelect
  <2>4. pc'[h] = "bytes" => Logged(a, Digest(h))'
    BY <1>3, <2>1, <2>2, <2>3 DEF Logged, AccessBuilt, Digest, ManifestOf
  <2> QED
    BY <1>1, <1>2, <2>1, <2>4, ReadsCarryOver
<1>7. CASE AccessInsert(h) /\ pc'[h] # "idle"
  <2>1. loc' = loc /\ lifecycle' = lifecycle \cup {loc[h].access} /\ pc'[h] = "bytes"
    BY <1>7 DEF AccessInsert, Goto, Fail, Reply, ShapeInv, TypeOK
  <2>2. AccessBuilt(h)
    BY <1>7 DEF AccessInsert, At, ShapeInv, HandlerOK, AppendSteps
  <2>3. Logged(a, Digest(h))'
    BY <1>3, <2>1, <2>2 DEF Logged, AccessBuilt, Digest, ManifestOf
  <2> QED
    BY <1>1, <1>2, <2>1, <2>3, ReadsCarryOver DEF ReadSteps
<1>8. CASE GetBytes(h) /\ pc'[h] # "idle"
  <2>1. /\ loc' = [loc EXCEPT ![h] = [loc[h] EXCEPT !.i = loc[h].i + 1]]
        /\ pc' = [pc EXCEPT ![h] = ReadNext(a, loc[h].i)]
        /\ lifecycle' = lifecycle /\ pc[h] = "bytes"
    BY <1>8 DEF GetBytes, At, Incomplete, Reply, ShapeInv, TypeOK, stores
  <2>2. loc'[h].att = a /\ loc'[h].i = loc[h].i + 1 /\ pc'[h] = ReadNext(a, loc[h].i)
    BY <1>3, <2>1 DEF Locals, ShapeInv, TypeOK
  <2>3. \A j \in 1 .. loc[h].i : Logged(a, ManifestOf(a)[j])
    BY <1>2, <1>3, <2>1 DEF HandlerReads
  <2>4. Len(ManifestOf(a)) \in Nat
    BY <1>2, BusyHandler
  <2>5. CASE loc[h].i < Len(ManifestOf(a))
    <3>1. pc'[h] = "mint" /\ loc'[h].i - 1 = loc[h].i
      BY <1>3, <2>2, <2>4, <2>5 DEF ReadNext
    <3> QED
      BY <1>3, <2>1, <2>2, <2>3, <3>1 DEF HandlerReads, ManifestOf, Logged, ReadSteps, DecideSteps
  <2>6. CASE loc[h].i = Len(ManifestOf(a))
    <3>1. pc'[h] = "verify"
      BY <1>3, <2>2, <2>4, <2>6 DEF ReadNext
    <3> QED
      BY <1>3, <2>1, <2>2, <2>3, <2>6, <3>1
         DEF HandlerReads, ManifestOf, Logged, ReadSteps, DecideSteps
  <2> QED
    BY <1>3, <2>4, <2>5, <2>6
<1> QED
  BY <1>4, <1>5, <1>6, <1>7, <1>8 DEF ReadBack
(* A deciding step keeps the handler's attempt and position. *)
LEMMA DecideKeeps ==
  ASSUME ShapeInv, NEW h \in Requests, Decide(h)
  PROVE  /\ pc[h] \in DecideSteps /\ pc[h] # "idle" /\ loc[h] \in Locals
         /\ \/ pc'[h] = "idle"
            \/ /\ pc'[h] \in DecideSteps
               /\ loc'[h].att = loc[h].att /\ loc'[h].i = loc[h].i
<1>1. pc[h] \in DecideSteps /\ pc[h] # "idle"
  BY DEF Decide, Verify, RecordReceipt, Build, LoadReviewLog, ReviewKeySelect,
         ReviewMaxSelect, ReviewInsert, RecordOutcome, EnqueueNormalization, At, DecideSteps
<1>2. loc[h] \in Locals
  BY <1>1, BusyHandler
<1>3. CASE Verify(h)
  BY <1>1, <1>2, <1>3 DEF Verify, ShapeInv, TypeOK, Locals, DecideSteps
<1>4. CASE Build(h)
  BY <1>1, <1>2, <1>4 DEF Build, ShapeInv, TypeOK, Locals, DecideSteps
<1>5. CASE LoadReviewLog(h)
  <2>1. \/ pc'[h] = "idle"
        \/ /\ pc'[h] \in {"outcome", "evKey"}
           /\ \E e : loc' = [loc EXCEPT ![h].event = e]
    BY <1>5 DEF LoadReviewLog, Fail, Reply, ShapeInv, TypeOK
  <2> QED
    BY <1>1, <1>2, <2>1 DEF ShapeInv, TypeOK, Locals, DecideSteps
<1>6. CASE \/ RecordReceipt(h) \/ ReviewKeySelect(h) \/ ReviewMaxSelect(h) \/ ReviewInsert(h)
           \/ RecordOutcome(h) \/ EnqueueNormalization(h)
  BY <1>1, <1>2, <1>6 DEF RecordReceipt, ReviewKeySelect, ReviewMaxSelect, ReviewInsert, RecordOutcome,
              EnqueueNormalization, Goto, Fail, Reply, ShapeInv, TypeOK, DecideSteps
<1> QED
  BY <1>1, <1>2, <1>3, <1>4, <1>5, <1>6 DEF Decide

(* A finalize begins with nothing read. *)
LEMMA SendReads ==
  ASSUME ShapeInv, NEW h \in Requests, Send(h)
  PROVE  HandlerReads(h)'
<1>1. PICK a \in Attempts : \/ \E b \in Bodies : Open(h, a, b)
                            \/ PutBegin(h, a)
                            \/ FinalizeBegin(h, a)
  BY DEF Send
<1>2. CASE pc'[h] \in {"missing", "putSelect", "replay"}
  BY <1>2 DEF HandlerReads, ReadSteps, DecideSteps
<1>3. CASE FinalizeBegin(h, a) /\ outcome[a] = NoOutcome
  <2>1. /\ pc'[h] = ReadNext(a, 0) /\ loc'[h].att = a /\ loc'[h].i = 1
        /\ attempt' = attempt /\ attempt[a] # NoBody
    BY <1>3 DEF FinalizeBegin, Begin, stores, ShapeInv, TypeOK
  <2>2. ManifestOf(a) \in Seq(Digests)
    BY <2>1, SubmissionAssumption DEF ShapeInv, TypeOK, ManifestOf
  <2>3. CASE 0 < Len(ManifestOf(a))
    BY <2>1, <2>3 DEF ReadNext, HandlerReads, ReadSteps, DecideSteps
  <2>4. CASE Len(ManifestOf(a)) = 0
    BY <2>1, <2>4 DEF ReadNext, HandlerReads, ReadSteps, DecideSteps, ManifestOf
  <2> QED
    BY <2>2, <2>3, <2>4
<1> QED
  BY <1>1, <1>2, <1>3 DEF Open, PutBegin, FinalizeBegin, Begin, ShapeInv, TypeOK

(* Only recordOutcome writes an outcome, of an attempt that was read. *)
LEMMA OutcomeWriter ==
  ASSUME ShapeInv, [Next]_vars, NEW a \in Attempts, outcome'[a] # outcome[a]
  PROVE  \E h \in Requests :
           /\ RecordOutcome(h) /\ pc[h] = "outcome" /\ loc[h].att = a
           /\ outcome'[a] = [state |-> loc[h].state, receipt |-> loc[h].receipt]
<1>1. PICK h \in Requests : RecordOutcome(h)
  BY DEF Next, vars, Send, Open, PutBegin, FinalizeBegin, stores, Tick, HostCrash, Proceed,
         ReplyMissing, Replay, Put, PutSelect, PutBytes, PutInsert, PutClassify, ReadBack,
         Mint, GetRow, AccessKeySelect, AccessMaxSelect, AccessInsert, GetBytes, Decide,
         Verify, RecordReceipt, Build, LoadReviewLog, ReviewKeySelect, ReviewMaxSelect,
         ReviewInsert, EnqueueNormalization
<1> QED
  BY <1>1 DEF RecordOutcome, At, ShapeInv, TypeOK

LEMMA NextReads == ShapeInv /\ ReadsInv /\ [Next]_vars => ReadsInv'
<1> SUFFICES ASSUME ShapeInv, ReadsInv, [Next]_vars PROVE ReadsInv'
  OBVIOUS
<1>1. StoresGrow
  BY NextGrows DEF ShapeInv
<1>2. \A q \in Requests : HandlerReads(q)
  BY DEF ReadsInv
<1>3. \A q \in Requests : HandlerReads(q)'
  <2>1. CASE Tick \/ UNCHANGED vars
    BY <1>1, <1>2, <2>1, ReadsStay DEF Tick, vars
  <2>2. CASE HostCrash
    BY <2>2 DEF HostCrash, HandlerReads, ReadSteps, DecideSteps
  <2>3. ASSUME NEW h \in Requests, Send(h) \/ Proceed(h) PROVE \A q \in Requests : HandlerReads(q)'
    <3>1. Moves(h)
      BY <2>3, SendGrows, PutGrows, ReadGrows, DecideGrows DEF Proceed, ShapeInv
    <3>2. \A q \in Requests \ {h} : HandlerReads(q)'
      BY <1>1, <1>2, <3>1, ReadsStay DEF Moves
    <3>3. CASE Send(h)
      BY <3>2, <3>3, SendReads
    <3>4. CASE ReadBack(h)
      BY <1>2, <3>2, <3>4, ReadBackReads
    <3>5. CASE ReplyMissing(h) \/ Replay(h) \/ Put(h)
      <4>1. pc'[h] \notin ReadSteps /\ pc'[h] \notin DecideSteps
        BY <3>5 DEF ReplyMissing, Replay, Put, PutSelect, PutBytes, PutInsert, PutClassify,
                    Reply, Goto, ShapeInv, TypeOK, ReadSteps, DecideSteps
      <4> QED
        BY <3>2, <4>1 DEF HandlerReads, ReadSteps
    <3>6. CASE Decide(h)
      <4>1. HandlerReads(h)'
        <5>1. CASE pc'[h] = "idle"
          BY <5>1 DEF HandlerReads, ReadSteps, DecideSteps
        <5>2. CASE pc'[h] # "idle"
          BY <1>1, <1>2, <3>6, <5>2, DecideKeeps, ReadsCarryOver DEF DecideSteps
        <5> QED
          BY <5>1, <5>2
      <4> QED
        BY <3>2, <4>1
    <3> QED
      BY <2>3, <3>3, <3>4, <3>5, <3>6 DEF Proceed
  <2> QED
    BY <2>1, <2>2, <2>3 DEF Next
<1>4. ASSUME NEW a \in Attempts, outcome'[a] # NoOutcome
      PROVE  /\ attempt[a] # NoBody
             /\ \A d \in Listed(a) : Logged(a, d)
  <2>1. CASE outcome'[a] = outcome[a]
    BY <1>4, <2>1, LoggedIsKeyRow DEF ReadsInv, ReadsAreLogged
  <2>2. CASE outcome'[a] # outcome[a]
    <3>1. PICK h \in Requests : pc[h] = "outcome" /\ loc[h].att = a
      BY <2>2, OutcomeWriter
    <3>2. attempt[a] # NoBody
      BY <3>1, BusyHandler
    <3>3. \A j \in 1 .. Len(ManifestOf(a)) : Logged(a, ManifestOf(a)[j])
      BY <1>2, <3>1 DEF HandlerReads, DecideSteps
    <3> QED
      BY <3>2, <3>3 DEF Listed
  <2> QED
    BY <2>1, <2>2
<1>5. \A a \in Attempts : outcome'[a] # NoOutcome => attempt'[a] # NoBody
  BY <1>1, <1>4 DEF StoresGrow
<1>6. ReadsAreLogged'
  <2> SUFFICES ASSUME NEW a \in Attempts, outcome'[a] # NoOutcome, NEW d \in Listed(a)'
               PROVE  KeyRows(lifecycle', ReviewOf[a], AccessKey(a, d)) # {}
    BY DEF ReadsAreLogged
  <2>1. Listed(a)' = Listed(a)
    BY <1>1, <1>4, ManifestStays
  <2>2. Logged(a, d)
    BY <1>4, <2>1
  <2> QED
    BY <1>1, <2>2 DEF StoresGrow, Logged, KeyRows, RowsOf
<1> QED
  BY <1>3, <1>5, <1>6 DEF ReadsInv

LEMMA InitReads == Init => ReadsInv
  BY DEF Init, ReadsInv, ReadsAreLogged, HandlerReads, ReadSteps, DecideSteps

(* ArtifactStore.get logs every read: whatever outcome is stored, each     *)
(* artifact it was decided on has its access event.                        *)
THEOREM SubmissionReadsAreLogged == Spec => []ReadsAreLogged
<1>1. Spec => []ReadsInv
  BY InitReads, NextReads, SubmissionShape, PTL DEF Spec
<1>2. ReadsInv => ReadsAreLogged
  BY DEF ReadsInv
<1> QED
  BY <1>1, <1>2, PTL
-----------------------------------------------------------------------------
(* The third invariant.                                                    *)

LEMMA EventTypeInjective ==
  \A s, t \in States : EventType[s] = EventType[t] => s = t
  BY DEF EventType, States

LEMMA NoOutcomeHasNoState == NoOutcome.state \notin States
  BY DEF NoOutcome, States

(* A handler whose event is in the log has decided what is stored, if      *)
(* anything is: the key of the event is the attempt.                       *)
LEMMA DecidedAsStored ==
  ASSUME ShapeInv, OutcomeMatchesEvent, NEW h \in Requests, pc[h] = "outcome",
         loc[h].event \in reviewLog, outcome[loc[h].att] # NoOutcome
  PROVE  outcome[loc[h].att].state = loc[h].state
<1> DEFINE a == loc[h].att
<1>1. a \in Attempts /\ loc[h].state \in States /\ EventBuilt(h)
  BY BusyHandler DEF ShapeInv, HandlerOK, LocalsSet, EventSteps, DecidedSteps
<1>2. loc[h].event \in KeyRows(reviewLog, ReviewOf[a], a)
  BY <1>1 DEF EventBuilt, KeyRows, RowsOf
<1>3. EventType[loc[h].state] = EventType[outcome[a].state]
  BY <1>1, <1>2 DEF OutcomeMatchesEvent, EventBuilt
<1>4. outcome[a].state \in States
  BY <1>1 DEF ShapeInv, TypeOK, Outcomes
<1> QED
  BY <1>1, <1>3, <1>4, EventTypeInjective

(* After recordOutcome the stored state is the handler's. *)
LEMMA RecordedAsDecided ==
  ASSUME ShapeInv, DecisionInv, NEW h \in Requests, RecordOutcome(h)
  PROVE  /\ outcome'[loc[h].att].state = loc[h].state
         /\ loc[h].att \in Attempts /\ loc[h].state \in States
<1> DEFINE a == loc[h].att
<1>1. pc[h] = "outcome"
  BY DEF RecordOutcome, At
<1>2. a \in Attempts /\ loc[h].state \in States /\ loc[h].event \in reviewLog
  BY <1>1, BusyHandler
     DEF ShapeInv, HandlerOK, LocalsSet, EventSteps, DecidedSteps, DecisionInv, HandlerDecides
<1>3. CASE outcome[a] = NoOutcome
  BY <1>2, <1>3 DEF RecordOutcome, ShapeInv, TypeOK
<1>4. CASE outcome[a] # NoOutcome
  <2>1. outcome[a].state = loc[h].state
    BY <1>1, <1>2, <1>4, DecidedAsStored DEF DecisionInv
  <2> QED
    BY <1>2, <1>4, <2>1 DEF RecordOutcome, ShapeInv, TypeOK
<1> QED
  BY <1>2, <1>3, <1>4

LEMMA DecidesStay ==
  ASSUME ShapeInv, StoresGrow, NEW q \in Requests, HandlerDecides(q),
         pc'[q] = pc[q], loc'[q] = loc[q]
  PROVE  HandlerDecides(q)'
<1>1. CASE pc[q] = "enqueue"
  <2>1. loc[q].att \in Attempts
    BY <1>1, BusyHandler
  <2>2. outcome[loc[q].att] # NoOutcome
    BY <1>1, NoOutcomeHasNoState DEF HandlerDecides, States
  <2> QED
    BY <1>1, <2>1, <2>2 DEF HandlerDecides, StoresGrow
<1>2. CASE pc[q] # "enqueue"
  BY <1>2 DEF HandlerDecides, StoresGrow
<1> QED
  BY <1>1, <1>2

(* The steps of a decision, in order. *)
LEMMA DecideDecides ==
  ASSUME ShapeInv, DecisionInv, NEW h \in Requests, Decide(h)
  PROVE  HandlerDecides(h)'
<1>1. StoresGrow
  BY DecideGrows DEF ShapeInv
<1>2. HandlerDecides(h)
  BY DEF DecisionInv
<1>3. loc[h] \in Locals /\ loc[h].att \in Attempts
  BY DecideKeeps DEF Locals
<1>4. CASE pc'[h] = "idle"
  BY <1>4 DEF HandlerDecides, DecidedSteps, EventSteps
<1>5. CASE Verify(h)
  BY <1>3, <1>5 DEF Verify, HandlerDecides, ShapeInv, TypeOK, Locals, DecidedSteps, EventSteps
<1>6. CASE RecordReceipt(h)
  <2>1. /\ pc[h] = "receipt" /\ pc'[h] = "build" /\ loc'[h] = loc[h]
        /\ receipts' = receipts \cup {loc[h].receipt}
    BY <1>6 DEF RecordReceipt, At, Goto, ShapeInv, TypeOK
  <2> QED
    BY <1>2, <2>1 DEF HandlerDecides
<1>7. CASE Build(h)
  <2>1. /\ pc[h] = "build" /\ pc'[h] = "load"
        /\ loc'[h].att = loc[h].att /\ loc'[h].state = loc[h].state
        /\ loc'[h].receipt = loc[h].receipt
    BY <1>3, <1>7 DEF Build, At, ShapeInv, TypeOK, Locals
  <2> QED
    BY <1>1, <1>2, <2>1 DEF HandlerDecides, DecidedSteps, StoresGrow
<1>8. CASE LoadReviewLog(h) /\ pc'[h] # "idle"
  <2>1. /\ pc[h] = "load" /\ reviewLog' = reviewLog
        /\ \E e : /\ loc' = [loc EXCEPT ![h] = [loc[h] EXCEPT !.event = e]]
                  /\ \/ pc'[h] = "evKey"
                     \/ pc'[h] = "outcome" /\ e \in reviewLog
    BY <1>8 DEF LoadReviewLog, At, Fail, Reply, ShapeInv, TypeOK, AppendDecision, KeySelect, stores
  <2>2. /\ loc'[h].att = loc[h].att /\ loc'[h].state = loc[h].state
        /\ loc'[h].receipt = loc[h].receipt
        /\ pc'[h] = "outcome" => loc'[h].event \in reviewLog
    BY <1>3, <2>1 DEF Locals, ShapeInv, TypeOK
  <2> QED
    BY <1>1, <1>2, <2>1, <2>2 DEF HandlerDecides, DecidedSteps, EventSteps, StoresGrow
<1>9. CASE (ReviewKeySelect(h) \/ ReviewMaxSelect(h) \/ ReviewInsert(h)) /\ pc'[h] # "idle"
  <2>1. /\ pc[h] \in DecidedSteps /\ loc'[h] = loc[h]
        /\ pc'[h] \in {"evMax", "evInsert", "outcome"}
        /\ pc'[h] = "outcome" => loc[h].event \in reviewLog'
    BY <1>9 DEF ReviewKeySelect, ReviewMaxSelect, ReviewInsert, At, Goto, Fail, Reply,
                ShapeInv, TypeOK, KeySelect, stores, DecidedSteps, EventSteps
  <2> QED
    BY <1>1, <1>2, <2>1 DEF HandlerDecides, StoresGrow
<1>10. CASE RecordOutcome(h) /\ pc'[h] # "idle"
  <2>1. /\ pc[h] = "outcome" /\ loc'[h] = loc[h] /\ pc'[h] = "enqueue"
        /\ loc[h].state = "received_with_receipt"
    BY <1>10 DEF RecordOutcome, At, Goto, Reply, ShapeInv, TypeOK
  <2>2. outcome'[loc[h].att].state = "received_with_receipt"
    BY <1>10, <2>1, RecordedAsDecided
  <2> QED
    BY <1>1, <1>2, <2>1, <2>2 DEF HandlerDecides, StoresGrow, DecidedSteps, EventSteps
<1>11. CASE EnqueueNormalization(h)
  BY <1>4, <1>11 DEF EnqueueNormalization, Reply, ShapeInv, TypeOK
<1> QED
  BY <1>4, <1>5, <1>6, <1>7, <1>8, <1>9, <1>10, <1>11 DEF Decide
(* Who writes the review log, the job table and an answer with an outcome. *)
LEMMA ReviewLogWriter ==
  ASSUME ShapeInv, [Next]_vars, NEW x \in reviewLog', x \notin reviewLog
  PROVE  InsertAllowed(reviewLog, x)
<1>1. PICK h \in Requests : ReviewInsert(h)
  BY DEF Next, vars, Send, Open, PutBegin, FinalizeBegin, stores, Tick, HostCrash, Proceed,
         ReplyMissing, Replay, Put, PutSelect, PutBytes, PutInsert, PutClassify, ReadBack,
         Mint, GetRow, AccessKeySelect, AccessMaxSelect, AccessInsert, GetBytes, Decide,
         Verify, RecordReceipt, Build, LoadReviewLog, ReviewKeySelect, ReviewMaxSelect,
         RecordOutcome, EnqueueNormalization
<1> QED
  BY <1>1 DEF ReviewInsert

LEMMA JobWriter ==
  ASSUME ShapeInv, [Next]_vars, NEW a \in jobs', a \notin jobs
  PROVE  \E h \in Requests :
            \/ EnqueueNormalization(h) /\ a = loc[h].att
            \/ Replay(h) /\ outcome[a].state = "received_with_receipt" /\ a = loc[h].att
<1>1. PICK h \in Requests : EnqueueNormalization(h) \/ Replay(h)
  BY DEF Next, vars, Send, Open, PutBegin, FinalizeBegin, stores, Tick, HostCrash, Proceed,
         ReplyMissing, Put, PutSelect, PutBytes, PutInsert, PutClassify, ReadBack,
         Mint, GetRow, AccessKeySelect, AccessMaxSelect, AccessInsert, GetBytes, Decide,
         Verify, RecordReceipt, Build, LoadReviewLog, ReviewKeySelect, ReviewMaxSelect,
         ReviewInsert, RecordOutcome
<1> QED
  BY <1>1 DEF EnqueueNormalization, Replay

LEMMA OutcomeReplyWriter ==
  ASSUME ShapeInv, [Next]_vars, NEW h \in Requests,
         reply'[h].code = "outcome", reply'[h] # reply[h]
  PROVE  \/ Replay(h)
         \/ RecordOutcome(h) /\ Reply(h, Built(h)) /\ loc[h].state # "received_with_receipt"
         \/ EnqueueNormalization(h)
<1>1. CASE Tick \/ HostCrash \/ UNCHANGED vars
  BY <1>1 DEF Tick, HostCrash, vars, NoReply
<1>2. ASSUME NEW p \in Requests, Send(p) \/ Proceed(p) PROVE p = h
  BY <1>2, SendGrows, PutGrows, ReadGrows, DecideGrows DEF Moves, Proceed, ShapeInv
<1>3. CASE Send(h)
  BY <1>3 DEF Send, Open, PutBegin, FinalizeBegin, Begin, NoReply, ShapeInv, TypeOK
<1>4. CASE ReplyMissing(h) \/ Put(h)
  BY <1>4 DEF ReplyMissing, Reply, Put, PutSelect, PutBytes, PutInsert, PutClassify, Goto,
              ShapeInv, TypeOK
<1>5. CASE ReadBack(h)
  BY <1>5 DEF ReadBack, Mint, GetRow, AccessKeySelect, AccessMaxSelect, AccessInsert,
              GetBytes, Goto, Incomplete, Fail, Reply, ShapeInv, TypeOK
<1>6. CASE Decide(h)
  BY <1>6 DEF Decide, Verify, RecordReceipt, Build, LoadReviewLog, ReviewKeySelect,
              ReviewMaxSelect, ReviewInsert, RecordOutcome, Goto, Fail, Reply, ShapeInv, TypeOK
<1> QED
  BY <1>1, <1>2, <1>3, <1>4, <1>5, <1>6 DEF Next, Proceed

LEMMA NextDecisions == ShapeInv /\ DecisionInv /\ [Next]_vars => DecisionInv'
<1> SUFFICES ASSUME ShapeInv, DecisionInv, [Next]_vars PROVE DecisionInv'
  OBVIOUS
<1>1. StoresGrow
  BY NextGrows DEF ShapeInv
<1>2. \A q \in Requests : HandlerDecides(q)
  BY DEF DecisionInv
<1>3. \A q \in Requests : HandlerDecides(q)'
  <2>1. CASE Tick \/ UNCHANGED vars
    BY <1>1, <1>2, <2>1, DecidesStay DEF Tick, vars
  <2>2. CASE HostCrash
    BY <2>2 DEF HostCrash, HandlerDecides, DecidedSteps, EventSteps
  <2>3. ASSUME NEW h \in Requests, Send(h) \/ Proceed(h)
        PROVE  \A q \in Requests : HandlerDecides(q)'
    <3>1. Moves(h)
      BY <2>3, SendGrows, PutGrows, ReadGrows, DecideGrows DEF Proceed, ShapeInv
    <3>2. \A q \in Requests \ {h} : HandlerDecides(q)'
      BY <1>1, <1>2, <3>1, DecidesStay DEF Moves
    <3>3. CASE Decide(h)
      BY <3>2, <3>3, DecideDecides
    <3>4. CASE Send(h) \/ ReplyMissing(h) \/ Replay(h) \/ Put(h) \/ ReadBack(h)
      <4>1. pc'[h] \notin DecidedSteps /\ pc'[h] # "receipt"
        <5>1. CASE Send(h)
          BY <5>1 DEF Send, Open, PutBegin, FinalizeBegin, Begin, ReadNext, ShapeInv, TypeOK,
                      DecidedSteps, EventSteps
        <5>2. CASE ReplyMissing(h) \/ Replay(h) \/ Put(h)
          BY <5>2 DEF ReplyMissing, Replay, Put, PutSelect, PutBytes, PutInsert, PutClassify,
                      Reply, Goto, ShapeInv, TypeOK, DecidedSteps, EventSteps
        <5>3. CASE ReadBack(h)
          BY <5>3 DEF ReadBack, Mint, GetRow, AccessKeySelect, AccessMaxSelect, AccessInsert,
                      GetBytes, Goto, Incomplete, Fail, Reply, ReadNext, ShapeInv, TypeOK,
                      DecidedSteps, EventSteps
        <5> QED
          BY <3>4, <5>1, <5>2, <5>3
      <4> QED
        BY <3>2, <4>1 DEF HandlerDecides, DecidedSteps, EventSteps
    <3> QED
      BY <2>3, <3>3, <3>4 DEF Proceed
  <2> QED
    BY <2>1, <2>2, <2>3 DEF Next
<1>4. OutcomeReceiptDurable'
  <2> SUFFICES ASSUME NEW a \in Attempts, outcome'[a].state = "received_with_receipt"
               PROVE  outcome'[a].receipt \in receipts' /\ outcome'[a].receipt.attempt = a
    BY DEF OutcomeReceiptDurable
  <2>1. CASE outcome'[a] = outcome[a]
    BY <1>1, <2>1 DEF DecisionInv, OutcomeReceiptDurable, StoresGrow
  <2>2. CASE outcome'[a] # outcome[a]
    <3>1. PICK h \in Requests :
             /\ pc[h] = "outcome" /\ loc[h].att = a
             /\ outcome'[a] = [state |-> loc[h].state, receipt |-> loc[h].receipt]
      BY <2>2, OutcomeWriter
    <3>2. loc[h].receipt \in receipts /\ loc[h].receipt.attempt = a
      BY <1>2, <3>1 DEF HandlerDecides, DecidedSteps, EventSteps
    <3> QED
      BY <1>1, <3>1, <3>2 DEF StoresGrow
  <2> QED
    BY <2>1, <2>2
<1>5. OutcomeMatchesEvent'
  <2> SUFFICES ASSUME NEW a \in Attempts, outcome'[a] # NoOutcome
               PROVE  /\ KeyRows(reviewLog', ReviewOf[a], a) # {}
                      /\ \A x \in KeyRows(reviewLog', ReviewOf[a], a) :
                            x.body[1] = EventType[outcome'[a].state]
    BY DEF OutcomeMatchesEvent
  <2>1. CASE outcome'[a] = outcome[a]
    <3>1. /\ KeyRows(reviewLog, ReviewOf[a], a) # {}
          /\ \A x \in KeyRows(reviewLog, ReviewOf[a], a) :
                x.body[1] = EventType[outcome'[a].state]
      BY <2>1 DEF DecisionInv, OutcomeMatchesEvent
    <3>2. ASSUME NEW x \in KeyRows(reviewLog', ReviewOf[a], a), x \notin reviewLog
          PROVE  FALSE
      <4>1. InsertAllowed(reviewLog, x) /\ x.review = ReviewOf[a] /\ x.key = a
        BY <3>2, ReviewLogWriter DEF KeyRows, RowsOf
      <4> QED
        BY <3>1, <4>1 DEF InsertAllowed, KeyRows, RowsOf
    <3>3. KeyRows(reviewLog', ReviewOf[a], a) = KeyRows(reviewLog, ReviewOf[a], a)
      BY <1>1, <3>2 DEF KeyRows, RowsOf, StoresGrow
    <3> QED
      BY <3>1, <3>3
  <2>2. CASE outcome'[a] # outcome[a]
    <3>1. PICK h \in Requests :
             /\ RecordOutcome(h) /\ pc[h] = "outcome" /\ loc[h].att = a
             /\ outcome'[a] = [state |-> loc[h].state, receipt |-> loc[h].receipt]
      BY <2>2, OutcomeWriter
    <3>2. reviewLog' = reviewLog /\ loc[h].event \in reviewLog /\ EventBuilt(h)
      BY <1>2, <3>1 DEF RecordOutcome, HandlerDecides, ShapeInv, HandlerOK, EventSteps
    <3>3. loc[h].event \in KeyRows(reviewLog, ReviewOf[a], a)
      BY <3>1, <3>2 DEF EventBuilt, KeyRows, RowsOf
    <3>4. \A x \in KeyRows(reviewLog, ReviewOf[a], a) : x = loc[h].event
      BY <3>1, <3>2, LogsAreLogs DEF EventBuilt, KeyRows, RowsOf, UniqueRows
    <3>5. loc[h].event.body[1] = EventType[outcome'[a].state]
      BY <3>1, <3>2 DEF EventBuilt
    <3> QED
      BY <3>2, <3>3, <3>4, <3>5
  <2> QED
    BY <2>1, <2>2
<1>6. JobOnlyForReceived'
  <2> SUFFICES ASSUME NEW a \in jobs' PROVE outcome'[a].state = "received_with_receipt"
    BY DEF JobOnlyForReceived
  <2>1. outcome[a].state = "received_with_receipt" /\ a \in Attempts
    <3>1. CASE a \in jobs
      BY <3>1 DEF DecisionInv, JobOnlyForReceived, ShapeInv, TypeOK
    <3>2. CASE a \notin jobs
      <4>1. PICK h \in Requests :
               \/ EnqueueNormalization(h) /\ a = loc[h].att
               \/ Replay(h) /\ outcome[a].state = "received_with_receipt" /\ a = loc[h].att
        BY <3>2, JobWriter
      <4>2. pc[h] # "idle"
        BY <4>1 DEF EnqueueNormalization, Replay, At
      <4> QED
        BY <1>2, <4>1, <4>2, BusyHandler DEF EnqueueNormalization, At, HandlerDecides
    <3> QED
      BY <3>1, <3>2
  <2>2. outcome[a] # NoOutcome
    BY <2>1, NoOutcomeHasNoState DEF States
  <2> QED
    BY <1>1, <2>1, <2>2 DEF StoresGrow
<1>7. ReplyAgrees'
  <2> SUFFICES ASSUME NEW h \in Requests, reply'[h].code = "outcome"
               PROVE  /\ reply'[h].state = outcome'[reply'[h].att].state
                      /\ reply'[h].state = "received_with_receipt" => reply'[h].att \in jobs'
    BY DEF ReplyAgrees
  <2>1. CASE reply'[h] = reply[h]
    <3>1. reply[h].att \in Attempts /\ reply[h].state \in States
      BY <2>1 DEF ShapeInv, TypeOK, Replies
    <3>2. /\ reply[h].state = outcome[reply[h].att].state
          /\ reply[h].state = "received_with_receipt" => reply[h].att \in jobs
      BY <2>1 DEF DecisionInv, ReplyAgrees
    <3>3. outcome[reply[h].att] # NoOutcome
      BY <3>1, <3>2, NoOutcomeHasNoState
    <3> QED
      BY <1>1, <2>1, <3>1, <3>2, <3>3 DEF StoresGrow
  <2>2. CASE Replay(h)
    BY <2>2 DEF Replay, Reply, ShapeInv, TypeOK
  <2>3. CASE RecordOutcome(h) /\ Reply(h, Built(h)) /\ loc[h].state # "received_with_receipt"
    BY <2>3, RecordedAsDecided DEF Reply, Built, ShapeInv, TypeOK
  <2>4. CASE EnqueueNormalization(h)
    <3>1. /\ loc[h].state = "received_with_receipt"
          /\ outcome[loc[h].att].state = "received_with_receipt"
      BY <1>2, <2>4 DEF EnqueueNormalization, At, HandlerDecides
    <3> QED
      BY <2>4, <3>1 DEF EnqueueNormalization, Reply, Built, ShapeInv, TypeOK
  <2> QED
    BY <2>1, <2>2, <2>3, <2>4, OutcomeReplyWriter
<1> QED
  BY <1>3, <1>4, <1>5, <1>6, <1>7 DEF DecisionInv

LEMMA InitDecisions == Init => DecisionInv
  BY DEF Init, DecisionInv, OutcomeReceiptDurable, OutcomeMatchesEvent, JobOnlyForReceived,
         ReplyAgrees, HandlerDecides, NoOutcome, NoReply, DecidedSteps, EventSteps

(* Receipts, review events, outcomes, jobs and answers agree throughout. *)
THEOREM SubmissionDecisions == Spec => []DecisionInv
  BY InitDecisions, NextDecisions, SubmissionShape, PTL DEF Spec

(* A stored outcome that names a receipt has it in the receipt table. *)
THEOREM SubmissionReceiptDurable == Spec => []OutcomeReceiptDurable
<1>1. DecisionInv => OutcomeReceiptDurable
  BY DEF DecisionInv
<1> QED
  BY <1>1, SubmissionDecisions, PTL

(* The stored outcome and the review history of an attempt say the same,   *)
(* although every finalize decides for itself.                             *)
THEOREM SubmissionMatchesEvent == Spec => []OutcomeMatchesEvent
<1>1. DecisionInv => OutcomeMatchesEvent
  BY DEF DecisionInv
<1> QED
  BY <1>1, SubmissionDecisions, PTL

(* A client is told the stored state, and a received one is queued. *)
THEOREM SubmissionReplyAgrees == Spec => [](ReplyAgrees /\ JobOnlyForReceived)
<1>1. DecisionInv => ReplyAgrees /\ JobOnlyForReceived
  BY DEF DecisionInv
<1> QED
  BY <1>1, SubmissionDecisions, PTL
-----------------------------------------------------------------------------
(* The fourth invariant.                                                   *)

HandlerUploads(h) ==
  /\ pc[h] = "putInsert" => Digest(h) \in objects
  /\ EnvelopeKey /\ pc[h] = "putClassify" => Digest(h) \in artifactRow

(* An upload writes the bytes before the row, and with an envelope key it  *)
(* classifies only what it stored.  What an answer called missing was      *)
(* missing from the manifest of an opened attempt, which does not change.  *)
UploadInv ==
  /\ RowHasBytes
  /\ \A h \in Requests : reply[h].code = "missing" => attempt[reply[h].att] # NoBody
  /\ EnvelopeKey => classified \subseteq artifactRow
  /\ EnvelopeKey => NothingMissingMeansStored
  /\ \A h \in Requests : HandlerUploads(h)

LEMMA UploadsStay ==
  ASSUME ShapeInv, StoresGrow, NEW q \in Requests, HandlerUploads(q),
         pc'[q] = pc[q], loc'[q] = loc[q]
  PROVE  HandlerUploads(q)'
<1>1. CASE pc[q] = "idle"
  BY <1>1 DEF HandlerUploads
<1>2. CASE pc[q] # "idle"
  <2>1. attempt'[loc[q].att] = attempt[loc[q].att]
    BY <1>2, BusyHandler DEF StoresGrow
  <2>2. Digest(q)' = Digest(q)
    BY <2>1 DEF Digest, ManifestOf
  <2> QED
    BY <2>2 DEF HandlerUploads, StoresGrow
<1> QED
  BY <1>1, <1>2

(* The steps of an upload keep its digest. *)
LEMMA PutUploads ==
  ASSUME ShapeInv, UploadInv, NEW h \in Requests, Put(h)
  PROVE  /\ HandlerUploads(h)'
         /\ RowHasBytes'
         /\ EnvelopeKey => classified' \subseteq artifactRow'
<1>1. HandlerUploads(h) /\ RowHasBytes /\ (EnvelopeKey => classified \subseteq artifactRow)
  BY DEF UploadInv
<1>2. Digest(h)' = Digest(h)
  BY DEF Put, PutSelect, PutBytes, PutInsert, PutClassify, Goto, stores, Digest, ManifestOf
<1>3. CASE PutSelect(h)
  BY <1>1, <1>2, <1>3 DEF PutSelect, Goto, stores, HandlerUploads, RowHasBytes, ShapeInv, TypeOK
<1>4. CASE PutBytes(h)
  BY <1>1, <1>2, <1>4 DEF PutBytes, Goto, HandlerUploads, RowHasBytes, ShapeInv, TypeOK
<1>5. CASE PutInsert(h)
  BY <1>1, <1>2, <1>5 DEF PutInsert, At, Goto, HandlerUploads, RowHasBytes, ShapeInv, TypeOK
<1>6. CASE PutClassify(h)
  BY <1>1, <1>2, <1>6 DEF PutClassify, At, Goto, HandlerUploads, RowHasBytes, ShapeInv, TypeOK
<1> QED
  BY <1>3, <1>4, <1>5, <1>6 DEF Put

(* Nothing but an upload writes bytes, rows or classifications. *)
LEMMA OnlyPutUploads ==
  ASSUME ShapeInv, [Next]_vars, ~(\E h \in Requests : Put(h))
  PROVE  /\ UNCHANGED <<objects, artifactRow, classified>>
         /\ \A h \in Requests : pc'[h] \in {"putInsert", "putClassify"} =>
               pc'[h] = pc[h] /\ loc'[h] = loc[h]
<1>1. CASE Tick \/ HostCrash \/ UNCHANGED vars
  BY <1>1 DEF Tick, HostCrash, vars, stores
<1>2. ASSUME NEW h \in Requests, Send(h) \/ ReplyMissing(h) \/ Replay(h)
      PROVE  UNCHANGED <<objects, artifactRow, classified>>
             /\ pc'[h] \notin {"putInsert", "putClassify"}
  BY <1>2 DEF Send, Open, PutBegin, FinalizeBegin, Begin, ReadNext, ReplyMissing, Replay, Reply,
              stores, ShapeInv, TypeOK
<1>3. ASSUME NEW h \in Requests, ReadBack(h)
      PROVE  UNCHANGED <<objects, artifactRow, classified>>
             /\ pc'[h] \notin {"putInsert", "putClassify"}
  BY <1>3 DEF ReadBack, Mint, GetRow, AccessKeySelect, AccessMaxSelect, AccessInsert,
              GetBytes, Goto, Incomplete, Fail, Reply, ReadNext, stores, ShapeInv, TypeOK
<1>4. ASSUME NEW h \in Requests, Decide(h)
      PROVE  UNCHANGED <<objects, artifactRow, classified>>
             /\ pc'[h] \notin {"putInsert", "putClassify"}
  BY <1>4 DEF Decide, Verify, RecordReceipt, Build, LoadReviewLog, ReviewKeySelect,
              ReviewMaxSelect, ReviewInsert, RecordOutcome, EnqueueNormalization,
              Goto, Fail, Reply, stores, ShapeInv, TypeOK
<1>5. ASSUME NEW h \in Requests, Send(h) \/ Proceed(h) PROVE Moves(h)
  BY <1>5, SendGrows, PutGrows, ReadGrows, DecideGrows DEF Proceed, ShapeInv
<1> QED
  BY <1>1, <1>2, <1>3, <1>4, <1>5 DEF Next, Proceed, Moves

(* An answer that nothing is missing comes from ReplyMissing. *)
LEMMA MissingReplyWriter ==
  ASSUME ShapeInv, [Next]_vars, NEW h \in Requests,
         reply'[h].code = "missing", reply'[h] # reply[h]
  PROVE  ReplyMissing(h)
<1>1. CASE Tick \/ HostCrash \/ UNCHANGED vars
  BY <1>1 DEF Tick, HostCrash, vars, NoReply
<1>2. ASSUME NEW p \in Requests, Send(p) \/ Proceed(p) PROVE p = h
  BY <1>2, SendGrows, PutGrows, ReadGrows, DecideGrows DEF Moves, Proceed, ShapeInv
<1>3. CASE Send(h) \/ Replay(h) \/ Put(h)
  BY <1>3 DEF Send, Open, PutBegin, FinalizeBegin, Begin, NoReply, Replay, Reply, Put,
              PutSelect, PutBytes, PutInsert, PutClassify, Goto, ShapeInv, TypeOK
<1>4. CASE ReadBack(h)
  BY <1>4 DEF ReadBack, Mint, GetRow, AccessKeySelect, AccessMaxSelect, AccessInsert,
              GetBytes, Goto, Incomplete, Fail, Reply, ShapeInv, TypeOK
<1>5. CASE Decide(h)
  BY <1>5 DEF Decide, Verify, RecordReceipt, Build, LoadReviewLog, ReviewKeySelect,
              ReviewMaxSelect, ReviewInsert, RecordOutcome, EnqueueNormalization, Built,
              Goto, Fail, Reply, ShapeInv, TypeOK
<1> QED
  BY <1>1, <1>2, <1>3, <1>4, <1>5 DEF Next, Proceed

LEMMA NextUploads == ShapeInv /\ UploadInv /\ [Next]_vars => UploadInv'
<1> SUFFICES ASSUME ShapeInv, UploadInv, [Next]_vars
             PROVE  UploadInv'
  OBVIOUS
<1>1. StoresGrow
  BY NextGrows DEF ShapeInv
<1>2. /\ RowHasBytes'
      /\ EnvelopeKey => classified' \subseteq artifactRow'
      /\ \A h \in Requests : HandlerUploads(h)'
  <2>1. ASSUME NEW p \in Requests, Put(p)
        PROVE  <1>2!1 /\ <1>2!2 /\ <1>2!3
    <3>1. HandlerUploads(p)' /\ RowHasBytes' /\ (EnvelopeKey => classified' \subseteq artifactRow')
      BY <2>1, PutUploads
    <3>2. Moves(p)
      BY <2>1, PutGrows DEF ShapeInv
    <3>3. ASSUME NEW q \in Requests, q # p PROVE HandlerUploads(q)'
      <4>1. HandlerUploads(q) /\ pc'[q] = pc[q] /\ loc'[q] = loc[q]
        BY <3>2, <3>3 DEF UploadInv, Moves
      <4> QED
        BY <1>1, <4>1, UploadsStay
    <3> QED
      BY <3>1, <3>3
  <2>2. CASE ~(\E p \in Requests : Put(p))
    <3>1. /\ UNCHANGED <<objects, artifactRow, classified>>
          /\ \A h \in Requests : pc'[h] \in {"putInsert", "putClassify"} =>
                pc'[h] = pc[h] /\ loc'[h] = loc[h]
      BY <2>2, OnlyPutUploads
    <3>2. ASSUME NEW q \in Requests PROVE HandlerUploads(q)'
      <4>1. CASE pc'[q] \in {"putInsert", "putClassify"}
        <5>1. HandlerUploads(q) /\ pc'[q] = pc[q] /\ loc'[q] = loc[q]
          BY <3>1, <4>1 DEF UploadInv
        <5> QED
          BY <1>1, <5>1, UploadsStay
      <4>2. CASE pc'[q] \notin {"putInsert", "putClassify"}
        BY <4>2 DEF HandlerUploads
      <4> QED
        BY <4>1, <4>2
    <3> QED
      BY <3>1, <3>2 DEF UploadInv, RowHasBytes
  <2> QED
    BY <2>1, <2>2
<1>3. ASSUME NEW h \in Requests, reply'[h].code = "missing"
      PROVE  /\ attempt'[reply'[h].att] # NoBody
             /\ EnvelopeKey /\ reply'[h].missing = {} =>
                   Listed(reply[h].att)' \subseteq artifactRow' \cap objects'
  <2>1. CASE reply'[h] = reply[h]
    <3>1. reply[h].att \in Attempts
      BY <1>3, <2>1 DEF ShapeInv, TypeOK, Replies
    <3>2. attempt[reply[h].att] # NoBody
      BY <1>3, <2>1 DEF UploadInv
    <3>3. attempt'[reply[h].att] = attempt[reply[h].att]
      BY <1>1, <3>1, <3>2 DEF StoresGrow
    <3>4. EnvelopeKey /\ reply[h].missing = {} =>
             Listed(reply[h].att) \subseteq artifactRow \cap objects
      BY <1>3, <2>1 DEF UploadInv, NothingMissingMeansStored
    <3>5. artifactRow \cap objects \subseteq artifactRow' \cap objects'
      BY <1>1 DEF StoresGrow
    <3>6. Listed(reply[h].att)' = Listed(reply[h].att)
      BY <2>1, <3>3 DEF Listed, ManifestOf
    <3> QED
      BY <2>1, <3>2, <3>3, <3>4, <3>5, <3>6
  <2>2. CASE ReplyMissing(h)
    <3> DEFINE a == loc[h].att
    <3>1. a \in Attempts /\ attempt[a] # NoBody
      BY <2>2, BusyHandler DEF ReplyMissing, At
    <3>2. UNCHANGED <<attempt, artifactRow, objects, classified>>
      BY <2>2 DEF ReplyMissing, stores
    <3>3. reply'[h].att = a /\ reply'[h].missing = Listed(a) \ classified
      BY <2>2 DEF ReplyMissing, Reply, Missing, ShapeInv, TypeOK
    <3>4. EnvelopeKey => classified \subseteq artifactRow \cap objects
      BY DEF UploadInv, RowHasBytes
    <3>5. Listed(reply[h].att)' = Listed(a)
      BY <3>2, <3>3 DEF Listed, ManifestOf
    <3> QED
      BY <3>1, <3>2, <3>3, <3>4, <3>5
  <2> QED
    BY <1>3, <2>1, <2>2, MissingReplyWriter
<1> QED
  BY <1>2, <1>3 DEF UploadInv, NothingMissingMeansStored

LEMMA InitUploads == Init => UploadInv
  BY DEF Init, UploadInv, RowHasBytes, NothingMissingMeansStored, HandlerUploads, NoReply

(* An artifact row never dangles: its bytes were written before it, and no *)
(* crash takes them back.                                                  *)
THEOREM SubmissionRowHasBytes == Spec => []RowHasBytes
<1>1. UploadInv => RowHasBytes
  BY DEF UploadInv
<1> QED
  BY <1>1, InitUploads, NextUploads, SubmissionShape, PTL DEF Spec

(* With an envelope key, a client that is told nothing is missing has all  *)
(* its artifacts stored.                                                   *)
THEOREM SubmissionNothingMissing == Spec => [](EnvelopeKey => NothingMissingMeansStored)
<1>1. UploadInv => (EnvelopeKey => NothingMissingMeansStored)
  BY DEF UploadInv
<1> QED
  BY <1>1, InitUploads, NextUploads, SubmissionShape, PTL DEF Spec
=============================================================================
