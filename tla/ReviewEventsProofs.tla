------------------------ MODULE ReviewEventsProofs ------------------------
(***************************************************************************)
(* Proofs about the authority boundary of the review history, for every    *)
(* set of writers, event types, names and versions and any log length.     *)
(*                                                                         *)
(* The argument: a draft was accepted on the prefix of the log that its    *)
(* writer loaded, and prefixes never change.  The store takes a draft only *)
(* when its number is the length of the log, so the prefix is then the     *)
(* whole log, and every event of the log was accepted on exactly the       *)
(* events before it.                                                       *)
(***************************************************************************)
EXTENDS GateLog, LogRowsTheorems, SequenceTheorems

(* Every event a caller may draft on a log of n events. *)
Drafts(n) == UNION {EventsAt(n, t) : t \in Types}

AnyEvent == UNION {Drafts(n) : n \in 0 .. MaxEvents}

(* Propose, for the event that was drafted. *)
Proposes(w, e) ==
  /\ draft[w] = None
  /\ Len(log) < MaxEvents
  /\ AppendReviewEvent(log, e)
  /\ draft' = [draft EXCEPT ![w] = e]
  /\ UNCHANGED log

LEMMA ProposePicks ==
  ASSUME NEW w \in Writers, Propose(w)
  PROVE  \E e \in Drafts(Len(log)) : Proposes(w, e)
  BY DEF Propose, Proposes, Drafts

(* The log a writer loaded when it had n events. *)
Prefix(l, n) == SubSeq(l, 1, n)

Shape ==
  /\ log \in Seq(AnyEvent)
  /\ Len(log) <= MaxEvents
  /\ draft \in [Writers -> {None} \cup AnyEvent]
  /\ \A i \in 1 .. Len(log) : log[i] \in Drafts(i - 1)
  /\ \A w \in Writers : draft[w] # None =>
        /\ draft[w].seq \in 0 .. Len(log)
        /\ draft[w].seq < MaxEvents
        /\ draft[w] \in Drafts(draft[w].seq)

(* Every draft was accepted on the prefix of the log that ends before it.  *)
Decided ==
  \A w \in Writers : draft[w] # None =>
     AppendReviewEvent(Prefix(log, draft[w].seq), draft[w])

(* Every logged event was accepted on the events before it. *)
Accepted ==
  \A i \in 1 .. Len(log) : AppendReviewEvent(Prefix(log, i - 1), log[i])

IInv == Shape /\ Decided /\ Accepted

-----------------------------------------------------------------------------
(* A prefix has the events of the log, and is the log when it is as long.  *)
LEMMA PrefixFacts ==
  ASSUME NEW S, NEW l \in Seq(S), NEW n \in 0 .. Len(l)
  PROVE  /\ Prefix(l, n) \in Seq(S)
         /\ Len(Prefix(l, n)) = n
         /\ DOMAIN Prefix(l, n) = 1 .. n
         /\ \A i \in 1 .. n : Prefix(l, n)[i] = l[i]
<1>1. Len(l) \in Nat /\ \A i \in 1 .. n : l[i] \in S
  BY LenProperties, ElementOfSeq
<1>2. /\ SubSeq(l, 1, n) \in Seq(S)
      /\ Len(SubSeq(l, 1, n)) = IF 1 <= n THEN n - 1 + 1 ELSE 0
      /\ \A i \in 1 .. n - 1 + 1 : SubSeq(l, 1, n)[i] = l[1 + i - 1]
  BY <1>1, SubSeqProperties
<1>3. DOMAIN SubSeq(l, 1, n) = 1 .. n
  BY <1>1, <1>2, LenProperties
<1> QED
  BY <1>1, <1>2, <1>3 DEF Prefix

LEMMA PrefixFull ==
  ASSUME NEW S, NEW l \in Seq(S)
  PROVE  Prefix(l, Len(l)) = l
  BY SubSeqFull DEF Prefix

(* Appending an event leaves the prefixes alone. *)
LEMMA PrefixOfAppend ==
  ASSUME NEW S, NEW l \in Seq(S), NEW e \in S, NEW n \in 0 .. Len(l)
  PROVE  Prefix(Append(l, e), n) = Prefix(l, n)
<1>1. /\ Len(l) \in Nat
      /\ Append(l, e) \in Seq(S)
      /\ Len(Append(l, e)) = Len(l) + 1
      /\ \A i \in 1 .. Len(l) : Append(l, e)[i] = l[i]
  BY AppendProperties, LenProperties
<1>2. n \in 0 .. Len(Append(l, e))
  BY <1>1
<1>3. /\ Prefix(l, n) \in Seq(S)
      /\ Len(Prefix(l, n)) = n
      /\ \A i \in 1 .. n : Prefix(l, n)[i] = l[i]
  BY PrefixFacts
<1>4. /\ Prefix(Append(l, e), n) \in Seq(S)
      /\ Len(Prefix(Append(l, e), n)) = n
      /\ \A i \in 1 .. n : Prefix(Append(l, e), n)[i] = Append(l, e)[i]
  BY <1>1, <1>2, PrefixFacts
<1> HIDE DEF Prefix
<1>5. \A i \in 1 .. n : Prefix(Append(l, e), n)[i] = Prefix(l, n)[i]
  BY <1>1, <1>3, <1>4
<1> QED
  BY <1>3, <1>4, <1>5, SeqEqual

(* What the rules compare in an event. *)
LEMMA EventFields ==
  ASSUME NEW n \in Nat, NEW e \in Drafts(n)
  PROVE  /\ e.seq = n
         /\ e.supersedes \in 0 .. n + 1
         /\ e.slot \in 0 .. 4
         /\ e.at \in Nat
         /\ e.id.version \in Nat
<1>1. PICK t \in Types : e \in EventsAt(n, t)
  BY DEF Drafts
<1>2. e.id \in Identities(t)
  BY <1>1 DEF EventsAt
<1>3. e.id.version \in Nat
  BY <1>2, ReviewEventsAssumption DEF Identities
<1>4. e.slot \in 0 .. 4
  <2>1. e.slot \in IF t = "validation_recorded" THEN Slots ELSE {0}
    BY <1>1 DEF EventsAt
  <2> QED
    BY <2>1 DEF Slots, IncludedSlots
<1>5. e.at \in Times /\ e.seq = n /\ e.supersedes \in 0 .. n + 1
  BY <1>1 DEF EventsAt
<1> QED
  BY <1>3, <1>4, <1>5, ReviewEventsAssumption

-----------------------------------------------------------------------------
LEMMA InitIInv == Init => IInv
<1> SUFFICES ASSUME Init PROVE IInv
  OBVIOUS
<1>1. log = <<>> /\ Len(log) = 0 /\ log \in Seq(AnyEvent)
  BY EmptySeq DEF Init
<1>2. \A w \in Writers : draft[w] = None
  BY DEF Init
<1>3. draft \in [Writers -> {None} \cup AnyEvent]
  BY DEF Init
<1>4. Shape
  BY <1>1, <1>2, <1>3, ReviewEventsAssumption DEF Shape
<1>5. Decided /\ Accepted
  BY <1>1, <1>2 DEF Decided, Accepted
<1> QED
  BY <1>4, <1>5 DEF IInv

LEMMA ProposeIInv ==
  ASSUME IInv, NEW w \in Writers, NEW e \in Drafts(Len(log)), Proposes(w, e)
  PROVE  IInv'
<1>1. /\ log' = log
      /\ draft' = [draft EXCEPT ![w] = e]
      /\ Len(log) < MaxEvents
      /\ AppendReviewEvent(log, e)
  BY DEF Proposes
<1>2. Len(log) \in Nat /\ log \in Seq(AnyEvent)
  BY LenProperties DEF IInv, Shape
<1>3. e \in AnyEvent
  BY <1>1, <1>2, ReviewEventsAssumption DEF AnyEvent
<1>4. e.seq = Len(log)
  BY <1>2, EventFields
<1>5. AppendReviewEvent(Prefix(log, e.seq), e)
  BY <1>1, <1>2, <1>4, PrefixFull
<1>6. \A v \in Writers : draft'[v] = IF v = w THEN e ELSE draft[v]
  BY <1>1 DEF IInv, Shape
<1>7. Shape'
  BY <1>1, <1>2, <1>3, <1>4, <1>6 DEF IInv, Shape
<1>8. Decided'
  BY <1>1, <1>5, <1>6 DEF IInv, Decided
<1>9. Accepted'
  BY <1>1 DEF IInv, Accepted
<1> QED
  BY <1>7, <1>8, <1>9 DEF IInv

(* The store adds a draft to the very log the draft was accepted on. *)
LEMMA StoreAdds ==
  ASSUME IInv, NEW w \in Writers, Store(w), log' # log
  PROVE  \E e \in AnyEvent :
            /\ log' = Append(log, e)
            /\ e \in Drafts(Len(log))
            /\ AppendReviewEvent(log, e)
            /\ Len(log) < MaxEvents
<1> DEFINE e == draft[w]
<1>1. /\ e # None
      /\ e.seq = Len(log)
      /\ log' = Append(log, e)
  BY DEF Store
<1>2. /\ log \in Seq(AnyEvent)
      /\ e.seq < MaxEvents
      /\ e \in AnyEvent
      /\ e \in Drafts(e.seq)
      /\ AppendReviewEvent(Prefix(log, e.seq), e)
  BY <1>1 DEF IInv, Shape, Decided
<1>3. Prefix(log, Len(log)) = log
  BY <1>2, PrefixFull
<1>4. PICK n \in 0 .. MaxEvents : e \in Drafts(n)
  BY <1>2 DEF AnyEvent
<1>5. n = Len(log)
  BY <1>1, <1>4, EventFields, ReviewEventsAssumption
<1> QED
  BY <1>1, <1>2, <1>3, <1>4, <1>5

LEMMA StoreIInv ==
  ASSUME IInv, NEW w \in Writers, Store(w)
  PROVE  IInv'
<1>1. log \in Seq(AnyEvent) /\ Len(log) \in Nat
  BY LenProperties DEF IInv, Shape
<1>2. draft' = [draft EXCEPT ![w] = None]
  BY DEF Store
<1>3. \A v \in Writers : draft'[v] = IF v = w THEN None ELSE draft[v]
  BY <1>2 DEF IInv, Shape
<1>4. CASE log' = log
  <2>1. Shape'
    BY <1>2, <1>3, <1>4 DEF IInv, Shape
  <2>2. Decided' /\ Accepted'
    BY <1>3, <1>4 DEF IInv, Decided, Accepted
  <2> QED
    BY <2>1, <2>2 DEF IInv
<1>5. CASE log' # log
  <2>1. PICK e \in AnyEvent :
           /\ log' = Append(log, e)
           /\ e \in Drafts(Len(log))
           /\ AppendReviewEvent(log, e)
           /\ Len(log) < MaxEvents
    BY <1>5, StoreAdds
  <2>2. /\ log' \in Seq(AnyEvent)
        /\ Len(log') = Len(log) + 1
        /\ \A i \in 1 .. Len(log) : log'[i] = log[i]
        /\ log'[Len(log) + 1] = e
    BY <1>1, <2>1, AppendProperties
  <2>3. \A n \in 0 .. Len(log) : Prefix(log', n) = Prefix(log, n)
    BY <1>1, <2>1, PrefixOfAppend
  <2>4. Shape'
    <3>1. \A i \in 1 .. Len(log') : log'[i] \in Drafts(i - 1)
      BY <1>1, <2>1, <2>2 DEF IInv, Shape
    <3>2. \A v \in Writers : draft'[v] # None =>
             /\ draft'[v].seq \in 0 .. Len(log')
             /\ draft'[v].seq < MaxEvents
             /\ draft'[v] \in Drafts(draft'[v].seq)
      BY <1>1, <1>3, <2>2 DEF IInv, Shape
    <3>3. draft' \in [Writers -> {None} \cup AnyEvent]
      BY <1>2 DEF IInv, Shape
    <3>4. Len(log') <= MaxEvents
      BY <1>1, <2>1, <2>2, ReviewEventsAssumption
    <3> QED
      BY <2>2, <3>1, <3>2, <3>3, <3>4 DEF Shape
  <2>5. Decided'
    <3> SUFFICES ASSUME NEW v \in Writers, draft'[v] # None
                 PROVE  AppendReviewEvent(Prefix(log', draft'[v].seq), draft'[v])
      BY DEF Decided
    <3>1. draft'[v] = draft[v] /\ draft[v].seq \in 0 .. Len(log)
      BY <1>3 DEF IInv, Shape
    <3>2. AppendReviewEvent(Prefix(log, draft[v].seq), draft[v])
      BY <3>1 DEF IInv, Decided
    <3> QED
      BY <2>3, <3>1, <3>2
  <2>6. Accepted'
    <3> SUFFICES ASSUME NEW i \in 1 .. Len(log')
                 PROVE  AppendReviewEvent(Prefix(log', i - 1), log'[i])
      BY DEF Accepted
    <3>1. i - 1 \in 0 .. Len(log) /\ Prefix(log', i - 1) = Prefix(log, i - 1)
      BY <1>1, <2>2, <2>3
    <3>2. CASE i = Len(log) + 1
      BY <1>1, <2>1, <2>2, <3>1, <3>2, PrefixFull
    <3>3. CASE i \in 1 .. Len(log)
      BY <2>2, <3>1, <3>3 DEF IInv, Accepted
    <3> QED
      BY <1>1, <2>2, <3>2, <3>3
  <2> QED
    BY <2>4, <2>5, <2>6 DEF IInv
<1> QED
  BY <1>4, <1>5

LEMMA NextIInv == IInv /\ [Next]_vars => IInv'
<1> SUFFICES ASSUME IInv, [Next]_vars PROVE IInv'
  OBVIOUS
<1>1. CASE UNCHANGED vars
  BY <1>1 DEF vars, IInv, Shape, Decided, Accepted
<1>2. ASSUME NEW w \in Writers, Store(w) PROVE IInv'
  BY <1>2, StoreIInv
<1>3. ASSUME NEW w \in Writers, NEW e \in Drafts(Len(log)), Proposes(w, e)
      PROVE  IInv'
  BY <1>3, ProposeIInv
<1> QED
  BY <1>1, <1>2, <1>3, ProposePicks DEF Next

LEMMA SpecIInv == Spec => []IInv
  BY InitIInv, NextIInv, PTL DEF Spec

-----------------------------------------------------------------------------
(* Log and drafts are events of the declared types, numbered by their      *)
(* place in the log or, for a draft, by the length its writer saw.         *)
THEOREM ReviewEventsTypeOK == Spec => []TypeOK
<1>1. IInv => TypeOK
  <2> SUFFICES ASSUME IInv PROVE TypeOK
    OBVIOUS
  <2>1. Len(log) \in 0 .. MaxEvents /\ DOMAIN draft = Writers
    BY ReviewEventsAssumption DEF IInv, Shape
  <2>2. \A i \in 1 .. Len(log) : \E t \in Types : log[i] \in EventsAt(i - 1, t)
    BY DEF IInv, Shape, Drafts
  <2>3. \A w \in Writers : draft[w] # None =>
           \E n \in 0 .. Len(log), t \in Types : draft[w] \in EventsAt(n, t)
    BY DEF IInv, Shape, Drafts
  <2> QED
    BY <2>1, <2>2, <2>3 DEF TypeOK
<1> QED
  BY <1>1, SpecIInv, PTL

(* A logged event as the boundary saw it: the events before it are the     *)
(* prefix it was accepted on, and it supersedes one of them or nothing.    *)
LEMMA LoggedEvent ==
  ASSUME IInv, NEW i \in 1 .. Len(log)
  PROVE  /\ Len(log) \in Nat /\ DOMAIN log = 1 .. Len(log)
         /\ DOMAIN Prefix(log, i - 1) = 1 .. i - 1
         /\ \A j \in 1 .. i - 1 : Prefix(log, i - 1)[j] = log[j]
         /\ AppendReviewEvent(Prefix(log, i - 1), log[i])
         /\ log[i].seq = i - 1
         /\ log[i].supersedes \in 0 .. i - 1
         /\ log[i].slot \in 0 .. 4
         /\ log[i].at \in Nat
         /\ log[i].id.version \in Nat
<1>1. /\ log \in Seq(AnyEvent)
      /\ Len(log) \in Nat
      /\ DOMAIN log = 1 .. Len(log)
      /\ log[i] \in Drafts(i - 1)
  BY LenProperties DEF IInv, Shape
<1>2. i - 1 \in 0 .. Len(log) /\ i - 1 \in Nat
  BY <1>1
<1>3. /\ DOMAIN Prefix(log, i - 1) = 1 .. i - 1
      /\ \A j \in 1 .. i - 1 : Prefix(log, i - 1)[j] = log[j]
  BY <1>1, <1>2, PrefixFacts
<1>4. AppendReviewEvent(Prefix(log, i - 1), log[i])
  BY DEF IInv, Accepted
<1>5. /\ log[i].seq = i - 1
      /\ log[i].supersedes \in 0 .. (i - 1) + 1
      /\ log[i].slot \in 0 .. 4
      /\ log[i].at \in Nat
      /\ log[i].id.version \in Nat
  BY <1>1, <1>2, EventFields
<1>6. log[i].supersedes \in 0 .. i - 1
  <2>1. log[i].supersedes # 0 => log[i].supersedes \in DOMAIN Prefix(log, i - 1)
    BY <1>4 DEF AppendReviewEvent, StructureHolds, ChainHolds
  <2> QED
    BY <1>2, <1>3, <1>5, <2>1
<1> QED
  BY <1>1, <1>3, <1>4, <1>5, <1>6

LEMMA IInvAppendable == IInv => LogStaysAppendable
<1> SUFFICES ASSUME IInv, NEW i \in DOMAIN log
             PROVE  /\ SemanticsHold(log[i])
                    /\ log[i].supersedes < i
                    /\ \A j \in 1 .. i - 1 : log[j].seq < log[i].seq
                    /\ \A j \in 1 .. i - 1 : Key(log[j]) # Key(log[i])
                    /\ StructureHolds(SubSeq(log, 1, i - 1), log[i])
  BY DEF LogStaysAppendable, ReviewEventLogIsValid,
         StoredReviewEventLogIsAppendValid
<1>0. i \in 1 .. Len(log)
  BY LenProperties DEF IInv, Shape
<1>1. /\ Len(log) \in Nat
      /\ DOMAIN Prefix(log, i - 1) = 1 .. i - 1
      /\ \A j \in 1 .. i - 1 : Prefix(log, i - 1)[j] = log[j]
      /\ AppendReviewEvent(Prefix(log, i - 1), log[i])
      /\ log[i].supersedes \in 0 .. i - 1
  BY <1>0, LoggedEvent
<1>2. /\ SemanticsHold(log[i])
      /\ \A j \in DOMAIN Prefix(log, i - 1) : Key(Prefix(log, i - 1)[j]) # Key(log[i])
      /\ StructureHolds(Prefix(log, i - 1), log[i])
  BY <1>1 DEF AppendReviewEvent
<1>3. \A j \in DOMAIN Prefix(log, i - 1) : Prefix(log, i - 1)[j].seq < log[i].seq
  BY <1>2 DEF StructureHolds
<1>4. log[i].supersedes < i
  BY <1>0, <1>1
<1>5. StructureHolds(SubSeq(log, 1, i - 1), log[i])
  BY <1>2 DEF Prefix
<1> QED
  BY <1>1, <1>2, <1>3, <1>4, <1>5

(* No stored log is one the boundary would refuse to read or to replay, so *)
(* a review never becomes closed to further events.                        *)
THEOREM ReviewEventsLogStaysAppendable == Spec => []LogStaysAppendable
  BY IInvAppendable, SpecIInv, PTL

-----------------------------------------------------------------------------
(* Where the versions of a family grow along the log, the active head is   *)
(* the family's last event.                                                *)
LEMMA HeadIsLast ==
  ASSUME NEW l, NEW n \in Nat, DOMAIN l = 1 .. n, NEW e,
         \A i \in 1 .. n : l[i].id.version \in Nat,
         \A j, k \in 1 .. n : SameFamily(l[j], e) /\ SameFamily(l[k], e) /\ j < k
            => l[j].id.version < l[k].id.version
  PROVE  LET family == {i \in 1 .. n : SameFamily(l[i], e)} IN
         /\ family = {} => ActiveHead(l, e) = 0
         /\ family # {} => /\ ActiveHead(l, e) \in family
                           /\ \A k \in family : k <= ActiveHead(l, e)
                           /\ \A k \in family : l[k].id.version
                                 <= l[ActiveHead(l, e)].id.version
<1> DEFINE family == {i \in 1 .. n : SameFamily(l[i], e)}
           IsHead(i) == \A j \in family :
                           \/ l[j].id.version < l[i].id.version
                           \/ l[j].id.version = l[i].id.version /\ j <= i
<1>1. ActiveHead(l, e) = IF family = {} THEN 0 ELSE CHOOSE i \in family : IsHead(i)
  BY DEF ActiveHead
<1>2. ASSUME family # {} PROVE \E m \in family : IsHead(m)
  <2>1. family \in SUBSET (1 .. n)
    OBVIOUS
  <2>2. PICK m \in family : \A k \in family : k <= m
    <3> HIDE DEF family
    <3> QED
      BY <1>2, <2>1, LastExists
  <2>3. ASSUME NEW j \in family, j # m PROVE l[j].id.version < l[m].id.version
    <3>1. j < m
      BY <2>2, <2>3
    <3> QED
      BY <3>1
  <2> QED
    BY <2>2, <2>3
<1>3. ASSUME family # {}
      PROVE  ActiveHead(l, e) \in family /\ IsHead(ActiveHead(l, e))
  BY <1>1, <1>2, <1>3
<1>4. ASSUME NEW h \in family, IsHead(h), NEW k \in family
      PROVE  k <= h /\ l[k].id.version <= l[h].id.version
  <2>1. /\ h \in 1 .. n /\ k \in 1 .. n
        /\ l[h].id.version \in Nat /\ l[k].id.version \in Nat
    OBVIOUS
  <2>2. \/ l[k].id.version < l[h].id.version
        \/ l[k].id.version = l[h].id.version /\ k <= h
    BY <1>4
  <2>3. ASSUME h < k PROVE FALSE
    <3>1. l[h].id.version < l[k].id.version
      BY <2>3
    <3> QED
      BY <2>1, <2>2, <3>1
  <2> QED
    BY <2>1, <2>2, <2>3
<1> QED
  BY <1>1, <1>3, <1>4

(* An accepted event of a versioned type supersedes the active head of its *)
(* family with a higher version, or starts the family.                     *)
LEMMA VersionRule ==
  ASSUME NEW l, NEW e, StructureHolds(l, e), e.type \in VersionedTypes
  PROVE  /\ ActiveHead(l, e) # 0 =>
              /\ e.supersedes = ActiveHead(l, e)
              /\ e.id.version > l[ActiveHead(l, e)].id.version
         /\ ActiveHead(l, e) = 0 =>
              \/ e.supersedes = 0
              \/ /\ e.supersedes \in DOMAIN l
                 /\ SameFamily(l[e.supersedes], e)
<1>1. CASE e.type \in EPIC5_VERSIONED_EVENT_TYPES
  BY <1>1 DEF StructureHolds, Epic5VersionHolds
<1>2. CASE e.type \in VerificationTypes
  BY <1>2 DEF StructureHolds, VerificationVersionHolds, CorrectsOlderVersion
<1>3. CASE e.type = "verification_scope_recorded"
  BY <1>3 DEF StructureHolds, ScopeVersionHolds, CorrectsOlderVersion
<1> QED
  BY <1>1, <1>2, <1>3 DEF VersionedTypes

(* The strengthening for FamiliesAreLinear: versions grow along the log.   *)
VersionsGrow ==
  \A i \in 1 .. Len(log) : \A j \in 1 .. i - 1 :
     log[i].type \in VersionedTypes /\ SameFamily(log[j], log[i])
        => log[j].id.version < log[i].id.version

(* Then the head that an event was accepted against is the last event of   *)
(* its family before it.                                                   *)
LEMMA HeadOfPrefix ==
  ASSUME IInv, NEW n \in 0 .. Len(log), NEW e, e.type \in VersionedTypes,
         \A i \in 1 .. n : \A j \in 1 .. i - 1 :
            log[i].type \in VersionedTypes /\ SameFamily(log[j], log[i])
               => log[j].id.version < log[i].id.version
  PROVE  LET family == {i \in 1 .. n : SameFamily(log[i], e)}
             h == ActiveHead(Prefix(log, n), e)
         IN /\ family = {} => h = 0
            /\ family # {} => /\ h \in family
                              /\ \A k \in family : k <= h
                              /\ \A k \in family :
                                    log[k].id.version <= log[h].id.version
<1> DEFINE l == Prefix(log, n)
           family == {i \in 1 .. n : SameFamily(log[i], e)}
<1>1. /\ log \in Seq(AnyEvent) /\ Len(log) \in Nat /\ n \in Nat
  BY LenProperties DEF IInv, Shape
<1>2. DOMAIN l = 1 .. n /\ \A i \in 1 .. n : l[i] = log[i]
  BY <1>1, PrefixFacts
<1>3. \A i \in 1 .. n : log[i].id.version \in Nat
  BY <1>1, LoggedEvent
<1> HIDE DEF l
<1>4. \A i \in 1 .. n : l[i].id.version \in Nat
  BY <1>2, <1>3
<1>5. \A j, k \in 1 .. n : SameFamily(l[j], e) /\ SameFamily(l[k], e) /\ j < k
         => l[j].id.version < l[k].id.version
  <2> SUFFICES ASSUME NEW j \in 1 .. n, NEW k \in 1 .. n, j < k,
                      SameFamily(l[j], e), SameFamily(l[k], e)
               PROVE  l[j].id.version < l[k].id.version
    OBVIOUS
  <2>1. /\ j \in 1 .. k - 1
        /\ log[k].type \in VersionedTypes
        /\ SameFamily(log[j], log[k])
    BY <1>1, <1>2 DEF SameFamily
  <2> QED
    BY <1>2, <2>1
<1>6. family = {i \in 1 .. n : SameFamily(l[i], e)}
  BY <1>2
<1>7. /\ family = {} => ActiveHead(l, e) = 0
      /\ family # {} => /\ ActiveHead(l, e) \in family
                        /\ \A k \in family : k <= ActiveHead(l, e)
                        /\ \A k \in family : l[k].id.version
                              <= l[ActiveHead(l, e)].id.version
  <2> HIDE DEF family
  <2> QED
    BY <1>1, <1>2, <1>4, <1>5, <1>6, HeadIsLast
<1>8. \A k \in family : k \in 1 .. n /\ l[k] = log[k]
  BY <1>2
<1> QED
  <2> HIDE DEF family
  <2>1. family # {} => \A k \in family : log[k].id.version
                          <= log[ActiveHead(l, e)].id.version
    BY <1>7, <1>8
  <2> QED
    BY <1>7, <2>1 DEF family, l

LEMMA StoreVersionsGrow ==
  ASSUME IInv, VersionsGrow, NEW w \in Writers, Store(w)
  PROVE  VersionsGrow'
<1>1. log \in Seq(AnyEvent) /\ Len(log) \in Nat
  BY LenProperties DEF IInv, Shape
<1>2. CASE log' = log
  BY <1>2 DEF VersionsGrow
<1>3. CASE log' # log
  <2>1. PICK e \in AnyEvent :
           log' = Append(log, e) /\ AppendReviewEvent(log, e)
    BY <1>3, StoreAdds
  <2>2. /\ Len(log') = Len(log) + 1
        /\ \A i \in 1 .. Len(log) : log'[i] = log[i]
        /\ log'[Len(log) + 1] = e
    BY <1>1, <2>1, AppendProperties
  <2>3. StructureHolds(log, e) /\ Prefix(log, Len(log)) = log
    BY <1>1, <2>1, PrefixFull DEF AppendReviewEvent
  <2>4. ASSUME NEW j \in 1 .. Len(log), e.type \in VersionedTypes,
               SameFamily(log[j], e)
        PROVE  log[j].id.version < e.id.version
    <3> DEFINE family == {i \in 1 .. Len(log) : SameFamily(log[i], e)}
               h == ActiveHead(log, e)
    <3>1. Len(log) \in 0 .. Len(log)
      BY <1>1
    <3>2. j \in family
      BY <2>4
    <3>3. h \in family /\ log[j].id.version <= log[h].id.version
      BY <1>1, <2>3, <2>4, <3>1, <3>2, HeadOfPrefix DEF VersionsGrow
    <3>4. h # 0 /\ h \in 1 .. Len(log)
      BY <3>3
    <3>5. e.id.version > log[h].id.version
      BY <2>3, <2>4, <3>4, VersionRule
    <3>6. /\ log[j].id.version \in Nat /\ log[h].id.version \in Nat
          /\ e.id.version \in Nat
      <4>1. PICK n \in 0 .. MaxEvents : e \in Drafts(n)
        BY <2>1 DEF AnyEvent
      <4>2. e.id.version \in Nat
        BY <4>1, EventFields, ReviewEventsAssumption
      <4> QED
        BY <3>4, <4>2, LoggedEvent
    <3> QED
      BY <3>3, <3>5, <3>6
  <2> SUFFICES ASSUME NEW i \in 1 .. Len(log'), NEW j \in 1 .. i - 1,
                      log'[i].type \in VersionedTypes,
                      SameFamily(log'[j], log'[i])
               PROVE  log'[j].id.version < log'[i].id.version
    BY DEF VersionsGrow
  <2>5. j \in 1 .. Len(log) /\ log'[j] = log[j]
    BY <1>1, <2>2
  <2>6. CASE i \in 1 .. Len(log)
    BY <2>2, <2>5, <2>6 DEF VersionsGrow
  <2>7. CASE i = Len(log) + 1
    BY <2>2, <2>4, <2>5, <2>7
  <2> QED
    BY <1>1, <2>2, <2>6, <2>7
<1> QED
  BY <1>2, <1>3

LEMMA SpecVersionsGrow == Spec => [](IInv /\ VersionsGrow)
<1>1. Init => VersionsGrow
  BY DEF Init, VersionsGrow
<1>2. IInv /\ VersionsGrow /\ [Next]_vars => VersionsGrow'
  <2> SUFFICES ASSUME IInv, VersionsGrow, [Next]_vars PROVE VersionsGrow'
    OBVIOUS
  <2>1. CASE UNCHANGED vars
    BY <2>1 DEF vars, VersionsGrow
  <2>2. ASSUME NEW w \in Writers, Store(w) PROVE VersionsGrow'
    BY <2>2, StoreVersionsGrow
  <2>3. ASSUME NEW w \in Writers, NEW e \in Drafts(Len(log)), Proposes(w, e)
        PROVE  VersionsGrow'
    BY <2>3 DEF Proposes, VersionsGrow
  <2> QED
    BY <2>1, <2>2, <2>3, ProposePicks DEF Next
<1> QED
  BY <1>1, <1>2, SpecIInv, PTL DEF Spec

(* However many writers correct a versioned record at the same time, its   *)
(* events form one line of growing versions, each superseding the one      *)
(* before it.                                                              *)
THEOREM ReviewEventsFamiliesAreLinear == Spec => []FamiliesAreLinear
<1>1. IInv /\ VersionsGrow => FamiliesAreLinear
  <2> SUFFICES ASSUME IInv, VersionsGrow, NEW i \in DOMAIN log,
                      log[i].type \in VersionedTypes
               PROVE  LET earlier == {j \in 1 .. i - 1 : SameFamily(log[j], log[i])}
                      IN IF earlier = {} THEN log[i].supersedes = 0
                         ELSE LET last == CHOOSE j \in earlier :
                                             \A k \in earlier : k <= j
                              IN /\ log[i].supersedes = last
                                 /\ log[i].id.version > log[last].id.version
    BY DEF FamiliesAreLinear
  <2> DEFINE earlier == {j \in 1 .. i - 1 : SameFamily(log[j], log[i])}
             last == CHOOSE j \in earlier : \A k \in earlier : k <= j
             p == Prefix(log, i - 1)
             h == ActiveHead(p, log[i])
  <2>1. i \in 1 .. Len(log) /\ Len(log) \in Nat /\ i - 1 \in 0 .. Len(log)
    BY LenProperties DEF IInv, Shape
  <2>2. /\ DOMAIN p = 1 .. i - 1
        /\ \A j \in 1 .. i - 1 : p[j] = log[j]
        /\ AppendReviewEvent(p, log[i])
    BY <2>1, LoggedEvent
  <2>3. /\ earlier = {} => h = 0
        /\ earlier # {} => h \in earlier /\ \A k \in earlier : k <= h
    <3>1. \A m \in 1 .. i - 1 : \A j \in 1 .. m - 1 :
             log[m].type \in VersionedTypes /\ SameFamily(log[j], log[m])
                => log[j].id.version < log[m].id.version
      <4>1. \A m \in 1 .. i - 1 : m \in 1 .. Len(log)
        BY <2>1
      <4> QED
        BY <4>1 DEF VersionsGrow
    <3> QED
      BY <2>1, <3>1, HeadOfPrefix
  <2> HIDE DEF p
  <2>4. /\ h # 0 => /\ log[i].supersedes = h
                    /\ log[i].id.version > p[h].id.version
        /\ h = 0 => \/ log[i].supersedes = 0
                    \/ /\ log[i].supersedes \in DOMAIN p
                       /\ SameFamily(p[log[i].supersedes], log[i])
    BY <2>2, VersionRule DEF AppendReviewEvent
  <2> HIDE DEF h
  <2>5. CASE earlier = {}
    <3>1. h = 0
      BY <2>3, <2>5
    <3>2. log[i].supersedes = 0
      BY <2>2, <2>4, <2>5, <3>1
    <3> QED
      BY <2>5, <3>2
  <2>6. CASE earlier # {}
    <3>1. h \in earlier /\ \A k \in earlier : k <= h
      BY <2>3, <2>6
    <3>2. \A m \in earlier : (\A k \in earlier : k <= m) => m = h
      BY <2>1, <3>1
    <3>3. last = h
      BY <3>1, <3>2
    <3>4. h # 0 /\ p[h] = log[h]
      BY <2>1, <2>2, <3>1
    <3> QED
      BY <2>4, <2>6, <3>3, <3>4
  <2> QED
    BY <2>5, <2>6
<1> QED
  BY <1>1, SpecVersionsGrow, PTL

-----------------------------------------------------------------------------
(* Every export rests on its own finalization and that on a generated      *)
(* bundle, in the order of the log and of their timestamps, and none is    *)
(* repeated.                                                               *)
THEOREM ReviewEventsExportsAreGrounded == Spec => []ExportsAreGrounded
<1>1. IInv /\ VersionsGrow => ExportsAreGrounded
  <2> SUFFICES ASSUME IInv, VersionsGrow, NEW i \in DOMAIN log,
                      log[i].type = "attestation_package_exported"
               PROVE  /\ \E f \in 1 .. i - 1 : \E g \in 1 .. f - 1 :
                           /\ Finalizes(log[f], log[i]) /\ Generates(log[g], log[f])
                           /\ log[g].at <= log[f].at /\ log[f].at <= log[i].at
                      /\ \A k \in DOMAIN log :
                           log[k].type = log[i].type /\ SameFamily(log[k], log[i])
                              /\ log[k].id.version = log[i].id.version => k = i
    BY DEF ExportsAreGrounded
  <2>1. i \in 1 .. Len(log) /\ Len(log) \in Nat /\ DOMAIN log = 1 .. Len(log)
    BY LenProperties DEF IInv, Shape
  <2>2. PICK f \in 1 .. i - 1 : Finalizes(log[f], log[i]) /\ log[f].at <= log[i].at
    <3>1. /\ DOMAIN Prefix(log, i - 1) = 1 .. i - 1
          /\ \A j \in 1 .. i - 1 : Prefix(log, i - 1)[j] = log[j]
          /\ AppendReviewEvent(Prefix(log, i - 1), log[i])
      BY <2>1, LoggedEvent
    <3>2. \E f \in DOMAIN Prefix(log, i - 1) :
             /\ Finalizes(Prefix(log, i - 1)[f], log[i])
             /\ Prefix(log, i - 1)[f].at <= log[i].at
      BY <3>1 DEF AppendReviewEvent, StructureHolds, ExportedAfterFinalized
    <3> QED
      BY <3>1, <3>2
  <2>3. f \in 1 .. Len(log) /\ log[f].type = "attestation_package_finalized"
    BY <2>1, <2>2 DEF Finalizes
  <2>4. PICK g \in 1 .. f - 1 : Generates(log[g], log[f]) /\ log[g].at <= log[f].at
    <3>1. /\ DOMAIN Prefix(log, f - 1) = 1 .. f - 1
          /\ \A j \in 1 .. f - 1 : Prefix(log, f - 1)[j] = log[j]
          /\ AppendReviewEvent(Prefix(log, f - 1), log[f])
      BY <2>3, LoggedEvent
    <3>2. \E g \in DOMAIN Prefix(log, f - 1) :
             /\ Generates(Prefix(log, f - 1)[g], log[f])
             /\ Prefix(log, f - 1)[g].at <= log[f].at
      BY <2>3, <3>1 DEF AppendReviewEvent, StructureHolds, FinalizedAfterGenerated
    <3> QED
      BY <3>1, <3>2
  <2>5. ASSUME NEW k \in 1 .. Len(log), log[k].type = log[i].type,
               SameFamily(log[k], log[i]),
               log[k].id.version = log[i].id.version
        PROVE  k = i
    <3>1. /\ log[i].type \in VersionedTypes /\ log[k].type \in VersionedTypes
          /\ SameFamily(log[i], log[k])
      BY <2>5 DEF VersionedTypes, EPIC5_VERSIONED_EVENT_TYPES, SameFamily
    <3>2. log[i].id.version \in Nat
      BY <2>1, LoggedEvent
    <3>3. CASE k < i
      <4>1. k \in 1 .. i - 1
        BY <2>1, <3>3
      <4> QED
        BY <2>1, <2>5, <3>1, <3>2, <4>1 DEF VersionsGrow
    <3>4. CASE i < k
      <4>1. i \in 1 .. k - 1
        BY <2>1, <3>4
      <4> QED
        BY <2>1, <2>5, <3>1, <3>2, <4>1 DEF VersionsGrow
    <3> QED
      BY <2>1, <3>3, <3>4
  <2> QED
    BY <2>1, <2>2, <2>4, <2>5
<1> QED
  BY <1>1, SpecVersionsGrow, PTL

(* Never more than three included scripts, and no slot is given twice.     *)
THEOREM ReviewEventsIncludedScriptsFit == Spec => []IncludedScriptsFit
<1>1. IInv => IncludedScriptsFit
  <2> SUFFICES ASSUME IInv PROVE IncludedScriptsFit
    OBVIOUS
  <2> DEFINE I == IncludedScripts(log)
             slotOf == [i \in I |-> log[i].slot]
  <2>1. Len(log) \in Nat /\ DOMAIN log = 1 .. Len(log)
    BY LenProperties DEF IInv, Shape
  <2>2. ASSUME NEW i \in I, NEW j \in 1 .. i - 1, j \in I
        PROVE  log[j].slot # log[i].slot
    <3>1. i \in 1 .. Len(log) /\ log[i].slot \in IncludedSlots /\ log[j].slot \in IncludedSlots
      BY <2>1, <2>2 DEF IncludedScripts
    <3>2. /\ DOMAIN Prefix(log, i - 1) = 1 .. i - 1
          /\ \A k \in 1 .. i - 1 : Prefix(log, i - 1)[k] = log[k]
          /\ AppendReviewEvent(Prefix(log, i - 1), log[i])
      BY <3>1, LoggedEvent
    <3>3. j \in IncludedScripts(Prefix(log, i - 1))
      BY <3>1, <3>2 DEF IncludedScripts
    <3>4. Prefix(log, i - 1)[j].slot # log[i].slot
      BY <3>1, <3>2, <3>3 DEF AppendReviewEvent, ScriptCapHolds
    <3> QED
      BY <3>2, <3>4
  <2>3. \A i, j \in I : log[i].slot = log[j].slot => i = j
    <3> SUFFICES ASSUME NEW i \in I, NEW j \in I, log[i].slot = log[j].slot, i # j
                 PROVE  FALSE
      OBVIOUS
    <3>1. i \in 1 .. Len(log) /\ j \in 1 .. Len(log)
      BY <2>1 DEF IncludedScripts
    <3>2. j \in 1 .. i - 1 \/ i \in 1 .. j - 1
      BY <2>1, <3>1
    <3> QED
      BY <2>2, <3>2
  <2>4. slotOf \in Injection(I, IncludedSlots)
    <3>1. slotOf \in [I -> IncludedSlots]
      BY DEF IncludedScripts
    <3>2. \A i, j \in I : slotOf[i] = slotOf[j] => i = j
      BY <2>3
    <3> HIDE DEF slotOf, I
    <3> QED
      BY <3>1, <3>2 DEF Injection, IsInjective
  <2>5. IsFiniteSet(IncludedSlots) /\ Cardinality(IncludedSlots) = 3
    <3>1. IsFiniteSet(1 .. 3) /\ Cardinality(1 .. 3) = IF 1 > 3 THEN 0 ELSE 3 - 1 + 1
      BY 1 \in Int, 3 \in Int, FS_Interval
    <3> QED
      BY <3>1 DEF IncludedSlots
  <2>6. Cardinality(I) <= 3
    <3> HIDE DEF slotOf, I
    <3> QED
      BY <2>4, <2>5, FS_Injection
  <2> QED
    BY <2>3, <2>6 DEF IncludedScriptsFit
<1> QED
  BY <1>1, SpecIInv, PTL

-----------------------------------------------------------------------------
(* The supersedes chain of a logged event stays among the events before    *)
(* it, and is the same in the log as in the prefix it was accepted on.     *)
LEMMA ChainInPrefix ==
  ASSUME IInv, NEW i \in 1 .. Len(log), log[i].supersedes # 0
  PROVE  SupersedesChain(log, log[i].supersedes)
            \subseteq SupersedesChain(Prefix(log, i - 1), log[i].supersedes)
<1> DEFINE p == Prefix(log, i - 1)
           s == log[i].supersedes
<1>1. /\ Len(log) \in Nat /\ DOMAIN log = 1 .. Len(log)
      /\ DOMAIN p = 1 .. i - 1
      /\ \A j \in 1 .. i - 1 : p[j] = log[j]
      /\ s \in 1 .. i - 1
  BY LoggedEvent
<1> HIDE DEF p, s
<1>2. ASSUME NEW S \in SUBSET (1 .. i - 1), ClosedUnderSupersedes(p, S)
      PROVE  S \in SUBSET DOMAIN log /\ ClosedUnderSupersedes(log, S)
  BY <1>1, <1>2 DEF ClosedUnderSupersedes
<1>3. ClosedUnderSupersedes(p, 1 .. i - 1)
  <2>1. ASSUME NEW k \in 1 .. i - 1, log[k].supersedes # 0
        PROVE  log[k].supersedes \in 1 .. i - 1
    <3>1. k \in 1 .. Len(log)
      BY <1>1
    <3>2. log[k].supersedes \in 0 .. k - 1
      BY <3>1, LoggedEvent
    <3> QED
      BY <1>1, <2>1, <3>2
  <2> QED
    BY <1>1, <2>1 DEF ClosedUnderSupersedes
<1>4. ASSUME NEW j \in SupersedesChain(log, s)
      PROVE  j \in SupersedesChain(p, s)
  <2>1. \A S \in SUBSET DOMAIN log :
           s \in S /\ ClosedUnderSupersedes(log, S) => j \in S
    BY DEF SupersedesChain
  <2>2. j \in 1 .. i - 1
    BY <1>1, <1>2, <1>3, <2>1
  <2>3. \A S \in SUBSET (1 .. i - 1) :
           s \in S /\ ClosedUnderSupersedes(p, S) => j \in S
    BY <1>2, <2>1
  <2> QED
    BY <1>1, <2>2, <2>3 DEF SupersedesChain
<1> QED
  BY <1>4 DEF p, s

(* No chain of corrections leads from an event that speaks for the         *)
(* customer to a reviewer's classification, guidance, validation or false  *)
(* positive.                                                               *)
THEOREM ReviewEventsExpertRecordsStand == Spec => []ExpertRecordsStand
<1>1. IInv => ExpertRecordsStand
  <2> SUFFICES ASSUME IInv PROVE ExpertRecordsStand
    OBVIOUS
  <2> DEFINE customers == {i \in DOMAIN log : SpeaksForCustomer(log[i])}
             Beneath(i) == IF log[i].supersedes = 0 THEN {}
                           ELSE SupersedesChain(log, log[i].supersedes)
             clean == {j \in DOMAIN log : j \in customers
                          \/ \E i \in customers : j \in Beneath(i)}
  <2>1. Len(log) \in Nat /\ DOMAIN log = 1 .. Len(log)
    BY LenProperties DEF IInv, Shape
  <2>2. ASSUME NEW i \in customers PROVE log[i].type \notin ExpertTypes
    <3>1. i \in 1 .. Len(log) /\ SpeaksForCustomer(log[i])
      BY <2>1
    <3>2. SemanticsHold(log[i])
      BY <3>1, LoggedEvent DEF AppendReviewEvent
    <3> QED
      BY <3>1, <3>2 DEF SemanticsHold, SpeaksForCustomer, ExpertTypes,
                        CUSTOMER_CORRECTION_EVENT_TYPES
  <2>3. ASSUME NEW i \in customers, NEW j \in Beneath(i)
        PROVE  log[j].type \notin ExpertTypes
    <3>1. /\ i \in 1 .. Len(log) /\ SpeaksForCustomer(log[i])
          /\ log[i].supersedes # 0
      BY <2>1, <2>3
    <3>2. j \in SupersedesChain(Prefix(log, i - 1), log[i].supersedes)
      BY <2>3, <3>1, ChainInPrefix
    <3>3. /\ DOMAIN Prefix(log, i - 1) = 1 .. i - 1
          /\ \A k \in 1 .. i - 1 : Prefix(log, i - 1)[k] = log[k]
          /\ AppendReviewEvent(Prefix(log, i - 1), log[i])
      BY <3>1, LoggedEvent
    <3>4. j \in 1 .. i - 1
      BY <3>2, <3>3 DEF SupersedesChain
    <3>5. Prefix(log, i - 1)[j].type \notin ExpertTypes
      BY <3>1, <3>2, <3>3 DEF AppendReviewEvent, StructureHolds, ChainHolds
    <3> QED
      BY <3>3, <3>4, <3>5
  <2>4. ASSUME NEW i \in customers, log[i].supersedes # 0
        PROVE  log[i].supersedes \in Beneath(i)
    <3>1. i \in 1 .. Len(log)
      BY <2>1
    <3>2. log[i].supersedes \in 1 .. Len(log)
      BY <2>1, <2>4, <3>1, LoggedEvent
    <3> QED
      BY <2>1, <2>4, <3>2 DEF SupersedesChain
  <2>5. ASSUME NEW i \in customers, NEW j \in Beneath(i), log[j].supersedes # 0
        PROVE  log[j].supersedes \in Beneath(i)
    <3>1. log[i].supersedes # 0 /\ j \in SupersedesChain(log, log[i].supersedes)
      BY <2>5
    <3>2. j \in 1 .. Len(log)
      BY <2>1, <3>1 DEF SupersedesChain
    <3>3. log[j].supersedes \in 1 .. Len(log)
      BY <2>1, <2>5, <3>2, LoggedEvent
    <3>4. \A S \in SUBSET DOMAIN log :
             log[i].supersedes \in S /\ ClosedUnderSupersedes(log, S)
                => log[j].supersedes \in S
      BY <2>5, <3>1 DEF SupersedesChain, ClosedUnderSupersedes
    <3>5. log[j].supersedes \in SupersedesChain(log, log[i].supersedes)
      BY <2>1, <3>3, <3>4 DEF SupersedesChain
    <3> QED
      BY <3>1, <3>5
  <2>6. \A i \in customers : Beneath(i) \subseteq DOMAIN log
    BY DEF SupersedesChain
  <2> HIDE DEF Beneath, customers
  <2>7. \A j \in clean : log[j].type \notin ExpertTypes
    BY <2>2, <2>3
  <2>8. \A j \in clean : log[j].supersedes \in clean \cup {0}
    BY <2>4, <2>5, <2>6
  <2>9. clean \in SUBSET DOMAIN log
    OBVIOUS
  <2>10. \A i \in DOMAIN log : SpeaksForCustomer(log[i]) => i \in clean
    BY DEF customers
  <2> HIDE DEF clean
  <2> QED
    BY <2>7, <2>8, <2>9, <2>10 DEF ExpertRecordsStand
<1> QED
  BY <1>1, SpecIInv, PTL

-----------------------------------------------------------------------------
(* The gate's rules, event by event: an event the boundary accepted on a   *)
(* log is one the gate accepts after it.                                   *)
LEMMA SemanticsPassGate ==
  ASSUME NEW e, SemanticsHold(e),
         e.actor \in {"local_runner", "customer_user", "vendor_service", "reviewer"}
  PROVE  validateReviewEventSemantics(e)
  BY DEF SemanticsHold, validateReviewEventSemantics

LEMMA ChainPassesGate ==
  ASSUME NEW l, NEW e, StructureHolds(l, e)
  PROVE  GateChainHolds(l, e)
<1> SUFFICES ASSUME e.supersedes # 0 PROVE GateChainHolds(l, e)
  BY DEF GateChainHolds
<1>1. /\ e.supersedes \in DOMAIN l
      /\ \A x \in GateChain(l, e) :
           /\ ~(SpeaksForCustomer(e) /\ x.type \in ExpertTypes)
           /\ e.type \in ClosedTypes \/ x.type \in ClosedTypes => x.type = e.type
  BY DEF StructureHolds, ChainHolds, GateChain
<1>2. \A type \in ClosedTypes : Apart(l, e, type)
  BY <1>1 DEF Apart
<1>3. ScopeVersionGrows(l, e)
  BY DEF StructureHolds, ScopeVersionHolds, CorrectsOlderVersion, ScopeVersionGrows
<1>4. VersionedChainHolds(l, e)
  <2>1. \A x \in GateChain(l, e) :
          /\ e.type \in VerificationTypes => x.type = e.type
          /\ x.type \in VerificationTypes => e.type = x.type
    BY <1>1 DEF ClosedTypes
  <2>2. ASSUME e.type \in VerificationTypes
        PROVE  /\ SameFamily(l[e.supersedes], e)
               /\ e.id.version > l[e.supersedes].id.version
               /\ ActiveHead(l, e) # 0 /\ e.supersedes = ActiveHead(l, e)
    BY <2>2 DEF StructureHolds, VerificationVersionHolds, CorrectsOlderVersion
  <2>3. ASSUME e.type \in VerificationTypes
        PROVE  e.id.version > l[ActiveHead(l, e)].id.version
    BY <2>2, <2>3
  <2> QED
    BY <2>1, <2>2, <2>3 DEF VersionedChainHolds
<1>5. "customer_accepted_risk_recorded" \in ClosedTypes
      /\ "verification_scope_recorded" \in ClosedTypes
      /\ "false_positive_recorded" \in ClosedTypes
  BY DEF ClosedTypes, OutcomeTypes
<1>6. SpeaksForCustomer(e) => CustomerChainHolds(l, e)
  BY <1>1, <1>2, <1>3, <1>5 DEF CustomerChainHolds
<1>7. ReviewerChainHolds(l, e)
  BY <1>2, <1>3, <1>5 DEF ReviewerChainHolds
<1> QED
  BY <1>1, <1>4, <1>6, <1>7 DEF GateChainHolds

LEMMA AcceptedPassesSharedRules ==
  ASSUME NEW l, NEW e, AppendReviewEvent(l, e),
         e.actor \in {"local_runner", "customer_user", "vendor_service", "reviewer"}
  PROVE  SharedGateRules(l, e)
<1>1. SemanticsHold(e) /\ StructureHolds(l, e) /\ (\A i \in DOMAIN l : Key(l[i]) # Key(e))
  BY DEF AppendReviewEvent
<1>2. validateReviewEventSemantics(e)
  BY <1>1, SemanticsPassGate
<1>3. NumberedAndUnique(l, e)
  BY <1>1 DEF StructureHolds, NumberedAndUnique
<1>4. ScopeSupersedesHead(l, e)
  BY <1>1 DEF StructureHolds, ScopeVersionHolds, ScopeSupersedesHead
<1>5. VersionedSupersedesHead(l, e)
  BY <1>1 DEF StructureHolds, VerificationVersionHolds, VersionedSupersedesHead
<1>6. GateChainHolds(l, e)
  BY <1>1, ChainPassesGate
<1>7. ClassificationRefHolds(l, e)
  BY <1>1 DEF StructureHolds, RefHolds, ClassificationRefHolds
<1> QED
  BY <1>2, <1>3, <1>4, <1>5, <1>6, <1>7 DEF SharedGateRules

LEMMA ActorOfEvent ==
  ASSUME NEW n, NEW e \in Drafts(n)
  PROVE  e.actor \in {"local_runner", "customer_user", "vendor_service", "reviewer"}
<1>1. PICK t \in Types : e \in EventsAt(n, t)
  BY DEF Drafts
<1>2. e.actor \in Actors
  BY <1>1 DEF EventsAt
<1> QED
  BY <1>2, ReviewEventsAssumption

LEMMA SharedRulesHold == IInv => GateAgreesOnSharedRules
<1> SUFFICES ASSUME IInv, NEW i \in DOMAIN log
             PROVE  SharedGateRules(SubSeq(log, 1, i - 1), log[i])
  BY DEF GateAgreesOnSharedRules
<1>1. i \in 1 .. Len(log)
  BY LenProperties DEF IInv, Shape
<1>2. AppendReviewEvent(Prefix(log, i - 1), log[i]) /\ log[i] \in Drafts(i - 1)
  BY <1>1 DEF IInv, Shape, Accepted
<1>3. SharedGateRules(Prefix(log, i - 1), log[i])
  BY <1>2, ActorOfEvent, AcceptedPassesSharedRules
<1> QED
  BY <1>3 DEF Prefix

-----------------------------------------------------------------------------
(* Positions in ascending order.  A finite set of them has exactly one     *)
(* such enumeration, and a new last position goes to its end.              *)
Ascends(S, s) ==
  /\ s \in [1 .. Cardinality(S) -> S]
  /\ \A k, m \in 1 .. Cardinality(S) : k < m => s[k] < s[m]

Covers(S, s) == \A i \in S : \E k \in 1 .. Cardinality(S) : s[k] = i

LEMMA PositionsAreFinite ==
  ASSUME NEW n \in Nat, NEW S \in SUBSET (1 .. n)
  PROVE  IsFiniteSet(S) /\ Cardinality(S) \in Nat
<1>1. IsFiniteSet(1 .. n)
  BY FS_Interval
<1>2. IsFiniteSet(S)
  BY <1>1, FS_Subset
<1> QED
  BY <1>2, FS_CardinalityType

LEMMA AscentIsOnto ==
  ASSUME NEW n \in Nat, NEW S \in SUBSET (1 .. n), NEW s, Ascends(S, s)
  PROVE  Covers(S, s)
<1> DEFINE C == Cardinality(S)
           R == {s[k] : k \in 1 .. C}
<1>1. IsFiniteSet(S) /\ C \in Nat
  BY PositionsAreFinite
<1>2. s \in [1 .. C -> S] /\ \A k, m \in 1 .. C : k < m => s[k] < s[m]
  BY DEF Ascends
<1>3. IsFiniteSet(1 .. C) /\ Cardinality(1 .. C) = C
  BY <1>1, FS_Interval
<1> HIDE DEF C
<1>4. R \in SUBSET S /\ \A k \in 1 .. C : s[k] \in R
  BY <1>2
<1>5. \A k, m \in 1 .. C : s[k] = s[m] => k = m
  <2> SUFFICES ASSUME NEW k \in 1 .. C, NEW m \in 1 .. C, k # m PROVE s[k] # s[m]
    OBVIOUS
  <2>1. s[k] \in 1 .. n /\ s[m] \in 1 .. n
    BY <1>2
  <2>2. k < m \/ m < k
    BY <1>1
  <2> QED
    BY <1>2, <2>1, <2>2
<1>6. s \in [1 .. C -> R]
  BY <1>2, <1>4
<1>7. s \in Surjection(1 .. C, R) /\ s \in Injection(1 .. C, R)
  BY <1>5, <1>6 DEF Surjection, Injection, IsInjective
<1>8. Cardinality(R) = C
  BY <1>3, <1>7, FS_Surjection
<1>9. R = S
  BY <1>1, <1>4, <1>8, FS_Subset DEF C
<1> QED
  BY <1>9 DEF C, Covers

LEMMA AscentIsUnique ==
  ASSUME NEW n \in Nat, NEW S \in SUBSET (1 .. n),
         NEW s, Ascends(S, s), NEW t, Ascends(S, t)
  PROVE  s = t
<1> DEFINE C == Cardinality(S)
           D == {k \in 1 .. C : s[k] # t[k]}
<1>1. C \in Nat
  BY PositionsAreFinite
<1>2. /\ s \in [1 .. C -> S] /\ \A k, m \in 1 .. C : k < m => s[k] < s[m]
      /\ t \in [1 .. C -> S] /\ \A k, m \in 1 .. C : k < m => t[k] < t[m]
  BY DEF Ascends
<1>3. \A i \in S : (\E k \in 1 .. C : s[k] = i) /\ (\E k \in 1 .. C : t[k] = i)
  BY AscentIsOnto DEF Covers
<1> HIDE DEF C
<1>4. ASSUME \A k \in 1 .. C : s[k] = t[k] PROVE s = t
  <2>1. s = [k \in 1 .. C |-> s[k]] /\ t = [k \in 1 .. C |-> t[k]]
    BY <1>2
  <2>2. [k \in 1 .. C |-> s[k]] = [k \in 1 .. C |-> t[k]]
    BY <1>4
  <2> QED
    BY <2>1, <2>2
<1> SUFFICES ASSUME D # {} PROVE FALSE
  BY <1>4
<1>5. PICK k \in D : \A y \in D : k <= y
  <2>1. D \in SUBSET Nat
    BY <1>1
  <2> QED
    BY <2>1, LeastExists
<1>6. /\ k \in 1 .. C /\ s[k] \in S /\ t[k] \in S /\ s[k] # t[k]
      /\ \A m \in 1 .. C : m < k => s[m] = t[m]
  BY <1>1, <1>2, <1>5
<1>7. s[k] \in Nat /\ t[k] \in Nat
  <2>1. s[k] \in 1 .. n /\ t[k] \in 1 .. n
    BY <1>6
  <2> HIDE DEF D
  <2> QED
    BY <2>1
<1>8. CASE s[k] < t[k]
  <2>1. PICK m \in 1 .. C : t[m] = s[k]
    BY <1>3, <1>6
  <2>2. m # k
    BY <1>6, <2>1
  <2>3. CASE m < k
    BY <1>2, <1>6, <1>7, <2>1, <2>3
  <2>4. CASE k < m
    BY <1>2, <1>6, <1>7, <1>8, <2>1, <2>4
  <2> QED
    BY <1>1, <1>6, <2>2, <2>3, <2>4
<1>9. CASE t[k] < s[k]
  <2>1. PICK m \in 1 .. C : s[m] = t[k]
    BY <1>3, <1>6
  <2>2. m # k
    BY <1>6, <2>1
  <2>3. CASE m < k
    BY <1>2, <1>6, <1>7, <2>1, <2>3
  <2>4. CASE k < m
    BY <1>2, <1>6, <1>7, <1>9, <2>1, <2>4
  <2> QED
    BY <1>1, <1>6, <2>2, <2>3, <2>4
<1> QED
  BY <1>6, <1>7, <1>8, <1>9

LEMMA AscentGrows ==
  ASSUME NEW n \in Nat, NEW S \in SUBSET (1 .. n), NEW s, Ascends(S, s)
  PROVE  /\ Cardinality(S \cup {n + 1}) = Cardinality(S) + 1
         /\ Ascends(S \cup {n + 1},
                    [k \in 1 .. Cardinality(S) + 1 |->
                       IF k <= Cardinality(S) THEN s[k] ELSE n + 1])
<1> DEFINE C == Cardinality(S)
           more == [k \in 1 .. C + 1 |-> IF k <= C THEN s[k] ELSE n + 1]
<1>1. IsFiniteSet(S) /\ C \in Nat
  BY PositionsAreFinite
<1>2. Cardinality(S \cup {n + 1}) = C + 1
  BY <1>1, FS_AddElement
<1>3. s \in [1 .. C -> S] /\ \A k, m \in 1 .. C : k < m => s[k] < s[m]
  BY DEF Ascends
<1> HIDE DEF C
<1>4. more \in [1 .. C + 1 -> S \cup {n + 1}]
  BY <1>1, <1>3
<1>5. ASSUME NEW k \in 1 .. C + 1, NEW m \in 1 .. C + 1, k < m PROVE more[k] < more[m]
  <2>0. k \in 1 .. C
    BY <1>1, <1>5
  <2>1. more[k] = s[k] /\ s[k] \in S /\ s[k] \in 1 .. n
    <3>1. k <= C /\ s[k] \in S
      BY <1>1, <1>3, <2>0
    <3>2. s[k] \in 1 .. n
      BY <3>1
    <3> QED
      BY <3>1, <3>2, <1>5
  <2>2. CASE m <= C
    BY <1>1, <1>3, <1>5, <2>0, <2>1, <2>2
  <2>3. CASE ~(m <= C)
    BY <1>1, <2>1, <2>3
  <2> QED
    BY <2>2, <2>3
<1> HIDE DEF more
<1>6. Ascends(S \cup {n + 1}, more)
  BY <1>2, <1>4, <1>5 DEF Ascends
<1> QED
  BY <1>2, <1>6 DEF C, more

LEMMA AscentExists ==
  ASSUME NEW n \in Nat, NEW S \in SUBSET (1 .. n)
  PROVE  \E s : Ascends(S, s)
<1> DEFINE Bad(m) == \E T \in SUBSET (1 .. m) : \A s : ~Ascends(T, s)
           D == {m \in Nat : Bad(m)}
<1>1. SUFFICES D = {}
  BY <1>1
<1> SUFFICES ASSUME D # {} PROVE FALSE
  OBVIOUS
<1>2. PICK m \in D : \A y \in D : m <= y
  <2>1. D \in SUBSET Nat
    OBVIOUS
  <2> QED
    BY <2>1, LeastExists
<1>3. PICK T \in SUBSET (1 .. m) : \A s : ~Ascends(T, s)
  BY <1>2
<1>4. m \in Nat /\ \A y \in Nat : y < m => ~Bad(y)
  BY <1>2
<1>5. m # 0
  <2> SUFFICES ASSUME m = 0 PROVE FALSE
    OBVIOUS
  <2>1. T = {}
    BY <1>3
  <2>2. Cardinality(T) = 0
    BY <2>1, FS_EmptySet
  <2>3. [k \in 1 .. 0 |-> 0] \in [1 .. 0 -> T]
    OBVIOUS
  <2>4. Ascends(T, [k \in 1 .. 0 |-> 0])
    BY <2>2, <2>3 DEF Ascends
  <2> QED
    BY <1>3, <2>4
<1>6. m - 1 \in Nat /\ ~Bad(m - 1)
  <2>1. m - 1 \in Nat /\ m - 1 < m
    BY <1>4, <1>5
  <2> HIDE DEF Bad
  <2> QED
    BY <1>4, <2>1
<1>7. T \ {m} \in SUBSET (1 .. m - 1)
  BY <1>3, <1>4
<1>8. PICK s : Ascends(T \ {m}, s)
  BY <1>6, <1>7
<1>9. (m - 1) + 1 = m
  BY <1>4
<1>10. \E t : Ascends((T \ {m}) \cup {m}, t)
  BY <1>6, <1>7, <1>8, <1>9, AscentGrows
<1>11. m \in T => (T \ {m}) \cup {m} = T
  OBVIOUS
<1>12. m \notin T => T \ {m} = T
  OBVIOUS
<1> QED
  BY <1>3, <1>8, <1>10, <1>11, <1>12

-----------------------------------------------------------------------------
(* A log whose i-th event has number i - 1, as every log of this store. *)
Numbered(l, n) == DOMAIN l = 1 .. n /\ \A i \in 1 .. n : l[i].seq = i - 1

(* Sorting the shown events by number enumerates their positions.          *)
LEMMA OrderAscends ==
  ASSUME NEW n \in Nat, NEW l, Numbered(l, n)
  PROVE  /\ Shown(l) \in SUBSET (1 .. n)
         /\ Cardinality(Shown(l)) \in Nat
         /\ Ascends(Shown(l), ByNumber(l, Shown(l)))
         /\ Sorted(l, Shown(l), ByNumber(l, Shown(l)))
<1> DEFINE S == Shown(l)
           C == Cardinality(S)
<1>1. S \in SUBSET (1 .. n)
  BY DEF Shown, Numbered
<1>2. C \in Nat
  BY <1>1, PositionsAreFinite
<1>3. ByNumber(l, S) = CHOOSE s \in [1 .. C -> S] : Sorted(l, S, s)
  BY DEF ByNumber
<1>4. ASSUME NEW s \in [1 .. C -> S]
      PROVE  Sorted(l, S, s) <=> Ascends(S, s)
  <2> HIDE DEF S
  <2>1. \A k \in 1 .. C : s[k] \in 1 .. n /\ l[s[k]].seq = s[k] - 1
    BY <1>1, <1>4 DEF Numbered
  <2>2. \A k, m \in 1 .. C : l[s[k]].seq < l[s[m]].seq <=> s[k] < s[m]
    BY <2>1
  <2> QED
    BY <2>2 DEF Sorted, Ascends
<1>5. PICK s : Ascends(S, s)
  BY <1>1, AscentExists
<1>6. s \in [1 .. C -> S]
  BY <1>5 DEF Ascends
<1> HIDE DEF S
<1>7. Sorted(l, S, s)
  BY <1>4, <1>5, <1>6
<1>8. ByNumber(l, S) \in [1 .. C -> S] /\ Sorted(l, S, ByNumber(l, S))
  BY <1>3, <1>6, <1>7
<1>9. Ascends(S, ByNumber(l, S))
  BY <1>4, <1>8
<1> QED
  BY <1>1, <1>2, <1>8, <1>9 DEF S

(* The history of a valid log is one entry for each position of the order. *)
LEMMA HistoryOfValid ==
  ASSUME NEW l, ReviewEventLogIsValid(l)
  PROVE  projectCustomerFacingHistory(l)
           = [k \in 1 .. Cardinality(Shown(l)) |->
                Entry(ByNumber(l, Shown(l))[k], l[ByNumber(l, Shown(l))[k]])]
  BY DEF projectCustomerFacingHistory

(* A valid log has no pilot event a customer may see, so every event       *)
(* marked for the customer is shown, in the order of the numbers.          *)
LEMMA HistoryPassesGate ==
  ASSUME NEW n \in Nat, NEW l, Numbered(l, n), ReviewEventLogIsValid(l)
  PROVE  LET p == projectCustomerFacingHistory(l) IN
         /\ validateReviewEventCustomerProjectionSemantics(p)
         /\ validateReviewEventCustomerProjectionAgainstLog(p, l)
<1> DEFINE S == Shown(l)
           C == Cardinality(S)
           o == ByNumber(l, S)
           p == projectCustomerFacingHistory(l)
           expected == {i \in DOMAIN l : l[i].visibility = "customer_facing"}
<1>1. /\ S \in SUBSET (1 .. n) /\ C \in Nat /\ Ascends(S, o) /\ Sorted(l, S, o)
  BY OrderAscends
<1>2. p = [k \in 1 .. C |-> Entry(o[k], l[o[k]])]
  BY HistoryOfValid
<1>3. S \subseteq expected
  BY DEF Shown
<1>4. expected \subseteq S
  <2> SUFFICES ASSUME NEW i \in DOMAIN l, l[i].visibility = "customer_facing"
               PROVE  l[i].type \notin PILOT_TYPES
    BY DEF Shown
  <2>1. SemanticsHold(l[i])
    BY DEF ReviewEventLogIsValid
  <2> QED
    BY <2>1 DEF SemanticsHold, PILOT_TYPES
<1> HIDE DEF S, o, p
<1>5. o \in [1 .. C -> S] /\ (\A k, m \in 1 .. C : k < m => o[k] < o[m])
      /\ (\A k, m \in 1 .. C : k < m => l[o[k]].seq < l[o[m]].seq)
  BY <1>1 DEF Ascends, Sorted
<1>6. \A i \in S : \E k \in 1 .. C : o[k] = i
  <2>1. Covers(S, o)
    BY <1>1, AscentIsOnto
  <2> QED
    BY <2>1 DEF Covers
<1> HIDE DEF C
<1>7. DOMAIN p = 1 .. C
  BY <1>2
<1>8. \A k \in 1 .. C :
        /\ p[k].visibility = "customer_facing" /\ p[k].event = o[k]
        /\ p[k].type = l[o[k]].type /\ p[k].at = l[o[k]].at
        /\ p[k].actor = l[o[k]].actor /\ p[k].artifact = l[o[k]].id
  BY <1>2 DEF Entry
<1>9. \A k \in 1 .. C : o[k] \in S /\ o[k] \in 1 .. n
  BY <1>1, <1>5
<1>10. \A k, m \in 1 .. C : o[k] = o[m] => k = m
  <2> SUFFICES ASSUME NEW k \in 1 .. C, NEW m \in 1 .. C, k # m PROVE o[k] # o[m]
    OBVIOUS
  <2>1. k < m \/ m < k
    BY <1>1
  <2> QED
    BY <1>5, <1>9, <2>1
<1>11. validateReviewEventCustomerProjectionSemantics(p)
  BY <1>7, <1>8, <1>10 DEF validateReviewEventCustomerProjectionSemantics
<1>12. \A k \in DOMAIN p :
         /\ p[k].event \in expected
         /\ p[k].type = l[p[k].event].type /\ p[k].at = l[p[k].event].at
         /\ p[k].actor = l[p[k].event].actor /\ p[k].artifact = l[p[k].event].id
  BY <1>3, <1>7, <1>8, <1>9
<1>13. \A i \in expected : \E k \in DOMAIN p : p[k].event = i
  BY <1>4, <1>6, <1>7, <1>8
<1>14. \A k, m \in DOMAIN p : k < m => l[p[k].event].seq < l[p[m].event].seq
  BY <1>5, <1>7, <1>8
<1>15. validateReviewEventCustomerProjectionAgainstLog(p, l)
  BY <1>12, <1>13, <1>14 DEF validateReviewEventCustomerProjectionAgainstLog
<1> QED
  BY <1>11, <1>15 DEF p

(* One function on 1 .. c is a prefix of a longer one that extends it. *)
LEMMA ExtensionIsPrefix ==
  ASSUME NEW c \in Nat, NEW d \in Nat, c <= d, NEW p, NEW q,
         p = [k \in 1 .. c |-> p[k]], q = [k \in 1 .. d |-> q[k]],
         \A k \in 1 .. c : p[k] = q[k]
  PROVE  IsPrefix(p, q)
<1> DEFINE S == {p[k] : k \in 1 .. c} \cup {q[k] : k \in 1 .. d}
<1>1. p \in [1 .. c -> S] /\ q \in [1 .. d -> S]
  OBVIOUS
<1> HIDE DEF S
<1>2. p \in Seq(S) /\ q \in Seq(S) /\ Len(p) = c /\ Len(q) = d
  BY <1>1
<1>3. /\ Prefix(p, c) \in Seq(S) /\ Len(Prefix(p, c)) = c
      /\ \A i \in 1 .. c : Prefix(p, c)[i] = p[i]
  <2>1. p \in Seq(S) /\ c \in 0 .. Len(p)
    BY <1>2
  <2> QED
    BY ONLY <2>1, PrefixFacts
<1>4. /\ Prefix(q, c) \in Seq(S) /\ Len(Prefix(q, c)) = c
      /\ \A i \in 1 .. c : Prefix(q, c)[i] = q[i]
  <2>1. q \in Seq(S) /\ c \in 0 .. Len(q)
    BY <1>2
  <2> QED
    BY ONLY <2>1, PrefixFacts
<1>5. Prefix(p, c) = Prefix(q, c)
  BY <1>3, <1>4, SeqEqual
<1> QED
  BY <1>2, <1>5 DEF IsPrefix, Prefix

(* One more event leaves the entries before it as they were. *)
LEMMA HistoryGrows ==
  ASSUME NEW n \in Nat, NEW l, NEW m, Numbered(l, n), Numbered(m, n + 1),
         \A i \in 1 .. n : m[i] = l[i],
         ReviewEventLogIsValid(l), ReviewEventLogIsValid(m)
  PROVE  IsPrefix(projectCustomerFacingHistory(l), projectCustomerFacingHistory(m))
<1> DEFINE S == Shown(l)
           T == Shown(m)
           C == Cardinality(S)
           D == Cardinality(T)
           o == ByNumber(l, S)
           u == ByNumber(m, T)
           p == projectCustomerFacingHistory(l)
           q == projectCustomerFacingHistory(m)
<1>1. S \in SUBSET (1 .. n) /\ C \in Nat /\ Ascends(S, o)
  BY OrderAscends
<1>2. T \in SUBSET (1 .. n + 1) /\ D \in Nat /\ Ascends(T, u)
  BY OrderAscends
<1>3. p = [k \in 1 .. C |-> Entry(o[k], l[o[k]])]
  BY HistoryOfValid
<1>4. q = [k \in 1 .. D |-> Entry(u[k], m[u[k]])]
  BY HistoryOfValid
<1>5. T = S \/ T = S \cup {n + 1}
  <2>1. \A i \in 1 .. n : i \in T <=> i \in S
    BY DEF Shown, Numbered
  <2>2. 1 .. n + 1 = 1 .. n \cup {n + 1}
    OBVIOUS
  <2> HIDE DEF S, T
  <2> QED
    BY <1>1, <1>2, <2>1, <2>2
<1> HIDE DEF S, T, o, u, p, q
<1>6. C <= D /\ \A k \in 1 .. C : u[k] = o[k]
  <2>1. CASE T = S
    <3>1. S \in SUBSET (1 .. n) /\ Ascends(S, u)
      BY <1>1, <1>2, <2>1
    <3>2. u = o
      BY <1>1, <3>1, AscentIsUnique
    <3> QED
      BY <1>1, <2>1, <3>2
  <2>2. CASE T = S \cup {n + 1}
    <3> DEFINE more == [k \in 1 .. C + 1 |-> IF k <= C THEN o[k] ELSE n + 1]
    <3>1. D = C + 1 /\ Ascends(T, more)
      BY <1>1, <2>2, AscentGrows
    <3> HIDE DEF more
    <3>2. u = more
      <4>1. n + 1 \in Nat /\ T \in SUBSET (1 .. n + 1) /\ Ascends(T, u)
        BY <1>2
      <4> QED
        BY ONLY <4>1, <3>1, AscentIsUnique
    <3> HIDE DEF C, D
    <3> QED
      BY <1>1, <3>1, <3>2 DEF more
  <2> QED
    BY <1>5, <2>1, <2>2
<1>7. \A k \in 1 .. C : o[k] \in 1 .. n
  BY <1>1 DEF Ascends
<1> HIDE DEF C, D
<1>8. \A k \in 1 .. C : p[k] = q[k]
  <2> SUFFICES ASSUME NEW k \in 1 .. C PROVE p[k] = q[k]
    OBVIOUS
  <2>1. k \in 1 .. D /\ u[k] = o[k] /\ m[o[k]] = l[o[k]]
    BY <1>1, <1>2, <1>6, <1>7
  <2>2. p[k] = Entry(o[k], l[o[k]])
    BY <1>3
  <2>3. q[k] = Entry(u[k], m[u[k]])
    BY <1>4, <2>1
  <2> QED
    BY <2>1, <2>2, <2>3
<1>9. p = [k \in 1 .. C |-> p[k]] /\ q = [k \in 1 .. D |-> q[k]]
  BY <1>3, <1>4
<1>10. IsPrefix(p, q)
  BY <1>1, <1>2, <1>6, <1>8, <1>9, ExtensionIsPrefix
<1> QED
  BY <1>10 DEF p, q

LEMMA LogIsNumbered ==
  ASSUME IInv
  PROVE  Len(log) \in Nat /\ Numbered(log, Len(log)) /\ ReviewEventLogIsValid(log)
<1>1. log \in Seq(AnyEvent) /\ Len(log) \in Nat /\ DOMAIN log = 1 .. Len(log)
  BY LenProperties DEF IInv, Shape
<1>2. \A i \in 1 .. Len(log) : log[i].seq = i - 1
  BY LoggedEvent
<1>3. ReviewEventLogIsValid(log)
  BY IInvAppendable DEF LogStaysAppendable
<1> QED
  BY <1>1, <1>2, <1>3 DEF Numbered

(* The repository gate finds nothing to object to in any log the boundary  *)
(* built, event by event, nor in the history shown of it.                  *)
THEOREM ReviewEventsGateAgrees == Spec => []GateAgrees
<1>1. IInv => GateAgrees
  <2> SUFFICES ASSUME IInv PROVE GateAgrees
    OBVIOUS
  <2>1. GateAgreesOnSharedRules
    BY SharedRulesHold
  <2>2. ShownHistoryPassesGate
    BY LogIsNumbered, HistoryPassesGate DEF ShownHistoryPassesGate
  <2> QED
    BY <2>1, <2>2 DEF GateAgrees
<1> QED
  BY <1>1, SpecIInv, PTL

(* What a customer was shown is a prefix of what is shown later. *)
THEOREM ReviewEventsShownHistoryOnlyGrows == Spec => ShownHistoryOnlyGrows
<1>1. ASSUME IInv, IInv', [Next]_vars
      PROVE  [IsPrefix(projectCustomerFacingHistory(log), projectCustomerFacingHistory(log'))]_log
  <2> SUFFICES ASSUME log' # log
               PROVE  IsPrefix(projectCustomerFacingHistory(log), projectCustomerFacingHistory(log'))
    OBVIOUS
  <2>1. PICK w \in Writers : Store(w)
    BY <1>1 DEF Next, vars, Propose
  <2>2. PICK e \in AnyEvent : log' = Append(log, e)
    BY <1>1, <2>1, StoreAdds
  <2>3. log \in Seq(AnyEvent)
    BY <1>1 DEF IInv, Shape
  <2>4. /\ Len(log) \in Nat
        /\ Len(log') = Len(log) + 1
        /\ \A i \in 1 .. Len(log) : log'[i] = log[i]
    BY <2>2, <2>3, AppendProperties, LenProperties
  <2>5. Numbered(log, Len(log)) /\ ReviewEventLogIsValid(log)
    BY <1>1, LogIsNumbered
  <2>6. (Numbered(log, Len(log)) /\ ReviewEventLogIsValid(log))'
    BY <1>1, LogIsNumbered, PTL
  <2>7. Numbered(log', Len(log) + 1) /\ ReviewEventLogIsValid(log')
    BY <2>4, <2>6
  <2> QED
    BY <2>4, <2>5, <2>7, HistoryGrows
<1> QED
  BY <1>1, SpecIInv, PTL DEF Spec, ShownHistoryOnlyGrows
=============================================================================
