--------------------------- MODULE ReviewerProofs ---------------------------
(***************************************************************************)
(* Proofs about the reviewer routes, for every number of requests,         *)
(* reviewers, drafts, events and seconds.                                  *)
(*                                                                         *)
(* The argument: a record is stored before its event is appended, so every *)
(* event of a loaded log has its record among the ones listed later, and   *)
(* what the handler works out to be in force is the draft's last event of  *)
(* the loaded prefix.  Prefixes never change, and an event is only taken   *)
(* at the end of the prefix it was built on, so at that moment it          *)
(* supersedes the last judgment of the whole log.                          *)
(***************************************************************************)
EXTENDS Reviewer, LogRowsTheorems, SequenceTheorems

(* The second log has the first as a prefix. *)
Extends(l, m) ==
  /\ Len(l) <= Len(m)
  /\ \A i \in 1 .. Len(l) : m[i] = l[i]

(* What a handler at step p with locals l relies on, over the review log   *)
(* ev, the records st and the lifecycle log ac.                            *)
HandlerIn(p, l, ev, st, ac) ==
  \/ p = "idle" /\ l = Idle
  \/ /\ p \in Steps \ {"idle"}
     /\ l \in Locals
     /\ l.seen <= Len(ev)
     /\ l.kind = "classify" => l.judgment \in Judgments
     /\ l.kind = "view" => p \in {"load", "list", "mint", "get"}
     /\ l.kind = "view" /\ p \in {"mint", "get"} =>
           l.current = Last(Judged(ev, l.seen, l.draft))
     /\ p = "get" => /\ l.access \in Accesses
                     /\ l.access.who = l.who
                     /\ l.access.set = SetOf[l.draft]
     /\ l.kind = "classify" /\ p \in {"load", "list", "record", "append"} =>
           RecordedAccess(ac, l.who, SetOf[l.draft]) # {}
     /\ l.kind = "classify" /\ p \in {"list", "record", "append"} =>
           l.seen < MaxEvents
     /\ p \in {"record", "append"} =>
           /\ l.record \in Records
           /\ l.record.who = l.who
           /\ l.record.draft = l.draft
           /\ l.record.prior = Last(Judged(ev, l.seen, l.draft))
     /\ p = "append" => l.record \in st

(* What an answer relies on. *)
AnswerIn(a, ev, st, ac) ==
  \/ a = None
  \/ \E rec \in st : a = Created(rec) /\ Logged(ev, rec)
  \/ \E l \in Locals : /\ a = Shown(l)
                       /\ l.seen <= Len(ev)
                       /\ l.current = Last(Judged(ev, l.seen, l.draft))
                       /\ RecordedAccess(ac, l.who, SetOf[l.draft]) # {}

StoresOK ==
  /\ events \in Seq(Records \cup {None})
  /\ Len(events) <= MaxEvents
  /\ stored \subseteq Records
  /\ accesses \in Seq(Accesses)
  /\ clock \in 0 .. MaxClock

(* Every logged judgment is stored, supersedes the one before it, and was  *)
(* made by someone who read the draft.                                     *)
LogOK(ev, st, ac) ==
  /\ \A i \in 1 .. Len(ev) : ev[i] # None =>
        /\ ev[i] \in st
        /\ ev[i].prior = Last(Judged(ev, i - 1, ev[i].draft))
  /\ \A x \in st : RecordedAccess(ac, x.who, SetOf[x.draft]) # {}

IInv ==
  /\ StoresOK
  /\ pc \in [Requests -> Steps]
  /\ loc \in [Requests -> Locals \cup {Idle}]
  /\ answer = [r \in Requests |-> answer[r]]
  /\ \A r \in Requests : /\ HandlerIn(pc[r], loc[r], events, stored, accesses)
                         /\ AnswerIn(answer[r], events, stored, accesses)
  /\ LogOK(events, stored, accesses)

-----------------------------------------------------------------------------
(* Facts about logs. *)

(* The last of a set of positions is one of them, or 0. *)
LEMMA LastIn ==
  ASSUME NEW n \in Nat, NEW T \in SUBSET (1 .. n)
  PROVE  Last(T) \in 0 .. n
<1>1. CASE T = {}
  BY <1>1 DEF Last
<1>2. CASE T # {}
  <2>1. \E m \in T : \A k \in T : k <= m
    BY <1>2, LastExists
  <2>2. Last(T) \in T
    BY <1>2, <2>1 DEF Last
  <2>3. \A k \in T : k \in 0 .. n
    OBVIOUS
  <2> QED
    BY <2>2, <2>3
<1> QED
  BY <1>1, <1>2

LEMMA ExtendsAppend ==
  ASSUME NEW S, NEW l \in Seq(S), NEW x \in S
  PROVE  /\ Append(l, x) \in Seq(S)
         /\ Len(Append(l, x)) = Len(l) + 1
         /\ Append(l, x)[Len(l) + 1] = x
         /\ Extends(l, Append(l, x))
  BY AppendProperties, LenProperties DEF Extends

LEMMA ExtendsSame ==
  ASSUME NEW S, NEW l \in Seq(S)
  PROVE  Extends(l, l)
  BY LenProperties DEF Extends

(* Prefixes do not change. *)
LEMMA JudgedStable ==
  ASSUME NEW S, NEW l \in Seq(S), NEW m \in Seq(S), Extends(l, m),
         NEW n \in 0 .. Len(l), NEW d
  PROVE  Judged(m, n, d) = Judged(l, n, d)
<1>1. \A i \in 1 .. n : m[i] = l[i]
  BY LenProperties DEF Extends
<1> QED
  BY <1>1 DEF Judged

LEMMA RecordedStable ==
  ASSUME NEW S, NEW l \in Seq(S), NEW m \in Seq(S), Extends(l, m), NEW w, NEW s,
         RecordedAccess(l, w, s) # {}
  PROVE  RecordedAccess(m, w, s) # {}
<1>1. PICK i \in 1 .. Len(l) : l[i].who = w /\ l[i].set = s
  BY LenProperties DEF RecordedAccess
<1>2. i \in DOMAIN m /\ m[i] = l[i]
  BY LenProperties DEF Extends
<1> QED
  BY <1>1, <1>2 DEF RecordedAccess

LEMMA LoggedStable ==
  ASSUME NEW S, NEW l \in Seq(S), NEW m \in Seq(S), Extends(l, m), NEW rec,
         Logged(l, rec)
  PROVE  Logged(m, rec)
<1>1. PICK i \in 1 .. Len(l) : l[i] = rec
  BY LenProperties DEF Logged
<1>2. i \in DOMAIN m /\ m[i] = l[i]
  BY LenProperties DEF Extends
<1> QED
  BY <1>1, <1>2 DEF Logged

-----------------------------------------------------------------------------
(* Stores that grow keep what handlers, answers and the log rely on. *)

LEMMA HandlerStable ==
  ASSUME NEW ev \in Seq(Records \cup {None}), NEW ev2 \in Seq(Records \cup {None}),
         Extends(ev, ev2),
         NEW st, NEW st2, st \subseteq st2,
         NEW ac \in Seq(Accesses), NEW ac2 \in Seq(Accesses), Extends(ac, ac2),
         NEW p, NEW l, HandlerIn(p, l, ev, st, ac)
  PROVE  HandlerIn(p, l, ev2, st2, ac2)
<1>1. CASE p = "idle" /\ l = Idle
  BY <1>1 DEF HandlerIn
<1>2. CASE ~(p = "idle" /\ l = Idle)
  <2>1. p \in Steps \ {"idle"} /\ l \in Locals /\ l.seen <= Len(ev)
    BY <1>2 DEF HandlerIn
  <2>2. l.seen \in 0 .. Len(ev) /\ l.seen <= Len(ev2)
    BY <2>1, LenProperties DEF Locals, Extends
  <2>3. Judged(ev2, l.seen, l.draft) = Judged(ev, l.seen, l.draft)
    BY <2>2, JudgedStable
  <2>4. RecordedAccess(ac, l.who, SetOf[l.draft]) # {}
           => RecordedAccess(ac2, l.who, SetOf[l.draft]) # {}
    BY RecordedStable
  <2> QED
    BY <1>2, <2>1, <2>2, <2>3, <2>4 DEF HandlerIn
<1> QED
  BY <1>1, <1>2

LEMMA AnswerStable ==
  ASSUME NEW ev \in Seq(Records \cup {None}), NEW ev2 \in Seq(Records \cup {None}),
         Extends(ev, ev2),
         NEW st, NEW st2, st \subseteq st2,
         NEW ac \in Seq(Accesses), NEW ac2 \in Seq(Accesses), Extends(ac, ac2),
         NEW a, AnswerIn(a, ev, st, ac)
  PROVE  AnswerIn(a, ev2, st2, ac2)
<1>1. CASE a = None
  BY <1>1 DEF AnswerIn
<1>2. CASE \E rec \in st : a = Created(rec) /\ Logged(ev, rec)
  <2>1. PICK rec \in st : a = Created(rec) /\ Logged(ev, rec)
    BY <1>2
  <2>2. Logged(ev2, rec)
    BY <2>1, LoggedStable
  <2> QED
    BY <2>1, <2>2 DEF AnswerIn
<1>3. CASE \E l \in Locals : /\ a = Shown(l)
                            /\ l.seen <= Len(ev)
                            /\ l.current = Last(Judged(ev, l.seen, l.draft))
                            /\ RecordedAccess(ac, l.who, SetOf[l.draft]) # {}
  <2>1. PICK l \in Locals : /\ a = Shown(l)
                            /\ l.seen <= Len(ev)
                            /\ l.current = Last(Judged(ev, l.seen, l.draft))
                            /\ RecordedAccess(ac, l.who, SetOf[l.draft]) # {}
    BY <1>3
  <2>2. l.seen \in 0 .. Len(ev) /\ l.seen <= Len(ev2)
    BY <2>1, LenProperties DEF Locals, Extends
  <2>3. Judged(ev2, l.seen, l.draft) = Judged(ev, l.seen, l.draft)
    BY <2>2, JudgedStable
  <2>4. RecordedAccess(ac2, l.who, SetOf[l.draft]) # {}
    BY <2>1, RecordedStable
  <2> QED
    BY <2>1, <2>2, <2>3, <2>4 DEF AnswerIn
<1> QED
  BY <1>1, <1>2, <1>3 DEF AnswerIn

(* What a step of one request leaves to show: its stores only grow, its    *)
(* own handler and answer are right again, and so is the log.              *)
LEMMA StepIInv ==
  ASSUME IInv, NEW r \in Requests, NEW p, NEW l, NEW a,
         pc' = [pc EXCEPT ![r] = p], loc' = [loc EXCEPT ![r] = l],
         answer' = [answer EXCEPT ![r] = a],
         StoresOK', Extends(events, events'), stored \subseteq stored',
         Extends(accesses, accesses'),
         p \in Steps, l \in Locals \cup {Idle},
         HandlerIn(p, l, events', stored', accesses'),
         AnswerIn(a, events', stored', accesses'),
         LogOK(events', stored', accesses')
  PROVE  IInv'
<1>1. /\ pc' \in [Requests -> Steps]
      /\ loc' \in [Requests -> Locals \cup {Idle}]
      /\ answer' = [q \in Requests |-> answer'[q]]
  BY DEF IInv
<1>2. ASSUME NEW q \in Requests
      PROVE  /\ HandlerIn(pc'[q], loc'[q], events', stored', accesses')
             /\ AnswerIn(answer'[q], events', stored', accesses')
  <2>1. CASE q = r
    <3>1. pc'[q] = p /\ loc'[q] = l /\ answer'[q] = a
      BY <2>1 DEF IInv
    <3> QED
      BY <3>1
  <2>2. CASE q # r
    <3>1. pc'[q] = pc[q] /\ loc'[q] = loc[q] /\ answer'[q] = answer[q]
      BY <2>2 DEF IInv
    <3>2. /\ HandlerIn(pc[q], loc[q], events, stored, accesses)
          /\ AnswerIn(answer[q], events, stored, accesses)
      BY DEF IInv
    <3>3. /\ events \in Seq(Records \cup {None}) /\ accesses \in Seq(Accesses)
          /\ events' \in Seq(Records \cup {None}) /\ accesses' \in Seq(Accesses)
      BY DEF IInv, StoresOK
    <3> QED
      BY <3>1, <3>2, <3>3, HandlerStable, AnswerStable
  <2> QED
    BY <2>1, <2>2
<1> QED
  BY <1>1, <1>2 DEF IInv
-----------------------------------------------------------------------------
(* The steps. *)

LEMMA InitIInv == Init => IInv
<1> SUFFICES ASSUME Init PROVE IInv
  OBVIOUS
<1>1. StoresOK
  BY ReviewerAssumption, EmptySeq DEF Init, StoresOK
<1>2. /\ pc \in [Requests -> Steps]
      /\ loc \in [Requests -> Locals \cup {Idle}]
      /\ answer = [r \in Requests |-> answer[r]]
  BY DEF Init, Steps
<1>3. \A r \in Requests : /\ HandlerIn(pc[r], loc[r], events, stored, accesses)
                         /\ AnswerIn(answer[r], events, stored, accesses)
  BY DEF Init, HandlerIn, AnswerIn
<1>4. LogOK(events, stored, accesses)
  <2>1. Len(events) = 0 /\ stored = {}
    BY EmptySeq DEF Init
  <2> QED
    BY <2>1 DEF LogOK
<1> QED
  BY <1>1, <1>2, <1>3, <1>4 DEF IInv

(* What every step of a request starts from. *)
LEMMA Start ==
  ASSUME IInv, NEW r \in Requests
  PROVE  /\ events \in Seq(Records \cup {None})
         /\ accesses \in Seq(Accesses)
         /\ Extends(events, events)
         /\ Extends(accesses, accesses)
         /\ HandlerIn(pc[r], loc[r], events, stored, accesses)
         /\ AnswerIn(answer[r], events, stored, accesses)
         /\ LogOK(events, stored, accesses)
         /\ answer = [answer EXCEPT ![r] = answer[r]]
         /\ loc = [loc EXCEPT ![r] = loc[r]]
         /\ pc[r] \in Steps
  BY ExtendsSame DEF IInv, StoresOK

(* A handler that is not idle. *)
LEMMA Busy ==
  ASSUME IInv, NEW r \in Requests, pc[r] # "idle"
  PROVE  /\ loc[r] \in Locals
         /\ loc[r].seen \in 0 .. Len(events)
         /\ loc[r].who \in Reviewers
         /\ loc[r].draft \in Drafts
         /\ loc[r].kind \in {"view", "classify"}
         /\ loc[r].kind = "classify" => loc[r].judgment \in Judgments
<1>1. HandlerIn(pc[r], loc[r], events, stored, accesses)
  BY Start
<1>2. Len(events) \in Nat
  BY Start, LenProperties
<1> QED
  BY <1>1, <1>2 DEF HandlerIn, Locals

LEMMA BeginIInv ==
  ASSUME IInv, NEW r \in Requests, NEW kind \in {"view", "classify"},
         NEW who \in Reviewers, NEW d \in Drafts, NEW j \in Judgments \cup {None},
         Begin(r, kind, who, d, j)
  PROVE  IInv'
<1> DEFINE l == Begun(kind, who, d, j)
           p == IF kind = "classify" THEN "mint" ELSE "load"
<1>1. /\ l \in Locals /\ l.kind = kind /\ l.seen = 0
      /\ kind = "classify" => l.judgment \in Judgments
  <2>1. kind = "classify" => j \in Judgments
    BY DEF Begin
  <2>2. l \in Locals
    BY ReviewerAssumption DEF Locals, Begun
  <2>3. l.kind = kind /\ l.seen = 0 /\ l.judgment = j
    BY DEF Begun
  <2> QED
    BY <2>1, <2>2, <2>3
<1>2. /\ pc' = [pc EXCEPT ![r] = p] /\ loc' = [loc EXCEPT ![r] = l]
      /\ answer' = [answer EXCEPT ![r] = None]
      /\ events' = events /\ stored' = stored /\ accesses' = accesses /\ clock' = clock
  BY DEF Begin, stores
<1> HIDE DEF l
<1>3. HandlerIn(p, l, events, stored, accesses)
  BY <1>1, Start, LenProperties DEF HandlerIn, Steps
<1>4. AnswerIn(None, events, stored, accesses)
  BY DEF AnswerIn
<1>5. StoresOK' /\ p \in Steps
  BY <1>2 DEF IInv, StoresOK, Steps
<1> QED
  BY <1>1, <1>2, <1>3, <1>4, <1>5, Start, StepIInv

LEMMA MintIInv ==
  ASSUME IInv, NEW r \in Requests, Mint(r)
  PROVE  IInv'
<1> DEFINE who == loc[r].who
           set == SetOf[loc[r].draft]
           recorded == RecordedAccess(accesses, who, set)
           i == IF recorded = {} THEN Len(accesses) + 1
                ELSE CHOOSE k \in recorded : TRUE
           e == IF recorded = {} THEN [who |-> who, set |-> set, at |-> clock]
                ELSE accesses[i]
           l == [loc[r] EXCEPT !.access = e, !.place = i]
<1>1. pc[r] = "mint" /\ loc[r] \in Locals /\ who \in Reviewers /\ set \in Sets
  BY Busy, ReviewerAssumption DEF Mint, At
<1>2. i \in Nat /\ e \in Accesses /\ e.who = who /\ e.set = set
  <2>1. CASE recorded = {}
    BY <2>1, <1>1, Start, LenProperties DEF IInv, StoresOK, Accesses
  <2>2. CASE recorded # {}
    <3>1. i \in recorded
      BY <2>2
    <3>2. i \in 1 .. Len(accesses) /\ accesses[i].who = who /\ accesses[i].set = set
      BY <3>1, Start, LenProperties DEF RecordedAccess
    <3>3. accesses[i] \in Accesses
      BY <3>2, Start, ElementOfSeq
    <3> HIDE DEF i, recorded
    <3> QED
      BY <2>2, <3>2, <3>3, Start, LenProperties
  <2> QED
    BY <2>1, <2>2
<1>3. /\ pc' = [pc EXCEPT ![r] = "get"]
      /\ loc' = [loc EXCEPT ![r] = l]
      /\ answer' = answer
      /\ events' = events /\ stored' = stored /\ accesses' = accesses /\ clock' = clock
  BY DEF Mint, Goto, stores
<1> HIDE DEF i, e
<1>4. /\ l \in Locals /\ l.kind = loc[r].kind /\ l.who = loc[r].who
      /\ l.draft = loc[r].draft /\ l.judgment = loc[r].judgment
      /\ l.seen = loc[r].seen /\ l.current = loc[r].current /\ l.access = e
  BY <1>1, <1>2 DEF Locals
<1> HIDE DEF l
<1>5. HandlerIn("get", l, events, stored, accesses)
  BY <1>1, <1>2, <1>4, Start DEF HandlerIn, Steps
<1>6. StoresOK' /\ "get" \in Steps
  BY <1>3 DEF IInv, StoresOK, Steps
<1> QED
  BY <1>3, <1>4, <1>5, <1>6, Start, StepIInv
LEMMA GetIInv ==
  ASSUME IInv, NEW r \in Requests, Get(r)
  PROVE  IInv'
<1> DEFINE e == loc[r].access
           fresh == /\ RecordedAccess(accesses, e.who, e.set) = {}
                    /\ loc[r].place = Len(accesses) + 1
           replay == loc[r].place \in DOMAIN accesses /\ accesses[loc[r].place] = e
<1>1. pc[r] = "get"
  BY DEF Get, At
<1>2. /\ e \in Accesses /\ e.who = loc[r].who /\ e.set = SetOf[loc[r].draft]
      /\ HandlerIn("get", loc[r], events, stored, accesses)
  BY <1>1, Start DEF HandlerIn
<1>3. /\ accesses' = IF fresh THEN Append(accesses, e) ELSE accesses
      /\ events' = events /\ stored' = stored /\ clock' = clock
  BY DEF Get
<1>4. /\ accesses' \in Seq(Accesses) /\ Extends(accesses, accesses')
      /\ fresh => accesses'[Len(accesses) + 1] = e /\ Len(accesses') = Len(accesses) + 1
  <2> HIDE DEF fresh, e
  <2> QED
    BY <1>2, <1>3, Start, ExtendsAppend
<1>5. StoresOK'
  BY <1>3, <1>4 DEF IInv, StoresOK
<1>6. /\ HandlerIn("get", loc[r], events', stored', accesses')
      /\ AnswerIn(answer[r], events', stored', accesses')
  <2> HIDE DEF fresh, e
  <2> QED
    BY <1>2, <1>3, <1>4, Start, HandlerStable, AnswerStable
<1>7. LogOK(events', stored', accesses')
  <2>1. ASSUME NEW x \in stored
        PROVE  RecordedAccess(accesses', x.who, SetOf[x.draft]) # {}
    BY <1>4, Start, RecordedStable DEF LogOK
  <2> HIDE DEF fresh, e
  <2> QED
    BY <2>1, <1>3, Start DEF LogOK
<1>8. CASE (fresh \/ replay) /\ HaveDraftSet(r)
  <2>1. RecordedAccess(accesses', loc[r].who, SetOf[loc[r].draft]) # {}
    <3>1. \E i \in DOMAIN accesses' : accesses'[i] = e
      <4>1. CASE fresh
        <5>1. Len(accesses) + 1 \in DOMAIN accesses'
          BY <4>1, <1>4, Start, LenProperties
        <5> QED
          BY <4>1, <5>1, <1>4
      <4>2. CASE ~fresh /\ replay
        BY <4>2, <1>3
      <4> QED
        BY <4>1, <4>2, <1>8
    <3> QED
      BY <3>1, <1>2 DEF RecordedAccess
  <2>2. CASE loc[r].kind = "view"
    <3>1. /\ pc' = [pc EXCEPT ![r] = "idle"] /\ loc' = [loc EXCEPT ![r] = Idle]
          /\ answer' = [answer EXCEPT ![r] = Shown(loc[r])]
      BY <1>8, <2>2 DEF HaveDraftSet, Reply
    <3>2. HandlerIn("idle", Idle, events', stored', accesses') /\ "idle" \in Steps
      BY DEF HandlerIn, Steps
    <3>3. /\ loc[r] \in Locals /\ loc[r].seen <= Len(events')
          /\ loc[r].current = Last(Judged(events', loc[r].seen, loc[r].draft))
      BY <1>6, <2>2 DEF HandlerIn
    <3>4. AnswerIn(Shown(loc[r]), events', stored', accesses')
      BY <3>3, <2>1 DEF AnswerIn
    <3> HIDE DEF fresh, e, replay
    <3> QED
      BY <3>1, <3>2, <3>4, <1>3, <1>4, <1>5, <1>7, Start, StepIInv
  <2>3. CASE loc[r].kind # "view"
    <3>1. /\ pc' = [pc EXCEPT ![r] = "load"] /\ loc' = loc /\ answer' = answer
      BY <1>8, <2>3 DEF HaveDraftSet, Goto
    <3>2. HandlerIn("load", loc[r], events', stored', accesses') /\ "load" \in Steps
      BY <1>6, <2>1, <2>3 DEF HandlerIn, Steps
    <3>3. loc[r] \in Locals
      BY <1>1, Busy
    <3> HIDE DEF fresh, e, replay
    <3> QED
      BY <3>1, <3>2, <3>3, <1>3, <1>4, <1>5, <1>6, <1>7, Start, StepIInv
  <2> QED
    BY <2>2, <2>3
<1>9. CASE Reply(r, Refused)
  <2>1. /\ pc' = [pc EXCEPT ![r] = "idle"] /\ loc' = [loc EXCEPT ![r] = Idle]
        /\ answer' = [answer EXCEPT ![r] = None]
    BY <1>9 DEF Reply, Refused
  <2>2. /\ HandlerIn("idle", Idle, events', stored', accesses') /\ "idle" \in Steps
        /\ AnswerIn(None, events', stored', accesses')
    BY DEF HandlerIn, AnswerIn, Steps
  <2> HIDE DEF fresh, e, replay
  <2> QED
    BY <2>1, <2>2, <1>3, <1>4, <1>5, <1>7, Start, StepIInv
<1> QED
  BY <1>8, <1>9 DEF Get

(* A handler that ends with nothing to claim and no store changed. *)
LEMMA RefuseIInv ==
  ASSUME IInv, NEW r \in Requests, NEW a, a \in {None, answer[r]},
         pc' = [pc EXCEPT ![r] = "idle"], loc' = [loc EXCEPT ![r] = Idle],
         answer' = [answer EXCEPT ![r] = a], UNCHANGED stores
  PROVE  IInv'
<1>1. events' = events /\ stored' = stored /\ accesses' = accesses /\ clock' = clock
  BY DEF stores
<1>2. HandlerIn("idle", Idle, events, stored, accesses) /\ "idle" \in Steps
  BY DEF HandlerIn, Steps
<1>4. AnswerIn(a, events, stored, accesses)
  <2>1. AnswerIn(None, events, stored, accesses)
    BY DEF AnswerIn
  <2> QED
    BY <2>1, Start
<1>3. StoresOK'
  BY <1>1 DEF IInv, StoresOK
<1> QED
  BY <1>1, <1>2, <1>4, <1>3, Start, StepIInv

LEMMA LoadIInv ==
  ASSUME IInv, NEW r \in Requests, Load(r)
  PROVE  IInv'
<1> DEFINE l == [loc[r] EXCEPT !.seen = Len(events)]
<1>1. /\ pc[r] = "load" /\ loc[r] \in Locals
      /\ Len(events) \in 0 .. MaxEvents
      /\ loc[r].kind = "classify" => Len(events) < MaxEvents
      /\ pc' = [pc EXCEPT ![r] = "list"]
      /\ loc' = [loc EXCEPT ![r] = l]
      /\ answer' = answer
      /\ events' = events /\ stored' = stored /\ accesses' = accesses /\ clock' = clock
  BY Busy, Start, LenProperties, ReviewerAssumption
     DEF Load, At, Goto, stores, IInv, StoresOK
<1>2. /\ l \in Locals /\ l.kind = loc[r].kind /\ l.who = loc[r].who
      /\ l.draft = loc[r].draft /\ l.judgment = loc[r].judgment
      /\ l.seen = Len(events)
  BY <1>1 DEF Locals
<1> HIDE DEF l
<1>3. HandlerIn("list", l, events, stored, accesses)
  <2>1. HandlerIn("load", loc[r], events, stored, accesses)
    BY <1>1, Start
  <2>2. /\ l.kind = "classify" => l.judgment \in Judgments
        /\ l.kind = "classify" => RecordedAccess(accesses, l.who, SetOf[l.draft]) # {}
    BY <1>2, <2>1 DEF HandlerIn
  <2>3. l.seen <= Len(events) /\ (l.kind = "classify" => l.seen < MaxEvents)
    BY <1>1, <1>2
  <2> QED
    BY <1>2, <2>2, <2>3 DEF HandlerIn, Steps
<1>4. StoresOK' /\ "list" \in Steps
  BY <1>1 DEF IInv, StoresOK, Steps
<1> QED
  BY <1>1, <1>2, <1>3, <1>4, Start, StepIInv
(* Every event of a loaded log has its record among the listed ones, so    *)
(* what is worked out to be in force is the draft's last event.            *)
LEMMA CurrentIsLast ==
  ASSUME IInv, NEW n \in 0 .. Len(events), NEW d
  PROVE  /\ CurrentClassification(n, d) = Last(Judged(events, n, d))
         /\ CurrentClassification(n, d) \in 0 .. MaxEvents
<1>1. Len(events) \in Nat /\ Len(events) <= MaxEvents
  BY LenProperties DEF IInv, StoresOK
<1>2. ASSUME NEW i \in Judged(events, n, d)
      PROVE  events[i] \in stored
  <2>1. i \in 1 .. Len(events) /\ events[i] # None
    BY <1>1 DEF Judged
  <2> QED
    BY <2>1 DEF IInv, LogOK
<1>3. {i \in Judged(events, n, d) : events[i] \in stored} = Judged(events, n, d)
  BY <1>2
<1>4. CurrentClassification(n, d) = Last(Judged(events, n, d))
  BY <1>3 DEF CurrentClassification
<1>5. Judged(events, n, d) \in SUBSET (1 .. n) /\ n \in Nat
  BY <1>1 DEF Judged
<1>6. Last(Judged(events, n, d)) \in 0 .. n
  BY <1>5, LastIn
<1> QED
  BY <1>1, <1>4, <1>6, ReviewerAssumption

LEMMA ListIInv ==
  ASSUME IInv, NEW r \in Requests, List(r)
  PROVE  IInv'
<1> DEFINE current == CurrentClassification(loc[r].seen, loc[r].draft)
           rec == [who |-> loc[r].who, draft |-> loc[r].draft,
                   judgment |-> loc[r].judgment, at |-> clock, prior |-> current]
<1>1. /\ pc[r] = "list" /\ loc[r] \in Locals /\ loc[r].seen \in 0 .. Len(events)
      /\ loc[r].who \in Reviewers /\ loc[r].draft \in Drafts
      /\ loc[r].kind \in {"view", "classify"}
      /\ loc[r].kind = "classify" => loc[r].judgment \in Judgments
      /\ clock \in 0 .. MaxClock
  BY Busy DEF List, At, IInv, StoresOK
<1>2. /\ current = Last(Judged(events, loc[r].seen, loc[r].draft))
      /\ current \in 0 .. MaxEvents
  BY <1>1, CurrentIsLast
<1>3. HandlerIn("list", loc[r], events, stored, accesses)
  BY <1>1, Start
<1>4. UNCHANGED stores
  BY DEF List
<1>5. /\ events' = events /\ stored' = stored /\ accesses' = accesses /\ clock' = clock
      /\ StoresOK'
  BY <1>4 DEF stores, IInv, StoresOK
<1>6. CASE loc[r].kind = "view"
  <2> DEFINE l == [loc[r] EXCEPT !.current = current]
  <2>1. /\ loc' = [loc EXCEPT ![r] = l] /\ pc' = [pc EXCEPT ![r] = "mint"]
        /\ answer' = answer
    BY <1>6 DEF List, Goto
  <2> HIDE DEF current
  <2>2. /\ l \in Locals /\ l.kind = "view" /\ l.draft = loc[r].draft
        /\ l.seen = loc[r].seen /\ l.current = current
    BY <1>1, <1>2, <1>6 DEF Locals
  <2> HIDE DEF l
  <2>3. HandlerIn("mint", l, events, stored, accesses) /\ "mint" \in Steps
    BY <1>1, <1>2, <2>2 DEF HandlerIn, Steps
  <2> QED
    BY <1>5, <2>1, <2>2, <2>3, Start, StepIInv
<1>7. CASE loc[r].kind = "classify" /\ Reply(r, Refused)
  BY <1>4, <1>7, RefuseIInv DEF Reply, Refused
<1>8. CASE /\ loc[r].kind = "classify"
           /\ loc' = [loc EXCEPT ![r].current = current, ![r].record = rec]
           /\ Goto(r, "record")
  <2> DEFINE l == [loc[r] EXCEPT !.current = current, !.record = rec]
  <2>1. /\ loc' = [loc EXCEPT ![r] = l] /\ pc' = [pc EXCEPT ![r] = "record"]
        /\ answer' = answer
    BY <1>8 DEF Goto
  <2> HIDE DEF current
  <2>2. /\ rec \in Records /\ rec.who = loc[r].who /\ rec.draft = loc[r].draft
        /\ rec.prior = current
    BY <1>1, <1>2, <1>8 DEF Records
  <2> HIDE DEF rec
  <2>3. /\ l \in Locals /\ l.kind = "classify" /\ l.draft = loc[r].draft
        /\ l.who = loc[r].who /\ l.judgment = loc[r].judgment
        /\ l.seen = loc[r].seen /\ l.record = rec
    BY <1>1, <1>2, <1>8, <2>2 DEF Locals
  <2> HIDE DEF l
  <2>4. /\ RecordedAccess(accesses, l.who, SetOf[l.draft]) # {}
        /\ l.seen < MaxEvents /\ l.seen <= Len(events) /\ l.judgment \in Judgments
    BY <1>3, <1>8, <2>3 DEF HandlerIn
  <2>5. /\ l.record \in Records /\ l.record.who = l.who /\ l.record.draft = l.draft
        /\ l.record.prior = Last(Judged(events, l.seen, l.draft))
    BY <1>2, <2>2, <2>3
  <2>6. HandlerIn("record", l, events, stored, accesses) /\ "record" \in Steps
    BY <2>3, <2>4, <2>5 DEF HandlerIn, Steps
  <2> QED
    BY <1>5, <2>1, <2>3, <2>6, Start, StepIInv
<1> QED
  BY <1>1, <1>6, <1>7, <1>8 DEF List

LEMMA RecordIInv ==
  ASSUME IInv, NEW r \in Requests, Record(r)
  PROVE  IInv'
<1>1. /\ pc[r] = "record" /\ loc[r] \in Locals
      /\ pc' = [pc EXCEPT ![r] = "append"] /\ loc' = loc /\ answer' = answer
      /\ events' = events /\ accesses' = accesses /\ clock' = clock
      /\ stored' = stored \cup {loc[r].record}
  BY Busy DEF Record, At, Goto
<1>2. HandlerIn("record", loc[r], events, stored, accesses)
  BY <1>1, Start
<1>3. /\ loc[r].kind = "classify" /\ loc[r].record \in Records
      /\ loc[r].record.who = loc[r].who /\ loc[r].record.draft = loc[r].draft
      /\ RecordedAccess(accesses, loc[r].who, SetOf[loc[r].draft]) # {}
  BY <1>1, <1>2 DEF HandlerIn, Locals
<1>4. StoresOK' /\ "append" \in Steps
  BY <1>1, <1>3 DEF IInv, StoresOK, Steps
<1>5. HandlerIn("append", loc[r], events', stored', accesses')
  BY <1>1, <1>2, <1>3 DEF HandlerIn, Steps
<1>6. AnswerIn(answer[r], events', stored', accesses')
  <2>1. stored \subseteq stored'
    BY <1>1
  <2>2. AnswerIn(answer[r], events, stored', accesses)
    BY <2>1, Start, AnswerStable
  <2> QED
    BY <1>1, <2>2
<1>7. LogOK(events', stored', accesses')
  BY <1>1, <1>3, Start DEF LogOK
<1> QED
  BY <1>1, <1>4, <1>5, <1>6, <1>7, Start, StepIInv

(* Appending an event to the log keeps the line when the event supersedes  *)
(* the last judgment of its draft.                                         *)
LEMMA LogGrows ==
  ASSUME IInv, NEW x \in Records \cup {None},
         x # None => /\ x \in stored
                     /\ x.prior = Last(Judged(events, Len(events), x.draft))
  PROVE  LogOK(Append(events, x), stored, accesses)
<1> DEFINE ev == Append(events, x)
<1>1. /\ events \in Seq(Records \cup {None}) /\ Len(events) \in Nat
      /\ LogOK(events, stored, accesses)
  BY LenProperties DEF IInv, StoresOK
<1>2. /\ ev \in Seq(Records \cup {None}) /\ Len(ev) = Len(events) + 1
      /\ ev[Len(events) + 1] = x /\ Extends(events, ev)
  BY <1>1, ExtendsAppend
<1> HIDE DEF ev
<1>3. ASSUME NEW i \in 1 .. Len(ev), ev[i] # None
      PROVE  ev[i] \in stored /\ ev[i].prior = Last(Judged(ev, i - 1, ev[i].draft))
  <2>1. i - 1 \in 0 .. Len(events)
    BY <1>1, <1>2
  <2>2. Judged(ev, i - 1, ev[i].draft) = Judged(events, i - 1, ev[i].draft)
    BY <1>1, <1>2, <2>1, JudgedStable
  <2>3. CASE i = Len(events) + 1
    <3>1. ev[i] = x /\ i - 1 = Len(events)
      BY <1>1, <1>2, <2>3
    <3> QED
      BY <1>3, <2>2, <3>1
  <2>4. CASE i # Len(events) + 1
    <3>1. i \in 1 .. Len(events)
      BY <1>1, <1>2, <2>4
    <3>2. ev[i] = events[i]
      BY <3>1, <1>2 DEF Extends
    <3> QED
      BY <1>1, <1>3, <2>2, <3>1, <3>2 DEF LogOK
  <2> QED
    BY <2>3, <2>4
<1>4. LogOK(ev, stored, accesses)
  BY <1>1, <1>3 DEF LogOK
<1> QED
  BY <1>4 DEF ev

LEMMA AppendEventIInv ==
  ASSUME IInv, NEW r \in Requests, AppendEvent(r)
  PROVE  IInv'
<1> DEFINE rec == loc[r].record
           place == loc[r].seen + 1
<1>1. /\ pc[r] = "append" /\ loc[r] \in Locals /\ loc[r].seen \in 0 .. Len(events)
      /\ stored' = stored /\ accesses' = accesses /\ clock' = clock
      /\ Len(events) \in Nat
  BY Busy, Start, LenProperties DEF AppendEvent, At
<1>2. HandlerIn("append", loc[r], events, stored, accesses)
  BY <1>1, Start
<1>3. /\ rec \in Records /\ rec \in stored /\ rec.draft = loc[r].draft
      /\ rec.prior = Last(Judged(events, loc[r].seen, loc[r].draft))
      /\ loc[r].seen < MaxEvents
  BY <1>1, <1>2 DEF HandlerIn, Locals
<1>4. HandlerIn("idle", Idle, events', stored', accesses') /\ "idle" \in Steps
  BY DEF HandlerIn, Steps
<1>5. CASE LoggedAt(rec, place) /\ UNCHANGED events /\ Reply(r, Created(rec))
  <2>1. Logged(events, rec)
    BY <1>5 DEF LoggedAt, Logged
  <2>2. AnswerIn(Created(rec), events, stored, accesses)
    BY <2>1, <1>3 DEF AnswerIn
  <2>3. StoresOK'
    BY <1>1, <1>5 DEF IInv, StoresOK
  <2>4. /\ pc' = [pc EXCEPT ![r] = "idle"] /\ loc' = [loc EXCEPT ![r] = Idle]
        /\ answer' = [answer EXCEPT ![r] = Created(rec)]
    BY <1>5 DEF Reply
  <2> HIDE DEF rec
  <2> QED
    BY <1>1, <1>4, <1>5, <2>2, <2>3, <2>4, Start, StepIInv
<1>6. CASE /\ ~Logged(events, rec) /\ place = Len(events) + 1
           /\ events' = Append(events, rec) /\ Reply(r, Created(rec))
  <2>1. loc[r].seen = Len(events)
    BY <1>1, <1>6
  <2>2. LogOK(events', stored, accesses)
    BY <1>3, <1>6, <2>1, LogGrows
  <2>3. /\ events' \in Seq(Records \cup {None}) /\ Len(events') = Len(events) + 1
        /\ events'[Len(events) + 1] = rec /\ Extends(events, events')
    BY <1>3, <1>6, Start, ExtendsAppend
  <2>4. StoresOK'
    BY <1>1, <1>3, <2>1, <2>3, ReviewerAssumption DEF IInv, StoresOK
  <2>5. Logged(events', rec)
    <3>1. Len(events) + 1 \in DOMAIN events'
      BY <1>1, <2>3, LenProperties
    <3> QED
      BY <3>1, <2>3 DEF Logged
  <2>6. AnswerIn(Created(rec), events', stored, accesses)
    BY <2>5, <1>3 DEF AnswerIn
  <2>7. /\ pc' = [pc EXCEPT ![r] = "idle"] /\ loc' = [loc EXCEPT ![r] = Idle]
        /\ answer' = [answer EXCEPT ![r] = Created(rec)]
    BY <1>6 DEF Reply
  <2> HIDE DEF rec
  <2> QED
    BY <1>1, <1>4, <2>2, <2>3, <2>4, <2>6, <2>7, Start, StepIInv
<1>7. CASE UNCHANGED events /\ Reply(r, Refused)
  <2>1. UNCHANGED stores
    BY <1>1, <1>7 DEF stores
  <2> QED
    BY <1>7, <2>1, RefuseIInv DEF Reply, Refused
<1> QED
  BY <1>5, <1>6, <1>7 DEF AppendEvent
(* The steps that are no request's: another event, a tick, a stutter. *)
LEMMA OthersIInv ==
  ASSUME IInv, UNCHANGED <<pc, loc, answer, stored, accesses>>,
         StoresOK', Extends(events, events'), LogOK(events', stored, accesses)
  PROVE  IInv'
<1>1. /\ events \in Seq(Records \cup {None}) /\ events' \in Seq(Records \cup {None})
      /\ accesses \in Seq(Accesses) /\ Extends(accesses, accesses)
  BY ExtendsSame DEF IInv, StoresOK
<1>2. ASSUME NEW q \in Requests
      PROVE  /\ HandlerIn(pc[q], loc[q], events', stored, accesses)
             /\ AnswerIn(answer[q], events', stored, accesses)
  <2>1. /\ HandlerIn(pc[q], loc[q], events, stored, accesses)
        /\ AnswerIn(answer[q], events, stored, accesses)
    BY DEF IInv
  <2>2. stored \subseteq stored
    OBVIOUS
  <2>3. HandlerIn(pc[q], loc[q], events', stored, accesses)
    BY <1>1, <2>1, <2>2, HandlerStable
  <2>4. AnswerIn(answer[q], events', stored, accesses)
    BY <1>1, <2>1, <2>2, AnswerStable
  <2> QED
    BY <2>3, <2>4
<1> QED
  BY <1>2 DEF IInv

LEMMA OtherEventIInv == IInv /\ OtherEvent => IInv'
<1> SUFFICES ASSUME IInv, OtherEvent PROVE IInv'
  OBVIOUS
<1>1. /\ events \in Seq(Records \cup {None}) /\ None \in Records \cup {None}
      /\ events' = Append(events, None) /\ Len(events) < MaxEvents
      /\ UNCHANGED <<pc, loc, answer, stored, accesses>> /\ clock' = clock
  BY DEF IInv, StoresOK, OtherEvent
<1>2. /\ events' \in Seq(Records \cup {None}) /\ Len(events') = Len(events) + 1
      /\ Extends(events, events')
  BY <1>1, ExtendsAppend
<1>3. LogOK(events', stored, accesses)
  BY <1>1, LogGrows
<1>4. StoresOK'
  BY <1>1, <1>2, LenProperties, ReviewerAssumption DEF IInv, StoresOK
<1> QED
  BY <1>1, <1>2, <1>3, <1>4, OthersIInv

LEMMA TickIInv == IInv /\ Tick => IInv'
<1> SUFFICES ASSUME IInv, Tick PROVE IInv'
  OBVIOUS
<1>1. /\ UNCHANGED <<pc, loc, answer, stored, accesses>> /\ events' = events
      /\ clock' = clock + 1 /\ clock < MaxClock
  BY DEF Tick
<1>2. StoresOK'
  BY <1>1, ReviewerAssumption DEF IInv, StoresOK
<1>3. Extends(events, events') /\ LogOK(events', stored, accesses)
  BY <1>1, ExtendsSame DEF IInv, StoresOK
<1> QED
  BY <1>1, <1>2, <1>3, OthersIInv

LEMMA NextIInv == IInv /\ [Next]_vars => IInv'
<1> SUFFICES ASSUME IInv, [Next]_vars PROVE IInv'
  OBVIOUS
<1>1. ASSUME NEW r \in Requests, NEW kind \in {"view", "classify"},
             NEW who \in Reviewers, NEW d \in Drafts, NEW j \in Judgments \cup {None},
             Begin(r, kind, who, d, j)
      PROVE  IInv'
  BY <1>1, BeginIInv
<1>2. ASSUME NEW r \in Requests,
             Mint(r) \/ Get(r) \/ Load(r) \/ List(r) \/ Record(r) \/ AppendEvent(r)
      PROVE  IInv'
  BY <1>2, MintIInv, GetIInv, LoadIInv, ListIInv, RecordIInv, AppendEventIInv
<1>3. ASSUME NEW r \in Requests, Crash(r) PROVE IInv'
  <2>1. /\ pc' = [pc EXCEPT ![r] = "idle"] /\ loc' = [loc EXCEPT ![r] = Idle]
        /\ answer' = answer /\ UNCHANGED stores
    BY <1>3 DEF Crash
  <2>2. answer' = [answer EXCEPT ![r] = answer[r]]
    BY <2>1, Start
  <2> QED
    BY <2>1, <2>2, RefuseIInv
<1>4. CASE OtherEvent
  BY <1>4, OtherEventIInv
<1>5. CASE Tick
  BY <1>5, TickIInv
<1>6. CASE UNCHANGED vars
  BY <1>6 DEF vars, IInv, StoresOK
<1> QED
  BY <1>1, <1>2, <1>3, <1>4, <1>5, <1>6 DEF Next

LEMMA SpecIInv == Spec => []IInv
  BY InitIInv, NextIInv, PTL DEF Spec

-----------------------------------------------------------------------------
(* The theorems. *)

(* Every store and every handler keeps its type, and no handler has loaded *)
(* more of the review log than there is.                                   *)
THEOREM ReviewerTypeOK == Spec => []TypeOK
<1>1. IInv => TypeOK
  <2> SUFFICES ASSUME IInv PROVE TypeOK
    OBVIOUS
  <2>1. ASSUME NEW r \in Requests PROVE loc[r].seen <= Len(events)
    <3>1. HandlerIn(pc[r], loc[r], events, stored, accesses) /\ Len(events) \in Nat
      BY Start, LenProperties
    <3>2. Idle.seen = 0
      BY DEF Idle, Begun
    <3> QED
      BY <3>1, <3>2 DEF HandlerIn
  <2> QED
    BY <2>1 DEF IInv, StoresOK, TypeOK
<1> QED
  BY <1>1, SpecIInv, PTL

(* The logged judgments of every draft form one line, each superseding the *)
(* one before it, although append itself checks only a number and a key.   *)
THEOREM ReviewerJudgmentsFormALine == Spec => []JudgmentsFormALine
<1>1. IInv => JudgmentsFormALine
  <2> SUFFICES ASSUME IInv PROVE JudgmentsFormALine
    OBVIOUS
  <2>1. DOMAIN events = 1 .. Len(events)
    BY LenProperties DEF IInv, StoresOK
  <2> QED
    BY <2>1 DEF IInv, LogOK, JudgmentsFormALine
<1> QED
  BY <1>1, SpecIInv, PTL

(* What GET drafts shows was in force in the log it loaded. *)
THEOREM ReviewerShownWasInForce == Spec => []ShownWasInForce
<1>1. IInv => ShownWasInForce
  <2> SUFFICES ASSUME IInv, NEW r \in Requests,
                      answer[r] # None, answer[r].code = "shown"
               PROVE  answer[r].current
                         = Last(Judged(events, answer[r].seen, answer[r].draft))
    BY DEF ShownWasInForce
  <2>1. AnswerIn(answer[r], events, stored, accesses)
    BY Start
  <2>2. \A rec : Created(rec).code = "created"
    BY DEF Created
  <2>3. PICK l \in Locals :
           /\ answer[r] = Shown(l)
           /\ l.current = Last(Judged(events, l.seen, l.draft))
    BY <2>1, <2>2 DEF AnswerIn
  <2> QED
    BY <2>3 DEF Shown
<1> QED
  BY <1>1, SpecIInv, PTL

(* A judgment whose POST was answered 201 is logged and stored. *)
THEOREM ReviewerCreatedIsLogged == Spec => []CreatedIsLogged
<1>1. IInv => CreatedIsLogged
  <2> SUFFICES ASSUME IInv, NEW r \in Requests,
                      answer[r] # None, answer[r].code = "created"
               PROVE  Logged(events, answer[r].record) /\ answer[r].record \in stored
    BY DEF CreatedIsLogged
  <2>1. AnswerIn(answer[r], events, stored, accesses)
    BY Start
  <2>2. \A l : Shown(l).code = "shown"
    BY DEF Shown
  <2>3. PICK rec \in stored : answer[r] = Created(rec) /\ Logged(events, rec)
    BY <2>1, <2>2 DEF AnswerIn
  <2> QED
    BY <2>3 DEF Created
<1> QED
  BY <1>1, SpecIInv, PTL

(* Whoever judged or was shown a draft is logged as having read its set. *)
THEOREM ReviewerReadBeforeJudged == Spec => []ReadBeforeJudged
<1>1. IInv => ReadBeforeJudged
  <2> SUFFICES ASSUME IInv PROVE ReadBeforeJudged
    OBVIOUS
  <2>1. \A x \in stored : RecordedAccess(accesses, x.who, SetOf[x.draft]) # {}
    BY DEF IInv, LogOK
  <2>2. ASSUME NEW r \in Requests, answer[r] # None, answer[r].code = "shown"
        PROVE  RecordedAccess(accesses, answer[r].who, SetOf[answer[r].draft]) # {}
    <3>1. AnswerIn(answer[r], events, stored, accesses)
      BY Start
    <3>2. \A rec : Created(rec).code = "created"
      BY DEF Created
    <3>3. PICK l \in Locals :
             /\ answer[r] = Shown(l)
             /\ RecordedAccess(accesses, l.who, SetOf[l.draft]) # {}
      BY <2>2, <3>1, <3>2 DEF AnswerIn
    <3> QED
      BY <3>3 DEF Shown
  <2> QED
    BY <2>1, <2>2 DEF ReadBeforeJudged
<1> QED
  BY <1>1, SpecIInv, PTL
=============================================================================
