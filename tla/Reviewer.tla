------------------------------ MODULE Reviewer ------------------------------
(***************************************************************************)
(* Expert judgments of one review: the two routes of routes/reviewer.ts    *)
(* that read drafts and classify them, over the review event log, the      *)
(* classification records and the evidence lifecycle log.                  *)
(*                                                                         *)
(* POST classifications reads the draft set (which logs an access), loads  *)
(* the review log, lists the stored records, works out which judgment is   *)
(* in force, stores a new record that supersedes it and appends the event  *)
(* that puts it in force.  GET drafts loads, lists, works out the same,    *)
(* and reads the draft sets last.  Each await is a step.                   *)
(*                                                                         *)
(* An id is a hash of the content: a record is its own id, and an event's  *)
(* id is its place in the log.  A draft id hashes the attempt, so a draft  *)
(* is in one draft set, and draftKey is the draft.  Refusals before the    *)
(* first read (session, grant, body, unknown draft) change nothing and are *)
(* left out.  GET is modelled for one draft: others are read the same way. *)
(***************************************************************************)
EXTENDS Integers, Sequences, FiniteSets

CONSTANTS
  Requests,      \* requests the host serves at one time
  Reviewers,     \* accounts with a reviewer grant on the review
  Drafts,        \* drafts of the review's normalized draft sets
  Sets,          \* the draft sets
  SetOf,         \* the draft set of each draft
  Judgments,     \* what a reviewer may choose
  Unsupported,   \* choices that a rule on judgments refuses
  MaxEvents,     \* bound on the length of the review log
  MaxClock,      \* bound on the seconds that pass
  None           \* no value

ASSUME ReviewerAssumption ==
  /\ SetOf \in [Drafts -> Sets]
  /\ MaxEvents \in Nat
  /\ MaxClock \in Nat

VARIABLES
  events,        \* the review log: the record of a classification, else None
  stored,        \* finding_classification_record
  accesses,      \* the lifecycle log: who read which draft set, and when
  clock,         \* the current second
  pc,            \* per request: its next step
  loc,           \* per request: the handler's locals
  answer         \* per request: the last answer

stores == <<events, stored, accesses, clock>>
vars == <<events, stored, accesses, clock, pc, loc, answer>>

-----------------------------------------------------------------------------
(* A judgment of a draft; `prior' is the event it supersedes, 0 for none.  *)
Records ==
  [who : Reviewers, draft : Drafts, judgment : Judgments, at : 0 .. MaxClock,
   prior : 0 .. MaxEvents]

ASSUME NoneAssumption == None \notin Records

Accesses == [who : Reviewers, set : Sets, at : 0 .. MaxClock]

(* A handler's locals: the request, the access event with its number, how  *)
(* much of the review log it loaded, the judgment in force, its record.    *)
Begun(kind, who, d, j) ==
  [kind |-> kind, who |-> who, draft |-> d, judgment |-> j,
   access |-> None, place |-> 0, seen |-> 0, current |-> 0, record |-> None]

Idle == Begun(None, None, None, None)

Locals ==
  [kind : {"view", "classify"}, who : Reviewers, draft : Drafts,
   judgment : Judgments \cup {None}, access : Accesses \cup {None}, place : Nat,
   seen : 0 .. MaxEvents, current : 0 .. MaxEvents,
   record : Records \cup {None}]

Steps == {"idle", "mint", "get", "load", "list", "record", "append"}

At(r, step) == pc[r] = step

Goto(r, step) == pc' = [pc EXCEPT ![r] = step] /\ UNCHANGED answer

(* The handler ends with an answer. *)
Reply(r, a) ==
  /\ pc' = [pc EXCEPT ![r] = "idle"]
  /\ loc' = [loc EXCEPT ![r] = Idle]
  /\ answer' = [answer EXCEPT ![r] = a]

(* 403, 409, 422 and 503 claim nothing, and are not told apart. *)
Refused == None
Created(rec) == [code |-> "created", record |-> rec]
Shown(l) == [code |-> "shown", who |-> l.who, draft |-> l.draft,
             seen |-> l.seen, current |-> l.current]

(* Classifications of a draft among the first n events of a log. *)
Judged(l, n, d) == {i \in 1 .. n : l[i] # None /\ l[i].draft = d}

Last(S) == IF S = {} THEN 0 ELSE CHOOSE i \in S : \A j \in S : j <= i

(* currentClassifications: the last event of the loaded log whose record   *)
(* is among the listed ones and is of this draft.                          *)
CurrentClassification(n, d) ==
  Last({i \in Judged(events, n, d) : events[i] \in stored})

-----------------------------------------------------------------------------
Init ==
  /\ events = <<>>
  /\ stored = {}
  /\ accesses = <<>>
  /\ clock = 0
  /\ pc = [r \in Requests |-> "idle"]
  /\ loc = [r \in Requests |-> Idle]
  /\ answer = [r \in Requests |-> None]

(* A request passes the reviewer gate.  POST reads the draft set first,    *)
(* GET the review log.                                                     *)
Begin(r, kind, who, d, j) ==
  /\ At(r, "idle")
  /\ kind = "view" <=> j = None
  /\ loc' = [loc EXCEPT ![r] = Begun(kind, who, d, j)]
  /\ pc' = [pc EXCEPT ![r] = IF kind = "classify" THEN "mint" ELSE "load"]
  /\ answer' = [answer EXCEPT ![r] = None]
  /\ UNCHANGED stores

(* requireEvidenceAccess: a repeated read rebuilds the recorded event, a   *)
(* first one gets the next number and the current second.                  *)
RecordedAccess(l, who, s) == {i \in DOMAIN l : l[i].who = who /\ l[i].set = s}

Mint(r) ==
  LET who == loc[r].who
      set == SetOf[loc[r].draft]
      recorded == RecordedAccess(accesses, who, set)
      i == IF recorded = {} THEN Len(accesses) + 1
           ELSE CHOOSE k \in recorded : TRUE
      e == IF recorded = {} THEN [who |-> who, set |-> set, at |-> clock]
           ELSE accesses[i]
  IN
  /\ At(r, "mint")
  /\ loc' = [loc EXCEPT ![r].access = e, ![r].place = i]
  /\ Goto(r, "get")
  /\ UNCHANGED stores

(* What a read is for: GET answers with it, POST goes on. *)
HaveDraftSet(r) ==
  IF loc[r].kind = "view"
  THEN Reply(r, Shown(loc[r]))
  ELSE Goto(r, "load") /\ UNCHANGED loc

(* Mutant of Get: bytes are returned although the access was not logged. *)
GetUnlogged(r) ==
  /\ At(r, "get")
  /\ accesses' = IF loc[r].place = Len(accesses) + 1
                 THEN Append(accesses, loc[r].access) ELSE accesses
  /\ HaveDraftSet(r)
  /\ UNCHANGED <<events, stored, clock>>

(* ArtifactStore.get: no bytes unless the access event is in the log, as   *)
(* a new event or as the recorded one.  The object may also be gone, which *)
(* is found out after the access is logged.                                *)
Get(r) ==
  LET e == loc[r].access
      i == loc[r].place
      fresh == /\ RecordedAccess(accesses, e.who, e.set) = {}
               /\ i = Len(accesses) + 1
      replay == i \in DOMAIN accesses /\ accesses[i] = e
  IN
  /\ At(r, "get")
  /\ accesses' = IF fresh THEN Append(accesses, e) ELSE accesses
  /\ \/ (fresh \/ replay) /\ HaveDraftSet(r)
     \/ Reply(r, Refused)
  /\ UNCHANGED <<events, stored, clock>>

(* reviewEventLog.loadLog. *)
Load(r) ==
  /\ At(r, "load")
  /\ loc[r].kind = "classify" => Len(events) < MaxEvents
  /\ loc' = [loc EXCEPT ![r].seen = Len(events)]
  /\ Goto(r, "list")
  /\ UNCHANGED stores

(* classifications.listForReview, then what is in force.  GET goes on to   *)
(* read the draft set; POST builds record and event, and answers at once   *)
(* when the judgment breaks a rule or the record is logged already.        *)
List(r) ==
  LET current == CurrentClassification(loc[r].seen, loc[r].draft)
      rec == [who |-> loc[r].who, draft |-> loc[r].draft,
              judgment |-> loc[r].judgment, at |-> clock, prior |-> current]
  IN
  /\ At(r, "list")
  /\ \/ /\ loc[r].kind = "view"
        /\ loc' = [loc EXCEPT ![r].current = current]
        /\ Goto(r, "mint")
     \/ /\ loc[r].kind = "classify"
        /\ IF \/ rec.judgment \in Unsupported
                 \/ \E i \in 1 .. loc[r].seen : events[i] = rec
           THEN Reply(r, Refused)
           ELSE /\ loc' = [loc EXCEPT ![r].current = current, ![r].record = rec]
                /\ Goto(r, "record")
  /\ UNCHANGED stores

(* Mutant of Record: the record is left for later. *)
RecordLater(r) ==
  /\ At(r, "record")
  /\ Goto(r, "append")
  /\ UNCHANGED <<stores, loc>>

(* classifications.record: ON CONFLICT DO NOTHING under the content id. *)
Record(r) ==
  /\ At(r, "record")
  /\ stored' = stored \cup {loc[r].record}
  /\ Goto(r, "append")
  /\ UNCHANGED <<events, accesses, clock, loc>>

(* The record is logged at a place; its key is its content. *)
LoggedAt(rec, i) == i \in DOMAIN events /\ events[i] = rec
Logged(l, rec) == \E i \in DOMAIN l : l[i] = rec

(* Mutant of AppendEvent: an event takes the next free number. *)
AppendEventAnyNumber(r) ==
  /\ At(r, "append")
  /\ Len(events) < MaxEvents
  /\ events' = IF Logged(events, loc[r].record) THEN events
               ELSE Append(events, loc[r].record)
  /\ Reply(r, Created(loc[r].record))
  /\ UNCHANGED <<stored, accesses, clock>>

(* reviewEventLog.append, as AppendOnlyLog shows it to behave: the same    *)
(* event is a replay; the same key with another number, or a taken number, *)
(* is a conflict.                                                          *)
AppendEvent(r) ==
  LET rec == loc[r].record
      place == loc[r].seen + 1
  IN
  /\ At(r, "append")
  /\ \/ /\ LoggedAt(rec, place)
        /\ UNCHANGED events
        /\ Reply(r, Created(rec))
     \/ /\ ~Logged(events, rec) /\ place = Len(events) + 1
        /\ events' = Append(events, rec)
        /\ Reply(r, Created(rec))
     \/ /\ ~LoggedAt(rec, place)
        /\ Logged(events, rec) \/ place # Len(events) + 1
        /\ UNCHANGED events
        /\ Reply(r, Refused)
  /\ UNCHANGED <<stored, accesses, clock>>

(* Any other event of the review, appended by another route. *)
OtherEvent ==
  /\ Len(events) < MaxEvents
  /\ events' = Append(events, None)
  /\ UNCHANGED <<stored, accesses, clock, pc, loc, answer>>

Tick ==
  /\ clock < MaxClock
  /\ clock' = clock + 1
  /\ UNCHANGED <<events, stored, accesses, pc, loc, answer>>

(* A handler that throws or dies with its host forgets its locals. *)
Crash(r) ==
  /\ ~At(r, "idle")
  /\ pc' = [pc EXCEPT ![r] = "idle"]
  /\ loc' = [loc EXCEPT ![r] = Idle]
  /\ UNCHANGED <<stores, answer>>

Next ==
  \/ \E r \in Requests :
       \/ \E kind \in {"view", "classify"}, who \in Reviewers, d \in Drafts,
             j \in Judgments \cup {None} : Begin(r, kind, who, d, j)
       \/ Mint(r) \/ Get(r) \/ Load(r) \/ List(r) \/ Record(r) \/ AppendEvent(r)
       \/ Crash(r)
  \/ OtherEvent
  \/ Tick

Spec == Init /\ [][Next]_vars

-----------------------------------------------------------------------------
(* Properties. *)

TypeOK ==
  /\ events \in Seq(Records \cup {None})
  /\ Len(events) <= MaxEvents
  /\ stored \subseteq Records
  /\ accesses \in Seq(Accesses)
  /\ clock \in 0 .. MaxClock
  /\ pc \in [Requests -> Steps]
  /\ loc \in [Requests -> Locals \cup {Idle}]
  /\ \A r \in Requests : loc[r].seen <= Len(events)

(* The judgments of a draft form one line: every logged classification     *)
(* supersedes the one logged before it for that draft and no other,        *)
(* although each was built on a log that may have moved on, and from       *)
(* records listed at yet another time.                                     *)
JudgmentsFormALine ==
  \A i \in DOMAIN events : events[i] # None =>
     events[i].prior = Last(Judged(events, i - 1, events[i].draft))

(* What a reviewer is shown was in force in the log that was loaded: the   *)
(* judgment named by the draft's last event, and no record whose event was *)
(* never logged.                                                           *)
ShownWasInForce ==
  \A r \in Requests : answer[r] # None /\ answer[r].code = "shown" =>
     answer[r].current = Last(Judged(events, answer[r].seen, answer[r].draft))

(* 201 is only answered for a judgment that is logged and stored, also     *)
(* when the same request was sent twice or its race was lost.              *)
CreatedIsLogged ==
  \A r \in Requests : answer[r] # None /\ answer[r].code = "created" =>
     Logged(events, answer[r].record) /\ answer[r].record \in stored

(* Nobody judges or is shown a draft whose set they have not been logged   *)
(* as reading, whatever reads race for the lifecycle log's numbers.        *)
ReadBeforeJudged ==
  /\ \A x \in stored : RecordedAccess(accesses, x.who, SetOf[x.draft]) # {}
  /\ \A r \in Requests : answer[r] # None /\ answer[r].code = "shown" =>
        RecordedAccess(accesses, answer[r].who, SetOf[answer[r].draft]) # {}
=============================================================================
