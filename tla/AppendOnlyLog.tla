--------------------------- MODULE AppendOnlyLog ---------------------------
(***************************************************************************)
(* The Postgres append-only log under concurrent appenders                 *)
(* (packages/evidence-store/src/postgres/append-only-log.ts), together     *)
(* with the load-build-append shape every caller of it has                 *)
(* (services/host/src/submission/review-events.ts and access.ts).          *)
(*                                                                         *)
(* An appender loads the log of its review, builds an event with the next  *)
(* sequence number (or with the recorded one, when its idempotency key is  *)
(* already there), decides on the loaded copy, and then runs append's      *)
(* statements one by one.  Each statement goes through the pool, so each   *)
(* is its own transaction: pg_advisory_xact_lock is taken and released by  *)
(* the same statement, and other appenders' statements come between any    *)
(* two of them.                                                            *)
(***************************************************************************)
EXTENDS LogRows

CONSTANTS
  Appenders,     \* concurrent callers of append
  Reviews,       \* review ids
  Keys,          \* idempotency keys
  Bodies         \* event contents other than review, number and key

None == [review |-> "none"]

VARIABLES
  log,           \* the rows of the table, for all reviews
  pc,            \* where each appender is
  ev,            \* the event each appender has built
  result         \* what append last answered to each appender

vars == <<log, pc, ev, result>>

Events == [review : Reviews, seq : Nat, key : Keys, body : Bodies]
Steps == {"idle", "lock", "key", "max", "insert"}
Results == {"none", "appended", "idempotent_noop", "conflict",
            "not_monotonic", "threw"}

TypeOK ==
  /\ log \subseteq Events
  /\ IsFiniteSet(log)
  /\ pc \in [Appenders -> Steps]
  /\ ev \in [Appenders -> Events \cup {None}]
  /\ result \in [Appenders -> Results]
  /\ \A p \in Appenders : pc[p] # "idle" => ev[p] \in Events
  /\ \A p \in Appenders :
        result[p] \in {"appended", "idempotent_noop"} => ev[p] \in Events

Init ==
  /\ log = {}
  /\ pc = [p \in Appenders |-> "idle"]
  /\ ev = [p \in Appenders |-> None]
  /\ result = [p \in Appenders |-> "none"]

Answer(p, r) ==
  /\ pc' = [pc EXCEPT ![p] = "idle"]
  /\ result' = [result EXCEPT ![p] = r]

Goto(p, step) ==
  /\ pc' = [pc EXCEPT ![p] = step]
  /\ UNCHANGED result

(* The number a caller derives from the log it loaded: the recorded one    *)
(* for a key that is there, else events.length (review events) or the      *)
(* highest number plus one (lifecycle events).                             *)
DerivedSeq(r, k) ==
  IF KeyRows(log, r, k) # {}
  THEN {x.seq : x \in KeyRows(log, r, k)}
  ELSE {EventCount(log, r), NextSequenceNumber(log, r)}

(* loadLog, the draft, and the pure append boundary on the loaded copy,    *)
(* which answers a replay or a conflict itself and lets only a new key go  *)
(* on to the store; the lifecycle callers hand the store a replay too.     *)
Load(p, r, k, b) ==
  /\ pc[p] = "idle"
  /\ \E s \in DerivedSeq(r, k) :
       LET e == Row(r, s, k, b) IN
       /\ ev' = [ev EXCEPT ![p] = e]
       /\ \/ KeySelect(log, e) = "differs" /\ Answer(p, "conflict")
          \/ KeySelect(log, e) = "same" /\ Answer(p, "idempotent_noop")
          \/ /\ KeySelect(log, e) \in {"absent", "same"}
             /\ pc' = [pc EXCEPT ![p] = "lock"]
             /\ result' = [result EXCEPT ![p] = "none"]
  /\ UNCHANGED log

(* SELECT pg_advisory_xact_lock: granted, and released when this statement *)
(* commits.                                                                *)
Lock(p) ==
  /\ pc[p] = "lock"
  /\ Goto(p, "key")
  /\ UNCHANGED <<log, ev>>

SelectKey(p) ==
  /\ pc[p] = "key"
  /\ \/ KeySelect(log, ev[p]) = "same" /\ Answer(p, "idempotent_noop")
     \/ KeySelect(log, ev[p]) = "differs" /\ Answer(p, "conflict")
     \/ KeySelect(log, ev[p]) = "absent" /\ Goto(p, "max")
  /\ UNCHANGED <<log, ev>>

SelectMax(p) ==
  /\ pc[p] = "max"
  /\ \/ ~BelowNew(log, ev[p]) /\ Answer(p, "not_monotonic")
     \/ BelowNew(log, ev[p]) /\ Goto(p, "insert")
  /\ UNCHANGED <<log, ev>>

(* Mutant of Insert: ON CONFLICT DO UPDATE. *)
InsertOrUpdate(p) ==
  /\ pc[p] = "insert"
  /\ log' = {x \in log : InsertAllowed({x}, ev[p])} \cup {ev[p]}
  /\ Answer(p, "appended")
  /\ UNCHANGED ev

(* The INSERT: a unique violation is an exception out of append. *)
Insert(p) ==
  /\ pc[p] = "insert"
  /\ \/ /\ InsertAllowed(log, ev[p])
        /\ log' = log \cup {ev[p]}
        /\ Answer(p, "appended")
     \/ /\ ~InsertAllowed(log, ev[p])
        /\ Answer(p, "threw")
        /\ UNCHANGED log
  /\ UNCHANGED ev

(* The process stops between two statements; what was committed stays. *)
Crash(p) ==
  /\ pc[p] # "idle"
  /\ Answer(p, "none")
  /\ UNCHANGED <<log, ev>>

Next ==
  \E p \in Appenders :
     \/ \E r \in Reviews, k \in Keys, b \in Bodies : Load(p, r, k, b)
     \/ Lock(p)
     \/ SelectKey(p)
     \/ SelectMax(p)
     \/ Insert(p)
     \/ Crash(p)

Spec == Init /\ [][Next]_vars

-----------------------------------------------------------------------------
(* Architecture Rule 9: one row per number and per key of a review, though *)
(* nothing serializes the appenders.                                       *)
Unique == UniqueRows(log)

(* events.length is a correct next number: the numbers of a review have no *)
(* gap, whatever appenders lose their race or crash on the way.            *)
Contiguous == NoGaps(log)

(* An appender that was told appended or idempotent_noop finds exactly its *)
(* event in the log, then and for ever.                                    *)
AcknowledgedIsLogged ==
  \A p \in Appenders :
     result[p] \in {"appended", "idempotent_noop"} => ev[p] \in log

(* Every number below the one an appender has built is taken: why losing a *)
(* race can never leave a gap behind.                                      *)
BuiltOnPrefix ==
  \A p \in Appenders : pc[p] # "idle" =>
     \A m \in 0 .. ev[p].seq - 1 :
        \E y \in RowsOf(log, ev[p].review) : y.seq = m

(* The inductive invariant. *)
LogInv ==
  /\ TypeOK
  /\ Unique
  /\ Contiguous
  /\ AcknowledgedIsLogged
  /\ BuiltOnPrefix

(* No step removes or rewrites a row. *)
AppendOnly == [][log \subseteq log']_vars

(* What the table promises its readers: for each review one growing        *)
(* sequence of events, each key once.                                      *)
history ==
  [r \in Reviews |-> [i \in 1 .. EventCount(log, r) |->
     [key |-> RowAt(log, r, i - 1).key, body |-> RowAt(log, r, i - 1).body]]]

History == INSTANCE ReviewHistory WITH hist <- history

(* The racing statements implement that atomic, ordered history. *)
ImplementsHistory == History!Spec
=============================================================================
