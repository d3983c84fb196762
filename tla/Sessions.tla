------------------------------ MODULE Sessions ------------------------------
(***************************************************************************)
(* Web sessions (packages/identity-store/src/postgres/session-store.ts)    *)
(* and the hook that turns a session cookie into an actor                  *)
(* (services/host/src/auth/resolve-actor.ts): issue, resolve, touch,       *)
(* revoke, with requests that resolve a session, load the account and      *)
(* touch the session later with the time they began at.                    *)
(***************************************************************************)
EXTENDS Integers, FiniteSets

CONSTANTS
  Handles,        \* session handles
  Visits,         \* concurrent requests
  Idle,           \* SESSION_IDLE_TIMEOUT_MS
  Absolute,       \* SESSION_ABSOLUTE_LIFETIME_MS
  Gap,            \* the 60 seconds between two activity rows
  MaxTick         \* bound: the clock

ASSUME SessionsAssumption ==
  /\ Gap \in Nat \ {0} /\ Idle \in Nat /\ Gap < Idle
  /\ Absolute \in Nat /\ MaxTick \in Nat

VARIABLES
  tick,
  since,          \* issued_at of each session, -1 when there is none
  pendingFactor,  \* the sessions whose second factor is pending
  ended,          \* handles with a revocation row
  activity,       \* web_session_activity rows
  request,        \* each request: its session, its time, its actor
  lastUse         \* history: the latest time a session was touched with

sessionVars == <<tick, since, pendingFactor, ended, activity, request, lastUse>>

NoRequest == [at |-> "idle", handle |-> "none", now |-> 0]

SessionsTypeOK ==
  /\ tick \in 0 .. MaxTick
  /\ since \in [Handles -> -1 .. MaxTick]
  /\ pendingFactor \subseteq Handles /\ ended \subseteq Handles
  /\ activity \in [Handles -> SUBSET (0 .. MaxTick)]
  /\ \A h \in Handles : since[h] = -1 => h \notin ended /\ activity[h] = {}
  /\ request \in [Visits -> [at : {"idle", "resolve", "touch"},
                               handle : Handles \cup {"none"}, now : 0 .. MaxTick]]
  /\ lastUse \in [Handles -> -1 .. MaxTick]

SessionsInit ==
  /\ tick = 0
  /\ since = [h \in Handles |-> -1]
  /\ pendingFactor = {} /\ ended = {}
  /\ activity = [h \in Handles |-> {}]
  /\ request = [q \in Visits |-> NoRequest]
  /\ lastUse = [h \in Handles |-> -1]

(* GREATEST of the issue and the last activity. *)
Latest(h) ==
  CHOOSE t \in activity[h] \cup {since[h]} : \A u \in activity[h] \cup {since[h]} : u <= t

(* Mutant of Resolvable: the absolute lifetime is not looked at. *)
ResolvableForEver(h, now) ==
  since[h] # -1 /\ h \notin ended /\ Latest(h) > now - Idle

(* resolve: not revoked, inside the absolute lifetime, not idle too long. *)
Resolvable(h, now) ==
  /\ since[h] # -1 /\ h \notin ended
  /\ since[h] + Absolute > now
  /\ Latest(h) > now - Idle

SessionIssued(h) ==
  /\ since[h] = -1
  /\ since' = [since EXCEPT ![h] = tick]
  /\ pendingFactor' \in {pendingFactor, pendingFactor \cup {h}}
  /\ UNCHANGED <<tick, ended, activity, request, lastUse>>

(* revoke and revokeAllForAccount: ON CONFLICT DO NOTHING. *)
SessionRevoked(h) ==
  /\ since[h] # -1 /\ h \notin ended
  /\ ended' = ended \cup {h}
  /\ UNCHANGED <<tick, since, pendingFactor, activity, request, lastUse>>

RequestBegins(q) ==
  /\ request[q].at = "idle"
  /\ \E h \in Handles :
       request' = [request EXCEPT ![q] = [at |-> "resolve", handle |-> h, now |-> tick]]
  /\ UNCHANGED <<tick, since, pendingFactor, ended, activity, lastUse>>

(* The hook: no live session, or a pending one, leaves the request without *)
(* an actor.                                                               *)
RequestResolves(q) ==
  LET h == request[q].handle IN
  /\ request[q].at = "resolve"
  /\ request' =
       IF Resolvable(h, request[q].now) /\ h \notin pendingFactor
       THEN [request EXCEPT ![q].at = "touch"] ELSE [request EXCEPT ![q] = NoRequest]
  /\ UNCHANGED <<tick, since, pendingFactor, ended, activity, lastUse>>

(* Mutant of RequestTouches: half the rows. *)
RequestTouchesSeldom(q) ==
  LET h == request[q].handle
      now == request[q].now IN
  /\ request[q].at = "touch"
  /\ activity' = IF \E t \in activity[h] : t > now - 2 * Gap THEN activity
                 ELSE [activity EXCEPT ![h] = @ \cup {now}]
  /\ lastUse' = [lastUse EXCEPT ![h] = IF now > @ THEN now ELSE @]
  /\ request' = [request EXCEPT ![q] = NoRequest]
  /\ UNCHANGED <<tick, since, pendingFactor, ended>>

(* touch, after the account and its grants were loaded: a row with the     *)
(* time the request began at, unless there is a row of the last minute.    *)
RequestTouches(q) ==
  LET h == request[q].handle
      now == request[q].now IN
  /\ request[q].at = "touch"
  /\ activity' = IF \E t \in activity[h] : t > now - Gap THEN activity
                 ELSE [activity EXCEPT ![h] = @ \cup {now}]
  /\ lastUse' = [lastUse EXCEPT ![h] = IF now > @ THEN now ELSE @]
  /\ request' = [request EXCEPT ![q] = NoRequest]
  /\ UNCHANGED <<tick, since, pendingFactor, ended>>

(* The request fails before it touches the session. *)
RequestStops(q) ==
  /\ request[q].at # "idle"
  /\ request' = [request EXCEPT ![q] = NoRequest]
  /\ UNCHANGED <<tick, since, pendingFactor, ended, activity, lastUse>>

TickPasses ==
  /\ tick < MaxTick
  /\ tick' = tick + 1
  /\ UNCHANGED <<since, pendingFactor, ended, activity, request, lastUse>>

SessionsNext ==
  \/ \E h \in Handles : SessionIssued(h) \/ SessionRevoked(h)
  \/ \E q \in Visits :
       RequestBegins(q) \/ RequestResolves(q) \/ RequestTouches(q) \/ RequestStops(q)
  \/ TickPasses

SessionsSpec == SessionsInit /\ [][SessionsNext]_sessionVars

-----------------------------------------------------------------------------
(* A session in use stays: activity rows are a minute apart and may be     *)
(* written late, but a session that was used less than the idle timeout    *)
(* minus that minute ago can be resolved until its lifetime ends.          *)
UsedSessionLives ==
  \A h \in Handles :
    /\ since[h] # -1 /\ h \notin ended /\ tick < since[h] + Absolute
    /\ tick - lastUse[h] <= Idle - Gap /\ lastUse[h] # -1
    => Resolvable(h, tick)

(* A pending session is never touched, so it dies Idle after its issue. *)
PendingSessionExpires ==
  \A h \in pendingFactor : since[h] + Idle <= tick => ~Resolvable(h, tick)

(* Sessions live as long as they are used and no longer. *)
SessionsKeepTime == UsedSessionLives /\ PendingSessionExpires

(* A session that has expired or was revoked stays dead: only a request    *)
(* that resolved it before may, with its late touch, bring an idle one     *)
(* back, and none revives a revoked one or one past its lifetime.          *)
DeadSessionStaysDead ==
  [][\A h \in Handles :
       since[h] # -1 /\ ~Resolvable(h, tick) /\ Resolvable(h, tick)' =>
         /\ \E q \in Visits : request[q].at = "touch" /\ request[q].handle = h
         /\ h \notin ended /\ tick < since[h] + Absolute]_sessionVars
=============================================================================
