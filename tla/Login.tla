------------------------------- MODULE Login -------------------------------
(***************************************************************************)
(* Sign-in (services/host/src/routes/auth.ts): the password, the second    *)
(* factor, the login throttle and the TOTP step claim                      *)
(* (packages/identity-store/src/postgres/login-throttle.ts and             *)
(* account-store.ts), for one enrolled account and one throttle key.       *)
(* Calls run concurrently and stop at any await.                           *)
(*                                                                         *)
(* A code is known by the time step it is the code of.  The clock counts   *)
(* time steps.  Rows of login_attempt are in the order of occurred_at.     *)
(***************************************************************************)
EXTENDS Integers, Sequences, FiniteSets

CONSTANTS
  Logins,         \* concurrent calls
  Threshold,      \* LOGIN_LOCKOUT_THRESHOLD
  Window,         \* LOGIN_LOCKOUT_WINDOW_MS, in time steps
  MaxStep,        \* bound: time steps
  MaxTries,       \* bound: rows of login_attempt
  MaxIssued,      \* bound: sessions
  MaxStops        \* bound: calls that stop half way

ASSUME LoginAssumption ==
  /\ IsFiniteSet(Logins) /\ Logins # {}
  /\ Threshold \in Nat \ {0} /\ Window \in Nat \ {0}
  /\ MaxStep \in Nat /\ MaxTries \in Nat /\ MaxIssued \in Nat /\ MaxStops \in Nat

VARIABLES
  stepNow,        \* the current TOTP time step
  loginLog,       \* login_attempt rows of the key
  totpUse,        \* totp_step_use rows of the account
  issued,         \* web_session rows, in order
  revokedAt,      \* handles with a web_session_revocation row
  login,          \* the calls
  stops

loginVars == <<stepNow, loginLog, totpUse, issued, revokedAt, login, stops>>

NoLogin == [at |-> "idle", kind |-> "none", now |-> 0, right |-> FALSE, handle |-> 0, code |-> 0]
Attempt(outcome, judged) == [outcome |-> outcome, at |-> stepNow, judged |-> judged]

LoginTypeOK ==
  /\ stepNow \in 0 .. MaxStep
  /\ loginLog \in Seq([outcome : {"failed", "succeeded"}, at : 0 .. MaxStep, judged : BOOLEAN])
  /\ totpUse \subseteq 0 .. MaxStep + 1
  /\ issued \in Seq([factor : {"pending", "satisfied"}, from : Nat, code : Int])
  /\ revokedAt \subseteq 1 .. Len(issued)
  /\ login \in [Logins ->
       [at : {"idle", "resolve", "state", "locked", "claimRead", "claimInsert",
              "failed", "succeeded", "issue", "revoke"},
        kind : {"none", "password", "code"}, now : 0 .. MaxStep, right : BOOLEAN,
        handle : 0 .. Len(issued), code : -1 .. MaxStep + 1]]
  /\ stops \in 0 .. MaxStops

LoginInit ==
  /\ stepNow = 0
  /\ loginLog = <<>>
  /\ totpUse = {}
  /\ issued = <<>>
  /\ revokedAt = {}
  /\ login = [q \in Logins |-> NoLogin]
  /\ stops = 0

LoginGoto(q, at) == login' = [login EXCEPT ![q].at = at]
LoginEnds(q) == login' = [login EXCEPT ![q] = NoLogin]

-----------------------------------------------------------------------------
(* The throttle.                                                           *)

(* Failures inside the window and after the last success. *)
Failures(now) ==
  {i \in 1 .. Len(loginLog) :
     /\ loginLog[i].outcome = "failed" /\ loginLog[i].at > now - Window
     /\ \A j \in i .. Len(loginLog) : loginLog[j].outcome = "failed"}

(* Mutant of Locked: one try too many. *)
LockedLate(now) == Cardinality(Failures(now)) > Threshold

Locked(now) == Cardinality(Failures(now)) >= Threshold

RecordTry(q, outcome, judged, then) ==
  /\ Len(loginLog) < MaxTries
  /\ loginLog' = Append(loginLog, Attempt(outcome, judged))
  /\ then
  /\ UNCHANGED <<stepNow, totpUse, issued, revokedAt, stops>>

-----------------------------------------------------------------------------
(* The handlers.                                                           *)

BeginPassword(q) ==
  /\ login[q].at = "idle"
  /\ \E right \in BOOLEAN :
       login' = [login EXCEPT ![q] =
         [at |-> "state", kind |-> "password", now |-> stepNow, right |-> right,
          handle |-> 0, code |-> 0]]
  /\ UNCHANGED <<stepNow, loginLog, totpUse, issued, revokedAt, stops>>

BeginCode(q) ==
  /\ login[q].at = "idle"
  /\ \E h \in 1 .. Len(issued) : \E c \in -1 .. MaxStep + 1 :
       login' = [login EXCEPT ![q] =
         [at |-> "resolve", kind |-> "code", now |-> stepNow, right |-> FALSE,
          handle |-> h, code |-> c]]
  /\ UNCHANGED <<stepNow, loginLog, totpUse, issued, revokedAt, stops>>

(* sessions.resolve: only a pending session goes on. *)
ResolvePending(q) ==
  /\ login[q].at = "resolve"
  /\ IF login[q].handle \notin revokedAt /\ issued[login[q].handle].factor = "pending"
     THEN LoginGoto(q, "state") ELSE LoginEnds(q)
  /\ UNCHANGED <<stepNow, loginLog, totpUse, issued, revokedAt, stops>>

(* matchTotpStep: the step before, the current one, the next. *)
CodeMatches(q) == login[q].code \in login[q].now - 1 .. login[q].now + 1 /\ login[q].code >= 0

(* throttle.state, then the password or the code is judged. *)
CheckThrottle(q) ==
  /\ login[q].at = "state"
  /\ LoginGoto(q,
       CASE Locked(login[q].now) -> "locked"
         [] ~Locked(login[q].now) /\ login[q].kind = "password" ->
              IF login[q].right THEN "succeeded" ELSE "failed"
         [] ~Locked(login[q].now) /\ login[q].kind = "code" ->
              IF CodeMatches(q) THEN "claimRead" ELSE "failed")
  /\ UNCHANGED <<stepNow, loginLog, totpUse, issued, revokedAt, stops>>

(* claimTotpStep is one statement, whose NOT EXISTS sees the rows that     *)
(* were committed when it began: this step or a later one refuses.         *)
ClaimRead(q) ==
  /\ login[q].at = "claimRead"
  /\ LoginGoto(q, IF \E s \in totpUse : s >= login[q].code THEN "failed" ELSE "claimInsert")
  /\ UNCHANGED <<stepNow, loginLog, totpUse, issued, revokedAt, stops>>

(* Mutant of ClaimInsert: there is no primary key. *)
ClaimInsertTwice(q) ==
  /\ login[q].at = "claimInsert"
  /\ totpUse' = totpUse \cup {login[q].code}
  /\ LoginGoto(q, "succeeded")
  /\ UNCHANGED <<stepNow, loginLog, issued, revokedAt, stops>>

(* The primary key: ON CONFLICT DO NOTHING. *)
ClaimInsert(q) ==
  /\ login[q].at = "claimInsert"
  /\ totpUse' = totpUse \cup {login[q].code}
  /\ LoginGoto(q, IF login[q].code \in totpUse THEN "failed" ELSE "succeeded")
  /\ UNCHANGED <<stepNow, loginLog, issued, revokedAt, stops>>

RecordLocked(q) == login[q].at = "locked" /\ RecordTry(q, "failed", FALSE, LoginEnds(q))
RecordFailed(q) == login[q].at = "failed" /\ RecordTry(q, "failed", TRUE, LoginEnds(q))
RecordSucceeded(q) ==
  login[q].at = "succeeded" /\ RecordTry(q, "succeeded", TRUE, LoginGoto(q, "issue"))

(* attachSessionCookie: the new session, then the old one is rotated out.  *)
IssueSession(q) ==
  /\ login[q].at = "issue" /\ Len(issued) < MaxIssued
  /\ IF login[q].kind = "password"
     THEN /\ issued' = Append(issued, [factor |-> "pending", from |-> 0, code |-> -1])
          /\ LoginEnds(q)
     ELSE /\ issued' = Append(issued,
               [factor |-> "satisfied", from |-> login[q].handle, code |-> login[q].code])
          /\ LoginGoto(q, "revoke")
  /\ UNCHANGED <<stepNow, loginLog, totpUse, revokedAt, stops>>

RotatePending(q) ==
  /\ login[q].at = "revoke"
  /\ revokedAt' = revokedAt \cup {login[q].handle}
  /\ LoginEnds(q)
  /\ UNCHANGED <<stepNow, loginLog, totpUse, issued, stops>>

Logout(h) ==
  /\ h \notin revokedAt
  /\ revokedAt' = revokedAt \cup {h}
  /\ UNCHANGED <<stepNow, loginLog, totpUse, issued, login, stops>>

StepPasses ==
  /\ stepNow < MaxStep
  /\ stepNow' = stepNow + 1
  /\ UNCHANGED <<loginLog, totpUse, issued, revokedAt, login, stops>>

LoginStops(q) ==
  /\ stops < MaxStops /\ login[q].at # "idle"
  /\ stops' = stops + 1
  /\ LoginEnds(q)
  /\ UNCHANGED <<stepNow, loginLog, totpUse, issued, revokedAt>>

LoginStep(q) ==
  \/ BeginPassword(q) \/ BeginCode(q) \/ ResolvePending(q) \/ CheckThrottle(q)
  \/ ClaimRead(q) \/ ClaimInsert(q)
  \/ RecordLocked(q) \/ RecordFailed(q) \/ RecordSucceeded(q)
  \/ IssueSession(q) \/ RotatePending(q)

LoginNext ==
  \/ \E q \in Logins : LoginStep(q) \/ LoginStops(q)
  \/ \E h \in 1 .. Len(issued) : Logout(h)
  \/ StepPasses

LoginSpec == LoginInit /\ [][LoginNext]_loginVars

-----------------------------------------------------------------------------
(* "so one code can never sign in twice": no two stepped-up sessions come  *)
(* from the code of one time step, although calls race for the claim and   *)
(* stop after it, and every one of them comes from a pending session.      *)
OneSessionPerCode ==
  \A i, j \in 1 .. Len(issued) :
    issued[i].factor = "satisfied" =>
      /\ issued[i].code \in totpUse
      /\ issued[issued[i].from].factor = "pending" /\ issued[i].from < i
      /\ i # j => issued[j].code # issued[i].code

(* The tries of which a secret or a code was judged, within a window and   *)
(* since the last success, as of one row.                                  *)
JudgedTries(n) ==
  {i \in 1 .. n :
     /\ loginLog[i].judged /\ loginLog[i].at > loginLog[n].at - Window
     /\ \A j \in i .. n : loginLog[j].outcome = "failed"}

(* "Each network still gets only LOGIN_LOCKOUT_THRESHOLD wrong tries per   *)
(* identifier per window", as auth.ts says of its throttle.                *)
OnlyThresholdTries ==
  \A n \in 1 .. Len(loginLog) : Cardinality(JudgedTries(n)) <= Threshold

(* What is true of it: the throttle is read before the secret is judged    *)
(* and the failure is recorded after it, so of the judged tries at most    *)
(* one per concurrent call goes beyond the last one that the threshold     *)
(* allows.  Calls that stop half way and windows that slide add none.      *)
JudgedTriesAreBounded ==
  \A n \in 1 .. Len(loginLog) :
    Cardinality(JudgedTries(n)) <= Threshold - 1 + Cardinality(Logins)
=============================================================================
