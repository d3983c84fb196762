----------------------------- MODULE HostProofs -----------------------------
(* What the host's own protections keep true for any number of calls,      *)
(* requests, clients and networks, any threshold, window and ceiling, and  *)
(* for as long as they run: sign-in, sessions, the budget, the rate limit. *)
EXTENDS Login, Sessions, Budget, RateLimit, LogRowsTheorems

-----------------------------------------------------------------------------
(* Sign-in.                                                                *)

ResolvedSteps == {"state", "locked", "claimRead", "claimInsert", "failed", "succeeded",
                  "issue", "revoke"}

(* A call's handler is on a path of its kind, and a call that brings a     *)
(* code past sessions.resolve holds a pending session.                     *)
CallOK(q) ==
  /\ login[q].at # "idle" => login[q].kind \in {"password", "code"}
  /\ login[q].at \in {"resolve", "claimRead", "claimInsert", "revoke"} => login[q].kind = "code"
  /\ login[q].at = "resolve" => login[q].handle \in 1 .. Len(issued)
  /\ login[q].at \in ResolvedSteps /\ login[q].kind = "code" =>
        /\ login[q].handle \in 1 .. Len(issued)
        /\ issued[login[q].handle].factor = "pending"
  /\ login[q].at \in {"claimRead", "claimInsert"} => login[q].code >= 0
  /\ login[q].now <= stepNow

(* A call that has claimed its code and has not used the claim yet. *)
Claims(q) == login[q].kind = "code" /\ login[q].at \in {"succeeded", "issue"}

(* One code's claim is held by one call, or was used for one session. *)
ClaimsInv ==
  /\ LoginTypeOK
  /\ OneSessionPerCode
  /\ \A q \in Logins : CallOK(q)
  /\ \A i \in 1 .. Len(issued) :
        /\ issued[i].factor = "pending" => issued[i].code = -1
        /\ issued[i].factor = "satisfied" => issued[i].from \in 1 .. Len(issued)
  /\ \A q \in Logins : Claims(q) =>
        /\ login[q].code \in totpUse
        /\ \A r \in Logins : r # q /\ Claims(r) => login[r].code # login[q].code
        /\ \A i \in 1 .. Len(issued) : issued[i].code # login[q].code

LEMMA LoginInitClaims == LoginInit => ClaimsInv
  BY LoginAssumption DEF LoginInit, ClaimsInv, LoginTypeOK, NoLogin, OneSessionPerCode, CallOK,
     Claims, ResolvedSteps

LoginSteps == {"idle", "resolve", "state", "locked", "claimRead", "claimInsert",
               "failed", "succeeded", "issue", "revoke"}

(* The calls there can be with n sessions. *)
Calls(n) ==
  [at : LoginSteps, kind : {"none", "password", "code"}, now : 0 .. MaxStep, right : BOOLEAN,
   handle : 0 .. n, code : -1 .. MaxStep + 1]

(* The tables' part of the type. *)
TablesOK ==
  /\ stepNow \in 0 .. MaxStep
  /\ loginLog \in Seq([outcome : {"failed", "succeeded"}, at : 0 .. MaxStep, judged : BOOLEAN])
  /\ totpUse \subseteq 0 .. MaxStep + 1
  /\ issued \in Seq([factor : {"pending", "satisfied"}, from : Nat, code : Int])
  /\ revokedAt \subseteq 1 .. Len(issued)
  /\ stops \in 0 .. MaxStops

LEMMA LoginTypeParts == LoginTypeOK <=> TablesOK /\ login \in [Logins -> Calls(Len(issued))]
  BY DEF LoginTypeOK, TablesOK, Calls, LoginSteps

LEMMA LoginTypePartsNext ==
  ASSUME TablesOK', login' \in [Logins -> Calls(Len(issued'))]
  PROVE  LoginTypeOK'
  BY DEF LoginTypeOK, TablesOK, Calls, LoginSteps

LEMMA TableFacts ==
  ASSUME TablesOK
  PROVE  /\ stepNow \in Nat /\ MaxStep \in Nat /\ Len(issued) \in Nat
         /\ \A i \in 1 .. Len(issued) :
               /\ issued[i].factor \in {"pending", "satisfied"}
               /\ issued[i].from \in Nat /\ issued[i].code \in Int
         /\ \A c \in totpUse : c \in Int /\ c >= 0
<1> DEFINE R == [factor : {"pending", "satisfied"}, from : Nat, code : Int]
<1>1. issued \in Seq(R)
  BY DEF TablesOK
<1>2. \A x \in R : x.factor \in {"pending", "satisfied"} /\ x.from \in Nat /\ x.code \in Int
  OBVIOUS
<1> HIDE DEF R
<1>3. Len(issued) \in Nat /\ \A i \in 1 .. Len(issued) : issued[i] \in R
  BY <1>1
<1>4. stepNow \in Nat /\ MaxStep \in Nat /\ \A c \in totpUse : c \in Int /\ c >= 0
  BY LoginAssumption DEF TablesOK
<1> QED
  BY <1>2, <1>3, <1>4

LEMMA CallFacts ==
  ASSUME LoginTypeOK, NEW q \in Logins
  PROVE  /\ TablesOK /\ login \in [Logins -> Calls(Len(issued))]
         /\ login[q].at \in LoginSteps /\ login[q].now \in Nat /\ login[q].handle \in Nat
         /\ login[q].kind \in {"none", "password", "code"}
         /\ login[q].code \in Int /\ login[q].code <= MaxStep + 1
<1>1. TablesOK /\ login \in [Logins -> Calls(Len(issued))]
  BY LoginTypeParts
<1>2. Len(issued) \in Nat /\ MaxStep \in Nat
  BY <1>1, TableFacts
<1>3. login[q] \in Calls(Len(issued))
  BY <1>1
<1> QED
  BY <1>1, <1>2, <1>3 DEF Calls

LEMMA GotoFacts ==
  ASSUME NEW n \in Nat, login \in [Logins -> Calls(n)], NEW q \in Logins,
         NEW at \in LoginSteps, LoginGoto(q, at)
  PROVE  /\ login' \in [Logins -> Calls(n)]
         /\ login'[q].at = at /\ login'[q].kind = login[q].kind /\ login'[q].now = login[q].now
         /\ login'[q].handle = login[q].handle /\ login'[q].code = login[q].code
         /\ \A r \in Logins \ {q} : login'[r] = login[r]
  BY DEF LoginGoto, Calls

LEMMA EndsFacts ==
  ASSUME NEW n \in Nat, login \in [Logins -> Calls(n)], NEW q \in Logins, LoginEnds(q)
  PROVE  /\ login' \in [Logins -> Calls(n)]
         /\ login'[q] = NoLogin
         /\ \A r \in Logins \ {q} : login'[r] = login[r]
<1>1. NoLogin \in Calls(n)
  BY LoginAssumption DEF Calls, NoLogin, LoginSteps
<1> QED
  BY <1>1 DEF LoginEnds

LEMMA BeginFacts ==
  ASSUME LoginTypeOK, NEW q \in Logins, BeginPassword(q) \/ BeginCode(q)
  PROVE  /\ login' \in [Logins -> Calls(Len(issued))]
         /\ \A r \in Logins \ {q} : login'[r] = login[r]
         /\ login'[q].now = stepNow
         /\ \/ login'[q].at = "state" /\ login'[q].kind = "password"
            \/ /\ login'[q].at = "resolve" /\ login'[q].kind = "code"
               /\ login'[q].handle \in 1 .. Len(issued)
<1>1. /\ stepNow \in 0 .. MaxStep /\ Len(issued) \in Nat
      /\ login \in [Logins -> Calls(Len(issued))]
  BY LoginTypeParts DEF TablesOK
<1>2. ASSUME NEW x \in Calls(Len(issued)), login' = [login EXCEPT ![q] = x]
      PROVE  /\ login' \in [Logins -> Calls(Len(issued))] /\ login'[q] = x
             /\ \A r \in Logins \ {q} : login'[r] = login[r]
  BY <1>1, <1>2
<1>3. CASE BeginPassword(q)
  <2>1. PICK right \in BOOLEAN : login' = [login EXCEPT ![q] =
          [at |-> "state", kind |-> "password", now |-> stepNow, right |-> right,
           handle |-> 0, code |-> 0]]
    BY <1>3 DEF BeginPassword
  <2> DEFINE x == [at |-> "state", kind |-> "password", now |-> stepNow, right |-> right,
                   handle |-> 0, code |-> 0]
  <2>2. x \in Calls(Len(issued)) /\ x.at = "state" /\ x.kind = "password" /\ x.now = stepNow
    <3>1. 0 \in 0 .. Len(issued) /\ 0 \in -1 .. MaxStep + 1
      BY <1>1, LoginAssumption
    <3> QED
      BY <1>1, <3>1 DEF Calls, LoginSteps
  <2> QED
    BY <2>1, <2>2, <1>2
<1>4. CASE BeginCode(q)
  <2>1. PICK h \in 1 .. Len(issued), c \in -1 .. MaxStep + 1 : login' = [login EXCEPT ![q] =
          [at |-> "resolve", kind |-> "code", now |-> stepNow, right |-> FALSE,
           handle |-> h, code |-> c]]
    BY <1>4 DEF BeginCode
  <2> DEFINE x == [at |-> "resolve", kind |-> "code", now |-> stepNow, right |-> FALSE,
                   handle |-> h, code |-> c]
  <2>2. /\ x \in Calls(Len(issued)) /\ x.at = "resolve" /\ x.kind = "code" /\ x.now = stepNow
        /\ x.handle = h
    <3>1. h \in 0 .. Len(issued)
      BY <1>1
    <3> QED
      BY <1>1, <3>1 DEF Calls, LoginSteps
  <2> QED
    BY <2>1, <2>2, <1>2
<1> QED
  BY <1>3, <1>4

(* A step of a call that leaves the tables of sessions and claims alone.   *)
LEMMA CallMoves ==
  ASSUME ClaimsInv, NEW q \in Logins, UNCHANGED <<totpUse, issued, revokedAt, stepNow>>,
         LoginTypeOK', CallOK(q)',
         \A r \in Logins \ {q} : login'[r] = login[r],
         Claims(q)' => Claims(q) /\ login'[q].code = login[q].code
  PROVE  ClaimsInv'
<1>1. \A r \in Logins \ {q} : CallOK(r)'
  BY DEF ClaimsInv, CallOK
<1>2. \A r \in Logins : Claims(r)' => Claims(r) /\ login'[r].code = login[r].code
  BY DEF Claims
<1>3. OneSessionPerCode'
  BY DEF ClaimsInv, OneSessionPerCode
<1> QED
  BY <1>1, <1>2, <1>3 DEF ClaimsInv

LEMMA BeginClaims ==
  ASSUME ClaimsInv, NEW q \in Logins, BeginPassword(q) \/ BeginCode(q)
  PROVE  ClaimsInv'
<1>1. LoginTypeOK /\ UNCHANGED <<stepNow, loginLog, totpUse, issued, revokedAt, stops>>
  BY DEF ClaimsInv, BeginPassword, BeginCode
<1>2. /\ login' \in [Logins -> Calls(Len(issued))]
      /\ \A r \in Logins \ {q} : login'[r] = login[r]
      /\ login'[q].now = stepNow
      /\ \/ login'[q].at = "state" /\ login'[q].kind = "password"
         \/ /\ login'[q].at = "resolve" /\ login'[q].kind = "code"
            /\ login'[q].handle \in 1 .. Len(issued)
  BY <1>1, BeginFacts
<1>3. LoginTypeOK'
  BY <1>1, <1>2, LoginTypeParts, LoginTypePartsNext DEF TablesOK
<1>4. CallOK(q)' /\ ~Claims(q)'
  <2>1. stepNow \in Int
    BY <1>1, LoginAssumption DEF LoginTypeOK
  <2>2. CASE login'[q].at = "state" /\ login'[q].kind = "password"
    BY <1>1, <1>2, <2>1, <2>2 DEF CallOK, Claims, ResolvedSteps
  <2>3. CASE /\ login'[q].at = "resolve" /\ login'[q].kind = "code"
             /\ login'[q].handle \in 1 .. Len(issued)
    BY <1>1, <1>2, <2>1, <2>3 DEF CallOK, Claims, ResolvedSteps
  <2> QED
    BY <1>2, <2>2, <2>3
<1> QED
  BY <1>1, <1>2, <1>3, <1>4, CallMoves

(* A step that only moves a call on, or ends it. *)
LEMMA GotoClaims ==
  ASSUME ClaimsInv, NEW q \in Logins, UNCHANGED <<totpUse, issued, revokedAt, stepNow, stops>>,
         loginLog' \in Seq([outcome : {"failed", "succeeded"}, at : 0 .. MaxStep,
                            judged : BOOLEAN]),
         \/ LoginEnds(q)
         \/ \E at \in ResolvedSteps :
              /\ LoginGoto(q, at) /\ login[q].at # "idle"
              /\ at \in {"claimRead", "claimInsert"} =>
                   login[q].kind = "code" /\ login[q].code >= 0
              /\ at \in {"succeeded", "issue"} => login[q].kind = "password" \/ Claims(q)
              /\ at = "revoke" => login[q].kind = "code"
              /\ login[q].at = "resolve" =>
                   issued[login[q].handle].factor = "pending"
  PROVE  ClaimsInv'
<1>1. /\ TablesOK /\ Len(issued) \in Nat /\ login \in [Logins -> Calls(Len(issued))]
      /\ CallOK(q) /\ 0 \in Int /\ stepNow \in Nat
  BY LoginTypeParts, LoginAssumption DEF ClaimsInv, TablesOK
<1>2. TablesOK'
  BY <1>1 DEF TablesOK
<1>3. CASE LoginEnds(q)
  <2>1. /\ login' \in [Logins -> Calls(Len(issued))] /\ login'[q] = NoLogin
        /\ \A r \in Logins \ {q} : login'[r] = login[r]
    BY <1>1, <1>3, EndsFacts
  <2>2. LoginTypeOK'
    BY <1>2, <2>1, LoginTypePartsNext
  <2>3. CallOK(q)' /\ ~Claims(q)'
    BY <1>1, <2>1 DEF CallOK, Claims, NoLogin, ResolvedSteps
  <2> QED
    BY <2>1, <2>2, <2>3, CallMoves
<1>4. CASE ~LoginEnds(q)
  <2>1. PICK at \in ResolvedSteps :
              /\ LoginGoto(q, at) /\ login[q].at # "idle"
              /\ at \in {"claimRead", "claimInsert"} =>
                   login[q].kind = "code" /\ login[q].code >= 0
              /\ at \in {"succeeded", "issue"} => login[q].kind = "password" \/ Claims(q)
              /\ at = "revoke" => login[q].kind = "code"
              /\ login[q].at = "resolve" =>
                   issued[login[q].handle].factor = "pending"
    BY <1>4
  <2>2. at \in LoginSteps /\ at # "idle" /\ at # "resolve"
    BY DEF ResolvedSteps, LoginSteps
  <2>3. /\ login' \in [Logins -> Calls(Len(issued))]
        /\ login'[q].at = at /\ login'[q].kind = login[q].kind /\ login'[q].now = login[q].now
        /\ login'[q].handle = login[q].handle /\ login'[q].code = login[q].code
        /\ \A r \in Logins \ {q} : login'[r] = login[r]
    BY <1>1, <2>1, <2>2, GotoFacts
  <2>4. LoginTypeOK'
    BY <1>2, <2>3, LoginTypePartsNext
  <2>5. login[q].at \in {"resolve"} \cup ResolvedSteps
    BY <1>1, <2>1 DEF Calls, LoginSteps, ResolvedSteps
  <2>6. CallOK(q)'
    BY <1>1, <2>1, <2>2, <2>3, <2>5 DEF CallOK
  <2>7. Claims(q)' => Claims(q) /\ login'[q].code = login[q].code
    BY <2>1, <2>3 DEF Claims
  <2> QED
    BY <2>3, <2>4, <2>6, <2>7, CallMoves
<1> QED
  BY <1>3, <1>4

LEMMA RecordTryLog ==
  ASSUME LoginTypeOK, NEW outcome \in {"failed", "succeeded"}, NEW judged \in BOOLEAN,
         loginLog' = Append(loginLog, Attempt(outcome, judged))
  PROVE  /\ loginLog' \in Seq([outcome : {"failed", "succeeded"}, at : 0 .. MaxStep,
                               judged : BOOLEAN])
  BY DEF LoginTypeOK, Attempt

(* Every step of a call but the claim itself and the issue. *)
LEMMA HandlerClaims ==
  ASSUME ClaimsInv, NEW q \in Logins,
         \/ ResolvePending(q) \/ CheckThrottle(q) \/ ClaimRead(q)
         \/ RecordLocked(q) \/ RecordFailed(q) \/ RecordSucceeded(q)
  PROVE  ClaimsInv'
<1>1. LoginTypeOK /\ CallOK(q) /\ login[q].code \in Int /\ login[q].now \in Int
  BY LoginAssumption DEF ClaimsInv, LoginTypeOK
<1>2. UNCHANGED <<totpUse, issued, revokedAt, stepNow, stops>>
  BY DEF ResolvePending, CheckThrottle, ClaimRead, RecordLocked, RecordFailed, RecordSucceeded,
         RecordTry
<1>3. CASE ResolvePending(q)
  <2>1. loginLog' = loginLog /\ login[q].at = "resolve"
    BY <1>3 DEF ResolvePending
  <2>2. \/ LoginEnds(q)
        \/ LoginGoto(q, "state") /\ issued[login[q].handle].factor = "pending"
    BY <1>3 DEF ResolvePending
  <2> QED
    BY <1>1, <1>2, <2>1, <2>2, GotoClaims DEF ResolvedSteps, LoginTypeOK
<1>4. CASE CheckThrottle(q)
  <2>1. loginLog' = loginLog /\ login[q].at = "state"
    BY <1>4 DEF CheckThrottle
  <2>2. \/ LoginGoto(q, "locked") \/ LoginGoto(q, "failed")
        \/ LoginGoto(q, "succeeded") /\ login[q].kind = "password"
        \/ LoginGoto(q, "claimRead") /\ login[q].kind = "code" /\ login[q].code >= 0
    BY <1>1, <1>4, <2>1 DEF CheckThrottle, CallOK, CodeMatches
  <2> QED
    BY <1>1, <1>2, <2>1, <2>2, GotoClaims DEF ResolvedSteps, LoginTypeOK
<1>5. CASE ClaimRead(q)
  <2>1. loginLog' = loginLog /\ login[q].at = "claimRead"
    BY <1>5 DEF ClaimRead
  <2>2. LoginGoto(q, "failed") \/ LoginGoto(q, "claimInsert")
    BY <1>5 DEF ClaimRead
  <2>3. login[q].kind = "code" /\ login[q].code >= 0
    BY <1>1, <2>1 DEF CallOK
  <2> QED
    BY <1>1, <1>2, <2>1, <2>2, <2>3, GotoClaims DEF ResolvedSteps, LoginTypeOK
<1>6. CASE RecordLocked(q) \/ RecordFailed(q)
  <2>1. /\ loginLog' \in Seq([outcome : {"failed", "succeeded"}, at : 0 .. MaxStep,
                               judged : BOOLEAN])
        /\ LoginEnds(q)
    BY <1>1, <1>6, RecordTryLog DEF RecordLocked, RecordFailed, RecordTry
  <2> QED
    BY <1>2, <2>1, GotoClaims
<1>7. CASE RecordSucceeded(q)
  <2>1. /\ loginLog' \in Seq([outcome : {"failed", "succeeded"}, at : 0 .. MaxStep,
                               judged : BOOLEAN])
        /\ LoginGoto(q, "issue") /\ login[q].at = "succeeded"
    BY <1>1, <1>7, RecordTryLog DEF RecordSucceeded, RecordTry
  <2>2. login[q].kind = "password" \/ Claims(q)
    BY <1>1, <2>1 DEF CallOK, Claims
  <2> QED
    BY <1>1, <1>2, <2>1, <2>2, GotoClaims DEF ResolvedSteps
<1> QED
  BY <1>3, <1>4, <1>5, <1>6, <1>7

(* The claim: a row of a time step is inserted once. *)
LEMMA ClaimInsertClaims ==
  ASSUME ClaimsInv, NEW q \in Logins, ClaimInsert(q)
  PROVE  ClaimsInv'
<1> DEFINE c == login[q].code
<1>1. /\ TablesOK /\ Len(issued) \in Nat /\ login \in [Logins -> Calls(Len(issued))]
      /\ CallOK(q) /\ login[q].at = "claimInsert" /\ login[q].kind = "code"
      /\ c \in Int /\ c >= 0 /\ c <= MaxStep + 1 /\ MaxStep \in Nat
  BY CallFacts, TableFacts DEF ClaimsInv, ClaimInsert, CallOK
<1>2. /\ totpUse' = totpUse \cup {c}
      /\ UNCHANGED <<stepNow, loginLog, issued, revokedAt, stops>>
      /\ LoginGoto(q, IF c \in totpUse THEN "failed" ELSE "succeeded")
  BY DEF ClaimInsert
<1>3. /\ login' \in [Logins -> Calls(Len(issued))]
      /\ login'[q].at = IF c \in totpUse THEN "failed" ELSE "succeeded"
      /\ login'[q].kind = login[q].kind /\ login'[q].now = login[q].now
      /\ login'[q].handle = login[q].handle /\ login'[q].code = login[q].code
      /\ \A r \in Logins \ {q} : login'[r] = login[r]
  <2>1. (IF c \in totpUse THEN "failed" ELSE "succeeded") \in LoginSteps
    BY DEF LoginSteps
  <2> QED
    BY <1>1, <1>2, <2>1, GotoFacts
<1>4. TablesOK'
  <2>1. totpUse' \subseteq 0 .. MaxStep + 1
    <3>1. c \in 0 .. MaxStep + 1
      BY <1>1
    <3>2. totpUse \subseteq 0 .. MaxStep + 1
      BY <1>1 DEF TablesOK
    <3> QED
      BY <1>2, <3>1, <3>2
  <2> QED
    BY <1>1, <1>2, <2>1 DEF TablesOK
<1>5. LoginTypeOK'
  BY <1>2, <1>3, <1>4, LoginTypePartsNext
<1>6. \A r \in Logins : CallOK(r)'
  <2>1. CallOK(q)'
    BY <1>1, <1>2, <1>3 DEF CallOK, ResolvedSteps
  <2>2. \A r \in Logins \ {q} : CallOK(r)'
    BY <1>2, <1>3 DEF ClaimsInv, CallOK
  <2> QED
    BY <2>1, <2>2
<1>7. OneSessionPerCode'
  BY <1>2 DEF ClaimsInv, OneSessionPerCode
<1>8. \A r \in Logins \ {q} : Claims(r)' <=> Claims(r)
  BY <1>3 DEF Claims
<1>9. Claims(q)' => c \notin totpUse
  BY <1>3 DEF Claims
<1>10. c \notin totpUse => \A i \in 1 .. Len(issued) : issued[i].code # c
  <2>1. ASSUME c \notin totpUse, NEW i \in 1 .. Len(issued) PROVE issued[i].code # c
    <3>1. issued[i].factor \in {"pending", "satisfied"}
      BY <1>1, TableFacts
    <3>2. CASE issued[i].factor = "pending"
      BY <3>2, <1>1 DEF ClaimsInv
    <3>3. CASE issued[i].factor = "satisfied"
      BY <3>3, <2>1 DEF ClaimsInv, OneSessionPerCode
    <3> QED
      BY <3>1, <3>2, <3>3
  <2> QED
    BY <2>1
<1>11. ASSUME NEW r \in Logins, Claims(r)'
       PROVE  /\ login'[r].code \in totpUse'
              /\ \A x \in Logins : x # r /\ Claims(x)' => login'[x].code # login'[r].code
              /\ \A i \in 1 .. Len(issued') : issued'[i].code # login'[r].code
  <2>1. CASE r = q
    <3>1. \A x \in Logins \ {q} : Claims(x)' => login'[x].code \in totpUse
      BY <1>3, <1>8 DEF ClaimsInv
    <3> QED
      BY <1>2, <1>3, <1>9, <1>10, <1>11, <2>1, <3>1
  <2>2. CASE r # q
    <3>1. Claims(r) /\ login'[r] = login[r] /\ login[r].code \in totpUse
      BY <1>3, <1>8, <1>11, <2>2 DEF ClaimsInv
    <3>2. \A x \in Logins \ {q} : x # r /\ Claims(x)' => login'[x].code # login'[r].code
      BY <1>3, <1>8, <3>1 DEF ClaimsInv
    <3>3. Claims(q)' => login'[q].code # login'[r].code
      BY <1>3, <1>9, <3>1
    <3>4. \A i \in 1 .. Len(issued') : issued'[i].code # login'[r].code
      BY <1>2, <3>1 DEF ClaimsInv
    <3> QED
      BY <1>2, <3>1, <3>2, <3>3, <3>4
  <2> QED
    BY <2>1, <2>2
<1>12. \A i \in 1 .. Len(issued') :
         /\ issued'[i].factor = "pending" => issued'[i].code = -1
         /\ issued'[i].factor = "satisfied" => issued'[i].from \in 1 .. Len(issued')
  BY <1>2 DEF ClaimsInv
<1> QED
  BY <1>5, <1>6, <1>7, <1>11, <1>12 DEF ClaimsInv

(* The claim is used for one session. *)
LEMMA IssueClaims ==
  ASSUME ClaimsInv, NEW q \in Logins, IssueSession(q)
  PROVE  ClaimsInv'
<1> DEFINE n == Len(issued)
           new == issued'[n + 1]
<1>1. /\ TablesOK /\ n \in Nat /\ login \in [Logins -> Calls(n)]
      /\ CallOK(q) /\ login[q].at = "issue" /\ login[q].kind \in {"password", "code"}
      /\ login[q].handle \in Nat /\ login[q].code \in Int
  BY CallFacts, TableFacts DEF ClaimsInv, IssueSession, CallOK
<1>2. UNCHANGED <<stepNow, loginLog, totpUse, revokedAt, stops>>
  BY DEF IssueSession
<1>3. /\ issued' \in Seq([factor : {"pending", "satisfied"}, from : Nat, code : Int])
      /\ Len(issued') = n + 1
      /\ \A i \in 1 .. n : issued'[i] = issued[i]
      /\ new = IF login[q].kind = "password" THEN [factor |-> "pending", from |-> 0, code |-> -1]
               ELSE [factor |-> "satisfied", from |-> login[q].handle, code |-> login[q].code]
  <2> DEFINE R == [factor : {"pending", "satisfied"}, from : Nat, code : Int]
             x == IF login[q].kind = "password"
                  THEN [factor |-> "pending", from |-> 0, code |-> -1]
                  ELSE [factor |-> "satisfied", from |-> login[q].handle, code |-> login[q].code]
  <2>1. x \in R /\ issued \in Seq(R)
    BY <1>1 DEF TablesOK
  <2>2. issued' = Append(issued, x)
    BY DEF IssueSession
  <2> HIDE DEF R, x
  <2>3. /\ issued' \in Seq(R) /\ Len(issued') = n + 1 /\ issued'[n + 1] = x
        /\ \A i \in 1 .. n : issued'[i] = issued[i]
    BY <2>1, <2>2
  <2> QED
    BY <2>3 DEF R, x
<1>4. /\ login' \in [Logins -> Calls(n)]
      /\ \A r \in Logins \ {q} : login'[r] = login[r]
      /\ \/ login'[q] = NoLogin
         \/ /\ login[q].kind = "code" /\ login'[q].at = "revoke"
            /\ login'[q].kind = login[q].kind /\ login'[q].now = login[q].now
            /\ login'[q].handle = login[q].handle
  <2>1. LoginEnds(q) \/ (login[q].kind = "code" /\ LoginGoto(q, "revoke"))
    BY <1>1 DEF IssueSession
  <2>2. "revoke" \in LoginSteps
    BY DEF LoginSteps
  <2>3. CASE LoginEnds(q)
    BY <1>1, <2>3, EndsFacts
  <2>4. CASE login[q].kind = "code" /\ LoginGoto(q, "revoke")
    BY <1>1, <2>2, <2>4, GotoFacts
  <2> QED
    BY <2>1, <2>3, <2>4
<1>5. LoginTypeOK'
  <2>1. TablesOK'
    BY <1>1, <1>2, <1>3 DEF TablesOK
  <2>2. Calls(n) \subseteq Calls(Len(issued'))
    BY <1>1, <1>3 DEF Calls
  <2>3. login' \in [Logins -> Calls(Len(issued'))]
    BY <1>4, <2>2
  <2> QED
    BY <2>1, <2>3, LoginTypePartsNext
<1>6. \A r \in Logins : CallOK(r)'
  <2>1. \A i \in 1 .. n : i \in 1 .. Len(issued') /\ issued'[i] = issued[i]
    BY <1>1, <1>3
  <2>2. CallOK(q)'
    <3>1. stepNow \in Nat
      BY <1>1, LoginAssumption DEF TablesOK
    <3>2. CASE login'[q] = NoLogin
      BY <3>1, <3>2, <1>2 DEF CallOK, NoLogin, ResolvedSteps
    <3>3. CASE login'[q] # NoLogin
      BY <1>1, <1>2, <1>4, <2>1, <3>3 DEF CallOK, ResolvedSteps
    <3> QED
      BY <3>2, <3>3
  <2>3. \A r \in Logins \ {q} : CallOK(r)'
    BY <1>2, <1>4, <2>1 DEF ClaimsInv, CallOK
  <2> QED
    BY <2>2, <2>3
<1>7. \A r \in Logins : Claims(r)' => r # q /\ Claims(r) /\ login'[r] = login[r]
  BY <1>4 DEF Claims, NoLogin
<1>8. login[q].kind = "code" =>
        /\ Claims(q) /\ login[q].code \in totpUse
        /\ login[q].handle \in 1 .. n /\ issued[login[q].handle].factor = "pending"
  BY <1>1 DEF Claims, ClaimsInv, CallOK, ResolvedSteps
<1>9. \A x \in totpUse : x # -1
  BY <1>1, LoginAssumption DEF TablesOK
<1>10. \A i \in 1 .. Len(issued') :
         /\ issued'[i].factor = "pending" => issued'[i].code = -1
         /\ issued'[i].factor = "satisfied" => issued'[i].from \in 1 .. Len(issued')
  <2>1. \A i \in 1 .. Len(issued') : i \in 1 .. n \/ i = n + 1
    BY <1>1, <1>3
  <2>2. /\ new.factor = "pending" => new.code = -1
        /\ new.factor = "satisfied" => new.from \in 1 .. n
    BY <1>1, <1>3, <1>8
  <2>3. \A i \in 1 .. n :
         /\ issued'[i].factor = "pending" => issued'[i].code = -1
         /\ issued'[i].factor = "satisfied" => issued'[i].from \in 1 .. n
    BY <1>3 DEF ClaimsInv
  <2>4. 1 .. n \subseteq 1 .. Len(issued')
    BY <1>1, <1>3
  <2> HIDE DEF new
  <2> QED
    BY <1>3, <2>1, <2>2, <2>3, <2>4 DEF new
<1>11. ASSUME NEW r \in Logins, Claims(r)'
       PROVE  /\ login'[r].code \in totpUse'
              /\ \A x \in Logins : x # r /\ Claims(x)' => login'[x].code # login'[r].code
              /\ \A i \in 1 .. Len(issued') : issued'[i].code # login'[r].code
  <2>1. /\ r # q /\ Claims(r) /\ login'[r] = login[r] /\ login[r].code \in totpUse
        /\ \A x \in Logins : x # r /\ Claims(x) => login[x].code # login[r].code
        /\ \A i \in 1 .. n : issued[i].code # login[r].code
    BY <1>7, <1>11 DEF ClaimsInv
  <2>2. new.code # login[r].code
    <3>1. CASE login[q].kind = "password"
      BY <1>3, <1>9, <2>1, <3>1
    <3>2. CASE login[q].kind = "code"
      BY <1>3, <1>8, <2>1, <3>2
    <3> QED
      BY <1>1, <3>1, <3>2
  <2>3. \A i \in 1 .. Len(issued') : i \in 1 .. n \/ i = n + 1
    BY <1>1, <1>3
  <2> QED
    BY <1>2, <1>3, <1>7, <2>1, <2>2, <2>3
<1>12. OneSessionPerCode'
  <2> SUFFICES ASSUME NEW i \in 1 .. n + 1, NEW j \in 1 .. n + 1,
                      issued'[i].factor = "satisfied"
               PROVE  /\ issued'[i].code \in totpUse'
                      /\ issued'[issued'[i].from].factor = "pending" /\ issued'[i].from < i
                      /\ i # j => issued'[j].code # issued'[i].code
    BY <1>3 DEF OneSessionPerCode
  <2>1. \A k \in 1 .. n + 1 : k \in 1 .. n \/ k = n + 1
    BY <1>1
  <2>2. CASE i \in 1 .. n
    <3>1. /\ issued'[i] = issued[i] /\ issued[i].factor = "satisfied"
          /\ issued[i].code \in totpUse
          /\ issued[issued[i].from].factor = "pending" /\ issued[i].from < i
          /\ \A k \in 1 .. n : i # k => issued[k].code # issued[i].code
      BY <1>3, <2>2 DEF ClaimsInv, OneSessionPerCode
    <3>2. issued[i].from \in 1 .. n
      BY <2>2, <3>1 DEF ClaimsInv
    <3>3. new.code # issued[i].code
      <4>1. CASE login[q].kind = "password"
        BY <1>3, <1>9, <3>1, <4>1
      <4>2. CASE login[q].kind = "code"
        BY <1>3, <1>8, <2>2, <4>2 DEF ClaimsInv
      <4> QED
        BY <1>1, <4>1, <4>2
    <3> QED
      BY <1>2, <1>3, <2>1, <3>1, <3>2, <3>3
  <2>3. CASE i = n + 1
    <3>1. login[q].kind = "code"
      BY <1>1, <1>3, <2>3
    <3>2. /\ new.from = login[q].handle /\ new.code = login[q].code
      BY <1>3, <3>1
    <3>3. \A k \in 1 .. n : issued'[k].code # login[q].code
      BY <1>3, <1>8, <3>1 DEF ClaimsInv
    <3>4. /\ issued'[login[q].handle].factor = "pending" /\ login[q].handle < i
      BY <1>1, <1>3, <1>8, <2>3, <3>1
    <3> QED
      BY <1>2, <1>8, <2>1, <2>3, <3>1, <3>2, <3>3, <3>4
  <2> QED
    BY <2>1, <2>2, <2>3
<1> QED
  BY <1>5, <1>6, <1>10, <1>11, <1>12 DEF ClaimsInv

LEMMA OtherClaims ==
  ASSUME ClaimsInv,
         \/ StepPasses \/ UNCHANGED loginVars
         \/ \E h \in 1 .. Len(issued) : Logout(h)
         \/ \E q \in Logins : RotatePending(q) \/ LoginStops(q)
  PROVE  ClaimsInv'
<1>1. /\ TablesOK /\ login \in [Logins -> Calls(Len(issued))] /\ Len(issued) \in Nat
      /\ stepNow \in Nat /\ MaxStep \in Nat
  BY LoginTypeParts, TableFacts DEF ClaimsInv
<1>2. /\ UNCHANGED <<totpUse, issued>>
      /\ stepNow' \in Nat /\ stepNow <= stepNow'
  BY <1>1 DEF StepPasses, loginVars, Logout, RotatePending, LoginStops
<1>3. /\ login' \in [Logins -> Calls(Len(issued))]
      /\ \A r \in Logins : login'[r] \in {login[r], NoLogin}
  <2>1. CASE \E q \in Logins : LoginEnds(q)
    BY <2>1, <1>1, EndsFacts
  <2>2. CASE UNCHANGED login
    BY <2>2, <1>1
  <2> QED
    BY <2>1, <2>2 DEF StepPasses, loginVars, Logout, RotatePending, LoginStops
<1>4. TablesOK'
  <2>1. revokedAt' \subseteq 1 .. Len(issued)
    <3>1. CASE \E q \in Logins : RotatePending(q)
      <4>1. PICK q \in Logins : RotatePending(q)
        BY <3>1
      <4>2. login[q].handle \in 1 .. Len(issued)
        BY <4>1 DEF RotatePending, ClaimsInv, CallOK, ResolvedSteps
      <4> QED
        BY <4>1, <4>2, <1>1 DEF RotatePending, TablesOK
    <3>2. CASE \E h \in 1 .. Len(issued) : Logout(h)
      BY <3>2, <1>1 DEF Logout, TablesOK
    <3> QED
      BY <3>1, <3>2, <1>1 DEF StepPasses, loginVars, LoginStops, TablesOK
  <2>2. stepNow' \in 0 .. MaxStep /\ stops' \in 0 .. MaxStops /\ loginLog' = loginLog
    BY <1>1, LoginAssumption
       DEF TablesOK, StepPasses, loginVars, Logout, RotatePending, LoginStops
  <2> QED
    BY <1>1, <1>2, <2>1, <2>2 DEF TablesOK
<1>5. LoginTypeOK'
  BY <1>2, <1>3, <1>4, LoginTypePartsNext
<1>6. ASSUME NEW r \in Logins PROVE CallOK(r)'
  <2>1. CASE login'[r] = NoLogin
    BY <2>1, <1>2 DEF CallOK, NoLogin, ResolvedSteps
  <2>2. CASE login'[r] = login[r]
    <3>1. login[r].now \in Nat /\ CallOK(r)
      BY CallFacts DEF ClaimsInv
    <3>2. login'[r].now <= stepNow'
      BY <1>1, <1>2, <2>2, <3>1 DEF CallOK
    <3> QED
      BY <1>2, <2>2, <3>1, <3>2 DEF CallOK
  <2> QED
    BY <1>3, <2>1, <2>2
<1>7. \A r \in Logins : Claims(r)' => Claims(r) /\ login'[r] = login[r]
  BY <1>3 DEF Claims, NoLogin
<1>8. OneSessionPerCode'
  BY <1>2 DEF ClaimsInv, OneSessionPerCode
<1> QED
  BY <1>2, <1>5, <1>6, <1>7, <1>8 DEF ClaimsInv

LEMMA LoginNextClaims ==
  ASSUME ClaimsInv, [LoginNext]_loginVars
  PROVE  ClaimsInv'
  BY BeginClaims, HandlerClaims, ClaimInsertClaims, IssueClaims, OtherClaims
     DEF LoginNext, LoginStep

(* Sign-ins, the throttle's log, the claims and the session table stay     *)
(* well-formed: every local of a sign-in under way refers to rows that     *)
(* exist.                                                                  *)
THEOREM LoginTyped == LoginSpec => []LoginTypeOK
<1>1. ClaimsInv => LoginTypeOK
  BY DEF ClaimsInv
<1> QED
  BY <1>1, LoginInitClaims, LoginNextClaims, PTL DEF LoginSpec

(* One code never signs in twice. *)
THEOREM OneSessionPerCodeHolds == LoginSpec => []OneSessionPerCode
<1>1. ClaimsInv => OneSessionPerCode
  BY DEF ClaimsInv
<1> QED
  BY <1>1, LoginInitClaims, LoginNextClaims, PTL DEF LoginSpec

-----------------------------------------------------------------------------
(* The throttle.                                                           *)

(* The judged tries that a row recorded now would be counted with, and the *)
(* calls that have passed the throttle and may still record a failure.     *)
JudgedBy(n, time) ==
  {i \in 1 .. n :
     /\ loginLog[i].judged /\ loginLog[i].at > time - Window
     /\ \A j \in i .. n : loginLog[j].outcome = "failed"}
JudgedNow == JudgedBy(Len(loginLog), stepNow)
Judging == {q \in Logins : login[q].at \in {"claimRead", "claimInsert", "failed"}}

ThrottleInv ==
  /\ JudgedTriesAreBounded
  /\ Cardinality(JudgedNow) + Cardinality(Judging) <= Threshold - 1 + Cardinality(Logins)

LEMMA JudgingFinite ==
  /\ Cardinality(Logins) \in Nat
  /\ IsFiniteSet(Judging) /\ Cardinality(Judging) \in Nat
  /\ Cardinality(Judging) <= Cardinality(Logins)
  /\ IsFiniteSet(Judging') /\ Cardinality(Judging') \in Nat
  /\ Cardinality(Judging') <= Cardinality(Logins)
<1>1. Judging \in SUBSET Logins /\ Judging' \in SUBSET Logins /\ IsFiniteSet(Logins)
  BY LoginAssumption DEF Judging
<1> QED
  BY <1>1, FS_Subset, FS_CardinalityType

LEMMA TriesFinite ==
  ASSUME NEW n \in Nat, NEW S \in SUBSET (1 .. n), NEW T \in SUBSET S
  PROVE  /\ IsFiniteSet(S) /\ IsFiniteSet(T)
         /\ Cardinality(S) \in Nat /\ Cardinality(T) \in Nat
         /\ Cardinality(T) <= Cardinality(S)
<1>1. IsFiniteSet(1 .. n)
  BY FS_Interval
<1>2. IsFiniteSet(S)
  BY <1>1, FS_Subset
<1> QED
  BY <1>2, FS_Subset, FS_CardinalityType

LEMMA LogFacts ==
  ASSUME TablesOK
  PROVE  /\ Len(loginLog) \in Nat
         /\ \A i \in 1 .. Len(loginLog) :
              /\ loginLog[i].outcome \in {"failed", "succeeded"}
              /\ loginLog[i].at \in Nat /\ loginLog[i].judged \in BOOLEAN
<1> DEFINE R == [outcome : {"failed", "succeeded"}, at : 0 .. MaxStep, judged : BOOLEAN]
<1>1. loginLog \in Seq(R)
  BY DEF TablesOK
<1>2. \A x \in R : /\ x.outcome \in {"failed", "succeeded"} /\ x.at \in Nat
                     /\ x.judged \in BOOLEAN
  BY LoginAssumption
<1> HIDE DEF R
<1>3. Len(loginLog) \in Nat /\ \A i \in 1 .. Len(loginLog) : loginLog[i] \in R
  BY <1>1
<1> QED
  BY <1>2, <1>3

LEMMA LoginInitThrottle == LoginInit => ThrottleInv
<1> SUFFICES ASSUME LoginInit PROVE ThrottleInv
  OBVIOUS
<1>1. JudgedNow = {} /\ 1 .. Len(loginLog) = {}
  BY DEF LoginInit, JudgedNow, JudgedBy
<1>2. Cardinality(JudgedNow) = 0
  BY <1>1, FS_EmptySet
<1>3. Cardinality(JudgedNow) + Cardinality(Judging) <= Threshold - 1 + Cardinality(Logins)
  BY <1>2, JudgingFinite, LoginAssumption
<1> QED
  BY <1>1, <1>3 DEF ThrottleInv, JudgedTriesAreBounded, JudgedTries

(* A step that records nothing and lets no call past the throttle. *)
LEMMA ThrottleQuiet ==
  ASSUME ClaimsInv, ThrottleInv, loginLog' = loginLog, stepNow' \in Nat, stepNow <= stepNow',
         Judging' \subseteq Judging
  PROVE  ThrottleInv'
<1>1. /\ TablesOK /\ stepNow \in Nat /\ Len(loginLog) \in Nat /\ Window \in Nat
      /\ \A i \in 1 .. Len(loginLog) : loginLog[i].at \in Nat
  BY LoginTypeParts, TableFacts, LogFacts, LoginAssumption DEF ClaimsInv
<1>2. JudgedNow' \subseteq JudgedNow
  BY <1>1 DEF JudgedNow, JudgedBy
<1>3. JudgedNow \in SUBSET (1 .. Len(loginLog))
  BY DEF JudgedNow, JudgedBy
<1>4. /\ Cardinality(JudgedNow') <= Cardinality(JudgedNow)
      /\ Cardinality(JudgedNow') \in Nat /\ Cardinality(JudgedNow) \in Nat
  BY <1>1, <1>2, <1>3, TriesFinite
<1>5. Cardinality(Judging') <= Cardinality(Judging)
  BY JudgingFinite, FS_Subset
<1>6. JudgedTriesAreBounded'
  BY DEF ThrottleInv, JudgedTriesAreBounded, JudgedTries
<1> QED
  BY <1>4, <1>5, <1>6, JudgingFinite, LoginAssumption DEF ThrottleInv

(* A call that passes the throttle found fewer failures than the threshold *)
(* in a window that covers the one that counts now.                        *)
LEMMA CheckThrottleInv ==
  ASSUME ClaimsInv, ThrottleInv, NEW q \in Logins, CheckThrottle(q)
  PROVE  ThrottleInv'
<1>1. /\ LoginTypeOK /\ TablesOK /\ stepNow \in Nat /\ Len(loginLog) \in Nat /\ Window \in Nat
      /\ \A i \in 1 .. Len(loginLog) : loginLog[i].at \in Nat
      /\ login[q].now \in Nat /\ login[q].now <= stepNow /\ Threshold \in Nat \ {0}
      /\ Len(issued) \in Nat /\ login \in [Logins -> Calls(Len(issued))]
  BY CallFacts, TableFacts, LogFacts, LoginAssumption DEF ClaimsInv, CallOK
<1>2. loginLog' = loginLog /\ stepNow' = stepNow /\ login[q].at = "state"
  BY DEF CheckThrottle
<1>3. CASE Locked(login[q].now)
  <2>1. LoginGoto(q, "locked")
    BY <1>3 DEF CheckThrottle
  <2>2. login'[q].at = "locked" /\ \A r \in Logins \ {q} : login'[r] = login[r]
    <3>1. "locked" \in LoginSteps
      BY DEF LoginSteps
    <3> QED
      BY <1>1, <2>1, <3>1, GotoFacts
  <2>3. Judging' \subseteq Judging
    BY <2>2 DEF Judging
  <2> QED
    BY <1>1, <1>2, <2>3, ThrottleQuiet
<1>4. CASE ~Locked(login[q].now)
  <2>1. JudgedNow \subseteq Failures(login[q].now)
    BY <1>1 DEF JudgedNow, JudgedBy, Failures
  <2>2. Failures(login[q].now) \in SUBSET (1 .. Len(loginLog))
    BY DEF Failures
  <2>3. /\ Cardinality(JudgedNow) <= Cardinality(Failures(login[q].now))
        /\ Cardinality(JudgedNow) \in Nat /\ Cardinality(Failures(login[q].now)) \in Nat
    BY <1>1, <2>1, <2>2, TriesFinite
  <2>4. Cardinality(JudgedNow) <= Threshold - 1
    BY <1>1, <1>4, <2>3 DEF Locked
  <2>5. JudgedNow' = JudgedNow
    BY <1>2 DEF JudgedNow, JudgedBy
  <2>6. JudgedTriesAreBounded'
    BY <1>2 DEF ThrottleInv, JudgedTriesAreBounded, JudgedTries
  <2> QED
    BY <1>1, <2>3, <2>4, <2>5, <2>6, JudgingFinite DEF ThrottleInv
<1> QED
  BY <1>3, <1>4

(* A recorded try moves from the calls under way to the rows. *)
LEMMA RecordInv ==
  ASSUME ClaimsInv, ThrottleInv, NEW q \in Logins,
         RecordLocked(q) \/ RecordFailed(q) \/ RecordSucceeded(q)
  PROVE  ThrottleInv'
<1> DEFINE n == Len(loginLog)
           new == loginLog'[n + 1]
<1>1. /\ LoginTypeOK /\ TablesOK /\ stepNow \in Nat /\ n \in Nat /\ Window \in Nat
      /\ Threshold \in Nat \ {0}
      /\ Len(issued) \in Nat /\ login \in [Logins -> Calls(Len(issued))]
  BY CallFacts, TableFacts, LogFacts, LoginAssumption DEF ClaimsInv
<1>2. /\ stepNow' = stepNow
      /\ \/ /\ login[q].at = "locked" /\ LoginEnds(q)
            /\ loginLog' = Append(loginLog, Attempt("failed", FALSE))
         \/ /\ login[q].at = "failed" /\ LoginEnds(q)
            /\ loginLog' = Append(loginLog, Attempt("failed", TRUE))
         \/ /\ login[q].at = "succeeded" /\ LoginGoto(q, "issue")
            /\ loginLog' = Append(loginLog, Attempt("succeeded", TRUE))
  BY DEF RecordLocked, RecordFailed, RecordSucceeded, RecordTry
<1>3. /\ Len(loginLog') = n + 1 /\ \A i \in 1 .. n : loginLog'[i] = loginLog[i]
      /\ \/ login[q].at = "locked" /\ new = Attempt("failed", FALSE)
         \/ login[q].at = "failed" /\ new = Attempt("failed", TRUE)
         \/ login[q].at = "succeeded" /\ new = Attempt("succeeded", TRUE)
  <2>1. ASSUME NEW x, loginLog' = Append(loginLog, x)
        PROVE  /\ Len(loginLog') = n + 1 /\ \A i \in 1 .. n : loginLog'[i] = loginLog[i]
               /\ new = x
    BY <1>1, <2>1 DEF TablesOK
  <2> QED
    BY <1>2, <2>1
<1>4. /\ login'[q].at \in {"idle", "issue"}
      /\ \A r \in Logins \ {q} : login'[r] = login[r]
  <2>1. CASE LoginEnds(q)
    BY <1>1, <2>1, EndsFacts DEF NoLogin
  <2>2. CASE LoginGoto(q, "issue")
    <3>1. "issue" \in LoginSteps
      BY DEF LoginSteps
    <3> QED
      BY <1>1, <2>2, <3>1, GotoFacts
  <2> QED
    BY <1>2, <2>1, <2>2
<1>5. Judging' = Judging \ {q}
  BY <1>4 DEF Judging
<1>6. JudgedNow \in SUBSET (1 .. n)
  BY DEF JudgedNow, JudgedBy
<1>7. IsFiniteSet(JudgedNow) /\ Cardinality(JudgedNow) \in Nat
  BY <1>1, <1>6, TriesFinite
<1>8. \A i \in 1 .. n + 1 : i \in 1 .. n \/ i = n + 1
  BY <1>1
<1>9. /\ Cardinality(JudgedNow') + Cardinality(Judging') <= Threshold - 1 + Cardinality(Logins)
      /\ Cardinality(JudgedNow') \in Nat
  <2>1. CASE login[q].at = "locked"
    <3>1. new.judged = FALSE /\ q \notin Judging
      BY <1>3, <2>1 DEF Attempt, Judging
    <3>2. JudgedNow' \subseteq JudgedNow
      <4>1. ASSUME NEW i \in JudgedNow' PROVE i \in JudgedNow
        <5>1. /\ i \in 1 .. n + 1 /\ loginLog'[i].judged /\ loginLog'[i].at > stepNow - Window
              /\ \A j \in i .. n + 1 : loginLog'[j].outcome = "failed"
          BY <4>1, <1>2, <1>3 DEF JudgedNow, JudgedBy
        <5>2. i \in 1 .. n
          BY <5>1, <3>1, <1>8
        <5>3. \A j \in i .. n : j \in i .. n + 1 /\ j \in 1 .. n
          BY <1>1, <5>2
        <5> QED
          BY <1>3, <5>1, <5>2, <5>3 DEF JudgedNow, JudgedBy
      <4> QED
        BY <4>1
    <3>3. Cardinality(JudgedNow') <= Cardinality(JudgedNow) /\ Cardinality(JudgedNow') \in Nat
      BY <1>1, <1>6, <3>2, TriesFinite
    <3>4. Judging' = Judging
      BY <1>5, <3>1
    <3> QED
      BY <1>1, <1>7, <3>3, <3>4, JudgingFinite DEF ThrottleInv
  <2>2. CASE login[q].at = "failed"
    <3>1. q \in Judging
      BY <2>2 DEF Judging
    <3>2. Cardinality(Judging') = Cardinality(Judging) - 1
      BY <1>5, <3>1, JudgingFinite, FS_RemoveElement
    <3>3. JudgedNow' \subseteq JudgedNow \cup {n + 1}
      <4>1. ASSUME NEW i \in JudgedNow', i # n + 1 PROVE i \in JudgedNow
        <5>1. /\ i \in 1 .. n + 1 /\ loginLog'[i].judged /\ loginLog'[i].at > stepNow - Window
              /\ \A j \in i .. n + 1 : loginLog'[j].outcome = "failed"
          BY <4>1, <1>2, <1>3 DEF JudgedNow, JudgedBy
        <5>2. i \in 1 .. n
          BY <5>1, <4>1, <1>8
        <5>3. \A j \in i .. n : j \in i .. n + 1 /\ j \in 1 .. n
          BY <1>1, <5>2
        <5> QED
          BY <1>3, <5>1, <5>2, <5>3 DEF JudgedNow, JudgedBy
      <4> QED
        BY <4>1
    <3>4. /\ IsFiniteSet(JudgedNow \cup {n + 1})
          /\ Cardinality(JudgedNow \cup {n + 1}) = Cardinality(JudgedNow) + 1
      <4>1. n + 1 \notin JudgedNow
        BY <1>1, <1>6
      <4> QED
        BY <1>7, <4>1, FS_AddElement
    <3>5. Cardinality(JudgedNow') <= Cardinality(JudgedNow) + 1 /\ Cardinality(JudgedNow') \in Nat
      <4>1. /\ Cardinality(JudgedNow') <= Cardinality(JudgedNow \cup {n + 1})
            /\ IsFiniteSet(JudgedNow')
        BY <3>3, <3>4, FS_Subset
      <4> QED
        BY <3>4, <4>1, FS_CardinalityType
    <3> QED
      BY <1>1, <1>7, <3>2, <3>5, JudgingFinite DEF ThrottleInv
  <2>3. CASE login[q].at = "succeeded"
    <3>1. new.outcome = "succeeded"
      BY <1>3, <2>3 DEF Attempt
    <3>2. JudgedNow' = {}
      <4>1. ASSUME NEW i \in JudgedNow' PROVE FALSE
        <5>1. i \in 1 .. n + 1 /\ \A j \in i .. n + 1 : loginLog'[j].outcome = "failed"
          BY <4>1, <1>3 DEF JudgedNow, JudgedBy
        <5>2. n + 1 \in i .. n + 1
          BY <5>1, <1>1
        <5> QED
          BY <5>1, <5>2, <3>1
      <4> QED
        BY <4>1
    <3>3. Cardinality(JudgedNow') = 0
      BY <3>2, FS_EmptySet
    <3> QED
      BY <1>1, <3>3, JudgingFinite
  <2> QED
    BY <1>2, <2>1, <2>2, <2>3
<1>10. JudgedTriesAreBounded'
  <2> SUFFICES ASSUME NEW m \in 1 .. n + 1
               PROVE  Cardinality({i \in 1 .. m :
                         /\ loginLog'[i].judged /\ loginLog'[i].at > loginLog'[m].at - Window
                         /\ \A j \in i .. m : loginLog'[j].outcome = "failed"})
                        <= Threshold - 1 + Cardinality(Logins)
    BY <1>3 DEF JudgedTriesAreBounded, JudgedTries
  <2>1. CASE m \in 1 .. n
    <3>1. \A i \in 1 .. m : loginLog'[i] = loginLog[i]
      BY <1>1, <1>3, <2>1
    <3>2. \A i \in 1 .. m : \A j \in i .. m : loginLog'[j] = loginLog[j]
      BY <1>1, <1>3, <2>1
    <3>3. {i \in 1 .. m :
              /\ loginLog'[i].judged /\ loginLog'[i].at > loginLog'[m].at - Window
              /\ \A j \in i .. m : loginLog'[j].outcome = "failed"} =
          {i \in 1 .. m :
              /\ loginLog[i].judged /\ loginLog[i].at > loginLog[m].at - Window
              /\ \A j \in i .. m : loginLog[j].outcome = "failed"}
      <4>1. loginLog'[m] = loginLog[m]
        BY <1>3, <2>1
      <4> QED
        BY <3>1, <3>2, <4>1
    <3> QED
      BY <2>1, <3>3 DEF ThrottleInv, JudgedTriesAreBounded, JudgedTries
  <2>2. CASE m = n + 1
    <3>1. loginLog'[m].at = stepNow
      BY <1>3, <2>2 DEF Attempt
    <3>2. JudgedNow' = {i \in 1 .. m :
                         /\ loginLog'[i].judged /\ loginLog'[i].at > loginLog'[m].at - Window
                         /\ \A j \in i .. m : loginLog'[j].outcome = "failed"}
      BY <1>2, <1>3, <2>2, <3>1 DEF JudgedNow, JudgedBy
    <3>3. Cardinality(JudgedNow') <= Threshold - 1 + Cardinality(Logins)
      BY <1>1, <1>9, JudgingFinite
    <3> QED
      BY <3>2, <3>3
  <2> QED
    BY <1>8, <2>1, <2>2
<1> QED
  BY <1>9, <1>10 DEF ThrottleInv

LEMMA LoginNextThrottle ==
  ASSUME ClaimsInv, ThrottleInv, [LoginNext]_loginVars
  PROVE  ThrottleInv'
<1>1. /\ LoginTypeOK /\ stepNow \in Nat /\ Len(issued) \in Nat
      /\ login \in [Logins -> Calls(Len(issued))]
  BY LoginTypeParts, TableFacts DEF ClaimsInv
<1>2. ASSUME NEW q \in Logins, BeginPassword(q) \/ BeginCode(q) PROVE ThrottleInv'
  <2>1. loginLog' = loginLog /\ stepNow' = stepNow
    BY <1>2 DEF BeginPassword, BeginCode
  <2>2. /\ login'[q].at \in {"state", "resolve"}
        /\ \A r \in Logins \ {q} : login'[r] = login[r]
    BY <1>1, <1>2, BeginFacts
  <2>3. Judging' \subseteq Judging
    BY <2>2 DEF Judging
  <2> QED
    BY <1>1, <2>1, <2>3, ThrottleQuiet
<1>3. ASSUME NEW q \in Logins, NEW at \in LoginSteps, LoginGoto(q, at) \/ LoginEnds(q),
             loginLog' = loginLog, stepNow' = stepNow,
             LoginGoto(q, at) => at \notin {"claimRead", "claimInsert", "failed"} \/ q \in Judging
      PROVE  ThrottleInv'
  <2>1. /\ login'[q].at = "idle" \/ (LoginGoto(q, at) /\ login'[q].at = at)
        /\ \A r \in Logins \ {q} : login'[r] = login[r]
    <3>1. CASE LoginGoto(q, at)
      BY <1>1, <1>3, <3>1, GotoFacts
    <3>2. CASE LoginEnds(q)
      BY <1>1, <3>2, EndsFacts DEF NoLogin
    <3> QED
      BY <1>3, <3>1, <3>2
  <2>2. Judging' \subseteq Judging
    BY <1>3, <2>1 DEF Judging
  <2> QED
    BY <1>1, <1>3, <2>2, ThrottleQuiet
<1>4. ASSUME NEW q \in Logins, ResolvePending(q) PROVE ThrottleInv'
  BY <1>3, <1>4 DEF ResolvePending, LoginSteps
<1>5. ASSUME NEW q \in Logins, ClaimRead(q) PROVE ThrottleInv'
  <2>1. q \in Judging
    BY <1>5 DEF ClaimRead, Judging
  <2> QED
    BY <1>3, <1>5, <2>1 DEF ClaimRead, LoginSteps
<1>6. ASSUME NEW q \in Logins, ClaimInsert(q) PROVE ThrottleInv'
  <2>1. q \in Judging
    BY <1>6 DEF ClaimInsert, Judging
  <2> QED
    BY <1>3, <1>6, <2>1 DEF ClaimInsert, LoginSteps
<1>7. ASSUME NEW q \in Logins, IssueSession(q) PROVE ThrottleInv'
  BY <1>3, <1>7 DEF IssueSession, LoginSteps
<1>8. ASSUME NEW q \in Logins, RotatePending(q) \/ LoginStops(q) PROVE ThrottleInv'
  <2>1. "idle" \in LoginSteps
    BY DEF LoginSteps
  <2> QED
    BY <1>3, <1>8, <2>1 DEF RotatePending, LoginStops
<1>9. CASE StepPasses \/ UNCHANGED loginVars \/ \E h \in 1 .. Len(issued) : Logout(h)
  <2>1. /\ loginLog' = loginLog /\ login' = login /\ stepNow' \in Nat /\ stepNow <= stepNow'
    BY <1>1, <1>9 DEF StepPasses, loginVars, Logout
  <2>2. Judging' \subseteq Judging
    BY <2>1 DEF Judging
  <2> QED
    BY <2>1, <2>2, ThrottleQuiet
<1> QED
  BY <1>2, <1>4, <1>5, <1>6, <1>7, <1>8, <1>9, CheckThrottleInv, RecordInv
     DEF LoginNext, LoginStep

(* Of the tries judged within a window, at most one per concurrent call    *)
(* goes beyond the threshold's last.                                       *)
THEOREM JudgedTriesAlwaysBounded == LoginSpec => []JudgedTriesAreBounded
<1>1. ThrottleInv => JudgedTriesAreBounded
  BY DEF ThrottleInv
<1> QED
  BY <1>1, LoginInitClaims, LoginNextClaims, LoginInitThrottle, LoginNextThrottle, PTL
     DEF LoginSpec

-----------------------------------------------------------------------------
(* Web sessions.                                                           *)

(* The session of a request that is about to touch it was resolved: it was *)
(* issued and its second factor was not pending, which never changes back. *)
TouchesLive(q) ==
  request[q].at = "touch" =>
    since[request[q].handle] # -1 /\ request[q].handle \notin pendingFactor

(* What the idle timeout rests on: each use left an activity row less than *)
(* Gap older than itself, and pending sessions have none.                  *)
SessionsInv ==
  /\ SessionsTypeOK
  /\ \A q \in Visits :
        /\ request[q].at # "idle" => request[q].handle \in Handles
        /\ TouchesLive(q)
  /\ \A h \in pendingFactor : since[h] # -1 /\ activity[h] = {}
  /\ \A h \in Handles :
        lastUse[h] # -1 => \E t \in activity[h] : t > lastUse[h] - Gap

(* GREATEST exists: the times of a session are finitely many. *)
LEMMA LatestIsGreatest ==
  ASSUME SessionsTypeOK, NEW h \in Handles, since[h] # -1
  PROVE  /\ Latest(h) \in activity[h] \cup {since[h]}
         /\ \A u \in activity[h] \cup {since[h]} : u <= Latest(h)
<1> DEFINE A == activity[h] \cup {since[h]}
           T == {t + 1 : t \in A}
<1>1. A \in SUBSET (0 .. MaxTick) /\ A # {} /\ MaxTick \in Nat
  BY SessionsAssumption DEF SessionsTypeOK
<1>2. T \in SUBSET (1 .. MaxTick + 1) /\ T # {} /\ MaxTick + 1 \in Nat
  BY <1>1
<1> HIDE DEF A
<1>3. PICK m \in T : \A k \in T : k <= m
  <2> HIDE DEF T
  <2> QED
    BY <1>2, LastExists
<1>4. PICK t \in A : m = t + 1
  OBVIOUS
<1>5. ASSUME NEW u \in A PROVE u <= t
  <2>1. u + 1 \in T /\ u \in Int /\ t \in Int
    BY <1>1
  <2>2. u + 1 <= t + 1
    BY <2>1, <1>3, <1>4
  <2> QED
    BY <2>1, <2>2
<1>6. Latest(h) = CHOOSE x \in A : \A u \in A : u <= x
  BY DEF Latest, A
<1>7. Latest(h) \in A /\ \A u \in A : u <= Latest(h)
  BY <1>5, <1>6
<1> QED
  BY <1>7 DEF A

LEMMA SessionsInitInv == SessionsInit => SessionsInv
  BY SessionsAssumption DEF SessionsInit, SessionsInv, SessionsTypeOK, NoRequest, TouchesLive

LEMMA SessionsNextInv ==
  ASSUME SessionsInv, [SessionsNext]_sessionVars
  PROVE  SessionsInv'
<1> USE SessionsAssumption DEF SessionsInv, SessionsTypeOK, TouchesLive, NoRequest
<1>1. ASSUME NEW h \in Handles, SessionIssued(h)
      PROVE  SessionsInv'
  BY <1>1 DEF SessionIssued
<1>2. ASSUME NEW h \in Handles, SessionRevoked(h)
      PROVE  SessionsInv'
  BY <1>2 DEF SessionRevoked
<1>3. ASSUME NEW q \in Visits, RequestBegins(q)
      PROVE  SessionsInv'
  BY <1>3 DEF RequestBegins
<1>4. ASSUME NEW q \in Visits, RequestResolves(q)
      PROVE  SessionsInv'
  BY <1>4 DEF RequestResolves, Resolvable
<1>5. ASSUME NEW q \in Visits, RequestTouches(q)
      PROVE  SessionsInv'
  BY <1>5 DEF RequestTouches
<1>6. ASSUME NEW q \in Visits, RequestStops(q)
      PROVE  SessionsInv'
  BY <1>6 DEF RequestStops
<1>7. CASE TickPasses
  BY <1>7 DEF TickPasses
<1>8. CASE UNCHANGED sessionVars
  BY <1>8 DEF sessionVars
<1> QED
  BY <1>1, <1>2, <1>3, <1>4, <1>5, <1>6, <1>7, <1>8 DEF SessionsNext

(* The sessions' types. *)
THEOREM SessionsTyped == SessionsSpec => []SessionsTypeOK
<1>1. SessionsInv => SessionsTypeOK
  BY DEF SessionsInv
<1> QED
  BY <1>1, SessionsInitInv, SessionsNextInv, PTL DEF SessionsSpec

(* Sessions live as long as they are used and no longer. *)
THEOREM SessionsKeepTimeHolds == SessionsSpec => []SessionsKeepTime
<1>1. SessionsInv => SessionsKeepTime
  <2> SUFFICES ASSUME SessionsInv PROVE SessionsKeepTime
    OBVIOUS
  <2>1. ASSUME NEW h \in Handles, since[h] # -1, h \notin ended, tick < since[h] + Absolute,
               tick - lastUse[h] <= Idle - Gap, lastUse[h] # -1
        PROVE  Resolvable(h, tick)
    <3>1. PICK t \in activity[h] : t > lastUse[h] - Gap
      BY <2>1 DEF SessionsInv
    <3>2. t <= Latest(h) /\ Latest(h) \in Int
      BY <2>1, LatestIsGreatest DEF SessionsInv, SessionsTypeOK
    <3> QED
      BY <2>1, <3>1, <3>2, SessionsAssumption DEF Resolvable, SessionsInv, SessionsTypeOK
  <2>2. ASSUME NEW h \in pendingFactor, since[h] + Idle <= tick
        PROVE  ~Resolvable(h, tick)
    <3>1. Latest(h) = since[h]
      BY LatestIsGreatest DEF SessionsInv, SessionsTypeOK
    <3> QED
      BY <2>2, <3>1, SessionsAssumption DEF Resolvable, SessionsInv, SessionsTypeOK
  <2> QED
    BY <2>1, <2>2 DEF SessionsKeepTime, UsedSessionLives, PendingSessionExpires
<1> QED
  BY <1>1, SessionsInitInv, SessionsNextInv, PTL DEF SessionsSpec

(* A dead session stays dead, but for a touch of a request that resolved   *)
(* it before.                                                              *)
LEMMA SessionsDieOnce ==
  ASSUME SessionsInv, SessionsInv', [SessionsNext]_sessionVars,
         NEW h \in Handles, since[h] # -1, ~Resolvable(h, tick), Resolvable(h, tick)'
  PROVE  /\ \E q \in Visits : request[q].at = "touch" /\ request[q].handle = h
         /\ h \notin ended /\ tick < since[h] + Absolute
<1> USE SessionsAssumption DEF SessionsInv, SessionsTypeOK
<1>1. since'[h] = since[h]
  BY DEF SessionsNext, sessionVars, SessionIssued, SessionRevoked, RequestBegins,
         RequestResolves, RequestTouches, RequestStops, TickPasses
<1>2. CASE \E q \in Visits : RequestTouches(q)
  <2>1. PICK q \in Visits : RequestTouches(q)
    BY <1>2
  <2>2. UNCHANGED <<tick, since, ended>>
    BY <2>1 DEF RequestTouches
  <2>3. h \notin ended /\ tick < since[h] + Absolute
    BY <2>2 DEF Resolvable
  <2>4. CASE request[q].handle # h
    <3>1. activity'[h] = activity[h]
      BY <2>1, <2>4 DEF RequestTouches
    <3>2. Latest(h)' = Latest(h)
      BY <2>2, <3>1 DEF Latest
    <3> QED
      BY <2>2, <3>2 DEF Resolvable
  <2> QED
    BY <2>1, <2>3, <2>4 DEF RequestTouches
<1>3. CASE ~(\E q \in Visits : RequestTouches(q))
  <2>1. activity'[h] = activity[h] /\ ended \subseteq ended' /\ tick' \in {tick, tick + 1}
    BY <1>3 DEF SessionsNext, sessionVars, SessionIssued, SessionRevoked, RequestBegins,
         RequestResolves, RequestStops, TickPasses
  <2>2. Latest(h)' = Latest(h)
    BY <1>1, <2>1 DEF Latest
  <2>3. Latest(h) \in Int /\ tick \in Int /\ since[h] \in Int
    BY LatestIsGreatest
  <2> QED
    BY <1>1, <2>1, <2>2, <2>3 DEF Resolvable
<1> QED
  BY <1>2, <1>3

(* Expiry and revocation are final. *)
THEOREM DeadSessionsStayDead == SessionsSpec => DeadSessionStaysDead
<1>1. SessionsInv /\ SessionsInv' /\ [SessionsNext]_sessionVars =>
        [\A h \in Handles :
           since[h] # -1 /\ ~Resolvable(h, tick) /\ Resolvable(h, tick)' =>
             /\ \E q \in Visits : request[q].at = "touch" /\ request[q].handle = h
             /\ h \notin ended /\ tick < since[h] + Absolute]_sessionVars
  BY SessionsDieOnce
<1> QED
  BY <1>1, SessionsInitInv, SessionsNextInv, PTL DEF SessionsSpec, DeadSessionStaysDead

-----------------------------------------------------------------------------
(* The demo budget.                                                        *)

(* Requests that may still issue a receipt on the reading they hold, and   *)
(* requests the halt guard has let through.                                *)
Granting == {c \in Clients : client[c] = "append" /\ ~AtLeast(reading[c], 95)}
Finalizing == {c \in Clients : client[c] \in {"finalizeRatio", "append"}}

(* What bounds a month: its events and the ones under way.  Only the       *)
(* current month's can still grow.                                         *)
BudgetInv ==
  /\ BudgetTypeOK
  /\ BudgetHolds
  /\ \A m \in 1 .. Months : m > month => granted[m] = 0 /\ refusals[m] = 0
  /\ granted[month] + Cardinality(Granting) <= Reaches(95) - 1 + Cardinality(Clients)
  /\ granted[month] + refusals[month] + Cardinality(Finalizing)
       <= Reaches(100) - 1 + Cardinality(Clients)

(* Reaches is the least count at or above the percentage, and never 0. *)
LEMMA BelowReaches ==
  ASSUME NEW percent \in {95, 100}
  PROVE  /\ Reaches(percent) \in Nat /\ Reaches(percent) >= 1
         /\ \A b \in Nat : ~AtLeast(b, percent) => b <= Reaches(percent) - 1
<1> DEFINE D == 100 * Unit
           N == percent * Ceiling
           Q == (N + D - 1) \div D
<1>1. D \in Nat /\ D >= 1 /\ N \in Nat /\ N >= 1
  BY BudgetAssumption
<1>2. \A b \in Nat : AtLeast(b, percent) <=> b * D >= N
  <2> SUFFICES ASSUME NEW b \in Nat PROVE AtLeast(b, percent) <=> b * D >= N
    OBVIOUS
  <2>1. 100 * b * Unit = b * (100 * Unit)
    BY BudgetAssumption
  <2> QED
    BY <2>1 DEF AtLeast
<1>3. Reaches(percent) = Q
  BY DEF Reaches
<1> HIDE DEF D, N
<1>4. Q \in Int /\ Q * D <= N + D - 1 /\ N + D - 1 < Q * D + D
  BY <1>1
<1> HIDE DEF Q
<1>5. Q >= 1
  <2>1. CASE Q <= 0
    <3>1. Q * D <= 0
      BY <2>1, <1>1, <1>4
    <3> QED
      BY <3>1, <1>1, <1>4
  <2> QED
    BY <2>1, <1>4
<1>6. ASSUME NEW b \in Nat, b * D < N PROVE b <= Q - 1
  <2>1. CASE b >= Q
    <3>1. b * D >= Q * D
      BY <2>1, <1>1, <1>4
    <3> QED
      BY <3>1, <1>1, <1>4, <1>6
  <2> QED
    BY <2>1, <1>4
<1>7. \A b \in Nat : b * D \in Nat
  BY <1>1
<1> QED
  BY <1>1, <1>2, <1>3, <1>4, <1>5, <1>6, <1>7

LEMMA ClientSetsFinite ==
  /\ IsFiniteSet(Clients) /\ Cardinality(Clients) \in Nat
  /\ \A S \in SUBSET Clients :
        IsFiniteSet(S) /\ Cardinality(S) \in Nat /\ Cardinality(S) <= Cardinality(Clients)
  BY FS_Subset, FS_CardinalityType, BudgetAssumption

(* A request that leaves a set of requests makes it one smaller. *)
LEMMA ClientLeaves ==
  ASSUME NEW S \in SUBSET Clients, NEW c \in S
  PROVE  Cardinality(S \ {c}) = Cardinality(S) - 1
  BY ClientSetsFinite, FS_RemoveElement

LEMMA BudgetInitInv == BudgetInit => BudgetInv
<1> SUFFICES ASSUME BudgetInit PROVE BudgetInv
  OBVIOUS
<1>1. BudgetTypeOK
  BY BudgetAssumption DEF BudgetInit, BudgetTypeOK
<1>2. Granting \in SUBSET Clients /\ Finalizing \in SUBSET Clients
  BY DEF Granting, Finalizing
<1>3. /\ Cardinality(Granting) \in Nat /\ Cardinality(Granting) <= Cardinality(Clients)
      /\ Cardinality(Finalizing) \in Nat /\ Cardinality(Finalizing) <= Cardinality(Clients)
      /\ Cardinality(Clients) \in Nat
  BY <1>2, ClientSetsFinite
<1>4. Reaches(95) - 1 \in Nat /\ Reaches(100) - 1 \in Nat
  BY BelowReaches
<1>5. \A m \in 1 .. Months : granted[m] = 0 /\ refusals[m] = 0
  BY DEF BudgetInit
<1>6. month \in 1 .. Months
  BY <1>1 DEF BudgetTypeOK
<1> QED
  BY <1>1, <1>3, <1>4, <1>5, <1>6
     DEF BudgetInv, BudgetHolds, ReceiptsAreBounded, SpendIsBounded

(* A step that appends no event and lets no request through. *)
LEMMA BudgetQuiet ==
  ASSUME BudgetInv, BudgetTypeOK', UNCHANGED <<month, granted, refusals>>,
         Granting' \subseteq Granting, Finalizing' \subseteq Finalizing
  PROVE  BudgetInv'
<1>1. Granting \in SUBSET Clients /\ Finalizing \in SUBSET Clients
  BY DEF Granting, Finalizing
<1>2. /\ Cardinality(Granting') <= Cardinality(Granting) /\ Cardinality(Granting') \in Nat
      /\ Cardinality(Finalizing') <= Cardinality(Finalizing)
      /\ Cardinality(Finalizing') \in Nat
      /\ Cardinality(Granting) \in Nat /\ Cardinality(Finalizing) \in Nat
      /\ Cardinality(Clients) \in Nat
  <2>1. IsFiniteSet(Granting) /\ IsFiniteSet(Finalizing)
    BY <1>1, ClientSetsFinite
  <2> QED
    BY <1>1, <2>1, FS_Subset, ClientSetsFinite
<1>3. Reaches(95) \in Nat /\ Reaches(100) \in Nat /\ UNCHANGED <<Reaches(95), Reaches(100)>>
  BY BelowReaches DEF Reaches
<1>4. granted[month] \in Nat /\ refusals[month] \in Nat
  BY DEF BudgetInv, BudgetTypeOK
<1>5. BudgetHolds'
  BY <1>3 DEF BudgetInv, BudgetHolds, ReceiptsAreBounded, SpendIsBounded, Reaches
<1> QED
  BY <1>2, <1>3, <1>4, <1>5 DEF BudgetInv

LEMMA BudgetNextTypes ==
  ASSUME BudgetTypeOK, [BudgetNext]_budgetVars
  PROVE  BudgetTypeOK'
<1> USE BudgetAssumption DEF BudgetTypeOK, ClientTo, ReadMeter, Billable
<1>1. CASE MonthTurns
  BY <1>1 DEF MonthTurns
<1>2. ASSUME NEW c \in Clients, OpenGuard(c) PROVE BudgetTypeOK'
  BY <1>2 DEF OpenGuard
<1>3. ASSUME NEW c \in Clients, OpenRatio(c) PROVE BudgetTypeOK'
  <2>1. granted[month] + refusals[month] \in Nat
    OBVIOUS
  <2>2. /\ month' \in 1 .. Months
        /\ granted' \in [1 .. Months -> Nat] /\ refusals' \in [1 .. Months -> Nat]
        /\ reading' \in [Clients -> Nat]
        /\ client' \in [Clients ->
             {"idle", "openRatio", "slow", "opened", "finalizeRatio", "append"}]
    BY <1>3, <2>1 DEF OpenRatio
  <2>3. \A d \in Clients : client'[d] = "slow" => AtLeast(reading'[d], 50)
    BY <1>3 DEF OpenRatio, Warns
  <2> QED
    BY <2>2, <2>3
<1>4. ASSUME NEW c \in Clients, OpenSlowed(c) PROVE BudgetTypeOK'
  BY <1>4 DEF OpenSlowed
<1>5. ASSUME NEW c \in Clients, FinalizeGuard(c) PROVE BudgetTypeOK'
  BY <1>5 DEF FinalizeGuard
<1>6. ASSUME NEW c \in Clients, FinalizeRatio(c) PROVE BudgetTypeOK'
  BY <1>6 DEF FinalizeRatio
<1>7. ASSUME NEW c \in Clients, AppendOutcome(c) PROVE BudgetTypeOK'
  <2>1. \A d \in Clients : client'[d] = "slow" => AtLeast(reading'[d], 50)
    BY <1>7 DEF AppendOutcome
  <2>2. /\ month' \in 1 .. Months /\ reading' \in [Clients -> Nat]
        /\ client' \in [Clients ->
             {"idle", "openRatio", "slow", "opened", "finalizeRatio", "append"}]
    BY <1>7 DEF AppendOutcome
  <2>3. granted' \in [1 .. Months -> Nat] /\ refusals' \in [1 .. Months -> Nat]
    <3>1. \/ granted' = [granted EXCEPT ![month] = @ + 1] /\ refusals' = refusals
          \/ refusals' = [refusals EXCEPT ![month] = @ + 1] /\ granted' = granted
      BY <1>7 DEF AppendOutcome
    <3>2. granted[month] + 1 \in Nat /\ refusals[month] + 1 \in Nat
      OBVIOUS
    <3> QED
      BY <3>1, <3>2
  <2> QED
    BY <2>1, <2>2, <2>3
<1>8. CASE UNCHANGED budgetVars
  BY <1>8 DEF budgetVars
<1> QED
  BY <1>1, <1>2, <1>3, <1>4, <1>5, <1>6, <1>7, <1>8 DEF BudgetNext

LEMMA BudgetNextInv ==
  ASSUME BudgetInv, [BudgetNext]_budgetVars
  PROVE  BudgetInv'
<1>0. BudgetTypeOK /\ BudgetTypeOK'
  BY BudgetNextTypes DEF BudgetInv
<1>a. /\ Granting \in SUBSET Clients /\ Finalizing \in SUBSET Clients
      /\ Granting' \in SUBSET Clients /\ Finalizing' \in SUBSET Clients
  BY DEF Granting, Finalizing
<1>b. /\ Cardinality(Granting) \in Nat /\ Cardinality(Finalizing) \in Nat
      /\ Cardinality(Granting') \in Nat /\ Cardinality(Finalizing') \in Nat
      /\ Cardinality(Granting') <= Cardinality(Clients)
      /\ Cardinality(Finalizing') <= Cardinality(Clients)
      /\ Cardinality(Clients) \in Nat
  BY <1>a, ClientSetsFinite
<1>c. /\ Reaches(95) - 1 \in Nat /\ Reaches(100) - 1 \in Nat
      /\ Reaches(95)' = Reaches(95) /\ Reaches(100)' = Reaches(100)
  BY BelowReaches DEF Reaches
<1>d. /\ granted[month] \in Nat /\ refusals[month] \in Nat
      /\ month \in 1 .. Months
  BY <1>0 DEF BudgetTypeOK
<1>1. CASE MonthTurns
  <2>1. month' = month + 1 /\ UNCHANGED <<granted, refusals>> /\ month' \in 1 .. Months
    BY <1>0, <1>1 DEF MonthTurns, BudgetTypeOK
  <2>2. granted'[month'] = 0 /\ refusals'[month'] = 0
    BY <2>1, <1>d DEF BudgetInv
  <2>3. BudgetHolds'
    BY <2>1, <1>c DEF BudgetInv, BudgetHolds, ReceiptsAreBounded, SpendIsBounded
  <2>4. \A m \in 1 .. Months : m > month' => granted'[m] = 0 /\ refusals'[m] = 0
    BY <2>1, <1>d DEF BudgetInv
  <2> QED
    BY <1>0, <1>b, <1>c, <2>2, <2>3, <2>4 DEF BudgetInv
<1>2. ASSUME NEW c \in Clients, OpenGuard(c) PROVE BudgetInv'
  <2>1. /\ Granting' \subseteq Granting /\ Finalizing' \subseteq Finalizing
        /\ UNCHANGED <<month, granted, refusals>>
    BY <1>0, <1>2 DEF OpenGuard, ClientTo, Granting, Finalizing, BudgetTypeOK, AtLeast
  <2> QED
    BY <1>0, <2>1, BudgetQuiet
<1>3. ASSUME NEW c \in Clients, OpenRatio(c) PROVE BudgetInv'
  <2>1. /\ Granting' \subseteq Granting /\ Finalizing' \subseteq Finalizing
        /\ UNCHANGED <<month, granted, refusals>>
    BY <1>0, <1>3 DEF OpenRatio, ClientTo, ReadMeter, Granting, Finalizing, BudgetTypeOK
  <2> QED
    BY <1>0, <2>1, BudgetQuiet
<1>4. ASSUME NEW c \in Clients, OpenSlowed(c) PROVE BudgetInv'
  <2>1. /\ Granting' \subseteq Granting /\ Finalizing' \subseteq Finalizing
        /\ UNCHANGED <<month, granted, refusals>>
    BY <1>0, <1>4 DEF OpenSlowed, ClientTo, Granting, Finalizing, BudgetTypeOK
  <2> QED
    BY <1>0, <2>1, BudgetQuiet
<1>5. ASSUME NEW c \in Clients, FinalizeGuard(c) PROVE BudgetInv'
  <2>1. /\ UNCHANGED <<month, granted, refusals>>
        /\ Granting' \subseteq Granting
    BY <1>0, <1>5 DEF FinalizeGuard, ClientTo, Granting, BudgetTypeOK
  <2>2. CASE Halted
    <3>1. Finalizing' \subseteq Finalizing
      BY <1>0, <1>5, <2>2 DEF FinalizeGuard, ClientTo, Finalizing, BudgetTypeOK
    <3> QED
      BY <1>0, <2>1, <3>1, BudgetQuiet
  <2>3. CASE ~Halted
    <3>1. granted[month] + refusals[month] <= Reaches(100) - 1
      BY <2>3, <1>d, BelowReaches DEF Halted, Billable
    <3>2. Granting' = Granting
      BY <1>0, <1>5 DEF FinalizeGuard, ClientTo, Granting, BudgetTypeOK
    <3>3. BudgetHolds'
      BY <2>1, <1>c DEF BudgetInv, BudgetHolds, ReceiptsAreBounded, SpendIsBounded
    <3>4. /\ granted'[month'] + Cardinality(Granting') <= Reaches(95) - 1 + Cardinality(Clients)
          /\ \A m \in 1 .. Months : m > month' => granted'[m] = 0 /\ refusals'[m] = 0
      BY <2>1, <3>2 DEF BudgetInv
    <3>5. granted'[month'] + refusals'[month'] + Cardinality(Finalizing')
            <= Reaches(100) - 1 + Cardinality(Clients)
      BY <2>1, <3>1, <1>b, <1>c, <1>d
    <3> QED
      BY <1>0, <1>c, <3>3, <3>4, <3>5 DEF BudgetInv
  <2> QED
    BY <2>2, <2>3
<1>6. ASSUME NEW c \in Clients, FinalizeRatio(c) PROVE BudgetInv'
  <2>1. UNCHANGED <<month, granted, refusals>>
    BY <1>6 DEF FinalizeRatio
  <2>2. Finalizing' = Finalizing
    BY <1>0, <1>6 DEF FinalizeRatio, ClientTo, Finalizing, BudgetTypeOK
  <2>3. CASE AtLeast(Billable(month), 95)
    <3>1. Granting' \subseteq Granting
      BY <1>0, <1>6, <2>3 DEF FinalizeRatio, ClientTo, ReadMeter, Granting, BudgetTypeOK, AtLeast
    <3> QED
      BY <1>0, <2>1, <2>2, <3>1, BudgetQuiet
  <2>4. CASE ~AtLeast(Billable(month), 95)
    <3>1. granted[month] + refusals[month] <= Reaches(95) - 1
      BY <2>4, <1>d, BelowReaches DEF Billable
    <3>2. BudgetHolds'
      BY <2>1, <1>c DEF BudgetInv, BudgetHolds, ReceiptsAreBounded, SpendIsBounded
    <3>3. /\ granted'[month'] + refusals'[month'] + Cardinality(Finalizing')
               <= Reaches(100) - 1 + Cardinality(Clients)
          /\ \A m \in 1 .. Months : m > month' => granted'[m] = 0 /\ refusals'[m] = 0
      BY <2>1, <2>2 DEF BudgetInv
    <3>4. granted'[month'] + Cardinality(Granting') <= Reaches(95) - 1 + Cardinality(Clients)
      BY <2>1, <3>1, <1>b, <1>c, <1>d
    <3> QED
      BY <1>0, <1>c, <3>2, <3>3, <3>4 DEF BudgetInv
  <2> QED
    BY <2>3, <2>4
<1>7. ASSUME NEW c \in Clients, AppendOutcome(c) PROVE BudgetInv'
  <2>1. c \in Finalizing /\ Finalizing' = Finalizing \ {c}
    BY <1>0, <1>7 DEF AppendOutcome, ClientTo, Finalizing, BudgetTypeOK
  <2>2. Cardinality(Finalizing') = Cardinality(Finalizing) - 1
    BY <2>1, <1>a, ClientLeaves
  <2>3. Granting' = Granting \ {c} /\ month' = month
    BY <1>0, <1>7 DEF AppendOutcome, ClientTo, Granting, BudgetTypeOK
  <2>4. \A m \in 1 .. Months : m # month => granted'[m] = granted[m] /\ refusals'[m] = refusals[m]
    BY <1>0, <1>7 DEF AppendOutcome, BudgetTypeOK
  <2>5. granted'[month] + refusals'[month] = granted[month] + refusals[month] + 1
    BY <1>0, <1>7, <1>d DEF AppendOutcome, BudgetTypeOK
  <2>6. granted'[month] + Cardinality(Granting') <= Reaches(95) - 1 + Cardinality(Clients)
    <3>1. CASE c \in Granting
      <4>1. Cardinality(Granting') = Cardinality(Granting) - 1
        BY <3>1, <2>3, <1>a, ClientLeaves
      <4>2. granted'[month] \in Nat /\ granted'[month] <= granted[month] + 1
        BY <1>0, <1>7, <1>d DEF AppendOutcome, BudgetTypeOK
      <4> QED
        BY <4>1, <4>2, <1>b, <1>c, <1>d DEF BudgetInv
    <3>2. CASE c \notin Granting
      <4>1. Granting' = Granting
        BY <3>2, <2>3
      <4>2. granted' = granted
        BY <3>2, <1>7 DEF AppendOutcome, Granting
      <4> QED
        BY <4>1, <4>2 DEF BudgetInv
    <3> QED
      BY <3>1, <3>2
  <2>7. granted'[month] + refusals'[month] + Cardinality(Finalizing')
          <= Reaches(100) - 1 + Cardinality(Clients)
    BY <2>2, <2>5, <1>b, <1>c, <1>d DEF BudgetInv
  <2>8. granted'[month] \in Nat /\ refusals'[month] \in Nat
    BY <1>0, <1>d, <2>3 DEF BudgetTypeOK
  <2>9. BudgetHolds'
    BY <2>4, <2>6, <2>7, <2>8, <1>b, <1>c, <1>d
       DEF BudgetInv, BudgetHolds, ReceiptsAreBounded, SpendIsBounded
  <2>10. \A m \in 1 .. Months : m > month' => granted'[m] = 0 /\ refusals'[m] = 0
    BY <2>3, <2>4, <1>d DEF BudgetInv
  <2> QED
    BY <1>0, <1>c, <2>3, <2>6, <2>7, <2>9, <2>10 DEF BudgetInv
<1>8. CASE UNCHANGED budgetVars
  <2>1. /\ Granting' \subseteq Granting /\ Finalizing' \subseteq Finalizing
        /\ UNCHANGED <<month, granted, refusals>>
    BY <1>8 DEF budgetVars, Granting, Finalizing, AtLeast
  <2> QED
    BY <1>0, <2>1, BudgetQuiet
<1> QED
  BY <1>1, <1>2, <1>3, <1>4, <1>5, <1>6, <1>7, <1>8 DEF BudgetNext

(* The demo's spend is bounded in every month. *)
THEOREM BudgetAlwaysHolds == BudgetSpec => []BudgetHolds
<1>1. BudgetInv => BudgetHolds
  BY DEF BudgetInv
<1> QED
  BY <1>1, BudgetInitInv, BudgetNextInv, PTL DEF BudgetSpec

-----------------------------------------------------------------------------
(* The rate limit.                                                         *)

(* The admissions of a network at or after an instant, and between two. *)
From(a, lo) == {i \in 1 .. Len(a) : a[i] >= lo}
Between(a, lo, hi) == {i \in 1 .. Len(a) : a[i] >= lo /\ a[i] < hi}

(* A network with a window: all its admissions are before the end, those   *)
(* in the window were counted, and the length before it holds at most the  *)
(* cap.                                                                    *)
FitsWindow(a, w) ==
  LET start == w.resetAt - WindowLength IN
  /\ \A i \in 1 .. Len(a) : a[i] < w.resetAt
  /\ Cardinality(From(a, start)) <= MaxPerWindow
  /\ Cardinality(From(a, start)) <= w.count
  /\ Cardinality(Between(a, start - WindowLength, start)) <= MaxPerWindow

(* A network whose window is over: nothing was let through now, and at     *)
(* most the cap within the last length.                                    *)
FitsNone(a, time) ==
  /\ \A i \in 1 .. Len(a) : a[i] < time
  /\ Cardinality(From(a, time - WindowLength)) <= MaxPerWindow

SpansFit(a) ==
  \A t \in 0 .. LastInstant :
    Cardinality(Between(a, t, t + WindowLength)) <= 2 * MaxPerWindow

(* A window that was dropped leaves what the next one needs to know. *)
RateInv ==
  /\ RateLimitTypeOK
  /\ \A n \in Networks :
       /\ SpansFit(admitted[n])
       /\ IF n \in DOMAIN windows THEN FitsWindow(admitted[n], windows[n])
          ELSE FitsNone(admitted[n], instant)

Instants == 0 .. LastInstant

LEMMA InstantsAreNumbers ==
  ASSUME NEW a \in Seq(Instants)
  PROVE  Len(a) \in Nat /\ \A i \in 1 .. Len(a) : a[i] \in Int
<1>1. \A i \in 1 .. Len(a) : a[i] \in Instants
  OBVIOUS
<1>2. \A x \in Instants : x \in Int
  BY RateLimitAssumption DEF Instants
<1>3. Len(a) \in Nat
  OBVIOUS
<1> QED
  BY <1>1, <1>2, <1>3, Zenon

LEMMA IndexSets ==
  ASSUME NEW a \in Seq(Instants), NEW S \in SUBSET (1 .. Len(a)), NEW T \in SUBSET S
  PROVE  /\ IsFiniteSet(S) /\ IsFiniteSet(T)
         /\ Cardinality(S) \in Nat /\ Cardinality(T) \in Nat
         /\ Cardinality(T) <= Cardinality(S)
<1>1. IsFiniteSet(1 .. Len(a))
  BY FS_Interval
<1>2. IsFiniteSet(S)
  BY <1>1, FS_Subset
<1> QED
  BY <1>2, FS_Subset, FS_CardinalityType

(* An admission adds at most one to any count of admissions. *)
LEMMA AdmissionCounts ==
  ASSUME NEW a \in Seq(Instants), NEW x \in Instants, NEW lo \in Int, NEW hi \in Int
  PROVE  LET b == Append(a, x) IN
         /\ b \in Seq(Instants) /\ Len(b) = Len(a) + 1
         /\ \A i \in 1 .. Len(a) : b[i] = a[i]
         /\ b[Len(b)] = x
         /\ Cardinality(From(b, lo)) <= Cardinality(From(a, lo)) + 1
         /\ x < lo => From(b, lo) = From(a, lo)
         /\ (x < lo \/ x >= hi) => Between(b, lo, hi) = Between(a, lo, hi)
<1> DEFINE b == Append(a, x)
<1>1. /\ b \in Seq(Instants) /\ Len(b) = Len(a) + 1
      /\ \A i \in 1 .. Len(a) : b[i] = a[i]
      /\ b[Len(b)] = x
  OBVIOUS
<1> HIDE DEF b
<1>2. 1 .. Len(b) = (1 .. Len(a)) \cup {Len(b)} /\ Len(a) \in Nat
  BY <1>1
<1>3. \A i \in 1 .. Len(a) : a[i] \in Int
  BY InstantsAreNumbers
<1>4. From(b, lo) \subseteq From(a, lo) \cup {Len(b)}
  BY <1>1, <1>2, <1>3 DEF From
<1>5. Cardinality(From(b, lo)) <= Cardinality(From(a, lo)) + 1
  <2>1. From(a, lo) \in SUBSET (1 .. Len(a)) /\ From(b, lo) \in SUBSET (1 .. Len(b))
    BY DEF From
  <2>2. IsFiniteSet(From(a, lo)) /\ Cardinality(From(a, lo)) \in Nat
    BY <2>1, IndexSets
  <2>3. /\ IsFiniteSet(From(a, lo) \cup {Len(b)})
        /\ Cardinality(From(a, lo) \cup {Len(b)}) <= Cardinality(From(a, lo)) + 1
        /\ Cardinality(From(a, lo) \cup {Len(b)}) \in Nat
    <3>1. /\ IsFiniteSet(From(a, lo) \cup {Len(b)})
          /\ Cardinality(From(a, lo) \cup {Len(b)}) =
               IF Len(b) \in From(a, lo) THEN Cardinality(From(a, lo))
               ELSE Cardinality(From(a, lo)) + 1
      BY <2>2, FS_AddElement
    <3> HIDE DEF b
    <3> QED
      BY <2>2, <3>1
  <2>4. Cardinality(From(b, lo)) <= Cardinality(From(a, lo) \cup {Len(b)})
    BY <1>4, <2>3, FS_Subset
  <2>5. Cardinality(From(b, lo)) \in Nat
    BY <2>1, <1>1, IndexSets
  <2> QED
    BY <2>2, <2>3, <2>4, <2>5
<1>6. x < lo => From(b, lo) = From(a, lo)
  BY <1>1, <1>2, <1>3 DEF From, Instants
<1>7. (x < lo \/ x >= hi) => Between(b, lo, hi) = Between(a, lo, hi)
  BY <1>1, <1>2, <1>3 DEF Between, Instants
<1> QED
  BY <1>1, <1>5, <1>6, <1>7 DEF b

(* What a new window needs to know of the past. *)
LEMMA WindowIsOver ==
  ASSUME NEW a \in Seq(Instants), NEW w \in Counts, NEW time \in Nat,
         FitsWindow(a, w), w.resetAt <= time
  PROVE  FitsNone(a, time)
<1> DEFINE start == w.resetAt - WindowLength
<1>1. w.resetAt \in Nat /\ WindowLength \in Nat
  BY RateLimitAssumption DEF Counts
<1>2. \A i \in 1 .. Len(a) : a[i] \in Int
  BY InstantsAreNumbers
<1>3. From(a, time - WindowLength) \subseteq From(a, start)
  BY <1>1, <1>2 DEF From
<1>4. From(a, start) \in SUBSET (1 .. Len(a))
  BY DEF From
<1>5. /\ Cardinality(From(a, time - WindowLength)) <= Cardinality(From(a, start))
      /\ Cardinality(From(a, time - WindowLength)) \in Nat
      /\ Cardinality(From(a, start)) \in Nat
  BY <1>3, <1>4, IndexSets
<1>6. Cardinality(From(a, time - WindowLength)) <= MaxPerWindow
  BY <1>5, RateLimitAssumption DEF FitsWindow
<1>7. \A i \in 1 .. Len(a) : a[i] < time
  BY <1>1, <1>2 DEF FitsWindow
<1> QED
  BY <1>6, <1>7 DEF FitsNone

(* Any span of one length that meets the current window. *)
LEMMA SpansMeetTwoWindows ==
  ASSUME NEW a \in Seq(Instants), NEW w \in Counts, FitsWindow(a, w),
         NEW t \in Int, t > w.resetAt - 2 * WindowLength
  PROVE  Cardinality(Between(a, t, t + WindowLength)) <= 2 * MaxPerWindow
<1> DEFINE start == w.resetAt - WindowLength
           A == From(a, start)
           B == Between(a, start - WindowLength, start)
           C == Between(a, t, t + WindowLength)
<1>1. w.resetAt \in Nat /\ WindowLength \in Nat /\ MaxPerWindow \in Nat
  BY RateLimitAssumption DEF Counts
<1>2. \A i \in 1 .. Len(a) : a[i] \in Int
  BY InstantsAreNumbers
<1>3. C \subseteq A \cup B
  BY <1>1, <1>2 DEF From, Between
<1>4. A \cup B \in SUBSET (1 .. Len(a)) /\ A \in SUBSET (A \cup B) /\ B \in SUBSET (A \cup B)
  BY DEF From, Between
<1>5. /\ Cardinality(C) <= Cardinality(A \cup B)
      /\ IsFiniteSet(A) /\ IsFiniteSet(B)
      /\ Cardinality(A) \in Nat /\ Cardinality(B) \in Nat /\ Cardinality(C) \in Nat
      /\ Cardinality(A \cup B) \in Nat
  BY <1>3, <1>4, IndexSets
<1>6. Cardinality(A) <= MaxPerWindow /\ Cardinality(B) <= MaxPerWindow
  BY DEF FitsWindow
<1> HIDE DEF A, B, C
<1>7. Cardinality(A \cup B) <= Cardinality(A) + Cardinality(B)
  <2>1. Cardinality(A \cup B) = Cardinality(A) + Cardinality(B) - Cardinality(A \cap B)
    BY <1>5, FS_Union
  <2>2. Cardinality(A \cap B) \in Nat
    BY <1>5, FS_Intersection, FS_CardinalityType
  <2> QED
    BY <1>5, <2>1, <2>2
<1>8. Cardinality(C) <= 2 * MaxPerWindow
  BY <1>1, <1>5, <1>6, <1>7
<1> QED
  BY <1>8 DEF C

(* The window a request begins, and the one it is counted in. *)
LEMMA FreshWindowFits ==
  ASSUME NEW a \in Seq(Instants), NEW time \in Instants, FitsNone(a, time),
         NEW b \in {a, Append(a, time)}, b # a => MaxPerWindow >= 1
  PROVE  FitsWindow(b, [count |-> 1, resetAt |-> time + WindowLength])
<1> DEFINE w == [count |-> 1, resetAt |-> time + WindowLength]
<1>1. /\ w.count = 1 /\ w.resetAt - WindowLength = time /\ w.resetAt = time + WindowLength
      /\ time \in Int /\ WindowLength \in Nat /\ WindowLength >= 1 /\ MaxPerWindow \in Nat
  BY RateLimitAssumption DEF Instants
<1>2. \A i \in 1 .. Len(a) : a[i] \in Int
  BY InstantsAreNumbers
<1>3. From(a, time) = {}
  BY <1>1, <1>2 DEF FitsNone, From
<1>4. Cardinality(From(a, time)) = 0
  BY <1>3, FS_EmptySet
<1>5. Between(a, time - WindowLength, time) \subseteq From(a, time - WindowLength)
  BY DEF Between, From
<1>6. Cardinality(Between(a, time - WindowLength, time)) <= MaxPerWindow
  <2>1. From(a, time - WindowLength) \in SUBSET (1 .. Len(a))
    BY DEF From
  <2>2. /\ Cardinality(Between(a, time - WindowLength, time))
             <= Cardinality(From(a, time - WindowLength))
        /\ Cardinality(Between(a, time - WindowLength, time)) \in Nat
        /\ Cardinality(From(a, time - WindowLength)) \in Nat
    BY <2>1, <1>5, IndexSets
  <2> QED
    BY <2>2, <1>1 DEF FitsNone
<1>7. CASE b = a
  <2>1. \A i \in 1 .. Len(a) : a[i] < w.resetAt
    BY <1>1, <1>2 DEF FitsNone
  <2> HIDE DEF w
  <2> QED
    BY <2>1, <1>1, <1>4, <1>6, <1>7 DEF FitsWindow
<1>8. CASE b = Append(a, time) /\ MaxPerWindow >= 1
  <2>1. /\ Len(b) = Len(a) + 1 /\ Len(a) \in Nat
        /\ \A i \in 1 .. Len(a) : b[i] = a[i]
        /\ b[Len(b)] = time
        /\ Cardinality(From(b, time)) <= Cardinality(From(a, time)) + 1
        /\ Between(b, time - WindowLength, time) = Between(a, time - WindowLength, time)
    <3>1. time - WindowLength \in Int /\ time >= time /\ Len(a) \in Nat
      BY <1>1, InstantsAreNumbers
    <3>2. Between(b, time - WindowLength, time) = Between(a, time - WindowLength, time)
      BY <1>1, <1>8, <3>1, AdmissionCounts
    <3> QED
      BY <1>1, <1>8, <3>1, <3>2, AdmissionCounts
  <2>2. \A i \in 1 .. Len(b) : b[i] < w.resetAt
    BY <2>1, <1>1, <1>2 DEF FitsNone
  <2>3. Cardinality(From(b, time)) <= 1
    BY <2>1, <1>4
  <2>4. Cardinality(From(b, time)) \in Nat
    <3>1. b \in Seq(Instants) /\ From(b, time) \in SUBSET (1 .. Len(b))
      BY <1>8 DEF From
    <3> QED
      BY <3>1, IndexSets
  <2>5. Cardinality(From(b, time)) <= MaxPerWindow
    BY <2>3, <2>4, <1>1, <1>8
  <2> HIDE DEF w
  <2> QED
    BY <2>1, <2>2, <2>3, <2>5, <1>1, <1>6 DEF FitsWindow
<1> QED
  BY <1>7, <1>8

LEMMA CountedWindowFits ==
  ASSUME NEW a \in Seq(Instants), NEW time \in Instants, NEW w \in Counts,
         FitsWindow(a, w), time < w.resetAt, w.resetAt <= time + WindowLength,
         NEW b \in {a, Append(a, time)}, b # a => w.count + 1 <= MaxPerWindow
  PROVE  FitsWindow(b, [w EXCEPT !.count = @ + 1])
<1> DEFINE v == [w EXCEPT !.count = @ + 1]
           start == w.resetAt - WindowLength
<1>1. /\ v.count = w.count + 1 /\ v.resetAt = w.resetAt /\ w.count \in Nat
      /\ w.resetAt \in Nat /\ time \in Int /\ WindowLength \in Nat /\ MaxPerWindow \in Nat
      /\ start \in Int /\ start <= time
  BY RateLimitAssumption DEF Counts, Instants
<1>2. From(a, start) \in SUBSET (1 .. Len(a))
  BY DEF From
<1>3. Cardinality(From(a, start)) \in Nat
  BY <1>2, IndexSets
<1> HIDE DEF v
<1>4. CASE b = a
  BY <1>1, <1>3, <1>4 DEF FitsWindow
<1>5. CASE b = Append(a, time) /\ w.count + 1 <= MaxPerWindow
  <2>1. /\ Len(b) = Len(a) + 1 /\ Len(a) \in Nat
        /\ \A i \in 1 .. Len(a) : b[i] = a[i]
        /\ b[Len(b)] = time
        /\ Cardinality(From(b, start)) <= Cardinality(From(a, start)) + 1
        /\ Between(b, start - WindowLength, start) = Between(a, start - WindowLength, start)
    <3>1. start - WindowLength \in Int /\ time >= start /\ Len(a) \in Nat
      BY <1>1, InstantsAreNumbers
    <3> HIDE DEF start
    <3>2. Between(b, start - WindowLength, start) = Between(a, start - WindowLength, start)
      BY <1>1, <1>5, <3>1, AdmissionCounts
    <3>3. /\ Len(b) = Len(a) + 1 /\ b[Len(b)] = time
          /\ \A i \in 1 .. Len(a) : b[i] = a[i]
          /\ Cardinality(From(b, start)) <= Cardinality(From(a, start)) + 1
      BY <1>1, <1>5, AdmissionCounts
    <3> QED
      BY <3>1, <3>2, <3>3
  <2>2. \A i \in 1 .. Len(b) : b[i] < w.resetAt
    <3>1. \A i \in 1 .. Len(a) : a[i] < w.resetAt
      BY DEF FitsWindow
    <3>2. \A i \in 1 .. Len(b) : i \in 1 .. Len(a) \/ i = Len(b)
      BY <2>1
    <3> QED
      BY <2>1, <3>1, <3>2
  <2>3. Cardinality(From(b, start)) \in Nat
    <3>1. b \in Seq(Instants) /\ From(b, start) \in SUBSET (1 .. Len(b))
      BY <1>5 DEF From
    <3> QED
      BY <3>1, IndexSets
  <2>4. /\ Cardinality(From(b, start)) <= w.count + 1
        /\ Cardinality(From(b, start)) <= MaxPerWindow
    BY <2>1, <2>3, <1>1, <1>3, <1>5 DEF FitsWindow
  <2> QED
    BY <2>1, <2>2, <2>4, <1>1 DEF FitsWindow
<1>6. b = a \/ (b = Append(a, time) /\ w.count + 1 <= MaxPerWindow)
  OBVIOUS
<1> QED
  BY <1>4, <1>5, <1>6

LEMMA RateInitInv == RateLimitInit => RateInv
<1> SUFFICES ASSUME RateLimitInit PROVE RateInv
  OBVIOUS
<1>1. RateLimitTypeOK
  BY RateLimitAssumption DEF RateLimitInit, RateLimitTypeOK
<1>2. \A n \in Networks : admitted[n] = <<>> /\ n \notin DOMAIN windows
  BY DEF RateLimitInit
<1>3. \A lo, hi : From(<<>>, lo) = {} /\ Between(<<>>, lo, hi) = {}
  BY DEF From, Between
<1>4. Cardinality({}) = 0 /\ 0 <= MaxPerWindow /\ 0 <= 2 * MaxPerWindow
  BY FS_EmptySet, RateLimitAssumption
<1>5. SpansFit(<<>>)
  BY <1>3, <1>4 DEF SpansFit
<1>6. FitsNone(<<>>, instant)
  <2>1. 1 .. Len(<<>>) = {}
    OBVIOUS
  <2> QED
    BY <1>3, <1>4, <2>1 DEF FitsNone
<1> QED
  BY <1>1, <1>2, <1>5, <1>6 DEF RateInv

(* Time takes admissions out of the last length, and adds none. *)
LEMMA QuietStaysQuiet ==
  ASSUME NEW a \in Seq(Instants), NEW time \in Nat, NEW later \in Nat, time <= later,
         FitsNone(a, time)
  PROVE  FitsNone(a, later)
<1>1. Len(a) \in Nat /\ \A i \in 1 .. Len(a) : a[i] \in Int
  BY InstantsAreNumbers
<1>2. WindowLength \in Nat /\ MaxPerWindow \in Nat
  BY RateLimitAssumption
<1>3. From(a, later - WindowLength) \subseteq From(a, time - WindowLength)
  BY <1>1, <1>2 DEF From
<1>4. From(a, time - WindowLength) \in SUBSET (1 .. Len(a))
  BY DEF From
<1>5. /\ Cardinality(From(a, later - WindowLength)) <= Cardinality(From(a, time - WindowLength))
      /\ Cardinality(From(a, later - WindowLength)) \in Nat
      /\ Cardinality(From(a, time - WindowLength)) \in Nat
  BY <1>3, <1>4, IndexSets
<1>6. Cardinality(From(a, later - WindowLength)) <= MaxPerWindow
  BY <1>2, <1>5 DEF FitsNone
<1>7. \A i \in 1 .. Len(a) : a[i] < later
  BY <1>1 DEF FitsNone
<1> QED
  BY <1>6, <1>7 DEF FitsNone

LEMMA InstantPassesInv ==
  ASSUME RateInv, InstantPasses
  PROVE  RateInv'
<1>1. /\ instant \in Nat /\ instant' = instant + 1 /\ UNCHANGED <<windows, admitted>>
      /\ admitted \in [Networks -> Seq(Instants)] /\ WindowLength \in Nat /\ MaxPerWindow \in Nat
  BY RateLimitAssumption DEF InstantPasses, RateInv, RateLimitTypeOK, Instants
<1>2. RateLimitTypeOK'
  BY RateLimitAssumption DEF InstantPasses, RateInv, RateLimitTypeOK, Counts
<1>3. ASSUME NEW n \in Networks, FitsNone(admitted[n], instant)
      PROVE  FitsNone(admitted[n], instant + 1)
  BY <1>1, <1>3, QuietStaysQuiet
<1> QED
  BY <1>1, <1>2, <1>3 DEF RateInv

(* The network whose request arrives, and its window after it. *)
LEMMA RequestCounted ==
  ASSUME RateInv, NEW n \in Networks, RequestArrives(n)
  PROVE  /\ Counted(n) \in Counts
         /\ Counted(n).resetAt > instant /\ Counted(n).resetAt <= instant + WindowLength
         /\ admitted'[n] \in {admitted[n], Append(admitted[n], instant)}
         /\ FitsWindow(admitted'[n], Counted(n))
         /\ SpansFit(admitted'[n])
<1> DEFINE a == admitted[n]
           b == admitted'[n]
           w == Counted(n)
<1>1. /\ a \in Seq(Instants) /\ instant \in Instants /\ instant \in Nat
      /\ WindowLength \in Nat \ {0} /\ MaxPerWindow \in Nat
  BY RateLimitAssumption DEF RateInv, RateLimitTypeOK, Instants
<1>2. b \in {a, Append(a, instant)} /\ (b # a => w.count <= MaxPerWindow)
  <2>1. w.count \in Int /\ MaxPerWindow \in Int
    <3>1. w = [count |-> 1, resetAt |-> instant + WindowLength]
            \/ (n \in DOMAIN windows /\ w = [windows[n] EXCEPT !.count = @ + 1])
      BY DEF Counted
    <3>2. n \in DOMAIN windows => windows[n] \in Counts
      BY DEF RateInv, RateLimitTypeOK
    <3> QED
      BY <3>1, <3>2, <1>1 DEF Counts
  <2>2. admitted' = IF w.count > MaxPerWindow THEN admitted
                    ELSE [admitted EXCEPT ![n] = Append(@, instant)]
    BY DEF RequestArrives
  <2>3. admitted \in [Networks -> Seq(0 .. LastInstant)]
    BY DEF RateInv, RateLimitTypeOK
  <2> HIDE DEF w
  <2> QED
    BY <2>1, <2>2, <2>3
<1>3. ASSUME n \in DOMAIN windows, instant < windows[n].resetAt
      PROVE  /\ w \in Counts /\ w.resetAt > instant /\ w.resetAt <= instant + WindowLength
             /\ FitsWindow(b, w)
  <2>1. w = [windows[n] EXCEPT !.count = @ + 1]
    BY <1>3 DEF Counted
  <2>2. /\ windows[n] \in Counts /\ windows[n].resetAt <= instant + WindowLength
        /\ FitsWindow(a, windows[n])
    BY <1>3 DEF RateInv, RateLimitTypeOK
  <2>3. /\ w.count = windows[n].count + 1 /\ w.resetAt = windows[n].resetAt
        /\ w.count <= MaxPerWindow + 1
    BY <2>1, <2>2 DEF Counts, RequestArrives
  <2>4. w \in Counts
    BY <2>1, <2>2, <2>3, <1>1 DEF Counts
  <2>5. FitsWindow(b, w)
    BY <1>1, <1>2, <1>3, <2>1, <2>2, <2>3, CountedWindowFits
  <2> QED
    BY <1>3, <2>2, <2>3, <2>4, <2>5
<1>4. ASSUME ~(n \in DOMAIN windows /\ instant < windows[n].resetAt)
      PROVE  /\ w \in Counts /\ w.resetAt > instant /\ w.resetAt <= instant + WindowLength
             /\ FitsWindow(b, w)
  <2>1. w = [count |-> 1, resetAt |-> instant + WindowLength]
    BY <1>4 DEF Counted
  <2>2. FitsNone(a, instant)
    <3>1. CASE n \in DOMAIN windows
      <4>1. windows[n] \in Counts /\ FitsWindow(a, windows[n])
        BY <3>1 DEF RateInv, RateLimitTypeOK
      <4>2. windows[n].resetAt <= instant
        BY <4>1, <3>1, <1>1, <1>4 DEF Counts
      <4> QED
        BY <4>1, <4>2, <1>1, WindowIsOver
    <3>2. CASE n \notin DOMAIN windows
      BY <3>2 DEF RateInv
    <3> QED
      BY <3>1, <3>2
  <2>3. w.count = 1 /\ w.resetAt = instant + WindowLength
    BY <2>1
  <2>4. b # a => MaxPerWindow >= 1
    BY <1>1, <1>2, <2>3
  <2>5. FitsWindow(b, w)
    BY <1>1, <1>2, <2>1, <2>2, <2>4, FreshWindowFits
  <2>6. w \in Counts
    BY <2>1, <1>1 DEF Counts
  <2> QED
    BY <2>3, <2>5, <2>6, <1>1
<1>5. /\ w \in Counts /\ w.resetAt > instant /\ w.resetAt <= instant + WindowLength
      /\ FitsWindow(b, w)
  BY <1>3, <1>4
<1>6. SpansFit(b)
  <2> SUFFICES ASSUME NEW t \in 0 .. LastInstant
               PROVE  Cardinality(Between(b, t, t + WindowLength)) <= 2 * MaxPerWindow
    BY DEF SpansFit
  <2>1. b \in Seq(Instants) /\ t \in Int /\ t + WindowLength \in Int /\ w.resetAt \in Int
    <3>1. Append(a, instant) \in Seq(Instants)
      BY <1>1
    <3>2. t \in Int /\ t + WindowLength \in Int /\ w.resetAt \in Int
      BY <1>1, <1>5, RateLimitAssumption DEF Counts
    <3> QED
      BY <3>1, <3>2, <1>1, <1>2
  <2>2. CASE t > w.resetAt - 2 * WindowLength
    <3> HIDE DEF b, w
    <3> QED
      BY <2>1, <2>2, <1>5, SpansMeetTwoWindows
  <2>3. CASE ~(t > w.resetAt - 2 * WindowLength)
    <3>1. instant >= t + WindowLength
      BY <2>1, <2>3, <1>1, <1>5
    <3>2. Between(b, t, t + WindowLength) = Between(a, t, t + WindowLength)
      <4>1. CASE b = a
        BY <4>1
      <4>2. CASE b = Append(a, instant)
        BY <4>2, <3>1, <2>1, <1>1, AdmissionCounts
      <4> QED
        BY <4>1, <4>2, <1>2
    <3>3. Cardinality(Between(a, t, t + WindowLength)) <= 2 * MaxPerWindow
      BY DEF RateInv, SpansFit
    <3> QED
      BY <3>2, <3>3
  <2> QED
    BY <2>2, <2>3
<1> QED
  BY <1>2, <1>5, <1>6

LEMMA RequestArrivesInv ==
  ASSUME RateInv, NEW n \in Networks, RequestArrives(n)
  PROVE  RateInv'
<1> DEFINE map == [m \in DOMAIN windows \cup {n} |->
                     IF m = n THEN Counted(n) ELSE windows[m]]
<1>1. /\ windows' = Evicted(map) /\ instant' = instant
      /\ \A m \in Networks \ {n} : admitted'[m] = admitted[m]
      /\ DOMAIN admitted' = Networks /\ instant \in Nat
  BY RateLimitAssumption DEF RequestArrives, RateInv, RateLimitTypeOK
<1>2. /\ Counted(n) \in Counts
      /\ Counted(n).resetAt > instant /\ Counted(n).resetAt <= instant + WindowLength
      /\ FitsWindow(admitted'[n], Counted(n)) /\ SpansFit(admitted'[n])
  BY RequestCounted
<1>3. /\ DOMAIN map = DOMAIN windows \cup {n}
      /\ map[n] = Counted(n)
      /\ \A m \in DOMAIN windows \ {n} : map[m] = windows[m]
  OBVIOUS
<1>4. \A m \in DOMAIN map :
        /\ m \in Networks /\ map[m] \in Counts
        /\ map[m].resetAt <= instant + WindowLength
  BY <1>2, <1>3 DEF RateInv, RateLimitTypeOK
<1> HIDE DEF map
<1>5. /\ DOMAIN windows' \subseteq DOMAIN map
      /\ \A m \in DOMAIN windows' : windows'[m] = map[m]
      /\ \A m \in DOMAIN map \ DOMAIN windows' : ~(instant < map[m].resetAt)
  BY <1>1 DEF Evicted, Restricted
<1>6. RateLimitTypeOK'
  <2>1. admitted' \in [Networks -> Seq(0 .. LastInstant)]
    BY DEF RequestArrives, RateInv, RateLimitTypeOK
  <2> QED
    BY <1>1, <1>4, <1>5, <2>1 DEF RateInv, RateLimitTypeOK, Counts
<1>7. ASSUME NEW m \in Networks
      PROVE  /\ SpansFit(admitted'[m])
             /\ IF m \in DOMAIN windows' THEN FitsWindow(admitted'[m], windows'[m])
                ELSE FitsNone(admitted'[m], instant')
  <2>1. CASE m = n
    <3>1. n \in DOMAIN windows'
      BY <1>2, <1>3, <1>5
    <3> QED
      BY <2>1, <3>1, <1>2, <1>3, <1>5
  <2>2. CASE m # n
    <3>1. /\ admitted'[m] = admitted[m] /\ SpansFit(admitted[m])
          /\ admitted[m] \in Seq(Instants)
      BY <2>2, <1>1 DEF RateInv, RateLimitTypeOK, Instants
    <3>2. CASE m \in DOMAIN windows'
      <4>1. m \in DOMAIN windows /\ windows'[m] = windows[m]
        BY <2>2, <3>2, <1>3, <1>5
      <4> QED
        BY <3>1, <3>2, <4>1 DEF RateInv
    <3>3. CASE m \notin DOMAIN windows' /\ m \in DOMAIN windows
      <4>1. /\ windows[m] \in Counts /\ FitsWindow(admitted[m], windows[m])
            /\ ~(instant < windows[m].resetAt)
        BY <2>2, <3>3, <1>3, <1>5 DEF RateInv, RateLimitTypeOK
      <4>2. windows[m].resetAt <= instant
        BY <4>1, <1>1 DEF Counts
      <4>3. FitsNone(admitted[m], instant)
        BY <4>1, <4>2, <3>1, <1>1, WindowIsOver
      <4> QED
        BY <3>1, <3>3, <4>3, <1>1
    <3>4. CASE m \notin DOMAIN windows' /\ m \notin DOMAIN windows
      BY <3>1, <3>4, <1>1 DEF RateInv
    <3> QED
      BY <3>2, <3>3, <3>4
  <2> QED
    BY <2>1, <2>2
<1> QED
  BY <1>6, <1>7 DEF RateInv

LEMMA RateNextInv ==
  ASSUME RateInv, [RateLimitNext]_rateVars
  PROVE  RateInv'
<1>1. CASE UNCHANGED rateVars
  BY <1>1 DEF rateVars, RateInv, RateLimitTypeOK, SpansFit, FitsWindow, FitsNone, From, Between
<1> QED
  BY <1>1, InstantPassesInv, RequestArrivesInv DEF RateLimitNext

(* At most twice the cap in any span of a window's length, and at most the *)
(* cap in the current window.                                              *)
THEOREM AdmissionAlwaysBounded == RateLimitSpec => []AdmissionIsBounded
<1>1. RateInv => AdmissionIsBounded
  <2> SUFFICES ASSUME RateInv, NEW n \in Networks
               PROVE  /\ \A t \in 0 .. LastInstant :
                           Cardinality({i \in 1 .. Len(admitted[n]) :
                             admitted[n][i] \in t .. t + WindowLength - 1}) <= 2 * MaxPerWindow
                      /\ n \in DOMAIN windows =>
                           Cardinality({i \in 1 .. Len(admitted[n]) :
                             admitted[n][i] >= windows[n].resetAt - WindowLength}) <= MaxPerWindow
    BY DEF AdmissionIsBounded
  <2>1. ASSUME NEW t \in 0 .. LastInstant
        PROVE  Between(admitted[n], t, t + WindowLength) =
                 {i \in 1 .. Len(admitted[n]) : admitted[n][i] \in t .. t + WindowLength - 1}
    <3>1. admitted[n] \in Seq(Instants)
      BY DEF RateInv, RateLimitTypeOK, Instants
    <3>2. \A i \in 1 .. Len(admitted[n]) : admitted[n][i] \in Int
      BY <3>1, InstantsAreNumbers
    <3> QED
      BY <3>2, RateLimitAssumption DEF Between
  <2>2. \A t \in 0 .. LastInstant :
          Cardinality(Between(admitted[n], t, t + WindowLength)) <= 2 * MaxPerWindow
    BY DEF RateInv, SpansFit
  <2>3. n \in DOMAIN windows =>
          Cardinality(From(admitted[n], windows[n].resetAt - WindowLength)) <= MaxPerWindow
    BY DEF RateInv, FitsWindow
  <2> QED
    BY <2>1, <2>2, <2>3 DEF From
<1> QED
  BY <1>1, RateInitInv, RateNextInv, PTL DEF RateLimitSpec
=============================================================================
