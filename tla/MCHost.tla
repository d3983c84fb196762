------------------------------- MODULE MCHost -------------------------------
(***************************************************************************)
(* Small instances of what the host's routes do: the submission routes,    *)
(* sign-in, web sessions, the demo budget and the rate limit.  In the      *)
(* model they share no state, so a behaviour is of one of them.  Of        *)
(* sign-in it has either the second factor within one time step or         *)
(* passwords while time passes; of the submission routes either one        *)
(* attempt with everything else, or two attempts of one artifact within    *)
(* one second.  Its steps are steps of those modules with the constants of *)
(* the configuration.                                                      *)
(***************************************************************************)
EXTENDS Submission, Login, Sessions, Budget, RateLimit, TLC

CONSTANTS a1, r1, d1, d2, b1, b2

VARIABLE topic

routeVars == <<loginVars, sessionVars, budgetVars, rateVars>>
hostVars == <<vars, routeVars, topic>>

OneReview == [a \in Attempts |-> r1]

\* Two bodies for the same attempt, one with two artifacts.
ManifestPair == (b1 :> <<d1>>) @@ (b2 :> <<d1, d2>>)

OneAttempt == INSTANCE Submission WITH
  Attempts <- {a1}, ReviewOf <- a1 :> r1

TwoAttempts == INSTANCE Submission WITH
  Digests <- {d1}, Bodies <- {b1}, Manifest <- b1 :> <<d1>>, MaxClock <- 0

MCInit ==
  /\ topic \in {"one attempt", "two attempts", "login", "clock", "sessions", "budget", "rate"}
  /\ Init /\ LoginInit /\ SessionsInit /\ BudgetInit /\ RateLimitInit

Submissions ==
  \/ topic = "one attempt" /\ OneAttempt!Next
  \/ topic = "two attempts" /\ TwoAttempts!Next

\* Sign-ins within one time step.
SecondFactor ==
  /\ topic = "login"
  /\ \/ \E q \in Logins : LoginStep(q) \/ LoginStops(q)
     \/ \E h \in 1 .. Len(issued) : Logout(h)

\* Passwords only, while time passes.
Passwords ==
  /\ topic = "clock"
  /\ \/ StepPasses
     \/ \E q \in Logins :
          \/ BeginPassword(q) \/ CheckThrottle(q) \/ RecordLocked(q) \/ RecordFailed(q)
          \/ RecordSucceeded(q) \/ IssueSession(q) \/ LoginStops(q)

Protections ==
  \/ (SecondFactor \/ Passwords) /\ UNCHANGED <<sessionVars, budgetVars, rateVars>>
  \/ topic = "sessions" /\ SessionsNext /\ UNCHANGED <<loginVars, budgetVars, rateVars>>
  \/ topic = "budget" /\ BudgetNext /\ UNCHANGED <<loginVars, sessionVars, rateVars>>
  \/ topic = "rate" /\ RateLimitNext /\ UNCHANGED <<loginVars, sessionVars, budgetVars>>

\* At the bounds of time, tries and counts the protections may rest; a
\* submission may not stop short of its reply.
Rests ==
  topic \notin {"one attempt", "two attempts"} /\ UNCHANGED routeVars

MCNext ==
  /\ UNCHANGED topic
  /\ \/ Submissions /\ UNCHANGED routeVars
     \/ (Protections \/ Rests) /\ UNCHANGED vars

MCSpec == MCInit /\ [][MCNext]_hostVars

\* Requests, calls and visits are interchangeable.
Symmetry == Permutations(Requests) \cup Permutations(Logins) \cup Permutations(Visits)
=============================================================================
