----------------------------- MODULE MCReviewer -----------------------------
(***************************************************************************)
(* A small instance of Reviewer for TLC.  Two drafts and passing seconds   *)
(* together are too many states, so a behaviour has either one draft and a *)
(* clock that moves, or two drafts within one second.  Either way its      *)
(* steps are steps of Reviewer with the constants of the configuration.    *)
(***************************************************************************)
EXTENDS Reviewer, TLC

CONSTANTS d1, s1, likely

VARIABLE topic

\* All drafts are of one draft set, so that their reads share a key.
OneSet == [d \in Drafts |-> s1]

Seconds == INSTANCE Reviewer WITH Drafts <- {d1}, SetOf <- [d \in {d1} |-> s1]

TwoDrafts == INSTANCE Reviewer WITH
  MaxClock <- 0, Judgments <- {likely}, Unsupported <- {}

MCInit == Init /\ topic \in {"seconds", "drafts"}

MCNext ==
  /\ UNCHANGED topic
  /\ \/ topic = "seconds" /\ Seconds!Next
     \/ topic = "drafts" /\ TwoDrafts!Next

MCSpec == MCInit /\ [][MCNext]_<<vars, topic>>

\* Requests and reviewers are interchangeable model values.
Symmetry == Permutations(Requests) \cup Permutations(Reviewers)
=============================================================================
