--------------------------- MODULE ReviewHistory ---------------------------
(***************************************************************************)
(* What an append-only log promises (Architecture Rule 9, restated in      *)
(* packages/evidence-store/src/memory/append-only-log.ts): each review has *)
(* one sequence of events that only ever grows at its end, and an          *)
(* idempotency key occurs in it at most once.                              *)
(***************************************************************************)
EXTENDS Naturals, Sequences

CONSTANTS Reviews, Keys, Bodies

VARIABLE hist    \* the events of each review, oldest first

Init == hist = [r \in Reviews |-> <<>>]

Append1(r, k, b) ==
  /\ \A i \in 1 .. Len(hist[r]) : hist[r][i].key # k
  /\ hist' = [hist EXCEPT ![r] = Append(@, [key |-> k, body |-> b])]

Next == \E r \in Reviews, k \in Keys, b \in Bodies : Append1(r, k, b)

Spec == Init /\ [][Next]_hist
=============================================================================
