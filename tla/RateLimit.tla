----------------------------- MODULE RateLimit -----------------------------
(***************************************************************************)
(* The per-client request cap of the host (services/host/src/rate-limit.ts *)
(* registerRateLimit): a fixed window per client network, kept in a map    *)
(* that drops expired windows when it grows too large.  The hook has no    *)
(* await, so one request is one step.                                      *)
(***************************************************************************)
EXTENDS Integers, Sequences, FiniteSets

CONSTANTS
  Networks,       \* client networks: clientNetworkKey of the request's ip
  MaxPerWindow,   \* max
  WindowLength,   \* windowMs
  MapLimit,       \* the 1024 windows above which expired ones are dropped
  LastInstant,    \* bound: the clock
  MaxAdmitted     \* bound: requests admitted per network

ASSUME RateLimitAssumption ==
  /\ MaxPerWindow \in Nat /\ WindowLength \in Nat \ {0}
  /\ MapLimit \in Nat /\ LastInstant \in Nat /\ MaxAdmitted \in Nat

VARIABLES
  instant,
  windows,        \* the map: network to count and reset time
  admitted        \* history: when requests of each network were let through

rateVars == <<instant, windows, admitted>>

Counts == [count : 1 .. MaxPerWindow + 1, resetAt : Nat]

RateLimitTypeOK ==
  /\ instant \in 0 .. LastInstant
  /\ DOMAIN windows \subseteq Networks
  /\ \A n \in DOMAIN windows : windows[n] \in Counts /\ windows[n].resetAt <= instant + WindowLength
  /\ admitted \in [Networks -> Seq(0 .. LastInstant)]

RateLimitInit ==
  /\ instant = 0
  /\ windows = [n \in {} |-> 0]
  /\ admitted = [n \in Networks |-> <<>>]

(* The window of a network after this request is counted. *)
Counted(n) ==
  IF n \in DOMAIN windows /\ instant < windows[n].resetAt
  THEN [windows[n] EXCEPT !.count = @ + 1]
  ELSE [count |-> 1, resetAt |-> instant + WindowLength]

Restricted(map, keys) == [n \in keys |-> map[n]]

(* Mutant of Evicted: an over-full map is emptied. *)
EvictedAll(map) ==
  IF Cardinality(DOMAIN map) > MapLimit THEN Restricted(map, {}) ELSE map

(* An over-full map loses the windows that are over. *)
Evicted(map) ==
  IF Cardinality(DOMAIN map) > MapLimit
  THEN Restricted(map, {n \in DOMAIN map : instant < map[n].resetAt})
  ELSE map

(* A request over the limit is counted too, and answered 429. *)
RequestArrives(n) ==
  LET window == Counted(n)
      map == [m \in DOMAIN windows \cup {n} |-> IF m = n THEN window ELSE windows[m]]
  IN /\ Len(admitted[n]) < MaxAdmitted
     /\ window.count <= MaxPerWindow + 1
     /\ windows' = Evicted(map)
     /\ admitted' = IF window.count > MaxPerWindow THEN admitted
                    ELSE [admitted EXCEPT ![n] = Append(@, instant)]
     /\ UNCHANGED instant

InstantPasses ==
  /\ instant < LastInstant
  /\ instant' = instant + 1
  /\ UNCHANGED <<windows, admitted>>

RateLimitNext == InstantPasses \/ \E n \in Networks : RequestArrives(n)

RateLimitSpec == RateLimitInit /\ [][RateLimitNext]_rateVars

-----------------------------------------------------------------------------
(* What a fixed window promises although windows are dropped and begun     *)
(* anew: at most twice the cap within any span of one window's length, and *)
(* at most the cap within the current window.                              *)
AdmissionIsBounded ==
  \A n \in Networks :
    /\ \A t \in 0 .. LastInstant :
         Cardinality({i \in 1 .. Len(admitted[n]) :
                        admitted[n][i] \in t .. t + WindowLength - 1}) <= 2 * MaxPerWindow
    /\ n \in DOMAIN windows =>
         Cardinality({i \in 1 .. Len(admitted[n]) :
                        admitted[n][i] >= windows[n].resetAt - WindowLength}) <= MaxPerWindow
=============================================================================
