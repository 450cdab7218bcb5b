---------------------------- MODULE SlidingWindow ----------------------------
(***************************************************************************)
(* What the rate limiter promises, without saying how: "per api_key,       *)
(* rolling 60s window".  A call is allowed exactly when fewer than Limit   *)
(* calls of its key were allowed during the last Window ticks.             *)
(***************************************************************************)
EXTENDS Integers, Sequences, FiniteSets

CONSTANTS Keys,    \* rate-limit keys
          Limit,   \* Limit[k]: rate_limit_per_minute of the account behind k
          Window,  \* 60 s in ticks
          MaxTime  \* bound on the clock

VARIABLES now,       \* the monotonic clock
          admitted,  \* admitted[k]: the times at which k was allowed, in order
          answer     \* answer[k]: what the last call of k was told

Init == /\ now = 0
        /\ admitted = [k \in Keys |-> <<>>]
        /\ answer = [k \in Keys |-> "none"]

InWindow(k) == {i \in DOMAIN admitted[k] : admitted[k][i] > now - Window}

Allow(k) == /\ Cardinality(InWindow(k)) < Limit[k]
            /\ admitted' = [admitted EXCEPT ![k] = Append(@, now)]
            /\ answer' = [answer EXCEPT ![k] = "allowed"]
            /\ UNCHANGED now

(* A key that may never be allowed is refused too.                         *)
Deny(k) == /\ Cardinality(InWindow(k)) >= Limit[k]
           /\ answer' = [answer EXCEPT ![k] = "denied"]
           /\ UNCHANGED <<now, admitted>>

Tick == /\ now < MaxTime
        /\ now' = now + 1
        /\ UNCHANGED <<admitted, answer>>

Next == (\E k \in Keys : Allow(k) \/ Deny(k)) \/ Tick

Spec == Init /\ [][Next]_<<now, admitted, answer>>
=============================================================================
