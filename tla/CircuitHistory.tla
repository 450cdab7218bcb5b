--------------------------- MODULE CircuitHistory ---------------------------
(***************************************************************************)
(* CircuitBreaker with a history variable: the outcomes of the last        *)
(* Threshold logical calls, in the order in which they were reported.  The *)
(* variable is written beside each step and read by none; it says what     *)
(* "consecutive" means independently of the counter the code keeps.        *)
(***************************************************************************)
EXTENDS CircuitBreaker, SequencesExt

VARIABLE outcomes

hvars == <<breaker, phase, age, outcomes>>

Remember(o) ==
  LET all == Append(outcomes, o)
  IN  outcomes' = IF Len(all) > Threshold THEN Tail(all) ELSE all

HInit == Init /\ outcomes = <<>>

HNext == \/ \E c \in Calls : \/ Succeed(c) /\ Remember("ok")
                             \/ Fail(c) /\ Remember("fail")
                             \/ (Admit(c) \/ Reject(c) \/ Cancel(c)) /\ UNCHANGED outcomes
         \/ Tick /\ UNCHANGED outcomes

HSpec == HInit /\ [][HNext]_hvars

(* How many of the last reported outcomes are failures without a success   *)
(* after them.                                                             *)
TrailingFailures ==
  CHOOSE n \in 0 .. Len(outcomes) :
    /\ \A i \in Len(outcomes) - n + 1 .. Len(outcomes) : outcomes[i] = "fail"
    /\ n < Len(outcomes) => outcomes[Len(outcomes) - n] = "ok"

(* consecutive_failures counts exactly the failures since the last success,*)
(* whichever calls they belong to, while the circuit is closed, open or    *)
(* being probed; cancelled and rejected calls do not count.                *)
CountsConsecutive == breaker.consecutive_failures = TrailingFailures

(* "After N consecutive failures the circuit opens": it opens from CLOSED  *)
(* only on N failures in a row, and it never stays CLOSED after them.      *)
OpensOnStreak ==
  [][LET streak == Len(outcomes') = Threshold /\ \A i \in 1 .. Threshold : outcomes'[i] = "fail"
     IN  /\ breaker.state = "CLOSED" /\ breaker'.state = "OPEN" => streak
         /\ streak /\ outcomes' # outcomes => breaker'.state # "CLOSED"]_hvars
=============================================================================
