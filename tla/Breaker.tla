------------------------------ MODULE Breaker ------------------------------
(***************************************************************************)
(* The class CircuitBreaker of mcp_platform_core/resilience.py: its fields *)
(* as a record and each of its methods as a function on that record.  The  *)
(* methods contain no await, so each one is a single atomic step.          *)
(*                                                                         *)
(* Two fields are represented by what the code can tell apart:             *)
(*   opened_at            the time that has passed since the moment the    *)
(*                        code stores, counted up to Cooldown, or None;    *)
(*                        the code only compares now - opened_at with      *)
(*                        cooldown_s.                                      *)
(*   consecutive_failures counted up to Threshold; the code only compares  *)
(*                        it with threshold.                               *)
(***************************************************************************)
EXTENDS Integers

CONSTANTS Threshold,  \* breaker_threshold, MCP_BREAKER_THRESHOLD
          Cooldown,   \* breaker_cooldown_s in ticks, MCP_BREAKER_COOLDOWN_S
          None        \* Python's None

ASSUME ThresholdAssumption == Threshold \in Nat
ASSUME CooldownAssumption  == Cooldown \in Nat
ASSUME NoneAssumption      == None \notin Nat

CircuitStates == {"CLOSED", "OPEN", "HALF_OPEN"}

Breakers == [state : CircuitStates,
             gauge : CircuitStates,              \* mcp_circuit_state{upstream}
             consecutive_failures : 0 .. Threshold,
             opened_at : (0 .. Cooldown) \cup {None},
             probe_in_flight : BOOLEAN]

NewBreaker == [state |-> "CLOSED",
               gauge |-> "CLOSED",
               consecutive_failures |-> 0,
               opened_at |-> None,
               probe_in_flight |-> FALSE]

(* The fields agree with each other: the probe flag is set exactly in      *)
(* HALF_OPEN, opened_at exactly outside CLOSED, a CLOSED circuit is below  *)
(* its threshold, and the gauge shows the state.                           *)
Consistent(b) ==
  /\ b.gauge = b.state
  /\ b.probe_in_flight <=> b.state = "HALF_OPEN"
  /\ b.opened_at = None <=> b.state = "CLOSED"
  /\ b.state = "CLOSED" /\ Threshold > 0 => b.consecutive_failures < Threshold

-----------------------------------------------------------------------------
(* Plausible slips in these methods, used to show that the properties can  *)
(* be broken.                                                              *)

admits_IgnoresProbe(b) ==
  b.state \in {"CLOSED", "HALF_OPEN"} \/ b.opened_at = Cooldown

admits_NoCooldown(b) == b.state # "HALF_OPEN" \/ ~b.probe_in_flight

on_success_KeepsCount(b) ==
  IF b.state = "CLOSED"
  THEN b
  ELSE [NewBreaker EXCEPT !.consecutive_failures = b.consecutive_failures]

on_success_KeepsProbeFlag(b) ==
  [NewBreaker EXCEPT !.probe_in_flight = b.probe_in_flight]

on_failure_NoFreshCooldown(b) ==
  IF b.state = "HALF_OPEN"
  THEN [b EXCEPT !.state = "OPEN", !.gauge = "OPEN", !.probe_in_flight = FALSE]
  ELSE IF b.state = "CLOSED" /\ b.consecutive_failures + 1 >= Threshold
       THEN [b EXCEPT !.state = "OPEN", !.gauge = "OPEN", !.opened_at = 0,
                      !.consecutive_failures = Threshold]
       ELSE [b EXCEPT !.consecutive_failures =
                         IF @ < Threshold THEN @ + 1 ELSE @]

-----------------------------------------------------------------------------
(* _transition: the state and its gauge always move together.              *)
transition(b, s) == [b EXCEPT !.state = s, !.gauge = s]

(* now - opened_at; a missing opened_at reads as "opened now".             *)
Elapsed(b) == IF b.opened_at = None THEN 0 ELSE b.opened_at

(* before_call returns (TRUE) or raises CircuitOpenError (FALSE) ...       *)
admits(b) == \/ b.state = "CLOSED"
             \/ b.state = "OPEN" /\ Elapsed(b) >= Cooldown
             \/ b.state = "HALF_OPEN" /\ ~b.probe_in_flight

(* ... and what it leaves behind when it returns: outside CLOSED the       *)
(* caller it lets through is the probe.                                    *)
before_call(b) ==
  IF b.state = "CLOSED"
  THEN b
  ELSE [transition(b, "HALF_OPEN") EXCEPT !.probe_in_flight = TRUE]

(* The method does not ask whose success it is.                            *)
on_success(b) ==
  LET reset == [b EXCEPT !.consecutive_failures = 0]
  IN  IF b.state = "CLOSED"
      THEN reset
      ELSE transition([reset EXCEPT !.probe_in_flight = FALSE,
                                    !.opened_at = None], "CLOSED")

CountFailure(b) ==
  [b EXCEPT !.consecutive_failures = IF @ < Threshold THEN @ + 1 ELSE @]

on_failure(b) ==
  LET counted == CountFailure(b)
      opened  == transition([counted EXCEPT !.opened_at = 0], "OPEN")
  IN  IF b.state = "HALF_OPEN"
      THEN [opened EXCEPT !.probe_in_flight = FALSE]
      ELSE IF b.state = "CLOSED" /\ counted.consecutive_failures >= Threshold
           THEN opened
           ELSE counted

(* One tick of the clock the breaker reads.                                *)
Aged(b) ==
  [b EXCEPT !.opened_at = IF @ \in 0 .. (Cooldown - 1) THEN @ + 1 ELSE @]
=============================================================================
