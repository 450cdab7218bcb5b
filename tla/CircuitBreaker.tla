--------------------------- MODULE CircuitBreaker ---------------------------
(***************************************************************************)
(* One CircuitBreaker object and the logical calls that go through it      *)
(* concurrently (ResilientCaller.call, seen from outside the retry loop).  *)
(* A call is admitted or rejected by before_call, then is suspended in     *)
(* _run_with_retries while other calls run, and at the end reports         *)
(* on_success or on_failure.  A call that is cancelled reports nothing:    *)
(* the except clause of call catches Exception, and CancelledError is not  *)
(* an Exception.                                                           *)
(*                                                                         *)
(* Resilience.tla opens up the retry loop and refines this module.         *)
(***************************************************************************)
EXTENDS Breaker

CONSTANTS Calls,       \* the coroutines that may be inside call()
          MaxCall,     \* bound on the duration of a call in ticks: attempts
                       \* are cut off by wait_for and their number is bounded
          Cancellable  \* which calls in flight the host may cancel: none, those
                       \* admitted while CLOSED, the probe too

ASSUME MaxCallAssumption     == MaxCall \in Nat
ASSUME CancellableAssumption == Cancellable \subseteq {"call", "probe"}

VARIABLES breaker,  \* the CircuitBreaker object
          phase,    \* phase[c]: not in call(), admitted while CLOSED, or the probe
          age       \* age[c]: ticks since c was admitted, 0 when idle

vars == <<breaker, phase, age>>

TypeOK == /\ breaker \in Breakers
          /\ phase \in [Calls -> {"idle", "call", "probe"}]
          /\ age \in [Calls -> 0 .. MaxCall]

InFlight(c) == phase[c] # "idle"

Init == /\ breaker = NewBreaker
        /\ phase = [c \in Calls |-> "idle"]
        /\ age = [c \in Calls |-> 0]

-----------------------------------------------------------------------------
(* Plausible slips in call(), used to show that the properties can be      *)
(* broken.                                                                 *)
Succeed_Unreported(c) ==
  /\ InFlight(c)
  /\ phase' = [phase EXCEPT ![c] = "idle"]
  /\ age' = [age EXCEPT ![c] = 0]
  /\ UNCHANGED breaker

Tick_NoDeadline ==
  /\ age' = [c \in Calls |-> IF InFlight(c) THEN age[c] + 1 ELSE 0]
  /\ breaker' = Aged(breaker)
  /\ UNCHANGED phase

-----------------------------------------------------------------------------
(* before_call lets c through.                                             *)
Admit(c) ==
  /\ ~InFlight(c)
  /\ admits(breaker)
  /\ breaker' = before_call(breaker)
  /\ phase' = [phase EXCEPT ![c] = IF breaker.state = "CLOSED"
                                   THEN "call" ELSE "probe"]
  /\ age' = [age EXCEPT ![c] = 0]

(* before_call raises CircuitOpenError; it is outside the try, so nothing  *)
(* is recorded.                                                            *)
Reject(c) ==
  /\ ~InFlight(c)
  /\ ~admits(breaker)
  /\ UNCHANGED vars

Return(c) ==
  /\ InFlight(c)
  /\ phase' = [phase EXCEPT ![c] = "idle"]
  /\ age' = [age EXCEPT ![c] = 0]

Succeed(c) == Return(c) /\ breaker' = on_success(breaker)

Fail(c) == Return(c) /\ breaker' = on_failure(breaker)

Cancel(c) == phase[c] \in Cancellable /\ Return(c) /\ UNCHANGED breaker

(* Time passes, but never beyond the deadline of a call in flight.         *)
Tick ==
  /\ \A c \in Calls : InFlight(c) => age[c] < MaxCall
  /\ age' = [c \in Calls |-> IF InFlight(c) THEN age[c] + 1 ELSE 0]
  /\ breaker' = Aged(breaker)
  /\ UNCHANGED phase

Next == \/ \E c \in Calls : \/ Admit(c)
                            \/ Reject(c)
                            \/ Succeed(c)
                            \/ Fail(c)
                            \/ Cancel(c)
        \/ Tick

Spec == Init /\ [][Next]_vars

(* The deadlines of the attempts make every call end, the clock advances,  *)
(* and there is traffic: somebody keeps calling the upstream.              *)
Fairness == /\ \A c \in Calls : WF_vars(Succeed(c) \/ Fail(c))
            /\ WF_vars(Tick)
            /\ WF_vars(\E c \in Calls : Admit(c))

FairSpec == Spec /\ Fairness

-----------------------------------------------------------------------------
(* The fields of the object agree with each other after every step.        *)
BreakerConsistent == Consistent(breaker)

(* "Only one probe may be in flight at a time" (comment in before_call).   *)
SingleProbe ==
  \A c, d \in Calls : phase[c] = "probe" /\ phase[d] = "probe" => c = d

(* An upstream that does not answer is probed at most once per cooldown:   *)
(* the probes in flight were admitted at least Cooldown apart, whatever    *)
(* late outcomes closed or reopened the circuit in between.                *)
ProbesSpaced ==
  \A c, d \in Calls :
    phase[c] = "probe" /\ phase[d] = "probe" /\ c # d
      => age[c] - age[d] >= Cooldown \/ age[d] - age[c] >= Cooldown

(* HALF_OPEN means that a probe is out and will report: without one the    *)
(* state rejects every call and is never left.                             *)
HalfOpenHasProbe ==
  breaker.state = "HALF_OPEN" => \E c \in Calls : phase[c] = "probe"

(* A HALF_OPEN circuit is decided by its probe: it moves only in a step in *)
(* which a probe returns.                                                  *)
ProbeDecides ==
  [][breaker.state = "HALF_OPEN" /\ breaker'.state # "HALF_OPEN"
       => \E c \in Calls : phase[c] = "probe" /\ phase'[c] = "idle"]_vars

(* "A half-open probe closes it on recovery" (DESIGN 9): once no call      *)
(* fails any more, the circuit is closed for good.                         *)
RecoveryCloses ==
  <>[][\A c \in Calls : ~Fail(c)]_vars => <>[](breaker.state = "CLOSED")
=============================================================================
