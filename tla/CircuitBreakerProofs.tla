------------------------ MODULE CircuitBreakerProofs ------------------------
(***************************************************************************)
(* What CircuitBreaker.tla promises for every number of concurrent calls,  *)
(* every threshold, every cooldown and every bound on a call's duration,   *)
(* and what the history of CircuitHistory.tla says of it.                  *)
(***************************************************************************)
EXTENDS CircuitHistory, SequenceTheorems, TLAPS

USE DEF CircuitStates

-----------------------------------------------------------------------------
(* Each method of the breaker keeps the record well formed and its fields  *)
(* consistent.                                                             *)
Good(b) == b \in Breakers /\ Consistent(b)

(* CircuitBreaker.__init__ builds a well-formed, consistent object.        *)
LEMMA NewBreakerGood == Good(NewBreaker)
<1>1. NewBreaker \in Breakers
  BY ThresholdAssumption DEF Breakers, NewBreaker
<1>2. Consistent(NewBreaker)
  BY ThresholdAssumption DEF Consistent, NewBreaker
<1> QED BY <1>1, <1>2 DEF Good

(* before_call keeps the object good.  Outside CLOSED it admits only when  *)
(* the circuit is OPEN and cooled down, and the state becomes HALF_OPEN.   *)
LEMMA BeforeCallGood ==
  ASSUME NEW b, Good(b), admits(b)
  PROVE  /\ Good(before_call(b))
         /\ b.state = "CLOSED" => before_call(b) = b
         /\ b.state # "CLOSED" =>
              /\ b.state = "OPEN"
              /\ b.opened_at = Cooldown
              /\ before_call(b).state = "HALF_OPEN"
              /\ before_call(b).opened_at = Cooldown
<1> USE CooldownAssumption, NoneAssumption
    DEF Good, Breakers, Consistent, admits, Elapsed, before_call, transition
<1>1. before_call(b) \in Breakers  OBVIOUS
<1>2. Consistent(before_call(b))  OBVIOUS
<1>3. b.state = "CLOSED" => before_call(b) = b  OBVIOUS
<1>4. b.state # "CLOSED" => b.state = "OPEN" /\ b.opened_at = Cooldown  OBVIOUS
<1>5. before_call(b).opened_at = b.opened_at  OBVIOUS
<1>6. b.state # "CLOSED" => before_call(b).state = "HALF_OPEN"  OBVIOUS
<1> QED BY <1>1, <1>2, <1>3, <1>4, <1>5, <1>6

(* on_success resets the count of a CLOSED breaker and turns any other     *)
(* breaker into a new one.                                                 *)
LEMMA OnSuccessGood ==
  ASSUME NEW b, Good(b)
  PROVE  /\ Good(on_success(b))
         /\ on_success(b).state = "CLOSED"
<1>1. CASE b.state = "CLOSED"
  BY <1>1, ThresholdAssumption DEF Good, Breakers, Consistent, on_success
<1>2. CASE b.state # "CLOSED"
  <2>1. on_success(b) = NewBreaker
    BY <1>2 DEF Good, Breakers, on_success, transition, NewBreaker
  <2> QED BY <2>1, NewBreakerGood DEF NewBreaker
<1> QED BY <1>1, <1>2

(* on_failure leaves an OPEN circuit open since the same moment, reopens a *)
(* HALF_OPEN one now, and either keeps a CLOSED one or opens it now.       *)
LEMMA OnFailureGood ==
  ASSUME NEW b, Good(b)
  PROVE  /\ Good(on_failure(b))
         /\ on_failure(b).state # "HALF_OPEN"
         /\ on_failure(b).state = "OPEN" =>
              \/ on_failure(b).opened_at = 0
              \/ b.state = "OPEN" /\ on_failure(b).opened_at = b.opened_at
<1> DEFINE n == IF b.consecutive_failures < Threshold
                THEN b.consecutive_failures + 1 ELSE b.consecutive_failures
           opened == [state |-> "OPEN", gauge |-> "OPEN", consecutive_failures |-> n,
                      opened_at |-> 0, probe_in_flight |-> FALSE]
<1>1. n \in 0 .. Threshold
  BY ThresholdAssumption DEF Good, Breakers
<1>2. Good(opened)
  <2>1. opened \in Breakers
    BY <1>1, CooldownAssumption DEF Breakers
  <2>2. Consistent(opened)
    BY NoneAssumption DEF Consistent
  <2> QED BY <2>1, <2>2 DEF Good
<1>3. /\ CountFailure(b) \in Breakers
      /\ CountFailure(b).consecutive_failures = n
      /\ CountFailure(b).state = b.state
      /\ CountFailure(b).opened_at = b.opened_at
      /\ CountFailure(b).gauge = b.gauge
      /\ CountFailure(b).probe_in_flight = b.probe_in_flight
  BY <1>1 DEF Good, Breakers, CountFailure
<1>4. CASE b.state = "HALF_OPEN"
  <2>1. on_failure(b) = opened
    BY <1>3, <1>4 DEF on_failure, transition, Breakers
  <2> QED BY <1>2, <2>1
<1>5. CASE b.state = "CLOSED" /\ n >= Threshold
  <2>1. b.probe_in_flight = FALSE
    BY <1>5 DEF Good, Breakers, Consistent
  <2>2. on_failure(b) = opened
    BY <1>3, <1>5, <2>1 DEF on_failure, transition, Breakers
  <2> QED BY <1>2, <2>2
<1>6. CASE b.state = "OPEN" \/ (b.state = "CLOSED" /\ ~(n >= Threshold))
  <2>1. on_failure(b) = CountFailure(b)
    BY <1>3, <1>6 DEF on_failure
  <2>2. Consistent(CountFailure(b))
    BY <1>1, <1>3, <1>6, ThresholdAssumption DEF Good, Consistent
  <2> QED BY <1>3, <1>6, <2>1, <2>2 DEF Good
<1> QED BY <1>4, <1>5, <1>6 DEF Good, Breakers

(* The clock ages opened_at by one tick, up to Cooldown, and changes       *)
(* nothing else.                                                           *)
LEMMA AgedGood ==
  ASSUME NEW b, Good(b)
  PROVE  /\ Good(Aged(b))
         /\ Aged(b).state = b.state
         /\ b.state # "CLOSED" =>
              Aged(b).opened_at =
                IF b.opened_at = Cooldown THEN Cooldown ELSE b.opened_at + 1
BY ThresholdAssumption, CooldownAssumption, NoneAssumption
   DEF Good, Breakers, Consistent, Aged

-----------------------------------------------------------------------------
(* The inductive invariant.  Time links the calls to the breaker: no call  *)
(* is admitted while the circuit is OPEN, so whatever is in flight then is *)
(* at least as old as the opening.                                         *)
CallsOlderThanOpening ==
  breaker.state = "OPEN" =>
    \A c \in Calls : InFlight(c) => age[c] >= breaker.opened_at

HalfOpenCooledDown ==
  breaker.state = "HALF_OPEN" => breaker.opened_at = Cooldown

IInv == /\ TypeOK
        /\ BreakerConsistent
        /\ CallsOlderThanOpening
        /\ HalfOpenCooledDown
        /\ ProbesSpaced

(* No call, a new breaker.                                                 *)
LEMMA InitIInv == Init => IInv
<1> SUFFICES ASSUME Init PROVE IInv
  OBVIOUS
<1>1. TypeOK
  BY NewBreakerGood, MaxCallAssumption DEF Init, TypeOK, Good
<1>2. BreakerConsistent
  BY NewBreakerGood DEF Init, BreakerConsistent, Good
<1>3. CallsOlderThanOpening /\ HalfOpenCooledDown /\ ProbesSpaced
  BY DEF Init, NewBreaker, CallsOlderThanOpening, HalfOpenCooledDown, ProbesSpaced
<1> QED BY <1>1, <1>2, <1>3 DEF IInv

(* before_call admits c: a probe only when every call in flight is at      *)
(* least Cooldown old.                                                     *)
LEMMA AdmitIInv ==
  ASSUME IInv, NEW c \in Calls, Admit(c)
  PROVE  IInv'
<1> USE DEF IInv
<1>0. Good(breaker)
  BY DEF TypeOK, BreakerConsistent, Good
<1>1. /\ Good(breaker')
      /\ breaker.state = "CLOSED" => breaker' = breaker
      /\ breaker.state # "CLOSED" =>
           /\ breaker.state = "OPEN"
           /\ breaker.opened_at = Cooldown
           /\ breaker'.state = "HALF_OPEN"
           /\ breaker'.opened_at = Cooldown
  BY <1>0, BeforeCallGood DEF Admit
<1>2. TypeOK' /\ BreakerConsistent'
  <2>1. phase' \in [Calls -> {"idle", "call", "probe"}]
    BY DEF TypeOK, Admit
  <2>2. age' \in [Calls -> 0 .. MaxCall]
    BY MaxCallAssumption DEF TypeOK, Admit
  <2> QED BY <1>1, <2>1, <2>2 DEF TypeOK, BreakerConsistent, Good
<1>3. CallsOlderThanOpening' /\ HalfOpenCooledDown'
  BY <1>1 DEF CallsOlderThanOpening, HalfOpenCooledDown
<1>4. ProbesSpaced'
  <2>1. CASE breaker.state = "CLOSED"
    <3>1. \A d \in Calls : phase'[d] = "probe" =>
                             phase[d] = "probe" /\ age'[d] = age[d]
      BY <2>1 DEF Admit, TypeOK
    <3> QED BY <3>1 DEF ProbesSpaced
  <2>2. CASE breaker.state # "CLOSED"
    <3>1. \A d \in Calls : InFlight(d) => age[d] >= Cooldown
      BY <1>1, <2>2 DEF CallsOlderThanOpening
    <3> QED BY <3>1, CooldownAssumption, MaxCallAssumption DEF ProbesSpaced, Admit, TypeOK, InFlight
  <2> QED BY <2>1, <2>2
<1> QED BY <1>2, <1>3, <1>4

(* What a returning call does to phase and age keeps the probes spaced: it *)
(* only takes a call away.                                                 *)
LEMMA ReturnSpaced ==
  ASSUME IInv, NEW c \in Calls, Return(c)
  PROVE  /\ phase' \in [Calls -> {"idle", "call", "probe"}]
         /\ age' \in [Calls -> 0 .. MaxCall]
         /\ \A d \in Calls : phase'[d] # "idle" =>
                                phase'[d] = phase[d] /\ age'[d] = age[d]
         /\ ProbesSpaced'
<1>1. /\ phase' \in [Calls -> {"idle", "call", "probe"}]
      /\ age' \in [Calls -> 0 .. MaxCall]
  BY MaxCallAssumption DEF IInv, TypeOK, Return
<1>2. \A d \in Calls : phase'[d] # "idle" => phase'[d] = phase[d] /\ age'[d] = age[d]
  BY DEF IInv, TypeOK, Return
<1>3. ProbesSpaced'
  BY <1>2 DEF IInv, ProbesSpaced
<1> QED BY <1>1, <1>2, <1>3

(* A success closes the circuit, whoever reports it.                       *)
LEMMA SucceedIInv ==
  ASSUME IInv, NEW c \in Calls, Succeed(c)
  PROVE  IInv'
<1>1. Good(breaker') /\ breaker'.state = "CLOSED"
  BY OnSuccessGood DEF IInv, TypeOK, BreakerConsistent, Good, Succeed
<1>2. CallsOlderThanOpening' /\ HalfOpenCooledDown'
  BY <1>1 DEF CallsOlderThanOpening, HalfOpenCooledDown
<1> QED BY <1>1, <1>2, ReturnSpaced
        DEF IInv, TypeOK, BreakerConsistent, Good, Succeed

(* A failure opens the circuit now, or leaves it as it was: whatever       *)
(* remains in flight is older than the opening.                            *)
LEMMA FailIInv ==
  ASSUME IInv, NEW c \in Calls, Fail(c)
  PROVE  IInv'
<1>1. /\ Good(breaker')
      /\ breaker'.state # "HALF_OPEN"
      /\ breaker'.state = "OPEN" =>
           \/ breaker'.opened_at = 0
           \/ breaker.state = "OPEN" /\ breaker'.opened_at = breaker.opened_at
  BY OnFailureGood DEF IInv, TypeOK, BreakerConsistent, Good, Fail
<1>2. /\ age' \in [Calls -> 0 .. MaxCall]
      /\ \A d \in Calls : phase'[d] # "idle" =>
                             phase'[d] = phase[d] /\ age'[d] = age[d]
  BY ReturnSpaced DEF Fail
<1>3. CallsOlderThanOpening'
  <2> SUFFICES ASSUME breaker'.state = "OPEN", NEW d \in Calls, phase'[d] # "idle"
               PROVE  age'[d] >= breaker'.opened_at
    BY DEF CallsOlderThanOpening, InFlight
  <2>1. CASE breaker'.opened_at = 0
    BY <1>2, <2>1, MaxCallAssumption
  <2>2. CASE breaker.state = "OPEN" /\ breaker'.opened_at = breaker.opened_at
    BY <1>2, <2>2 DEF IInv, CallsOlderThanOpening, InFlight
  <2> QED BY <1>1, <2>1, <2>2
<1>4. HalfOpenCooledDown'
  BY <1>1 DEF HalfOpenCooledDown
<1> QED BY <1>1, <1>3, <1>4, ReturnSpaced
        DEF IInv, TypeOK, BreakerConsistent, Good, Fail

(* A cancelled call leaves the breaker alone.                              *)
LEMMA CancelIInv ==
  ASSUME IInv, NEW c \in Calls, Cancel(c)
  PROVE  IInv'
<1>1. CallsOlderThanOpening' /\ HalfOpenCooledDown'
  BY ReturnSpaced DEF IInv, CallsOlderThanOpening, HalfOpenCooledDown, InFlight, Cancel
<1> QED BY <1>1, ReturnSpaced DEF IInv, TypeOK, BreakerConsistent, Cancel

(* The clock ages the calls and the opening together.                      *)
LEMMA TickIInv ==
  ASSUME IInv, Tick
  PROVE  IInv'
<1>1. /\ Good(breaker')
      /\ breaker'.state = breaker.state
      /\ breaker.state # "CLOSED" =>
           breaker'.opened_at = IF breaker.opened_at = Cooldown
                                THEN Cooldown ELSE breaker.opened_at + 1
  BY AgedGood DEF IInv, TypeOK, BreakerConsistent, Good, Tick
<1>2. /\ age' \in [Calls -> 0 .. MaxCall]
      /\ \A d \in Calls : phase[d] # "idle" => age'[d] = age[d] + 1
  BY MaxCallAssumption DEF IInv, TypeOK, Tick, InFlight
<1>3. CallsOlderThanOpening'
  <2> SUFFICES ASSUME breaker'.state = "OPEN", NEW d \in Calls, phase'[d] # "idle"
               PROVE  age'[d] >= breaker'.opened_at
    BY DEF CallsOlderThanOpening, InFlight
  <2>1. age[d] >= breaker.opened_at /\ age'[d] = age[d] + 1 /\ age[d] \in Nat
    BY <1>1, <1>2, MaxCallAssumption
       DEF IInv, TypeOK, CallsOlderThanOpening, InFlight, Tick
  <2>2. breaker.opened_at \in Nat
    BY <1>1, CooldownAssumption
       DEF IInv, TypeOK, BreakerConsistent, Breakers, Consistent
  <2> QED BY <1>1, <2>1, <2>2, CooldownAssumption
<1>4. HalfOpenCooledDown'
  BY <1>1 DEF IInv, HalfOpenCooledDown
<1>5. ProbesSpaced'
  BY <1>2, MaxCallAssumption, CooldownAssumption DEF IInv, TypeOK, ProbesSpaced, Tick
<1> QED BY <1>1, <1>2, <1>3, <1>4, <1>5
        DEF IInv, TypeOK, BreakerConsistent, Good, Tick

(* IInv is inductive.                                                      *)
LEMMA NextIInv == IInv /\ [Next]_vars => IInv'
<1> SUFFICES ASSUME IInv, [Next]_vars PROVE IInv'
  OBVIOUS
<1>1. ASSUME NEW c \in Calls, Admit(c) PROVE IInv'
  BY <1>1, AdmitIInv
<1>2. CASE UNCHANGED vars
  BY <1>2 DEF vars, IInv, TypeOK, BreakerConsistent, CallsOlderThanOpening,
              HalfOpenCooledDown, ProbesSpaced, InFlight
<1>3. ASSUME NEW c \in Calls, Reject(c) PROVE IInv'
  BY <1>2, <1>3 DEF Reject
<1>4. ASSUME NEW c \in Calls, Succeed(c) PROVE IInv'
  BY <1>4, SucceedIInv
<1>5. ASSUME NEW c \in Calls, Fail(c) PROVE IInv'
  BY <1>5, FailIInv
<1>6. ASSUME NEW c \in Calls, Cancel(c) PROVE IInv'
  BY <1>6, CancelIInv
<1>7. CASE Tick
  BY <1>7, TickIInv
<1> QED BY <1>1, <1>2, <1>3, <1>4, <1>5, <1>6, <1>7 DEF Next

(* Hence it holds throughout.                                              *)
LEMMA SpecIInv == Spec => []IInv
BY InitIInv, NextIInv, PTL DEF Spec

-----------------------------------------------------------------------------
(* Every variable of the breaker and its calls keeps its type.             *)
THEOREM TypeCorrect == Spec => []TypeOK
BY SpecIInv, PTL DEF IInv

(* The fields of a CircuitBreaker agree with each other in every reachable *)
(* state, whatever the interleaving of its callers.                        *)
THEOREM FieldsConsistent == Spec => []BreakerConsistent
BY SpecIInv, PTL DEF IInv

(* Probes are admitted at least Cooldown apart, for every bound on a       *)
(* call's duration, late outcomes and cancellations included.              *)
THEOREM ProbesAreSpaced == Spec => []ProbesSpaced
BY SpecIInv, PTL DEF IInv

(* When no call can outlive the cooldown, at most one probe is in flight,  *)
(* as the comment in before_call says.                                     *)
THEOREM OneProbe ==
  ASSUME MaxCall < Cooldown
  PROVE  Spec => []SingleProbe
<1>1. IInv => SingleProbe
  BY MaxCallAssumption, CooldownAssumption DEF IInv, TypeOK, ProbesSpaced, SingleProbe
<1> QED BY <1>1, SpecIInv, PTL

-----------------------------------------------------------------------------
(* While the circuit is HALF_OPEN no call admitted earlier is in flight.   *)
ProbeRunsAlone ==
  breaker.state = "HALF_OPEN" => \A c \in Calls : phase[c] # "call"

(* When no call can outlive the cooldown, the opening waits long enough    *)
(* for every call admitted before it to end.                               *)
LEMMA NextProbeRunsAlone ==
  ASSUME MaxCall < Cooldown, IInv, ProbeRunsAlone, [Next]_vars
  PROVE  ProbeRunsAlone'
<1> SUFFICES ASSUME breaker'.state = "HALF_OPEN", NEW d \in Calls
             PROVE  phase'[d] # "call"
  BY DEF ProbeRunsAlone
<1>0. Good(breaker)
  BY DEF IInv, TypeOK, BreakerConsistent, Good
<1>1. ASSUME NEW c \in Calls, Admit(c) PROVE phase'[d] # "call"
  <2>1. breaker.state # "CLOSED"
    BY <1>0, <1>1, BeforeCallGood DEF Admit
  <2>2. breaker.state = "OPEN" /\ breaker.opened_at = Cooldown
    BY <1>0, <1>1, <2>1, BeforeCallGood DEF Admit
  <2>3. ~InFlight(d)
    BY <2>2, MaxCallAssumption, CooldownAssumption
       DEF IInv, TypeOK, CallsOlderThanOpening
  <2> QED BY <1>1, <2>1, <2>3 DEF Admit, InFlight, IInv, TypeOK
<1>2. ASSUME NEW c \in Calls, Succeed(c) \/ Fail(c) PROVE phase'[d] # "call"
  BY <1>0, <1>2, OnSuccessGood, OnFailureGood DEF Succeed, Fail
<1>3. ASSUME NEW c \in Calls, Cancel(c) PROVE phase'[d] # "call"
  BY <1>3 DEF ProbeRunsAlone, Cancel, Return, IInv, TypeOK
<1>4. CASE Tick
  BY <1>0, <1>4, AgedGood DEF ProbeRunsAlone, Tick
<1>5. CASE UNCHANGED vars
  BY <1>5 DEF ProbeRunsAlone, vars
<1> QED BY <1>1, <1>2, <1>3, <1>4, <1>5 DEF Next, Reject

(* When no call can outlive the cooldown, only the probe itself moves the  *)
(* circuit out of HALF_OPEN: no late outcome of an older call decides.     *)
THEOREM OnlyProbeDecides ==
  ASSUME MaxCall < Cooldown
  PROVE  Spec => ProbeDecides
<1> DEFINE Decided == breaker.state = "HALF_OPEN" /\ breaker'.state # "HALF_OPEN"
                       => \E c \in Calls : phase[c] = "probe" /\ phase'[c] = "idle"
<1>1. Init => ProbeRunsAlone
  BY DEF Init, ProbeRunsAlone, NewBreaker
<1>2. IInv /\ ProbeRunsAlone /\ [Next]_vars => ProbeRunsAlone'
  BY NextProbeRunsAlone
<1>3. IInv /\ ProbeRunsAlone /\ [Next]_vars => [Decided]_vars
  <2> SUFFICES ASSUME IInv, ProbeRunsAlone, Next, breaker.state = "HALF_OPEN",
                      breaker'.state # "HALF_OPEN"
               PROVE  \E c \in Calls : phase[c] = "probe" /\ phase'[c] = "idle"
    BY DEF vars
  <2>0. Good(breaker)
    BY DEF IInv, TypeOK, BreakerConsistent, Good
  <2>1. ASSUME NEW c \in Calls, Succeed(c) \/ Fail(c)
        PROVE  phase[c] = "probe" /\ phase'[c] = "idle"
    BY <2>1 DEF ProbeRunsAlone, Succeed, Fail, Return, InFlight, IInv, TypeOK
  <2>2. ASSUME NEW c \in Calls, Admit(c) PROVE FALSE
    BY <2>0, <2>2, BeforeCallGood DEF Admit
  <2>3. ASSUME NEW c \in Calls, Cancel(c) \/ Reject(c) PROVE FALSE
    BY <2>3 DEF Cancel, Reject, vars
  <2>4. ~Tick
    BY <2>0, AgedGood DEF Tick
  <2> QED BY <2>1, <2>2, <2>3, <2>4 DEF Next
<1> QED BY <1>1, <1>2, <1>3, SpecIInv, PTL DEF Spec, ProbeDecides

-----------------------------------------------------------------------------
(* When the probe is never cancelled, HALF_OPEN always has a probe under   *)
(* way that will report: the state that rejects everybody is left.         *)
THEOREM ProbeUnderWay ==
  ASSUME "probe" \notin Cancellable
  PROVE  Spec => []HalfOpenHasProbe
<1>1. Init => HalfOpenHasProbe
  BY DEF Init, HalfOpenHasProbe, NewBreaker
<1>2. IInv /\ HalfOpenHasProbe /\ [Next]_vars => HalfOpenHasProbe'
  <2> SUFFICES ASSUME IInv, HalfOpenHasProbe, [Next]_vars, breaker'.state = "HALF_OPEN"
               PROVE  \E c \in Calls : phase'[c] = "probe"
    BY DEF HalfOpenHasProbe
  <2>0. Good(breaker)
    BY DEF IInv, TypeOK, BreakerConsistent, Good
  <2>1. ASSUME NEW c \in Calls, Admit(c) PROVE phase'[c] = "probe"
    <3>1. breaker.state # "CLOSED"
      BY <2>0, <2>1, BeforeCallGood DEF Admit
    <3> QED BY <2>1, <3>1 DEF Admit, IInv, TypeOK
  <2>2. ASSUME NEW c \in Calls, Succeed(c) \/ Fail(c) PROVE FALSE
    BY <2>0, <2>2, OnSuccessGood, OnFailureGood DEF Succeed, Fail
  <2>3. ASSUME NEW c \in Calls, Cancel(c) PROVE \E d \in Calls : phase'[d] = "probe"
    <3>1. breaker.state = "HALF_OPEN" /\ phase[c] # "probe"
      BY <2>3 DEF Cancel
    <3>2. PICK d \in Calls : phase[d] = "probe"
      BY <3>1 DEF HalfOpenHasProbe
    <3> QED BY <2>3, <3>1, <3>2 DEF Cancel, Return, IInv, TypeOK
  <2>4. CASE Tick
    BY <2>0, <2>4, AgedGood DEF Tick, HalfOpenHasProbe
  <2>5. CASE UNCHANGED vars
    BY <2>5 DEF vars, HalfOpenHasProbe
  <2>6. ASSUME NEW c \in Calls, Reject(c) PROVE UNCHANGED vars
    BY <2>6 DEF Reject
  <2> QED BY <2>1, <2>2, <2>3, <2>4, <2>5, <2>6 DEF Next
<1> QED BY <1>1, <1>2, SpecIInv, PTL DEF Spec

-----------------------------------------------------------------------------
(* HNext takes the steps of Next and adds to them, so what is proved of    *)
(* Spec can be used of HSpec.                                              *)
LEMMA HistoryUsesSpec == HSpec => Spec
<1>1. HInit => Init
  BY DEF HInit
<1>2. [HNext]_hvars => [Next]_vars
  BY DEF HNext, Next, hvars, vars
<1> QED BY <1>1, <1>2, PTL DEF HSpec, Spec

(* The last n outcomes of h are failures, and the one before them is not.  *)
Streak(h, n) ==
  /\ n \in 0 .. Len(h)
  /\ \A i \in Len(h) - n + 1 .. Len(h) : h[i] = "fail"
  /\ n < Len(h) => h[Len(h) - n] = "ok"

(* The counter is that n, although the history forgets what is further     *)
(* back than Threshold and the counter saturates there.                    *)
HistoryInv ==
  /\ outcomes \in Seq({"ok", "fail"})
  /\ Len(outcomes) <= Threshold
  /\ Streak(outcomes, breaker.consecutive_failures)

(* There is only one such n.                                               *)
LEMMA StreakIsTrailing ==
  ASSUME outcomes \in Seq({"ok", "fail"}), NEW n, Streak(outcomes, n)
  PROVE  TrailingFailures = n
<1>0. Len(outcomes) \in Nat
  BY LenProperties
<1>1. ASSUME NEW m, Streak(outcomes, m), NEW k, Streak(outcomes, k), m < k
      PROVE  FALSE
  <2>1. Len(outcomes) - m \in Len(outcomes) - k + 1 .. Len(outcomes) /\ m < Len(outcomes)
    BY <1>0, <1>1 DEF Streak
  <2>2. outcomes[Len(outcomes) - m] = "ok" /\ outcomes[Len(outcomes) - m] = "fail"
    BY <1>1, <2>1 DEF Streak
  <2> QED BY <2>2
<1>2. ASSUME NEW m, Streak(outcomes, m) PROVE m = n
  <2>1. m \in Int /\ n \in Int
    BY <1>0, <1>2 DEF Streak
  <2> QED BY <1>1, <1>2, <2>1
<1> QED BY <1>2 DEF TrailingFailures, Streak

(* What a reported outcome does to the history.                            *)
LEMMA RememberProperties ==
  ASSUME outcomes \in Seq({"ok", "fail"}), Len(outcomes) <= Threshold,
         NEW o \in {"ok", "fail"}, Remember(o)
  PROVE  /\ outcomes' \in Seq({"ok", "fail"})
         /\ Len(outcomes') = IF Len(outcomes) < Threshold THEN Len(outcomes) + 1 ELSE Threshold
         /\ Threshold > 0 => outcomes'[Len(outcomes')] = o
         /\ \A k \in 1 .. Len(outcomes') - 1 :
              outcomes'[Len(outcomes') - k] = outcomes[Len(outcomes) - k + 1]
<1> DEFINE all == Append(outcomes, o)
<1>0. Len(outcomes) \in Nat /\ Threshold \in Nat
  BY LenProperties, ThresholdAssumption
<1>1. /\ all \in Seq({"ok", "fail"})
      /\ Len(all) = Len(outcomes) + 1
      /\ all[Len(outcomes) + 1] = o
      /\ \A i \in 1 .. Len(outcomes) : all[i] = outcomes[i]
  BY AppendProperties
<1>2. all # <<>>
  BY <1>0, <1>1
<1>3. /\ Tail(all) \in Seq({"ok", "fail"})
      /\ Len(Tail(all)) = Len(outcomes)
      /\ \A i \in 1 .. Len(outcomes) : Tail(all)[i] = all[i + 1]
  BY <1>0, <1>1, <1>2, HeadTailProperties
<1> HIDE DEF all
<1>4. outcomes' = IF Len(outcomes) + 1 > Threshold THEN Tail(all) ELSE all
  BY <1>1 DEF Remember, all
<1>5. CASE Len(outcomes) < Threshold
  <2>1. outcomes' = all
    BY <1>0, <1>4, <1>5
  <2> QED BY <1>0, <1>1, <1>5, <2>1
<1>6. CASE Len(outcomes) = Threshold
  <2>1. outcomes' = Tail(all)
    BY <1>0, <1>4, <1>6
  <2>2. \A i \in 1 .. Threshold : outcomes'[i] = all[i + 1]
    BY <1>3, <1>6, <2>1
  <2>3. Threshold > 0 => outcomes'[Threshold] = o
    BY <1>0, <1>1, <1>6, <2>2
  <2>4. ASSUME NEW k \in 1 .. Threshold - 1
        PROVE  outcomes'[Threshold - k] = outcomes[Threshold - k + 1]
    <3>1. Threshold - k \in 1 .. Threshold /\ Threshold - k + 1 \in 1 .. Len(outcomes)
      BY <1>0, <1>6
    <3> QED BY <1>1, <2>2, <3>1
  <2>5. Len(outcomes') = Threshold
    BY <1>3, <1>6, <2>1
  <2>6. outcomes' \in Seq({"ok", "fail"})
    BY <1>3, <2>1
  <2> QED BY <1>0, <1>6, <2>3, <2>4, <2>5, <2>6
<1> QED BY <1>0, <1>5, <1>6

(* A reported success ends every streak, a failure prolongs it up to       *)
(* Threshold.                                                              *)
LEMMA RememberStreak ==
  ASSUME outcomes \in Seq({"ok", "fail"}), Len(outcomes) <= Threshold,
         NEW n, Streak(outcomes, n), NEW o \in {"ok", "fail"}, Remember(o)
  PROVE  Streak(outcomes', IF o = "ok" THEN 0 ELSE IF n < Threshold THEN n + 1 ELSE n)
<1>0. Len(outcomes) \in Nat /\ Threshold \in Nat /\ n \in 0 .. Len(outcomes)
  BY LenProperties, ThresholdAssumption DEF Streak
<1> DEFINE len == Len(outcomes)
           len1 == Len(outcomes')
<1>1. /\ len1 = IF len < Threshold THEN len + 1 ELSE Threshold
      /\ Threshold > 0 => outcomes'[len1] = o
      /\ \A k \in 1 .. len1 - 1 : outcomes'[len1 - k] = outcomes[len - k + 1]
  BY RememberProperties
<1>2. /\ \A i \in len - n + 1 .. len : outcomes[i] = "fail"
      /\ n < len => outcomes[len - n] = "ok"
  BY DEF Streak
<1> HIDE DEF len, len1
<1>3. CASE o = "ok"
  <2>1. /\ 0 \in 0 .. len1
        /\ \A i \in len1 - 0 + 1 .. len1 : outcomes'[i] = "fail"
        /\ 0 < len1 => outcomes'[len1 - 0] = "ok"
    BY <1>0, <1>1, <1>3 DEF len
  <2> QED BY <1>3, <2>1 DEF Streak, len1
<1>4. CASE o = "fail"
  <2> DEFINE m == IF n < Threshold THEN n + 1 ELSE n
  <2>1. m \in 0 .. len1 /\ len1 \in Nat /\ len \in Nat
    BY <1>0, <1>1 DEF len
  <2>2. ASSUME NEW i \in len1 - m + 1 .. len1 PROVE outcomes'[i] = "fail"
    <3>1. CASE i = len1
      BY <1>0, <1>1, <1>4, <2>1, <3>1
    <3>2. CASE i # len1
      <4> DEFINE k == len1 - i
      <4>1. k \in 1 .. len1 - 1 /\ i = len1 - k
        BY <1>0, <2>1, <3>2
      <4>2. len - k + 1 \in len - n + 1 .. len
        <5>1. CASE len < Threshold
          BY <1>0, <1>1, <2>1, <3>2, <5>1 DEF len
        <5>2. CASE len = Threshold /\ n < Threshold
          BY <1>0, <1>1, <2>1, <3>2, <5>2 DEF len
        <5>3. CASE len = Threshold /\ n = Threshold
          BY <1>0, <1>1, <2>1, <3>2, <5>3 DEF len
        <5> QED BY <1>0, <5>1, <5>2, <5>3 DEF len
      <4> HIDE DEF k
      <4> QED BY <1>1, <1>2, <4>1, <4>2
    <3> QED BY <3>1, <3>2
  <2>3. m < len1 => outcomes'[len1 - m] = "ok"
    <3> SUFFICES ASSUME m < len1 PROVE outcomes'[len1 - m] = "ok"
      OBVIOUS
    <3>1. m = n + 1 /\ n < len /\ m \in 1 .. len1 - 1 /\ len - m + 1 = len - n
      BY <1>0, <1>1, <2>1 DEF len
    <3> HIDE DEF m
    <3> QED BY <1>1, <1>2, <3>1
  <2> QED BY <1>4, <2>1, <2>2, <2>3 DEF Streak, len1
<1> QED BY <1>3, <1>4

(* Which methods touch the counter, and how.                               *)
LEMMA MethodsCount ==
  ASSUME NEW b \in Breakers
  PROVE  /\ before_call(b).consecutive_failures = b.consecutive_failures
         /\ Aged(b).consecutive_failures = b.consecutive_failures
         /\ on_success(b).consecutive_failures = 0
         /\ on_failure(b).consecutive_failures =
              IF b.consecutive_failures < Threshold
              THEN b.consecutive_failures + 1 ELSE b.consecutive_failures
<1> USE ThresholdAssumption, CooldownAssumption DEF Breakers
<1>1. before_call(b).consecutive_failures = b.consecutive_failures
  BY DEF before_call, transition
<1>2. Aged(b).consecutive_failures = b.consecutive_failures
  BY DEF Aged
<1>3. on_success(b).consecutive_failures = 0
  BY DEF on_success, transition
<1>4. on_failure(b).consecutive_failures = CountFailure(b).consecutive_failures
  BY DEF on_failure, transition, CountFailure
<1>5. CountFailure(b).consecutive_failures =
        IF b.consecutive_failures < Threshold
        THEN b.consecutive_failures + 1 ELSE b.consecutive_failures
  BY DEF CountFailure
<1> QED BY <1>1, <1>2, <1>3, <1>4, <1>5

(* Every step of the history keeps it in agreement with the counter.       *)
LEMMA NextHistoryInv ==
  ASSUME IInv, HistoryInv, [HNext]_hvars
  PROVE  HistoryInv'
<1> DEFINE cf == breaker.consecutive_failures
<1>0. breaker \in Breakers /\ Threshold \in Nat
  BY ThresholdAssumption DEF IInv, TypeOK
<1>1. ASSUME UNCHANGED outcomes, breaker'.consecutive_failures = cf
      PROVE  HistoryInv'
  BY <1>1 DEF HistoryInv, Streak
<1>2. ASSUME NEW o \in {"ok", "fail"}, Remember(o),
             breaker'.consecutive_failures =
               IF o = "ok" THEN 0 ELSE IF cf < Threshold THEN cf + 1 ELSE cf
      PROVE  HistoryInv'
  <2>1. outcomes' \in Seq({"ok", "fail"}) /\ Len(outcomes') <= Threshold
    <3>1. Len(outcomes) \in Nat
      BY LenProperties DEF HistoryInv
    <3> QED BY <1>0, <1>2, <3>1, RememberProperties DEF HistoryInv
  <2> DEFINE n == IF o = "ok" THEN 0 ELSE IF cf < Threshold THEN cf + 1 ELSE cf
  <2>2. Streak(outcomes', n)
    BY <1>2, RememberStreak DEF HistoryInv
  <2> QED BY <1>2, <2>1, <2>2 DEF HistoryInv
<1>3. ASSUME NEW c \in Calls, Succeed(c), Remember("ok") PROVE HistoryInv'
  BY <1>0, <1>2, <1>3, MethodsCount DEF Succeed
<1>4. ASSUME NEW c \in Calls, Fail(c), Remember("fail") PROVE HistoryInv'
  BY <1>0, <1>2, <1>4, MethodsCount DEF Fail
<1>5. ASSUME NEW c \in Calls, Admit(c) \/ Reject(c) \/ Cancel(c), UNCHANGED outcomes
      PROVE  HistoryInv'
  BY <1>0, <1>1, <1>5, MethodsCount DEF Admit, Reject, Cancel, vars
<1>6. CASE Tick /\ UNCHANGED outcomes
  BY <1>0, <1>1, <1>6, MethodsCount DEF Tick
<1>7. CASE UNCHANGED hvars
  BY <1>1, <1>7 DEF hvars
<1> QED BY <1>3, <1>4, <1>5, <1>6, <1>7 DEF HNext

(* With the breaker's own invariant it is inductive.                       *)
LEMMA SpecHistoryInv == HSpec => [](IInv /\ HistoryInv)
<1>1. HInit => HistoryInv
  <2> SUFFICES ASSUME HInit PROVE HistoryInv
    OBVIOUS
  <2>1. outcomes \in Seq({"ok", "fail"}) /\ Len(outcomes) = 0
    BY DEF HInit
  <2>2. breaker.consecutive_failures = 0
    BY DEF HInit, Init, NewBreaker
  <2> QED BY <2>1, <2>2, ThresholdAssumption DEF HistoryInv, Streak
<1>2. IInv /\ HistoryInv /\ [HNext]_hvars => HistoryInv'
  BY NextHistoryInv
<1> QED BY <1>1, <1>2, HistoryUsesSpec, SpecIInv, PTL DEF HSpec

(* consecutive_failures is, in every reachable state and for every         *)
(* threshold, the number of failures since the last success among all      *)
(* outcomes that calls have reported, whichever calls they were.           *)
THEOREM CounterIsStreak == HSpec => []CountsConsecutive
<1>1. IInv /\ HistoryInv => CountsConsecutive
  BY StreakIsTrailing DEF HistoryInv, CountsConsecutive
<1> QED BY <1>1, SpecHistoryInv, PTL

(* A circuit opens from CLOSED on exactly Threshold failures in a row, and *)
(* is never CLOSED after them.                                             *)
THEOREM OpensExactlyOnStreak == HSpec => OpensOnStreak
<1> DEFINE streak == Len(outcomes') = Threshold /\ \A i \in 1 .. Threshold : outcomes'[i] = "fail"
           Exact == /\ breaker.state = "CLOSED" /\ breaker'.state = "OPEN" => streak
                    /\ streak /\ outcomes' # outcomes => breaker'.state # "CLOSED"
<1>1. ASSUME IInv, HistoryInv, IInv', HistoryInv', [HNext]_hvars
      PROVE  [Exact]_hvars
  <2> SUFFICES ASSUME HNext PROVE Exact
    BY <1>1
  <2>0. Good(breaker) /\ breaker \in Breakers /\ Threshold \in Nat
    BY <1>1, ThresholdAssumption DEF IInv, TypeOK, BreakerConsistent, Good
  <2>1. Len(outcomes') \in Nat /\ Len(outcomes') <= Threshold /\ Streak(outcomes', breaker'.consecutive_failures)
    BY <1>1, LenProperties DEF HistoryInv
  <2>2. ASSUME breaker.state = "CLOSED", breaker'.state = "OPEN" PROVE streak
    <3>1. PICK c \in Calls : Fail(c)
      BY <1>1, <2>0, <2>2, BeforeCallGood, OnSuccessGood, AgedGood
         DEF HNext, Admit, Reject, Succeed, Cancel, Tick, vars
    <3>2. breaker'.consecutive_failures = Threshold
      BY <2>0, <2>2, <3>1 DEF Fail, on_failure, CountFailure, transition, Breakers
    <3> QED BY <2>0, <2>1, <3>2 DEF Streak
  <2>3. ASSUME streak, outcomes' # outcomes PROVE breaker'.state # "CLOSED"
    <3>1. Threshold > 0
      BY <1>1, <2>0, <2>1, <2>3, EmptySeq, LenProperties DEF HistoryInv
    <3>2. breaker'.consecutive_failures = Threshold
      BY <2>0, <2>1, <2>3 DEF Streak
    <3> QED BY <1>1, <2>0, <3>1, <3>2 DEF IInv, BreakerConsistent, Consistent
  <2> QED BY <2>2, <2>3
<1> QED BY <1>1, SpecHistoryInv, PTL DEF HSpec, OpensOnStreak
=============================================================================
