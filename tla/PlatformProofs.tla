---------------------------- MODULE PlatformProofs ----------------------------
(***************************************************************************)
(* The platform as a whole, for any number of requests: what is proved of  *)
(* the chain and of the resilient caller on their own holds of the two     *)
(* together, and the layers agree about every request.                     *)
(*                                                                         *)
(* Every step but Refused is a step of the chain, and every step is a step *)
(* of the caller or leaves it alone.  Refused takes a request through two  *)
(* steps of the chain at once and is proved apart.                         *)
(*                                                                         *)
(* Layer relates the chain's frame of a request to its frame in the caller *)
(* and to what it has counted and sent.  Blamed relates what a breaker     *)
(* holds against its upstream to the calls that have failed there, which   *)
(* are never fewer: an open circuit has Threshold failures to show.        *)
(***************************************************************************)
EXTENDS Platform, MiddlewareProofs

CallerProofs == INSTANCE ResilienceProofs WITH
                  Calls <- Requests, Budgets <- {Budget}, Cancellable <- {"call", "probe"}

LEMMA CallerAssumed ==
  /\ Threshold \in Nat /\ Cooldown \in Nat /\ Retries \in Nat
  /\ AttemptTimeout \in Nat /\ MaxBackoff \in Nat
  /\ {Budget} \subseteq [retries : 0 .. Retries, timeout : 0 .. AttemptTimeout]
  /\ None \notin Nat /\ None \notin CallerProofs!Breakers
  /\ {"call", "probe"} \subseteq {"call", "probe"}
<1>1. Caller!Breakers = CallerProofs!Breakers
  BY DEF Caller!Breakers, CallerProofs!Breakers, Caller!CircuitStates, CallerProofs!CircuitStates
<1>2. None \notin Nat
  BY NoneAssumption
<1>3. {Budget} \subseteq [retries : 0 .. Retries, timeout : 0 .. AttemptTimeout]
  BY CallerAssumption DEF Budget
<1> QED BY <1>1, <1>2, <1>3, CallerAssumption, BreakerAssumption

LEMMA CallerInit == Caller!Init => CallerProofs!IInv
<1>1. Caller!Init => CallerProofs!Init
  BY DEF Caller!Init, CallerProofs!Init, Caller!Idle, CallerProofs!Idle
<1> QED
  BY <1>1, CallerAssumed, CallerProofs!InitIInv

(* Each step of the platform is a step of the caller or leaves it alone.   *)
LEMMA CallerKeeps ==
  ASSUME CallerProofs!IInv,
         \/ \E r \in Requests : \/ \E u \in Upstreams : Caller!Enter(r, u) \/ Caller!Refuse(r, u)
                                \/ Caller!Succeed(r)
                                \/ \E e : Caller!Retry(r, e) \/ Caller!Raise(r, e)
                                \/ Caller!EndBackoff(r)
                                \/ Caller!Cancel(r)
         \/ Caller!Tick
         \/ UNCHANGED callerVars
  PROVE  CallerProofs!IInv'
<1>1. ASSUME NEW r \in Requests, NEW u \in Upstreams, Caller!Enter(r, u)
      PROVE  CallerProofs!Enter(r, u)
  BY <1>1 DEF Caller!Enter, CallerProofs!Enter, Caller!breaker_for, CallerProofs!breaker_for,
     Caller!NewBreaker, CallerProofs!NewBreaker, Caller!InCall, CallerProofs!InCall,
     Caller!admits, CallerProofs!admits, Caller!Elapsed, CallerProofs!Elapsed,
     Caller!before_call, CallerProofs!before_call, Caller!transition, CallerProofs!transition
<1>2. ASSUME NEW r \in Requests, NEW u \in Upstreams, Caller!Refuse(r, u)
      PROVE  CallerProofs!Refuse(r, u)
  BY <1>2 DEF Caller!Refuse, CallerProofs!Refuse, Caller!breaker_for, CallerProofs!breaker_for,
     Caller!NewBreaker, CallerProofs!NewBreaker, Caller!InCall, CallerProofs!InCall,
     Caller!admits, CallerProofs!admits, Caller!Elapsed, CallerProofs!Elapsed
<1>3. ASSUME NEW r \in Requests, Caller!Succeed(r) PROVE CallerProofs!Succeed(r)
  BY <1>3 DEF Caller!Succeed, CallerProofs!Succeed, Caller!on_success, CallerProofs!on_success,
     Caller!transition, CallerProofs!transition, Caller!Idle, CallerProofs!Idle
<1>4. ASSUME NEW r \in Requests, NEW e, Caller!Retry(r, e)
      PROVE  CallerProofs!Retry(r, e) /\ e \in CallerProofs!Errors
  BY <1>4 DEF Caller!Retry, CallerProofs!Retry, Caller!is_transient, CallerProofs!is_transient,
     Caller!Attempts, CallerProofs!Attempts, CallerProofs!Errors
<1>5. ASSUME NEW r \in Requests, NEW e, Caller!Raise(r, e)
      PROVE  \E d \in CallerProofs!Errors : CallerProofs!Raise(r, d)
  <2> DEFINE d == IF e \in CallerProofs!Errors THEN e ELSE "other"
  <2>1. d \in CallerProofs!Errors /\ (Caller!is_transient(e) <=> CallerProofs!is_transient(d))
    BY DEF CallerProofs!Errors, Caller!is_transient, CallerProofs!is_transient
  <2> HIDE DEF d
  <2> SUFFICES CallerProofs!Raise(r, d)
    BY <2>1
  <2> QED BY <1>5, <2>1 DEF Caller!Raise, CallerProofs!Raise, Caller!Attempts, CallerProofs!Attempts,
     Caller!on_failure, CallerProofs!on_failure, Caller!CountFailure, CallerProofs!CountFailure,
     Caller!transition, CallerProofs!transition, Caller!Idle, CallerProofs!Idle
<1>6. ASSUME NEW r \in Requests, Caller!EndBackoff(r) PROVE CallerProofs!EndBackoff(r)
  BY <1>6 DEF Caller!EndBackoff, CallerProofs!EndBackoff
<1>7. ASSUME NEW r \in Requests, Caller!Cancel(r) PROVE CallerProofs!Cancel(r)
  BY <1>7 DEF Caller!Cancel, CallerProofs!Cancel, Caller!InCall, CallerProofs!InCall,
     Caller!Idle, CallerProofs!Idle
<1>8. ASSUME Caller!Tick PROVE CallerProofs!Tick
  BY <1>8 DEF Caller!Tick, CallerProofs!Tick, Caller!InCall, CallerProofs!InCall,
     Caller!Deadline, CallerProofs!Deadline, Caller!Aged, CallerProofs!Aged,
     Caller!Idle, CallerProofs!Idle
<1>9. CallerProofs!Next \/ UNCHANGED CallerProofs!vars
  BY <1>1, <1>2, <1>3, <1>4, <1>5, <1>6, <1>7, <1>8
     DEF CallerProofs!Next, CallerProofs!EndAttempt, CallerProofs!vars, callerVars
<1> QED BY <1>9, CallerAssumed, CallerProofs!NextIInv

LEMMA CallerTyped == CallerProofs!IInv => Caller!TypeOK
<1> SUFFICES ASSUME CallerProofs!IInv PROVE Caller!TypeOK
  OBVIOUS
<1>1. \A r \in Requests : Caller!InCall(r) => call[r].attempt <= call[r].attempts
  BY CallerAssumed, CallerProofs!AttemptsLeft
     DEF CallerProofs!IInv, CallerProofs!GoodFrame, Caller!InCall, CallerProofs!InCall
<1> QED
  BY <1>1 DEF CallerProofs!IInv, Caller!TypeOK, Caller!Breakers, CallerProofs!Breakers,
     Caller!CircuitStates, CallerProofs!CircuitStates, Caller!Frames, CallerProofs!Frames,
     Caller!Idle, CallerProofs!Idle, Caller!Attempts, CallerProofs!Attempts,
     Caller!MaxCall, CallerProofs!MaxCall

-----------------------------------------------------------------------------
(* The refusal of an open circuit, seen by the chain: the limiter has let  *)
(* r through, and its report is on the way.                                *)
Refusal(r) == Outcome(Cost[req[r].tool], FALSE, FALSE, "CircuitOpenError")

LEMMA RefusedFrame ==
  ASSUME IInv, NEW r \in Requests, Refused(r)
  PROVE  LET f == [req[r] EXCEPT !.started = now]
             k == RateKey(req[r].key)
         IN  /\ f \in Frames /\ f.started = now /\ now # None
             /\ f.tool = req[r].tool /\ f.args = req[r].args /\ f.key = req[r].key
             /\ f.value = req[r].value
             /\ Reports(r, metrics, f, Refusal(r))
             /\ req[r] \in Frames /\ Stage(req[r], metrics[r], events[r])
             /\ req[r].pc = "check_rate"
             /\ Limiter!check_and_increment(k) /\ k \in RateKeys
             /\ answer'[k].kind = "allowed" /\ store' = store
             /\ Refusal(r) \in Outcomes
<1>1. /\ req[r] \in Frames /\ Stage(req[r], metrics[r], events[r]) /\ req[r].pc = "check_rate"
      /\ now \in Times
  BY Unpack, ClockTyped DEF Refused, At, IInv
<1>2. req[r].tool \in Tools /\ req[r].key \in ApiKeys
  BY <1>1 DEF Stage
<1>3. RateKey(req[r].key) \in RateKeys
  BY <1>2 DEF RateKeys
<1>4. Refusal(r) \in Outcomes
  BY <1>2, ErrorAssumption DEF Refusal, Outcome, Outcomes, Errors
<1> DEFINE f == [req[r] EXCEPT !.started = now]
<1>5. /\ f \in Frames /\ f.started = now /\ f.value = req[r].value
      /\ f.tool = req[r].tool /\ f.args = req[r].args /\ f.key = req[r].key
  BY <1>1, SetStarted
<1>6. Reports(r, metrics, f, Refusal(r))
  BY DEF Refused, Refusal
<1>7. /\ Limiter!check_and_increment(RateKey(req[r].key))
      /\ answer'[RateKey(req[r].key)].kind = "allowed" /\ store' = store
  BY DEF Refused
<1> QED BY <1>1, <1>3, <1>4, <1>5, <1>6, <1>7, TimesAreNotNone

LEMMA RefusedIInv ==
  ASSUME IInv, NEW r \in Requests, Refused(r)
  PROVE  IInv'
<1> DEFINE f == [req[r] EXCEPT !.started = now]
           o == Refusal(r)
<1>1. /\ f \in Frames /\ f.started # None /\ f.value = req[r].value
      /\ f.tool = req[r].tool /\ f.args = req[r].args /\ f.key = req[r].key
      /\ Reports(r, metrics, f, o) /\ o \in Outcomes /\ store' = store
      /\ Stage(req[r], metrics[r], events[r]) /\ req[r].pc = "check_rate"
  BY RefusedFrame
<1>2. LimiterProofs!IInv'
  BY RefusedFrame, LimiterKeeps DEF IInv
<1>3. StoreInv'
  BY <1>1 DEF IInv, StoreInv, Cache!Entries
<1>4. /\ metrics[r] \in [Series -> Nat] /\ metrics = [metrics EXCEPT ![r] = metrics[r]]
      /\ LocalInv
  BY Unpack, SameCounters DEF IInv
<1>5. /\ o.cost_units = Cost[req[r].tool] /\ o.success = FALSE /\ o.cache_hit = FALSE
  BY DEF Refusal, Outcome
<1> HIDE DEF f, o
<1>6. /\ f.tool \in Tools /\ f.args \in Args /\ f.key \in ApiKeys
      /\ events[r] = <<>> /\ MayUse(f.key, f.tool) /\ Uncounted(metrics[r])
      /\ metrics[r]["hit"] = 0 /\ metrics[r]["miss"] = Once(Ttl[f.tool] # None)
      /\ f.value = None
  BY <1>1 DEF Stage, Running
<1>7. /\ metrics[r]["hit"] = Once(o.cache_hit)
      /\ metrics[r]["miss"] = Once(Consulted(f) /\ ~o.cache_hit)
  BY <1>5, <1>6 DEF Once, Consulted
<1>8. Reports(r, [metrics EXCEPT ![r] = metrics[r]], f, o)
  BY <1>1, <1>4
<1>9. LocalInv'
  BY <1>1, <1>4, <1>5, <1>6, <1>7, <1>8, ReportsLocal
<1> QED BY <1>2, <1>3, <1>9 DEF IInv

LEMMA RefusedShared ==
  ASSUME IInv, QuotaInv, CacheInv, NEW r \in Requests, Refused(r)
  PROVE  QuotaInv' /\ CacheInv'
<1> DEFINE f == [req[r] EXCEPT !.started = now]
           o == Refusal(r)
           h == [f EXCEPT !.pc = "record"]
           g == [f EXCEPT !.pc = "record", !.outcome = o]
           k == RateKey(req[r].key)
<1>1. /\ f \in Frames /\ f.started = now /\ now # None /\ f.key = req[r].key
      /\ Reports(r, metrics, f, o) /\ o \in Outcomes /\ store' = store
      /\ Stage(req[r], metrics[r], events[r]) /\ req[r].pc = "check_rate"
      /\ Limiter!check_and_increment(k) /\ k \in RateKeys /\ answer'[k].kind = "allowed"
  BY RefusedFrame
<1>2. req' = [req EXCEPT ![r] = g]
  BY <1>1 DEF Reports
<1> HIDE DEF f, o
<1>3. g \in Frames /\ g.key = f.key /\ g.started = f.started
  <2>1. "record" \in PCs
    BY DEF PCs
  <2>2. h \in Frames /\ h.key = f.key /\ h.started = f.started
    BY <1>1, <2>1, SetPc
  <2>3. g = [h EXCEPT !.outcome = o]
    BY <1>1 DEF Frames
  <2> HIDE DEF h
  <2> QED BY <1>1, <2>2, <2>3 DEF Frames
<1> HIDE DEF g
<1>4. ~Charge(req[r]) /\ Charge(g) /\ RateKey(g.key) = k
  BY <1>1, <1>3 DEF Charge, Stage, Running
<1>5. admitted' = [admitted EXCEPT ![k] = Append(@, now)]
  BY <1>1, Answered
<1>6. QuotaInv'
  BY <1>1, <1>2, <1>3, <1>4, <1>5, ChargeKeepsQuota
<1>7. PICK x : Keeps(r, x)
  BY <1>1, ReportKeeps DEF Past
<1>8. CacheInv'
  BY <1>1, <1>7, KeepsCache
<1> QED BY <1>6, <1>8

(* Every step of the platform keeps the invariants of the chain.           *)
LEMMA ChainSteps ==
  ASSUME PlatformNext
  PROVE  [Next]_vars \/ \E r \in Requests : Refused(r)
<1>1. ASSUME NEW r \in Requests, NEW t \in Tools, NEW a \in Args, NEW key \in ApiKeys,
             Arrives(r, t, a, key)
      PROVE  Next
  BY <1>1 DEF Arrives, Next
<1>2. ASSUME NEW r \in Requests, ChainStep(r) \/ Starts(r) \/ Succeeds(r) PROVE Next
  BY <1>2 DEF ChainStep, Starts, Succeeds, Next, Step
<1>3. ASSUME NEW r \in Requests, NEW e \in HandlerErrors, Raises(r, e) PROVE Next
  BY <1>3 DEF Raises, Next, Step
<1>4. ASSUME NEW r \in Requests, Wakes(r) \/ \E e \in HandlerErrors : Retry(r, e)
      PROVE  UNCHANGED vars
  BY <1>4 DEF Wakes, Retry
<1>5. ASSUME NEW r \in Requests, Abandons(r) PROVE Next
  BY <1>5 DEF Abandons, Next
<1>6. PlatformTick \/ PlatformTerminated => Next
  BY DEF PlatformTick, PlatformTerminated, Next
<1> QED BY <1>1, <1>2, <1>3, <1>4, <1>5, <1>6 DEF PlatformNext, Proceeds

ChainInv == IInv /\ QuotaInv /\ CacheInv

LEMMA ChainKeeps == ChainInv /\ [PlatformNext]_platformVars => ChainInv'
<1>1. [PlatformNext]_platformVars => [Next]_vars \/ \E r \in Requests : Refused(r)
  BY ChainSteps DEF platformVars, vars
<1>2. ChainInv /\ [Next]_vars => ChainInv'
  BY NextIInv, NextQuota, NextCache DEF ChainInv
<1>3. ASSUME ChainInv, NEW r \in Requests, Refused(r) PROVE ChainInv'
  BY <1>3, RefusedIInv, RefusedShared DEF ChainInv
<1> QED BY <1>1, <1>2, <1>3

-----------------------------------------------------------------------------
(* The upstream of a request that has been received is one of Upstreams.   *)
LEMMA UpstreamTyped ==
  ASSUME IInv, NEW r \in Requests, ~At(r, "new")
  PROVE  req[r].tool \in Tools /\ UpstreamOf(r) \in Upstreams
<1>1. req[r].tool \in Tools
  BY Unpack DEF IInv, Stage, At
<1> QED BY <1>1, WiringAssumption DEF UpstreamOf

LEMMA CallerSteps ==
  ASSUME IInv, [PlatformNext]_platformVars
  PROVE  \/ \E r \in Requests : \/ \E u \in Upstreams : Caller!Enter(r, u) \/ Caller!Refuse(r, u)
                                \/ Caller!Succeed(r)
                                \/ \E e : Caller!Retry(r, e) \/ Caller!Raise(r, e)
                                \/ Caller!EndBackoff(r)
                                \/ Caller!Cancel(r)
         \/ Caller!Tick
         \/ UNCHANGED callerVars
<1>1. ASSUME NEW r \in Requests, Starts(r) \/ Refused(r)
      PROVE  UNCHANGED callerVars \/ \E u \in Upstreams : Caller!Enter(r, u) \/ Caller!Refuse(r, u)
  <2>1. UpstreamOf(r) \in Upstreams
    BY <1>1, UpstreamTyped DEF Starts, Refused, CheckRate, At
  <2> QED BY <1>1, <2>1 DEF Starts, Refused
<1>2. ASSUME NEW r \in Requests, NEW e, Raises(r, e) \/ Retry(r, e)
      PROVE  Caller!Retry(r, e) \/ Caller!Raise(r, e)
  BY <1>2 DEF Raises, Retry
<1>3. ASSUME NEW r \in Requests, Succeeds(r) \/ Wakes(r) \/ Abandons(r)
      PROVE  \/ Caller!Succeed(r) \/ Caller!EndBackoff(r) \/ Caller!Cancel(r)
             \/ UNCHANGED callerVars
  BY <1>3 DEF Succeeds, Wakes, Abandons
<1>4. ASSUME NEW r \in Requests,
             \/ ChainStep(r)
             \/ \E t \in Tools, a \in Args, key \in ApiKeys : Arrives(r, t, a, key)
      PROVE  UNCHANGED callerVars
  BY <1>4 DEF ChainStep, Arrives
<1>5. PlatformTerminated \/ UNCHANGED platformVars => UNCHANGED callerVars
  BY DEF PlatformTerminated, platformVars, callerVars
<1>6. PlatformTick => Caller!Tick
  BY DEF PlatformTick
<1>7. ASSUME NEW r \in Requests, Proceeds(r) \/ Abandons(r)
      PROVE  \/ \E u \in Upstreams : Caller!Enter(r, u) \/ Caller!Refuse(r, u)
             \/ Caller!Succeed(r)
             \/ \E e : Caller!Retry(r, e) \/ Caller!Raise(r, e)
             \/ Caller!EndBackoff(r)
             \/ Caller!Cancel(r)
             \/ UNCHANGED callerVars
  <2>1. CASE \E e \in HandlerErrors : Raises(r, e) \/ Retry(r, e)
    BY <2>1, <1>2, Zenon
  <2>2. CASE ~\E e \in HandlerErrors : Raises(r, e) \/ Retry(r, e)
    BY <2>2, <1>1, <1>3, <1>4, <1>7 DEF Proceeds
  <2> QED BY <2>1, <2>2
<1>8. CASE \E r \in Requests : Proceeds(r) \/ Abandons(r)
  BY <1>7, <1>8, Zenon
<1>9. CASE ~\E r \in Requests : Proceeds(r) \/ Abandons(r)
  BY <1>4, <1>5, <1>6, <1>9 DEF PlatformNext
<1> QED BY <1>8, <1>9

PartsInv == ChainInv /\ CallerProofs!IInv

LEMMA InitParts == PlatformInit => PartsInv
BY InitIInv, InitQuota, InitCache, CallerInit DEF PlatformInit, PartsInv, ChainInv

LEMMA PartsKeep == PartsInv /\ [PlatformNext]_platformVars => PartsInv'
BY ChainKeeps, CallerSteps, CallerKeeps DEF PartsInv, ChainInv

LEMMA PlatformParts == PlatformSpec => []PartsInv
BY InitParts, PartsKeep, PTL DEF PlatformSpec

(* What the chain promises on its own holds of the platform, whatever the  *)
(* caller makes of the handlers and although a refused call starts and     *)
(* ends its handler in one step.                                           *)
THEOREM ChainHoldsOnPlatform ==
  PlatformSpec => [](ReportedOnce /\ BilledForUpstreamWork /\ TierGate
                       /\ QuotaAccounted /\ UpstreamRateLimited)
<1>1. PartsInv => ReportedOnce /\ BilledForUpstreamWork /\ TierGate
                    /\ QuotaAccounted /\ UpstreamRateLimited
  BY StagesReport, StagesBill, StagesGate, SlotsAccount, SlotsLimit DEF PartsInv, ChainInv
<1> QED BY <1>1, PlatformParts, PTL
-----------------------------------------------------------------------------
(* What the layers say of a request with frame f, whose call has frame g,  *)
(* that has counted n retries and sent m requests.                         *)
Unsent == {"CircuitOpenError", "MissingApiKeyError"}

Sending(f, g, n, m) ==
  IF Weather!Keyless(OwmKey, f.tool)
  THEN m = 0 /\ g.pc = "attempt"
  ELSE m = g.attempt /\ n = IF g.pc = "attempt" THEN m - 1 ELSE m

Sums(f, n, m) ==
  /\ m > 0 => n = m - 1
  /\ f.started = None => m = 0 /\ f.outcome.error_type \notin Unsent
  /\ f.started # None => (m = 0 <=> f.outcome.error_type \in Unsent)

Layer(f, g, n, m) ==
  /\ f.pc = "handler" <=> g.pc # "idle"
  /\ n <= m /\ n <= Retries /\ m <= Retries + 1
  /\ f.pc \in {"new", "cache_get", "check_rate", "failed"} => m = 0
  /\ g.pc # "idle" => /\ g.upstream = Weather!Definition[f.tool].upstream
                      /\ Sending(f, g, n, m)
  /\ f.pc = "cache_set" => m > 0 /\ n = m - 1
  /\ f.pc \in {"record", "done"} => Sums(f, n, m)

LayerInv ==
  /\ retries \in [Requests -> Nat] /\ sent \in [Requests -> Nat]
  /\ \A r \in Requests : Layer(req[r], call[r], retries[r], sent[r])

LEMMA InitLayer == PlatformInit => LayerInv
BY CallerAssumption DEF PlatformInit, Init, Caller!Init, Caller!Idle, NewFrame, LayerInv, Layer

(* What the caller's invariant says of a frame.                            *)
LEMMA CallTyped ==
  ASSUME CallerProofs!IInv, NEW r \in Requests
  PROVE  /\ call \in [Requests -> Caller!Frames \cup {Caller!Idle}]
         /\ call[r].pc \in {"idle", "attempt", "backoff"}
         /\ call[r].pc = "idle" => call[r] = Caller!Idle
         /\ call[r].pc # "idle" => /\ call[r] \in Caller!Frames
                                   /\ call[r].attempt \in 1 .. Retries + 1
                                   /\ call[r].attempts \in 1 .. Retries + 1
         /\ call[r].pc = "backoff" => call[r].attempt <= Retries
<1>1. call \in [Requests -> Caller!Frames \cup {Caller!Idle}]
  BY DEF CallerProofs!IInv, Caller!Frames, CallerProofs!Frames, Caller!Idle, CallerProofs!Idle,
     Caller!Attempts, CallerProofs!Attempts, Caller!MaxCall, CallerProofs!MaxCall
<1>2. CASE call[r] = Caller!Idle
  BY <1>1, <1>2 DEF Caller!Idle
<1>3. CASE call[r] # Caller!Idle
  <2>1. call[r] \in Caller!Frames
    BY <1>1, <1>3
  <2>2. /\ call[r].pc \in {"attempt", "backoff"}
        /\ call[r].attempt \in 1 .. Retries + 1 /\ call[r].attempts \in 1 .. Retries + 1
    BY <2>1 DEF Caller!Frames, Caller!Attempts
  <2>3. CallerProofs!GoodFrame(call[r])
    BY <2>2 DEF CallerProofs!IInv, CallerProofs!InCall
  <2>4. call[r].pc = "backoff" => call[r].attempt <= Retries
    BY <2>3, CallerAssumed, CallerProofs!AttemptsLeft DEF CallerProofs!GoodFrame
  <2> QED BY <1>1, <2>1, <2>2, <2>4
<1> QED BY <1>2, <1>3

(* A step of r alone.                                                      *)
LEMMA LayerStep ==
  ASSUME PartsInv, LayerInv, NEW r \in Requests, NEW f, NEW g, NEW n \in Nat, NEW m \in Nat,
         req' = [req EXCEPT ![r] = f], call' = [call EXCEPT ![r] = g],
         retries' = [retries EXCEPT ![r] = n], sent' = [sent EXCEPT ![r] = m],
         Layer(f, g, n, m)
  PROVE  LayerInv'
<1>0. DOMAIN req = Requests /\ DOMAIN call = Requests
  BY CallTyped DEF PartsInv, ChainInv, IInv, LocalInv
<1>1. retries' \in [Requests -> Nat] /\ sent' \in [Requests -> Nat]
  BY DEF LayerInv
<1>2. ASSUME NEW s \in Requests PROVE Layer(req'[s], call'[s], retries'[s], sent'[s])
  <2>1. CASE s = r
    <3>1. req'[s] = f /\ call'[s] = g /\ retries'[s] = n /\ sent'[s] = m
      BY <1>0, <2>1 DEF LayerInv
    <3> QED BY <3>1
  <2>2. CASE s # r
    <3>1. /\ req'[s] = req[s] /\ call'[s] = call[s]
          /\ retries'[s] = retries[s] /\ sent'[s] = sent[s]
      BY <1>0, <2>2 DEF LayerInv
    <3> QED BY <3>1 DEF LayerInv
  <2> QED BY <2>1, <2>2
<1> QED BY <1>1, <1>2 DEF LayerInv

(* Where r stands before the step.                                         *)
LEMMA LayerOf ==
  ASSUME PartsInv, LayerInv, NEW r \in Requests
  PROVE  /\ Layer(req[r], call[r], retries[r], sent[r])
         /\ retries[r] \in Nat /\ sent[r] \in Nat
         /\ req[r] \in Frames /\ Stage(req[r], metrics[r], events[r])
         /\ retries = [retries EXCEPT ![r] = retries[r]]
         /\ sent = [sent EXCEPT ![r] = sent[r]]
         /\ call = [call EXCEPT ![r] = call[r]]
         /\ req = [req EXCEPT ![r] = req[r]]
         /\ IInv /\ CallerProofs!IInv
<1>1. IInv /\ CallerProofs!IInv
  BY DEF PartsInv, ChainInv
<1>2. req = [req EXCEPT ![r] = req[r]]
  BY <1>1 DEF IInv, LocalInv
<1>3. req[r] \in Frames /\ Stage(req[r], metrics[r], events[r])
  BY <1>1, Unpack DEF IInv
<1>4. call = [call EXCEPT ![r] = call[r]]
  BY <1>1, CallTyped
<1>5. /\ retries[r] \in Nat /\ sent[r] \in Nat
      /\ retries = [retries EXCEPT ![r] = retries[r]]
      /\ sent = [sent EXCEPT ![r] = sent[r]]
  BY DEF LayerInv
<1>6. Layer(req[r], call[r], retries[r], sent[r])
  BY DEF LayerInv
<1> QED BY <1>1, <1>2, <1>3, <1>4, <1>5, <1>6

(* The frame of a report.                                                  *)
LEMMA ReportFrame ==
  ASSUME NEW r \in Requests, NEW c, NEW f \in Frames, NEW o \in Outcomes, Reports(r, c, f, o)
  PROVE  \E h : /\ req' = [req EXCEPT ![r] = h]
                /\ h.pc = "record" /\ h.outcome = o /\ h.tool = f.tool /\ h.started = f.started
<1> DEFINE h == [f EXCEPT !.pc = "record", !.outcome = o]
<1>1. h.pc = "record" /\ h.outcome = o /\ h.tool = f.tool /\ h.started = f.started
  BY DEF Frames
<1>2. req' = [req EXCEPT ![r] = h]
  BY DEF Reports
<1> QED BY <1>1, <1>2

LEMMA LayerReports ==
  ASSUME PartsInv, LayerInv, NEW r \in Requests, NEW c, NEW f \in Frames, NEW o \in Outcomes,
         Reports(r, c, f, o),
         call' = [call EXCEPT ![r] = Caller!Idle], retries' = retries, sent' = sent,
         sent[r] > 0 => retries[r] = sent[r] - 1,
         f.started = None => sent[r] = 0 /\ o.error_type \notin Unsent,
         f.started # None => (sent[r] = 0 <=> o.error_type \in Unsent)
  PROVE  LayerInv'
<1>1. PICK h : /\ req' = [req EXCEPT ![r] = h]
               /\ h.pc = "record" /\ h.outcome = o /\ h.tool = f.tool /\ h.started = f.started
  BY ReportFrame
<1>2. Sums(h, retries[r], sent[r])
  BY <1>1 DEF Sums
<1>3. Layer(h, Caller!Idle, retries[r], sent[r])
  BY <1>1, <1>2, LayerOf DEF Layer, Caller!Idle
<1>4. /\ retries[r] \in Nat /\ sent[r] \in Nat
      /\ retries' = [retries EXCEPT ![r] = retries[r]]
      /\ sent' = [sent EXCEPT ![r] = sent[r]]
  BY LayerOf
<1> QED BY <1>1, <1>3, <1>4, LayerStep

(* A request outside its handler has no call.                              *)
LEMMA IdleCall ==
  ASSUME PartsInv, LayerInv, NEW r \in Requests, req[r].pc # "handler"
  PROVE  call[r] = Caller!Idle /\ call = [call EXCEPT ![r] = Caller!Idle]
<1>1. call[r].pc = "idle"
  BY LayerOf DEF Layer
<1>2. call[r] = Caller!Idle
  BY <1>1, LayerOf, CallTyped
<1> QED BY <1>2, LayerOf

(* r goes on without its call.                                             *)
LEMMA LayerMoves ==
  ASSUME PartsInv, LayerInv, NEW r \in Requests, NEW f,
         req' = [req EXCEPT ![r] = f],
         call' = [call EXCEPT ![r] = Caller!Idle], retries' = retries, sent' = sent,
         f.pc # "handler",
         f.pc \in {"new", "cache_get", "check_rate", "failed"} => sent[r] = 0,
         f.pc = "cache_set" => sent[r] > 0 /\ retries[r] = sent[r] - 1,
         f.pc \in {"record", "done"} => Sums(f, retries[r], sent[r])
  PROVE  LayerInv'
<1>1. Layer(f, Caller!Idle, retries[r], sent[r])
  BY LayerOf DEF Layer, Caller!Idle
<1>2. PICK n \in Nat, m \in Nat : n = retries[r] /\ m = sent[r]
  BY LayerOf
<1>3. retries' = [retries EXCEPT ![r] = n] /\ sent' = [sent EXCEPT ![r] = m]
  BY <1>2, LayerOf
<1>4. Layer(f, Caller!Idle, n, m)
  BY <1>1, <1>2
<1> QED BY <1>3, <1>4, LayerStep, Zenon

LEMMA ArrivesLayer ==
  ASSUME PartsInv, LayerInv, NEW r \in Requests,
         NEW t \in Tools, NEW a \in Args, NEW key \in ApiKeys, Arrives(r, t, a, key)
  PROVE  LayerInv'
<1>1. req[r].pc = "new" /\ call' = call /\ retries' = retries /\ sent' = sent
  BY DEF Arrives, Receive, RejectTier, FailUnranked, At, callerVars
<1>2. sent[r] = 0 /\ call = [call EXCEPT ![r] = Caller!Idle]
  BY <1>1, LayerOf, IdleCall DEF Layer
<1>3. {"new", "failed", "cache_get", "check_rate"} \subseteq PCs
  BY DEF PCs
<1>4. CASE Receive(r, t, a, key)
  <2> DEFINE p == IF Ttl[t] # None THEN "cache_get" ELSE "check_rate"
             f == CallFrame(p, t, a, key)
  <2>1. p \in {"cache_get", "check_rate"}
    OBVIOUS
  <2>2. req' = [req EXCEPT ![r] = f]
    BY <1>4 DEF Receive, Continues
  <2> HIDE DEF p
  <2>3. f.pc = p
    BY <1>3, <2>1, CallFrames
  <2> HIDE DEF f
  <2> QED BY <1>1, <1>2, <2>1, <2>2, <2>3, LayerMoves
<1>5. CASE FailUnranked(r, t, a, key)
  <2> DEFINE f == CallFrame("failed", t, a, key)
  <2>1. req' = [req EXCEPT ![r] = f]
    BY <1>5 DEF FailUnranked, Continues
  <2>2. f.pc = "failed"
    BY <1>3, CallFrames
  <2> HIDE DEF f
  <2> QED BY <1>1, <1>2, <2>1, <2>2, LayerMoves
<1>6. CASE RejectTier(r, t, a, key)
  <2> DEFINE f == CallFrame("new", t, a, key)
             o == Rejected("TierError")
  <2>1. f \in Frames /\ f.started = None
    BY <1>3, CallFrames
  <2>2. o \in Outcomes /\ o.error_type \notin Unsent
    BY DEF Rejected, Outcome, Outcomes, Errors, Unsent
  <2>3. Reports(r, metrics, f, o)
    BY <1>6 DEF RejectTier
  <2> HIDE DEF f, o
  <2> QED BY <1>1, <1>2, <2>1, <2>2, <2>3, LayerReports
<1> QED BY <1>4, <1>5, <1>6 DEF Arrives

LEMMA ChainStepLayer ==
  ASSUME PartsInv, LayerInv, NEW r \in Requests, ChainStep(r)
  PROVE  LayerInv'
<1>1. /\ req[r] \in Frames /\ Stage(req[r], metrics[r], events[r])
      /\ Layer(req[r], call[r], retries[r], sent[r]) /\ IInv
      /\ sent[r] \in Nat
  BY LayerOf
<1>2. /\ req[r].pc \in {"cache_get", "cache_set", "record"}
      /\ call' = call /\ retries' = retries /\ sent' = sent
  BY DEF ChainStep, CacheHit, CacheMiss, CacheSet, Record, At, callerVars
<1>3. call' = [call EXCEPT ![r] = Caller!Idle]
  BY <1>2, IdleCall
<1>4. {"check_rate", "done"} \subseteq PCs
  BY DEF PCs
<1>5. CASE CacheHit(r)
  <2> DEFINE v == Cache!Lookup(KeyOf(r))
             f == [req[r] EXCEPT !.value = v]
             o == Outcome(0, TRUE, TRUE, None)
             m == record_cache_event(metrics, r, "hit")
  <2>1. req[r].pc = "cache_get" /\ req[r].started = None /\ sent[r] = 0
    BY <1>1, <1>5 DEF CacheHit, At, Stage, Layer
  <2>2. v \in Requests
    BY <1>1, <1>5, <2>1, LookupTyped DEF CacheHit, Running
  <2>3. f \in Frames /\ f.started = None
    <3> HIDE DEF v
    <3> QED BY <1>1, <2>1, <2>2, SetValue
  <2>4. o \in Outcomes /\ o.error_type \notin Unsent
    BY ErrorAssumption DEF Outcome, Outcomes, Errors, Unsent
  <2>5. Reports(r, m, f, o)
    BY <1>5 DEF CacheHit
  <2> HIDE DEF f, o, m
  <2>6. /\ sent[r] > 0 => retries[r] = sent[r] - 1
        /\ f.started = None => sent[r] = 0 /\ o.error_type \notin Unsent
        /\ f.started # None => (sent[r] = 0 <=> o.error_type \in Unsent)
    BY <2>1, <2>3, <2>4
  <2> QED BY <1>2, <1>3, <2>3, <2>4, <2>5, <2>6, LayerReports, Zenon
<1>6. CASE CacheMiss(r)
  <2> DEFINE f == [req[r] EXCEPT !.pc = "check_rate"]
  <2>1. sent[r] = 0
    BY <1>1, <1>6 DEF CacheMiss, At, Layer
  <2>2. f.pc = "check_rate"
    BY <1>1, <1>4, SetPc
  <2>3. req' = [req EXCEPT ![r] = f]
    BY <1>6 DEF CacheMiss, Continues
  <2> HIDE DEF f
  <2> QED BY <1>2, <1>3, <2>1, <2>2, <2>3, LayerMoves
<1>7. CASE CacheSet(r)
  <2> DEFINE f == [req[r] EXCEPT !.stored = now]
             o == Succeeded(req[r].tool)
  <2>1. /\ req[r].started # None /\ sent[r] > 0 /\ retries[r] = sent[r] - 1
        /\ req[r].tool \in Tools
    BY <1>1, <1>7 DEF CacheSet, At, Stage, Layer
  <2>2. f \in Frames /\ f.started = req[r].started
    BY <1>1, ClockTyped, SetStored
  <2>3. o \in Outcomes /\ o.error_type \notin Unsent
    BY <2>1, ErrorAssumption DEF Succeeded, Outcome, Outcomes, Errors, Unsent
  <2>4. Reports(r, metrics, f, o)
    BY <1>7 DEF CacheSet
  <2> HIDE DEF f, o
  <2>5. /\ sent[r] > 0 => retries[r] = sent[r] - 1
        /\ f.started = None => sent[r] = 0 /\ o.error_type \notin Unsent
        /\ f.started # None => (sent[r] = 0 <=> o.error_type \in Unsent)
    BY <1>1, <2>1, <2>2, <2>3
  <2> QED BY <1>2, <1>3, <2>2, <2>3, <2>4, <2>5, LayerReports, Zenon
<1>8. CASE Record(r)
  <2> DEFINE f == [req[r] EXCEPT !.pc = "done"]
  <2>1. Sums(req[r], retries[r], sent[r])
    BY <1>1, <1>8 DEF Record, At, Layer
  <2>2. f.pc = "done" /\ f.started = req[r].started /\ f.outcome = req[r].outcome
    BY <1>1, <1>4, SetPc
  <2>3. req' = [req EXCEPT ![r] = f]
    BY <1>1, <1>8 DEF Record, IInv, LocalInv
  <2> HIDE DEF f
  <2>4. Sums(f, retries[r], sent[r])
    BY <2>1, <2>2 DEF Sums
  <2> QED BY <1>2, <1>3, <2>2, <2>3, <2>4, LayerMoves
<1> QED BY <1>5, <1>6, <1>7, <1>8 DEF ChainStep

(* The limiter answers.  Only a request that starts its handler enters the *)
(* caller, and its first attempt has sent one request or, without a key,   *)
(* none.                                                                   *)
LEMMA StartsLayer ==
  ASSUME PartsInv, LayerInv, NEW r \in Requests, Starts(r)
  PROVE  LayerInv'
<1>1. /\ req[r] \in Frames /\ Stage(req[r], metrics[r], events[r])
      /\ Layer(req[r], call[r], retries[r], sent[r])
      /\ IInv /\ req \in [Requests -> Frames] /\ now \in Times
  BY LayerOf, ClockTyped DEF IInv, LocalInv
<1>2. /\ req[r].pc = "check_rate" /\ req[r].started = None
      /\ sent[r] = 0 /\ retries[r] = 0 /\ retries' = retries
  BY <1>1, LayerOf DEF Starts, CheckRate, At, Stage, Layer
<1>3. {"failed", "handler"} \subseteq PCs
  BY DEF PCs
<1>4. call = [call EXCEPT ![r] = Caller!Idle]
  BY <1>2, IdleCall
<1>5. ASSUME NEW o \in Outcomes, o.error_type \notin Unsent, Reports(r, metrics, req[r], o)
      PROVE  LayerInv'
  <2>1. req'[r].pc = "record"
    BY <1>1, <1>5, ReportFrame
  <2>2. call' = call /\ sent' = sent
    BY <2>1 DEF Starts, callerVars
  <2>3. /\ sent[r] > 0 => retries[r] = sent[r] - 1
        /\ req[r].started = None => sent[r] = 0 /\ o.error_type \notin Unsent
        /\ req[r].started # None => (sent[r] = 0 <=> o.error_type \in Unsent)
    BY <1>2, <1>5
  <2>4. call' = [call EXCEPT ![r] = Caller!Idle]
    BY <1>4, <2>2
  <2> QED BY <1>1, <1>2, <1>5, <2>2, <2>3, <2>4, LayerReports, Zenon
<1>6. CASE \/ Reports(r, metrics, req[r], Rejected("RateLimitError"))
           \/ Reports(r, metrics, req[r], Rejected("ValidationError"))
  <2>1. \A e \in {"RateLimitError", "ValidationError"} :
          Rejected(e) \in Outcomes /\ Rejected(e).error_type \notin Unsent
    BY DEF Rejected, Outcome, Outcomes, Errors, Unsent
  <2> QED BY <1>5, <1>6, <2>1
<1>7. CASE Continues(r, metrics, [req[r] EXCEPT !.pc = "failed"])
  <2> DEFINE f == [req[r] EXCEPT !.pc = "failed"]
  <2>1. f.pc = "failed"
    BY <1>1, <1>3, SetPc
  <2>2. req' = [req EXCEPT ![r] = f]
    BY <1>7 DEF Continues
  <2> HIDE DEF f
  <2>3. call' = [call EXCEPT ![r] = Caller!Idle] /\ sent' = sent
    BY <1>1, <1>4, <2>1, <2>2 DEF Starts, callerVars
  <2> QED BY <1>2, <2>1, <2>2, <2>3, LayerMoves
<1>8. CASE Continues(r, metrics, [req[r] EXCEPT !.pc = "handler", !.started = now])
  <2> DEFINE h == [req[r] EXCEPT !.pc = "handler"]
             f == [h EXCEPT !.started = now]
             u == UpstreamOf(r)
  <2>1. h \in Frames /\ h.pc = "handler" /\ h.tool = req[r].tool
    BY <1>1, <1>3, SetPc
  <2>2. req' = [req EXCEPT ![r] = f]
    BY <1>8, Zenon DEF Continues
  <2> HIDE DEF h
  <2>3. f.pc = "handler" /\ f.tool = req[r].tool
    BY <1>1, <2>1, SetStarted
  <2> HIDE DEF f
  <2>4. Caller!Enter(r, u) /\ Sends(r)
    BY <1>1, <2>2, <2>3 DEF Starts
  <2>5. PICK g : /\ call' = [call EXCEPT ![r] = g]
                 /\ g.pc = "attempt" /\ g.upstream = u /\ g.attempt = 1
    <3> DEFINE b == Caller!breaker_for(u)
               g == [pc |-> "attempt", upstream |-> u,
                     role |-> IF b.state = "CLOSED" THEN "call" ELSE "probe",
                     attempts |-> Budget.retries + 1, timeout |-> Budget.timeout,
                     attempt |-> 1, timer |-> 0, elapsed |-> 0]
    <3>1. call' = [call EXCEPT ![r] = g]
      BY <2>4, Zenon DEF Caller!Enter
    <3>2. g.pc = "attempt" /\ g.upstream = u /\ g.attempt = 1
      OBVIOUS
    <3> QED BY <3>1, <3>2, Zenon
  <2>6. PICK m \in Nat : /\ sent' = [sent EXCEPT ![r] = m]
                         /\ m = IF Weather!Keyless(OwmKey, req[r].tool) THEN 0 ELSE 1
    BY <1>2, <2>4, LayerOf DEF Sends
  <2>7. Sending(f, g, 0, m)
    BY <2>3, <2>5, <2>6 DEF Sending
  <2>8. Layer(f, g, 0, m)
    BY <2>3, <2>5, <2>6, <2>7, CallerAssumption DEF Layer, UpstreamOf
  <2>9. 0 \in Nat /\ retries' = [retries EXCEPT ![r] = 0]
    BY <1>2, LayerOf
  <2> QED BY <2>2, <2>5, <2>6, <2>8, <2>9, LayerStep, Zenon
<1> QED BY <1>6, <1>7, <1>8 DEF Starts, CheckRate

LEMMA RefusedLayer ==
  ASSUME PartsInv, LayerInv, NEW r \in Requests, Refused(r)
  PROVE  LayerInv'
<1> DEFINE f == [req[r] EXCEPT !.started = now]
           o == Refusal(r)
<1>1. /\ IInv /\ req[r].pc = "check_rate"
      /\ Layer(req[r], call[r], retries[r], sent[r])
  BY LayerOf DEF Refused, At
<1>2. f \in Frames /\ f.started # None /\ Reports(r, metrics, f, o) /\ o \in Outcomes
  BY <1>1, RefusedFrame
<1>3. o.error_type \in Unsent
  BY DEF Refusal, Outcome, Unsent
<1>4. sent[r] = 0
  BY <1>1 DEF Layer
<1>5. call' = [call EXCEPT ![r] = Caller!Idle] /\ retries' = retries /\ sent' = sent
  BY <1>1, IdleCall DEF Refused, Caller!Refuse
<1> HIDE DEF f, o
<1>6. /\ sent[r] > 0 => retries[r] = sent[r] - 1
      /\ f.started = None => sent[r] = 0 /\ o.error_type \notin Unsent
      /\ f.started # None => (sent[r] = 0 <=> o.error_type \in Unsent)
  BY <1>2, <1>3, <1>4
<1> QED BY <1>2, <1>5, <1>6, LayerReports, Zenon

(* The call of r has sent as many requests as it has made attempts, unless *)
(* it has no key.                                                          *)
LEMMA InHandler ==
  ASSUME PartsInv, LayerInv, NEW r \in Requests, call[r].pc = "attempt"
  PROVE  /\ req[r].pc = "handler" /\ req[r].started # None /\ req[r].tool \in Tools
         /\ call[r].attempt \in 1 .. Retries + 1
         /\ IF Weather!Keyless(OwmKey, req[r].tool)
              THEN sent[r] = 0
              ELSE sent[r] = call[r].attempt /\ retries[r] = sent[r] - 1
<1>1. /\ Layer(req[r], call[r], retries[r], sent[r]) /\ CallerProofs!IInv
      /\ Stage(req[r], metrics[r], events[r])
  BY LayerOf
<1>2. req[r].pc = "handler" /\ Sending(req[r], call[r], retries[r], sent[r])
  BY <1>1 DEF Layer
<1>3. call[r].attempt \in 1 .. Retries + 1
  BY <1>1, CallTyped
<1> QED BY <1>1, <1>2, <1>3 DEF Sending, Stage

LEMMA SucceedsLayer ==
  ASSUME PartsInv, LayerInv, NEW r \in Requests, Succeeds(r)
  PROVE  LayerInv'
<1>1. /\ call[r].pc = "attempt" /\ ~Weather!Keyless(OwmKey, req[r].tool)
      /\ call' = [call EXCEPT ![r] = Caller!Idle] /\ retries' = retries /\ sent' = sent
      /\ HandlerReturns(r)
  BY DEF Succeeds, Caller!Succeed
<1>2. /\ req[r].started # None /\ req[r].tool \in Tools /\ req[r] \in Frames
      /\ sent[r] > 0 /\ retries[r] = sent[r] - 1 /\ "cache_set" \in PCs
  BY <1>1, InHandler, LayerOf, CallerAssumption DEF PCs
<1>3. CASE Ttl[req[r].tool] # None
  <2> DEFINE h == [req[r] EXCEPT !.pc = "cache_set"]
             f == [h EXCEPT !.value = r]
  <2>1. h \in Frames /\ h.pc = "cache_set"
    BY <1>2, SetPc
  <2>2. Continues(r, metrics, f)
    BY <1>1, <1>3, Zenon DEF HandlerReturns
  <2> HIDE DEF h
  <2>3. f.pc = "cache_set"
    BY <2>1, SetValue
  <2>4. req' = [req EXCEPT ![r] = f]
    BY <2>2 DEF Continues
  <2> HIDE DEF f
  <2> QED BY <1>1, <1>2, <2>3, <2>4, LayerMoves
<1>4. CASE Ttl[req[r].tool] = None
  <2> DEFINE f == [req[r] EXCEPT !.value = r]
             o == Succeeded(req[r].tool)
  <2>1. f \in Frames /\ f.started = req[r].started
    BY <1>2, SetValue
  <2>2. o \in Outcomes /\ o.error_type \notin Unsent
    BY <1>2, ErrorAssumption DEF Succeeded, Outcome, Outcomes, Errors, Unsent
  <2>3. Reports(r, metrics, f, o)
    BY <1>1, <1>4, Zenon DEF HandlerReturns
  <2> HIDE DEF f, o
  <2>4. /\ sent[r] > 0 => retries[r] = sent[r] - 1
        /\ f.started = None => sent[r] = 0 /\ o.error_type \notin Unsent
        /\ f.started # None => (sent[r] = 0 <=> o.error_type \in Unsent)
    BY <1>2, <2>1, <2>2
  <2> QED BY <1>1, <2>1, <2>2, <2>3, <2>4, LayerReports, Zenon
<1> QED BY <1>3, <1>4

(* Only a call without a key fails before it has sent anything.            *)
LEMMA RaisesLayer ==
  ASSUME PartsInv, LayerInv, NEW r \in Requests, NEW e \in HandlerErrors, Raises(r, e)
  PROVE  LayerInv'
<1> DEFINE o == Outcome(Cost[req[r].tool], FALSE, FALSE, e)
<1>1. /\ call[r].pc = "attempt" /\ e \in LibErrors(r)
      /\ call' = [call EXCEPT ![r] = Caller!Idle] /\ retries' = retries /\ sent' = sent
      /\ Reports(r, metrics, req[r], o)
  BY DEF Raises, Caller!Raise, HandlerRaises
<1>2. /\ req[r].started # None /\ req[r].tool \in Tools /\ req[r] \in Frames
      /\ sent[r] \in Nat /\ call[r].attempt \in 1 .. Retries + 1
      /\ IF Weather!Keyless(OwmKey, req[r].tool)
           THEN sent[r] = 0
           ELSE sent[r] = call[r].attempt /\ retries[r] = sent[r] - 1
  BY <1>1, InHandler, LayerOf
<1>3. o \in Outcomes /\ o.error_type = e
  BY <1>2 DEF Outcome, Outcomes, Errors
<1>4. e \in Unsent <=> Weather!Keyless(OwmKey, req[r].tool)
  BY <1>1 DEF LibErrors, Weather!LibErrors, Weather!GetErrors, Unsent
<1> HIDE DEF o
<1>5. /\ sent[r] > 0 => retries[r] = sent[r] - 1
      /\ req[r].started = None => sent[r] = 0 /\ o.error_type \notin Unsent
      /\ req[r].started # None => (sent[r] = 0 <=> o.error_type \in Unsent)
  BY <1>2, <1>3, <1>4, CallerAssumption
<1> QED BY <1>1, <1>2, <1>3, <1>5, LayerReports, Zenon

(* The frame of a call after its sleep begins or ends.                     *)
LEMMA SetAttempt ==
  ASSUME NEW f \in Caller!Frames, NEW p \in {"attempt", "backoff"}, NEW a \in 1 .. Retries + 1
  PROVE  LET g == [f EXCEPT !.pc = p, !.attempt = a, !.timer = 0]
             h == [f EXCEPT !.pc = p, !.timer = 0]
         IN  /\ g.pc = p /\ g.attempt = a /\ g.upstream = f.upstream
             /\ h.pc = p /\ h.attempt = f.attempt /\ h.upstream = f.upstream
BY DEF Caller!Frames

LEMMA RetryLayer ==
  ASSUME PartsInv, LayerInv, NEW r \in Requests, NEW e, Retry(r, e)
  PROVE  LayerInv'
<1> DEFINE g == [call[r] EXCEPT !.pc = "backoff", !.timer = 0]
<1>0. /\ req' = req /\ sent' = sent /\ retries' = [retries EXCEPT ![r] = retries[r] + 1]
      /\ e \in LibErrors(r)
  BY DEF Retry, vars
<1>1. /\ call[r].pc = "attempt" /\ call[r].attempt < Retries + 1 /\ Caller!is_transient(e)
      /\ call' = [call EXCEPT ![r] = g]
  <2>1. /\ call[r].pc = "attempt" /\ call[r].attempt < call[r].attempts
        /\ Caller!is_transient(e) /\ call' = [call EXCEPT ![r] = g]
    BY Zenon DEF Retry, Caller!Retry
  <2>2. /\ call[r].attempt \in 1 .. Retries + 1 /\ call[r].attempts \in 1 .. Retries + 1
    BY <2>1, LayerOf, CallTyped
  <2> QED BY <2>1, <2>2, CallerAssumption
<1>2. ~Weather!Keyless(OwmKey, req[r].tool)
  BY <1>0, <1>1 DEF LibErrors, Weather!LibErrors, Caller!is_transient
<1>3. /\ Layer(req[r], call[r], retries[r], sent[r]) /\ req[r].pc = "handler"
      /\ call[r] \in Caller!Frames /\ call[r].attempt \in 1 .. Retries + 1
      /\ sent[r] = call[r].attempt /\ retries[r] = sent[r] - 1
  BY <1>1, <1>2, InHandler, LayerOf, CallTyped
<1>4. g.pc = "backoff" /\ g.attempt = call[r].attempt /\ g.upstream = call[r].upstream
  BY <1>3, SetAttempt
<1>5. PICK n \in Nat, m \in Nat : n = sent[r] /\ m = sent[r]
  BY LayerOf
<1>6. /\ req' = [req EXCEPT ![r] = req[r]]
      /\ retries' = [retries EXCEPT ![r] = n] /\ sent' = [sent EXCEPT ![r] = m]
  <2>1. n = retries[r] + 1
    BY <1>3, <1>5, LayerOf
  <2>2. retries' = [retries EXCEPT ![r] = n]
    BY <1>0, <2>1, Zenon
  <2> QED BY <1>0, <1>5, <2>2, LayerOf
<1> HIDE DEF g
<1>7. Sending(req[r], g, n, m)
  BY <1>2, <1>3, <1>4, <1>5 DEF Sending
<1>8. Layer(req[r], g, n, m)
  BY <1>1, <1>3, <1>4, <1>5, <1>7, CallerAssumption DEF Layer
<1> QED BY <1>1, <1>6, <1>8, LayerStep, Zenon

LEMMA WakesLayer ==
  ASSUME PartsInv, LayerInv, NEW r \in Requests, Wakes(r)
  PROVE  LayerInv'
<1> DEFINE g == [call[r] EXCEPT !.pc = "attempt", !.attempt = call[r].attempt + 1, !.timer = 0]
<1>0. req' = req /\ retries' = retries /\ Sends(r)
  BY DEF Wakes, vars
<1>1. call[r].pc = "backoff" /\ call' = [call EXCEPT ![r] = g]
  <2>1. Caller!EndBackoff(r)
    BY DEF Wakes
  <2> QED BY <2>1, LayerOf, CallTyped, Zenon DEF Caller!EndBackoff
<1>2. /\ Layer(req[r], call[r], retries[r], sent[r])
      /\ call[r] \in Caller!Frames /\ call[r].attempt \in 1 .. Retries + 1
      /\ call[r].attempt <= Retries
  BY <1>1, LayerOf, CallTyped
<1>3. /\ req[r].pc = "handler" /\ ~Weather!Keyless(OwmKey, req[r].tool)
      /\ sent[r] = call[r].attempt /\ retries[r] = sent[r]
  BY <1>1, <1>2 DEF Layer, Sending
<1>4. call[r].attempt + 1 \in 1 .. Retries + 1
  BY <1>2, CallerAssumption
<1>5. g.pc = "attempt" /\ g.attempt = call[r].attempt + 1 /\ g.upstream = call[r].upstream
  BY <1>2, <1>4, SetAttempt
<1>6. PICK n \in Nat, m \in Nat : n = retries[r] /\ m = sent[r] + 1
  BY LayerOf
<1>7. /\ req' = [req EXCEPT ![r] = req[r]]
      /\ retries' = [retries EXCEPT ![r] = n] /\ sent' = [sent EXCEPT ![r] = m]
  <2>1. sent' = [sent EXCEPT ![r] = sent[r] + 1]
    BY <1>0, <1>3, Zenon DEF Sends
  <2>2. req' = [req EXCEPT ![r] = req[r]] /\ retries' = [retries EXCEPT ![r] = retries[r]]
    BY <1>0, LayerOf
  <2> QED BY <1>6, <2>1, <2>2
<1> HIDE DEF g
<1>8. Sending(req[r], g, n, m)
  BY <1>3, <1>5, <1>6 DEF Sending
<1>9. Layer(req[r], g, n, m)
  BY <1>1, <1>2, <1>3, <1>5, <1>6, <1>8, CallerAssumption DEF Layer
<1> QED BY <1>1, <1>7, <1>9, LayerStep, Zenon

LEMMA AbandonsLayer ==
  ASSUME PartsInv, LayerInv, NEW r \in Requests, Abandons(r)
  PROVE  LayerInv'
<1> DEFINE f == [req[r] EXCEPT !.pc = "aborted"]
<1>1. req' = [req EXCEPT ![r] = f] /\ retries' = retries /\ sent' = sent
  BY DEF Abandons, Abort
<1>2. call' = [call EXCEPT ![r] = Caller!Idle]
  <2>1. CASE At(r, "handler")
    BY <2>1 DEF Abandons, Caller!Cancel
  <2>2. CASE ~At(r, "handler")
    BY <2>2, IdleCall DEF Abandons, At, callerVars
  <2> QED BY <2>1, <2>2
<1>3. f.pc = "aborted"
  <2>1. "aborted" \in PCs
    BY DEF PCs
  <2> QED BY <2>1, LayerOf, SetPc
<1> HIDE DEF f
<1> QED BY <1>1, <1>2, <1>3, LayerMoves

LEMMA TickLayer ==
  ASSUME PartsInv, LayerInv, PlatformTick
  PROVE  LayerInv'
<1>1. req' = req /\ retries' = retries /\ sent' = sent /\ Caller!Tick
  BY DEF PlatformTick, Tick
<1>2. ASSUME NEW r \in Requests
      PROVE  Layer(req[r], call'[r], retries[r], sent[r])
  <2>1. Layer(req[r], call[r], retries[r], sent[r]) /\ CallerProofs!IInv
    BY LayerOf
  <2>2. CASE call[r].pc = "idle"
    <3>1. call'[r] = Caller!Idle /\ call[r] = Caller!Idle
      BY <1>1, <2>1, <2>2, CallTyped DEF Caller!Tick, Caller!InCall
    <3> QED BY <2>1, <3>1
  <2>3. CASE call[r].pc # "idle"
    <3> DEFINE f == call[r]
               g == [f EXCEPT !.timer = @ + 1, !.elapsed = @ + 1]
    <3>1. call'[r] = g
      BY <1>1, <2>3, Zenon DEF Caller!Tick, Caller!InCall
    <3>2. f \in Caller!Frames
      BY <2>1, <2>3, CallTyped
    <3>3. g.pc = f.pc /\ g.upstream = f.upstream /\ g.attempt = f.attempt
      BY <3>2 DEF Caller!Frames
    <3> HIDE DEF g
    <3>4. Sending(req[r], f, retries[r], sent[r]) => Sending(req[r], g, retries[r], sent[r])
      BY <3>3 DEF Sending
    <3>5. Layer(req[r], g, retries[r], sent[r])
      BY <2>1, <3>3, <3>4 DEF Layer
    <3> QED BY <3>1, <3>5
  <2> QED BY <2>2, <2>3
<1> QED BY <1>1, <1>2 DEF LayerInv

LEMMA LayerKeeps == PartsInv /\ LayerInv /\ [PlatformNext]_platformVars => LayerInv'
<1> SUFFICES ASSUME PartsInv, LayerInv, [PlatformNext]_platformVars PROVE LayerInv'
  OBVIOUS
<1>1. ASSUME NEW r \in Requests, Proceeds(r) PROVE LayerInv'
  <2>1. CASE \E e \in HandlerErrors : Raises(r, e) \/ Retry(r, e)
    BY <2>1, RaisesLayer, RetryLayer, Zenon
  <2>2. CASE ~\E e \in HandlerErrors : Raises(r, e) \/ Retry(r, e)
    <3>1. ChainStep(r) \/ Starts(r) \/ Refused(r) \/ Succeeds(r) \/ Wakes(r)
      BY <1>1, <2>2, Zenon DEF Proceeds
    <3> QED BY <3>1, ChainStepLayer, StartsLayer, RefusedLayer, SucceedsLayer, WakesLayer
  <2> QED BY <2>1, <2>2
<1>2. ASSUME NEW r \in Requests, NEW t \in Tools, NEW a \in Args, NEW key \in ApiKeys,
             Arrives(r, t, a, key)
      PROVE  LayerInv'
  BY <1>2, ArrivesLayer
<1>3. ASSUME NEW r \in Requests, Abandons(r) PROVE LayerInv'
  BY <1>3, AbandonsLayer
<1>4. CASE PlatformTick
  BY <1>4, TickLayer
<1>5. CASE UNCHANGED platformVars
  BY <1>5 DEF platformVars, vars, LayerInv
<1>6. PlatformTerminated => UNCHANGED platformVars
  BY DEF PlatformTerminated
<1> QED BY <1>1, <1>2, <1>3, <1>4, <1>5, <1>6 DEF PlatformNext

PlatformInv == PartsInv /\ LayerInv

LEMMA PlatformKeeps == PlatformSpec => []PlatformInv
<1>1. PlatformInit => PlatformInv
  BY InitParts, InitLayer DEF PlatformInv
<1>2. PlatformInv /\ [PlatformNext]_platformVars => PlatformInv'
  BY PartsKeep, LayerKeeps DEF PlatformInv
<1> QED BY <1>1, <1>2, PTL DEF PlatformSpec
-----------------------------------------------------------------------------
(* Each request is inside the resilient caller exactly while the chain     *)
(* awaits its handler, on the upstream of its own tool.                    *)
THEOREM PlatformTypeCorrect == PlatformSpec => []PlatformTypeOK
<1>1. PlatformInv => PlatformTypeOK
  <2> SUFFICES ASSUME PlatformInv PROVE PlatformTypeOK
    OBVIOUS
  <2>1. TypeOK
    BY LimiterTyped DEF PlatformInv, PartsInv, ChainInv, IInv, LocalInv, StoreInv, TypeOK
  <2>2. Caller!TypeOK
    BY CallerTyped DEF PlatformInv, PartsInv
  <2>3. ASSUME NEW r \in Requests
        PROVE  /\ At(r, "handler") <=> Caller!InCall(r)
               /\ Caller!InCall(r) => call[r].upstream = UpstreamOf(r)
               /\ retries[r] \in 0 .. Retries
               /\ sent[r] \in 0 .. Retries + 1
    <3>1. Layer(req[r], call[r], retries[r], sent[r]) /\ retries[r] \in Nat /\ sent[r] \in Nat
      BY LayerOf DEF PlatformInv
    <3> QED BY <3>1, CallerAssumption DEF Layer, At, Caller!InCall, UpstreamOf
  <2> QED BY <2>1, <2>2, <2>3 DEF PlatformTypeOK
<1> QED BY <1>1, PlatformKeeps, PTL

(* The retry counter is the number of requests a call sent beyond its      *)
(* first, save for a call that is, or was cut off, in its backoff.         *)
THEOREM RetriesAreMeasured == PlatformSpec => []RetriesMeasured
<1>1. PlatformInv => RetriesMeasured
  <2> SUFFICES ASSUME PlatformInv, NEW r \in Requests
               PROVE  /\ sent[r] = 0 => retries[r] = 0
                      /\ At(r, "done") /\ sent[r] > 0 => retries[r] = sent[r] - 1
                      /\ retries[r] > sent[r] - 1 /\ sent[r] > 0 =>
                           At(r, "aborted") \/ call[r].pc = "backoff"
    BY DEF RetriesMeasured
  <2>1. /\ Layer(req[r], call[r], retries[r], sent[r])
        /\ retries[r] \in Nat /\ sent[r] \in Nat
        /\ req[r] \in Frames /\ CallerProofs!IInv
    BY LayerOf DEF PlatformInv
  <2>2. sent[r] = 0 => retries[r] = 0
    BY <2>1 DEF Layer
  <2>3. At(r, "done") /\ sent[r] > 0 => retries[r] = sent[r] - 1
    BY <2>1 DEF Layer, Sums, At
  <2>4. ASSUME sent[r] > 0, ~At(r, "aborted"), call[r].pc # "backoff"
        PROVE  retries[r] = sent[r] - 1
    <3>1. req[r].pc \in {"handler", "cache_set", "record", "done"}
      BY <2>1, <2>4 DEF Layer, Frames, PCs, At
    <3>2. CASE req[r].pc = "handler"
      <4>1. call[r].pc = "attempt"
        BY <2>1, <2>4, <3>2, CallTyped DEF Layer
      <4> QED BY <2>1, <2>4, <4>1 DEF Layer, Sending
    <3>3. CASE req[r].pc # "handler"
      BY <2>1, <2>4, <3>1, <3>3 DEF Layer, Sums
    <3> QED BY <3>2, <3>3
  <2> QED BY <2>1, <2>2, <2>3, <2>4
<1> QED BY <1>1, PlatformKeeps, PTL

(* A call that costs something has sent a request, unless the circuit was  *)
(* open or the server has no key for the upstream.                         *)
THEOREM BilledWithoutUpstreamOnly == PlatformSpec => []BilledWithoutUpstream
<1>1. PlatformInv => BilledWithoutUpstream
  <2> SUFFICES ASSUME PlatformInv, NEW r \in Requests, req[r].pc = "done"
               PROVE  LET event == events[r][1]
                      IN  /\ event.cost_units = 0 => sent[r] = 0
                          /\ event.cost_units > 0 /\ sent[r] = 0
                               <=> event.error_type \in {"CircuitOpenError", "MissingApiKeyError"}
    BY DEF BilledWithoutUpstream, At
  <2>1. /\ Layer(req[r], call[r], retries[r], sent[r])
        /\ sent[r] \in Nat /\ Stage(req[r], metrics[r], events[r])
    BY LayerOf DEF PlatformInv
  <2>2. /\ req[r].tool \in Tools /\ events[r] = <<req[r].outcome>>
        /\ Accounted(req[r], metrics[r]) /\ Sums(req[r], retries[r], sent[r])
    BY <2>1 DEF Stage, Layer
  <2>3. Cost[req[r].tool] \in {1, 3}
    BY <2>2, WiringAssumption
       DEF Weather!Definition, Weather!ToolNames, Weather!geocode_place,
           Weather!get_current_weather, Weather!get_forecast, Weather!get_weather_premium
  <2>4. events[r][1] = req[r].outcome
    BY <2>2
  <2> QED BY <2>1, <2>2, <2>3, <2>4 DEF Accounted, Sums, Unsent
<1> QED BY <1>1, PlatformKeeps, PTL
-----------------------------------------------------------------------------
(* Who is to blame for an open circuit.  n calls admitted to the upstream  *)
(* of breaker b have failed, and b holds no more against it.               *)
Blamed(b, n) ==
  IF b.state = "CLOSED" THEN b.consecutive_failures <= n ELSE Threshold <= n

LEMMA BlamedSteps ==
  ASSUME NEW b \in CallerProofs!Breakers, NEW n \in Nat, Blamed(b, n)
  PROVE  /\ \A m \in Nat : n <= m => Blamed(b, m)
         /\ Blamed(Caller!before_call(b), n)
         /\ Blamed(Caller!on_success(b), n)
         /\ Blamed(Caller!on_failure(b), n + 1)
         /\ Blamed(Caller!Aged(b), n)
         /\ ~Caller!admits(b) => Threshold <= n
<1>0. /\ b.state \in {"CLOSED", "OPEN", "HALF_OPEN"} /\ b.consecutive_failures \in 0 .. Threshold
      /\ Threshold \in Nat
  BY CallerAssumed DEF CallerProofs!Breakers, CallerProofs!CircuitStates
<1>1. \A m \in Nat : n <= m => Blamed(b, m)
  BY <1>0 DEF Blamed
<1>2. Blamed(Caller!before_call(b), n)
  BY <1>0 DEF Blamed, Caller!before_call, Caller!transition, CallerProofs!Breakers
<1>3. Blamed(Caller!on_success(b), n)
  BY <1>0 DEF Blamed, Caller!on_success, Caller!transition, CallerProofs!Breakers
<1>4. Blamed(Caller!on_failure(b), n + 1)
  <2>1. Caller!CountFailure(b) \in CallerProofs!Breakers
    BY <1>0 DEF Caller!CountFailure, CallerProofs!Breakers
  <2>2. PICK c \in CallerProofs!Breakers : c = Caller!CountFailure(b)
    BY <2>1
  <2>3. /\ c.state = b.state
        /\ c.consecutive_failures = IF b.consecutive_failures < Threshold
                                    THEN b.consecutive_failures + 1 ELSE b.consecutive_failures
    BY <1>0, <2>2 DEF Caller!CountFailure, CallerProofs!Breakers
  <2>4. CASE b.state = "CLOSED" /\ c.consecutive_failures < Threshold
    <3>1. Caller!on_failure(b) = c
      BY <1>0, <2>2, <2>3, <2>4 DEF Caller!on_failure
    <3> QED BY <1>0, <2>3, <2>4, <3>1 DEF Blamed
  <2>5. CASE b.state = "CLOSED" /\ ~(c.consecutive_failures < Threshold)
    <3>1. Threshold <= n + 1
      BY <1>0, <2>3, <2>5 DEF Blamed
    <3>2. Caller!on_failure(b).state = "OPEN"
      BY <1>0, <2>2, <2>3, <2>5 DEF Caller!on_failure, Caller!transition, CallerProofs!Breakers
    <3> QED BY <3>1, <3>2 DEF Blamed
  <2>6. CASE b.state # "CLOSED"
    <3>1. Threshold <= n + 1
      BY <1>0, <2>6 DEF Blamed
    <3>2. Caller!on_failure(b).state \in {"OPEN", "HALF_OPEN"}
      BY <1>0, <2>2, <2>3, <2>6 DEF Caller!on_failure, Caller!transition, CallerProofs!Breakers
    <3> QED BY <3>1, <3>2 DEF Blamed
  <2> QED BY <2>4, <2>5, <2>6
<1>5. Blamed(Caller!Aged(b), n)
  <2>1. Caller!Aged(b).state = b.state
    BY <1>0 DEF Caller!Aged, CallerProofs!Breakers
  <2>2. Caller!Aged(b).consecutive_failures = b.consecutive_failures
    BY <1>0 DEF Caller!Aged, CallerProofs!Breakers
  <2> QED BY <2>1, <2>2 DEF Blamed
<1>6. ~Caller!admits(b) => Threshold <= n
  BY <1>0 DEF Blamed, Caller!admits
<1> QED BY <1>1, <1>2, <1>3, <1>4, <1>5, <1>6

(* Every breaker, created or not, and what its methods make of it, is an   *)
(* object.                                                                 *)
LEMMA BreakerTyped ==
  ASSUME PartsInv, NEW u \in Upstreams
  PROVE  LET b == Caller!breaker_for(u)
         IN  /\ b \in CallerProofs!Breakers
             /\ Caller!admits(b) => Caller!before_call(b) \in CallerProofs!Breakers
             /\ Caller!on_success(b) \in CallerProofs!Breakers
             /\ Caller!on_failure(b) \in CallerProofs!Breakers
             /\ Caller!Aged(b) \in CallerProofs!Breakers
<1>1. Caller!breaker_for(u) = CallerProofs!breaker_for(u)
  BY DEF Caller!breaker_for, CallerProofs!breaker_for, Caller!NewBreaker, CallerProofs!NewBreaker
<1>2. PICK b : b = Caller!breaker_for(u) /\ CallerProofs!Good(b)
  BY <1>1 DEF PartsInv, CallerProofs!IInv
<1>3. Caller!admits(b) => CallerProofs!Good(Caller!before_call(b))
  <2>1. /\ Caller!admits(b) <=> CallerProofs!admits(b)
        /\ Caller!before_call(b) = CallerProofs!before_call(b)
    BY DEF Caller!admits, CallerProofs!admits, Caller!Elapsed, CallerProofs!Elapsed,
       Caller!before_call, CallerProofs!before_call, Caller!transition, CallerProofs!transition
  <2> QED BY <1>2, <2>1, CallerAssumed, CallerProofs!BeforeCallGood
<1>4. CallerProofs!Good(Caller!on_success(b))
  <2>1. Caller!on_success(b) = CallerProofs!on_success(b)
    BY DEF Caller!on_success, CallerProofs!on_success, Caller!transition, CallerProofs!transition
  <2> QED BY <1>2, <2>1, CallerAssumed, CallerProofs!OnSuccessGood
<1>5. CallerProofs!Good(Caller!on_failure(b))
  <2>1. Caller!on_failure(b) = CallerProofs!on_failure(b)
    BY DEF Caller!on_failure, CallerProofs!on_failure, Caller!CountFailure,
       CallerProofs!CountFailure, Caller!transition, CallerProofs!transition
  <2> QED BY <1>2, <2>1, CallerAssumed, CallerProofs!OnFailureGood
<1>6. CallerProofs!Good(Caller!Aged(b))
  <2>1. Caller!Aged(b) = CallerProofs!Aged(b)
    BY DEF Caller!Aged, CallerProofs!Aged
  <2> QED BY <1>2, <2>1, CallerAssumed, CallerProofs!AgedGood
<1> QED BY <1>2, <1>3, <1>4, <1>5, <1>6 DEF CallerProofs!Good

LEMMA BreakerSet ==
  ASSUME PartsInv, NEW u \in Upstreams, NEW x \in CallerProofs!Breakers,
         breakers' = [breakers EXCEPT ![u] = x], NEW v \in Upstreams
  PROVE  Caller!breaker_for(v)' = IF v = u THEN x ELSE Caller!breaker_for(v)
<1>1. breakers \in [Upstreams -> CallerProofs!Breakers \cup {None}]
  BY DEF PartsInv, CallerProofs!IInv
<1> QED BY <1>1, CallerAssumed DEF Caller!breaker_for
-----------------------------------------------------------------------------
(* The calls that have failed at an upstream, having sent m requests, and  *)
(* those turned away.                                                      *)
Failing(f, m) ==
  /\ f.outcome # None
  /\ f.outcome.error_type \in HandlerErrors \ {"CircuitOpenError"}
  /\ m > 0 \/ f.outcome.error_type = "MissingApiKeyError"

TurnedAway(f) == f.outcome # None /\ f.outcome.error_type = "CircuitOpenError"

Settled(f, g) == f.outcome # None => g.outcome = f.outcome /\ g.tool = f.tool

UpstreamIn(f) == Weather!Definition[f.tool].upstream

(* What r has sent stays sent, and nobody else sends.                      *)
SentGrows(r) ==
  \A s \in Requests : IF s = r THEN sent[s] > 0 => sent'[s] > 0 ELSE sent'[s] = sent[s]

LEMMA SentOnlyGrows ==
  ASSUME LayerInv, NEW r \in Requests, sent' = sent \/ Sends(r)
  PROVE  SentGrows(r)
BY DEF LayerInv, Sends, SentGrows

FailInv ==
  /\ \A u \in Upstreams : /\ IsFiniteSet(FailedAt(u))
                          /\ Blamed(Caller!breaker_for(u), Cardinality(FailedAt(u)))
  /\ RefusedForCause

LEMMA InitFail == PlatformInit => FailInv
<1> SUFFICES ASSUME PlatformInit PROVE FailInv
  OBVIOUS
<1>1. \A r \in Requests : req[r].outcome = None
  BY DEF PlatformInit, Init, NewFrame
<1>2. \A u : FailedAt(u) = {}
  BY <1>1 DEF FailedAt
<1>3. ASSUME NEW u \in Upstreams
      PROVE  IsFiniteSet(FailedAt(u)) /\ Blamed(Caller!breaker_for(u), Cardinality(FailedAt(u)))
  <2>1. Caller!breaker_for(u) = Caller!NewBreaker
    BY <1>3 DEF PlatformInit, Caller!Init, Caller!breaker_for
  <2> QED BY <1>2, <2>1, FS_EmptySet DEF Blamed, Caller!NewBreaker
<1> QED BY <1>1, <1>3 DEF FailInv, RefusedForCause

(* A call that has failed stays so: the set of failures only grows, by the *)
(* call that takes the step.                                               *)
LEMMA FailedGrows ==
  ASSUME PartsInv, NEW r \in Requests, NEW f, req' = [req EXCEPT ![r] = f],
         SentGrows(r), Settled(req[r], f), NEW u, IsFiniteSet(FailedAt(u))
  PROVE  /\ IsFiniteSet(FailedAt(u)')
         /\ Cardinality(FailedAt(u)) \in Nat /\ Cardinality(FailedAt(u)') \in Nat
         /\ Cardinality(FailedAt(u)) <= Cardinality(FailedAt(u)')
         /\ req[r].outcome = None /\ Failing(f, sent'[r]) /\ UpstreamIn(f) = u
              => Cardinality(FailedAt(u)') = Cardinality(FailedAt(u)) + 1
<1> DEFINE S == FailedAt(u)
           T == FailedAt(u)'
<1>0. DOMAIN req = Requests
  BY DEF PartsInv, ChainInv, IInv, LocalInv
<1>1. \A s \in Requests : req'[s] = IF s = r THEN f ELSE req[s]
  BY <1>0
<1>2. \A s \in Requests :
        s \in T <=> IF s = r THEN Failing(f, sent'[r]) /\ UpstreamIn(f) = u ELSE s \in S
  BY <1>1 DEF FailedAt, Failing, UpstreamIn, UpstreamOf, SentGrows
<1>3. r \in S => Failing(f, sent'[r]) /\ UpstreamIn(f) = u
  BY DEF FailedAt, Failing, UpstreamIn, UpstreamOf, Settled, SentGrows
<1>4. S \subseteq Requests /\ T \subseteq Requests
  BY DEF FailedAt
<1>5. req[r].outcome = None => r \notin S
  BY DEF FailedAt
<1> HIDE DEF S, T
<1>6. T = S \/ T = S \cup {r}
  BY <1>2, <1>3, <1>4
<1>7. Failing(f, sent'[r]) /\ UpstreamIn(f) = u => T = S \cup {r}
  BY <1>2, <1>4
<1>8. IsFiniteSet(S)
  BY DEF S
<1>9. Cardinality(S) \in Nat
  BY <1>8, FS_CardinalityType
<1>10. /\ IsFiniteSet(S \cup {r})
       /\ Cardinality(S \cup {r}) = IF r \in S THEN Cardinality(S) ELSE Cardinality(S) + 1
  BY <1>8, FS_AddElement
<1>11. /\ IsFiniteSet(T) /\ Cardinality(T) \in Nat /\ Cardinality(S) <= Cardinality(T)
       /\ req[r].outcome = None /\ Failing(f, sent'[r]) /\ UpstreamIn(f) = u
            => Cardinality(T) = Cardinality(S) + 1
  BY <1>5, <1>6, <1>7, <1>8, <1>9, <1>10
<1> QED BY <1>9, <1>11 DEF S, T

LEMMA CauseKept ==
  ASSUME PartsInv, FailInv, NEW r \in Requests, NEW f, req' = [req EXCEPT ![r] = f],
         SentGrows(r), Settled(req[r], f),
         TurnedAway(f) => \/ TurnedAway(req[r])
                          \/ Threshold <= Cardinality(FailedAt(UpstreamIn(f))')
  PROVE  RefusedForCause'
<1>0. DOMAIN req = Requests /\ IInv
  BY DEF PartsInv, ChainInv, IInv, LocalInv
<1>1. \A s \in Requests : req'[s] = IF s = r THEN f ELSE req[s]
  BY <1>0
<1> SUFFICES ASSUME NEW s \in Requests, NEW u, u = UpstreamIn(req'[s]), TurnedAway(req'[s])
             PROVE  Threshold <= Cardinality(FailedAt(u)')
  <2>1. ASSUME NEW s \in Requests, TurnedAway(req'[s])
        PROVE  Threshold <= Cardinality(FailedAt(UpstreamOf(s)))'
    <3>1. PICK u : u = UpstreamIn(req'[s])
      OBVIOUS
    <3>2. Threshold <= Cardinality(FailedAt(u)')
      BY <2>1, <3>1
    <3>3. FailedAt(UpstreamOf(s))' = FailedAt(u)'
      BY <3>1 DEF FailedAt, UpstreamOf, UpstreamIn
    <3> QED BY <3>2, <3>3
  <2> QED BY <2>1 DEF RefusedForCause, TurnedAway
<1>2. CASE TurnedAway(req[s])
  <2>1. UpstreamIn(req[s]) = u
    BY <1>1, <1>2 DEF Settled, TurnedAway, UpstreamIn
  <2>2. u \in Upstreams
    <3>1. Stage(req[s], metrics[s], events[s])
      BY <1>0, Unpack DEF IInv
    <3>2. ~At(s, "new")
      BY <1>2, <3>1 DEF Stage, At, TurnedAway
    <3> QED BY <1>0, <2>1, <3>2, UpstreamTyped DEF UpstreamOf, UpstreamIn
  <2>3. IsFiniteSet(FailedAt(u)) /\ Cardinality(FailedAt(u)) >= Threshold
    BY <1>2, <2>1, <2>2 DEF FailInv, RefusedForCause, TurnedAway, UpstreamIn, UpstreamOf
  <2>4. /\ Cardinality(FailedAt(u)) \in Nat /\ Cardinality(FailedAt(u)') \in Nat
        /\ Cardinality(FailedAt(u)) <= Cardinality(FailedAt(u)')
    BY <2>3, FailedGrows
  <2> QED BY <2>3, <2>4, CallerAssumption
<1>3. CASE ~TurnedAway(req[s])
  BY <1>1, <1>3
<1> QED BY <1>2, <1>3

(* A step of r that turns nobody away and lets no breaker count more.      *)
Mild(r) == \E f : /\ req' = [req EXCEPT ![r] = f]
                  /\ Settled(req[r], f)
                  /\ TurnedAway(f) => TurnedAway(req[r])

Lenient(u) == \A n \in Nat : Blamed(Caller!breaker_for(u), n) => Blamed(Caller!breaker_for(u)', n)

LEMMA MildFail ==
  ASSUME PartsInv, FailInv, NEW r \in Requests, Mild(r), SentGrows(r),
         \A u \in Upstreams : Lenient(u)
  PROVE  FailInv'
<1>1. PICK f : /\ req' = [req EXCEPT ![r] = f]
               /\ Settled(req[r], f)
               /\ TurnedAway(f) => TurnedAway(req[r])
  BY DEF Mild
<1>2. RefusedForCause'
  BY <1>1, CauseKept
<1>3. ASSUME NEW u \in Upstreams
      PROVE  /\ IsFiniteSet(FailedAt(u)')
             /\ Blamed(Caller!breaker_for(u)', Cardinality(FailedAt(u)'))
  <2>1. IsFiniteSet(FailedAt(u)) /\ Blamed(Caller!breaker_for(u), Cardinality(FailedAt(u)))
    BY DEF FailInv
  <2>2. PICK n \in Nat, m \in Nat :
          /\ n = Cardinality(FailedAt(u)) /\ m = Cardinality(FailedAt(u)')
          /\ n <= m /\ IsFiniteSet(FailedAt(u)')
    BY <1>1, <2>1, FailedGrows
  <2>3. PICK b \in CallerProofs!Breakers : b = Caller!breaker_for(u)
    BY BreakerTyped
  <2>4. Blamed(Caller!breaker_for(u), m)
    BY <2>1, <2>2, <2>3, BlamedSteps
  <2> QED BY <2>2, <2>4 DEF Lenient
<1> QED BY <1>2, <1>3 DEF FailInv

LEMMA SameBreakers ==
  ASSUME breakers' = breakers, NEW u
  PROVE  Lenient(u)
BY DEF Lenient, Caller!breaker_for

LEMMA MildReports ==
  ASSUME NEW r \in Requests, NEW c, NEW f \in Frames, NEW o \in Outcomes, Reports(r, c, f, o),
         req[r].outcome = None, o.error_type # "CircuitOpenError"
  PROVE  Mild(r)
<1>1. PICK h : req' = [req EXCEPT ![r] = h] /\ h.outcome = o
  BY ReportFrame
<1> QED BY <1>1 DEF Mild, Settled, TurnedAway

LEMMA MildMoves ==
  ASSUME NEW r \in Requests, NEW f, req' = [req EXCEPT ![r] = f],
         f.outcome = req[r].outcome, req[r].outcome # None => f.tool = req[r].tool
  PROVE  Mild(r)
BY DEF Mild, Settled, TurnedAway

LEMMA ArrivesMild ==
  ASSUME PartsInv, LayerInv, NEW r \in Requests,
         NEW t \in Tools, NEW a \in Args, NEW key \in ApiKeys, Arrives(r, t, a, key)
  PROVE  Mild(r)
<1>1. req[r].outcome = None /\ {"new", "failed", "cache_get", "check_rate"} \subseteq PCs
  <2>1. req[r].pc = "new" /\ Stage(req[r], metrics[r], events[r])
    BY LayerOf DEF Arrives, Receive, RejectTier, FailUnranked, At
  <2> QED BY <2>1 DEF Stage, PCs
<1>2. ASSUME NEW p \in PCs, Continues(r, metrics, CallFrame(p, t, a, key)) PROVE Mild(r)
  <2> DEFINE f == CallFrame(p, t, a, key)
  <2>1. f.outcome = None
    BY CallFrames
  <2>2. req' = [req EXCEPT ![r] = f]
    BY <1>2 DEF Continues
  <2> HIDE DEF f
  <2> QED BY <1>1, <2>1, <2>2, MildMoves
<1>3. CASE Receive(r, t, a, key)
  <2> DEFINE p == IF Ttl[t] # None THEN "cache_get" ELSE "check_rate"
  <2>1. p \in PCs
    BY <1>1
  <2>2. Continues(r, metrics, CallFrame(p, t, a, key))
    BY <1>3 DEF Receive
  <2> HIDE DEF p
  <2> QED BY <1>2, <2>1, <2>2
<1>4. CASE FailUnranked(r, t, a, key)
  BY <1>1, <1>2, <1>4 DEF FailUnranked
<1>5. CASE RejectTier(r, t, a, key)
  <2> DEFINE f == CallFrame("new", t, a, key)
             o == Rejected("TierError")
  <2>1. f \in Frames
    BY <1>1, CallFrames
  <2>2. o \in Outcomes /\ o.error_type # "CircuitOpenError"
    BY DEF Rejected, Outcome, Outcomes, Errors
  <2>3. Reports(r, metrics, f, o)
    BY <1>5 DEF RejectTier
  <2> HIDE DEF f, o
  <2> QED BY <1>1, <2>1, <2>2, <2>3, MildReports
<1> QED BY <1>3, <1>4, <1>5 DEF Arrives

LEMMA ChainStepMild ==
  ASSUME PartsInv, LayerInv, NEW r \in Requests, ChainStep(r)
  PROVE  Mild(r)
<1>1. /\ req[r] \in Frames /\ Stage(req[r], metrics[r], events[r]) /\ IInv
      /\ "check_rate" \in PCs /\ "done" \in PCs
  BY LayerOf DEF PCs
<1>2. CASE CacheHit(r)
  <2> DEFINE v == Cache!Lookup(KeyOf(r))
             f == [req[r] EXCEPT !.value = v]
             o == Outcome(0, TRUE, TRUE, None)
             m == record_cache_event(metrics, r, "hit")
  <2>1. req[r].pc \in Running /\ req[r].outcome = None
    BY <1>1, <1>2 DEF CacheHit, At, Stage, Running
  <2>2. v \in Requests
    BY <1>1, <1>2, <2>1, LookupTyped DEF CacheHit
  <2>3. f \in Frames
    <3> HIDE DEF v
    <3> QED BY <1>1, <2>2, SetValue
  <2>4. o \in Outcomes /\ o.error_type # "CircuitOpenError"
    BY ErrorAssumption DEF Outcome, Outcomes, Errors
  <2>5. Reports(r, m, f, o)
    BY <1>2 DEF CacheHit
  <2> HIDE DEF f, o, m
  <2> QED BY <2>1, <2>3, <2>4, <2>5, MildReports
<1>3. CASE CacheMiss(r)
  <2> DEFINE f == [req[r] EXCEPT !.pc = "check_rate"]
  <2>1. f.outcome = req[r].outcome /\ f.tool = req[r].tool
    BY <1>1, SetPc
  <2>2. req' = [req EXCEPT ![r] = f]
    BY <1>3 DEF CacheMiss, Continues
  <2> HIDE DEF f
  <2> QED BY <2>1, <2>2, MildMoves
<1>4. CASE CacheSet(r)
  <2> DEFINE f == [req[r] EXCEPT !.stored = now]
             o == Succeeded(req[r].tool)
  <2>1. req[r].tool \in Tools /\ req[r].outcome = None
    BY <1>1, <1>4 DEF CacheSet, At, Stage, Running
  <2>2. f \in Frames
    BY <1>1, ClockTyped, SetStored
  <2>3. o \in Outcomes /\ o.error_type # "CircuitOpenError"
    BY <2>1, ErrorAssumption DEF Succeeded, Outcome, Outcomes, Errors
  <2>4. Reports(r, metrics, f, o)
    BY <1>4 DEF CacheSet
  <2> HIDE DEF f, o
  <2> QED BY <2>1, <2>2, <2>3, <2>4, MildReports
<1>5. CASE Record(r)
  <2> DEFINE f == [req[r] EXCEPT !.pc = "done"]
  <2>1. f.outcome = req[r].outcome /\ f.tool = req[r].tool
    BY <1>1, SetPc
  <2>2. req' = [req EXCEPT ![r] = f]
    BY <1>1, <1>5 DEF Record, IInv, LocalInv
  <2> HIDE DEF f
  <2> QED BY <2>1, <2>2, MildMoves
<1> QED BY <1>2, <1>3, <1>4, <1>5 DEF ChainStep

LEMMA StartsMild ==
  ASSUME PartsInv, LayerInv, NEW r \in Requests, Starts(r)
  PROVE  Mild(r)
<1>1. /\ req[r] \in Frames /\ req[r].outcome = None /\ now \in Times
      /\ {"failed", "handler"} \subseteq PCs
  <2>1. req[r].pc = "check_rate" /\ Stage(req[r], metrics[r], events[r])
    BY LayerOf DEF Starts, CheckRate, At
  <2> QED BY <2>1, LayerOf, ClockTyped DEF Stage, Running, PCs
<1>2. CASE \/ Reports(r, metrics, req[r], Rejected("RateLimitError"))
           \/ Reports(r, metrics, req[r], Rejected("ValidationError"))
  <2>1. \A e \in {"RateLimitError", "ValidationError"} :
          Rejected(e) \in Outcomes /\ Rejected(e).error_type # "CircuitOpenError"
    BY DEF Rejected, Outcome, Outcomes, Errors
  <2> QED BY <1>1, <1>2, <2>1, MildReports
<1>3. CASE Continues(r, metrics, [req[r] EXCEPT !.pc = "failed"])
  <2> DEFINE f == [req[r] EXCEPT !.pc = "failed"]
  <2>1. f.outcome = req[r].outcome /\ f.tool = req[r].tool
    BY <1>1, SetPc
  <2>2. req' = [req EXCEPT ![r] = f]
    BY <1>3 DEF Continues
  <2> HIDE DEF f
  <2> QED BY <2>1, <2>2, MildMoves
<1>4. CASE Continues(r, metrics, [req[r] EXCEPT !.pc = "handler", !.started = now])
  <2> DEFINE h == [req[r] EXCEPT !.pc = "handler"]
             f == [h EXCEPT !.started = now]
  <2>1. h \in Frames /\ h.outcome = req[r].outcome /\ h.tool = req[r].tool
    BY <1>1, SetPc
  <2>2. req' = [req EXCEPT ![r] = f]
    BY <1>4, Zenon DEF Continues
  <2> HIDE DEF h
  <2>3. f.outcome = req[r].outcome /\ f.tool = req[r].tool
    BY <1>1, <2>1, SetStarted
  <2> HIDE DEF f
  <2> QED BY <2>2, <2>3, MildMoves
<1> QED BY <1>2, <1>3, <1>4 DEF Starts, CheckRate

LEMMA SucceedsMild ==
  ASSUME PartsInv, LayerInv, NEW r \in Requests, Succeeds(r)
  PROVE  Mild(r)
<1>1. call[r].pc = "attempt" /\ HandlerReturns(r)
  BY DEF Succeeds, Caller!Succeed
<1>2. /\ req[r].tool \in Tools /\ req[r] \in Frames /\ req[r].outcome = None
      /\ "cache_set" \in PCs
  <2>1. req[r].pc = "handler" /\ Stage(req[r], metrics[r], events[r])
    BY <1>1, LayerOf DEF HandlerReturns, At
  <2> QED BY <2>1, LayerOf DEF Stage, Running, PCs
<1>3. CASE Ttl[req[r].tool] # None
  <2> DEFINE h == [req[r] EXCEPT !.pc = "cache_set"]
             f == [h EXCEPT !.value = r]
  <2>1. h \in Frames /\ h.outcome = req[r].outcome /\ h.tool = req[r].tool
    BY <1>2, SetPc
  <2>2. Continues(r, metrics, f)
    BY <1>1, <1>3, Zenon DEF HandlerReturns
  <2> HIDE DEF h
  <2>3. f.outcome = req[r].outcome /\ f.tool = req[r].tool
    BY <2>1, SetValue
  <2>4. req' = [req EXCEPT ![r] = f]
    BY <2>2 DEF Continues
  <2> HIDE DEF f
  <2> QED BY <2>3, <2>4, MildMoves
<1>4. CASE Ttl[req[r].tool] = None
  <2> DEFINE f == [req[r] EXCEPT !.value = r]
             o == Succeeded(req[r].tool)
  <2>1. f \in Frames
    BY <1>2, SetValue
  <2>2. o \in Outcomes /\ o.error_type # "CircuitOpenError"
    BY <1>2, ErrorAssumption DEF Succeeded, Outcome, Outcomes, Errors
  <2>3. Reports(r, metrics, f, o)
    BY <1>1, <1>4, Zenon DEF HandlerReturns
  <2> HIDE DEF f, o
  <2> QED BY <1>2, <2>1, <2>2, <2>3, MildReports
<1> QED BY <1>3, <1>4

LEMMA AbandonsMild ==
  ASSUME PartsInv, LayerInv, NEW r \in Requests, Abandons(r)
  PROVE  Mild(r)
<1> DEFINE f == [req[r] EXCEPT !.pc = "aborted"]
<1>1. req' = [req EXCEPT ![r] = f]
  BY DEF Abandons, Abort
<1>2. f.outcome = req[r].outcome /\ f.tool = req[r].tool
  <2>1. "aborted" \in PCs
    BY DEF PCs
  <2> QED BY <2>1, LayerOf, SetPc
<1> HIDE DEF f
<1> QED BY <1>1, <1>2, MildMoves

(* The breaker of a call that ends has been created.                       *)
LEMMA BreakerOfCall ==
  ASSUME PartsInv, LayerInv, NEW r \in Requests, call[r].pc # "idle"
  PROVE  LET u == call[r].upstream
         IN  /\ u \in Upstreams /\ u = UpstreamIn(req[r])
             /\ breakers[u] = Caller!breaker_for(u)
<1>1. CallerProofs!InCall(r)
  BY DEF CallerProofs!InCall
<1>2. call[r].upstream \in Upstreams /\ breakers[call[r].upstream] # None
  BY <1>1, CallerProofs!FrameOf, CallerAssumed DEF PartsInv
<1>3. call[r].upstream = UpstreamIn(req[r])
  BY LayerOf DEF Layer, UpstreamIn
<1> QED BY <1>2, <1>3 DEF Caller!breaker_for

LEMMA StartsLenient ==
  ASSUME PartsInv, NEW r \in Requests, Starts(r), NEW v \in Upstreams
  PROVE  Lenient(v)
<1>1. CASE UNCHANGED callerVars
  BY <1>1, SameBreakers DEF callerVars
<1>2. CASE Caller!Enter(r, UpstreamOf(r))
  <2>1. PICK u \in Upstreams : u = UpstreamOf(r)
    BY UpstreamTyped DEF Starts, CheckRate, At, PartsInv, ChainInv
  <2>2. PICK b \in CallerProofs!Breakers, x \in CallerProofs!Breakers :
          b = Caller!breaker_for(u) /\ x = Caller!before_call(b)
          /\ breakers' = [breakers EXCEPT ![u] = x]
    BY <1>2, <2>1, BreakerTyped DEF Caller!Enter
  <2>3. Caller!breaker_for(v)' = IF v = u THEN x ELSE Caller!breaker_for(v)
    BY <2>2, BreakerSet
  <2> QED BY <2>2, <2>3, BlamedSteps DEF Lenient
<1> QED BY <1>1, <1>2 DEF Starts

LEMMA SucceedsLenient ==
  ASSUME PartsInv, LayerInv, NEW r \in Requests, Succeeds(r), NEW v \in Upstreams
  PROVE  Lenient(v)
<1>1. /\ call[r].pc = "attempt"
      /\ breakers' = [breakers EXCEPT ![call[r].upstream]
                        = Caller!on_success(breakers[call[r].upstream])]
  BY Zenon DEF Succeeds, Caller!Succeed
<1>2. PICK u \in Upstreams : u = call[r].upstream /\ breakers[u] = Caller!breaker_for(u)
  BY <1>1, BreakerOfCall
<1>3. PICK b \in CallerProofs!Breakers, x \in CallerProofs!Breakers :
        b = Caller!breaker_for(u) /\ x = Caller!on_success(b)
  BY BreakerTyped
<1>4. breakers' = [breakers EXCEPT ![u] = x]
  BY <1>1, <1>2, <1>3
<1>5. Caller!breaker_for(v)' = IF v = u THEN x ELSE Caller!breaker_for(v)
  BY <1>4, BreakerSet
<1> QED BY <1>3, <1>5, BlamedSteps DEF Lenient

(* A failed call is counted against its own upstream, and only there.      *)
LEMMA RaisesFail ==
  ASSUME PartsInv, LayerInv, FailInv, NEW r \in Requests, NEW e \in HandlerErrors, Raises(r, e)
  PROVE  FailInv'
<1> DEFINE o == Outcome(Cost[req[r].tool], FALSE, FALSE, e)
<1>1. /\ call[r].pc = "attempt" /\ e \in LibErrors(r) /\ Reports(r, metrics, req[r], o)
      /\ sent' = sent
      /\ breakers' = [breakers EXCEPT ![call[r].upstream]
                        = Caller!on_failure(breakers[call[r].upstream])]
  BY Zenon DEF Raises, Caller!Raise, HandlerRaises
<1>2. req[r] \in Frames /\ req[r].tool \in Tools /\ req[r].outcome = None
  <2>1. req[r].pc = "handler" /\ Stage(req[r], metrics[r], events[r])
    BY LayerOf DEF Raises, HandlerRaises, At
  <2> QED BY <2>1, LayerOf DEF Stage, Running
<1>3. o \in Outcomes /\ o.error_type = e /\ e # "CircuitOpenError"
  <2>1. o \in Outcomes /\ o.error_type = e
    BY <1>2 DEF Outcome, Outcomes, Errors
  <2>2. e # "CircuitOpenError"
    BY <1>1 DEF LibErrors, Weather!LibErrors, Weather!GetErrors
  <2> QED BY <2>1, <2>2
<1> HIDE DEF o
<1>4. PICK f : /\ req' = [req EXCEPT ![r] = f]
               /\ f.outcome = o /\ f.tool = req[r].tool
  BY <1>1, <1>2, <1>3, ReportFrame
<1>5. /\ Settled(req[r], f) /\ ~TurnedAway(f) /\ UpstreamIn(f) = UpstreamIn(req[r])
      /\ Failing(f, sent'[r]) /\ SentGrows(r)
  <2>1. o # None
    BY <1>3, NoneAssumption
  <2>2. sent[r] > 0 \/ e = "MissingApiKeyError"
    BY <1>1, InHandler, CallerAssumption DEF LibErrors, Weather!LibErrors
  <2>3. SentGrows(r)
    BY <1>1, SentOnlyGrows
  <2> QED BY <1>1, <1>2, <1>3, <1>4, <2>1, <2>2, <2>3 DEF Settled, TurnedAway, UpstreamIn, Failing
<1>6. RefusedForCause'
  BY <1>4, <1>5, CauseKept
<1>7. PICK u \in Upstreams : /\ u = call[r].upstream /\ breakers[u] = Caller!breaker_for(u)
                             /\ u = UpstreamIn(f)
  BY <1>1, <1>5, BreakerOfCall
<1>8. PICK b \in CallerProofs!Breakers, x \in CallerProofs!Breakers :
        b = Caller!breaker_for(u) /\ x = Caller!on_failure(b)
  BY BreakerTyped
<1>9. breakers' = [breakers EXCEPT ![u] = x]
  BY <1>1, <1>7, <1>8
<1>10. ASSUME NEW v \in Upstreams
       PROVE  /\ IsFiniteSet(FailedAt(v)')
              /\ Blamed(Caller!breaker_for(v)', Cardinality(FailedAt(v)'))
  <2>1. IsFiniteSet(FailedAt(v)) /\ Blamed(Caller!breaker_for(v), Cardinality(FailedAt(v)))
    BY DEF FailInv
  <2>2. PICK n \in Nat, m \in Nat :
          /\ n = Cardinality(FailedAt(v)) /\ m = Cardinality(FailedAt(v)')
          /\ n <= m /\ IsFiniteSet(FailedAt(v)')
          /\ v = u => m = n + 1
    BY <1>2, <1>4, <1>5, <1>7, <2>1, FailedGrows
  <2>3. Caller!breaker_for(v)' = IF v = u THEN x ELSE Caller!breaker_for(v)
    BY <1>9, BreakerSet
  <2>4. PICK a \in CallerProofs!Breakers : a = Caller!breaker_for(v)
    BY BreakerTyped
  <2>5. Blamed(Caller!breaker_for(v)', m)
    BY <1>8, <2>1, <2>2, <2>3, <2>4, BlamedSteps
  <2> QED BY <2>2, <2>5
<1> QED BY <1>6, <1>10 DEF FailInv

(* A call is turned away only by a circuit that Threshold failures opened. *)
LEMMA RefusedFail ==
  ASSUME PartsInv, LayerInv, FailInv, NEW r \in Requests, Refused(r)
  PROVE  FailInv'
<1>1. IInv /\ Caller!Refuse(r, UpstreamOf(r)) /\ req[r].outcome = None /\ ~At(r, "new")
  <2>1. req[r].pc = "check_rate" /\ Stage(req[r], metrics[r], events[r])
    BY LayerOf DEF Refused, At
  <2> QED BY <2>1, LayerOf DEF Refused, Stage, Running, At
<1>2. PICK f : /\ req' = [req EXCEPT ![r] = f]
               /\ f.outcome = Refusal(r) /\ f.tool = req[r].tool
  <2> DEFINE g == [req[r] EXCEPT !.started = now]
  <2>1. /\ g \in Frames /\ g.tool = req[r].tool
        /\ Reports(r, metrics, g, Refusal(r)) /\ Refusal(r) \in Outcomes
    BY <1>1, RefusedFrame
  <2> HIDE DEF g
  <2> QED BY <2>1, ReportFrame
<1>3. PICK u \in Upstreams : u = UpstreamOf(r)
  BY <1>1, UpstreamTyped
<1>4. Settled(req[r], f) /\ UpstreamIn(f) = u /\ SentGrows(r)
  BY <1>1, <1>2, <1>3, SentOnlyGrows DEF Settled, UpstreamIn, UpstreamOf, Refused
<1>5. PICK b \in CallerProofs!Breakers : b = Caller!breaker_for(u)
  BY BreakerTyped
<1>6. breakers' = [breakers EXCEPT ![u] = b] /\ ~Caller!admits(b)
  BY <1>1, <1>3, <1>5 DEF Caller!Refuse
<1>7. ASSUME NEW v \in Upstreams
      PROVE  /\ IsFiniteSet(FailedAt(v)')
             /\ Blamed(Caller!breaker_for(v)', Cardinality(FailedAt(v)'))
             /\ v = u => Threshold <= Cardinality(FailedAt(v)')
  <2>1. IsFiniteSet(FailedAt(v)) /\ Blamed(Caller!breaker_for(v), Cardinality(FailedAt(v)))
    BY DEF FailInv
  <2>2. PICK n \in Nat, m \in Nat :
          /\ n = Cardinality(FailedAt(v)) /\ m = Cardinality(FailedAt(v)')
          /\ n <= m /\ IsFiniteSet(FailedAt(v)')
    BY <1>2, <1>4, <2>1, FailedGrows
  <2>3. Caller!breaker_for(v)' = Caller!breaker_for(v)
    <3>1. Caller!breaker_for(v)' = IF v = u THEN b ELSE Caller!breaker_for(v)
      BY <1>6, BreakerSet
    <3> QED BY <1>5, <3>1
  <2>4. PICK a \in CallerProofs!Breakers : a = Caller!breaker_for(v)
    BY BreakerTyped
  <2>5. Blamed(Caller!breaker_for(v)', m)
    BY <2>1, <2>2, <2>3, <2>4, BlamedSteps
  <2>6. v = u => Threshold <= m
    BY <1>5, <1>6, <2>1, <2>2, <2>4, BlamedSteps, CallerAssumption
  <2> QED BY <2>2, <2>5, <2>6
<1>8. RefusedForCause'
  BY <1>2, <1>4, <1>7, CauseKept
<1> QED BY <1>7, <1>8 DEF FailInv

LEMMA TickFail ==
  ASSUME PartsInv, FailInv, PlatformTick
  PROVE  FailInv'
<1>1. req' = req /\ sent' = sent /\ Caller!Tick
  BY DEF PlatformTick, Tick
<1>2. \A u : FailedAt(u)' = FailedAt(u)
  BY <1>1 DEF FailedAt, UpstreamOf
<1>3. ASSUME NEW v \in Upstreams
      PROVE  Blamed(Caller!breaker_for(v)', Cardinality(FailedAt(v)'))
  <2>1. IsFiniteSet(FailedAt(v)) /\ Blamed(Caller!breaker_for(v), Cardinality(FailedAt(v)))
    BY DEF FailInv
  <2>2. PICK n \in Nat : n = Cardinality(FailedAt(v))
    BY <2>1, FS_CardinalityType
  <2>3. PICK b \in CallerProofs!Breakers, x \in CallerProofs!Breakers :
          b = Caller!breaker_for(v) /\ x = Caller!Aged(b)
    BY BreakerTyped
  <2>4. breakers'[v] = IF breakers[v] = None THEN None ELSE Caller!Aged(breakers[v])
    BY <1>1 DEF Caller!Tick
  <2>5. Caller!breaker_for(v)' \in {b, x}
    BY <2>3, <2>4, CallerAssumed DEF Caller!breaker_for
  <2> QED BY <1>2, <2>1, <2>2, <2>3, <2>5, BlamedSteps
<1>4. RefusedForCause'
  BY <1>1 DEF FailInv, RefusedForCause, FailedAt, UpstreamOf
<1> QED BY <1>2, <1>3, <1>4 DEF FailInv

LEMMA FailKeeps ==
  PlatformInv /\ FailInv /\ [PlatformNext]_platformVars => FailInv'
<1> SUFFICES ASSUME PartsInv, LayerInv, FailInv, [PlatformNext]_platformVars PROVE FailInv'
  BY DEF PlatformInv
<1>1. ASSUME NEW r \in Requests,
             \/ ChainStep(r)
             \/ \E t \in Tools, a \in Args, key \in ApiKeys : Arrives(r, t, a, key)
             \/ Abandons(r)
      PROVE  FailInv'
  <2>1. Mild(r)
    BY <1>1, ChainStepMild, ArrivesMild, AbandonsMild
  <2>2. breakers' = breakers /\ sent' = sent
    BY <1>1 DEF ChainStep, Arrives, Abandons, Caller!Cancel, callerVars
  <2>3. SentGrows(r)
    BY <2>2, SentOnlyGrows
  <2> QED BY <2>1, <2>2, <2>3, SameBreakers, MildFail
<1>2. ASSUME NEW r \in Requests, Starts(r) \/ Succeeds(r) PROVE FailInv'
  <2>1. SentGrows(r)
    BY <1>2, SentOnlyGrows DEF Starts, Succeeds
  <2> QED
    BY <1>2, <2>1, StartsMild, SucceedsMild, StartsLenient, SucceedsLenient, MildFail
<1>3. ASSUME NEW r \in Requests, Wakes(r) \/ \E e \in HandlerErrors : Retry(r, e) PROVE FailInv'
  <2>1. req' = req /\ breakers' = breakers
    BY <1>3 DEF Wakes, Retry, Caller!EndBackoff, Caller!Retry, vars
  <2>2. Mild(r)
    BY <2>1, LayerOf, MildMoves
  <2>3. SentGrows(r)
    BY <1>3, SentOnlyGrows DEF Wakes, Retry
  <2> QED BY <2>1, <2>2, <2>3, SameBreakers, MildFail
<1>4. ASSUME NEW r \in Requests, Proceeds(r) PROVE FailInv'
  <2>1. CASE \E e \in HandlerErrors : Raises(r, e) \/ Retry(r, e)
    BY <1>3, <2>1, RaisesFail, Zenon
  <2>2. CASE ~\E e \in HandlerErrors : Raises(r, e) \/ Retry(r, e)
    <3>1. ChainStep(r) \/ Starts(r) \/ Refused(r) \/ Succeeds(r) \/ Wakes(r)
      BY <1>4, <2>2, Zenon DEF Proceeds
    <3> QED BY <1>1, <1>2, <1>3, <3>1, RefusedFail
  <2> QED BY <2>1, <2>2
<1>5. CASE PlatformTick
  BY <1>5, TickFail
<1>6. CASE UNCHANGED platformVars
  BY <1>6 DEF platformVars, vars, FailInv, RefusedForCause, FailedAt, UpstreamOf, Caller!breaker_for
<1>7. PlatformTerminated => UNCHANGED platformVars
  BY DEF PlatformTerminated
<1> QED BY <1>1, <1>4, <1>5, <1>6, <1>7 DEF PlatformNext

(* A call fails with CircuitOpenError only after Threshold calls admitted  *)
(* to its own upstream have failed, each with a request sent or for want   *)
(* of the API key.                                                         *)
THEOREM CallsRefusedForCause == PlatformSpec => []RefusedForCause
<1>1. FailInv => RefusedForCause
  BY DEF FailInv
<1>2. PlatformSpec => []FailInv
  BY InitFail, FailKeeps, PlatformKeeps, PTL DEF PlatformSpec
<1> QED BY <1>1, <1>2, PTL
=============================================================================
