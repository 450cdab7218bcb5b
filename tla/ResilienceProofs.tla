-------------------------- MODULE ResilienceProofs ---------------------------
(***************************************************************************)
(* What Resilience.tla promises for any number of upstreams and calls, any *)
(* number of retries and any timeouts: its frames are well formed, no call *)
(* lasts longer than MaxCall, and what happens at each upstream is a       *)
(* behaviour of CircuitBreaker.                                            *)
(***************************************************************************)
EXTENDS Resilience, TLAPS

USE DEF CircuitStates

Round == AttemptTimeout + MaxBackoff

LEMMA Rounds ==
  ASSUME NEW a \in 1 .. Attempts
  PROVE  /\ Round \in Nat /\ MaxCall \in Nat /\ (a - 1) * Round \in Nat
         /\ (a - 1) * Round + Round = a * Round
         /\ (a - 1) * Round + AttemptTimeout <= MaxCall
         /\ a <= Retries => (a - 1) * Round + AttemptTimeout + MaxBackoff <= MaxCall
<1>1. Round \in Nat /\ Retries \in Nat /\ AttemptTimeout \in Nat /\ MaxBackoff \in Nat
  BY RetryAssumption, TimeoutAssumption, BackoffAssumption DEF Round
<1>2. a \in Nat /\ a >= 1 /\ a - 1 <= Retries
  BY <1>1 DEF Attempts
<1>3. MaxCall = Retries * Round + AttemptTimeout
  BY <1>1 DEF MaxCall, Attempts, Round
<1>4. \A i, j, p \in Nat : i <= j => i * p <= j * p /\ i * p \in Nat
  OBVIOUS
<1>5. (a - 1) * Round <= Retries * Round /\ (a - 1) * Round \in Nat
  BY <1>1, <1>2, <1>4
<1>6. Retries * Round \in Nat
  BY <1>1, <1>4
<1>7. (a - 1) * Round + Round = a * Round
  BY <1>1, <1>2
<1>8. a <= Retries => a * Round <= Retries * Round
  BY <1>1, <1>2, <1>4
<1>9. a <= Retries => (a - 1) * Round + AttemptTimeout + MaxBackoff <= MaxCall
  <2>1. a * Round \in Nat
    BY <1>1, <1>2, <1>4
  <2> QED BY <1>1, <1>3, <1>5, <1>6, <1>7, <1>8, <2>1 DEF Round
<1> QED BY <1>1, <1>3, <1>5, <1>6, <1>7, <1>9

-----------------------------------------------------------------------------
(* The breakers are objects of the class that CircuitBreakerProofs is      *)
(* about: what is proved there of its methods holds of each of them.       *)
Object == INSTANCE CircuitBreakerProofs WITH
            breaker  <- NewBreaker,
            phase    <- [c \in Calls |-> "idle"],
            age      <- [c \in Calls |-> 0],
            outcomes <- <<>>

Good(b) == b \in Breakers /\ Consistent(b)

LEMMA ObjectAssumed ==
  /\ Threshold \in Nat /\ Cooldown \in Nat /\ None \notin Nat
  /\ MaxCall \in Nat /\ Cancellable \subseteq {"call", "probe"}
<1>1. 1 \in 1 .. Attempts
  BY RetryAssumption DEF Attempts
<1> QED BY <1>1, Rounds, ThresholdAssumption, CooldownAssumption, NoneAssumption, CancelAssumption

LEMMA SameGood == \A b : Object!Good(b) <=> Good(b)
BY DEF Good, Breakers, Consistent, Object!Good, Object!Breakers, Object!Consistent,
       Object!CircuitStates

LEMMA NewBreakerGood == Good(NewBreaker)
<1>1. Object!NewBreaker = NewBreaker
  BY DEF NewBreaker, Object!NewBreaker
<1> QED BY <1>1, ObjectAssumed, SameGood, Object!NewBreakerGood

LEMMA BeforeCallGood ==
  ASSUME NEW b, Good(b), admits(b)
  PROVE  /\ Good(before_call(b))
         /\ b.state = "CLOSED" => before_call(b) = b
         /\ b.state # "CLOSED" =>
              /\ b.state = "OPEN"
              /\ b.opened_at = Cooldown
              /\ before_call(b).state = "HALF_OPEN"
              /\ before_call(b).opened_at = Cooldown
<1>1. Object!admits(b) /\ Object!before_call(b) = before_call(b)
  BY DEF admits, Elapsed, before_call, transition,
         Object!admits, Object!Elapsed, Object!before_call, Object!transition
<1> QED BY <1>1, ObjectAssumed, SameGood, Object!BeforeCallGood

LEMMA OnSuccessGood ==
  ASSUME NEW b, Good(b)
  PROVE  /\ Good(on_success(b))
         /\ on_success(b).state = "CLOSED"
<1>1. Object!on_success(b) = on_success(b)
  BY DEF on_success, transition, Object!on_success, Object!transition
<1> QED BY <1>1, ObjectAssumed, SameGood, Object!OnSuccessGood

LEMMA OnFailureGood ==
  ASSUME NEW b, Good(b)
  PROVE  /\ Good(on_failure(b))
         /\ on_failure(b).state # "HALF_OPEN"
         /\ on_failure(b).state = "OPEN" =>
              \/ on_failure(b).opened_at = 0
              \/ b.state = "OPEN" /\ on_failure(b).opened_at = b.opened_at
<1>1. Object!on_failure(b) = on_failure(b)
  BY DEF on_failure, CountFailure, transition,
         Object!on_failure, Object!CountFailure, Object!transition
<1> QED BY <1>1, ObjectAssumed, SameGood, Object!OnFailureGood

LEMMA AgedGood ==
  ASSUME NEW b, Good(b)
  PROVE  /\ Good(Aged(b))
         /\ Aged(b).state = b.state
         /\ b.state # "CLOSED" =>
              Aged(b).opened_at =
                IF b.opened_at = Cooldown THEN Cooldown ELSE b.opened_at + 1
<1>1. Object!Aged(b) = Aged(b)
  BY DEF Aged, Object!Aged
<1> QED BY <1>1, ObjectAssumed, SameGood, Object!AgedGood

-----------------------------------------------------------------------------
(* How long a call may have taken, by where it is in the retry loop.       *)
Pace(f) ==
  IF f.pc = "attempt"
  THEN /\ f.attempt <= f.attempts
       /\ f.timer <= AttemptTimeout
       /\ f.elapsed <= (f.attempt - 1) * Round + f.timer
  ELSE /\ f.attempt < f.attempts
       /\ f.timer <= MaxBackoff
       /\ f.elapsed <= (f.attempt - 1) * Round + AttemptTimeout + f.timer

GoodFrame(f) == f \in Frames /\ Pace(f)

(* A call that sleeps has an attempt left.                                 *)
LEMMA AttemptsLeft ==
  ASSUME NEW f \in Frames, Pace(f)
  PROVE  /\ f.attempt <= f.attempts
         /\ f.pc = "backoff" => f.attempt <= Retries
<1>1. f.attempt \in 1 .. Attempts /\ f.attempts \in 1 .. Attempts /\ Attempts = Retries + 1
      /\ Retries \in Nat
  BY RetryAssumption DEF Frames, Attempts
<1> QED BY <1>1 DEF Pace

IInv ==
  /\ breakers \in [Upstreams -> Breakers \cup {None}]
  /\ \A u \in Upstreams : Good(breaker_for(u))
  /\ call \in [Calls -> Frames \cup {Idle}]
  /\ \A c \in Calls : InCall(c) => GoodFrame(call[c]) /\ breakers[call[c].upstream] # None

LEMMA FrameOf ==
  ASSUME IInv, NEW c \in Calls, InCall(c)
  PROVE  /\ call[c] \in Frames /\ GoodFrame(call[c])
         /\ call[c].upstream \in Upstreams /\ breakers[call[c].upstream] # None
         /\ breaker_for(call[c].upstream) = breakers[call[c].upstream]
BY DEF IInv, InCall, Idle, Frames, breaker_for

LEMMA InitIInv == Init => IInv
BY NewBreakerGood DEF Init, IInv, breaker_for, InCall, Idle

(* A step that changes the frame of c alone, and the breaker of u alone.   *)
LEMMA StepIInv ==
  ASSUME IInv, NEW c \in Calls, NEW f,
         f = Idle \/ (GoodFrame(f) /\ breakers'[f.upstream] # None),
         call' = [call EXCEPT ![c] = f],
         NEW u \in Upstreams, NEW b, Good(b),
         breakers' = [breakers EXCEPT ![u] = b] \/ breakers' = breakers
  PROVE  IInv'
<1>1. breakers' \in [Upstreams -> Breakers \cup {None}]
  BY DEF IInv, Good
<1>2. ASSUME NEW v \in Upstreams PROVE Good(breaker_for(v)')
  <2>1. breakers'[v] = breakers[v] \/ (breakers'[v] = b /\ b # None)
    BY ObjectAssumption DEF IInv, Good
  <2>2. breaker_for(v)' = breaker_for(v) \/ breaker_for(v)' = b
    BY <2>1 DEF breaker_for
  <2> QED BY <2>2 DEF IInv
<1>3. call' \in [Calls -> Frames \cup {Idle}]
  BY DEF IInv, GoodFrame
<1>4. ASSUME NEW d \in Calls, InCall(d)'
      PROVE  GoodFrame(call'[d]) /\ breakers'[call'[d].upstream] # None
  <2>1. CASE d = c
    BY <1>4, <2>1 DEF IInv, InCall, Idle
  <2>2. CASE d # c
    <3>1. call'[d] = call[d] /\ InCall(d)
      BY <1>4, <2>2 DEF IInv, InCall
    <3>2. /\ GoodFrame(call[d]) /\ call[d].upstream \in Upstreams
          /\ breakers[call[d].upstream] # None
      BY <3>1, FrameOf
    <3>3. breakers'[call[d].upstream] # None
      BY <3>2, ObjectAssumption DEF IInv, Good
    <3> QED BY <3>1, <3>2, <3>3
  <2> QED BY <2>1, <2>2
<1> QED BY <1>1, <1>2, <1>3, <1>4 DEF IInv

(* The frame of a call that is admitted.                                   *)
FirstFrame(u, b, budget) ==
  [pc |-> "attempt", upstream |-> u,
   role |-> IF b.state = "CLOSED" THEN "call" ELSE "probe",
   attempts |-> budget.retries + 1, timeout |-> budget.timeout,
   attempt |-> 1, timer |-> 0, elapsed |-> 0]

LEMMA EnterIInv ==
  ASSUME IInv, NEW c \in Calls, NEW u \in Upstreams, Enter(c, u)
  PROVE  IInv'
<1> DEFINE b == breaker_for(u)
<1>1. Good(before_call(b))
  BY BeforeCallGood DEF Enter, IInv
<1>2. PICK budget \in Budgets : call' = [call EXCEPT ![c] = FirstFrame(u, b, budget)]
  BY Zenon DEF Enter, FirstFrame
<1> DEFINE f == FirstFrame(u, b, budget)
<1>3. /\ 1 \in 1 .. Attempts /\ budget.retries + 1 \in 1 .. Attempts
      /\ budget.timeout \in 0 .. AttemptTimeout
  BY BudgetAssumption, RetryAssumption, TimeoutAssumption DEF Attempts
<1>4. GoodFrame(f) /\ f.upstream = u
  <2>1. f \in Frames
    BY <1>3, Rounds, TimeoutAssumption, BackoffAssumption DEF Frames, FirstFrame
  <2>2. Pace(f)
    BY <1>3, Rounds, TimeoutAssumption DEF Pace, FirstFrame
  <2> QED BY <2>1, <2>2 DEF GoodFrame, FirstFrame
<1> HIDE DEF f
<1>5. breakers'[u] # None
  BY <1>1, ObjectAssumption DEF Enter, IInv, Good
<1>6. breakers' = [breakers EXCEPT ![u] = before_call(b)]
  BY DEF Enter
<1> QED BY <1>1, <1>2, <1>4, <1>5, <1>6, StepIInv DEF f

LEMMA RefuseIInv ==
  ASSUME IInv, NEW c \in Calls, NEW u \in Upstreams, Refuse(c, u)
  PROVE  IInv'
<1>1. call' = [call EXCEPT ![c] = call[c]] /\ Good(breaker_for(u))
  BY DEF Refuse, IInv
<1>2. call[c] = Idle
  BY DEF Refuse, InCall, IInv, Frames
<1> QED BY <1>1, <1>2, StepIInv DEF Refuse

(* A call that ends.                                                       *)
LEMMA EndIInv ==
  ASSUME IInv, NEW c \in Calls, InCall(c), call' = [call EXCEPT ![c] = Idle],
         LET u == call[c].upstream
         IN  \/ breakers' = [breakers EXCEPT ![u] = on_success(breakers[u])]
             \/ breakers' = [breakers EXCEPT ![u] = on_failure(breakers[u])]
             \/ breakers' = breakers
  PROVE  IInv'
<1> DEFINE u == call[c].upstream
<1>1. u \in Upstreams /\ breakers[u] # None
  BY FrameOf
<1>2. Good(breakers[u])
  BY <1>1 DEF IInv, breaker_for
<1>3. Good(on_success(breakers[u])) /\ Good(on_failure(breakers[u]))
  BY <1>2, OnSuccessGood, OnFailureGood
<1> QED BY <1>1, <1>2, <1>3, StepIInv

LEMMA CallEnds ==
  ASSUME IInv, NEW c \in Calls,
         Succeed(c) \/ Cancel(c) \/ \E e \in Errors : Raise(c, e)
  PROVE  IInv'
<1>1. InCall(c)
  BY DEF Succeed, Cancel, Raise, InCall
<1>2. CASE Succeed(c)
  BY <1>1, <1>2, FrameOf, EndIInv DEF Succeed, IInv
<1>3. CASE Cancel(c)
  BY <1>1, <1>3, EndIInv DEF Cancel
<1>4. ASSUME NEW e \in Errors, Raise(c, e) PROVE IInv'
  BY <1>1, <1>4, FrameOf, EndIInv DEF Raise, IInv
<1> QED BY <1>2, <1>3, <1>4

(* A call that goes from an attempt to its backoff, or to the next attempt.*)
LEMMA BackoffFrame ==
  ASSUME NEW f \in Frames
  PROVE  LET g == [f EXCEPT !.pc = "backoff", !.timer = 0]
         IN  /\ g \in Frames /\ g.pc = "backoff" /\ g.timer = 0 /\ g.attempt = f.attempt
             /\ g.upstream = f.upstream /\ g.elapsed = f.elapsed /\ g.role = f.role
             /\ g.attempts = f.attempts
<1> DEFINE h == [f EXCEPT !.pc = "backoff"]
           g == [h EXCEPT !.timer = 0]
<1>1. /\ h \in Frames /\ h.pc = "backoff" /\ h.attempt = f.attempt /\ h.attempts = f.attempts
      /\ h.upstream = f.upstream /\ h.elapsed = f.elapsed /\ h.role = f.role
  BY DEF Frames
<1>2. [f EXCEPT !.pc = "backoff", !.timer = 0] = g
  BY Zenon
<1> HIDE DEF h
<1>3. /\ g \in Frames /\ g.pc = "backoff" /\ g.timer = 0 /\ g.attempt = f.attempt
      /\ g.attempts = f.attempts
      /\ g.upstream = f.upstream /\ g.elapsed = f.elapsed /\ g.role = f.role
  BY <1>1, TimeoutAssumption, BackoffAssumption DEF Frames
<1> QED BY <1>2, <1>3, Zenon

LEMMA AttemptFrame ==
  ASSUME NEW f \in Frames, f.attempt <= Retries
  PROVE  LET g == [f EXCEPT !.pc = "attempt", !.attempt = @ + 1, !.timer = 0]
         IN  /\ g \in Frames /\ g.pc = "attempt" /\ g.timer = 0 /\ g.attempt = f.attempt + 1
             /\ g.upstream = f.upstream /\ g.elapsed = f.elapsed /\ g.role = f.role
             /\ g.attempts = f.attempts
<1> DEFINE h == [f EXCEPT !.pc = "attempt"]
           i == [h EXCEPT !.attempt = f.attempt + 1]
           g == [i EXCEPT !.timer = 0]
<1>1. /\ h \in Frames /\ h.pc = "attempt" /\ h.attempt = f.attempt /\ h.attempts = f.attempts
      /\ h.upstream = f.upstream /\ h.elapsed = f.elapsed /\ h.role = f.role
  BY DEF Frames
<1>2. [f EXCEPT !.pc = "attempt", !.attempt = @ + 1, !.timer = 0] = g
  BY <1>1, Zenon
<1> HIDE DEF h
<1>3. f.attempt + 1 \in 1 .. Attempts
  BY RetryAssumption DEF Frames, Attempts
<1>4. /\ i \in Frames /\ i.pc = "attempt" /\ i.attempt = f.attempt + 1 /\ i.attempts = f.attempts
      /\ i.upstream = f.upstream /\ i.elapsed = f.elapsed /\ i.role = f.role
  BY <1>1, <1>3 DEF Frames
<1> HIDE DEF i
<1>5. /\ g \in Frames /\ g.pc = "attempt" /\ g.timer = 0 /\ g.attempt = f.attempt + 1
      /\ g.attempts = f.attempts
      /\ g.upstream = f.upstream /\ g.elapsed = f.elapsed /\ g.role = f.role
  BY <1>4, TimeoutAssumption, BackoffAssumption DEF Frames
<1> QED BY <1>2, <1>5, Zenon

LEMMA RetryIInv ==
  ASSUME IInv, NEW c \in Calls, NEW e \in Errors, Retry(c, e)
  PROVE  IInv'
<1> DEFINE f == [call[c] EXCEPT !.pc = "backoff", !.timer = 0]
<1>1. /\ call[c] \in Frames /\ Pace(call[c]) /\ call[c].pc = "attempt"
      /\ call[c].upstream \in Upstreams /\ breakers[call[c].upstream] # None
      /\ Good(breaker_for(call[c].upstream))
  BY FrameOf DEF Retry, InCall, GoodFrame, IInv
<1>2. /\ f \in Frames /\ f.pc = "backoff" /\ f.timer = 0 /\ f.attempt = call[c].attempt
      /\ f.attempts = call[c].attempts
      /\ f.upstream = call[c].upstream /\ f.elapsed = call[c].elapsed
  BY <1>1, BackoffFrame
<1>3. /\ call' = [call EXCEPT ![c] = f] /\ breakers' = breakers
      /\ call[c].attempt < call[c].attempts
  BY Zenon DEF Retry, IInv
<1> HIDE DEF f
<1>4. /\ call[c].attempt \in 1 .. Attempts /\ call[c].elapsed \in Nat /\ call[c].timer \in Nat
      /\ AttemptTimeout \in Nat /\ MaxBackoff \in Nat /\ Retries \in Nat
  BY <1>1, Rounds, RetryAssumption, TimeoutAssumption, BackoffAssumption DEF Frames
<1>5. (f.attempt - 1) * Round \in Nat /\ (f.attempt - 1) * Round = (call[c].attempt - 1) * Round
  BY <1>2, <1>4, Rounds
<1>6. Pace(f)
  BY <1>1, <1>2, <1>3, <1>4, <1>5 DEF Pace
<1> QED BY <1>1, <1>2, <1>3, <1>6, StepIInv DEF GoodFrame

LEMMA EndBackoffIInv ==
  ASSUME IInv, NEW c \in Calls, EndBackoff(c)
  PROVE  IInv'
<1> DEFINE f == [call[c] EXCEPT !.pc = "attempt", !.attempt = @ + 1, !.timer = 0]
           a == call[c].attempt
<1>1. /\ call[c] \in Frames /\ Pace(call[c]) /\ call[c].pc = "backoff"
      /\ call[c].upstream \in Upstreams /\ breakers[call[c].upstream] # None
      /\ Good(breaker_for(call[c].upstream))
  BY FrameOf DEF EndBackoff, InCall, GoodFrame, IInv
<1>2. /\ a <= Retries /\ a < call[c].attempts /\ call[c].timer <= MaxBackoff
      /\ call[c].elapsed <= (a - 1) * Round + AttemptTimeout + call[c].timer
  BY <1>1, AttemptsLeft DEF Pace
<1>3. /\ f \in Frames /\ f.pc = "attempt" /\ f.timer = 0 /\ f.attempt = a + 1
      /\ f.attempts = call[c].attempts
      /\ f.upstream = call[c].upstream /\ f.elapsed = call[c].elapsed
  BY <1>1, <1>2, AttemptFrame
<1>4. call' = [call EXCEPT ![c] = f] /\ breakers' = breakers
  BY Zenon DEF EndBackoff, IInv
<1> HIDE DEF f
<1>5. /\ a \in 1 .. Attempts /\ call[c].attempts \in 1 .. Attempts
      /\ call[c].elapsed \in Nat /\ call[c].timer \in Nat
      /\ AttemptTimeout \in Nat /\ MaxBackoff \in Nat
  BY <1>1, Rounds, TimeoutAssumption, BackoffAssumption DEF Frames
<1>6. /\ (a - 1) * Round \in Nat /\ (a - 1) * Round + Round = a * Round
      /\ (f.attempt - 1) * Round = a * Round
  BY <1>3, <1>5, Rounds
<1> HIDE DEF a
<1>7. call[c].elapsed <= (f.attempt - 1) * Round + f.timer
  <2> DEFINE x == (a - 1) * Round
             y == a * Round
  <2>1. x \in Nat /\ x + Round = y /\ (f.attempt - 1) * Round = y
    BY <1>6
  <2>2. call[c].elapsed <= x + AttemptTimeout + call[c].timer
    BY <1>2
  <2> HIDE DEF x, y
  <2> QED BY <1>2, <1>3, <1>5, <2>1, <2>2 DEF Round
<1>8. f.attempt <= f.attempts
  BY <1>2, <1>3, <1>5
<1>9. Pace(f)
  BY <1>3, <1>5, <1>7, <1>8 DEF Pace
<1> QED BY <1>1, <1>3, <1>4, <1>9, StepIInv DEF GoodFrame

(* A tick ages the frame of a call that has not reached its deadline.      *)
LEMMA AgedFrame ==
  ASSUME NEW f, GoodFrame(f),
         f.timer < (IF f.pc = "attempt" THEN f.timeout ELSE MaxBackoff)
  PROVE  LET g == [f EXCEPT !.timer = @ + 1, !.elapsed = @ + 1]
         IN  /\ GoodFrame(g) /\ g.upstream = f.upstream /\ g.role = f.role /\ g.pc = f.pc
             /\ g.elapsed = f.elapsed + 1 /\ f.elapsed < MaxCall
<1> DEFINE h == [f EXCEPT !.timer = f.timer + 1]
           g == [h EXCEPT !.elapsed = f.elapsed + 1]
<1>1. f \in Frames /\ Pace(f)
  BY DEF GoodFrame
<1>2. /\ f.attempt \in 1 .. Attempts /\ f.elapsed \in Nat /\ f.timer \in Nat
      /\ AttemptTimeout \in Nat /\ MaxBackoff \in Nat /\ Retries \in Nat
      /\ f.pc \in {"attempt", "backoff"} /\ f.timeout \in 0 .. AttemptTimeout
      /\ f.pc = "backoff" => f.attempt <= Retries
  BY <1>1, AttemptsLeft, Rounds, RetryAssumption, TimeoutAssumption, BackoffAssumption DEF Frames
<1>3. /\ MaxCall \in Nat /\ (f.attempt - 1) * Round \in Nat
      /\ (f.attempt - 1) * Round + AttemptTimeout <= MaxCall
      /\ f.attempt <= Retries
           => (f.attempt - 1) * Round + AttemptTimeout + MaxBackoff <= MaxCall
  BY <1>2, Rounds
<1>4. f.elapsed + 1 \in 0 .. MaxCall
  <2> DEFINE x == (f.attempt - 1) * Round
  <2>1. CASE f.pc = "attempt"
    <3>1. f.elapsed <= x + f.timer /\ f.timer < AttemptTimeout
      BY <1>1, <1>2, <2>1 DEF Pace
    <3>2. x \in Nat /\ x + AttemptTimeout <= MaxCall
      BY <1>3
    <3> HIDE DEF x
    <3> QED BY <1>2, <1>3, <3>1, <3>2
  <2>2. CASE f.pc # "attempt"
    <3>1. f.elapsed <= x + AttemptTimeout + f.timer /\ f.timer < MaxBackoff
      BY <1>1, <2>2 DEF Pace
    <3>2. x \in Nat /\ x + AttemptTimeout + MaxBackoff <= MaxCall
      BY <1>2, <1>3, <2>2
    <3> HIDE DEF x
    <3> QED BY <1>2, <1>3, <3>1, <3>2
  <2> QED BY <2>1, <2>2
<1>5. f.timer + 1 \in 0 .. (AttemptTimeout + MaxBackoff)
  BY <1>2
<1>6. /\ h \in Frames /\ h.pc = f.pc /\ h.attempt = f.attempt /\ h.role = f.role
      /\ h.attempts = f.attempts
      /\ h.upstream = f.upstream /\ h.elapsed = f.elapsed /\ h.timer = f.timer + 1
  BY <1>1, <1>5 DEF Frames
<1>7. [f EXCEPT !.timer = @ + 1, !.elapsed = @ + 1] = g
  BY <1>6, Zenon
<1> HIDE DEF h
<1>8. /\ g \in Frames /\ g.pc = f.pc /\ g.attempt = f.attempt /\ g.role = f.role
      /\ g.attempts = f.attempts
      /\ g.upstream = f.upstream /\ g.elapsed = f.elapsed + 1 /\ g.timer = f.timer + 1
  BY <1>4, <1>6 DEF Frames
<1> HIDE DEF g
<1>9. Pace(g)
  <2> DEFINE x == (f.attempt - 1) * Round
  <2>1. x \in Nat /\ x = (g.attempt - 1) * Round
    BY <1>3, <1>8
  <2>2. CASE f.pc = "attempt"
    <3>1. f.elapsed <= x + f.timer /\ f.attempt <= f.attempts
      BY <1>1, <2>2 DEF Pace
    <3>2. g.elapsed <= x + g.timer /\ g.timer <= AttemptTimeout
      <4> HIDE DEF x
      <4> QED BY <1>2, <1>8, <2>1, <2>2, <3>1
    <3> QED BY <1>8, <2>1, <2>2, <3>1, <3>2 DEF Pace
  <2>3. CASE f.pc # "attempt"
    <3>1. f.elapsed <= x + AttemptTimeout + f.timer /\ f.attempt < f.attempts
      BY <1>1, <2>3 DEF Pace
    <3>2. g.elapsed <= x + AttemptTimeout + g.timer /\ g.timer <= MaxBackoff
      <4> HIDE DEF x
      <4> QED BY <1>2, <1>8, <2>1, <2>3, <3>1
    <3> QED BY <1>8, <2>1, <2>3, <3>1, <3>2 DEF Pace
  <2> QED BY <2>2, <2>3
<1> QED BY <1>2, <1>3, <1>4, <1>7, <1>8, <1>9 DEF GoodFrame

LEMMA TickIInv ==
  ASSUME IInv, Tick
  PROVE  IInv'
<1>1. ASSUME NEW c \in Calls, InCall(c)
      PROVE  /\ GoodFrame(call'[c]) /\ call'[c].upstream = call[c].upstream
             /\ call'[c].upstream \in Upstreams
  <2>1. GoodFrame(call[c]) /\ call[c].upstream \in Upstreams
    BY <1>1, FrameOf
  <2>2. call[c].timer < (IF call[c].pc = "attempt" THEN call[c].timeout ELSE MaxBackoff)
    BY <1>1 DEF Tick, Deadline
  <2>3. call'[c] = [call[c] EXCEPT !.timer = @ + 1, !.elapsed = @ + 1]
    BY <1>1, Zenon DEF Tick
  <2> QED BY <2>1, <2>2, <2>3, AgedFrame
<1>2. ASSUME NEW c \in Calls, ~InCall(c) PROVE call'[c] = Idle
  BY <1>2 DEF Tick
<1>3. call' \in [Calls -> Frames \cup {Idle}]
  <2>1. \A c \in Calls : call'[c] \in Frames \cup {Idle}
    BY <1>1, <1>2 DEF GoodFrame
  <2>2. call' = [c \in Calls |-> call'[c]]
    BY Zenon DEF Tick
  <2> QED BY <2>1, <2>2
<1>4. ASSUME NEW u \in Upstreams
      PROVE  /\ breakers'[u] \in Breakers \cup {None}
             /\ breakers[u] # None => breakers'[u] # None
             /\ Good(breaker_for(u)')
  <2>1. CASE breakers[u] = None
    BY <2>1, NewBreakerGood DEF Tick, breaker_for
  <2>2. CASE breakers[u] # None
    <3>1. Good(breakers[u])
      BY <2>2 DEF IInv, breaker_for
    <3>2. breakers'[u] = Aged(breakers[u]) /\ Good(Aged(breakers[u]))
      BY <2>2, <3>1, AgedGood DEF Tick
    <3> QED BY <3>2, ObjectAssumption DEF breaker_for, Good
  <2> QED BY <2>1, <2>2
<1>5. breakers' \in [Upstreams -> Breakers \cup {None}]
  BY <1>4 DEF Tick
<1>6. ASSUME NEW c \in Calls, InCall(c)'
      PROVE  GoodFrame(call'[c]) /\ breakers'[call'[c].upstream] # None
  <2>1. InCall(c)
    BY <1>2, <1>6 DEF InCall, Idle
  <2> QED BY <1>1, <1>4, <2>1, FrameOf
<1> QED BY <1>3, <1>4, <1>5, <1>6 DEF IInv

LEMMA NextIInv == IInv /\ [Next]_vars => IInv'
<1> SUFFICES ASSUME IInv, [Next]_vars PROVE IInv'
  OBVIOUS
<1>1. ASSUME NEW c \in Calls, NEW u \in Upstreams, Enter(c, u) \/ Refuse(c, u) PROVE IInv'
  BY <1>1, EnterIInv, RefuseIInv
<1>2. ASSUME NEW c \in Calls, EndAttempt(c) PROVE IInv'
  BY <1>2, CallEnds, RetryIInv DEF EndAttempt
<1>3. ASSUME NEW c \in Calls, EndBackoff(c) \/ Cancel(c) PROVE IInv'
  BY <1>3, EndBackoffIInv, CallEnds
<1>4. CASE Tick
  BY <1>4, TickIInv
<1>5. CASE UNCHANGED vars
  BY <1>5 DEF vars, IInv, breaker_for, InCall
<1> QED BY <1>1, <1>2, <1>3, <1>4, <1>5 DEF Next

LEMMA SpecIInv == Spec => []IInv
BY InitIInv, NextIInv, PTL DEF Spec

(* The frames of the coroutines and the breakers are always well formed:   *)
(* no call is ever in an attempt beyond those of its budget, and none has  *)
(* lasted longer than MaxCall, which is what the longest deadlines of the  *)
(* attempts and sleeps add up to.                                          *)
THEOREM CallsTypeCorrect == Spec => []TypeOK
<1>1. IInv => TypeOK
  BY AttemptsLeft DEF IInv, TypeOK, GoodFrame
<1> QED BY <1>1, SpecIInv, PTL

-----------------------------------------------------------------------------
(* What CircuitBreaker sees of the calls k to upstream u.                  *)
PhaseOf(k, u) == [c \in Calls |-> IF k[c].pc # "idle" /\ k[c].upstream = u THEN k[c].role ELSE "idle"]
AgeOf(k, u)   == [c \in Calls |-> IF k[c].pc # "idle" /\ k[c].upstream = u THEN k[c].elapsed ELSE 0]

Unseen(u) == /\ breaker_for(u)' = breaker_for(u)
             /\ PhaseOf(call', u) = PhaseOf(call, u)
             /\ AgeOf(call', u) = AgeOf(call, u)

LEMMA UnseenIsStutter ==
  ASSUME NEW u \in Upstreams, Unseen(u)
  PROVE  UNCHANGED CB(u)!vars
BY DEF Unseen, PhaseOf, AgeOf, CallsOf, InCall, CB!vars

LEMMA EnterSeen ==
  ASSUME IInv, NEW c \in Calls, NEW u \in Upstreams, Enter(c, u), NEW v \in Upstreams
  PROVE  CB(v)!Admit(c) \/ Unseen(v)
<1> DEFINE b == breaker_for(u)
           r == IF b.state = "CLOSED" THEN "call" ELSE "probe"
           s == IF u = v THEN r ELSE "idle"
<1>1. /\ PhaseOf(call', v) = [PhaseOf(call, v) EXCEPT ![c] = s]
      /\ AgeOf(call', v) = [AgeOf(call, v) EXCEPT ![c] = 0]
  <2>0. PICK budget \in Budgets : call' = [call EXCEPT ![c] = FirstFrame(u, b, budget)]
    BY Zenon DEF Enter, FirstFrame
  <2> DEFINE f == FirstFrame(u, b, budget)
  <2>1. call' = [call EXCEPT ![c] = f] /\ call \in [Calls -> Frames \cup {Idle}]
    BY <2>0 DEF IInv
  <2>2. f.pc = "attempt" /\ f.upstream = u /\ f.role = r /\ f.elapsed = 0
    BY DEF FirstFrame
  <2> HIDE DEF f
  <2>3. /\ s = IF f.pc # "idle" /\ f.upstream = v THEN f.role ELSE "idle"
        /\ 0 = IF f.pc # "idle" /\ f.upstream = v THEN f.elapsed ELSE 0
    BY <2>2
  <2> HIDE DEF s
  <2> QED BY <2>1, <2>3 DEF PhaseOf, AgeOf
<1>2. PhaseOf(call, v)[c] = "idle" /\ AgeOf(call, v)[c] = 0
  BY DEF Enter, PhaseOf, AgeOf, InCall
<1>3. breakers' = [breakers EXCEPT ![u] = before_call(b)] /\ before_call(b) # None
  BY BeforeCallGood, ObjectAssumption DEF Enter, IInv, Good
<1>4. CASE u = v
  <2>1. breaker_for(v)' = before_call(breaker_for(v))
    BY <1>3, <1>4 DEF IInv, breaker_for
  <2>2. admits(breaker_for(v))
    BY <1>4 DEF Enter
  <2> QED
    BY <1>1, <1>2, <1>4, <2>1, <2>2
    DEF CB!Admit, CB!InFlight, CB!admits, CB!Elapsed, CB!before_call, CB!transition,
        admits, Elapsed, before_call, transition, PhaseOf, AgeOf, CallsOf, InCall
<1>5. CASE u # v
  <2>1. breaker_for(v)' = breaker_for(v)
    BY <1>3, <1>5 DEF IInv, breaker_for
  <2>2. PhaseOf(call', v) = PhaseOf(call, v) /\ AgeOf(call', v) = AgeOf(call, v)
    BY <1>1, <1>2, <1>5 DEF PhaseOf, AgeOf
  <2> QED BY <2>1, <2>2 DEF Unseen
<1> QED BY <1>4, <1>5

LEMMA RefuseSeen ==
  ASSUME IInv, NEW c \in Calls, NEW u \in Upstreams, Refuse(c, u), NEW v \in Upstreams
  PROVE  Unseen(v)
<1>1. breaker_for(u) # None /\ breakers' = [breakers EXCEPT ![u] = breaker_for(u)]
  BY ObjectAssumption DEF Refuse, IInv, Good
<1>2. breaker_for(v)' = breaker_for(v)
  BY <1>1 DEF IInv, breaker_for
<1> QED BY <1>2 DEF Refuse, Unseen

(* A call that ends is over for its own upstream alone.                    *)
LEMMA EndSeen ==
  ASSUME IInv, NEW c \in Calls, InCall(c), call' = [call EXCEPT ![c] = Idle],
         NEW b, b # None,
         breakers' = [breakers EXCEPT ![call[c].upstream] = b],
         NEW v \in Upstreams
  PROVE  \/ /\ v = call[c].upstream
            /\ breaker_for(v)' = b
            /\ CB(v)!Return(c)
         \/ Unseen(v)
<1>1. /\ call[c].upstream \in Upstreams /\ breakers \in [Upstreams -> Breakers \cup {None}]
      /\ call \in [Calls -> Frames \cup {Idle}] /\ call[c] \in Frames
  BY FrameOf DEF IInv
<1>2. /\ PhaseOf(call', v) = [PhaseOf(call, v) EXCEPT ![c] = "idle"]
      /\ AgeOf(call', v) = [AgeOf(call, v) EXCEPT ![c] = 0]
  <2>1. /\ "idle" = IF Idle.pc # "idle" /\ Idle.upstream = v THEN Idle.role ELSE "idle"
        /\ 0 = IF Idle.pc # "idle" /\ Idle.upstream = v THEN Idle.elapsed ELSE 0
    BY DEF Idle
  <2> QED BY <1>1, <2>1 DEF PhaseOf, AgeOf
<1>3. CASE v = call[c].upstream
  <2>1. PhaseOf(call, v)[c] # "idle"
    BY <1>1, <1>3 DEF PhaseOf, Frames
  <2>2. breaker_for(v)' = b
    BY <1>1, <1>3 DEF breaker_for
  <2> QED BY <1>2, <1>3, <2>1, <2>2 DEF CB!Return, CB!InFlight, PhaseOf, AgeOf, CallsOf, InCall
<1>4. CASE v # call[c].upstream
  <2>1. PhaseOf(call, v)[c] = "idle" /\ AgeOf(call, v)[c] = 0
    BY <1>4 DEF PhaseOf, AgeOf
  <2>2. PhaseOf(call', v) = PhaseOf(call, v) /\ AgeOf(call', v) = AgeOf(call, v)
    BY <1>2, <2>1 DEF PhaseOf, AgeOf
  <2>3. breaker_for(v)' = breaker_for(v)
    BY <1>1, <1>4 DEF breaker_for
  <2> QED BY <2>2, <2>3 DEF Unseen
<1> QED BY <1>3, <1>4

LEMMA OutcomeSeen ==
  ASSUME IInv, NEW c \in Calls, NEW v \in Upstreams,
         Succeed(c) \/ Cancel(c) \/ \E e \in Errors : Raise(c, e)
  PROVE  CB(v)!Succeed(c) \/ CB(v)!Fail(c) \/ CB(v)!Cancel(c) \/ Unseen(v)
<1> DEFINE u == call[c].upstream
<1>1. InCall(c)
  BY DEF Succeed, Cancel, Raise, InCall
<1>2. u \in Upstreams /\ breakers[u] # None /\ breaker_for(u) = breakers[u] /\ Good(breakers[u])
  BY <1>1, FrameOf DEF IInv
<1>3. /\ on_success(breakers[u]) # None /\ on_failure(breakers[u]) # None
  BY <1>2, OnSuccessGood, OnFailureGood, ObjectAssumption DEF Good
<1>4. CASE Succeed(c)
  <2>1. \/ v = u /\ breaker_for(v)' = on_success(breakers[u]) /\ CB(v)!Return(c)
        \/ Unseen(v)
    BY <1>1, <1>2, <1>3, <1>4, EndSeen DEF Succeed, IInv
  <2> QED BY <1>2, <2>1 DEF CB!Succeed, CB!on_success, CB!transition, on_success, transition
<1>5. ASSUME NEW e \in Errors, Raise(c, e)
      PROVE  CB(v)!Fail(c) \/ Unseen(v)
  <2>1. \/ v = u /\ breaker_for(v)' = on_failure(breakers[u]) /\ CB(v)!Return(c)
        \/ Unseen(v)
    BY <1>1, <1>2, <1>3, <1>5, EndSeen DEF Raise, IInv
  <2> QED BY <1>2, <2>1
          DEF CB!Fail, CB!on_failure, CB!CountFailure, CB!transition,
              on_failure, CountFailure, transition
<1>6. CASE Cancel(c)
  <2>1. breakers' = [breakers EXCEPT ![u] = breakers[u]]
    BY <1>6 DEF Cancel, IInv
  <2>2. \/ v = u /\ breaker_for(v)' = breakers[u] /\ CB(v)!Return(c)
        \/ Unseen(v)
    BY <1>1, <1>2, <1>6, <2>1, EndSeen DEF Cancel
  <2> QED BY <1>1, <1>2, <1>6, <2>2 DEF Cancel, CB!Cancel, CallsOf
<1> QED BY <1>4, <1>5, <1>6

(* Between the attempts of a call its upstream sees nothing.               *)
LEMMA RetrySeen ==
  ASSUME IInv, NEW c \in Calls, NEW v \in Upstreams,
         EndBackoff(c) \/ \E e \in Errors : Retry(c, e)
  PROVE  Unseen(v)
<1>1. call[c] \in Frames /\ GoodFrame(call[c]) /\ call \in [Calls -> Frames \cup {Idle}]
  BY FrameOf DEF EndBackoff, Retry, InCall, IInv
<1>2. PICK g : /\ call' = [call EXCEPT ![c] = g] /\ g.pc # "idle"
               /\ g.upstream = call[c].upstream /\ g.role = call[c].role
               /\ g.elapsed = call[c].elapsed
  <2>1. CASE EndBackoff(c)
    <3> DEFINE g == [call[c] EXCEPT !.pc = "attempt", !.attempt = @ + 1, !.timer = 0]
    <3>1. call' = [call EXCEPT ![c] = g]
      BY <2>1, Zenon DEF EndBackoff
    <3>2. call[c].attempt <= Retries
      BY <1>1, <2>1, AttemptsLeft DEF GoodFrame, EndBackoff
    <3>3. /\ g.pc = "attempt" /\ g.upstream = call[c].upstream
          /\ g.role = call[c].role /\ g.elapsed = call[c].elapsed
      BY <1>1, <3>2, AttemptFrame
    <3> HIDE DEF g
    <3> QED BY <3>1, <3>3
  <2>2. ASSUME NEW e \in Errors, Retry(c, e)
        PROVE  \E g : /\ call' = [call EXCEPT ![c] = g] /\ g.pc # "idle"
                      /\ g.upstream = call[c].upstream /\ g.role = call[c].role
                      /\ g.elapsed = call[c].elapsed
    <3> DEFINE g == [call[c] EXCEPT !.pc = "backoff", !.timer = 0]
    <3>1. call' = [call EXCEPT ![c] = g]
      BY <2>2, Zenon DEF Retry
    <3>2. /\ g.pc = "backoff" /\ g.upstream = call[c].upstream
          /\ g.role = call[c].role /\ g.elapsed = call[c].elapsed
      BY <1>1, BackoffFrame
    <3> HIDE DEF g
    <3> QED BY <3>1, <3>2
  <2> QED BY <2>1, <2>2
<1>3. breakers' = breakers
  BY DEF EndBackoff, Retry
<1>4. call[c].pc # "idle"
  BY <1>1 DEF Frames
<1> QED BY <1>1, <1>2, <1>3, <1>4 DEF Unseen, PhaseOf, AgeOf, breaker_for

LEMMA TickSeen ==
  ASSUME IInv, Tick, NEW v \in Upstreams
  PROVE  CB(v)!Tick
<1>1. ASSUME NEW c \in Calls, InCall(c)
      PROVE  /\ call'[c].pc # "idle" /\ call'[c].upstream = call[c].upstream
             /\ call'[c].role = call[c].role /\ call'[c].elapsed = call[c].elapsed + 1
             /\ call[c].elapsed < MaxCall
  <2>1. GoodFrame(call[c]) /\ call[c].pc # "idle"
    BY <1>1, FrameOf DEF InCall
  <2>2. call[c].timer < (IF call[c].pc = "attempt" THEN call[c].timeout ELSE MaxBackoff)
    BY <1>1 DEF Tick, Deadline
  <2>3. call'[c] = [call[c] EXCEPT !.timer = @ + 1, !.elapsed = @ + 1]
    BY <1>1, Zenon DEF Tick
  <2> QED BY <2>1, <2>2, <2>3, AgedFrame
<1>2. ASSUME NEW c \in Calls, ~InCall(c) PROVE call'[c] = Idle
  BY <1>2 DEF Tick
<1>3. PhaseOf(call', v) = PhaseOf(call, v)
  BY <1>1, <1>2 DEF PhaseOf, InCall, Idle
<1>4. /\ AgeOf(call', v) = [c \in Calls |-> IF PhaseOf(call, v)[c] # "idle"
                                            THEN AgeOf(call, v)[c] + 1 ELSE 0]
      /\ \A c \in Calls : PhaseOf(call, v)[c] # "idle" => AgeOf(call, v)[c] < MaxCall
  <2>1. ASSUME NEW c \in Calls
        PROVE  PhaseOf(call, v)[c] # "idle" <=> (InCall(c) /\ call[c].upstream = v)
    BY FrameOf DEF PhaseOf, InCall, Frames
  <2> QED BY <1>1, <1>2, <2>1 DEF AgeOf, InCall, Idle
<1>5. breaker_for(v)' = Aged(breaker_for(v))
  <2>1. CASE breakers[v] = None
    <3>1. Aged(NewBreaker) = NewBreaker
      <4>1. NewBreaker.opened_at \notin 0 .. (Cooldown - 1)
        BY NoneAssumption, CooldownAssumption DEF NewBreaker
      <4>2. Aged(NewBreaker) = [NewBreaker EXCEPT !.opened_at = NewBreaker.opened_at]
        BY <4>1, Zenon DEF Aged
      <4> QED BY <4>2 DEF NewBreaker
    <3> QED BY <2>1, <3>1 DEF Tick, breaker_for
  <2>2. CASE breakers[v] # None
    <3>1. Good(breakers[v])
      BY <2>2 DEF IInv, breaker_for
    <3>2. breakers'[v] = Aged(breakers[v]) /\ Aged(breakers[v]) # None
      BY <2>2, <3>1, AgedGood, ObjectAssumption DEF Tick, Good
    <3> QED BY <2>2, <3>2 DEF breaker_for
  <2> QED BY <2>1, <2>2
<1> QED
  BY <1>3, <1>4, <1>5
  DEF CB!Tick, CB!InFlight, CB!Aged, Aged, PhaseOf, AgeOf, CallsOf, InCall

LEMMA NextSeen ==
  ASSUME IInv, [Next]_vars, NEW v \in Upstreams
  PROVE  CB(v)!Next \/ UNCHANGED CB(v)!vars
<1> SUFFICES CB(v)!Next \/ Unseen(v)
  BY UnseenIsStutter
<1>1. ASSUME NEW c \in Calls, NEW u \in Upstreams, Enter(c, u) \/ Refuse(c, u)
      PROVE  CB(v)!Admit(c) \/ Unseen(v)
  BY <1>1, EnterSeen, RefuseSeen
<1>2. ASSUME NEW c \in Calls, EndAttempt(c) \/ Cancel(c) \/ EndBackoff(c)
      PROVE  CB(v)!Succeed(c) \/ CB(v)!Fail(c) \/ CB(v)!Cancel(c) \/ Unseen(v)
  BY <1>2, OutcomeSeen, RetrySeen DEF EndAttempt
<1>3. CASE Tick
  BY <1>3, TickSeen DEF CB!Next
<1>4. CASE UNCHANGED vars
  BY <1>4 DEF vars, Unseen, PhaseOf, AgeOf, breaker_for
<1>5. (\E c \in Calls : CB(v)!Admit(c) \/ CB(v)!Succeed(c) \/ CB(v)!Fail(c) \/ CB(v)!Cancel(c))
        => CB(v)!Next
  BY DEF CB!Next
<1> QED BY <1>1, <1>2, <1>3, <1>4, <1>5 DEF Next

(* For each upstream the retry loop implements CircuitBreaker: however the *)
(* attempts and sleeps of the calls interleave, a breaker sees one         *)
(* admission and at most one outcome per call, is not touched by the calls *)
(* of another upstream, and no call outlasts MaxCall.                      *)
THEOREM CallsImplementBreakers == Spec => ImplementsBreakers
<1>1. Init => \A u \in Upstreams : CB(u)!Init
  <2> SUFFICES ASSUME Init, NEW u \in Upstreams PROVE CB(u)!Init
    OBVIOUS
  <2>1. breaker_for(u) = NewBreaker /\ CallsOf(u) = {}
    BY DEF Init, breaker_for, CallsOf, InCall, Idle
  <2> QED BY <2>1 DEF CB!Init, CB!NewBreaker, NewBreaker
<1>2. IInv /\ [Next]_vars
        => [\A u \in Upstreams : CB(u)!Next \/ UNCHANGED CB(u)!vars]_vars
  BY NextSeen
<1> QED BY <1>1, <1>2, SpecIInv, PTL DEF Spec, ImplementsBreakers
=============================================================================
