----------------------------- MODULE Resilience -----------------------------
(***************************************************************************)
(* ResilientCaller.call: one coroutine per call, suspended at every await  *)
(* of the retry loop.  Breakers are created on first use, one per upstream,*)
(* and shared by every caller that for_tool derives.  A call has a budget, *)
(* the defaults of its caller or what it passes for timeout_s and retries: *)
(* an attempt is cut off by asyncio.wait_for after the timeout; tenacity   *)
(* sleeps at most MaxBackoff between attempts and stops after retries + 1  *)
(* of them.                                                                *)
(*                                                                         *)
(* For each upstream the module implements CircuitBreaker, in which a call *)
(* is a single step from admission to outcome.  The retry counter of the   *)
(* metrics and the tool whose name labels it are added by Platform.        *)
(***************************************************************************)
EXTENDS Breaker

CONSTANTS Upstreams,       \* upstream keys, e.g. "open-meteo", "openweathermap"
          Calls,           \* coroutines that may be inside call()
          Budgets,         \* [retries, timeout] of the calls: the defaults, from
                           \* MCP_UPSTREAM_RETRIES and MCP_UPSTREAM_TIMEOUT_S in
                           \* ticks, and the overrides
          Retries,         \* the most retries of a budget
          AttemptTimeout,  \* the longest timeout of a budget
          MaxBackoff,      \* longest sleep between two attempts in ticks
          Cancellable      \* which calls the host may cancel, as in CircuitBreaker

ASSUME RetryAssumption   == Retries \in Nat
ASSUME TimeoutAssumption == AttemptTimeout \in Nat
ASSUME BudgetAssumption ==
  Budgets \subseteq [retries : 0 .. Retries, timeout : 0 .. AttemptTimeout]
ASSUME BackoffAssumption == MaxBackoff \in Nat
ASSUME CancelAssumption  == Cancellable \subseteq {"call", "probe"}
ASSUME ObjectAssumption  == None \notin Breakers

Attempts == Retries + 1

(* The longest a call can take: every attempt times out, every sleep is    *)
(* as long as it can be.                                                   *)
MaxCall == Attempts * AttemptTimeout + Retries * MaxBackoff

VARIABLES breakers,  \* _breakers: upstream -> CircuitBreaker, None before first use
          call       \* call[c]: the frame of coroutine c

vars == <<breakers, call>>

Idle == [pc |-> "idle"]

Frames == [pc : {"attempt", "backoff"},
           upstream : Upstreams,
           role : {"call", "probe"},   \* how before_call admitted it
           attempts : 1 .. Attempts,   \* what stop_after_attempt allows
           timeout : 0 .. AttemptTimeout,
           attempt : 1 .. Attempts,    \* retry_state.attempt_number
           timer : 0 .. (AttemptTimeout + MaxBackoff),  \* in this attempt or sleep
           elapsed : 0 .. MaxCall]     \* since admission; no guard reads it

InCall(c) == call[c].pc # "idle"

TypeOK == /\ breakers \in [Upstreams -> Breakers \cup {None}]
          /\ call \in [Calls -> Frames \cup {Idle}]
          /\ \A c \in Calls : InCall(c) => call[c].attempt <= call[c].attempts

Init == /\ breakers = [u \in Upstreams |-> None]
        /\ call = [c \in Calls |-> Idle]

(* The exceptions an attempt can end with: wait_for's timeout, an httpx    *)
(* transport error, a status of 429 or 500 and above, any other error      *)
(* status, and anything else fn may raise.                                 *)
Errors == {"UpstreamTimeoutError", "TransportError", "status_5xx_429",
           "status_4xx", "other"}

is_transient(e) == e \in {"UpstreamTimeoutError", "TransportError", "status_5xx_429"}

breaker_for(u) == IF breakers[u] = None THEN NewBreaker ELSE breakers[u]

-----------------------------------------------------------------------------
(* Plausible slips, used to show that the properties can be broken.        *)

Retry_CountsAttempt(c, e) ==
  /\ call[c].pc = "attempt"
  /\ is_transient(e)
  /\ call[c].attempt < call[c].attempts
  /\ breakers' = [breakers EXCEPT ![call[c].upstream] = on_failure(@)]
  /\ call' = [call EXCEPT ![c] = [@ EXCEPT !.pc = "backoff", !.timer = 0]]

Retry_OnceTooOften(c, e) ==
  /\ call[c].pc = "attempt"
  /\ is_transient(e)
  /\ call[c].attempt <= call[c].attempts
  /\ call' = [call EXCEPT ![c] = [@ EXCEPT !.pc = "backoff", !.timer = 0]]
  /\ UNCHANGED breakers

EndBackoff_Never(c) ==
  /\ call[c].pc = "backoff"
  /\ call[c].attempt >= call[c].attempts
  /\ call' = [call EXCEPT ![c] = [@ EXCEPT !.pc = "attempt", !.attempt = call[c].attempt + 1, !.timer = 0]]
  /\ UNCHANGED breakers

-----------------------------------------------------------------------------
(* call: before_call admits c, which starts its first attempt at once.     *)
Enter(c, u) ==
  LET b == breaker_for(u)
  IN  /\ ~InCall(c)
      /\ admits(b)
      /\ breakers' = [breakers EXCEPT ![u] = before_call(b)]
      /\ \E budget \in Budgets :
           call' = [call EXCEPT ![c] =
                      [pc |-> "attempt", upstream |-> u,
                       role |-> IF b.state = "CLOSED" THEN "call" ELSE "probe",
                       attempts |-> budget.retries + 1, timeout |-> budget.timeout,
                       attempt |-> 1, timer |-> 0, elapsed |-> 0]]

(* call: CircuitOpenError.                                                 *)
Refuse(c, u) ==
  /\ ~InCall(c)
  /\ ~admits(breaker_for(u))
  /\ breakers' = [breakers EXCEPT ![u] = breaker_for(u)]
  /\ UNCHANGED call

(* fn() returned in time.                                                  *)
Succeed(c) ==
  /\ call[c].pc = "attempt"
  /\ breakers' = [breakers EXCEPT ![call[c].upstream] = on_success(@)]
  /\ call' = [call EXCEPT ![c] = Idle]

(* The attempt failed, the error is transient and attempts are left:       *)
(* before_sleep, then the sleep.                                           *)
Retry(c, e) ==
  /\ call[c].pc = "attempt"
  /\ is_transient(e)
  /\ call[c].attempt < call[c].attempts
  /\ call' = [call EXCEPT ![c] = [@ EXCEPT !.pc = "backoff", !.timer = 0]]
  /\ UNCHANGED breakers

(* The attempt failed for good: reraise, and call reports on_failure.      *)
Raise(c, e) ==
  /\ call[c].pc = "attempt"
  /\ ~is_transient(e) \/ call[c].attempt = call[c].attempts
  /\ breakers' = [breakers EXCEPT ![call[c].upstream] = on_failure(@)]
  /\ call' = [call EXCEPT ![c] = Idle]

(* The jittered sleep ends, at some point up to MaxBackoff.                *)
EndBackoff(c) ==
  /\ call[c].pc = "backoff"
  /\ call' = [call EXCEPT ![c] = [@ EXCEPT !.pc = "attempt", !.attempt = call[c].attempt + 1, !.timer = 0]]
  /\ UNCHANGED breakers

(* CancelledError at either await: not an Exception, so nothing is         *)
(* reported to the breaker.                                                *)
Cancel(c) ==
  /\ InCall(c)
  /\ call[c].role \in Cancellable
  /\ call' = [call EXCEPT ![c] = Idle]
  /\ UNCHANGED breakers

(* Time passes, but not beyond the timeout of an attempt or the end of a   *)
(* sleep.                                                                  *)
Deadline(c) == IF call[c].pc = "attempt" THEN call[c].timeout ELSE MaxBackoff

Tick ==
  /\ \A c \in Calls : InCall(c) => call[c].timer < Deadline(c)
  /\ call' = [c \in Calls |->
                IF InCall(c)
                THEN [call[c] EXCEPT !.timer = @ + 1, !.elapsed = @ + 1]
                ELSE Idle]
  /\ breakers' = [u \in Upstreams |->
                    IF breakers[u] = None THEN None ELSE Aged(breakers[u])]

EndAttempt(c) == Succeed(c) \/ \E e \in Errors : Retry(c, e) \/ Raise(c, e)

Next == \/ \E c \in Calls : \/ \E u \in Upstreams : Enter(c, u) \/ Refuse(c, u)
                            \/ EndAttempt(c)
                            \/ EndBackoff(c)
                            \/ Cancel(c)
        \/ Tick

Spec == Init /\ [][Next]_vars

(* wait_for ends every attempt, asyncio.sleep ends every sleep, the clock  *)
(* advances, and each upstream keeps being called.                         *)
Fairness == /\ \A c \in Calls : WF_vars(EndAttempt(c)) /\ WF_vars(EndBackoff(c))
            /\ WF_vars(Tick)
            /\ \A u \in Upstreams : SF_vars(\E c \in Calls : Enter(c, u))

FairSpec == Spec /\ Fairness

-----------------------------------------------------------------------------
(* The circuit breaker of upstream u, as seen by its logical calls.        *)
CallsOf(u) == {c \in Calls : InCall(c) /\ call[c].upstream = u}

CB(u) == INSTANCE CircuitBreaker WITH
           breaker <- breaker_for(u),
           phase   <- [c \in Calls |-> IF c \in CallsOf(u) THEN call[c].role ELSE "idle"],
           age     <- [c \in Calls |-> IF c \in CallsOf(u) THEN call[c].elapsed ELSE 0]

(* Each upstream has one breaker, created on first use and never lost,     *)
(* which sees logical calls and not attempts, is untouched by the calls of *)
(* other upstreams, and whose calls last at most MaxCall.                  *)
ImplementsBreakers ==
  /\ \A u \in Upstreams : CB(u)!Init
  /\ [][\A u \in Upstreams : CB(u)!Next \/ UNCHANGED CB(u)!vars]_vars

(* With the attempts and sleeps cut off, every logical call ends and the   *)
(* circuit of every upstream closes again once its calls stop failing.     *)
ImplementsRecovery == \A u \in Upstreams : CB(u)!RecoveryCloses
=============================================================================
