------------------------------ MODULE Platform ------------------------------
(***************************************************************************)
(* The platform as main of weather_mcp/server.py wires it: one             *)
(* MiddlewareDeps, with one limiter, one cache and one ResilientCaller,    *)
(* shared by the executors of all the weather tools.  The module composes  *)
(* Middleware and Resilience: the await on a handler is the resilient call *)
(* the handler consists of, and both read the same clock.                  *)
(*                                                                         *)
(* Nothing suspends between the limiter's answer and before_call, nor      *)
(* between the end of the last attempt and the handler's return: these are *)
(* joint steps of the two components.                                      *)
(***************************************************************************)
EXTENDS Middleware

CONSTANTS Upstreams, Threshold, Cooldown, Retries, AttemptTimeout, MaxBackoff,
          FiveMin, OneHour, Day,
          OwmKey  \* OPENWEATHERMAP_API_KEY is set

VARIABLES breakers, call,  \* the resilient caller
          retries,         \* retries[r]: what r added to mcp_upstream_retries_total
          sent             \* sent[r]: HTTP requests r has sent upstream

callerVars == <<breakers, call>>
platformVars == <<vars, breakers, call, retries, sent>>

Weather == INSTANCE WeatherTools

(* The tools pass neither timeout_s nor retries: every call has the        *)
(* defaults.                                                               *)
Budget == [retries |-> Retries, timeout |-> AttemptTimeout]

Caller == INSTANCE Resilience WITH
            Calls <- Requests, Budgets <- {Budget}, Cancellable <- {"call", "probe"}

(* The tools are those that main registers; what bounds the caller is a    *)
(* number; the executor may meet any exception of a handler.               *)
ASSUME WiringAssumption ==
  \A t \in Tools : /\ t \in Weather!ToolNames
                   /\ MinTier[t] = Weather!Definition[t].min_tier
                   /\ Ttl[t] = Weather!Definition[t].ttl
                   /\ Cost[t] = Weather!Definition[t].cost_units
                   /\ Weather!Definition[t].upstream \in Upstreams
ASSUME CallerAssumption ==
  {Threshold, Cooldown, Retries, AttemptTimeout, MaxBackoff} \subseteq Nat
ASSUME ErrorAssumption ==
  /\ "CircuitOpenError" \in HandlerErrors
  /\ None \notin {"CircuitOpenError", "MissingApiKeyError"}
ASSUME BreakerAssumption == None \notin Caller!Breakers

PlatformInit ==
  /\ Init
  /\ Caller!Init
  /\ retries = [r \in Requests |-> 0]
  /\ sent = [r \in Requests |-> 0]

UpstreamOf(r) == Weather!Definition[req[r].tool].upstream
LibErrors(r) == Weather!LibErrors(OwmKey, req[r].tool)

(* An attempt of r begins: WeatherLib sends its GET, if it gets that far.  *)
Sends(r) ==
  sent' = IF Weather!Keyless(OwmKey, req[r].tool) THEN sent ELSE [sent EXCEPT ![r] = @ + 1]

-----------------------------------------------------------------------------
(* Plausible slips in the wiring, used to show that the properties can be  *)
(* broken.                                                                 *)

Abandons_CountsFailure(r) ==
  /\ Abort(r)
  /\ \/ /\ At(r, "handler")
        /\ breakers' = [breakers EXCEPT ![UpstreamOf(r)] = Caller!on_failure(@)]
        /\ call' = [call EXCEPT ![r] = Caller!Idle]
     \/ ~At(r, "handler") /\ UNCHANGED callerVars
  /\ UNCHANGED <<retries, sent>>

Retry_Uncounted(r, e) ==
  /\ e \in LibErrors(r)
  /\ Caller!Retry(r, e)
  /\ UNCHANGED <<vars, retries, sent>>

Refused_Free(r) ==
  LET k == RateKey(req[r].key)
  IN  /\ At(r, "check_rate")
      /\ Limiter!check_and_increment(k)
      /\ answer'[k].kind = "allowed"
      /\ req[r].args \in Valid
      /\ Caller!Refuse(r, UpstreamOf(r))
      /\ Reports(r, metrics, req[r], Rejected("CircuitOpenError"))
      /\ UNCHANGED <<store, retries, sent>>

-----------------------------------------------------------------------------
(* The limiter answers; if the handler starts, the breaker admits it and   *)
(* its first attempt is under way.                                         *)
Starts(r) ==
  /\ CheckRate(r)
  /\ \/ req'[r].pc = "handler" /\ Caller!Enter(r, UpstreamOf(r)) /\ Sends(r)
     \/ req'[r].pc # "handler" /\ UNCHANGED <<callerVars, sent>>
  /\ UNCHANGED retries

(* The limiter lets r through, and the breaker's CircuitOpenError ends the *)
(* handler at once: the quota is used, and the call is billed.             *)
Refused(r) ==
  LET k == RateKey(req[r].key)
  IN  /\ At(r, "check_rate")
      /\ Limiter!check_and_increment(k)
      /\ answer'[k].kind = "allowed"
      /\ req[r].args \in Valid
      /\ Caller!Refuse(r, UpstreamOf(r))
      /\ Reports(r, metrics, [req[r] EXCEPT !.started = now],
                 Outcome(Cost[req[r].tool], FALSE, FALSE, "CircuitOpenError"))
      /\ UNCHANGED <<store, retries, sent>>

Succeeds(r) ==
  /\ ~Weather!Keyless(OwmKey, req[r].tool)
  /\ Caller!Succeed(r)
  /\ HandlerReturns(r)
  /\ UNCHANGED <<retries, sent>>

Raises(r, e) ==
  /\ e \in LibErrors(r)
  /\ Caller!Raise(r, e)
  /\ HandlerRaises(r, e)
  /\ UNCHANGED <<retries, sent>>

(* before_sleep counts the retry, then tenacity sleeps.                    *)
Retry(r, e) ==
  /\ e \in LibErrors(r)
  /\ Caller!Retry(r, e)
  /\ retries' = [retries EXCEPT ![r] = @ + 1]
  /\ UNCHANGED <<vars, sent>>

Wakes(r) ==
  /\ Caller!EndBackoff(r)
  /\ Sends(r)
  /\ UNCHANGED <<vars, retries>>

(* The caller of r is cancelled, or a dependency raises, at an await.      *)
Abandons(r) ==
  /\ Abort(r)
  /\ \/ At(r, "handler") /\ Caller!Cancel(r)
     \/ ~At(r, "handler") /\ UNCHANGED callerVars
  /\ UNCHANGED <<retries, sent>>

(* The steps of the chain around the handler.                              *)
Arrives(r, t, a, key) ==
  /\ Receive(r, t, a, key) \/ RejectTier(r, t, a, key) \/ FailUnranked(r, t, a, key)
  /\ UNCHANGED <<callerVars, retries, sent>>

ChainStep(r) ==
  /\ CacheHit(r) \/ CacheMiss(r) \/ CacheSet(r) \/ Record(r)
  /\ UNCHANGED <<callerVars, retries, sent>>

PlatformTick ==
  /\ Tick
  /\ Caller!Tick
  /\ UNCHANGED <<retries, sent>>

PlatformTerminated == Terminated /\ UNCHANGED platformVars

Proceeds(r) == \/ ChainStep(r)
               \/ Starts(r)
               \/ Refused(r)
               \/ Succeeds(r)
               \/ \E e \in HandlerErrors : Raises(r, e) \/ Retry(r, e)
               \/ Wakes(r)

PlatformNext == \/ \E r \in Requests :
                     \/ \E t \in Tools, a \in Args, key \in ApiKeys : Arrives(r, t, a, key)
                     \/ Proceeds(r)
                     \/ Abandons(r)
                \/ PlatformTick
                \/ PlatformTerminated

(* The dependencies answer, wait_for ends every attempt and asyncio.sleep  *)
(* every sleep.                                                            *)
PlatformSpec ==
  /\ PlatformInit
  /\ [][PlatformNext]_platformVars
  /\ \A r \in Requests : WF_platformVars(Proceeds(r))

-----------------------------------------------------------------------------
(* The two layers agree about every request: it is inside the resilient    *)
(* caller exactly while the chain awaits its handler, on the upstream of   *)
(* its own tool.                                                           *)
PlatformTypeOK ==
  /\ TypeOK
  /\ Caller!TypeOK
  /\ \A r \in Requests :
       /\ At(r, "handler") <=> Caller!InCall(r)
       /\ Caller!InCall(r) => call[r].upstream = UpstreamOf(r)
       /\ retries[r] \in 0 .. Retries
       /\ sent[r] \in 0 .. Retries + 1

(* A call fails with CircuitOpenError only after Threshold calls that were *)
(* admitted to this very upstream have failed, each with a request sent or *)
(* for want of the API key: not because another tool's upstream is down,   *)
(* nor because clients gave up.                                            *)
FailedAt(u) ==
  {r \in Requests :
     /\ req[r].outcome # None
     /\ req[r].outcome.error_type \in HandlerErrors \ {"CircuitOpenError"}
     /\ sent[r] > 0 \/ req[r].outcome.error_type = "MissingApiKeyError"
     /\ UpstreamOf(r) = u}

RefusedForCause ==
  \A r \in Requests :
    req[r].outcome # None /\ req[r].outcome.error_type = "CircuitOpenError"
      => Cardinality(FailedAt(UpstreamOf(r))) >= Threshold

(* The retry counter tells how many requests beyond the first a call has   *)
(* sent, except that a call cut off in its backoff has counted a retry     *)
(* that is never sent.                                                     *)
RetriesMeasured ==
  \A r \in Requests :
    /\ sent[r] = 0 => retries[r] = 0
    /\ At(r, "done") /\ sent[r] > 0 => retries[r] = sent[r] - 1
    /\ retries[r] > sent[r] - 1 /\ sent[r] > 0 =>
         At(r, "aborted") \/ call[r].pc = "backoff"

(* Work nobody did is billed in two cases only: the circuit was open, or   *)
(* the server has no key for the upstream.  Every other call that costs    *)
(* something has sent a request, and every call that sent one and ended    *)
(* costs what its tool costs.                                              *)
BilledWithoutUpstream ==
  \A r \in Requests :
    At(r, "done") =>
      LET event == events[r][1]
      IN  /\ event.cost_units = 0 => sent[r] = 0
          /\ event.cost_units > 0 /\ sent[r] = 0
               <=> event.error_type \in {"CircuitOpenError", "MissingApiKeyError"}
=============================================================================
