----------------------------- MODULE Middleware -----------------------------
(***************************************************************************)
(* build_tool_executor of middleware.py: the fixed chain a tool call goes  *)
(* through, for any number of concurrent requests over one MiddlewareDeps. *)
(*                                                                         *)
(*   resolve account -> tier check -> cache lookup -> rate limit           *)
(*     -> validate -> handler -> populate cache -> metric and usage event  *)
(*                                                                         *)
(* An action is what execute does from one await on a dependency to the    *)
(* next; the dependencies are Protocols, so any of them may suspend.  The  *)
(* limiter and the cache are the modules RateLimiter and ResponseCache.    *)
(* The key store is read-only, so resolve is part of the first step.  Each *)
(* request of the model runs once.                                         *)
(***************************************************************************)
EXTENDS Integers, Sequences, FiniteSets

CONSTANTS Requests,     \* concurrent calls of an executor
          Tools,
          MinTier,      \* MinTier[t]: tool.min_tier
          Ttl,          \* Ttl[t]: tool.cache_ttl_ms in ticks, or None
          Cost,         \* Cost[t]: tool.cost_units
          Args,         \* argument values
          Valid,        \* the arguments input_model accepts
          ApiKeys,      \* the credentials callers present
          NoKey,        \* the missing credential, api_key = None
          Records,      \* the key file: api key -> [tier, limit]
          AnonLimit,    \* ANONYMOUS_FREE.rate_limit_per_minute
          Window, MaxTime,
          AbortPoints,  \* awaits at which a request may be cancelled, or at
                        \* which an external dependency may raise
          HandlerErrors,\* the exception types a handler may raise
          None

ASSUME FileAssumption   == \A key \in DOMAIN Records : Records[key].limit \in Int
ASSUME AnonAssumption   == AnonLimit \in Int
ASSUME WindowAssumption == Window \in Nat \ {0}
ASSUME TimeAssumption   == MaxTime \in Nat
ASSUME TtlAssumption    == Ttl \in [Tools -> Nat \cup {None}]
ASSUME KeyAssumption    == DOMAIN Records \cap {NoKey, "anonymous"} = {}

TIER_RANK == [free |-> 0, premium |-> 1, enterprise |-> 2]

(* InMemoryKeyStore.resolve: unknown keys fall through to the free tier.   *)
ANONYMOUS_FREE == [tier |-> "free", limit |-> AnonLimit]

resolve(key) == IF key \in DOMAIN Records THEN Records[key] ELSE ANONYMOUS_FREE

(* api_key or "anonymous"                                                  *)
RateKey(key) == IF key = NoKey THEN "anonymous" ELSE key
RateKeys == {RateKey(key) : key \in ApiKeys}

(* build_cache_key: per tool and arguments, not per caller.                *)
build_cache_key(tool, args) == <<tool, args>>
CacheKeys == Tools \X Args

Awaits == {"cache_get", "check_rate", "handler", "cache_set", "record"}

ASSUME AbortAssumption == AbortPoints \subseteq Awaits

(* The counters a call may raise: record_tool_call by status,              *)
(* record_cache_event by result.  Their labels are the call's own tool and *)
(* tier, and the model keeps them per call.                                *)
Series == {"success", "error", "hit", "miss"}

VARIABLES now, windows, answer, admitted,  \* the limiter and the clock
          store,                           \* the cache
          req,      \* req[r]: the frame of request r
          metrics,  \* metrics[r]: what r added to each counter
          events    \* events[r]: UsageEvents of r that reached the sink

limiterVars == <<windows, answer, admitted>>
vars == <<now, windows, answer, admitted, store, req, metrics, events>>

Limiter == INSTANCE RateLimiter WITH
             Keys  <- RateKeys,
             Limit <- [k \in RateKeys |->
                         IF k \in DOMAIN Records THEN Records[k].limit ELSE AnonLimit]

Cache == INSTANCE ResponseCache

(* What a request reports when it ends: a UsageEvent without its identity. *)
Outcome(cost, success, hit, error) ==
  [cost_units |-> cost, success |-> success, cache_hit |-> hit, error_type |-> error]

Rejected(error) == Outcome(0, FALSE, FALSE, error)
Succeeded(t) == Outcome(Cost[t], TRUE, FALSE, None)

(* A frame before its first step.  value is what the call will return (the *)
(* request whose handler produced it), started when its handler began,     *)
(* stored when its value entered the cache.                                *)
NewFrame == [pc |-> "new", tool |-> None, args |-> None, key |-> None,
             value |-> None, outcome |-> None, started |-> None, stored |-> None]

(* The frame of a call of tool t, on its way to pc.                        *)
CallFrame(pc, t, a, key) ==
  [NewFrame EXCEPT !.pc = pc, !.tool = t, !.args = a, !.key = key]

Init ==
  /\ Limiter!Init
  /\ Cache!CacheInit
  /\ req = [r \in Requests |-> NewFrame]
  /\ metrics = [r \in Requests |-> [s \in Series |-> 0]]
  /\ events = [r \in Requests |-> <<>>]

At(r, pc) == req[r].pc = pc

(* A key file may name any tier: load_key_store does not check it.         *)
Ranked(key) == resolve(key).tier \in DOMAIN TIER_RANK

MayUse(key, t) ==
  Ranked(key) /\ TIER_RANK[resolve(key).tier] >= TIER_RANK[MinTier[t]]

KeyOf(r) == build_cache_key(req[r].tool, req[r].args)

record_cache_event(m, r, result) == [m EXCEPT ![r][result] = @ + 1]

record_tool_call(m, r, success) ==
  [m EXCEPT ![r][IF success THEN "success" ELSE "error"] = @ + 1]

(* _record_outcome up to its await: the metric is counted at once, on top  *)
(* of what m has counted, and the event is on its way to the sink.         *)
Reports(r, m, frame, outcome) ==
  /\ metrics' = record_tool_call(m, r, outcome.success)
  /\ req' = [req EXCEPT ![r] = [frame EXCEPT !.pc = "record", !.outcome = outcome]]
  /\ UNCHANGED events

(* The request goes on to its next await.                                  *)
Continues(r, m, frame) ==
  /\ metrics' = m
  /\ req' = [req EXCEPT ![r] = frame]
  /\ UNCHANGED events

-----------------------------------------------------------------------------
(* Plausible slips in the chain, used to show that the properties can be   *)
(* broken.                                                                 *)

Receive_Ungated(r, t, a, key) ==
  /\ At(r, "new")
  /\ Continues(r, metrics,
                CallFrame(IF Ttl[t] # None THEN "cache_get" ELSE "check_rate", t, a, key))
  /\ UNCHANGED <<now, limiterVars, store>>

CacheHit_Billed(r) ==
  /\ At(r, "cache_get")
  /\ Cache!Lookup(KeyOf(r)) # None
  /\ Cache!Get(KeyOf(r))
  /\ Reports(r, record_cache_event(metrics, r, "hit"),
             [req[r] EXCEPT !.value = Cache!Lookup(KeyOf(r))],
             Outcome(Cost[req[r].tool], TRUE, TRUE, None))
  /\ UNCHANGED <<now, limiterVars>>

HandlerRaises_Unreported(r, e) ==
  /\ At(r, "handler")
  /\ Continues(r, metrics,
                [req[r] EXCEPT !.pc = "done",
                               !.outcome = Outcome(Cost[req[r].tool], FALSE, FALSE, e)])
  /\ UNCHANGED <<now, limiterVars, store>>

CacheMiss_SkipsLimiter(r) ==
  /\ At(r, "cache_get")
  /\ Cache!Lookup(KeyOf(r)) = None
  /\ Cache!Get(KeyOf(r))
  /\ Continues(r, record_cache_event(metrics, r, "miss"),
                [req[r] EXCEPT !.pc = "handler", !.started = now])
  /\ UNCHANGED <<now, limiterVars>>

CacheHit_ChecksRate(r) ==
  /\ At(r, "cache_get")
  /\ Cache!Lookup(KeyOf(r)) # None
  /\ Cache!Get(KeyOf(r))
  /\ Limiter!check_and_increment(RateKey(req[r].key))
  /\ Reports(r, record_cache_event(metrics, r, "hit"),
             [req[r] EXCEPT !.value = Cache!Lookup(KeyOf(r))],
             Outcome(0, TRUE, TRUE, None))

-----------------------------------------------------------------------------
(* Resolve the account; the tier suffices: on to the cache or the limiter. *)
Receive(r, t, a, key) ==
  /\ At(r, "new")
  /\ MayUse(key, t)
  /\ Continues(r, metrics,
                CallFrame(IF Ttl[t] # None THEN "cache_get" ELSE "check_rate", t, a, key))
  /\ UNCHANGED <<now, limiterVars, store>>

(* Resolve the account; it is below min_tier.                              *)
RejectTier(r, t, a, key) ==
  /\ At(r, "new")
  /\ Ranked(key) /\ ~MayUse(key, t)
  /\ Reports(r, metrics, CallFrame("new", t, a, key), Rejected("TierError"))
  /\ UNCHANGED <<now, limiterVars, store>>

(* The tier has no rank: a KeyError leaves execute, and nothing is reported.*)
FailUnranked(r, t, a, key) ==
  /\ At(r, "new")
  /\ ~Ranked(key)
  /\ Continues(r, metrics, CallFrame("failed", t, a, key))
  /\ UNCHANGED <<now, limiterVars, store>>

(* Cache lookup, hit: free, and the limiter is skipped.                    *)
CacheHit(r) ==
  /\ At(r, "cache_get")
  /\ Cache!Lookup(KeyOf(r)) # None
  /\ Cache!Get(KeyOf(r))
  /\ Reports(r, record_cache_event(metrics, r, "hit"),
             [req[r] EXCEPT !.value = Cache!Lookup(KeyOf(r))],
             Outcome(0, TRUE, TRUE, None))
  /\ UNCHANGED <<now, limiterVars>>

CacheMiss(r) ==
  /\ At(r, "cache_get")
  /\ Cache!Lookup(KeyOf(r)) = None
  /\ Cache!Get(KeyOf(r))
  /\ Continues(r, record_cache_event(metrics, r, "miss"), [req[r] EXCEPT !.pc = "check_rate"])
  /\ UNCHANGED <<now, limiterVars>>

(* Rate limit, then validation, then the handler starts.  An IndexError of *)
(* the limiter leaves execute outside every try: nothing is reported.      *)
CheckRate(r) ==
  LET k == RateKey(req[r].key)
  IN  /\ At(r, "check_rate")
      /\ Limiter!check_and_increment(k)
      /\ \/ /\ answer'[k].kind = "denied"
            /\ Reports(r, metrics, req[r], Rejected("RateLimitError"))
         \/ /\ answer'[k].kind = "IndexError"
            /\ Continues(r, metrics, [req[r] EXCEPT !.pc = "failed"])
         \/ /\ answer'[k].kind = "allowed"
            /\ req[r].args \notin Valid
            /\ Reports(r, metrics, req[r], Rejected("ValidationError"))
         \/ /\ answer'[k].kind = "allowed"
            /\ req[r].args \in Valid
            /\ Continues(r, metrics, [req[r] EXCEPT !.pc = "handler", !.started = now])
      /\ UNCHANGED store

(* The handler returns; a tool without a ttl goes straight to its report.  *)
HandlerReturns(r) ==
  /\ At(r, "handler")
  /\ \/ /\ Ttl[req[r].tool] # None
        /\ Continues(r, metrics, [req[r] EXCEPT !.pc = "cache_set", !.value = r])
     \/ /\ Ttl[req[r].tool] = None
        /\ Reports(r, metrics, [req[r] EXCEPT !.value = r], Succeeded(req[r].tool))
  /\ UNCHANGED <<now, limiterVars, store>>

(* The handler raises an Exception: a failed call is billed in full.       *)
HandlerRaises(r, e) ==
  /\ At(r, "handler")
  /\ Reports(r, metrics, req[r], Outcome(Cost[req[r].tool], FALSE, FALSE, e))
  /\ UNCHANGED <<now, limiterVars, store>>

CacheSet(r) ==
  /\ At(r, "cache_set")
  /\ Cache!Set(KeyOf(r), req[r].value, Ttl[req[r].tool])
  /\ Reports(r, metrics, [req[r] EXCEPT !.stored = now], Succeeded(req[r].tool))
  /\ UNCHANGED <<now, limiterVars>>

(* The sink took the event; execute returns the value or raises.           *)
Record(r) ==
  /\ At(r, "record")
  /\ events' = [events EXCEPT ![r] = Append(@, req[r].outcome)]
  /\ req' = [req EXCEPT ![r].pc = "done"]
  /\ UNCHANGED <<now, limiterVars, store, metrics>>

(* A cancellation, or an exception of an external dependency, at an await  *)
(* whose failure execute does not handle.  A sink that suspends may have   *)
(* delivered the event by then.                                            *)
Abort(r) ==
  /\ req[r].pc \in AbortPoints
  /\ req' = [req EXCEPT ![r].pc = "aborted"]
  /\ \/ UNCHANGED events
     \/ At(r, "record") /\ events' = [events EXCEPT ![r] = Append(@, req[r].outcome)]
  /\ UNCHANGED <<now, limiterVars, store, metrics>>

Tick == Limiter!Tick /\ UNCHANGED <<store, req, metrics, events>>

Ended(r) == req[r].pc \in {"done", "failed", "aborted"}

(* Every request of the model has run.                                     *)
Terminated == (\A r \in Requests : Ended(r)) /\ now = MaxTime /\ UNCHANGED vars

Step(r) == \/ CacheHit(r)
           \/ CacheMiss(r)
           \/ CheckRate(r)
           \/ HandlerReturns(r)
           \/ \E e \in HandlerErrors : HandlerRaises(r, e)
           \/ CacheSet(r)
           \/ Record(r)

Next == \/ \E r \in Requests :
             \/ \E t \in Tools, a \in Args, key \in ApiKeys :
                  \/ Receive(r, t, a, key)
                  \/ RejectTier(r, t, a, key)
                  \/ FailUnranked(r, t, a, key)
             \/ Step(r)
             \/ Abort(r)
        \/ Tick
        \/ Terminated

Spec == Init /\ [][Next]_vars

-----------------------------------------------------------------------------
PCs == {"new", "cache_get", "check_rate", "handler", "cache_set", "record",
        "done", "failed", "aborted"}
Errors == {"TierError", "RateLimitError", "ValidationError", None} \cup HandlerErrors
Outcomes == [cost_units : {0} \cup {Cost[t] : t \in Tools}, success : BOOLEAN,
             cache_hit : BOOLEAN, error_type : Errors]

ASSUME NoneAssumption ==
  None \notin Requests \cup Int \cup Outcomes \cup {"ValidationError"}

Times == 0 .. MaxTime
Frames == [pc : PCs, tool : Tools \cup {None}, args : Args \cup {None},
           key : ApiKeys \cup {None}, value : Requests \cup {None},
           outcome : Outcomes \cup {None},
           started : Times \cup {None}, stored : Times \cup {None}]

TypeOK ==
  /\ Limiter!TypeOK
  /\ store \in [CacheKeys -> Cache!Entries(Requests)]
  /\ req \in [Requests -> Frames]
  /\ metrics \in [Requests -> [Series -> Nat]]
  /\ events \in [Requests -> Seq(Outcomes)]

Once(condition) == IF condition THEN 1 ELSE 0

(* What a call has reported, at every way out of the chain.                *)
(* Done (a value, or an exception execute handles): one usage event and    *)
(* one status and, for a tool with a ttl it may use, one cache result, all *)
(* of them saying what the caller got.                                     *)
(* Failed (an exception outside every try): no event and no status, and    *)
(* only a tier without a rank or a limit of zero or less leads there.      *)
(* Cut off at an await: no status unless the call had come to its report,  *)
(* which then counted one and may have delivered its one event.            *)
(* Still running: no event, and a status only once it reports.             *)
ReportedOnce ==
  \A r \in Requests :
    LET outcome  == req[r].outcome
        statuses == metrics[r]["success"] + metrics[r]["error"]
    IN  /\ At(r, "done") =>
             LET consulted == Ttl[req[r].tool] # None /\ MayUse(req[r].key, req[r].tool)
             IN  /\ events[r] = <<outcome>>
                 /\ outcome.success <=> req[r].value # None
                 /\ metrics[r]["success"] = Once(outcome.success)
                 /\ metrics[r]["error"] = Once(~outcome.success)
                 /\ metrics[r]["hit"] = Once(outcome.cache_hit)
                 /\ metrics[r]["miss"] = Once(consulted /\ ~outcome.cache_hit)
        /\ At(r, "failed") =>
             /\ events[r] = <<>> /\ statuses = 0
             /\ ~Ranked(req[r].key) \/ resolve(req[r].key).limit <= 0
        /\ At(r, "aborted") =>
             /\ statuses = Once(outcome # None)
             /\ events[r] = <<>> \/ (outcome # None /\ events[r] = <<outcome>>)
        /\ ~Ended(r) => events[r] = <<>> /\ statuses = Once(At(r, "record"))

(* A call is billed exactly when its handler ran, succeeded or not: cache  *)
(* hits and rejected calls cost nothing.                                   *)
BilledForUpstreamWork ==
  \A r \in Requests :
    At(r, "done") =>
      events[r][1].cost_units = IF req[r].started # None THEN Cost[req[r].tool] ELSE 0

(* A caller below a tool's tier gets nothing of it: no value, not even one *)
(* that a paying caller left in the shared cache, and no handler run.      *)
TierGate ==
  \A r \in Requests :
    ~At(r, "new") /\ ~MayUse(req[r].key, req[r].tool)
      => req[r].value = None /\ req[r].started = None

(* Every unit of a key's quota is explained by one call that passed the    *)
(* limiter: one that started its handler or failed validation.  Cache hits *)
(* and rejected calls leave the quota alone.                               *)
QuotaAccounted ==
  \A k \in RateKeys :
    Len(admitted[k]) =
      Cardinality({r \in Requests :
        /\ ~At(r, "new")
        /\ RateKey(req[r].key) = k
        /\ \/ req[r].started # None
           \/ req[r].outcome # None /\ req[r].outcome.error_type = "ValidationError"})

(* The upstream work a key can cause is limited: however calls interleave, *)
(* no window of Window ticks sees more handlers start than its limit.      *)
UpstreamRateLimited ==
  \A s \in Requests :
    req[s].started # None =>
      LET k == RateKey(req[s].key)
          inWindow == {r \in Requests :
                         /\ req[r].started # None
                         /\ RateKey(req[r].key) = k
                         /\ req[r].started \in req[s].started .. req[s].started + Window - 1}
      IN  Cardinality(inWindow) <= resolve(req[s].key).limit

(* A hit returns what a handler returned for the same tool and arguments,  *)
(* and entered the cache less than the tool's ttl ago.                     *)
HitsAreFresh ==
  [][\A r \in Requests :
       At(r, "cache_get") /\ req'[r].value # None =>
         LET source == req'[r].value
         IN  /\ req[source].tool = req[r].tool
             /\ req[source].args = req[r].args
             /\ req[source].stored # None
             /\ now - req[source].stored < Ttl[req[r].tool]]_vars

(* Every call that is received comes to an end: the chain has no await     *)
(* from which it cannot go on.  What makes a handler end is not part of    *)
(* this module; Platform checks the property with the handlers' calls.     *)
EveryCallEnds == \A r \in Requests : ~At(r, "new") ~> Ended(r)

(* "Errors record an error-status metric + usage event with success=False, *)
(* and re-raise" (DESIGN 6): no exception leaves execute unreported.       *)
ErrorsAreReported ==
  \A r \in Requests : At(r, "failed") => events[r] # <<>>
=============================================================================
