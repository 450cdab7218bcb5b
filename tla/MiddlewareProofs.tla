--------------------------- MODULE MiddlewareProofs --------------------------
(***************************************************************************)
(* Theorems about the chain of Middleware, for any number of requests, any *)
(* tools, key file and limits, and whatever awaits may be cut off.         *)
(*                                                                         *)
(* What a request may report depends on where in the chain it is and on    *)
(* nothing but its own frame, counters and events (Stage), so a step of    *)
(* one request leaves the others' stages alone.  The limiter's variables   *)
(* keep the invariant that RateLimiterProofs shows.                        *)
(*                                                                         *)
(* The second half is about what concurrent calls share.  The history of a *)
(* key's admissions and the requests that passed the limiter for it        *)
(* correspond one to one (Slots): a request that started its handler did   *)
(* so when the limiter admitted it.  So the handlers that start within a   *)
(* window are as few as the admissions of that window.  An entry of the    *)
(* cache was stored by the request whose value it holds, and that request  *)
(* is past its cache_set, so it never stores again (CacheInv).             *)
(***************************************************************************)
EXTENDS Middleware, FiniteSetTheorems, TLAPS

LimiterProofs == INSTANCE RateLimiterProofs WITH
                   Keys  <- RateKeys,
                   Limit <- [k \in RateKeys |->
                               IF k \in DOMAIN Records THEN Records[k].limit ELSE AnonLimit]

LEMMA LimitTyped ==
  [k \in RateKeys |-> IF k \in DOMAIN Records THEN Records[k].limit ELSE AnonLimit]
    \in [RateKeys -> Int]
BY FileAssumption, AnonAssumption

(* Each step of the chain is a step of the limiter or leaves it alone.     *)
LEMMA LimiterInit == Init => LimiterProofs!IInv
<1>1. Limiter!Init => LimiterProofs!Init
  BY DEF Limiter!Init, LimiterProofs!Init
<1> QED
  BY <1>1, LimitTyped, WindowAssumption, TimeAssumption, LimiterProofs!InitIInv DEF Init

LEMMA LimiterKeeps ==
  ASSUME LimiterProofs!IInv,
         \/ \E k \in RateKeys : Limiter!check_and_increment(k)
         \/ Limiter!Tick
         \/ UNCHANGED <<now, limiterVars>>
  PROVE  LimiterProofs!IInv'
<1>1. \A k \in RateKeys : Limiter!check_and_increment(k) => LimiterProofs!check_and_increment(k)
  BY DEF Limiter!check_and_increment, LimiterProofs!check_and_increment,
         Limiter!FirstLive, LimiterProofs!FirstLive, Limiter!Allow, LimiterProofs!Allow,
         Limiter!Deny, LimiterProofs!Deny, Limiter!RetryAt, LimiterProofs!RetryAt,
         Limiter!Crash, LimiterProofs!Crash
<1>2. Limiter!Tick => LimiterProofs!Tick
  BY DEF Limiter!Tick, LimiterProofs!Tick
<1>3. [LimiterProofs!Next]_(LimiterProofs!vars)
  BY <1>1, <1>2 DEF LimiterProofs!Next, LimiterProofs!vars, limiterVars
<1> QED
  BY <1>3, LimitTyped, WindowAssumption, TimeAssumption, LimiterProofs!NextIInv

LEMMA LimiterTyped == LimiterProofs!IInv => Limiter!TypeOK
BY DEF LimiterProofs!IInv, LimiterProofs!TypeOK, Limiter!TypeOK, LimiterProofs!Kinds, Limiter!Kinds
-----------------------------------------------------------------------------
(* What is true of a request with frame f, counters c and events es.       *)
Running == {"cache_get", "check_rate", "handler", "cache_set"}

Consulted(f) == Ttl[f.tool] # None /\ MayUse(f.key, f.tool)

Accounted(f, c) ==
  /\ f.outcome \in Outcomes
  /\ f.outcome.success <=> f.value # None
  /\ c["success"] = Once(f.outcome.success)
  /\ c["error"] = Once(~f.outcome.success)
  /\ c["hit"] = Once(f.outcome.cache_hit)
  /\ c["miss"] = Once(Consulted(f) /\ ~f.outcome.cache_hit)
  /\ f.outcome.cost_units = IF f.started # None THEN Cost[f.tool] ELSE 0

Uncounted(c) == c["success"] = 0 /\ c["error"] = 0

(* A call that was cut off: with its outcome settled it has counted one    *)
(* status and may have sent its event; before that it has done neither.    *)
CutOff(f, c, es) ==
  /\ c["success"] + c["error"] = Once(f.outcome # None)
  /\ es = <<>> \/ (f.outcome # None /\ es = <<f.outcome>>)

Stage(f, c, es) ==
  /\ f.pc # "new" => f.tool \in Tools /\ f.args \in Args /\ f.key \in ApiKeys
  /\ f.pc \notin {"done", "aborted"} => es = <<>>
  /\ f.pc \in Running \cup {"new", "failed"} => Uncounted(c)
  /\ f.pc \in {"new", "cache_get"} => c["hit"] = 0 /\ c["miss"] = 0
  /\ f.pc \in Running => MayUse(f.key, f.tool)
  /\ f.pc \in {"cache_get", "cache_set"} => Ttl[f.tool] # None
  /\ f.pc \in Running \ {"cache_get"} =>
       c["hit"] = 0 /\ c["miss"] = Once(Ttl[f.tool] # None)
  /\ f.pc \in {"new", "cache_get", "check_rate"} => f.started = None
  /\ f.pc \in Running \cup {"new"} => f.outcome = None
  /\ f.pc \in {"handler", "cache_set"} => f.started # None
  /\ f.pc \in Running \ {"cache_set"} => f.value = None
  /\ f.pc = "cache_set" => f.value # None
  /\ f.pc \in {"record", "done"} => Accounted(f, c)
  /\ f.pc = "done" => es = <<f.outcome>>
  /\ f.pc = "failed" => ~Ranked(f.key) \/ resolve(f.key).limit <= 0
  /\ f.pc = "aborted" => CutOff(f, c, es)
  /\ f.pc # "new" /\ ~MayUse(f.key, f.tool) => f.value = None /\ f.started = None

LocalInv ==
  /\ req \in [Requests -> Frames]
  /\ metrics \in [Requests -> [Series -> Nat]]
  /\ events \in [Requests -> Seq(Outcomes)]
  /\ \A r \in Requests : Stage(req[r], metrics[r], events[r])

StoreInv == store \in [CacheKeys -> Cache!Entries(Requests)]

IInv == LimiterProofs!IInv /\ StoreInv /\ LocalInv

LEMMA InitIInv == Init => IInv
<1> SUFFICES ASSUME Init PROVE IInv
  OBVIOUS
<1>1. StoreInv
  BY DEF Init, Cache!CacheInit, Cache!Entries, StoreInv
<1>2. NewFrame \in Frames /\ [s \in Series |-> 0] \in [Series -> Nat]
  BY DEF NewFrame, Frames, PCs
<1>3. Stage(NewFrame, [s \in Series |-> 0], <<>>)
  BY DEF Stage, NewFrame, Uncounted, Running, Series
<1>4. LocalInv
  BY <1>2, <1>3 DEF Init, LocalInv
<1> QED BY <1>1, <1>4, LimiterInit DEF IInv

(* A step of r alone.                                                      *)
LEMMA StepLocal ==
  ASSUME LocalInv, NEW r \in Requests, NEW f \in Frames, NEW c \in [Series -> Nat],
         NEW es \in Seq(Outcomes), Stage(f, c, es),
         req' = [req EXCEPT ![r] = f],
         metrics' = [metrics EXCEPT ![r] = c],
         events' = [events EXCEPT ![r] = es]
  PROVE  LocalInv'
<1>1. /\ req' \in [Requests -> Frames]
      /\ metrics' \in [Requests -> [Series -> Nat]]
      /\ events' \in [Requests -> Seq(Outcomes)]
  BY DEF LocalInv
<1>2. ASSUME NEW s \in Requests PROVE Stage(req'[s], metrics'[s], events'[s])
  <2>1. CASE s = r
    BY <2>1 DEF LocalInv
  <2>2. CASE s # r
    <3>1. req'[s] = req[s] /\ metrics'[s] = metrics[s] /\ events'[s] = events[s]
      BY <2>2 DEF LocalInv
    <3> QED BY <3>1 DEF LocalInv
  <2> QED BY <2>1, <2>2
<1> QED BY <1>1, <1>2 DEF LocalInv

(* Frames, counters and events of one request.                             *)
LEMMA Unpack ==
  ASSUME LocalInv, NEW r \in Requests
  PROVE  /\ req[r] \in Frames /\ metrics[r] \in [Series -> Nat]
         /\ events[r] \in Seq(Outcomes)
         /\ Stage(req[r], metrics[r], events[r])
BY DEF LocalInv

LEMMA ContinuesLocal ==
  ASSUME LocalInv, NEW r \in Requests, NEW f \in Frames, NEW c \in [Series -> Nat],
         Continues(r, [metrics EXCEPT ![r] = c], f), Stage(f, c, events[r])
  PROVE  LocalInv'
<1>1. events' = [events EXCEPT ![r] = events[r]]
  BY DEF Continues, LocalInv
<1> QED BY <1>1, StepLocal, Unpack DEF Continues

LEMMA ReportsLocal ==
  ASSUME LocalInv, NEW r \in Requests, NEW f \in Frames, NEW c \in [Series -> Nat],
         NEW o \in Outcomes,
         Reports(r, [metrics EXCEPT ![r] = c], f, o),
         f.tool \in Tools, f.args \in Args, f.key \in ApiKeys,
         events[r] = <<>>, Uncounted(c),
         o.success <=> f.value # None,
         c["hit"] = Once(o.cache_hit),
         c["miss"] = Once(Consulted(f) /\ ~o.cache_hit),
         o.cost_units = IF f.started # None THEN Cost[f.tool] ELSE 0,
         ~MayUse(f.key, f.tool) => f.value = None /\ f.started = None
  PROVE  LocalInv'
<1> DEFINE g == [f EXCEPT !.pc = "record", !.outcome = o]
           status == IF o.success THEN "success" ELSE "error"
           d == [c EXCEPT ![status] = @ + 1]
<1>0. o.success \in BOOLEAN
  BY DEF Outcomes
<1>1. g \in Frames /\ d \in [Series -> Nat]
  <2>1. [f EXCEPT !.pc = "record"] \in Frames
    BY DEF Frames, PCs
  <2>2. g = [[f EXCEPT !.pc = "record"] EXCEPT !.outcome = o]
    BY DEF Frames
  <2>3. g \in Frames
    <3> DEFINE h == [f EXCEPT !.pc = "record"]
    <3>1. h \in Frames
      BY <2>1
    <3> HIDE DEF h
    <3>2. [h EXCEPT !.outcome = o] \in Frames
      BY <3>1 DEF Frames
    <3> QED BY <2>2, <3>2 DEF h
  <2>4. status \in Series
    BY DEF Series
  <2>5. d \in [Series -> Nat]
    BY <2>4
  <2> QED BY <2>3, <2>5
<1>2. req' = [req EXCEPT ![r] = g] /\ events' = [events EXCEPT ![r] = events[r]]
  BY DEF Reports, LocalInv
<1>3. metrics' = [metrics EXCEPT ![r] = d]
  BY DEF Reports, record_tool_call, LocalInv
<1>4. /\ g.pc = "record" /\ g.tool = f.tool /\ g.args = f.args /\ g.key = f.key
      /\ g.value = f.value /\ g.started = f.started /\ g.outcome = o
  BY DEF Frames
<1>5. /\ d["success"] = Once(o.success) /\ d["error"] = Once(~o.success)
      /\ d["hit"] = c["hit"] /\ d["miss"] = c["miss"]
  BY <1>0 DEF Once, Uncounted, Series
<1> HIDE DEF g, d
<1>6. Accounted(g, d)
  BY <1>4, <1>5 DEF Accounted, Consulted
<1>7. Stage(g, d, events[r])
  BY <1>4, <1>6 DEF Stage, Running
<1> QED BY <1>1, <1>2, <1>3, <1>7, StepLocal, Unpack
-----------------------------------------------------------------------------
(* The steps of a request: each is a Continues or a Reports whose frame    *)
(* and counters fit the stage it leads to.                                 *)
LEMMA ClockTyped == ASSUME IInv PROVE now \in Times
BY DEF IInv, LimiterProofs!IInv, LimiterProofs!TypeOK, Times

LEMMA TimesAreNotNone == None \notin Times /\ None \notin Requests
BY NoneAssumption, TimeAssumption DEF Times

(* What a request that has not been received looks like.                   *)
LEMMA SameCounters ==
  ASSUME LocalInv, NEW r \in Requests
  PROVE  metrics = [metrics EXCEPT ![r] = metrics[r]]
BY DEF LocalInv

(* The frame of a request when its account is resolved.                    *)
LEMMA CallFrames ==
  ASSUME NEW p \in PCs, NEW t \in Tools, NEW a \in Args, NEW key \in ApiKeys
  PROVE  /\ CallFrame(p, t, a, key) \in Frames
         /\ CallFrame(p, t, a, key)
              = [pc |-> p, tool |-> t, args |-> a, key |-> key, value |-> None,
                 outcome |-> None, started |-> None, stored |-> None]
<1> DEFINE g(v, w, x) == [pc |-> p, tool |-> v, args |-> w, key |-> x, value |-> None,
                          outcome |-> None, started |-> None, stored |-> None]
<1>1. [NewFrame EXCEPT !.pc = p] = g(None, None, None)
  BY DEF NewFrame
<1>2. [g(None, None, None) EXCEPT !.tool = t] = g(t, None, None)
  OBVIOUS
<1>3. [g(t, None, None) EXCEPT !.args = a] = g(t, a, None)
  OBVIOUS
<1>4. [g(t, a, None) EXCEPT !.key = key] = g(t, a, key)
  OBVIOUS
<1>5. g(t, a, key) \in Frames
  BY DEF Frames
<1>6. [NewFrame EXCEPT !.pc = p, !.tool = t, !.args = a, !.key = key] = g(t, a, key)
  <2> HIDE DEF g
  <2> QED BY <1>1, <1>2, <1>3, <1>4, Zenon
<1> QED BY <1>5, <1>6 DEF CallFrame

LEMMA ReceiveLocal ==
  ASSUME IInv, NEW r \in Requests, NEW t \in Tools, NEW a \in Args, NEW key \in ApiKeys,
         Receive(r, t, a, key)
  PROVE  LocalInv'
<1> DEFINE p == IF Ttl[t] # None THEN "cache_get" ELSE "check_rate"
           f == CallFrame(p, t, a, key)
<1>0. LocalInv /\ p \in PCs
  BY DEF IInv, PCs
<1>1. /\ f = [pc |-> p, tool |-> t, args |-> a, key |-> key, value |-> None,
               outcome |-> None, started |-> None, stored |-> None]
      /\ f \in Frames
  <2> HIDE DEF p
  <2> QED BY <1>0, CallFrames
<1>2. Continues(r, [metrics EXCEPT ![r] = metrics[r]], f)
  BY <1>0, SameCounters DEF Receive
<1>3. req[r].pc = "new" /\ MayUse(key, t)
  BY DEF Receive, At
<1>4. Stage(req[r], metrics[r], events[r])
  BY <1>0, Unpack
<1> HIDE DEF f
<1>5. Stage(f, metrics[r], events[r])
  BY <1>1, <1>3, <1>4 DEF Stage, Running, Once, Uncounted
<1> QED BY <1>0, <1>1, <1>2, <1>5, ContinuesLocal, Unpack

LEMMA RejectTierLocal ==
  ASSUME IInv, NEW r \in Requests, NEW t \in Tools, NEW a \in Args, NEW key \in ApiKeys,
         RejectTier(r, t, a, key)
  PROVE  LocalInv'
<1> DEFINE f == CallFrame("new", t, a, key)
           o == Rejected("TierError")
<1>0. LocalInv /\ "new" \in PCs
  BY DEF IInv, PCs
<1>1. /\ f = [pc |-> "new", tool |-> t, args |-> a, key |-> key, value |-> None,
               outcome |-> None, started |-> None, stored |-> None]
      /\ f \in Frames
  BY <1>0, CallFrames
<1>2. o \in Outcomes /\ o.cost_units = 0 /\ o.success = FALSE /\ o.cache_hit = FALSE
  BY DEF Rejected, Outcome, Outcomes, Errors
<1>3. Reports(r, [metrics EXCEPT ![r] = metrics[r]], f, o)
  BY <1>0, SameCounters DEF RejectTier
<1>4. req[r].pc = "new" /\ ~MayUse(key, t)
  BY DEF RejectTier, At
<1>5. Stage(req[r], metrics[r], events[r])
  BY <1>0, Unpack
<1>6. events[r] = <<>> /\ Uncounted(metrics[r]) /\ metrics[r]["hit"] = 0 /\ metrics[r]["miss"] = 0
  BY <1>4, <1>5 DEF Stage
<1> HIDE DEF f, o
<1>7. ~Consulted(f)
  BY <1>1, <1>4 DEF Consulted
<1> QED
  BY <1>0, <1>1, <1>2, <1>3, <1>4, <1>6, <1>7, ReportsLocal, Unpack DEF Once

LEMMA FailUnrankedLocal ==
  ASSUME IInv, NEW r \in Requests, NEW t \in Tools, NEW a \in Args, NEW key \in ApiKeys,
         FailUnranked(r, t, a, key)
  PROVE  LocalInv'
<1> DEFINE f == CallFrame("failed", t, a, key)
<1>0. LocalInv /\ "failed" \in PCs
  BY DEF IInv, PCs
<1>1. /\ f = [pc |-> "failed", tool |-> t, args |-> a, key |-> key, value |-> None,
               outcome |-> None, started |-> None, stored |-> None]
      /\ f \in Frames
  BY <1>0, CallFrames
<1>2. Continues(r, [metrics EXCEPT ![r] = metrics[r]], f)
  BY <1>0, SameCounters DEF FailUnranked
<1>3. req[r].pc = "new" /\ ~Ranked(key)
  BY DEF FailUnranked, At
<1>4. Stage(req[r], metrics[r], events[r])
  BY <1>0, Unpack
<1> HIDE DEF f
<1>5. Stage(f, metrics[r], events[r])
  BY <1>1, <1>3, <1>4 DEF Stage, Running
<1> QED BY <1>0, <1>1, <1>2, <1>5, ContinuesLocal, Unpack

(* What a frame is after an assignment to one or two of its fields.        *)
LEMMA SetPc ==
  ASSUME NEW f \in Frames, NEW p \in PCs
  PROVE  LET g == [f EXCEPT !.pc = p]
         IN  /\ g \in Frames /\ g.pc = p
             /\ g.tool = f.tool /\ g.args = f.args /\ g.key = f.key /\ g.value = f.value
             /\ g.outcome = f.outcome /\ g.started = f.started /\ g.stored = f.stored
BY DEF Frames

LEMMA SetValue ==
  ASSUME NEW f \in Frames, NEW v \in Requests
  PROVE  LET g == [f EXCEPT !.value = v]
         IN  /\ g \in Frames /\ g.value = v
             /\ g.tool = f.tool /\ g.args = f.args /\ g.key = f.key /\ g.pc = f.pc
             /\ g.outcome = f.outcome /\ g.started = f.started /\ g.stored = f.stored
BY DEF Frames

LEMMA SetStored ==
  ASSUME NEW f \in Frames, NEW x \in Times
  PROVE  LET g == [f EXCEPT !.stored = x]
         IN  /\ g \in Frames /\ g.stored = x
             /\ g.tool = f.tool /\ g.args = f.args /\ g.key = f.key /\ g.pc = f.pc
             /\ g.outcome = f.outcome /\ g.started = f.started /\ g.value = f.value
BY DEF Frames

LEMMA SetStarted ==
  ASSUME NEW f \in Frames, NEW x \in Times
  PROVE  LET g == [f EXCEPT !.started = x]
         IN  /\ g \in Frames /\ g.started = x
             /\ g.tool = f.tool /\ g.args = f.args /\ g.key = f.key /\ g.pc = f.pc
             /\ g.outcome = f.outcome /\ g.value = f.value /\ g.stored = f.stored
BY DEF Frames

LEMMA Counted ==
  ASSUME LocalInv, NEW r \in Requests, NEW result \in {"hit", "miss"}
  PROVE  LET c == [metrics[r] EXCEPT ![result] = @ + 1]
         IN  /\ c \in [Series -> Nat]
             /\ record_cache_event(metrics, r, result) = [metrics EXCEPT ![r] = c]
             /\ \A s \in Series : c[s] = IF s = result THEN metrics[r][s] + 1 ELSE metrics[r][s]
<1> DEFINE c == [metrics[r] EXCEPT ![result] = @ + 1]
<1>1. metrics \in [Requests -> [Series -> Nat]] /\ result \in Series
  BY DEF LocalInv, Series
<1>2. metrics[r] \in [Series -> Nat]
  BY <1>1
<1>3. c \in [Series -> Nat]
  BY <1>1, <1>2
<1>4. record_cache_event(metrics, r, result) = [metrics EXCEPT ![r] = c]
  BY <1>1 DEF record_cache_event
<1>5. \A s \in Series : c[s] = IF s = result THEN metrics[r][s] + 1 ELSE metrics[r][s]
  BY <1>1, <1>2
<1> QED BY <1>3, <1>4, <1>5

(* What a lookup finds is the value some request stored.                   *)
LEMMA LookupTyped ==
  ASSUME IInv, NEW r \in Requests, req[r].pc \in Running
  PROVE  /\ KeyOf(r) \in CacheKeys
         /\ Cache!Lookup(KeyOf(r)) \in Requests \cup {None}
<1>1. req[r].tool \in Tools /\ req[r].args \in Args
  <2>1. Stage(req[r], metrics[r], events[r])
    BY Unpack DEF IInv
  <2> QED BY <2>1 DEF Stage, Running
<1>2. KeyOf(r) \in CacheKeys
  BY <1>1 DEF KeyOf, build_cache_key, CacheKeys
<1>3. store[KeyOf(r)] \in Cache!Entries(Requests)
  BY <1>2 DEF IInv, StoreInv
<1> QED BY <1>2, <1>3 DEF Cache!Lookup, Cache!Entries

LEMMA CacheHitLocal ==
  ASSUME IInv, NEW r \in Requests, CacheHit(r)
  PROVE  LocalInv'
<1> DEFINE v == Cache!Lookup(KeyOf(r))
           f == [req[r] EXCEPT !.value = v]
           c == [metrics[r] EXCEPT !["hit"] = @ + 1]
           o == Outcome(0, TRUE, TRUE, None)
<1>0. LocalInv
  BY DEF IInv
<1>1. req[r].pc = "cache_get" /\ Stage(req[r], metrics[r], events[r]) /\ req[r] \in Frames
  BY <1>0, Unpack DEF CacheHit, At
<1>2. v \in Requests /\ v # None
  BY <1>1, LookupTyped DEF CacheHit, Running
<1>3. /\ f \in Frames /\ f.value = v /\ f.tool = req[r].tool /\ f.args = req[r].args
      /\ f.key = req[r].key /\ f.started = req[r].started
  <2> HIDE DEF v
  <2> QED BY <1>1, <1>2, SetValue
<1>4. /\ c \in [Series -> Nat]
      /\ record_cache_event(metrics, r, "hit") = [metrics EXCEPT ![r] = c]
      /\ \A s \in Series : c[s] = IF s = "hit" THEN metrics[r][s] + 1 ELSE metrics[r][s]
  BY <1>0, Counted
<1>5. /\ o \in Outcomes /\ o.cost_units = 0 /\ o.success = TRUE /\ o.cache_hit = TRUE
  BY DEF Outcome, Outcomes, Errors
<1>6. Reports(r, [metrics EXCEPT ![r] = c], f, o)
  BY <1>4 DEF CacheHit
<1> HIDE DEF v, f, c, o
<1>7. /\ f.tool \in Tools /\ f.args \in Args /\ f.key \in ApiKeys
      /\ events[r] = <<>> /\ f.started = None /\ MayUse(f.key, f.tool)
      /\ metrics[r]["hit"] = 0 /\ metrics[r]["miss"] = 0 /\ Uncounted(metrics[r])
  BY <1>1, <1>3 DEF Stage, Running
<1>8. Uncounted(c) /\ c["hit"] = 1 /\ c["miss"] = 0
  BY <1>4, <1>7 DEF Uncounted, Series
<1>9. c["hit"] = Once(o.cache_hit) /\ c["miss"] = Once(Consulted(f) /\ ~o.cache_hit)
  BY <1>5, <1>8 DEF Once
<1> QED
  BY <1>0, <1>2, <1>3, <1>4, <1>5, <1>6, <1>7, <1>8, <1>9, ReportsLocal

LEMMA CacheMissLocal ==
  ASSUME IInv, NEW r \in Requests, CacheMiss(r)
  PROVE  LocalInv'
<1> DEFINE f == [req[r] EXCEPT !.pc = "check_rate"]
           c == [metrics[r] EXCEPT !["miss"] = @ + 1]
<1>0. LocalInv /\ "check_rate" \in PCs
  BY DEF IInv, PCs
<1>1. req[r].pc = "cache_get" /\ Stage(req[r], metrics[r], events[r]) /\ req[r] \in Frames
  BY <1>0, Unpack DEF CacheMiss, At
<1>2. /\ f \in Frames /\ f.pc = "check_rate" /\ f.value = req[r].value
      /\ f.tool = req[r].tool /\ f.args = req[r].args /\ f.key = req[r].key
      /\ f.started = req[r].started /\ f.outcome = req[r].outcome
  BY <1>0, <1>1, SetPc
<1>3. /\ c \in [Series -> Nat]
      /\ record_cache_event(metrics, r, "miss") = [metrics EXCEPT ![r] = c]
      /\ \A s \in Series : c[s] = IF s = "miss" THEN metrics[r][s] + 1 ELSE metrics[r][s]
  BY <1>0, Counted
<1>4. Continues(r, [metrics EXCEPT ![r] = c], f)
  BY <1>3 DEF CacheMiss
<1> HIDE DEF f, c
<1>5. Uncounted(c) /\ c["hit"] = 0 /\ c["miss"] = 1
  BY <1>1, <1>3 DEF Stage, Uncounted, Series, Running
<1>6. Stage(f, c, events[r])
  BY <1>1, <1>2, <1>5 DEF Stage, Running, Once
<1> QED BY <1>0, <1>2, <1>3, <1>4, <1>6, ContinuesLocal

(* The limit of the account of a key is the limit its deque is held to.    *)
LEMMA LimitOfKey ==
  ASSUME NEW key \in ApiKeys
  PROVE  LET k == RateKey(key)
         IN  /\ (IF k \in DOMAIN Records THEN Records[k].limit ELSE AnonLimit)
                   = resolve(key).limit
             /\ resolve(key).limit \in Int
BY KeyAssumption, FileAssumption, AnonAssumption DEF RateKey, resolve, ANONYMOUS_FREE

(* The limiter raises for a key whose limit is zero or less, no other.     *)
LEMMA CrashesAtZero ==
  ASSUME IInv, NEW key \in ApiKeys,
         Limiter!check_and_increment(RateKey(key)),
         answer'[RateKey(key)].kind = "IndexError"
  PROVE  resolve(key).limit <= 0
<1> DEFINE k == RateKey(key)
<1>1. DOMAIN answer = RateKeys /\ k \in RateKeys
  BY DEF IInv, LimiterProofs!IInv, LimiterProofs!TypeOK, RateKeys
<1>2. PICK live : Limiter!Crash(k, live)
  <2>1. PICK live : Limiter!Allow(k, live) \/ Limiter!Deny(k, live) \/ Limiter!Crash(k, live)
    BY Zenon DEF Limiter!check_and_increment
  <2>2. ~Limiter!Allow(k, live) /\ ~Limiter!Deny(k, live)
    BY <1>1 DEF Limiter!Allow, Limiter!Deny
  <2> QED BY <2>1, <2>2
<1>3. Len(live) = 0 /\ Len(live) >= resolve(key).limit
  BY <1>1, <1>2, LimitOfKey DEF Limiter!Crash
<1> QED BY <1>3, LimitOfKey

LEMMA CheckRateLocal ==
  ASSUME IInv, NEW r \in Requests, CheckRate(r)
  PROVE  LocalInv'
<1> DEFINE kind == answer'[RateKey(req[r].key)].kind
<1>0. LocalInv /\ "failed" \in PCs /\ "handler" \in PCs
  BY DEF IInv, PCs
<1>1. req[r].pc = "check_rate" /\ Stage(req[r], metrics[r], events[r]) /\ req[r] \in Frames
  BY <1>0, Unpack DEF CheckRate, At
<1>2. /\ metrics[r] \in [Series -> Nat]
      /\ metrics = [metrics EXCEPT ![r] = metrics[r]]
  BY <1>0, Unpack, SameCounters
<1>3. /\ req[r].tool \in Tools /\ req[r].args \in Args /\ req[r].key \in ApiKeys
      /\ events[r] = <<>> /\ MayUse(req[r].key, req[r].tool) /\ Uncounted(metrics[r])
      /\ metrics[r]["hit"] = 0 /\ metrics[r]["miss"] = Once(Ttl[req[r].tool] # None)
      /\ req[r].started = None /\ req[r].value = None /\ req[r].outcome = None
  BY <1>1 DEF Stage, Running
<1>4. ASSUME NEW error \in {"RateLimitError", "ValidationError"},
             Reports(r, metrics, req[r], Rejected(error))
      PROVE  LocalInv'
  <2> DEFINE o == Rejected(error)
  <2>1. o \in Outcomes /\ o.cost_units = 0 /\ o.success = FALSE /\ o.cache_hit = FALSE
    BY DEF Rejected, Outcome, Outcomes, Errors
  <2>2. Reports(r, [metrics EXCEPT ![r] = metrics[r]], req[r], o)
    BY <1>2, <1>4
  <2> HIDE DEF o
  <2>3. /\ metrics[r]["hit"] = Once(o.cache_hit)
        /\ metrics[r]["miss"] = Once(Consulted(req[r]) /\ ~o.cache_hit)
    BY <1>3, <2>1 DEF Once, Consulted
  <2> QED BY <1>0, <1>1, <1>2, <1>3, <2>1, <2>2, <2>3, ReportsLocal
<1>5. ASSUME kind = "IndexError", Continues(r, metrics, [req[r] EXCEPT !.pc = "failed"])
      PROVE  LocalInv'
  <2> DEFINE f == [req[r] EXCEPT !.pc = "failed"]
  <2>1. /\ f \in Frames /\ f.pc = "failed" /\ f.value = req[r].value
        /\ f.tool = req[r].tool /\ f.args = req[r].args /\ f.key = req[r].key
        /\ f.started = req[r].started
    BY <1>0, <1>1, SetPc
  <2>2. Continues(r, [metrics EXCEPT ![r] = metrics[r]], f)
    BY <1>2, <1>5
  <2> HIDE DEF f
  <2>3. resolve(f.key).limit <= 0
    BY <1>3, <1>5, <2>1, CrashesAtZero DEF CheckRate
  <2>4. Stage(f, metrics[r], events[r])
    BY <1>3, <2>1, <2>3 DEF Stage, Running
  <2> QED BY <1>0, <1>2, <2>1, <2>2, <2>4, ContinuesLocal
<1>6. ASSUME Continues(r, metrics, [req[r] EXCEPT !.pc = "handler", !.started = now])
      PROVE  LocalInv'
  <2> DEFINE h == [req[r] EXCEPT !.pc = "handler"]
             f == [h EXCEPT !.started = now]
  <2>1. /\ h \in Frames /\ h.pc = "handler" /\ h.value = req[r].value
        /\ h.outcome = req[r].outcome
        /\ h.tool = req[r].tool /\ h.args = req[r].args /\ h.key = req[r].key
    BY <1>0, <1>1, SetPc
  <2>2. Continues(r, [metrics EXCEPT ![r] = metrics[r]], f)
    BY <1>2, <1>6, Zenon
  <2> HIDE DEF h
  <2>3. /\ f \in Frames /\ f.pc = "handler" /\ f.value = req[r].value
        /\ f.tool = req[r].tool /\ f.args = req[r].args /\ f.key = req[r].key
        /\ f.started = now /\ f.outcome = req[r].outcome
    BY <2>1, ClockTyped, SetStarted
  <2>4. f.started # None
    BY <2>3, ClockTyped, TimesAreNotNone
  <2> HIDE DEF f
  <2>5. Stage(f, metrics[r], events[r])
    BY <1>3, <2>3, <2>4 DEF Stage, Running
  <2> QED BY <1>0, <1>2, <2>2, <2>3, <2>5, ContinuesLocal
<1>7. \/ \E error \in {"RateLimitError", "ValidationError"} :
           Reports(r, metrics, req[r], Rejected(error))
      \/ kind = "IndexError" /\ Continues(r, metrics, [req[r] EXCEPT !.pc = "failed"])
      \/ Continues(r, metrics, [req[r] EXCEPT !.pc = "handler", !.started = now])
  BY Zenon DEF CheckRate
<1> QED BY <1>4, <1>5, <1>6, <1>7

LEMMA HandlerReturnsLocal ==
  ASSUME IInv, NEW r \in Requests, HandlerReturns(r)
  PROVE  LocalInv'
<1>0. LocalInv /\ "cache_set" \in PCs
  BY DEF IInv, PCs
<1>1. req[r].pc = "handler" /\ Stage(req[r], metrics[r], events[r]) /\ req[r] \in Frames
  BY <1>0, Unpack DEF HandlerReturns, At
<1>2. /\ metrics[r] \in [Series -> Nat]
      /\ metrics = [metrics EXCEPT ![r] = metrics[r]]
  BY <1>0, Unpack, SameCounters
<1>3. /\ req[r].tool \in Tools /\ req[r].args \in Args /\ req[r].key \in ApiKeys
      /\ events[r] = <<>> /\ MayUse(req[r].key, req[r].tool) /\ Uncounted(metrics[r])
      /\ metrics[r]["hit"] = 0 /\ metrics[r]["miss"] = Once(Ttl[req[r].tool] # None)
      /\ req[r].started # None /\ req[r].outcome = None
  BY <1>1 DEF Stage, Running
<1>4. r # None
  BY TimesAreNotNone
<1>5. CASE Ttl[req[r].tool] # None
  <2> DEFINE h == [req[r] EXCEPT !.pc = "cache_set"]
             f == [h EXCEPT !.value = r]
  <2>1. /\ h \in Frames /\ h.pc = "cache_set" /\ h.started = req[r].started
        /\ h.outcome = req[r].outcome
        /\ h.tool = req[r].tool /\ h.args = req[r].args /\ h.key = req[r].key
    BY <1>0, <1>1, SetPc
  <2>2. Continues(r, [metrics EXCEPT ![r] = metrics[r]], f)
    BY <1>2, <1>5, Zenon DEF HandlerReturns
  <2> HIDE DEF h
  <2>3. /\ f \in Frames /\ f.pc = "cache_set" /\ f.started = req[r].started
        /\ f.tool = req[r].tool /\ f.args = req[r].args /\ f.key = req[r].key
        /\ f.value = r /\ f.outcome = req[r].outcome
    BY <2>1, SetValue
  <2> HIDE DEF f
  <2>4. Stage(f, metrics[r], events[r])
    BY <1>3, <1>4, <1>5, <2>3 DEF Stage, Running
  <2> QED BY <1>0, <1>2, <2>2, <2>3, <2>4, ContinuesLocal
<1>6. CASE Ttl[req[r].tool] = None
  <2> DEFINE f == [req[r] EXCEPT !.value = r]
             o == Succeeded(req[r].tool)
  <2>1. /\ f \in Frames /\ f.value = r /\ f.started = req[r].started
        /\ f.tool = req[r].tool /\ f.args = req[r].args /\ f.key = req[r].key
    BY <1>1, SetValue
  <2>2. /\ o \in Outcomes /\ o.cost_units = Cost[f.tool]
        /\ o.success = TRUE /\ o.cache_hit = FALSE
    BY <1>3, <2>1 DEF Succeeded, Outcome, Outcomes, Errors
  <2>3. Reports(r, [metrics EXCEPT ![r] = metrics[r]], f, o)
    BY <1>2, <1>6, Zenon DEF HandlerReturns
  <2> HIDE DEF f, o
  <2>4. /\ metrics[r]["hit"] = Once(o.cache_hit)
        /\ metrics[r]["miss"] = Once(Consulted(f) /\ ~o.cache_hit)
    BY <1>3, <1>6, <2>1, <2>2 DEF Once, Consulted
  <2> QED BY <1>0, <1>1, <1>2, <1>3, <1>4, <2>1, <2>2, <2>3, <2>4, ReportsLocal
<1> QED BY <1>5, <1>6

LEMMA HandlerRaisesLocal ==
  ASSUME IInv, NEW r \in Requests, NEW e \in HandlerErrors, HandlerRaises(r, e)
  PROVE  LocalInv'
<1> DEFINE o == Outcome(Cost[req[r].tool], FALSE, FALSE, e)
<1>0. LocalInv
  BY DEF IInv
<1>1. req[r].pc = "handler" /\ Stage(req[r], metrics[r], events[r]) /\ req[r] \in Frames
  BY <1>0, Unpack DEF HandlerRaises, At
<1>2. /\ metrics[r] \in [Series -> Nat]
      /\ metrics = [metrics EXCEPT ![r] = metrics[r]]
  BY <1>0, Unpack, SameCounters
<1>3. /\ req[r].tool \in Tools /\ req[r].args \in Args /\ req[r].key \in ApiKeys
      /\ events[r] = <<>> /\ MayUse(req[r].key, req[r].tool) /\ Uncounted(metrics[r])
      /\ metrics[r]["hit"] = 0 /\ metrics[r]["miss"] = Once(Ttl[req[r].tool] # None)
      /\ req[r].started # None /\ req[r].value = None
  BY <1>1 DEF Stage, Running
<1>4. /\ o \in Outcomes /\ o.cost_units = Cost[req[r].tool]
      /\ o.success = FALSE /\ o.cache_hit = FALSE
  BY <1>3 DEF Outcome, Outcomes, Errors
<1>5. Reports(r, [metrics EXCEPT ![r] = metrics[r]], req[r], o)
  BY <1>2 DEF HandlerRaises
<1> HIDE DEF o
<1>6. /\ metrics[r]["hit"] = Once(o.cache_hit)
      /\ metrics[r]["miss"] = Once(Consulted(req[r]) /\ ~o.cache_hit)
  BY <1>3, <1>4 DEF Once, Consulted
<1> QED BY <1>0, <1>1, <1>2, <1>3, <1>4, <1>5, <1>6, ReportsLocal

LEMMA CacheSetLocal ==
  ASSUME IInv, NEW r \in Requests, CacheSet(r)
  PROVE  LocalInv'
<1> DEFINE f == [req[r] EXCEPT !.stored = now]
           o == Succeeded(req[r].tool)
<1>0. LocalInv
  BY DEF IInv
<1>1. req[r].pc = "cache_set" /\ Stage(req[r], metrics[r], events[r]) /\ req[r] \in Frames
  BY <1>0, Unpack DEF CacheSet, At
<1>2. /\ metrics[r] \in [Series -> Nat]
      /\ metrics = [metrics EXCEPT ![r] = metrics[r]]
  BY <1>0, Unpack, SameCounters
<1>3. /\ req[r].tool \in Tools /\ req[r].args \in Args /\ req[r].key \in ApiKeys
      /\ events[r] = <<>> /\ MayUse(req[r].key, req[r].tool) /\ Uncounted(metrics[r])
      /\ metrics[r]["hit"] = 0 /\ metrics[r]["miss"] = Once(Ttl[req[r].tool] # None)
      /\ req[r].started # None /\ req[r].value # None
  BY <1>1 DEF Stage, Running
<1>4. /\ f \in Frames /\ f.value = req[r].value /\ f.started = req[r].started
      /\ f.tool = req[r].tool /\ f.args = req[r].args /\ f.key = req[r].key
  BY <1>1, ClockTyped, SetStored
<1>5. /\ o \in Outcomes /\ o.cost_units = Cost[req[r].tool]
      /\ o.success = TRUE /\ o.cache_hit = FALSE
  BY <1>3 DEF Succeeded, Outcome, Outcomes, Errors
<1>6. Reports(r, [metrics EXCEPT ![r] = metrics[r]], f, o)
  BY <1>2 DEF CacheSet
<1> HIDE DEF f, o
<1>7. /\ metrics[r]["hit"] = Once(o.cache_hit)
      /\ metrics[r]["miss"] = Once(Consulted(f) /\ ~o.cache_hit)
  BY <1>3, <1>4, <1>5 DEF Once, Consulted
<1> QED BY <1>0, <1>2, <1>3, <1>4, <1>5, <1>6, <1>7, ReportsLocal

LEMMA RecordLocal ==
  ASSUME IInv, NEW r \in Requests, Record(r)
  PROVE  LocalInv'
<1> DEFINE f == [req[r] EXCEPT !.pc = "done"]
           es == Append(events[r], req[r].outcome)
<1>0. LocalInv /\ "done" \in PCs
  BY DEF IInv, PCs
<1>1. req[r].pc = "record" /\ Stage(req[r], metrics[r], events[r]) /\ req[r] \in Frames
  BY <1>0, Unpack DEF Record, At
<1>2. metrics[r] \in [Series -> Nat] /\ metrics' = [metrics EXCEPT ![r] = metrics[r]]
  BY <1>0, Unpack, SameCounters DEF Record
<1>3. /\ f \in Frames /\ f.pc = "done" /\ f.value = req[r].value
      /\ f.tool = req[r].tool /\ f.args = req[r].args /\ f.key = req[r].key
      /\ f.started = req[r].started /\ f.outcome = req[r].outcome
  BY <1>0, <1>1, SetPc
<1>4. req' = [req EXCEPT ![r] = f] /\ events' = [events EXCEPT ![r] = es]
  BY <1>0 DEF Record, LocalInv
<1>5. Accounted(req[r], metrics[r]) /\ events[r] = <<>>
  BY <1>1 DEF Stage
<1>6. es \in Seq(Outcomes) /\ es = <<req[r].outcome>>
  BY <1>5 DEF Accounted
<1> HIDE DEF f, es
<1>7. Accounted(f, metrics[r])
  BY <1>3, <1>5 DEF Accounted, Consulted
<1>8. Stage(f, metrics[r], es)
  BY <1>1, <1>3, <1>6, <1>7 DEF Stage, Running
<1> QED BY <1>0, <1>2, <1>3, <1>4, <1>6, <1>8, StepLocal

(* A request is cut off before its outcome is settled, or at its report.   *)
LEMMA AbortLocal ==
  ASSUME IInv, NEW r \in Requests, Abort(r)
  PROVE  LocalInv'
<1> DEFINE f == [req[r] EXCEPT !.pc = "aborted"]
<1>0. LocalInv /\ "aborted" \in PCs
  BY DEF IInv, PCs
<1>1. req[r].pc \in Running \cup {"record"}
  BY AbortAssumption DEF Abort, Awaits, Running
<1>2. /\ Stage(req[r], metrics[r], events[r]) /\ req[r] \in Frames
      /\ metrics[r] \in [Series -> Nat] /\ events[r] = <<>>
  BY <1>0, <1>1, Unpack DEF Stage, Running
<1>3. /\ f \in Frames /\ f.pc = "aborted" /\ f.value = req[r].value
      /\ f.tool = req[r].tool /\ f.args = req[r].args /\ f.key = req[r].key
      /\ f.started = req[r].started /\ f.outcome = req[r].outcome
  BY <1>0, <1>2, SetPc
<1>4. req' = [req EXCEPT ![r] = f] /\ metrics' = [metrics EXCEPT ![r] = metrics[r]]
  BY <1>0, SameCounters DEF Abort, LocalInv
<1>5. /\ f.tool \in Tools /\ f.args \in Args /\ f.key \in ApiKeys
      /\ ~MayUse(f.key, f.tool) => f.value = None /\ f.started = None
  BY <1>1, <1>2, <1>3 DEF Stage, Running
<1>6. events \in [Requests -> Seq(Outcomes)]
  BY <1>0 DEF LocalInv
<1> HIDE DEF f
<1>7. ASSUME NEW es \in Seq(Outcomes), events' = [events EXCEPT ![r] = es],
             CutOff(req[r], metrics[r], es)
      PROVE  LocalInv'
  <2>1. CutOff(f, metrics[r], es)
    BY <1>3, <1>7 DEF CutOff
  <2>2. Stage(f, metrics[r], es)
    BY <1>3, <1>5, <2>1 DEF Stage, Running
  <2> QED BY <1>0, <1>2, <1>3, <1>4, <1>7, <2>2, StepLocal
<1>8. CASE req[r].pc = "record"
  <2>1. Accounted(req[r], metrics[r])
    BY <1>2, <1>8 DEF Stage
  <2>2. /\ req[r].outcome \in Outcomes /\ req[r].outcome # None
        /\ req[r].outcome.success \in BOOLEAN
    BY <2>1, NoneAssumption DEF Accounted, Outcomes
  <2>3. metrics[r]["success"] + metrics[r]["error"] = Once(req[r].outcome # None)
    BY <2>1, <2>2 DEF Accounted, Once
  <2>4. CASE UNCHANGED events
    <3>1. events' = [events EXCEPT ![r] = <<>>] /\ <<>> \in Seq(Outcomes)
      BY <1>2, <1>6, <2>4
    <3>2. CutOff(req[r], metrics[r], <<>>)
      BY <2>3 DEF CutOff
    <3> QED BY <1>7, <3>1, <3>2
  <2>5. CASE events' = [events EXCEPT ![r] = Append(@, req[r].outcome)]
    <3>1. /\ events' = [events EXCEPT ![r] = <<req[r].outcome>>]
          /\ <<req[r].outcome>> \in Seq(Outcomes)
      BY <1>2, <1>6, <2>2, <2>5
    <3>2. CutOff(req[r], metrics[r], <<req[r].outcome>>)
      BY <2>2, <2>3 DEF CutOff
    <3> QED BY <1>7, <3>1, <3>2
  <2> QED BY <2>4, <2>5 DEF Abort
<1>9. CASE req[r].pc \in Running
  <2>1. events' = [events EXCEPT ![r] = <<>>] /\ <<>> \in Seq(Outcomes)
    BY <1>2, <1>6, <1>9 DEF Abort, At, Running
  <2>2. Uncounted(metrics[r]) /\ req[r].outcome = None
    BY <1>2, <1>9 DEF Stage
  <2>3. CutOff(req[r], metrics[r], <<>>)
    BY <2>2 DEF CutOff, Uncounted, Once
  <2> QED BY <1>7, <2>1, <2>3
<1> QED BY <1>1, <1>8, <1>9
-----------------------------------------------------------------------------
(* The cache holds values of requests, each with a time of expiry.         *)
LEMMA GetKeepsStore ==
  ASSUME IInv, NEW r \in Requests, req[r].pc \in Running, Cache!Get(KeyOf(r))
  PROVE  StoreInv'
BY LookupTyped DEF IInv, StoreInv, Cache!Get, Cache!Expired, Cache!Entries

LEMMA SetKeepsStore ==
  ASSUME IInv, NEW r \in Requests, CacheSet(r)
  PROVE  StoreInv'
<1>1. req[r].pc = "cache_set" /\ Stage(req[r], metrics[r], events[r]) /\ req[r] \in Frames
  BY Unpack DEF IInv, CacheSet, At
<1>2. req[r].value \in Requests
  BY <1>1 DEF Stage, Frames
<1>3. Ttl[req[r].tool] \in Nat
  BY <1>1, TtlAssumption DEF Stage
<1>4. now + Ttl[req[r].tool] \in Nat
  BY <1>3, ClockTyped, TimeAssumption DEF Times
<1>5. KeyOf(r) \in CacheKeys
  BY <1>1, LookupTyped DEF Running
<1> QED
  BY <1>2, <1>4, <1>5 DEF IInv, StoreInv, CacheSet, Cache!Set, Cache!Entries

LEMMA StepIInv ==
  ASSUME IInv, NEW r \in Requests, Step(r)
  PROVE  IInv'
<1>1. CASE CacheHit(r)
  <2>1. StoreInv'
    BY <1>1, GetKeepsStore DEF CacheHit, At, Running
  <2>2. LimiterProofs!IInv'
    BY <1>1, LimiterKeeps DEF CacheHit, IInv
  <2> QED BY <1>1, <2>1, <2>2, CacheHitLocal DEF IInv
<1>2. CASE CacheMiss(r)
  <2>1. StoreInv'
    BY <1>2, GetKeepsStore DEF CacheMiss, At, Running
  <2>2. LimiterProofs!IInv'
    BY <1>2, LimiterKeeps DEF CacheMiss, IInv
  <2> QED BY <1>2, <2>1, <2>2, CacheMissLocal DEF IInv
<1>3. CASE CheckRate(r)
  <2>1. req[r].pc = "check_rate" /\ Stage(req[r], metrics[r], events[r])
    BY <1>3, Unpack DEF IInv, CheckRate, At
  <2>2. RateKey(req[r].key) \in RateKeys
    BY <2>1 DEF Stage, RateKeys
  <2>3. LimiterProofs!IInv'
    BY <1>3, <2>2, LimiterKeeps DEF CheckRate, IInv
  <2>4. StoreInv'
    BY <1>3 DEF IInv, StoreInv, CheckRate
  <2> QED BY <1>3, <2>3, <2>4, CheckRateLocal DEF IInv
<1>4. CASE HandlerReturns(r)
  <2>1. StoreInv' /\ LimiterProofs!IInv'
    BY <1>4, LimiterKeeps DEF HandlerReturns, IInv, StoreInv
  <2> QED BY <1>4, <2>1, HandlerReturnsLocal DEF IInv
<1>5. ASSUME NEW e \in HandlerErrors, HandlerRaises(r, e) PROVE IInv'
  <2>1. StoreInv' /\ LimiterProofs!IInv'
    BY <1>5, LimiterKeeps DEF HandlerRaises, IInv, StoreInv
  <2> QED BY <1>5, <2>1, HandlerRaisesLocal DEF IInv
<1>6. CASE CacheSet(r)
  <2>1. LimiterProofs!IInv'
    BY <1>6, LimiterKeeps DEF CacheSet, IInv
  <2> QED BY <1>6, <2>1, SetKeepsStore, CacheSetLocal DEF IInv
<1>7. CASE Record(r)
  <2>1. StoreInv' /\ LimiterProofs!IInv'
    BY <1>7, LimiterKeeps DEF Record, IInv, StoreInv
  <2> QED BY <1>7, <2>1, RecordLocal DEF IInv
<1> QED BY <1>1, <1>2, <1>3, <1>4, <1>5, <1>6, <1>7 DEF Step

LEMMA NextIInv == IInv /\ [Next]_vars => IInv'
<1> SUFFICES ASSUME IInv, [Next]_vars PROVE IInv'
  OBVIOUS
<1>1. ASSUME NEW r \in Requests, NEW t \in Tools, NEW a \in Args, NEW key \in ApiKeys,
             Receive(r, t, a, key) \/ RejectTier(r, t, a, key) \/ FailUnranked(r, t, a, key)
      PROVE  IInv'
  <2>1. LimiterProofs!IInv'
    BY <1>1, LimiterKeeps DEF Receive, RejectTier, FailUnranked, IInv
  <2>2. StoreInv'
    BY <1>1 DEF Receive, RejectTier, FailUnranked, IInv, StoreInv
  <2>3. LocalInv'
    BY <1>1, ReceiveLocal, RejectTierLocal, FailUnrankedLocal
  <2> QED BY <2>1, <2>2, <2>3 DEF IInv
<1>2. ASSUME NEW r \in Requests, Step(r) PROVE IInv'
  BY <1>2, StepIInv
<1>3. ASSUME NEW r \in Requests, Abort(r) PROVE IInv'
  <2>1. StoreInv' /\ LimiterProofs!IInv'
    BY <1>3, LimiterKeeps DEF Abort, IInv, StoreInv
  <2> QED BY <1>3, <2>1, AbortLocal DEF IInv
<1>4. CASE Tick
  <2>1. LimiterProofs!IInv'
    BY <1>4, LimiterKeeps DEF Tick, IInv
  <2> QED BY <1>4, <2>1 DEF Tick, IInv, StoreInv, LocalInv, Cache!Entries
<1>5. CASE UNCHANGED vars
  <2>1. LimiterProofs!IInv'
    BY <1>5, LimiterKeeps DEF vars, limiterVars, IInv
  <2> QED BY <1>5, <2>1 DEF vars, IInv, StoreInv, LocalInv, Cache!Entries
<1>6. Terminated => UNCHANGED vars
  BY DEF Terminated
<1> QED BY <1>1, <1>2, <1>3, <1>4, <1>5, <1>6 DEF Next

LEMMA SpecIInv == Spec => []IInv
BY InitIInv, NextIInv, PTL DEF Spec
-----------------------------------------------------------------------------
(* The frames, counters, events and entries of the chain are of their      *)
(* types, and so are the limiter's variables.                              *)
THEOREM ChainTypeCorrect == Spec => []TypeOK
<1>1. IInv => TypeOK
  BY LimiterTyped DEF IInv, LocalInv, StoreInv, TypeOK
<1> QED BY <1>1, SpecIInv, PTL

(* What a request has reported follows from its stage.                     *)
LEMMA StagesReport == IInv => ReportedOnce
<1> SUFFICES ASSUME IInv, NEW r \in Requests
             PROVE  LET statuses == metrics[r]["success"] + metrics[r]["error"]
                    IN  /\ At(r, "done") =>
                             /\ events[r] = <<req[r].outcome>>
                             /\ Accounted(req[r], metrics[r])
                        /\ At(r, "failed") =>
                             /\ events[r] = <<>> /\ statuses = 0
                             /\ ~Ranked(req[r].key) \/ resolve(req[r].key).limit <= 0
                        /\ At(r, "aborted") => CutOff(req[r], metrics[r], events[r])
                        /\ ~Ended(r) => events[r] = <<>> /\ statuses = Once(At(r, "record"))
  BY DEF ReportedOnce, Accounted, Consulted, CutOff
<1>1. Stage(req[r], metrics[r], events[r]) /\ req[r] \in Frames
  BY Unpack DEF IInv
<1>2. ~Ended(r) => req[r].pc \in Running \cup {"new", "record"}
  BY <1>1 DEF Ended, At, Running, Frames, PCs
<1>3. At(r, "record") => metrics[r]["success"] + metrics[r]["error"] = 1
  <2> SUFFICES ASSUME At(r, "record")
               PROVE  metrics[r]["success"] + metrics[r]["error"] = 1
    OBVIOUS
  <2>1. Accounted(req[r], metrics[r])
    BY <1>1 DEF Stage, At
  <2>2. req[r].outcome.success \in BOOLEAN
    BY <2>1 DEF Accounted, Outcomes
  <2> QED BY <2>1, <2>2 DEF Accounted, Once
<1>4. ~Ended(r) => events[r] = <<>>
  BY <1>1, <1>2 DEF Stage, Running
<1>5. req[r].pc \in Running \cup {"new", "failed"} =>
        metrics[r]["success"] + metrics[r]["error"] = 0
  BY <1>1 DEF Stage, Uncounted
<1>6. ~Ended(r) => metrics[r]["success"] + metrics[r]["error"] = Once(At(r, "record"))
  BY <1>2, <1>3, <1>5 DEF Once, At
<1> QED BY <1>1, <1>4, <1>5, <1>6 DEF Stage, At

(* What a call has reported, at every way out of the chain: one event and  *)
(* one status that say what its caller got when execute handled its end;   *)
(* nothing when an exception left outside every try, which takes a tier    *)
(* without a rank or a limit of zero or less; and when it was cut off, one *)
(* status and at most one event if it had come to its report, else none.   *)
THEOREM EndedCallsReportOnce == Spec => []ReportedOnce
BY StagesReport, SpecIInv, PTL

(* A request that is done has been billed for its handler.                 *)
LEMMA StagesBill == IInv => BilledForUpstreamWork
<1> SUFFICES ASSUME IInv, NEW r \in Requests, At(r, "done")
             PROVE  events[r][1].cost_units
                      = IF req[r].started # None THEN Cost[req[r].tool] ELSE 0
  BY DEF BilledForUpstreamWork
<1>1. Stage(req[r], metrics[r], events[r])
  BY Unpack DEF IInv
<1>2. events[r] = <<req[r].outcome>> /\ Accounted(req[r], metrics[r])
  BY <1>1 DEF Stage, At
<1> QED BY <1>2 DEF Accounted

(* A call that ends is billed exactly when its handler ran.                *)
THEOREM CallsBilledForWork == Spec => []BilledForUpstreamWork
BY StagesBill, SpecIInv, PTL

(* A request below the tier has no value and no handler.                   *)
LEMMA StagesGate == IInv => TierGate
BY Unpack DEF IInv, TierGate, Stage, At

(* No caller below a tool's tier sees a value of it or starts its handler, *)
(* whatever other callers have left in the shared cache.                   *)
THEOREM TierGateHolds == Spec => []TierGate
BY StagesGate, SpecIInv, PTL

-----------------------------------------------------------------------------
(* A frame that the limiter let through.                                   *)
Charge(f) ==
  \/ f.started # None
  \/ f.outcome # None /\ f.outcome.error_type = "ValidationError"

ChargedTo(s, k) == Charge(req[s]) /\ RateKey(req[s].key) = k

(* who[i] is the request that admission i of k let through.                *)
Slots(who, k) ==
  /\ who \in [1 .. Len(admitted[k]) -> Requests]
  /\ \A i, j \in 1 .. Len(admitted[k]) : who[i] = who[j] => i = j
  /\ \A i \in 1 .. Len(admitted[k]) :
       /\ ChargedTo(who[i], k)
       /\ req[who[i]].started # None => req[who[i]].started = admitted[k][i]
  /\ \A s \in Requests : ChargedTo(s, k) => \E i \in 1 .. Len(admitted[k]) : who[i] = s

QuotaInv == \A k \in RateKeys : \E who : Slots(who, k)

LEMMA InitQuota == Init => QuotaInv
<1> SUFFICES ASSUME Init, NEW k \in RateKeys PROVE \E who : Slots(who, k)
  BY DEF QuotaInv
<1>1. admitted[k] = <<>> /\ Len(admitted[k]) = 0
  BY DEF Init, Limiter!Init
<1>2. \A s \in Requests : ~ChargedTo(s, k)
  BY DEF Init, NewFrame, ChargedTo, Charge
<1>3. 1 .. Len(admitted[k]) = {}
  BY <1>1
<1>4. Slots([i \in {} |-> None], k)
  BY <1>2, <1>3 DEF Slots
<1> QED BY <1>4

(* A step of r that leaves the charges alone ...                           *)
Same(f, g) ==
  /\ Charge(f) <=> Charge(g)
  /\ Charge(g) => f.key = g.key
  /\ f.started = g.started

Quiet(r) == \E f : req' = [req EXCEPT ![r] = f] /\ Same(f, req[r])

LEMMA QuietKeepsQuota ==
  ASSUME LocalInv, QuotaInv, NEW r \in Requests, Quiet(r), admitted' = admitted
  PROVE  QuotaInv'
<1>1. PICK f : req' = [req EXCEPT ![r] = f] /\ Same(f, req[r])
  BY DEF Quiet
<1>2. ASSUME NEW s \in Requests PROVE Same(req'[s], req[s])
  BY <1>1 DEF LocalInv, Same
<1>3. \A s \in Requests, k \in RateKeys : ChargedTo(s, k)' <=> ChargedTo(s, k)
  BY <1>2 DEF Same, ChargedTo
<1>4. \A s \in Requests : req'[s].started = req[s].started
  BY <1>2 DEF Same
<1>5. ASSUME NEW k \in RateKeys PROVE (\E who : Slots(who, k))'
  <2>1. PICK who : Slots(who, k)
    BY DEF QuotaInv
  <2>2. Slots(who, k)'
    BY <1>3, <1>4, <2>1 DEF Slots
  <2> QED BY <2>2
<1> QED BY <1>5 DEF QuotaInv

(* ... and one that the limiter admits under key k.                        *)
LEMMA ChargeKeepsQuota ==
  ASSUME IInv, QuotaInv, NEW r \in Requests, NEW f \in Frames, NEW k \in RateKeys,
         req' = [req EXCEPT ![r] = f], ~Charge(req[r]), Charge(f), RateKey(f.key) = k,
         f.started # None => f.started = now,
         admitted' = [admitted EXCEPT ![k] = Append(@, now)]
  PROVE  QuotaInv'
<1>0. /\ req \in [Requests -> Frames]
      /\ admitted \in [RateKeys -> Seq(Times)] /\ now \in Times
  BY ClockTyped DEF IInv, LocalInv, LimiterProofs!IInv, LimiterProofs!TypeOK, Times
<1>1. \A s \in Requests : s # r => req'[s] = req[s]
  BY <1>0
<1>2. req'[r] = f
  BY <1>0
<1>3. \A s \in Requests, j \in RateKeys :
        ChargedTo(s, j)' <=> ChargedTo(s, j) \/ (s = r /\ j = k)
  BY <1>1, <1>2 DEF ChargedTo
<1>4. \A j \in RateKeys : ~ChargedTo(r, j)
  BY DEF ChargedTo
<1>5. ASSUME NEW j \in RateKeys, j # k PROVE (\E who : Slots(who, j))'
  <2>1. PICK who : Slots(who, j)
    BY DEF QuotaInv
  <2>2. admitted'[j] = admitted[j]
    BY <1>0, <1>5
  <2>3. \A i \in 1 .. Len(admitted[j]) : who[i] # r
    BY <1>4, <2>1 DEF Slots
  <2>4. Slots(who, j)'
    BY <1>1, <1>3, <1>5, <2>1, <2>2, <2>3 DEF Slots
  <2> QED BY <2>4
<1>6. (\E who : Slots(who, k))'
  <2>1. PICK who : Slots(who, k)
    BY DEF QuotaInv
  <2>2. PICK n \in Nat : n = Len(admitted[k])
    BY <1>0
  <2> DEFINE next == [i \in 1 .. n + 1 |-> IF i = n + 1 THEN r ELSE who[i]]
  <2>3. /\ Len(admitted'[k]) = n + 1 /\ admitted'[k][n + 1] = now
        /\ \A i \in 1 .. n : admitted'[k][i] = admitted[k][i]
    BY <1>0, <2>2
  <2>4. \A i \in 1 .. n : next[i] = who[i] /\ next[i] # r /\ i \in 1 .. n + 1
    BY <1>4, <2>1, <2>2 DEF Slots
  <2>5. next[n + 1] = r /\ n + 1 \in 1 .. n + 1
    BY <2>2
  <2>6. \A i \in 1 .. n + 1 : i = n + 1 \/ i \in 1 .. n
    BY <2>2
  <2>7. next \in [1 .. n + 1 -> Requests]
    BY <2>1, <2>2 DEF Slots
  <2> HIDE DEF next
  <2>8. \A i, j \in 1 .. n + 1 : next[i] = next[j] => i = j
    BY <2>1, <2>2, <2>4, <2>5, <2>6 DEF Slots
  <2>9. ASSUME NEW i \in 1 .. n + 1
        PROVE  /\ ChargedTo(next[i], k)'
               /\ req'[next[i]].started # None => req'[next[i]].started = admitted'[k][i]
    <3>1. CASE i = n + 1
      BY <1>2, <1>3, <2>3, <2>5, <3>1
    <3>2. CASE i \in 1 .. n
      BY <1>1, <1>3, <2>1, <2>2, <2>3, <2>4, <3>2 DEF Slots
    <3> QED BY <2>6, <3>1, <3>2
  <2>10. ASSUME NEW s \in Requests, ChargedTo(s, k)'
         PROVE  \E i \in 1 .. n + 1 : next[i] = s
    <3>1. CASE s = r
      BY <2>5, <3>1
    <3>2. CASE s # r
      <4>1. ChargedTo(s, k)
        BY <1>3, <2>10, <3>2
      <4>2. PICK i \in 1 .. n : who[i] = s
        BY <2>1, <2>2, <4>1 DEF Slots
      <4> QED BY <2>4, <4>2
    <3> QED BY <3>1, <3>2
  <2>11. Slots(next, k)'
    BY <2>3, <2>7, <2>8, <2>9, <2>10 DEF Slots
  <2> QED BY <2>11
<1> QED BY <1>5, <1>6 DEF QuotaInv
-----------------------------------------------------------------------------
(* The steps of a request.                                                 *)
LEMMA ReportQuiet ==
  ASSUME LocalInv, NEW r \in Requests, NEW m, NEW f \in Frames, NEW o \in Outcomes,
         Reports(r, m, f, o),
         req[r].outcome = None, f.started = req[r].started,
         f.started # None => f.key = req[r].key,
         o.error_type = "ValidationError" => f.started # None
  PROVE  Quiet(r)
<1> DEFINE g == [f EXCEPT !.pc = "record", !.outcome = o]
<1>1. g.key = f.key /\ g.started = f.started /\ g.outcome = o
  BY DEF Frames
<1>2. req' = [req EXCEPT ![r] = g]
  BY DEF Reports
<1> HIDE DEF g
<1>3. Charge(req[r]) <=> f.started # None
  BY DEF Charge
<1>4. Charge(g) <=> f.started # None
  BY <1>1 DEF Charge
<1>5. Same(g, req[r])
  BY <1>1, <1>3, <1>4 DEF Same
<1> QED BY <1>2, <1>5 DEF Quiet

LEMMA ContinueQuiet ==
  ASSUME NEW r \in Requests, NEW m, NEW f, Continues(r, m, f),
         f.outcome = req[r].outcome, f.started = req[r].started,
         Charge(req[r]) => f.key = req[r].key
  PROVE  Quiet(r)
BY DEF Continues, Quiet, Same, Charge

LEMMA ReceivedQuiet ==
  ASSUME IInv, NEW r \in Requests, NEW t \in Tools, NEW a \in Args, NEW key \in ApiKeys,
         Receive(r, t, a, key) \/ RejectTier(r, t, a, key) \/ FailUnranked(r, t, a, key)
  PROVE  Quiet(r) /\ admitted' = admitted
<1>0. admitted' = admitted /\ LocalInv
  BY DEF Receive, RejectTier, FailUnranked, limiterVars, IInv
<1>1. req[r].started = None /\ req[r].outcome = None
  <2>1. req[r].pc = "new" /\ Stage(req[r], metrics[r], events[r])
    BY <1>0, Unpack DEF Receive, RejectTier, FailUnranked, At
  <2> QED BY <2>1 DEF Stage
<1>2. ~Charge(req[r])
  BY <1>1 DEF Charge
<1>3. CASE Receive(r, t, a, key)
  <2> DEFINE p == IF Ttl[t] # None THEN "cache_get" ELSE "check_rate"
             f == CallFrame(p, t, a, key)
  <2>1. p \in PCs
    BY DEF PCs
  <2>2. Continues(r, metrics, f)
    BY <1>3 DEF Receive
  <2>3. f.outcome = None /\ f.started = None
    <3> HIDE DEF p
    <3> QED BY <2>1, CallFrames
  <2> HIDE DEF f
  <2> QED BY <1>0, <1>1, <1>2, <2>2, <2>3, ContinueQuiet
<1>4. CASE RejectTier(r, t, a, key)
  <2> DEFINE f == CallFrame("new", t, a, key)
             o == Rejected("TierError")
  <2>1. "new" \in PCs
    BY DEF PCs
  <2>2. f \in Frames /\ f.started = None
    BY <2>1, CallFrames
  <2>3. o \in Outcomes /\ o.error_type # "ValidationError"
    BY DEF Rejected, Outcome, Outcomes, Errors
  <2>4. Reports(r, metrics, f, o)
    BY <1>4 DEF RejectTier
  <2> HIDE DEF f, o
  <2> QED BY <1>0, <1>1, <2>2, <2>3, <2>4, ReportQuiet
<1>5. CASE FailUnranked(r, t, a, key)
  <2> DEFINE f == CallFrame("failed", t, a, key)
  <2>1. "failed" \in PCs
    BY DEF PCs
  <2>2. f.outcome = None /\ f.started = None
    BY <2>1, CallFrames
  <2>3. Continues(r, metrics, f)
    BY <1>5 DEF FailUnranked
  <2> HIDE DEF f
  <2> QED BY <1>0, <1>1, <1>2, <2>2, <2>3, ContinueQuiet
<1> QED BY <1>0, <1>3, <1>4, <1>5

LEMMA HandledQuiet ==
  ASSUME IInv, NEW r \in Requests,
         \/ CacheHit(r) \/ CacheMiss(r) \/ HandlerReturns(r) \/ CacheSet(r)
         \/ Record(r) \/ Abort(r)
         \/ \E e \in HandlerErrors : HandlerRaises(r, e)
  PROVE  Quiet(r) /\ admitted' = admitted
<1>0. /\ LocalInv /\ req[r] \in Frames /\ Stage(req[r], metrics[r], events[r])
      /\ "check_rate" \in PCs /\ "cache_set" \in PCs /\ "done" \in PCs /\ "aborted" \in PCs
  BY Unpack DEF IInv, PCs
<1>1. admitted' = admitted
  BY DEF CacheHit, CacheMiss, HandlerReturns, CacheSet, Record, Abort, HandlerRaises, limiterVars
<1>2. req[r].pc \in Running => req[r].outcome = None
  BY <1>0 DEF Stage
<1>3. CASE CacheHit(r)
  <2> DEFINE v == Cache!Lookup(KeyOf(r))
             f == [req[r] EXCEPT !.value = v]
             o == Outcome(0, TRUE, TRUE, None)
             m == record_cache_event(metrics, r, "hit")
  <2>1. req[r].pc \in Running
    BY <1>3 DEF CacheHit, At, Running
  <2>2. v \in Requests
    BY <1>3, <2>1, LookupTyped DEF CacheHit
  <2>3. f \in Frames /\ f.started = req[r].started /\ f.key = req[r].key
    <3> HIDE DEF v
    <3> QED BY <1>0, <2>2, SetValue
  <2>4. o \in Outcomes /\ o.error_type # "ValidationError"
    BY NoneAssumption DEF Outcome, Outcomes, Errors
  <2>5. Reports(r, m, f, o)
    BY <1>3 DEF CacheHit
  <2> HIDE DEF f, o, m
  <2> QED BY <1>0, <1>1, <1>2, <2>1, <2>3, <2>4, <2>5, ReportQuiet
<1>4. CASE CacheMiss(r)
  <2> DEFINE f == [req[r] EXCEPT !.pc = "check_rate"]
             m == record_cache_event(metrics, r, "miss")
  <2>1. f.outcome = req[r].outcome /\ f.started = req[r].started /\ f.key = req[r].key
    BY <1>0, SetPc
  <2>2. Continues(r, m, f)
    BY <1>4 DEF CacheMiss
  <2> HIDE DEF f, m
  <2> QED BY <1>1, <2>1, <2>2, ContinueQuiet
<1>5. CASE HandlerReturns(r)
  <2>1. req[r].pc \in Running /\ req[r].tool \in Tools
    BY <1>0, <1>5 DEF HandlerReturns, At, Running, Stage
  <2>2. CASE Ttl[req[r].tool] # None
    <3> DEFINE h == [req[r] EXCEPT !.pc = "cache_set"]
               f == [h EXCEPT !.value = r]
    <3>1. /\ h \in Frames /\ h.outcome = req[r].outcome
          /\ h.started = req[r].started /\ h.key = req[r].key
      BY <1>0, SetPc
    <3>2. Continues(r, metrics, f)
      BY <1>5, <2>2, Zenon DEF HandlerReturns
    <3> HIDE DEF h
    <3>3. f.outcome = req[r].outcome /\ f.started = req[r].started /\ f.key = req[r].key
      BY <3>1, SetValue
    <3> HIDE DEF f
    <3> QED BY <1>1, <3>2, <3>3, ContinueQuiet
  <2>3. CASE Ttl[req[r].tool] = None
    <3> DEFINE f == [req[r] EXCEPT !.value = r]
               o == Succeeded(req[r].tool)
    <3>1. f \in Frames /\ f.started = req[r].started /\ f.key = req[r].key
      BY <1>0, SetValue
    <3>2. o \in Outcomes /\ o.error_type # "ValidationError"
      BY <2>1, NoneAssumption DEF Succeeded, Outcome, Outcomes, Errors
    <3>3. Reports(r, metrics, f, o)
      BY <1>5, <2>3, Zenon DEF HandlerReturns
    <3> HIDE DEF f, o
    <3> QED BY <1>0, <1>1, <1>2, <2>1, <3>1, <3>2, <3>3, ReportQuiet
  <2> QED BY <2>2, <2>3
<1>6. CASE CacheSet(r)
  <2> DEFINE f == [req[r] EXCEPT !.stored = now]
             o == Succeeded(req[r].tool)
  <2>1. req[r].pc \in Running /\ req[r].tool \in Tools
    BY <1>0, <1>6 DEF CacheSet, At, Running, Stage
  <2>2. f \in Frames /\ f.started = req[r].started /\ f.key = req[r].key
    BY <1>0, ClockTyped, SetStored
  <2>3. o \in Outcomes /\ o.error_type # "ValidationError"
    BY <2>1, NoneAssumption DEF Succeeded, Outcome, Outcomes, Errors
  <2>4. Reports(r, metrics, f, o)
    BY <1>6 DEF CacheSet
  <2> HIDE DEF f, o
  <2> QED BY <1>0, <1>1, <1>2, <2>1, <2>2, <2>3, <2>4, ReportQuiet
<1>7. CASE Record(r)
  <2> DEFINE f == [req[r] EXCEPT !.pc = "done"]
  <2>1. f.outcome = req[r].outcome /\ f.started = req[r].started /\ f.key = req[r].key
    BY <1>0, SetPc
  <2>2. req' = [req EXCEPT ![r] = f]
    BY <1>0, <1>7 DEF Record, LocalInv
  <2> HIDE DEF f
  <2> QED BY <1>1, <2>1, <2>2 DEF Quiet, Same, Charge
<1>8. CASE Abort(r)
  <2> DEFINE f == [req[r] EXCEPT !.pc = "aborted"]
  <2>1. f.outcome = req[r].outcome /\ f.started = req[r].started /\ f.key = req[r].key
    BY <1>0, SetPc
  <2>2. req' = [req EXCEPT ![r] = f]
    BY <1>0, <1>8 DEF Abort, LocalInv
  <2> HIDE DEF f
  <2> QED BY <1>1, <2>1, <2>2 DEF Quiet, Same, Charge
<1>9. ASSUME NEW e \in HandlerErrors, HandlerRaises(r, e) PROVE Quiet(r)
  <2> DEFINE o == Outcome(Cost[req[r].tool], FALSE, FALSE, e)
  <2>1. /\ req[r].pc = "handler" /\ req[r].tool \in Tools /\ req[r].started # None
        /\ req[r].outcome = None
    BY <1>0, <1>9 DEF HandlerRaises, At, Running, Stage
  <2>2. o \in Outcomes
    BY <2>1 DEF Outcome, Outcomes, Errors
  <2>3. Reports(r, metrics, req[r], o)
    BY <1>9 DEF HandlerRaises
  <2> HIDE DEF o
  <2> QED BY <1>0, <2>1, <2>2, <2>3, ReportQuiet
<1> QED BY <1>1, <1>3, <1>4, <1>5, <1>6, <1>7, <1>8, <1>9

(* The limiter's history grows with an admission and with nothing else.    *)
LEMMA Answered ==
  ASSUME IInv, NEW k \in RateKeys, Limiter!check_and_increment(k)
  PROVE  IF answer'[k].kind = "allowed"
           THEN admitted' = [admitted EXCEPT ![k] = Append(@, now)]
           ELSE admitted' = admitted
<1>1. DOMAIN answer = RateKeys
  BY DEF IInv, LimiterProofs!IInv, LimiterProofs!TypeOK
<1> QED
  BY <1>1 DEF Limiter!check_and_increment, Limiter!Allow, Limiter!Deny, Limiter!Crash

LEMMA CheckRateQuota ==
  ASSUME IInv, QuotaInv, NEW r \in Requests, CheckRate(r)
  PROVE  QuotaInv'
<1> DEFINE k == RateKey(req[r].key)
<1>0. /\ LocalInv /\ req[r] \in Frames /\ now \in Times
      /\ "failed" \in PCs /\ "handler" \in PCs
  BY Unpack, ClockTyped DEF IInv, PCs
<1>1. /\ req[r].pc = "check_rate" /\ req[r].key \in ApiKeys
      /\ req[r].started = None /\ req[r].outcome = None
  BY <1>0, Unpack DEF CheckRate, At, Stage, Running
<1>2. k \in RateKeys
  BY <1>1 DEF RateKeys
<1>3. IF answer'[k].kind = "allowed"
        THEN admitted' = [admitted EXCEPT ![k] = Append(@, now)]
        ELSE admitted' = admitted
  BY <1>2, Answered DEF CheckRate
<1>4. CASE answer'[k].kind = "denied" /\ Reports(r, metrics, req[r], Rejected("RateLimitError"))
  <2> DEFINE o == Rejected("RateLimitError")
  <2>1. o \in Outcomes /\ o.error_type # "ValidationError"
    BY DEF Rejected, Outcome, Outcomes, Errors
  <2> HIDE DEF o
  <2>2. Quiet(r)
    BY <1>0, <1>1, <1>4, <2>1, ReportQuiet DEF o
  <2> QED BY <1>0, <1>3, <1>4, <2>2, QuietKeepsQuota
<1>5. CASE answer'[k].kind = "IndexError" /\ Continues(r, metrics, [req[r] EXCEPT !.pc = "failed"])
  <2> DEFINE f == [req[r] EXCEPT !.pc = "failed"]
  <2>1. f.outcome = req[r].outcome /\ f.started = req[r].started /\ f.key = req[r].key
    BY <1>0, SetPc
  <2>2. Continues(r, metrics, f)
    BY <1>5
  <2> HIDE DEF f
  <2>3. Quiet(r)
    BY <2>1, <2>2, ContinueQuiet
  <2> QED BY <1>0, <1>3, <1>5, <2>3, QuietKeepsQuota
<1>6. ~Charge(req[r])
  BY <1>1 DEF Charge
<1>7. CASE answer'[k].kind = "allowed" /\ Reports(r, metrics, req[r], Rejected("ValidationError"))
  <2> DEFINE o == Rejected("ValidationError")
             f == [req[r] EXCEPT !.pc = "record", !.outcome = o]
  <2>1. o \in Outcomes /\ o.error_type = "ValidationError"
    BY DEF Rejected, Outcome, Outcomes, Errors
  <2>2. o # None
    BY <2>1, NoneAssumption
  <2>3. req' = [req EXCEPT ![r] = f]
    BY <1>7 DEF Reports
  <2> HIDE DEF o
  <2>4. f \in Frames /\ f.key = req[r].key /\ f.started = None /\ f.outcome = o
    <3> DEFINE h == [req[r] EXCEPT !.pc = "record"]
    <3>1. "record" \in PCs
      BY DEF PCs
    <3>2. h \in Frames /\ h.key = req[r].key /\ h.started = None
      BY <1>0, <1>1, <3>1, SetPc
    <3>3. f = [h EXCEPT !.outcome = o]
      BY <1>0 DEF Frames
    <3> HIDE DEF h
    <3> QED BY <2>1, <3>2, <3>3 DEF Frames
  <2> HIDE DEF f
  <2>5. Charge(f)
    BY <2>1, <2>2, <2>4 DEF Charge
  <2> QED BY <1>2, <1>3, <1>6, <1>7, <2>3, <2>4, <2>5, ChargeKeepsQuota
<1>8. CASE /\ answer'[k].kind = "allowed"
           /\ Continues(r, metrics, [req[r] EXCEPT !.pc = "handler", !.started = now])
  <2> DEFINE h == [req[r] EXCEPT !.pc = "handler"]
             f == [h EXCEPT !.started = now]
  <2>1. h \in Frames /\ h.key = req[r].key
    BY <1>0, SetPc
  <2>2. req' = [req EXCEPT ![r] = f]
    BY <1>8, Zenon DEF Continues
  <2> HIDE DEF h
  <2>3. f \in Frames /\ f.key = req[r].key /\ f.started = now
    BY <1>0, <2>1, SetStarted
  <2> HIDE DEF f
  <2>4. Charge(f)
    BY <1>0, <2>3, TimesAreNotNone DEF Charge
  <2> QED BY <1>2, <1>3, <1>6, <1>8, <2>2, <2>3, <2>4, ChargeKeepsQuota
<1> QED BY <1>4, <1>5, <1>7, <1>8, Zenon DEF CheckRate

LEMMA NextQuota == IInv /\ QuotaInv /\ [Next]_vars => QuotaInv'
<1> SUFFICES ASSUME IInv, QuotaInv, [Next]_vars PROVE QuotaInv'
  OBVIOUS
<1>0. LocalInv
  BY DEF IInv
<1>1. ASSUME NEW r \in Requests, NEW t \in Tools, NEW a \in Args, NEW key \in ApiKeys,
             Receive(r, t, a, key) \/ RejectTier(r, t, a, key) \/ FailUnranked(r, t, a, key)
      PROVE  QuotaInv'
  BY <1>0, <1>1, ReceivedQuiet, QuietKeepsQuota
<1>2. ASSUME NEW r \in Requests, CheckRate(r) PROVE QuotaInv'
  BY <1>2, CheckRateQuota
<1>3. ASSUME NEW r \in Requests,
             \/ CacheHit(r) \/ CacheMiss(r) \/ HandlerReturns(r) \/ CacheSet(r)
             \/ Record(r) \/ Abort(r)
             \/ \E e \in HandlerErrors : HandlerRaises(r, e)
      PROVE  QuotaInv'
  BY <1>0, <1>3, HandledQuiet, QuietKeepsQuota
<1>4. CASE Tick \/ UNCHANGED vars
  <2>1. req' = req /\ admitted' = admitted
    BY <1>4 DEF Tick, Limiter!Tick, vars
  <2> QED BY <2>1 DEF QuotaInv, Slots, ChargedTo
<1>5. Terminated => UNCHANGED vars
  BY DEF Terminated
<1> QED BY <1>1, <1>2, <1>3, <1>4, <1>5 DEF Next, Step

LEMMA SpecQuota == Spec => []QuotaInv
<1>1. Spec => [](IInv /\ QuotaInv)
  <2>1. IInv /\ QuotaInv /\ [Next]_vars => (IInv /\ QuotaInv)'
    BY NextIInv, NextQuota
  <2> QED BY <2>1, InitIInv, InitQuota, PTL DEF Spec
<1> QED BY <1>1, PTL
-----------------------------------------------------------------------------
(* The requests that the limiter let through for k are as many as its      *)
(* admissions.                                                             *)
LEMMA SlotsCount ==
  ASSUME IInv, NEW k \in RateKeys, NEW who, Slots(who, k)
  PROVE  Cardinality({s \in Requests : ChargedTo(s, k)}) = Len(admitted[k])
<1> DEFINE S == {s \in Requests : ChargedTo(s, k)}
           n == Len(admitted[k])
<1>1. n \in Nat
  BY DEF IInv, LimiterProofs!IInv, LimiterProofs!TypeOK
<1>2. who \in [1 .. n -> S]
  BY DEF Slots
<1>3. who \in Injection(1 .. n, S)
  BY <1>2 DEF Slots, Injection, IsInjective
<1>4. who \in Surjection(1 .. n, S)
  BY <1>2 DEF Slots, Surjection
<1>5. ExistsBijection(1 .. n, S)
  BY <1>3, <1>4 DEF ExistsBijection, Bijection
<1> HIDE DEF S, n
<1>6. Cardinality(S) = n
  BY <1>1, <1>5, FS_CountingElements
<1> QED BY <1>6 DEF S, n

(* The slots of a key are the calls that used its quota.                   *)
LEMMA SlotsAccount == IInv /\ QuotaInv => QuotaAccounted
<1> SUFFICES ASSUME IInv, QuotaInv, NEW k \in RateKeys
             PROVE  Len(admitted[k]) =
                      Cardinality({r \in Requests :
                        /\ ~At(r, "new")
                        /\ RateKey(req[r].key) = k
                        /\ \/ req[r].started # None
                           \/ /\ req[r].outcome # None
                              /\ req[r].outcome.error_type = "ValidationError"})
  BY DEF QuotaAccounted
<1>1. PICK who : Slots(who, k)
  BY DEF QuotaInv
<1>2. ASSUME NEW r \in Requests, At(r, "new") PROVE ~ChargedTo(r, k)
  <2>1. Stage(req[r], metrics[r], events[r])
    BY Unpack DEF IInv
  <2> QED BY <1>2, <2>1 DEF Stage, At, ChargedTo, Charge
<1>3. {s \in Requests : ChargedTo(s, k)} =
        {r \in Requests :
           /\ ~At(r, "new")
           /\ RateKey(req[r].key) = k
           /\ \/ req[r].started # None
              \/ /\ req[r].outcome # None
                 /\ req[r].outcome.error_type = "ValidationError"}
  BY <1>2 DEF ChargedTo, Charge
<1> QED BY <1>1, <1>3, SlotsCount

(* Every unit of a key's quota is one call that started its handler or     *)
(* failed validation: hits and rejected calls leave the quota alone.       *)
THEOREM QuotaIsAccounted == Spec => []QuotaAccounted
BY SlotsAccount, SpecIInv, SpecQuota, PTL

(* As few handlers start in a window as the limiter admitted in it.        *)
LEMMA SlotsLimit == IInv /\ QuotaInv => UpstreamRateLimited
<1> SUFFICES ASSUME IInv, QuotaInv, NEW s \in Requests, req[s].started # None
             PROVE  LET k == RateKey(req[s].key)
                        inWindow == {r \in Requests :
                          /\ req[r].started # None
                          /\ RateKey(req[r].key) = k
                          /\ req[r].started \in req[s].started .. req[s].started + Window - 1}
                    IN  Cardinality(inWindow) <= resolve(req[s].key).limit
  BY DEF UpstreamRateLimited
<1> DEFINE k == RateKey(req[s].key)
           W == {r \in Requests :
                   /\ req[r].started # None
                   /\ RateKey(req[r].key) = k
                   /\ req[r].started \in req[s].started .. req[s].started + Window - 1}
           adm == admitted[k]
           limit == resolve(req[s].key).limit
<1>1. req[s] \in Frames /\ Stage(req[s], metrics[s], events[s])
  BY Unpack DEF IInv
<1>2. req[s].key \in ApiKeys /\ k \in RateKeys
  <2>1. req[s].key \in ApiKeys
    BY <1>1 DEF Stage
  <2> QED BY <2>1 DEF RateKeys
<1>3. adm \in Seq(Times) /\ Len(adm) \in Nat /\ \A i \in 1 .. Len(adm) : adm[i] \in Nat
  <2>1. adm \in Seq(Times)
    BY <1>2 DEF IInv, LimiterProofs!IInv, LimiterProofs!TypeOK, Times
  <2> QED BY <2>1, TimeAssumption DEF Times
<1>4. limit \in Int /\ \A i, j \in 1 .. Len(adm) : j - i >= limit => adm[j] - adm[i] >= Window
  <2>1. LimiterProofs!KeyInv(k)
    BY <1>2 DEF IInv, LimiterProofs!IInv
  <2>2. LimiterProofs!Rolling(k)
    BY <2>1 DEF LimiterProofs!KeyInv
  <2> QED BY <1>2, <2>2, LimitOfKey DEF LimiterProofs!Rolling
<1>5. PICK who : Slots(who, k)
  BY <1>2 DEF QuotaInv
<1> DEFINE J == {i \in 1 .. Len(adm) : who[i] \in W}
           g == [i \in J |-> who[i]]
<1>6. req[s].started \in Nat
  BY <1>1, TimeAssumption DEF Frames, Times
<1>7. \A i \in J : /\ adm[i] >= req[s].started
                   /\ adm[i] <= req[s].started + Window - 1
  BY <1>3, <1>5, <1>6, WindowAssumption DEF Slots
<1>8. \A r \in W : \E i \in J : who[i] = r
  BY <1>5 DEF Slots, ChargedTo, Charge
<1>9. s \in W
  BY <1>6, WindowAssumption
<1> HIDE DEF W, adm, limit, k
<1>10. J \in SUBSET Nat /\ J # {}
  BY <1>3, <1>8, <1>9
<1>11. PICK m \in J : \A i \in J : m <= i
  <2> HIDE DEF J
  <2> QED BY <1>10, LimiterProofs!LeastNumber, WindowAssumption, TimeAssumption, LimitTyped
<1>12. J \subseteq m .. m + limit - 1
  <2> SUFFICES ASSUME NEW i \in J PROVE i \in m .. m + limit - 1
    OBVIOUS
  <2>1. adm[i] - adm[m] < Window
    BY <1>3, <1>6, <1>7, <1>11, WindowAssumption
  <2>2. ~(i - m >= limit)
    BY <1>3, <1>4, <2>1, <1>11, WindowAssumption
  <2> QED BY <1>3, <1>4, <1>11, <2>2
<1>13. m \in Nat /\ m <= m + limit - 1
  BY <1>3, <1>4, <1>11, <1>12
<1>14. IsFiniteSet(J) /\ Cardinality(J) <= limit
  <2>1. /\ IsFiniteSet(m .. m + limit - 1)
        /\ Cardinality(m .. m + limit - 1) = limit
    BY <1>4, <1>13, FS_Interval
  <2> HIDE DEF J
  <2> QED BY <1>12, <2>1, FS_Subset
<1>15. g \in Surjection(J, W)
  BY <1>8 DEF Surjection
<1> HIDE DEF J, g
<1>16. Cardinality(W) <= Cardinality(J) /\ IsFiniteSet(W)
  BY <1>14, <1>15, FS_Surjection
<1>17. Cardinality(W) \in Nat /\ Cardinality(J) \in Nat
  BY <1>14, <1>16, FS_CardinalityType
<1>18. Cardinality(W) <= limit
  BY <1>4, <1>14, <1>16, <1>17
<1> QED BY <1>18 DEF W, k, limit

(* What a key can cause upstream is limited: no window sees more handlers  *)
(* of a key start than its limit, however the calls interleave.            *)
THEOREM UpstreamIsRateLimited == Spec => []UpstreamRateLimited
BY SlotsLimit, SpecIInv, SpecQuota, PTL

-----------------------------------------------------------------------------
Past == {"record", "done", "aborted"}

(* Entry e was stored under key k by the request whose value it holds.     *)
Kept(e, k) ==
  LET v == e.value
  IN  /\ req[v].pc \in Past
      /\ KeyOf(v) = k
      /\ req[v].stored # None
      /\ e.expires_at = req[v].stored + Ttl[req[v].tool]

CacheInv ==
  /\ \A r \in Requests : At(r, "cache_set") => req[r].value = r
  /\ \A k \in CacheKeys : store[k] # None => Kept(store[k], k)

LEMMA InitCache == Init => CacheInv
BY DEF Init, Cache!CacheInit, CacheInv, NewFrame, At

(* A step of r that stores nothing.                                        *)
Keeps(r, f) ==
  /\ req' = [req EXCEPT ![r] = f]
  /\ f.pc = "cache_set" => f.value = r
  /\ req[r].pc \in Past =>
       f.pc \in Past /\ f.tool = req[r].tool /\ f.args = req[r].args /\ f.stored = req[r].stored

LEMMA KeepsCache ==
  ASSUME IInv, CacheInv, NEW r \in Requests, NEW f, Keeps(r, f),
         store' = store \/ (req[r].pc \in Running /\ Cache!Get(KeyOf(r)))
  PROVE  CacheInv'
<1>0. req \in [Requests -> Frames] /\ store \in [CacheKeys -> Cache!Entries(Requests)]
  BY DEF IInv, LocalInv, StoreInv
<1>1. \A k \in CacheKeys : store'[k] = store[k] \/ store'[k] = None
  BY <1>0, LookupTyped DEF Cache!Get
<1>2. \A s \in Requests : s # r => req'[s] = req[s]
  BY <1>0 DEF Keeps
<1>3. req'[r] = f
  BY <1>0 DEF Keeps
<1>4. ASSUME NEW s \in Requests, At(s, "cache_set")' PROVE req'[s].value = s
  BY <1>2, <1>3, <1>4 DEF Keeps, CacheInv, At
<1>5. ASSUME NEW k \in CacheKeys, store'[k] # None PROVE Kept(store[k], k)'
  <2>1. store'[k] = store[k] /\ store[k] # None /\ Kept(store[k], k)
    BY <1>1, <1>5 DEF CacheInv
  <2>2. PICK v \in Requests : v = store[k].value
    BY <1>0, <2>1 DEF Cache!Entries
  <2>3. /\ req[v].pc \in Past /\ KeyOf(v) = k /\ req[v].stored # None
        /\ store[k].expires_at = req[v].stored + Ttl[req[v].tool]
    BY <2>1, <2>2 DEF Kept
  <2>4. /\ req'[v].pc \in Past /\ req'[v].tool = req[v].tool /\ req'[v].args = req[v].args
        /\ req'[v].stored = req[v].stored
    <3>1. CASE v = r
      BY <1>3, <2>3, <3>1 DEF Keeps
    <3>2. CASE v # r
      BY <1>2, <2>3, <3>2
    <3> QED BY <3>1, <3>2
  <2>5. KeyOf(v)' = KeyOf(v)
    BY <2>4 DEF KeyOf
  <2> QED BY <2>1, <2>2, <2>3, <2>4, <2>5 DEF Kept
<1> QED BY <1>4, <1>5 DEF CacheInv

(* A step of r that goes on to p or reports.                               *)
LEMMA ContinueKeeps ==
  ASSUME NEW r \in Requests, NEW m, NEW f, Continues(r, m, f),
         req[r].pc \notin Past, f.pc # "cache_set"
  PROVE  Keeps(r, f)
BY DEF Continues, Keeps

LEMMA ReportKeeps ==
  ASSUME NEW r \in Requests, NEW m, NEW f \in Frames, NEW o, Reports(r, m, f, o),
         req[r].pc \notin Past
  PROVE  \E g : Keeps(r, g)
<1> DEFINE g == [f EXCEPT !.pc = "record", !.outcome = o]
<1>1. g.pc = "record"
  BY DEF Frames
<1>2. req' = [req EXCEPT ![r] = g]
  BY DEF Reports
<1> HIDE DEF g
<1>3. Keeps(r, g)
  BY <1>1, <1>2 DEF Keeps
<1> QED BY <1>3

LEMMA ReceivedKeeps ==
  ASSUME IInv, NEW r \in Requests, NEW t \in Tools, NEW a \in Args, NEW key \in ApiKeys,
         Receive(r, t, a, key) \/ RejectTier(r, t, a, key) \/ FailUnranked(r, t, a, key)
  PROVE  \E g : Keeps(r, g)
<1>1. req[r].pc \notin Past
  BY DEF Receive, RejectTier, FailUnranked, At, Past
<1>2. CASE Receive(r, t, a, key)
  <2> DEFINE p == IF Ttl[t] # None THEN "cache_get" ELSE "check_rate"
             f == CallFrame(p, t, a, key)
  <2>1. p \in PCs /\ p # "cache_set"
    BY DEF PCs
  <2>2. Continues(r, metrics, f)
    BY <1>2 DEF Receive
  <2>3. f.pc = p
    <3> HIDE DEF p
    <3> QED BY <2>1, CallFrames
  <2> HIDE DEF f
  <2> QED BY <1>1, <2>1, <2>2, <2>3, ContinueKeeps
<1>3. CASE RejectTier(r, t, a, key)
  <2> DEFINE f == CallFrame("new", t, a, key)
  <2>1. "new" \in PCs
    BY DEF PCs
  <2>2. f \in Frames
    BY <2>1, CallFrames
  <2>3. Reports(r, metrics, f, Rejected("TierError"))
    BY <1>3 DEF RejectTier
  <2> HIDE DEF f
  <2> QED BY <1>1, <2>2, <2>3, ReportKeeps
<1>4. CASE FailUnranked(r, t, a, key)
  <2> DEFINE f == CallFrame("failed", t, a, key)
  <2>1. "failed" \in PCs
    BY DEF PCs
  <2>2. f.pc = "failed"
    BY <2>1, CallFrames
  <2>3. Continues(r, metrics, f)
    BY <1>4 DEF FailUnranked
  <2> HIDE DEF f
  <2> QED BY <1>1, <2>2, <2>3, ContinueKeeps
<1> QED BY <1>2, <1>3, <1>4

LEMMA HandledKeeps ==
  ASSUME IInv, NEW r \in Requests,
         \/ CacheHit(r) \/ CacheMiss(r) \/ CheckRate(r) \/ HandlerReturns(r)
         \/ \E e \in HandlerErrors : HandlerRaises(r, e)
  PROVE  \E g : Keeps(r, g)
<1>0. /\ req[r] \in Frames /\ Stage(req[r], metrics[r], events[r])
      /\ "check_rate" \in PCs /\ "failed" \in PCs /\ "handler" \in PCs
  BY Unpack DEF IInv, PCs
<1>1. req[r].pc \in Running /\ req[r].pc \notin Past
  BY DEF CacheHit, CacheMiss, CheckRate, HandlerReturns, HandlerRaises, At, Running, Past
<1>2. CASE CacheHit(r)
  <2> DEFINE v == Cache!Lookup(KeyOf(r))
             f == [req[r] EXCEPT !.value = v]
  <2>1. v \in Requests
    BY <1>1, <1>2, LookupTyped DEF CacheHit
  <2>2. f \in Frames
    <3> HIDE DEF v
    <3> QED BY <1>0, <2>1, SetValue
  <2>3. Reports(r, record_cache_event(metrics, r, "hit"), f, Outcome(0, TRUE, TRUE, None))
    BY <1>2 DEF CacheHit
  <2> HIDE DEF f
  <2> QED BY <1>1, <2>2, <2>3, ReportKeeps
<1>3. CASE CacheMiss(r)
  <2> DEFINE f == [req[r] EXCEPT !.pc = "check_rate"]
  <2>1. f.pc = "check_rate"
    BY <1>0, SetPc
  <2>2. Continues(r, record_cache_event(metrics, r, "miss"), f)
    BY <1>3 DEF CacheMiss
  <2> HIDE DEF f
  <2> QED BY <1>1, <2>1, <2>2, ContinueKeeps
<1>4. CASE CheckRate(r)
  <2>1. CASE \E error : Reports(r, metrics, req[r], Rejected(error))
    BY <1>0, <1>1, <2>1, ReportKeeps
  <2>2. CASE Continues(r, metrics, [req[r] EXCEPT !.pc = "failed"])
    <3> DEFINE f == [req[r] EXCEPT !.pc = "failed"]
    <3>1. f.pc = "failed"
      BY <1>0, SetPc
    <3> HIDE DEF f
    <3> QED BY <1>1, <2>2, <3>1, ContinueKeeps DEF f
  <2>3. CASE Continues(r, metrics, [req[r] EXCEPT !.pc = "handler", !.started = now])
    <3> DEFINE h == [req[r] EXCEPT !.pc = "handler"]
               f == [h EXCEPT !.started = now]
    <3>1. h \in Frames /\ h.pc = "handler"
      BY <1>0, SetPc
    <3>2. Continues(r, metrics, f)
      BY <2>3, Zenon
    <3> HIDE DEF h
    <3>3. f.pc = "handler"
      BY <3>1, ClockTyped, SetStarted
    <3> HIDE DEF f
    <3> QED BY <1>1, <3>2, <3>3, ContinueKeeps
  <2> QED BY <1>4, <2>1, <2>2, <2>3, Zenon DEF CheckRate
<1>5. CASE HandlerReturns(r)
  <2>1. CASE Ttl[req[r].tool] # None
    <3> DEFINE h == [req[r] EXCEPT !.pc = "cache_set"]
               f == [h EXCEPT !.value = r]
    <3>1. "cache_set" \in PCs
      BY DEF PCs
    <3>2. h \in Frames
      BY <1>0, <3>1, SetPc
    <3>3. Continues(r, metrics, f)
      BY <1>5, <2>1, Zenon DEF HandlerReturns
    <3> HIDE DEF h
    <3>4. f.value = r
      BY <3>2, SetValue
    <3> HIDE DEF f
    <3>5. Keeps(r, f)
      BY <1>1, <3>3, <3>4 DEF Continues, Keeps
    <3> QED BY <3>5
  <2>2. CASE Ttl[req[r].tool] = None
    <3> DEFINE f == [req[r] EXCEPT !.value = r]
    <3>1. f \in Frames
      BY <1>0, SetValue
    <3>2. Reports(r, metrics, f, Succeeded(req[r].tool))
      BY <1>5, <2>2, Zenon DEF HandlerReturns
    <3> HIDE DEF f
    <3> QED BY <1>1, <3>1, <3>2, ReportKeeps
  <2> QED BY <2>1, <2>2
<1>6. ASSUME NEW e \in HandlerErrors, HandlerRaises(r, e) PROVE \E g : Keeps(r, g)
  <2>1. Reports(r, metrics, req[r], Outcome(Cost[req[r].tool], FALSE, FALSE, e))
    BY <1>6 DEF HandlerRaises
  <2> QED BY <1>0, <1>1, <2>1, ReportKeeps
<1> QED BY <1>2, <1>3, <1>4, <1>5, <1>6

LEMMA EndKeeps ==
  ASSUME IInv, NEW r \in Requests, Record(r) \/ Abort(r)
  PROVE  \E g : Keeps(r, g)
<1>0. req \in [Requests -> Frames] /\ req[r] \in Frames /\ "done" \in PCs /\ "aborted" \in PCs
  BY Unpack DEF IInv, LocalInv, PCs
<1>1. CASE Record(r)
  <2> DEFINE f == [req[r] EXCEPT !.pc = "done"]
  <2>1. /\ f.pc = "done" /\ f.tool = req[r].tool /\ f.args = req[r].args
        /\ f.stored = req[r].stored
    BY <1>0, SetPc
  <2>2. req' = [req EXCEPT ![r] = f]
    BY <1>0, <1>1 DEF Record
  <2> HIDE DEF f
  <2>3. Keeps(r, f)
    BY <2>1, <2>2 DEF Keeps, Past
  <2> QED BY <2>3
<1>2. CASE Abort(r)
  <2> DEFINE f == [req[r] EXCEPT !.pc = "aborted"]
  <2>1. /\ f.pc = "aborted" /\ f.tool = req[r].tool /\ f.args = req[r].args
        /\ f.stored = req[r].stored
    BY <1>0, SetPc
  <2>2. req' = [req EXCEPT ![r] = f]
    BY <1>0, <1>2 DEF Abort
  <2> HIDE DEF f
  <2>3. Keeps(r, f)
    BY <2>1, <2>2 DEF Keeps, Past
  <2> QED BY <2>3
<1> QED BY <1>1, <1>2

(* The step that stores: the entry is the value of r, stored now.          *)
LEMMA CacheSetKeeps ==
  ASSUME IInv, CacheInv, NEW r \in Requests, CacheSet(r)
  PROVE  CacheInv'
<1> DEFINE f == [req[r] EXCEPT !.stored = now]
           o == Succeeded(req[r].tool)
           g == [f EXCEPT !.pc = "record", !.outcome = o]
           k == KeyOf(r)
<1>0. /\ req \in [Requests -> Frames] /\ store \in [CacheKeys -> Cache!Entries(Requests)]
      /\ req[r] \in Frames /\ now \in Times
  BY Unpack, ClockTyped DEF IInv, LocalInv, StoreInv
<1>1. req[r].pc = "cache_set" /\ req[r].value = r
  BY DEF CacheSet, At, CacheInv
<1>2. k \in CacheKeys
  BY <1>1, LookupTyped DEF Running
<1>3. /\ f \in Frames /\ f.stored = now /\ f.tool = req[r].tool /\ f.args = req[r].args
  BY <1>0, SetStored
<1>4. req' = [req EXCEPT ![r] = g]
  BY DEF CacheSet, Reports
<1> HIDE DEF f, o
<1>5. g.pc = "record" /\ g.stored = now /\ g.tool = req[r].tool /\ g.args = req[r].args
  BY <1>3 DEF Frames
<1>6. store' = [store EXCEPT ![k] = [expires_at |-> now + Ttl[req[r].tool], value |-> r]]
  BY <1>1 DEF CacheSet, Cache!Set
<1> HIDE DEF g
<1>7. req'[r] = g /\ \A s \in Requests : s # r => req'[s] = req[s]
  BY <1>0, <1>4
<1>8. KeyOf(r)' = k
  BY <1>5, <1>7 DEF KeyOf
<1>9. ASSUME NEW s \in Requests, At(s, "cache_set")' PROVE req'[s].value = s
  BY <1>5, <1>7, <1>9 DEF CacheInv, At
<1>10. ASSUME NEW j \in CacheKeys, store'[j] # None PROVE Kept(store[j], j)'
  <2>1. CASE j = k
    <3>1. store'[j] = [expires_at |-> now + Ttl[req[r].tool], value |-> r]
      BY <1>0, <1>2, <1>6, <2>1
    <3>2. now # None
      BY <1>0, TimesAreNotNone
    <3>3. PICK i \in CacheKeys : i = k
      BY <1>2
    <3> QED BY <1>5, <1>7, <1>8, <2>1, <3>1, <3>2 DEF Kept, Past
  <2>2. CASE j # k
    <3>1. store'[j] = store[j] /\ store[j] # None /\ Kept(store[j], j)
      BY <1>0, <1>6, <1>10, <2>2 DEF CacheInv
    <3>2. PICK v \in Requests : v = store[j].value
      BY <1>0, <3>1 DEF Cache!Entries
    <3>3. v # r
      BY <1>1, <3>1, <3>2 DEF Kept, Past
    <3>4. req'[v] = req[v] /\ KeyOf(v)' = KeyOf(v)
      BY <1>7, <3>3 DEF KeyOf
    <3> QED BY <3>1, <3>2, <3>4 DEF Kept
  <2> QED BY <2>1, <2>2
<1> QED BY <1>9, <1>10 DEF CacheInv

LEMMA NextCache == IInv /\ CacheInv /\ [Next]_vars => CacheInv'
<1> SUFFICES ASSUME IInv, CacheInv, [Next]_vars PROVE CacheInv'
  OBVIOUS
<1>1. ASSUME NEW r \in Requests, NEW t \in Tools, NEW a \in Args, NEW key \in ApiKeys,
             Receive(r, t, a, key) \/ RejectTier(r, t, a, key) \/ FailUnranked(r, t, a, key)
      PROVE  CacheInv'
  <2>1. store' = store
    BY <1>1 DEF Receive, RejectTier, FailUnranked
  <2> QED BY <1>1, <2>1, ReceivedKeeps, KeepsCache
<1>2. ASSUME NEW r \in Requests,
             \/ CacheHit(r) \/ CacheMiss(r) \/ CheckRate(r) \/ HandlerReturns(r)
             \/ \E e \in HandlerErrors : HandlerRaises(r, e)
      PROVE  CacheInv'
  <2>1. store' = store \/ (req[r].pc \in Running /\ Cache!Get(KeyOf(r)))
    BY <1>2 DEF CacheHit, CacheMiss, CheckRate, HandlerReturns, HandlerRaises, At, Running
  <2> QED BY <1>2, <2>1, HandledKeeps, KeepsCache
<1>3. ASSUME NEW r \in Requests, CacheSet(r) PROVE CacheInv'
  BY <1>3, CacheSetKeeps
<1>4. ASSUME NEW r \in Requests, Record(r) \/ Abort(r) PROVE CacheInv'
  <2>1. store' = store
    BY <1>4 DEF Record, Abort
  <2> QED BY <1>4, <2>1, EndKeeps, KeepsCache
<1>5. CASE Tick \/ UNCHANGED vars
  <2>1. req' = req /\ store' = store
    BY <1>5 DEF Tick, vars
  <2> QED BY <2>1 DEF CacheInv, Kept, At, KeyOf
<1>6. Terminated => UNCHANGED vars
  BY DEF Terminated
<1> QED BY <1>1, <1>2, <1>3, <1>4, <1>5, <1>6 DEF Next, Step

(* A request that is about to look up the cache gets a value by a hit and  *)
(* in no other way.                                                        *)
LEMMA HitIsCacheHit ==
  ASSUME IInv, [Next]_vars, NEW r \in Requests, At(r, "cache_get"), req'[r].value # None
  PROVE  /\ CacheHit(r)
         /\ req'[r].value = Cache!Lookup(KeyOf(r))
<1>0. /\ req \in [Requests -> Frames] /\ req[r] \in Frames
      /\ req[r].pc = "cache_get" /\ req[r].value = None
      /\ "check_rate" \in PCs /\ "aborted" \in PCs
  <2>1. req \in [Requests -> Frames] /\ req[r] \in Frames /\ req[r].pc = "cache_get"
    BY Unpack DEF IInv, LocalInv, At
  <2>2. Stage(req[r], metrics[r], events[r])
    BY Unpack DEF IInv
  <2> QED BY <2>1, <2>2 DEF Stage, Running, PCs
<1>1. req'[r] # req[r]
  BY <1>0
<1>2. ~(Tick \/ UNCHANGED vars \/ Terminated)
  BY <1>1 DEF Tick, vars, Terminated
<1>3. ASSUME NEW s \in Requests, s # r,
             \/ \E f : req' = [req EXCEPT ![s] = f]
             \/ Record(s)
      PROVE  FALSE
  BY <1>0, <1>1, <1>3 DEF Record
<1>4. ASSUME NEW s \in Requests, NEW t \in Tools, NEW a \in Args, NEW key \in ApiKeys,
             Receive(s, t, a, key) \/ RejectTier(s, t, a, key) \/ FailUnranked(s, t, a, key)
      PROVE  FALSE
  <2>1. s # r
    BY <1>0, <1>4 DEF Receive, RejectTier, FailUnranked, At
  <2>2. \E f : req' = [req EXCEPT ![s] = f]
    BY <1>4 DEF Receive, RejectTier, FailUnranked, Continues, Reports
  <2> QED BY <1>3, <2>1, <2>2
<1>5. ASSUME NEW s \in Requests,
             \/ CheckRate(s) \/ HandlerReturns(s) \/ CacheSet(s) \/ Record(s)
             \/ \E e \in HandlerErrors : HandlerRaises(s, e)
      PROVE  FALSE
  <2>1. s # r
    BY <1>0, <1>5 DEF CheckRate, HandlerReturns, CacheSet, Record, HandlerRaises, At
  <2>2. (\E f : req' = [req EXCEPT ![s] = f]) \/ Record(s)
    BY <1>5 DEF CheckRate, HandlerReturns, CacheSet, HandlerRaises, Continues, Reports
  <2> QED BY <1>3, <2>1, <2>2
<1>6. ASSUME NEW s \in Requests, s # r, CacheHit(s) \/ CacheMiss(s) \/ Abort(s) PROVE FALSE
  <2>1. \E f : req' = [req EXCEPT ![s] = f]
    BY <1>6, Zenon DEF CacheHit, CacheMiss, Abort, Continues, Reports
  <2> QED BY <1>3, <1>6, <2>1
<1>7. ~CacheMiss(r)
  <2> SUFFICES ASSUME CacheMiss(r) PROVE FALSE
    OBVIOUS
  <2> DEFINE f == [req[r] EXCEPT !.pc = "check_rate"]
  <2>1. f.value = None
    BY <1>0, SetPc
  <2>2. req' = [req EXCEPT ![r] = f]
    BY DEF CacheMiss, Continues
  <2> QED BY <1>0, <2>1, <2>2
<1>8. ~Abort(r)
  <2> SUFFICES ASSUME Abort(r) PROVE FALSE
    OBVIOUS
  <2> DEFINE f == [req[r] EXCEPT !.pc = "aborted"]
  <2>1. f.value = None
    BY <1>0, SetPc
  <2>2. req' = [req EXCEPT ![r] = f]
    BY <1>0 DEF Abort
  <2> QED BY <1>0, <2>1, <2>2
<1>9. CacheHit(r)
  BY <1>2, <1>4, <1>5, <1>6, <1>7, <1>8 DEF Next, Step
<1>10. req'[r].value = Cache!Lookup(KeyOf(r))
  <2> DEFINE v == Cache!Lookup(KeyOf(r))
             f == [req[r] EXCEPT !.value = v]
             o == Outcome(0, TRUE, TRUE, None)
             g == [f EXCEPT !.pc = "record", !.outcome = o]
  <2>1. v \in Requests
    BY <1>0, <1>9, LookupTyped DEF CacheHit, Running
  <2>2. req' = [req EXCEPT ![r] = g]
    BY <1>9 DEF CacheHit, Reports
  <2> HIDE DEF v, o
  <2>3. f \in Frames /\ f.value = v
    BY <1>0, <2>1, SetValue
  <2> HIDE DEF f
  <2>4. g.value = v
    BY <2>3 DEF Frames
  <2> HIDE DEF g
  <2> QED BY <1>0, <2>2, <2>4 DEF v
<1> QED BY <1>9, <1>10

(* A hit returns what a handler returned for the same tool and arguments,  *)
(* stored less than the ttl ago.                                           *)
THEOREM HitsAreFreshAlways == Spec => HitsAreFresh
<1> DEFINE Fresh == \A r \in Requests :
                      At(r, "cache_get") /\ req'[r].value # None =>
                        LET source == req'[r].value
                        IN  /\ req[source].tool = req[r].tool
                            /\ req[source].args = req[r].args
                            /\ req[source].stored # None
                            /\ now - req[source].stored < Ttl[req[r].tool]
<1>1. IInv /\ CacheInv /\ [Next]_vars => Fresh
  <2> SUFFICES ASSUME IInv, CacheInv, [Next]_vars,
                      NEW r \in Requests, At(r, "cache_get"), req'[r].value # None
               PROVE  LET source == req'[r].value
                      IN  /\ req[source].tool = req[r].tool
                          /\ req[source].args = req[r].args
                          /\ req[source].stored # None
                          /\ now - req[source].stored < Ttl[req[r].tool]
    OBVIOUS
  <2> DEFINE k == KeyOf(r)
  <2>1. CacheHit(r) /\ req'[r].value = Cache!Lookup(k)
    BY HitIsCacheHit
  <2>2. k \in CacheKeys /\ req[r].tool \in Tools /\ Ttl[req[r].tool] \in Nat
    <3>1. req[r].pc = "cache_get" /\ Stage(req[r], metrics[r], events[r])
      BY Unpack DEF IInv, At
    <3> QED BY <3>1, LookupTyped, TtlAssumption DEF Stage, Running
  <2>3. store[k] \in Cache!Entries(Requests) /\ now \in Nat
    BY <2>2, ClockTyped, TimeAssumption DEF IInv, StoreInv, Times
  <2>4. store[k] # None /\ ~(now >= store[k].expires_at) /\ req'[r].value = store[k].value
    BY <2>1 DEF CacheHit, Cache!Lookup, Cache!Expired
  <2>5. PICK v \in Requests : v = store[k].value
    BY <2>3, <2>4 DEF Cache!Entries
  <2>6. /\ KeyOf(v) = k /\ req[v].stored # None
        /\ store[k].expires_at = req[v].stored + Ttl[req[v].tool]
    BY <2>2, <2>4, <2>5 DEF CacheInv, Kept
  <2>7. req[v].tool = req[r].tool /\ req[v].args = req[r].args
    BY <2>6 DEF KeyOf, build_cache_key
  <2>8. req[v].stored \in Nat
    <3>1. req[v] \in Frames
      BY Unpack DEF IInv
    <3> QED BY <2>6, <3>1, TimeAssumption DEF Frames, Times
  <2>9. now - req[v].stored < Ttl[req[r].tool]
    BY <2>2, <2>3, <2>4, <2>6, <2>7, <2>8
  <2> QED BY <2>4, <2>5, <2>6, <2>7, <2>9
<1>2. Spec => [](IInv /\ CacheInv)
  <2>1. IInv /\ CacheInv /\ [Next]_vars => (IInv /\ CacheInv)'
    BY NextIInv, NextCache
  <2> QED BY <2>1, InitIInv, InitCache, PTL DEF Spec
<1> QED BY <1>1, <1>2, PTL DEF Spec, HitsAreFresh
=============================================================================
