# mcp-platform-py: specification

TLA+ models of the MCP platform (`packages/core`) and of the process that runs
it (`packages/weather_mcp`): what each part keeps, what its operations do to
it, how concurrent calls interleave, and what must hold whatever the
interleaving. The definitions follow the Python source; `PROJECT.json` maps each
of them to its lines, and lists runs, mutants, hazards, findings and theorems.

## The system

One asyncio process serves MCP tools. A tool call passes these parts:

    client -> transport -> server adapter -> tool executor (middleware chain)
                                               |-> key store       (read-only)
                                               |-> response cache  (shared, ttl)
                                               |-> rate limiter    (per key)
                                               |-> handler -> resilient caller
                                               |               |-> circuit breaker (per upstream)
                                               |               `-> upstream API
                                               |-> metrics
                                               `-> usage sink

Everything runs on one event loop: code between two `await`s is atomic, every
`await` lets other calls run, and any `await` may end in `CancelledError`.

| Component | State | Operations | What is hard about it | What makes it correct |
|---|---|---|---|---|
| `CircuitBreaker` (resilience.py) | state, gauge, consecutive failures, `opened_at`, probe flag | `before_call`, `on_success`, `on_failure` | outcomes of calls admitted under an earlier state; the probe's end; cancellation | fields agree; one probe; the probe decides; opens on a streak only; closes again after recovery |
| `ResilientCaller` | breakers by upstream; one frame per call (attempt, backoff) | `call`, `_run_with_retries`, `_attempt` | calls suspended in attempts and sleeps; breakers shared by all tools | behaves as one breaker per upstream seeing logical calls only |
| `InMemoryRateLimiter` (middleware.py) | a deque of timestamps per key | `check_and_increment` | lazy pruning; boundary of the window; odd limits | is a rolling window; `retry_after_s` is honest |
| `InMemoryResponseCache` | key -> (expires_at, value) | `get`, `set` | expiry when read; shared by all callers | hits are fresh and match tool and arguments |
| Tool executor | one frame per request | `execute` | several ways out, awaits between check and use, failing dependencies | each call reported once; billed for upstream work; tiers and limits respected; every call ends |
| Key store, key file | records, read-only | `resolve`, `load_key_store` | unvalidated limits and tiers | (inputs of the chain) |
| `ToolRegistry`, server adapter | ordered dict of tools; executor snapshot | `register`, `register_all`, `tools/list`, `tools/call` | partial failure; snapshot and live list | names unique; catalog only grows; a call runs what is listed |
| HTTP transport, `main` | readiness, two uvicorn servers, open requests | start, signal, drain, exit | signal at any moment; two servers; load balancer | requests finish; drained process exits; out of rotation for good |
| Weather client and tools (weather_mcp) | none; ttl, tier, cost and upstream of each tool | handlers, `WeatherLib` methods | the missing API key; two tools on one upstream | circuits open for a cause of their own upstream; bills match requests |
| Metrics | counters by label | `record_*` | raised at some awaits and not at others | agree with what the caller got and what was sent |
| Redaction, logger | none | `redact`, `scrub_text`, the processor list | depth, length and width bounds, redacting twice, order of scrub and cut | no secret value in a line, values bounded, harmless values shown |
| stdio transport, configuration | none | | | not modelled, see below |

## Modules

`Breaker` is the class `CircuitBreaker` as a record and pure functions on it.
Everything that contains a breaker uses it.

- **CircuitBreaker** - one breaker and the calls that go through it, each from
  admission (`Admit`: `before_call` returns) to its end (`Succeed`, `Fail`,
  `Cancel`). `phase[c]` remembers how `c` was admitted, `age[c]` how long ago;
  the code keeps neither, no guard but the deadline of `Tick` reads them.
- **CircuitHistory** - adds a history of outcomes, so that "consecutive" can be
  said without the counter.
- **Resilience** - opens the retry loop up: `Enter`/`Refuse` (`before_call`),
  `Retry` (`before_sleep` and the sleep), `EndBackoff`, `Raise` (`reraise`, then
  `on_failure`), `Succeed`, `Cancel`, `Tick`. `Budgets` are the pairs of retries
  and timeout that calls may have, the defaults and the overrides that `call`
  takes; the frame keeps its own. The weather tools pass no override, so
  Platform has one budget. `CB(u)` instantiates
  CircuitBreaker for each upstream; `ImplementsBreakers` is the refinement.
- **SlidingWindow** - the abstract promise of the limiter: a call is allowed
  exactly when fewer than `Limit` were allowed in the last `Window` ticks.
- **RateLimiter** - `InMemoryRateLimiter`, with `admitted` as history;
  `ImplementsWindow` is the refinement of SlidingWindow.
- **ResponseCache** - `get` and `set` over the store.
- **Middleware** - `execute`, one action from each await to the next, composed
  of RateLimiter and ResponseCache by INSTANCE. The frame `req[r]` holds the
  locals of one call and the time its handler began and its value was stored;
  `metrics[r]` is what the call added to the status and cache counters.
- **ToolServer** - registry and server adapter.
- **Transport** - `run_http` inside `main`; uvicorn is external and modelled by
  what `run_http` relies on (`should_exit`, drain of open requests, bind errors).
  `Streams` are the requests that stay open until their client leaves: the
  channels from server to client of MCP sessions.
- **WeatherTools** - what `main` registers: the four definitions, the upstream
  each handler calls, and what the `WeatherLib` call inside it can raise.
- **Platform** - the process as `main` wires it: Middleware and Resilience on one
  clock, with the counter of retries and the requests sent. Where nothing
  suspends between a step of the chain and one of the caller, they are one step:
  `Starts` (the limiter allows, the breaker admits, the first request leaves),
  `Refused` (the breaker does not), `Succeeds`, `Raises`, `Abandons` (a
  cancellation reaches both).
- **Redaction** - `redact` and `scrub_text` on strings, dicts, lists and atoms.
  A credential is two pieces that only match together, so that a cut can fall
  between them. The key of a dict is a string like any other, of any length, and
  is copied as it is: what the properties say of values (`Clean`, `Fits`) they do
  not say of keys.
- **Logger** - a field of a log call through call site, level filter,
  `_redact_secrets` and `format_exc_info`.
- **MC*** - constants for TLC. ***Proofs** - theorems.

What the models abstract from: names, payloads and log lines; `opened_at` is
kept as the time since it, cut off at the cooldown, and the failure counter is
cut off at the threshold, because the code compares them with nothing larger;
a missing deque counts as an empty one; counters are kept per call, without the
labels that a call never changes, and the duration histogram is left out; the
key file has no entry named "anonymous" (`KeyAssumption`: the limiter keys
callers without a credential by that name, and such an entry would share its
window with them under two limits); a handler's value is named by the request whose handler produced it, and is never None
(the code treats a cached None as a miss); the limiter's and the cache's locks
never contain an await, so their methods are atomic.

## Runs

| Run | Question | Bounds | Result |
|---|---|---|---|
| BreakerShort | Is there one probe, does it alone decide, is the counter the streak, do the fields agree? | 3 calls, threshold 3, cooldown 3, calls up to 2 ticks, any call may be cancelled | holds |
| BreakerLong | What is left of it when calls outlive the cooldown, and does the circuit recover? | 3 calls up to 5 ticks, threshold 2, cooldown 2, ordinary calls may be cancelled, fairness | probes at least a cooldown apart; recovers |
| BreakerCancelled | Does it recover when the probe can be cancelled? | 3 calls, fairness | violated: HALF_OPEN for ever |
| Resilience | Does the retry loop implement the breakers, and their recovery? | 2 calls, 2 upstreams, 2 budgets (1 retry and 2 ticks per attempt; no retry and 1 tick), calls up to 5 ticks, cooldown 2, fairness | holds |
| RateLimiter | Is it the rolling window? | limits 0, 1, 3, window 3, 7 ticks (two windows) | holds |
| Middleware | All promises of the chain | 3 requests, 2 tools, 2 arguments, 4 callers (limit 0 and an unknown tier among them), window 2, ttl 1, 3 ticks, aborts at every await | holds |
| MiddlewareZero | Is every error reported? | limit 0 | violated by IndexError |
| Platform | Do chain, breakers, retries, bills and counters agree, and does every call end? | 2 requests, 3 tools on 2 upstreams, threshold 1, 1 retry, window 2, 3 ticks, no OpenWeatherMap key, aborts at every await, fairness | holds |
| Transport | Do requests finish, is rotation left for good, and does a drained process exit when no client keeps a stream open for ever? | a request and a stream, both servers, signals and bind errors at any moment, fairness | holds |
| TransportBalancer | Is the load balancer told before it is refused by a drain? | as above | violated: signal, socket closed, request refused |
| ToolServer | Does a call run what is listed? | 3 names, 2 definitions each, batches up to 3 | holds |
| Redaction | Is no secret value logged, are values bounded, is the harmless shown? | depth 3 of at most `MaxNesting` 5 levels, 2 pieces, 2 items; some 20 000 values under 5 names, redacted once or twice | holds |

Why the bounds are enough. The breaker distinguishes the probe, a call admitted
before the circuit opened, and a call that arrives meanwhile: three calls. A
threshold of two separates "a failure" from "the last failure", three shows
streaks interrupted by a success. What the results depend on is which of a
call and a cooldown is longer, so each has its run. To see the difference, give
BreakerShort a `MaxCall` above its `Cooldown`: `SingleProbe` and `ProbeDecides`
fail, because `on_failure` takes any failure in HALF_OPEN for the probe's.
The limiter's history must span two windows for entries to be pruned and
admitted again. In the chain two requests race and a third has left something
in the cache or the window; a limit of two with three requests reaches it. In
Platform the interesting meeting is of one call with the failure, the retry or
the cancellation of one other, on its own upstream or on another: two requests,
two upstreams, one of which two tools share, and a threshold of one. Its cache
and its window are those of the Middleware run. The redacted values go one item,
piece and level over each bound, which is where cuts happen, and a second pass
starts one level deeper. The
transport takes one decision per request, and two requests can be open at once
or one open and one refused. The two budgets of Resilience differ in both
respects, so that a call with an override meets one with the defaults on one
breaker. Timeouts there are at least one tick: with a timeout of zero no time
need pass during a call, and a clock that never advances recovers nothing, which
is a property of the ticks and not of the code.

Cancellation is the environment's choice (`Cancellable` in the breaker modules,
`AbortPoints` in Middleware), so that a run can say which promises survive it.

Symmetry is used for calls, requests and names in runs without liveness
properties only.

## Fairness

- Breaker, resilience: `asyncio.wait_for` ends every attempt and
  `asyncio.sleep` every backoff, so each call eventually reports; the clock
  advances; and upstreams keep being called, without which an open circuit has
  no reason to close. For Resilience that last assumption is strong fairness,
  because admission of one upstream is enabled only while a coroutine is free.
- Platform: a received call proceeds (`WF(Proceeds(r))`): the cache, the limiter
  and the sink answer, `wait_for` ends every attempt and `asyncio.sleep` every
  backoff. No request is assumed to arrive and no clock to tick. `EveryCallEnds`
  is not checked of Middleware alone, where a handler's end would have to be
  assumed.
- Transport: uvicorn's loops run, and requests that are answered end
  (`WF(Finish(r))`), because the timeouts and the retry limit end their upstream
  calls. A stream ends when its client leaves, and nothing in the code makes it:
  no fairness is assumed for `Streams`. `DrainEnds` has the proviso that from some
  moment on no stream is open: without it a client that stays keeps the process
  up. No signal is assumed.

## Theorems

The ***Proofs** modules prove, for every value of the constants that the named
assumptions allow, what the runs check on instances. `ResilienceProofs` takes the
lemmas about the breaker's methods from `CircuitBreakerProofs` by INSTANCE.

**Circuit breaker.** Agreement of the fields is inductive together with the
types, but the probe properties are not. Two probes are a cooldown apart
because a probe is admitted only when the circuit has been open for a cooldown,
and no call is admitted while it is open. The invariant `IInv` says this with
time: `CallsOlderThanOpening` (in OPEN, every call in flight is at least as old
as the opening) and `HalfOpenCooledDown` (in HALF_OPEN, `opened_at` is a
cooldown ago). From it follow `ProbesAreSpaced` without any assumption on
durations, and `OneProbe` under `MaxCall < Cooldown`, which the shipped defaults
satisfy. `OnlyProbeDecides` needs in addition that, under the same assumption,
no ordinary call is left in flight in HALF_OPEN (`ProbeRunsAlone`);
`ProbeUnderWay` that the probe is not cancelled, and nothing about durations.

The streak needs the history. Its steps are those of the breaker with something
written beside them, so what is proved of the breaker is used there
(`HistoryUsesSpec`). `TrailingFailures` is a
CHOOSE; `StreakIsTrailing` says that what it chooses is the only number of failures
that end the history (`Streak`), and `RememberStreak` how one more outcome changes
that number, also where the oldest outcome is forgotten. `CounterIsStreak` and
`OpensExactlyOnStreak` then follow from `HistoryInv` by cases on the two methods.

**Rate limiter.** The code forgets what it prunes, so `RollingWindow`, a
statement about the whole history, is not inductive. The strengthening says
that the deque is the tail of the history, that everything before it has
expired, that timestamps are ordered and not in the future, and that the deque
respects the limit. That the pruning loop ends at an index with the required
property is a least-number argument; induction rules over operators are not
available to the provers, so `LeastNumber` derives it from well-foundedness
of the naturals.

**Transport.** Neither safety property is inductive. `drain` is the only place
that tells a server to exit, and it gives readiness up in the same step
(`ToldToExit`), so that no later answer of `/readyz` takes the instance back
(`RotationIsLeftForGood`); that the balancer asks in time is another matter, see
the findings. Requests are open only at a main server that serves
or closes (`OpenAreServed`), and `gather` returns only once that server has
stopped or failed (`MainFollowsProcess`). The conjunction with the types is
inductive for any set of requests, with and without a metrics server.

**Refinements.** `LimiterImplementsWindow` maps the pruned deque to the history
it forgets. The step needs that the live part of the history, counted from its
end, is as long as the pruned deque, which follows from the order of the
timestamps. `CallsImplementBreakers` maps the frames of the retry loop to the
phases and ages of CircuitBreaker, separately for each upstream: a step of a call
is a step of the breaker of its own upstream and a stutter of all others, and
what happens between two attempts is a stutter of all, whatever the budgets of
the calls. That no call outlasts
`MaxCall`, which the clock of CircuitBreaker requires, is the invariant `Pace`:
how much of its time a call may have used at each point of the loop. It assumes
only that None is not a breaker record (`ObjectAssumption`).

**Chain.** The invariant of `MiddlewareProofs` says for each request which of its
fields are set at each await (`Stage`): what it has counted, whether its handler
has begun, what its outcome says, and where a call can have left the chain
without a report (an unranked tier; a limit of zero or less, by `CrashesAtZero`)
or been cut off with its event sent (in the sink). The limiter's part of the invariant comes from
`RateLimiterProofs` by INSTANCE. A second part adds `Slots`, a correspondence
between the admissions of a key and the calls that passed the limiter: a bijection
gives `QuotaIsAccounted`, and together with `WindowIsRolling` it gives
`UpstreamIsRateLimited`, since handlers that start within a window are
admissions within a window. It adds too that every cache entry was
stored by a request with the entry's tool and arguments at the time the entry's
expiry says. The assumptions: integer limits, a positive window, ttls that are
numbers or None, `KeyAssumption`, and that None differs from the values it
stands beside.

**Registry.** `register_all` is a fold over the batch. A library rule for induction
takes an operator, which the provers cannot instantiate, so the fold is reasoned
about in two steps: `SetInduction`, an induction on sets of numbers, follows from
the well-foundedness of the naturals, and `RegisterLoop` uses it to unfold the fold
into a run, a function from 0 to the length of the batch that gives the
registration under way after each element. `RegisterAll` follows that run up to the
first duplicate and beyond: what is kept is the prefix before it. `TypeCorrect`,
`NamesStayUnique`, `CallsRunWhatIsListed`, `CatalogOnlyGrows` and
`BatchStopsAtDuplicate` are read off it, for batches of any length.

**Redaction.** Values are of any shape and of any number of levels up to
`MaxNesting`, which is at least `MaxDepth`; `Made` builds them level by level, and
`Clean` and `Fits` say of a value that it is made of clean texts, or of short ones.
`redact` is a function of the depth, defined from `MaxDepth` upwards. `MadeDef`,
`RedactDef` and `ShownDef` show that these recursive definitions mean what they
say, `ScrubLoop` that the fold over a text's pieces is a loop; from there the
induction follows `redact` down into a value. `RedactMade` says once what a
redaction makes of values whose texts are of one kind: with clean texts it gives
`NoSecretValueLogged`, with short ones `ValuesAreBounded`. Keys are copied, so
neither theorem says anything of them. `RedactKeeps` says that what
is clean and fits stays as it is; `ShownOnce` and `ShownTwice` give `HarmlessIsShown`.
For the second pass of a call site that redacts itself, `CleanIsWhole` is needed:
what the first pass leaves is input the second may be given. The assumptions:
payloads hold credentials whole, never half of one; the message that stands for
dropped keys has no secret's name; the bounds are positive.

**Platform.** `PlatformProofs` puts the parts together. Every step of the platform
but `Refused` is a step of Middleware or leaves it alone, and every step is a step
of Resilience or leaves it alone, so the invariants of both carry over
(`ChainInv`, and `IInv` of `ResilienceProofs` by INSTANCE). `Refused` takes a
request through the limiter's answer and the handler's exception at once and is
proved apart. That gives `ChainHoldsOnPlatform`. What relates the two parts needs
an invariant of its own: `Layer` says for each request how its frame in the
chain, its frame in the caller, the retries it has counted and the requests it
has sent fit together, and carries `PlatformTypeCorrect`, `RetriesAreMeasured` and
`BilledWithoutUpstreamOnly`. For `CallsRefusedForCause`, `Blamed` bounds what a
breaker holds against its upstream by the number of calls that were admitted
there and have failed, each with a request sent or for want of the API key (to
the breaker a missing key is a failure like any other): that number never falls, while a success or a new breaker only lowers
the count, and cancelled calls and other upstreams do not touch it. The
assumptions: the tools have the tiers, ttls, costs and upstreams that `main`
registers (`WiringAssumption`), and the caller's settings are numbers.

Only model-checked: the liveness properties `RecoveryCloses`,
`ImplementsRecovery`, `EveryCallEnds` and `DrainEnds`, which need fairness and
ENABLED, and the provers do not reason about those. All invariants and
action properties of the runs are proved.

## Findings

The violated runs, each with the code and the sentence it contradicts, are
listed in `PROJECT.json` under `findings`: a cancelled probe blocks its upstream
for good; a zero limit turns a refusal into an unreported IndexError (an unknown
tier in the key file ends in a KeyError in the same way); the listening socket is
closed before a load balancer can see the 503.

Lesser remarks, which the models show and the hazards list:

- A success of a call admitted before the circuit opened closes it before the
  cooldown is over; a call that outlives the cooldown can bring about a second
  probe; errors that are not retried count as exhausted retries.
- Calls refused by an open circuit use up quota and are billed in full.
- Calls with the same key that miss together are each billed in full; the docstring
  at middleware.py:68-69 ("billing still happens per request regardless of hit")
  reads as if hits were billed too, which they are not.
- The keys of logged dicts are copied with `str(key)`, neither scrubbed nor cut
  (redaction.py:129-130), although the docstring of the module says that
  token-shaped substrings are scrubbed from every string.
- A stream of `/mcp` that its client keeps open keeps a drained process from
  exiting: uvicorn is given no deadline for its open requests, and a second signal
  does nothing. DESIGN.md:324-325 ("let in-flight requests finish, then exit")
  holds with the proviso of `DrainEnds`.
- A sink that suspends may have delivered its event when the call is cut off
  there: an aborted call is then in the usage record.
- Without an OpenWeatherMap key the premium tool fails with a clear message until
  its breaker opens, and with CircuitOpenError from then on.
- A value that the call site has already redacted is one item over the bounds
  where it was cut, and the processor cuts it again: the line then says how
  many items the second pass dropped, not how many there were (the model keeps
  the message and leaves the number out).
- The traceback of `exc_info` is rendered after the redaction, so it is not
  redacted; only debug lines carry one.

## Not modelled

- stdio transport (`run_stdio` binds one credential and hands the streams to the
  SDK) and configuration (environment variables read once: the constants).
- Which credential `current_api_key` holds while a tool runs: depends on the
  context in which the MCP SDK runs a session's handlers, which is not in the
  repository.
- `WeatherLib`'s reshaping of JSON bodies, `aclose` and the context manager;
  which strings the redaction patterns match; `fingerprint`; metric labels and
  the text of `/metrics`; the OpenTelemetry and null backends.
- Growth of `_windows` and `_store`: their key sets are constants.

## Plan

1. Done: Breaker, CircuitBreaker, CircuitHistory, Resilience; SlidingWindow,
   RateLimiter, ResponseCache, Middleware; ToolServer, Transport; WeatherTools,
   Platform; Redaction, Logger. Proofs of every safety property of every module,
   and of both refinements.
2. Left: the sessions of the HTTP transport, once the SDK's task contexts are
   known.
