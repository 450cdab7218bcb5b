----------------------------- MODULE MCPlatform -----------------------------
EXTENDS Platform

CONSTANTS r1, r2, good, noKey, paid

TwoRequests == {r1, r2}

\* Two tools of one upstream, and the premium tool, which has one of its own.
ThreeTools == {"get_current_weather", "get_forecast", "get_weather_premium"}
MCUpstreams == {Weather!Definition[t].upstream : t \in ThreeTools}
MCMinTier == [t \in Tools |-> Weather!Definition[t].min_tier]
MCTtl     == [t \in Tools |-> Weather!Definition[t].ttl]
MCCost    == [t \in Tools |-> Weather!Definition[t].cost_units]

OneArg  == {good}
TwoKeys == {noKey, paid}
KeyFile == [k \in {paid} |-> [tier |-> "premium", limit |-> 2]]

\* One error of an upstream that is retried and one that is not.
MCErrors == {"TransportError", "status_4xx", "MissingApiKeyError", "CircuitOpenError"}

AllAwaits == Awaits
=============================================================================
