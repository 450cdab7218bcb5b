---------------------------- MODULE MCResilience ----------------------------
EXTENDS Resilience

CONSTANTS c1, c2, openMeteo, openWeatherMap

TwoCalls     == {c1, c2}
TwoUpstreams == {openMeteo, openWeatherMap}

\* The defaults, and a call that overrides both: a single attempt, cut off
\* sooner.
TwoBudgets == {[retries |-> Retries, timeout |-> AttemptTimeout],
               [retries |-> 0, timeout |-> 1]}

OrdinaryCall == {"call"}
=============================================================================
