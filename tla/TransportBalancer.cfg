\* Violation: the socket closes before the next readiness probe.
SPECIFICATION Spec
CONSTANTS
  q1 = q1 q2 = q2
  Requests <- TwoRequests
  Streams <- OneStream
  MetricsEnabled = TRUE
INVARIANTS BalancerToldFirst
