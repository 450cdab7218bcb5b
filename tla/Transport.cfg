\* Both servers start, either port may be taken, signals at any time, a call
\* that ends and a stream that its client may keep open.
SPECIFICATION FairSpec
CONSTANTS
  q1 = q1 q2 = q2
  Requests <- TwoRequests
  Streams <- OneStream
  MetricsEnabled = TRUE
INVARIANTS TypeOK InFlightFinish
PROPERTIES OutOfRotationForGood DrainEnds
