\* Two concurrent calls of the weather tools, cut off at any await, on a server
\* without OPENWEATHERMAP_API_KEY.
SPECIFICATION PlatformSpec
CONSTANTS
  r1 = r1 r2 = r2 good = good noKey = noKey paid = paid
  None = None
  NoKey = noKey
  Valid <- OneArg
  Requests <- TwoRequests
  Tools <- ThreeTools
  MinTier <- MCMinTier
  Ttl <- MCTtl
  Cost <- MCCost
  Args <- OneArg
  ApiKeys <- TwoKeys
  Records <- KeyFile
  AnonLimit = 1
  Window = 2
  MaxTime = 3
  AbortPoints <- AllAwaits
  HandlerErrors <- MCErrors
  Upstreams <- MCUpstreams
  Threshold = 1
  Cooldown = 1
  Retries = 1
  AttemptTimeout = 1
  MaxBackoff = 1
  FiveMin = 2
  OneHour = 3
  Day = 4
  OwmKey = FALSE
INVARIANTS PlatformTypeOK RefusedForCause RetriesMeasured BilledWithoutUpstream
PROPERTIES EveryCallEnds
