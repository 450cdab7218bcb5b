\* Three concurrent calls that may be cut off at every await, by an anonymous
\* and a paying caller, one whose limit is 0 and one whose tier is misspelt.
SPECIFICATION Spec
CONSTANTS
  r1 = r1 r2 = r2 r3 = r3
  onecall = onecall plain = plain good = good bad = bad
  noKey = noKey paid = paid
  blocked = blocked misspelt = misspelt
  None = None
  NoKey = noKey
  Valid <- OneArg
  Requests <- ThreeRequests
  Tools <- TwoTools
  MinTier <- MCMinTier
  Ttl <- MCTtl
  Cost <- MCCost
  Args <- TwoArgs
  ApiKeys <- FourKeys
  Records <- KeyFile
  AnonLimit = 1
  Window = 2
  MaxTime = 3
  HandlerErrors <- OneError
  AbortPoints <- AllAwaits
SYMMETRY Symmetry
INVARIANTS TypeOK ReportedOnce BilledForUpstreamWork TierGate QuotaAccounted UpstreamRateLimited
PROPERTIES HitsAreFresh
