\* Violation: a key file with rateLimitPerMinute 0.
SPECIFICATION Spec
CONSTANTS
  r1 = r1 r2 = r2 r3 = r3
  onecall = onecall plain = plain good = good bad = bad
  noKey = noKey paid = paid
  blocked = blocked misspelt = misspelt
  None = None
  NoKey = noKey
  Valid <- OneArg
  Requests <- TwoRequests
  Tools <- TwoTools
  MinTier <- MCMinTier
  Ttl <- MCTtl
  Cost <- MCCost
  Args <- TwoArgs
  ApiKeys <- TwoKeys
  Records <- PaidZero
  AnonLimit = 1
  Window = 2
  MaxTime = 2
  HandlerErrors <- OneError
  AbortPoints <- NoAborts
INVARIANTS ErrorsAreReported
