\* Two upstreams, calls that may outlive the cooldown, cancellation of calls
\* that are not the probe.
SPECIFICATION FairSpec
CONSTANTS
  c1 = c1 c2 = c2
  openMeteo = openMeteo openWeatherMap = openWeatherMap
  None = None
  Calls <- TwoCalls
  Upstreams <- TwoUpstreams
  Threshold = 2
  Cooldown = 2
  Budgets <- TwoBudgets
  Retries = 1
  AttemptTimeout = 2
  MaxBackoff = 1
  Cancellable <- OrdinaryCall
INVARIANTS TypeOK
PROPERTIES ImplementsBreakers ImplementsRecovery
