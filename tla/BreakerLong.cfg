\* Calls may outlive the cooldown (long per-call timeouts, short cooldown).
\* Clients may give up, but not while their call is the probe.
SPECIFICATION FairSpec
CONSTANTS
  c1 = c1 c2 = c2 c3 = c3
  None = None
  Calls <- ThreeCalls
  Threshold = 2
  Cooldown = 2
  MaxCall = 5
  Cancellable <- OrdinaryCall
INVARIANTS ProbesSpaced HalfOpenHasProbe
PROPERTIES RecoveryCloses
