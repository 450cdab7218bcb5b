\* Violation: the probe is cancelled by its client.
SPECIFICATION FairSpec
CONSTANTS
  c1 = c1 c2 = c2 c3 = c3
  None = None
  Calls <- ThreeCalls
  Threshold = 1
  Cooldown = 2
  MaxCall = 1
  Cancellable <- AnyCall
PROPERTIES RecoveryCloses
