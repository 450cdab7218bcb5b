\* Calls are shorter than the cooldown (the shipped defaults: at most 12 s of
\* attempts and a little backoff against a cooldown of 30 s).
SPECIFICATION HSpec
CONSTANTS
  c1 = c1 c2 = c2 c3 = c3
  None = None
  Calls <- ThreeCalls
  Threshold = 3
  Cooldown = 3
  MaxCall = 2
  Cancellable <- AnyCall
SYMMETRY CallSymmetry
INVARIANTS TypeOK BreakerConsistent SingleProbe CountsConsecutive
PROPERTIES ProbeDecides OpensOnStreak
