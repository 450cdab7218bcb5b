SPECIFICATION Spec
CONSTANTS
  anonymous = anonymous premium = premium blocked = blocked
  Keys <- ThreeKeys
  Limit <- Limits
  Window = 3
  MaxTime = 7
INVARIANTS TypeOK RollingWindow RetryAfterHonest WindowBounded
PROPERTIES ImplementsWindow
