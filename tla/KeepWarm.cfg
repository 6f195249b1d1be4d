SPECIFICATION Spec
CONSTANTS
  CloudHeartbeat = 12
  LocalWatch = 3
  Timeout = 4
  Idle = 18
  Lag = 1
INVARIANTS NeverIdlesOut DeathNoticed
