CONSTANTS
  None = None
  MaxActivity = 6
  Autolock = 3
  ShortLock = 2
  LowDelay = 1
  Autoshutdown = 2
  MaxTimeout = 4
  MAX_FP_ATTEMPTS = 2
SPECIFICATION Spec
INVARIANTS RunningOnlyUnlocked OnlyCurrentScheduled
PROPERTIES LockedAfterQuiet QuietLocks
