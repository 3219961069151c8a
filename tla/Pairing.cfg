CONSTANTS
  MaxCodes = 3
  MaxQueue = 3
SPECIFICATION Spec
INVARIANTS AbortedNotShown NotStranded
