CONSTANTS
  Pins = {p1, p2, p3}
  NoPin = NoPin
  RETRY_MAX = 3
  MaxLosses = 3
SPECIFICATION SePinSpec
INVARIANTS ChipsAgree SeedHasPin
PROPERTIES ChangeSynchronises
