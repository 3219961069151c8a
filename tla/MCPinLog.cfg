CONSTANTS
  Words = 3
  Slots = 4
  PIN_MAX_TRIES = 3
  Pins = {Empty, p1, p2}
  PIN_EMPTY = Empty
  WIPE_CODE_EMPTY = NoCode
  Torn = Torn
  MaxLosses = 2
SPECIFICATION Spec
SYMMETRY Symmetry
INVARIANTS NoUndercount PinIsNotWipeCode FlagAgrees
PROPERTIES NoEarlyWipe FaultsOnlyAfterPowerLoss
