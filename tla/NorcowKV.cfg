SPECIFICATION Spec
CONSTANTS
  k1 = k1
  k2 = k2
  k3 = k3
  Keys = {k1, k2, k3}
  Bits <- MCBits
  Values <- MCValues
  Size = 8
  Legacy <- MCLegacy
  MaxLosses = 0
SYMMETRY Symmetry
INVARIANTS
  SetSucceedsIfItFits
PROPERTIES
  ImplementsKVStore
