SPECIFICATION SetSpec
CONSTANTS
  k1 = k1
  k2 = k2
  k3 = k3
  Keys = {k1, k2, k3}
  Bits <- MCBits
  Values <- SmallValues
  Size = 8
  Legacy <- MCLegacy
  MaxLosses = 2
SYMMETRY Symmetry
INVARIANTS
  NoFault
  SectorsAgree
  OneItemPerKey
  StaleVersionHarmless
PROPERTIES
  OneKeyAtATime
  NothingInvented
  DownwardCompactionAtomic
