SPECIFICATION UseSpec
CONSTANTS
  k1 = k1
  k2 = k2
  k3 = k3
  k4 = k4
  v1 = v1
  v2 = v2
  Keys <- MCKeys
  Values <- MCValues
  MaxSize = 3
  MaxIndex = 8
SYMMETRY Symmetry
INVARIANTS
  SizeBound
  Recency
CHECK_DEADLOCK FALSE
