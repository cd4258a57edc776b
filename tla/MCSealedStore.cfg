SPECIFICATION Spec
CONSTANTS
  p1 = p1
  p2 = p2
  Procs <- MCProcs
  Values = {101}
  MaxFresh = 3
SYMMETRY MCSymmetry
INVARIANTS
  AckedReadable
  HeldIsStored
PROPERTIES
  ProviderSticky
CHECK_DEADLOCK FALSE
