SPECIFICATION Spec
CONSTANTS
  NONE = NONE
  a1 = a1
  a2 = a2
  a3 = a3
  a4 = a4
  k1 = k1
  Requests <- MCRequests
  Keys <- MCKeys
  KeyOf <- MCKeyOf
SYMMETRY MCSymmetry
INVARIANTS
  LostUpdatesAreNoticed
  SecondRowsAreNoticed
CHECK_DEADLOCK FALSE
