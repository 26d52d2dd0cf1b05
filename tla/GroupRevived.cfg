SPECIFICATION Spec
CONSTANTS
  m = m
  a = a
  b = b
  r1 = r1
  r2 = r2
  r3 = r3
  NoUser = NoUser
  Users <- MCUsers
  Slots <- MCTwoSlots
  Ops <- EveryKind
  Exclusive <- NoKind
  Patient = FALSE
  MaxRequests = 4
  MaxRows = 3
SYMMETRY Symmetry
PROPERTY
  DisbandedForGood
