SPECIFICATION Spec
CONSTANTS
  a = a
  b = b
  r1 = r1
  Users <- MCUsers
  Slots <- MCSlots
  MaxRequests = 4
SYMMETRY Symmetry
INVARIANTS
  OneRelationPerPair
