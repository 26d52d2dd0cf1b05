SPECIFICATION Spec
CONSTANTS
  a = a
  b = b
  r1 = r1
  r2 = r2
  r3 = r3
  Users <- MCUsers
  Slots <- MCSlots
  MaxRequests = 5
  MaxRows = 2
SYMMETRY Symmetry
INVARIANTS
  TypeOK
  UnreadIsBacked
  UnreadIsExact
  HistoryStaysHidden
  OneChatPerPair
