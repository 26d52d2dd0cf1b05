SPECIFICATION Spec
CONSTANTS
  m = m
  a = a
  b = b
  r1 = r1
  r2 = r2
  r3 = r3
  NoUser = NoUser
  Users <- MCUsers
  Slots <- MCTwoSlots
  Ops <- EveryKind
  Exclusive <- Writers
  Patient = FALSE
  MaxRequests = 5
  MaxRows = 3
SYMMETRY Symmetry
INVARIANTS
  OnlyMembersHaveConversations
  OneConversationPerUser
PROPERTIES
  MembershipPromise
  OnlyRemovedMembersVanish
  DisbandedForGood
