CONSTANTS
  Slots = {s1, s2}
  OtpTTL = 2
  MaxRequests = 5
SYMMETRY SlotSymmetry
SPECIFICATION Spec
INVARIANTS
  TypeOK
  AvatarIsThere
  NothingLeftOver
  SpentCodesAreGone
PROPERTY
  OnlyUsedCodesGo
