SPECIFICATION Spec
CONSTANTS
  e1 = e1
  e2 = e2
  a1 = a1
  a2 = a2
  r1 = r1
  r2 = r2
  r3 = r3
  Emails <- MCEmails
  Accounts <- MCAccounts
  Slots <- MCSlots
  PendingTTL = 2
  OtpTTL = 1
  MaxRequests = 4
SYMMETRY Symmetry
INVARIANTS
  TypeOK
  ConfirmedAsRegistered
  CodesAreGood
PROPERTIES
  OnlyAccountsEndRegistrations
  NoneIsProlonged
