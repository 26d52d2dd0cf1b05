SPECIFICATION Spec
CONSTANTS
  Milli = 2
  Second = 4
  FirstLimit = 1
  Limits <- MCLimits
  MaxSends = 2
  MaxMessages = 4
  MaxTime = 11
INVARIANTS
  TypeOK
  NoMessageTwice
  OnlyMillisecondsAreLost
  NewMessagesAreVisible
  FoundersMissLittle
