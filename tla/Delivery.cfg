SPECIFICATION Spec
CONSTANTS
  c1 = c1
  c2 = c2
  c3 = c3
  message = message
  groupMessage = groupMessage
  Sockets <- MCSockets
  Items <- MCItems
  Asking <- MCAsking
INVARIANTS
  TypeOK
  NothingIsMissed
PROPERTIES
  PushedOnce
  SeenAtLast
