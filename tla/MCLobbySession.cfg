SPECIFICATION FairSpec
CHECK_DEADLOCK FALSE
CONSTANTS
  u1 = u1
  u2 = u2
  u3 = u3
  c1 = c1
  c2 = c2
  User <- MCUsers1
  Account = {"anna", "bert"}
  Call <- MCCallers
  MaxUserId = 0
  Packet = {"Head", "Auth", "CheckSecondPassword", "Close"}
  NoUser = NoUser
  NoId = NoId
  Nobody = Nobody
PROPERTIES
  ImplementsConnector
  CallbackEnds
