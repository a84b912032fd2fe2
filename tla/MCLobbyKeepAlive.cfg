SPECIFICATION MCFairSpec
CHECK_DEADLOCK FALSE
CONSTANTS
  u1 = u1
  u2 = u2
  u3 = u3
  c1 = c1
  c2 = c2
  User <- MCUsers3
  Account = {"anna"}
  Call = {c1}
  MaxUserId = 1
  Packet = {"Head", "CheckSecondPassword"}
  NoUser = NoUser
  NoId = NoId
  Nobody = Nobody
INVARIANT
  TypeOK
PROPERTY
  SilentSessionsClosed
