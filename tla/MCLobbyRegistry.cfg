SPECIFICATION MCSpec
SYMMETRY MCSymmetry
CHECK_DEADLOCK FALSE
CONSTANTS
  u1 = u1
  u2 = u2
  u3 = u3
  c1 = c1
  c2 = c2
  User <- MCUsers2
  Account = {"anna"}
  Call <- MCCallers
  MaxUserId = 1
  Packet = {"Auth", "CheckSecondPassword"}
  NoUser = NoUser
  NoId = NoId
  Nobody = Nobody
INVARIANTS
  IdsUnique
  SessionRegistered
  OneRegistry
PROPERTY
  DroppedForAnother
