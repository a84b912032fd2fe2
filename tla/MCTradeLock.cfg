SPECIFICATION Spec
SYMMETRY MCSymmetry
CHECK_DEADLOCK FALSE
CONSTANTS
  User = {u1, u2}
  Nobody = Nobody
  Position = {p1}
  Item = {i1}
  NoItem = NoItem
  NoTrade = NoTrade
  Width = 2
  GoldMaxLimit = 1
  Gold = {1}
  MaxMails = 1
  MaxGone = 0
  MaxEvents = 1
INVARIANTS
  ItemLockKept
