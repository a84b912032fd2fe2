SPECIFICATION Spec
SYMMETRY MCSymmetry
CHECK_DEADLOCK FALSE
CONSTANTS
  User = {u1, u2, u3}
  Nobody = Nobody
  Position = {p1}
  Item = {i1, i2}
  NoItem = NoItem
  NoTrade = NoTrade
  Width = 4
  GoldMaxLimit = 2
  Gold = {2}
  MaxMails = 0
  MaxGone = 2
  MaxEvents = 2
INVARIANTS
  Paired
  Agreed
PROPERTIES
  OffersStand
