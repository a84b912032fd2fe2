SPECIFICATION Spec
SYMMETRY MCSymmetry
CHECK_DEADLOCK FALSE
CONSTANTS
  User = {u1, u2}
  Nobody = Nobody
  Position = {p1, p2}
  Item = {i1}
  NoItem = NoItem
  NoTrade = NoTrade
  Width = 2
  GoldMaxLimit = 1
  Gold = {1}
  MaxMails = 2
  MaxGone = 1
  MaxEvents = 2
INVARIANTS
  TypeOK
  MoneyConserved
PROPERTIES
  TakesWhatIsOffered
