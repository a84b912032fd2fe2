SPECIFICATION Spec
CHECK_DEADLOCK FALSE
SYMMETRY Rings
CONSTANTS
  ring1 = ring1
  ring2 = ring2
  fish = fish
  finger = finger
  None = None
  Item <- MCItem
  Slots = 2
  Position = {finger}
  Part = {"ring", "none"}
  partOf <- MCPartOf
  equippable <- MCEquippable
  MaxLate = 1
  MaxPending = 2
  MaxMailed = 2
INVARIANTS
  TypeOK
  NoDuplicate
  NothingLost
  MailedIsGone
  WornFits
  LogicAgrees
  RequirementPending
