SPECIFICATION Spec
CONSTANTS
  LastSlot = 1
  MaxPlay = 2
  Absent = Absent
  Torn = Torn
  NoGame = NoGame
  NoSlot = NoSlot
  Unknown = Unknown
INVARIANTS
  RecentIsNewest
