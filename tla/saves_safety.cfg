SPECIFICATION Spec
CONSTANTS
  LastSlot = 1
  MaxPlay = 1
  Absent = Absent
  Torn = Torn
  NoGame = NoGame
  NoSlot = NoSlot
  Unknown = Unknown
INVARIANTS
  TypeOK
  PausedMeansSaved
PROPERTIES
  ResumesWhereLeft
