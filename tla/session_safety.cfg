SPECIFICATION Spec
CONSTANT MaxKeys = 2
INVARIANTS
  TypeOK
  NoNullEngine
  EngineExclusive
  QuietWhenPaused
  PlaysInFront
  LoadOnce
  NoMutualWait
  IInv
PROPERTIES
  WaitShrinks
  ImplementsContract
