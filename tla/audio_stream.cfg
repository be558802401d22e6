SPECIFICATION Spec
CONSTANTS
  MaxStreams = 3
INVARIANTS
  TypeOK
  WriterHasRing
  CallbackHasItsOwn
  SoundFollowsActivity
PROPERTIES
  SoundComesBack
