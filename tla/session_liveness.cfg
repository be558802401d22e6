SPECIFICATION LiveSpec
CONSTANT MaxKeys = 1
PROPERTIES
  MainThreadReleased
  KeepsPlaying
