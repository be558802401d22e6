SPECIFICATION Spec
CONSTANTS
  BufferSize = 5
  WriteFrames = {1, 2}
  ReadFrames = {1, 2}
  Silence = Silence
  MaxSent = 12
INVARIANTS
  TypeOK
  NoOverlap
  ChannelsAligned
PROPERTIES
  ImplementsQueue
