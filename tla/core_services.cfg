SPECIFICATION Spec
CONSTANTS
  Interval = 3
  MaxTime = 12
  Speeds = {1, 2}
  Options = {o1, o2}
  OptionValues = {v1, v2}
  Ports = {1, 2}
  Strengths = {0, 1}
  Rotations = {0, 1}
  Aspects = {1, 2}
  Keys = {"up", "down"}
  KonamiSequence <- MCKonamiSequence
  MaxEvents = 3
  MaxPresses = 6
  VirtualFiles = {f1, f2}
  MaxFD = 4
  Shaders = {s1, s2}
  Sizes = {n1, n2}
INVARIANTS
  TypeOK
  PaceKept
  NoUpdateLost
  ChoiceKept
  RumbleTold
  FrameShapeFollows
  KeysAsHeld
  OwnershipPreserved
  NothingLeaks
  FramebuffersFit
  ShaderFollows
PROPERTIES
  EggOnCode
