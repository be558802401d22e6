SPECIFICATION Spec
CONSTANTS
  Durations = {2, 3}
  DefaultDuration = 2
  PerSecond = 1
  MaxAt = 2
  MaxEra = 1
PROPERTY DropsBeyondDuration
