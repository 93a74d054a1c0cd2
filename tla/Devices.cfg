SPECIFICATION Spec
CONSTANTS
  MAX_TERMINALS = 2
  Frequencies = {4, 5}
  Hertz = {2, 4}
  Readers = {0, 1}
  Writers = {0, 1}
  Windows = {"select"}
  MaxFrames = 2
INVARIANTS TypeOK InServiceOwed ClockArmed
PROPERTY WaitsForTick
