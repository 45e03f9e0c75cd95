\* Pastes at set cert: whole, in part, wrong, too large, in a script.
SPECIFICATION LiveSpec
CONSTANTS
  Eols <- MCEols
  Blocks <- MCBlocks
  Bodies = {"x", "y"}
  RingRoom = 4
  LineRoom = 2
  PemRoom = 4
  MaxSends = 4
  MaxLost = 2
INVARIANTS StoredFramed StoredWhole PasteNotRun
PROPERTY BlockEndsCapture
CHECK_DEADLOCK FALSE
