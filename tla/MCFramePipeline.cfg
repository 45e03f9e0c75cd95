\* Frames, results and the controls: snapshots, brightness, the LED, a stream.
SPECIFICATION Spec
CONSTANTS
  MaxBoxes = 2
  Scenes <- MCScenes
INVARIANTS OneResultDrawn LevelWritten LedDarkWhenOff
INVARIANTS NoResultLost KeyFrameKept
CONSTRAINT SecondBox
