\* Pushes and reverts in turn, in either build, and overlapping, in the shipped one.
SPECIFICATION LiveSpec
CONSTANTS
  face = face
  person = person
  odd = odd
  big = big
  dud = dud
  stock = stock
  NoClient = NoClient
  NoBlob = NoBlob
  Erased = Erased
  Garbage = Garbage
  Models <- MCModels
  Kind <- MCKind
  Builtin = stock
  Chunks <- MCChunks
  Scenes <- MCScenes
  MaxFaults = 1
  MaxAttempts = 2
  SlotChunks = 2
  BlockChunks = 2
  SectorChunks = 1
INVARIANTS CopyInBounds SlotLoadable NameIsRunning HaltsOverBadModel RevertErasesSlot BootModelWhole
PROPERTIES SavedModelBoots QueuedModelRuns TeardownFirst SwapConsumed
CONSTRAINT OverlapBound
