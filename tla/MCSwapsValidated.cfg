\* A second push while the first waits to be swapped in.
SPECIFICATION Spec
CONSTANTS
  face = face
  person = person
  odd = odd
  big = big
  dud = dud
  stock = stock
  NoClient = NoClient
  NoBlob = NoBlob
  Erased = Erased
  Garbage = Garbage
  Models <- MCModels
  Kind <- MCKind
  Builtin = stock
  Chunks <- MCChunks
  Scenes <- Overlapping
  MaxFaults = 0
  MaxAttempts = 2
  SlotChunks = 2
  BlockChunks = 2
  SectorChunks = 1
INVARIANT SwapsValidatedModel
