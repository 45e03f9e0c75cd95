\* The flash slot: two clients, two faults or resets.
SPECIFICATION Spec
CONSTANTS
  ai = ai
  pump = pump
  long = long
  short = short
  NoClient = NoClient
  NoBlob = NoBlob
  Erased = Erased
  Garbage = Garbage
  Clients <- MCClients
  Blobs <- MCBlobs
  Chunks <- MCChunks
  SlotChunks = 4
  BlockChunks = 2
  SectorChunks = 1
  MaxFaults = 2
INVARIANTS Durable HealthyFlashSaves
PROPERTIES LoadReturnsSaved ImplementsSlot
