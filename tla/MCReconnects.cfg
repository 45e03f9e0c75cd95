\* Every lost connection keeps its TLS session: the heap is full after two.
SPECIFICATION LiveSpec
CONSTANTS
  SessionRoom = 2
  MaxDrops = 2
  MaxRestarts = 0
PROPERTY Reconnects
