\* Two lost connections, one restart from the console, room for three sessions.
SPECIFICATION LiveSpec
CONSTANTS
  SessionRoom = 3
  MaxDrops = 2
  MaxRestarts = 1
INVARIANTS ContextExclusive TransferHasSession
PROPERTIES LossNoticed PublishReturns Reconnects
