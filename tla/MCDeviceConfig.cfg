\* An identity is changed on the console under faults and resets.
SPECIFICATION Spec
CONSTANTS
  old = old
  new = new
  short = short
  NoFile = NoFile
  Empty = Empty
  Order <- MCOrder
  Texts <- MCTexts
  ObjectOrder <- MCObjects
  Values = {new}
  First = old
  Cut <- MCCut
  MaxCommands = 3
  MaxFaults = 1
CONSTRAINT Unclashed
INVARIANTS ConnectsAsLoaded RunsAsApplied
PROPERTY ImplementsConfigStore
