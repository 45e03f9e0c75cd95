\* The console is used while the net thread provisions the PKCS#11 files.
SPECIFICATION Spec
CONSTANTS
  old = old
  new = new
  short = short
  NoFile = NoFile
  Empty = Empty
  Order <- MCOrder
  Texts <- MCTexts
  ObjectOrder <- MCObjects
  Values = {new}
  First = old
  Cut <- MCCut
  MaxCommands = 2
  MaxFaults = 0
INVARIANT FilesystemSerialized
