\* Two snapshot commands, a push, a reboot, with and without preemption: safety.
SPECIFICATION Spec
CONSTANTS
  s1 = s1
  s2 = s2
  p1 = p1
  NoReq = NoReq
  Snaps <- TwoSnaps
  Pushes <- OnePush
  Preempts = {TRUE, FALSE}
  MaxConsole = 1
  MaxConfig = 1
  MaxDrops = 1
  MaxBoots = 1
SYMMETRY SnapSymmetry
INVARIANTS TypeOK TransferKeepsConnection ScratchExclusive EndedOnce AppliedConfigUsed RequestsKeptInTurn
