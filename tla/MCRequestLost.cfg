\* A transfer ends between the two flags the net thread reads.
SPECIFICATION Spec
CONSTANTS
  s1 = s1
  s2 = s2
  p1 = p1
  NoReq = NoReq
  Snaps <- TwoSnaps
  Pushes <- OnePush
  Preempts = {TRUE}
  MaxConsole = 0
  MaxConfig = 1
  MaxDrops = 0
  MaxBoots = 0
INVARIANT RequestsKept
