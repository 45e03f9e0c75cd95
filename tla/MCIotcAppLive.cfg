\* Requests, a new configuration and a reboot command across a lost connection.
SPECIFICATION LiveSpec
CONSTANTS
  s1 = s1
  s2 = s2
  p1 = p1
  NoReq = NoReq
  Snaps <- OneSnap
  Pushes <- OnePush
  Preempts = {FALSE}
  MaxConsole = 0
  MaxConfig = 1
  MaxDrops = 1
  MaxBoots = 1
PROPERTIES RequestsCarriedOut ApplyTakesEffect RebootHappens
