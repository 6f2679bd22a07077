CONSTANTS
  freeHost = freeHost
  paidHost = paidHost
  p1 = p1
  NoPacket = NoPacket
  Packet = {p1, p2}
  Host <- MCHost
  Unmetered <- MCUnmetered
  addr <- MCaddr
  way <- MCway
  MaxQueue = 1
  MaxTime = 2
  clock <- MCclock
SPECIFICATION FairSpec
INVARIANT NeverFromFuture
PROPERTIES Implements Reported
