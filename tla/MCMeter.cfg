CONSTANTS
  freeHost = freeHost
  paidHost = paidHost
  p1 = p1
  NoPacket = NoPacket
  Packet = {p1, p2, p3}
  Host <- MCHost
  Unmetered <- MCUnmetered
  addr <- MCaddr
  way <- MCway
  MaxQueue = 1
  MaxTime = 1
  clock <- MCclock
SPECIFICATION Spec
SYMMETRY Alike
INVARIANTS CountedOnce RightColumn
