CONSTANTS
  t1 = t1  t2 = t2
  p1 = p1  p2 = p2
  Threads <- MCThreads
  Packets <- MCPackets
  NoPacket = NoPacket
  NoThread = NoThread
  Capacity = 3
SPECIFICATION FairSpec
PROPERTIES ImplementsFifo MutexReleased
