SPECIFICATION FairSpec
CONSTANTS
  t1 = t1
  t2 = t2
  Threads = {t1, t2}
  HeaderSize = 2
  PayloadSize = 1
  Capacity = 2
  MaxTries = 2
  MaxFrames = 2
INVARIANTS TypeOK FramesArrive
PROPERTIES SendEnds
CHECK_DEADLOCK FALSE
