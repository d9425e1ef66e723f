SPECIFICATION FairSpec
CONSTANTS
  a1 = a1
  a2 = a2
  w1 = w1
  w2 = w2
  Addr <- MCAddr
  Androids <- MCAndroids
  Workers <- OneWorker
  Ops <- EveryOp
  Faults <- AllFaults
  MaxEvents = 3
PROPERTIES
  EventuallyConverged
