SPECIFICATION Spec
CONSTANTS
  a1 = a1
  a2 = a2
  w1 = w1
  w2 = w2
  Addr <- MCAddr
  Androids <- MCAndroids
  Workers <- TwoWorkers
  Ops <- DefaultOps
  Faults <- AllFaults
  MaxEvents = 3
SYMMETRY SymWorkers
INVARIANTS
  Converged
  ClearingIsFinal
