SPECIFICATION Spec
CONSTANTS
  r1 = r1
  r2 = r2
  dom = dom
  w1 = w1
  w2 = w2
  Ids <- OneId
  Domains <- MCDomains
  DomainOf <- MCDomainOf
  Workers <- MCWorkers
  MaxEvents = 3
CHECK_DEADLOCK FALSE
INVARIANT
  RefusedHasNoEffect
