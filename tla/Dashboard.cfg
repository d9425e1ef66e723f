SPECIFICATION DashboardSpec
CONSTANTS
  r1 = r1
  r2 = r2
  dom = dom
  w1 = w1
  w2 = w2
  c1 = c1
  c2 = c2
  a1 = a1
  gw = gw
  Ids <- MCIds
  Domains <- MCDomains
  DomainOf <- MCDomainOf
  Workers <- MCWorkers
  MaxEvents = 5
  RowKinds <- MCRowKinds
  Filters <- MCFilters
  AnyClient = AnyClient
  Limit = 1
  FetchCap = 2
  FeedKeeps = 2
  MaxRows = 3
  Hosts <- MCHosts
  OffLimits <- MCOffLimits
  Runs <- MCWorkers
  MaxTail = 1
  MaxEdits = 4
  Askers <- MCWorkers
  Ttl = 2
  MaxClock = 4
CHECK_DEADLOCK FALSE
INVARIANTS
  ApprovalInForce
  FeedIsTheLog
  ConfigIsSound
  AnswersAreFresh
PROPERTIES
  ImplementsRegister
  FeedCatchesUp
