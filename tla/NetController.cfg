SPECIFICATION FairSpec
CONSTANTS
  a1 = a1
  a2 = a2
  Addr <- MCAddr
  Wants <- AllWants
  MaxEvents = 3
CHECK_DEADLOCK FALSE
INVARIANTS
  InstalledIsMemo
  InterceptionFiltered
  InterceptionForwards
  HealthyRulesAreCurrent
  ReportedProcesses
PROPERTIES
  DnsOnlyRestores
  LinkedConverges
