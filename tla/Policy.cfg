SPECIFICATION Spec
CONSTANTS
  d1 = d1
  kids = kids
  None = None
  Devices <- MCDevices
  Profiles <- MCProfiles
  DayTicks = 11
  Times <- MCTimes
  Budgets <- MCBudgets
  Defaults <- MCDefaults
  Short <- MCShort
  MaxGap = 2
  MaxEvents = 3
INVARIANTS
  Exact
  BudgetHolds
PROPERTIES
  BudgetRenews
