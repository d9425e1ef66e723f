SPECIFICATION Spec
CONSTANTS
  d1 = d1 d2 = d2 host = host NoHost = NoHost None = None
  Devices = {d1, d2}
  Rank <- MCRank
  Gateway = d2
  Enrolled = {}
  Hosts = {host}
  Types = {"unknown", "android", "pc", "tv", "router"}
  Inferred <- MCInferred
  Suggested <- MCSuggested
  Branded = {d2}
  Plain <- MCPlain
  HandLabels <- MCHandLabels
  Hints <- MCHints
  MaxHosts = 1
  UnknownGap = 2
  KnownGap = 3
  MaxStarts = 2
INVARIANTS
  HandLabelsStand
PROPERTIES
  KnownTypesStay
  ScansReachAll
