SPECIFICATION Spec
CONSTANTS
  c1 = c1 c2 = c2 ads = ads web = web doh = doh doh2 = doh2 tele = tele
  NoDomain = NoDomain
  Clients <- MCClients
  Domains <- MCDomains
  Service <- MCService
  TopLimit = 2
  LogBatches <- MCLogBatches
  LogTicks = 3
  LogTime = 4
  Devices <- MCDevices
  Batches <- MCBatches
  PrivacyKind <- MCKind
  Night <- MCNight
  LateAt = 2 SpikeAt = 3 BurstAt = 2
  HitLimit = 2
  Window = 0
  PrivacyWindow = 1
  Quiet <- MCQuiet
  Cap = 2
  HitSettings = {TRUE}
  Webhook = TRUE
  MaxTime = 2
  MaxAlerts = 3
  a2 = a2 a20 = a20 f = f g = g
  Addresses <- MCAddresses
  Linked <- MCAddresses
  Extends <- MCExtends
  Flows = {f, g}
  Owner <- MCOwner
  Keeps = 3
  Horizon = 3
  BarWidth = 2
  Unit = 6
  MaxMoved <- MCMoved
  MaxPasses = 4
INVARIANTS
  NoRepeat
  AnalyticsHold
  EvidenceHolds
  RatesAreHonest
  TypeOK
PROPERTIES
  KnownOnlyWhenTold
  LatestSurvive
CHECK_DEADLOCK FALSE
