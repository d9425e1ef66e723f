SPECIFICATION Spec
CONSTANTS
  m1 = m1
  m2 = m2
  i1 = i1
  i2 = i2
  i3 = i3
  i4 = i4
  s1 = s1
  s2 = s2
  NoMac = NoMac
  Agent = s1
  NoId = NoId
  Macs <- MCMacs
  Addresses <- Two
  Ids <- TwoIds
  Pool <- SharedPools
  Syncs <- TwoSyncs
  Overlap = TRUE
  Lingering = FALSE
  MaxEvents = 3
INVARIANT TypeOK
PROPERTIES
  SettingsStay
  NothingMadeUp
  EventuallyListed
