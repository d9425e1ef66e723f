SPECIFICATION Spec
CONSTANTS
  google = google
  pki = pki
  r1 = r1
  r2 = r2
  Safe <- MCSafe
  Strict <- MCStrict
  Bootstrap <- MCBootstrap
  Requests <- MCRequests
  Files <- MCFiles
  Hour = 2
  MaxEvents = 2
INVARIANTS
  Ipv4Follows
  PiDnsFollows
  InForce
PROPERTIES
  EventuallyForced
  EventuallyShielded
