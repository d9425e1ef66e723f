---------------------------- MODULE MCMonitoring ----------------------------
(***************************************************************************)
(* Small instances of the monitoring side: two clients and five domains for *)
(* the log and the alerts, two addresses for the bandwidth samples, one of  *)
(* which is the beginning of the other.                                     *)
(***************************************************************************)
EXTENDS Monitoring, TLC

CONSTANTS c1, c2, ads, web, doh, doh2, tele, a2, a20, f, g

Looked(c, d, b, k) == [client |-> c, domain |-> d, blocked |-> b, n |-> k]

MCClients == {c1, c2}
MCDevices == {c2}
MCDomains == {ads, web, doh, doh2, tele}
MCService == (ads :> "Ads" @@ web :> "Web" @@ doh :> "DNS" @@ doh2 :> "DNS"
                @@ tele :> "Telemetry")
MCKind == (ads :> "none" @@ web :> "none" @@ NoDomain :> "none" @@ tele :> "telemetry"
             @@ doh :> "doh_bypass" @@ doh2 :> "doh_bypass")
MCBatches ==
  { {Looked(c1, ads, TRUE, 2), Looked(c2, tele, TRUE, 1)},
    {Looked(c1, doh, FALSE, 1), Looked(c1, doh2, FALSE, 1)} }
MCLogBatches ==
  MCBatches \union { {Looked(c2, tele, TRUE, 1), Looked(c1, NoDomain, TRUE, 1)},
                     {Looked(c1, web, FALSE, 3), Looked(c2, ads, TRUE, 1)},
                     {Looked(c1, web, FALSE, 1), Looked(c1, web, TRUE, 1)} }
MCQuiet == [t \in DnsTypes \union PrivacyTypes |-> 1]
MCNight == {2}

MCAddresses == {a2, a20}
MCExtends == {<<a20, a2>>}
MCOwner == f :> a2 @@ g :> a20
MCMoved == a2 :> 1 @@ a20 :> 1
=============================================================================
