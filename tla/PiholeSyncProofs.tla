-------------------------- MODULE PiholeSyncProofs --------------------------
(***************************************************************************)
(* Proofs about PiholeSync, for any lists of domains, any number of        *)
(* requests under way and of events: types, what the two memos say of      *)
(* Pi-hole, and when FTL denies what the list says.                        *)
(***************************************************************************)
EXTENDS PiholeSync, TLAPS

LEMMA SpendType == ASSUME budget \in 0..MaxEvents, Spend PROVE budget' \in 0..MaxEvents
BY PiholeAssumption DEF Spend

LEMMA DenyType ==
  ASSUME rows \in [Domains -> {"absent", "off", "on", "tagged"}], NEW v \in BOOLEAN
  PROVE  PiholeDeny(v) \in [Domains -> {"absent", "off", "on", "tagged"}]
BY DEF PiholeDeny

\* After pihole deny or pihole deny remove the bootstrap names are listed or not.
LEMMA DenyLists ==
  ASSUME rows \in [Domains -> {"absent", "off", "on", "tagged"}], NEW v \in BOOLEAN,
         rows' = PiholeDeny(v)
  PROVE  Listed(v)'
BY DEF PiholeDeny, Listed, Domains

LEMMA FileType ==
  ASSUME NEW f \in Files
  PROVE  f.ipv4 \in BOOLEAN /\ f.piDns \in BOOLEAN /\ f.shield \in BOOLEAN /\ f.strict \in BOOLEAN
BY PiholeAssumption

LEMMA RememberType ==
  ASSUME TypeOK, NEW n \in Names, Remember(n)
  PROVE  memo' \in [Names -> {{}, {TRUE}, {FALSE}}]
<1>1. cfg[n] \in BOOLEAN
  BY FileType DEF TypeOK, Names
<1>2. {cfg[n]} \in {{}, {TRUE}, {FALSE}}
  BY <1>1
<1>3. QED
  BY <1>2 DEF TypeOK, Remember

LEMMA AtType ==
  ASSUME TypeOK, NEW r \in Requests,
         Ends(r) \/ \E step \in HelperSteps : At(r, step)
  PROVE  helper' \in [Requests -> [at : HelperSteps, ipv4 : BOOLEAN, piDns : BOOLEAN]]
<1>1. CASE Ends(r)
  BY <1>1 DEF Ends, NoRun, TypeOK, HelperSteps
<1>2. CASE \E step \in HelperSteps : At(r, step)
  BY <1>2 DEF At, TypeOK
<1>3. QED
  BY <1>1, <1>2

LEMMA HelperArguments ==
  ASSUME TypeOK, NEW r \in Requests
  PROVE  helper[r].ipv4 \in BOOLEAN /\ helper[r].piDns \in BOOLEAN /\ helper[r].at \in HelperSteps
BY DEF TypeOK

LEMMA InitType == Init => TypeOK
<1> SUFFICES ASSUME Init PROVE TypeOK
  OBVIOUS
<1>1. Hour \in 0..Hour /\ MaxEvents \in 0..MaxEvents
  BY PiholeAssumption
<1>2. QED
  BY <1>1 DEF Init, TypeOK, NoRun, Steps, HelperSteps

LEMMA AgentType == TypeOK /\ AgentStep => TypeOK'
<1> SUFFICES ASSUME TypeOK, AgentStep PROVE TypeOK'
  OBVIOUS
<1> USE PiholeAssumption DEF Steps, lists, filter
<1>1. CASE Load
  <2>1. age' \in 0..Hour
    BY <1>1 DEF Load, Aged, TypeOK
  <2>2. QED
    BY <1>1, <2>1 DEF Load, TypeOK
<1>2. CASE SyncPiholeDenylist
  <2>1. rows' \in [Domains -> {"absent", "off", "on", "tagged"}]
    BY <1>2 DEF SyncPiholeDenylist, TypeOK
  <2>2. age' \in 0..Hour /\ pc' \in Steps
    BY <1>2 DEF SyncPiholeDenylist, TypeOK
  <2>3. QED
    BY <1>2, <2>1, <2>2 DEF SyncPiholeDenylist, TypeOK
<1>3. CASE ReloadPiholeLists
  <2>1. budget' \in 0..MaxEvents
    BY <1>3, SpendType DEF ReloadPiholeLists, TypeOK
  <2>2. active' \in SUBSET Domains /\ owed' \in BOOLEAN
    BY <1>3 DEF ReloadPiholeLists, ListsRead, Enabled, TypeOK
  <2>3. age' \in 0..Hour
    BY <1>3 DEF ReloadPiholeLists
  <2>4. QED
    BY <1>3, <2>1, <2>2, <2>3 DEF ReloadPiholeLists, TypeOK
<1>4. CASE SyncForceIpv4Dns
  BY <1>4, FileType DEF SyncForceIpv4Dns, TypeOK
<1>5. CASE ResolveIpv6
  BY <1>5, FileType DEF ResolveIpv6, TypeOK
<1>6. CASE ReloadFtl
  <2>1. memo' \in [Names -> {{}, {TRUE}, {FALSE}}]
    BY <1>6, RememberType DEF ReloadFtl, Names
  <2>2. active' \in SUBSET Domains /\ owed' \in BOOLEAN /\ suppressed' \in BOOLEAN
    BY <1>6 DEF ReloadFtl, FtlReloaded, ListsRead, Enabled, TypeOK
  <2>3. behind' \in SUBSET Names
    BY <1>6 DEF ReloadFtl, TypeOK
  <2>4. QED
    BY <1>6, <2>1, <2>2, <2>3 DEF ReloadFtl, TypeOK
<1>7. CASE SyncForcePiDns
  <2>1. CASE Applied("piDns")
    BY <1>7, <2>1 DEF SyncForcePiDns, TypeOK
  <2>2. CASE ~Applied("piDns")
    <3>1. memo' \in [Names -> {{}, {TRUE}, {FALSE}}]
      BY <1>7, <2>2, RememberType DEF SyncForcePiDns, Names
    <3>2. rows' \in [Domains -> {"absent", "off", "on", "tagged"}]
      BY <1>7, <2>2, DenyType, FileType DEF SyncForcePiDns, TypeOK
    <3>3. active' \in SUBSET Domains /\ owed' \in BOOLEAN
      BY <1>7, <2>2 DEF SyncForcePiDns, ListsRead, Enabled
    <3>4. behind' \in SUBSET Names
      BY <1>7, <2>2 DEF SyncForcePiDns, TypeOK
    <3>5. QED
      BY <1>7, <3>1, <3>2, <3>3, <3>4 DEF SyncForcePiDns, TypeOK
  <2>3. QED
    BY <2>1, <2>2
<1>8. QED
  BY <1>1, <1>2, <1>3, <1>4, <1>5, <1>6, <1>7 DEF AgentStep

LEMMA MayDenyType ==
  ASSUME TypeOK, NEW v \in BOOLEAN, MayDeny(v)
  PROVE  /\ rows' \in [Domains -> {"absent", "off", "on", "tagged"}]
         /\ active' \in SUBSET Domains /\ owed' \in BOOLEAN
BY DenyType DEF MayDeny, TypeOK, lists

LEMMA FaultType == TypeOK /\ AgentFault => TypeOK'
<1> SUFFICES ASSUME TypeOK, AgentFault PROVE TypeOK'
  OBVIOUS
<1> USE DEF Steps, lists, filter
<1>0. budget' \in 0..MaxEvents
  BY SpendType DEF TypeOK, AgentFault, PassFails, Ipv4CommandFails, PiholeDenyFails, Crash
<1>1. CASE PassFails
  BY <1>0, <1>1 DEF PassFails, TypeOK
<1>2. CASE Ipv4CommandFails
  <2>1. memo' \in [Names -> {{}, {TRUE}, {FALSE}}]
    BY <1>2, RememberType DEF Ipv4CommandFails, TypeOK, Names
  <2>2. behind' \in SUBSET Names
    BY <1>2 DEF Ipv4CommandFails, TypeOK, Names
  <2>3. filterLine' \in BOOLEAN /\ noV6' \in BOOLEAN
    BY <1>2, FileType DEF Ipv4CommandFails, TypeOK
  <2>4. QED
    BY <1>0, <1>2, <2>1, <2>2, <2>3 DEF Ipv4CommandFails, TypeOK
<1>3. CASE PiholeDenyFails
  <2>1. memo' \in [Names -> {{}, {TRUE}, {FALSE}}]
    BY <1>3, RememberType DEF PiholeDenyFails, TypeOK, Names
  <2>2. behind' \in SUBSET Names
    BY <1>3 DEF PiholeDenyFails, TypeOK, Names
  <2>3. /\ rows' \in [Domains -> {"absent", "off", "on", "tagged"}]
        /\ active' \in SUBSET Domains /\ owed' \in BOOLEAN
    BY <1>3, MayDenyType, FileType DEF PiholeDenyFails, TypeOK
  <2>4. QED
    BY <1>0, <1>3, <2>1, <2>2, <2>3 DEF PiholeDenyFails, TypeOK
<1>4. CASE Crash
  BY <1>0, <1>4, PiholeAssumption DEF Crash, TypeOK
<1>5. QED
  BY <1>1, <1>2, <1>3, <1>4 DEF AgentFault

LEMMA HelperType ==
  ASSUME TypeOK, NEW r \in Requests, HelperStep(r) \/ HelperAborts(r)
  PROVE  TypeOK'
<1> USE HelperArguments DEF lists, filter, agent
<1>1. CASE HelperFilter(r)
  BY <1>1, AtType DEF HelperFilter, TypeOK, HelperSteps
<1>2. CASE HelperResolver(r)
  BY <1>2, AtType DEF HelperResolver, TypeOK, HelperSteps
<1>3. CASE HelperReload(r)
  <2>1. active' \in SUBSET Domains /\ owed' \in BOOLEAN /\ suppressed' \in BOOLEAN
    BY <1>3 DEF HelperReload, FtlReloaded, ListsRead, Enabled, TypeOK
  <2>2. helper' \in [Requests -> [at : HelperSteps, ipv4 : BOOLEAN, piDns : BOOLEAN]]
    BY <1>3, AtType DEF HelperReload, HelperSteps
  <2>3. QED
    BY <1>3, <2>1, <2>2 DEF HelperReload, TypeOK
<1>4. CASE HelperDeny(r)
  <2>1. rows' \in [Domains -> {"absent", "off", "on", "tagged"}]
    BY <1>4, DenyType DEF HelperDeny, TypeOK
  <2>2. active' \in SUBSET Domains /\ owed' \in BOOLEAN
    BY <1>4 DEF HelperDeny, ListsRead, Enabled
  <2>3. helper' \in [Requests -> [at : HelperSteps, ipv4 : BOOLEAN, piDns : BOOLEAN]]
    BY <1>4, AtType DEF HelperDeny
  <2>4. QED
    BY <1>4, <2>1, <2>2, <2>3 DEF HelperDeny, TypeOK
<1>5. CASE HelperAborts(r)
  <2>1. budget' \in 0..MaxEvents
    BY <1>5, SpendType DEF HelperAborts, TypeOK
  <2>2. /\ rows' \in [Domains -> {"absent", "off", "on", "tagged"}]
        /\ active' \in SUBSET Domains /\ owed' \in BOOLEAN
    BY <1>5, MayDenyType DEF HelperAborts, TypeOK
  <2>3. filterLine' \in BOOLEAN /\ noV6' \in BOOLEAN /\ behind' \in SUBSET Names
    BY <1>5 DEF HelperAborts, TypeOK, Names
  <2>4. helper' \in [Requests -> [at : HelperSteps, ipv4 : BOOLEAN, piDns : BOOLEAN]]
    BY <1>5, AtType DEF HelperAborts
  <2>5. QED
    BY <1>5, <2>1, <2>2, <2>3, <2>4 DEF HelperAborts, TypeOK
<1>6. QED
  BY <1>1, <1>2, <1>3, <1>4, <1>5 DEF HelperStep

LEMMA UpdateType ==
  ASSUME TypeOK, NEW r \in Requests, NEW v4 \in BOOLEAN, NEW dns \in BOOLEAN,
         UpdateNetworkSettings(r, v4, dns)
  PROVE  TypeOK'
<1>1. file' \in Files
  BY PiholeAssumption DEF UpdateNetworkSettings, TypeOK
<1>2. budget' \in 0..MaxEvents
  BY SpendType DEF UpdateNetworkSettings, TypeOK
<1>3. helper' \in [Requests -> [at : HelperSteps, ipv4 : BOOLEAN, piDns : BOOLEAN]]
  BY DEF UpdateNetworkSettings, TypeOK, HelperSteps
<1>4. QED
  BY <1>1, <1>2, <1>3 DEF UpdateNetworkSettings, TypeOK, lists, filter, agent

LEMMA EditType ==
  ASSUME TypeOK,
         \/ \E f \in Files : EditFile(f)
         \/ \E d \in Domains, state \in {"absent", "off"} : EditPihole(d, state)
  PROVE  TypeOK'
<1> USE DEF lists, filter, agent
<1>1. budget' \in 0..MaxEvents
  BY SpendType DEF TypeOK, EditFile, EditPihole
<1>2. CASE \E f \in Files : EditFile(f)
  BY <1>1, <1>2 DEF EditFile, Unseen, TypeOK
<1>3. ASSUME NEW d \in Domains, NEW state \in {"absent", "off"}, EditPihole(d, state)
      PROVE TypeOK'
  <2>1. active' \in SUBSET Domains /\ owed' \in BOOLEAN
    BY <1>3 DEF EditPihole, ListsRead, Enabled
  <2>2. behind' \in SUBSET Names
    BY <1>3 DEF EditPihole, TypeOK, Names
  <2>3. QED
    BY <1>1, <1>3, <2>1, <2>2 DEF EditPihole, TypeOK
<1>4. QED
  BY <1>2, <1>3

LEMMA NextType == TypeOK /\ [Next]_vars => TypeOK'
<1> SUFFICES ASSUME TypeOK, [Next]_vars PROVE TypeOK'
  OBVIOUS
<1>1. CASE UNCHANGED vars
  BY <1>1 DEF vars, TypeOK
<1>2. CASE Next
  BY <1>2, AgentType, FaultType, HelperType, UpdateType, EditType DEF Next
<1>3. QED
  BY <1>1, <1>2

\* Every variable keeps its type through every command, failure, crash and edit.
THEOREM TypeCorrect == Spec => []TypeOK
<1>1. Init => TypeOK
  BY InitType
<1>2. TypeOK /\ [Next]_vars => TypeOK'
  BY NextType
<1>3. QED
  BY <1>1, <1>2, PTL DEF Spec

-----------------------------------------------------------------------------
(* FTL and the list.                                                       *)

LEMMA NextInForce == TypeOK /\ InForce /\ [Next]_vars => InForce'
<1> SUFFICES ASSUME TypeOK, InForce, [Next]_vars PROVE InForce'
  OBVIOUS
<1> USE DEF InForce, lists, filter, agent
<1>1. CASE UNCHANGED vars
  BY <1>1 DEF vars, Enabled
<1>2. CASE Load \/ SyncForceIpv4Dns \/ ResolveIpv6 \/ PassFails \/ Crash
  BY <1>2 DEF Load, SyncForceIpv4Dns, ResolveIpv6, PassFails, Crash, Enabled
<1>3. CASE SyncPiholeDenylist
  <2>1. CASE Upserted(cfg) = {}
    <3>1. \A d \in Domains : (d \in Wanted(cfg) => rows[d] = "tagged")
      BY <2>1 DEF Upserted
    <3>2. rows' = rows
      BY <1>3, <3>1 DEF SyncPiholeDenylist, TypeOK
    <3>3. QED
      BY <1>3, <3>2 DEF SyncPiholeDenylist, Enabled
  <2>2. CASE Upserted(cfg) # {}
    BY <1>3, <2>2 DEF SyncPiholeDenylist
  <2>3. QED
    BY <2>1, <2>2
<1>4. CASE ReloadPiholeLists
  BY <1>4 DEF ReloadPiholeLists, ListsRead, Enabled
<1>5. CASE ReloadFtl
  BY <1>5 DEF ReloadFtl, FtlReloaded, ListsRead, Enabled
<1>6. CASE Ipv4CommandFails
  BY <1>6 DEF Ipv4CommandFails, Enabled
<1>7. CASE SyncForcePiDns
  BY <1>7 DEF SyncForcePiDns, ListsRead, Enabled
<1>8. CASE PiholeDenyFails
  BY <1>8 DEF PiholeDenyFails, MayDeny, Enabled
<1>9. ASSUME NEW r \in Requests,
             \/ \E v4, dns \in BOOLEAN : UpdateNetworkSettings(r, v4, dns)
             \/ HelperStep(r) \/ HelperAborts(r)
      PROVE  InForce'
  BY <1>9 DEF UpdateNetworkSettings, HelperStep, HelperFilter, HelperResolver, HelperReload,
       HelperDeny, HelperAborts, MayDeny, FtlReloaded, ListsRead, Enabled
<1>10. ASSUME NEW f \in Files, EditFile(f) PROVE InForce'
  BY <1>10 DEF EditFile, Enabled
<1>11. ASSUME NEW d \in Domains, NEW state \in {"absent", "off"}, EditPihole(d, state)
       PROVE  InForce'
  BY <1>11 DEF EditPihole, ListsRead, Enabled
<1>12. QED
  BY <1>1, <1>2, <1>3, <1>4, <1>5, <1>6, <1>7, <1>8, <1>9, <1>10, <1>11
     DEF Next, AgentStep, AgentFault

\* FTL denies what the list says unless a reload was missed (privacy_shield.py:
\* what is committed is reloaded, and what changes nothing needs no reload).
THEOREM ListsInForce == Spec => []InForce
<1>1. Init => InForce
  BY DEF Init, InForce, Enabled
<1>2. TypeOK /\ InForce /\ [Next]_vars => InForce'
  BY NextInForce
<1>3. QED
  BY <1>1, <1>2, TypeCorrect, PTL DEF Spec

-----------------------------------------------------------------------------
(* A helper that nobody disturbs is alone with its settings.               *)

LEMMA NextUndisturbed == TypeOK /\ Undisturbed /\ [Next]_vars => Undisturbed'
<1> SUFFICES ASSUME TypeOK, Undisturbed, [Next]_vars PROVE Undisturbed'
  OBVIOUS
<1> USE DEF lists, filter, agent
<1>1. CASE UNCHANGED <<file, helper>> /\ behind \subseteq behind'
  <2>1. behind' \subseteq Names
    BY NextType DEF TypeOK
  <2>2. behind' # Names => behind # Names
    BY <1>1, <2>1
  <2>3. QED
    BY <1>1, <2>2 DEF Undisturbed
<1>2. CASE UNCHANGED <<file, helper>> /\ Idle
  BY <1>2 DEF Undisturbed, Idle
<1>3. CASE AgentStep
  <2>1. UNCHANGED <<file, helper>> /\ (behind' = behind \/ Idle)
    BY <1>3 DEF AgentStep, Load, SyncPiholeDenylist, ReloadPiholeLists, SyncForceIpv4Dns,
         ResolveIpv6, ReloadFtl, SyncForcePiDns
  <2>2. QED
    BY <1>1, <1>2, <2>1
<1>4. CASE AgentFault
  BY <1>1, <1>4 DEF AgentFault, PassFails, Ipv4CommandFails, PiholeDenyFails, Crash
<1>5. ASSUME NEW r \in Requests, NEW v4 \in BOOLEAN, NEW dns \in BOOLEAN,
             UpdateNetworkSettings(r, v4, dns)
      PROVE  Undisturbed'
  <2>1. /\ file'.ipv4 = v4 /\ file'.piDns = dns
        /\ helper' \in [Requests -> [at : HelperSteps, ipv4 : BOOLEAN, piDns : BOOLEAN]]
        /\ helper'[r].ipv4 = v4 /\ helper'[r].piDns = dns
        /\ \A q \in Requests \ {r} : helper'[q] = helper[q]
    BY <1>5, UpdateType DEF UpdateNetworkSettings, TypeOK
  <2>2. CASE Idle
    BY <1>5, <2>1, <2>2 DEF Undisturbed, Idle
  <2>3. CASE ~Idle
    BY <1>5, <2>1, <2>3 DEF Undisturbed, UpdateNetworkSettings, Names
  <2>4. QED
    BY <2>2, <2>3
<1>6. ASSUME NEW r \in Requests, HelperStep(r) \/ HelperAborts(r) PROVE Undisturbed'
  <2>1. /\ \A q \in Requests \ {r} : helper'[q] = helper[q]
        /\ \/ helper'[r].at = "idle"
           \/ /\ helper[r].at # "idle"
              /\ helper'[r].ipv4 = helper[r].ipv4 /\ helper'[r].piDns = helper[r].piDns
    BY <1>6 DEF TypeOK, HelperStep, HelperFilter, HelperResolver, HelperReload, HelperDeny,
         HelperAborts, At, Ends, NoRun
  <2>2. file' = file /\ behind \subseteq behind' /\ behind' \subseteq Names
    BY <1>6, HelperType DEF TypeOK, HelperStep, HelperFilter, HelperResolver, HelperReload,
       HelperDeny, HelperAborts
  <2>3. behind' # Names => behind # Names
    BY <2>2
  <2>4. helper[r].at # "idle"
    BY <1>6 DEF HelperStep, HelperFilter, HelperResolver, HelperReload, HelperDeny, HelperAborts
  <2>5. QED
    BY <2>1, <2>2, <2>3, <2>4 DEF Undisturbed
<1>7. ASSUME NEW f \in Files, EditFile(f) PROVE Undisturbed'
  <2>1. CASE Idle
    BY <1>7, <2>1 DEF EditFile, Undisturbed, Idle
  <2>2. CASE ~Idle
    BY <1>7, <2>2 DEF EditFile, Unseen, Undisturbed, Names, TypeOK
  <2>3. QED
    BY <2>1, <2>2
<1>8. ASSUME NEW d \in Domains, NEW state \in {"absent", "off"}, EditPihole(d, state)
      PROVE  Undisturbed'
  BY <1>1, <1>8 DEF EditPihole
<1>9. CASE UNCHANGED vars
  BY <1>1, <1>9 DEF vars
<1>10. QED
  BY <1>3, <1>4, <1>5, <1>6, <1>7, <1>8, <1>9 DEF Next

THEOREM UndisturbedHolds == Spec => []Undisturbed
<1>1. Init => Undisturbed
  BY DEF Init, Undisturbed, NoRun
<1>2. TypeOK /\ Undisturbed /\ [Next]_vars => Undisturbed'
  BY NextUndisturbed
<1>3. QED
  BY <1>1, <1>2, TypeCorrect, PTL DEF Spec

-----------------------------------------------------------------------------
(* Force Pi DNS.                                                           *)

LEMMA NextPiDns == TypeOK /\ Undisturbed /\ PiDnsFollows /\ [Next]_vars => PiDnsFollows'
<1> SUFFICES ASSUME TypeOK, Undisturbed, PiDnsFollows, [Next]_vars PROVE PiDnsFollows'
  OBVIOUS
<1> USE DEF lists, filter, agent
\* The rows are those of before, the memo and config.toml say the same.
<1>1. CASE /\ UNCHANGED <<file, rows, helper>>
           /\ memo'.piDns = memo.piDns /\ ("piDns" \in behind => "piDns" \in behind')
  BY <1>1 DEF PiDnsFollows, Listed, Idle
<1>2. CASE "piDns" \in behind' \/ ~Idle'
  BY <1>2 DEF PiDnsFollows
<1>3. CASE Load \/ ReloadPiholeLists \/ SyncForceIpv4Dns \/ ResolveIpv6 \/ PassFails
  BY <1>1, <1>3 DEF Load, ReloadPiholeLists, SyncForceIpv4Dns, ResolveIpv6, PassFails
<1>4. CASE ReloadFtl \/ Ipv4CommandFails
  BY <1>1, <1>4 DEF ReloadFtl, Ipv4CommandFails, Remember, TypeOK, Names
<1>5. CASE SyncPiholeDenylist
  <2>1. \A d \in Domains : rows'[d] = IF d \in Wanted(cfg) THEN "tagged" ELSE rows[d]
    BY <1>5 DEF SyncPiholeDenylist
  <2>2. \A d \in Bootstrap \ (Safe \cup Strict) : d \notin Wanted(cfg)
    BY DEF Wanted
  <2>3. QED
    BY <1>5, <2>1, <2>2 DEF SyncPiholeDenylist, PiDnsFollows, Listed, Idle, Domains
<1>6. CASE SyncForcePiDns
  <2>1. CASE Applied("piDns")
    BY <1>1, <1>6, <2>1 DEF SyncForcePiDns
  <2>2. CASE ~Applied("piDns")
    <3>1. rows' = PiholeDeny(cfg.piDns) /\ Remember("piDns") /\ file' = file
      BY <1>6, <2>2 DEF SyncForcePiDns
    <3>2. memo'.piDns = {cfg.piDns}
      BY <3>1 DEF Remember, TypeOK, Names
    <3>3. \A v \in BOOLEAN : rows' = PiholeDeny(v) => Listed(v)'
      BY DenyLists DEF TypeOK
    <3>4. QED
      BY <3>1, <3>2, <3>3, FileType DEF PiDnsFollows, TypeOK
  <2>3. QED
    BY <2>1, <2>2
<1>7. CASE PiholeDenyFails
  BY <1>2, <1>7 DEF PiholeDenyFails
<1>8. CASE Crash
  BY <1>8 DEF Crash, PiDnsFollows, Names
<1>9. ASSUME NEW r \in Requests, NEW v4 \in BOOLEAN, NEW dns \in BOOLEAN,
             UpdateNetworkSettings(r, v4, dns)
      PROVE  PiDnsFollows'
  <2>1. helper'[r].at = "filter"
    BY <1>9 DEF UpdateNetworkSettings, TypeOK
  <2>2. QED
    BY <1>2, <2>1 DEF Idle
<1>10. ASSUME NEW r \in Requests, HelperFilter(r) \/ HelperResolver(r) \/ HelperReload(r)
       PROVE  PiDnsFollows'
  <2>1. helper'[r].at # "idle"
    BY <1>10 DEF HelperFilter, HelperResolver, HelperReload, At, TypeOK
  <2>2. QED
    BY <1>2, <2>1 DEF Idle
<1>11. ASSUME NEW r \in Requests, HelperDeny(r) PROVE PiDnsFollows'
  <2>1. CASE "piDns" \in behind
    BY <1>2, <1>11, <2>1 DEF HelperDeny
  <2>2. CASE "piDns" \notin behind
    <3>1. helper[r].piDns = file.piDns /\ file' = file /\ rows' = PiholeDeny(file.piDns)
      BY <1>11, <2>2 DEF HelperDeny, Undisturbed
    <3>2. \A v \in BOOLEAN : rows' = PiholeDeny(v) => Listed(v)'
      BY DenyLists DEF TypeOK
    <3>3. QED
      BY <3>1, <3>2, FileType DEF PiDnsFollows, TypeOK
  <2>3. QED
    BY <2>1, <2>2
<1>12. ASSUME NEW r \in Requests, HelperAborts(r) PROVE PiDnsFollows'
  BY <1>2, <1>12 DEF HelperAborts, Names
<1>13. ASSUME NEW f \in Files, EditFile(f) PROVE PiDnsFollows'
  <2>1. CASE f.piDns = file.piDns \/ "piDns" \in behind
    BY <1>13, <2>1 DEF EditFile, PiDnsFollows, Listed, Idle
  <2>2. CASE f.piDns # file.piDns
    BY <1>13, <2>2 DEF EditFile, Unseen, PiDnsFollows, Idle, Names
  <2>3. QED
    BY <2>1, <2>2
<1>14. ASSUME NEW d \in Domains, NEW state \in {"absent", "off"}, EditPihole(d, state)
       PROVE  PiDnsFollows'
  <2>1. CASE d \in Bootstrap
    BY <1>2, <1>14, <2>1 DEF EditPihole
  <2>2. CASE d \notin Bootstrap
    <3>1. \A e \in Bootstrap : rows'[e] = rows[e]
      BY <1>14, <2>2 DEF EditPihole, TypeOK, Domains
    <3>2. QED
      BY <1>14, <2>2, <3>1 DEF EditPihole, PiDnsFollows, Listed, Idle
  <2>3. QED
    BY <2>1, <2>2
<1>15. CASE UNCHANGED vars
  BY <1>1, <1>15 DEF vars
<1>16. QED
  BY <1>3, <1>4, <1>5, <1>6, <1>7, <1>8, <1>9, <1>10, <1>11, <1>12, <1>13, <1>14, <1>15
     DEF Next, AgentStep, AgentFault, HelperStep

\* Where the agent takes Force Pi DNS for applied and config.toml asks for it, the
\* bootstrap names are all listed; where it does not ask, only the shield lists any.
THEOREM PiDnsFollowsHolds == Spec => []PiDnsFollows
<1>1. Init => PiDnsFollows
  BY DEF Init, PiDnsFollows, Names
<1>2. TypeOK /\ Undisturbed /\ PiDnsFollows /\ [Next]_vars => PiDnsFollows'
  BY NextPiDns
<1>3. QED
  BY <1>1, <1>2, TypeCorrect, UndisturbedHolds, PTL DEF Spec

-----------------------------------------------------------------------------
(* Force IPv4.                                                             *)

\* An undisturbed helper that is under way applies what config.toml says, and
\* only its own steps count.
LEMMA Alone ==
  ASSUME TypeOK, Undisturbed, "ipv4" \notin behind, NEW r \in Requests, helper[r].at # "idle"
  PROVE  /\ helper[r].ipv4 = file.ipv4
         /\ \A q \in Requests \ {r} : helper[q].at = "idle"
<1>1. behind # Names
  BY DEF Names
<1>2. QED
  BY <1>1 DEF Undisturbed

LEMMA AgentIpv4 == TypeOK /\ Ipv4Progress /\ (AgentStep \/ AgentFault) => Ipv4Progress'
<1> SUFFICES ASSUME TypeOK, Ipv4Progress, AgentStep \/ AgentFault PROVE Ipv4Progress'
  OBVIOUS
<1> USE DEF lists, filter, agent, Past
<1>1. CASE /\ UNCHANGED <<file, filter, helper>>
           /\ ("ipv4" \in behind => "ipv4" \in behind')
           /\ pc \notin {"resolver", "reload"} /\ pc' \notin {"resolver", "reload"}
           /\ memo'.ipv4 = memo.ipv4
  BY <1>1 DEF Ipv4Progress, Agreed
<1>2. CASE Load \/ SyncPiholeDenylist \/ ReloadPiholeLists \/ PassFails
  BY <1>1, <1>2 DEF Load, SyncPiholeDenylist, ReloadPiholeLists, PassFails
<1>3. CASE SyncForcePiDns
  BY <1>1, <1>3 DEF SyncForcePiDns, Remember, TypeOK, Names
<1>4. CASE PiholeDenyFails
  BY <1>1, <1>4 DEF PiholeDenyFails, Remember, TypeOK, Names
<1>5. CASE Ipv4CommandFails
  BY <1>5 DEF Ipv4CommandFails, Ipv4Progress
<1>6. CASE Crash
  BY <1>6 DEF Crash, Ipv4Progress, Agreed, Names
<1>7. CASE SyncForceIpv4Dns
  <2>1. CASE Applied("ipv4")
    BY <1>1, <1>7, <2>1 DEF SyncForceIpv4Dns
  <2>2. CASE ~Applied("ipv4")
    BY <1>7, <2>2 DEF SyncForceIpv4Dns, Ipv4Progress, Agreed
  <2>3. QED
    BY <2>1, <2>2
<1>8. CASE ResolveIpv6
  BY <1>8 DEF ResolveIpv6, Ipv4Progress, Agreed
<1>9. CASE ReloadFtl
  <2>1. /\ pc = "reload" /\ pc' = "deny"
        /\ UNCHANGED <<file, filterLine, noV6, cfg, helper>> /\ suppressed' = filterLine
        /\ behind' = IF Idle /\ filterLine = cfg.ipv4 /\ noV6 = cfg.ipv4
                     THEN behind \ {"ipv4"} ELSE behind
    BY <1>9 DEF ReloadFtl, FtlReloaded
  <2>2. memo'.ipv4 = {cfg.ipv4}
    BY <1>9 DEF ReloadFtl, Remember, TypeOK, Names
  <2>3. Agreed' => cfg.ipv4 = file.ipv4
    BY <2>1, <2>2 DEF Agreed
  <2>4. CASE filterLine = cfg.ipv4 /\ noV6 = cfg.ipv4
    BY <2>1, <2>3, <2>4 DEF Ipv4Progress
  <2>5. CASE ~(filterLine = cfg.ipv4 /\ noV6 = cfg.ipv4)
    BY <2>1, <2>3, <2>5 DEF Ipv4Progress, Agreed
  <2>6. QED
    BY <2>4, <2>5
<1>10. QED
  BY <1>2, <1>3, <1>4, <1>5, <1>6, <1>7, <1>8, <1>9 DEF AgentStep, AgentFault

LEMMA HelperIpv4 ==
  ASSUME TypeOK, Undisturbed, Ipv4Progress, NEW r \in Requests, HelperStep(r) \/ HelperAborts(r)
  PROVE  Ipv4Progress'
<1> USE DEF lists, filter, agent, Past
<1>1. CASE "ipv4" \in behind'
  BY <1>1 DEF Ipv4Progress
<1>2. CASE "ipv4" \notin behind' /\ ~Agreed
  BY <1>2 DEF Ipv4Progress, Agreed, HelperStep, HelperFilter, HelperResolver, HelperReload,
       HelperDeny, HelperAborts
<1>3. CASE "ipv4" \notin behind' /\ Agreed
  <2>1. /\ "ipv4" \notin behind /\ helper[r].at # "idle" /\ UNCHANGED <<file, pc>>
    BY <1>3 DEF HelperStep, HelperFilter, HelperResolver, HelperReload, HelperDeny, HelperAborts
  <2>2. /\ helper[r].ipv4 = file.ipv4
        /\ \A q \in Requests \ {r} : helper[q].at = "idle"
    BY <2>1, Alone
  <2>3. \A q \in Requests \ {r} : helper'[q] = helper[q]
    BY DEF TypeOK, HelperStep, HelperFilter, HelperResolver, HelperReload, HelperDeny,
       HelperAborts, At, Ends
  <2>4. CASE HelperFilter(r)
    <3>1. helper'[r].at = "resolver" /\ filterLine' = file.ipv4
      BY <2>2, <2>4 DEF HelperFilter, At, TypeOK
    <3>2. QED
      BY <3>1, <2>1 DEF Ipv4Progress
  <2>5. CASE HelperResolver(r)
    <3>1. /\ helper[r].at = "resolver" /\ helper'[r].at = "reload"
          /\ noV6' = file.ipv4 /\ filterLine' = filterLine
      BY <2>2, <2>5 DEF HelperResolver, At, TypeOK
    <3>2. filterLine = file.ipv4
      BY <1>3, <2>1, <2>2, <3>1 DEF Ipv4Progress
    <3>3. QED
      BY <3>1, <3>2, <2>1 DEF Ipv4Progress
  <2>6. CASE HelperReload(r)
    <3>1. /\ helper[r].at = "reload" /\ UNCHANGED <<filterLine, noV6>>
          /\ suppressed' = filterLine
      BY <2>6 DEF HelperReload, FtlReloaded
    <3>2. filterLine = file.ipv4 /\ (pc # "resolver" => noV6 = file.ipv4)
      BY <1>3, <2>1, <2>2, <3>1 DEF Ipv4Progress
    <3>3. QED
      BY <3>1, <3>2, <2>1 DEF Ipv4Progress
  <2>7. CASE HelperDeny(r) \/ HelperAborts(r)
    <3>1. helper[r].at = "deny" /\ UNCHANGED filter
      BY <2>1, <2>7, <1>3 DEF HelperDeny, HelperAborts, Names
    <3>2. /\ filterLine = file.ipv4
          /\ pc # "resolver" => noV6 = file.ipv4
          /\ pc \notin {"resolver", "reload"} => suppressed = file.ipv4
      BY <1>3, <2>1, <2>2, <3>1 DEF Ipv4Progress
    <3>3. QED
      BY <3>1, <3>2, <2>1 DEF Ipv4Progress
  <2>8. QED
    BY <2>4, <2>5, <2>6, <2>7 DEF HelperStep
<1>4. QED
  BY <1>1, <1>2, <1>3

LEMMA EditIpv4 == ASSUME TypeOK, Ipv4Progress, NEW f \in Files, EditFile(f) PROVE Ipv4Progress'
<1> USE DEF lists, filter, agent, Past
<1>1. CASE f.ipv4 = file.ipv4 \/ "ipv4" \in behind
  BY <1>1 DEF EditFile, Ipv4Progress, Agreed
<1>2. CASE f.ipv4 # file.ipv4 /\ (~Idle \/ pc \in {"resolver", "reload"})
  BY <1>2 DEF EditFile, Unseen, Ipv4Progress, Names
<1>3. CASE f.ipv4 # file.ipv4 /\ Idle /\ pc \notin {"resolver", "reload"}
  BY <1>3 DEF EditFile, Unseen, Ipv4Progress, Agreed, Names
<1>4. QED
  BY <1>1, <1>2, <1>3

LEMMA NextIpv4 == TypeOK /\ Undisturbed /\ Ipv4Progress /\ [Next]_vars => Ipv4Progress'
<1> SUFFICES ASSUME TypeOK, Undisturbed, Ipv4Progress, [Next]_vars PROVE Ipv4Progress'
  OBVIOUS
<1> USE DEF lists, filter, agent
<1>1. ASSUME NEW r \in Requests, NEW v4 \in BOOLEAN, NEW dns \in BOOLEAN,
             UpdateNetworkSettings(r, v4, dns)
      PROVE  Ipv4Progress'
  <2>1. helper'[r].at = "filter"
    BY <1>1 DEF UpdateNetworkSettings, TypeOK
  <2>2. QED
    BY <2>1 DEF Ipv4Progress, Past
<1>2. ASSUME NEW d \in Domains, NEW state \in {"absent", "off"}, EditPihole(d, state)
      PROVE  Ipv4Progress'
  BY <1>2 DEF EditPihole, Ipv4Progress, Agreed, Past
<1>3. CASE UNCHANGED vars
  BY <1>3 DEF vars, Ipv4Progress, Agreed, Past
<1>4. QED
  BY <1>1, <1>2, <1>3, AgentIpv4, HelperIpv4, EditIpv4 DEF Next

\* Where the agent takes Force IPv4 for applied and it is what config.toml asks
\* for, both keys and the running FTL have the value, unless a failure or an
\* overlap is on record.
THEOREM Ipv4FollowsHolds == Spec => []Ipv4Follows
<1>1. Init => Ipv4Progress
  BY DEF Init, Ipv4Progress, Agreed, Names
<1>2. TypeOK /\ Undisturbed /\ Ipv4Progress /\ [Next]_vars => Ipv4Progress'
  BY NextIpv4
<1>3. Ipv4Progress => Ipv4Follows
  BY DEF Ipv4Progress, Ipv4Follows, Agreed, Past, Idle
<1>4. QED
  BY <1>1, <1>2, <1>3, TypeCorrect, UndisturbedHolds, PTL DEF Spec
=============================================================================
