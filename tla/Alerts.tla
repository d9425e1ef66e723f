------------------------------- MODULE Alerts -------------------------------
(***************************************************************************)
(* The alerts of the agent (alerts.py, the end of an agent pass, the alert  *)
(* inbox of storage.py), with the dashboard's acknowledgements.             *)
(*                                                                          *)
(* A pass looks at the devices it saw and at the recent lookups, drafts     *)
(* alerts, adds them to the inbox one by one and posts each to a webhook.   *)
(* Time passes between passes and while a post waits for its answer; the    *)
(* agent may stop at any step, and starts again knowing nothing of the      *)
(* devices it had seen.  One tick is five minutes, the window of the DNS    *)
(* alerts.                                                                  *)
(***************************************************************************)
EXTENDS QueryLog, Sequences, SequencesExt

CONSTANTS
  Devices,        \* the addresses the agent may see come and go
  Batches,        \* the lookups one tick may bring
  PrivacyKind,    \* [Domains -> {"doh_bypass", "telemetry", "none"}]
  Night,          \* the ticks of late night
  LateAt, SpikeAt, BurstAt,  \* the counts that are worth an alert
  HitLimit,       \* privacy hits one pass looks at
  Window, PrivacyWindow,     \* ticks the counts look back
  Quiet,          \* [alert types -> ticks without a second alert]
  Cap,            \* alerts the inbox keeps
  HitSettings,    \* the values privacy.alert_on_hits takes
  Webhook,        \* is a webhook configured?
  MaxTime, MaxAlerts         \* bounds of the model

DnsTypes     == {"late_night", "spike", "blocked_burst"}
PrivacyTypes == {"doh_bypass", "telemetry"}
AlertTypes   == DnsTypes \union PrivacyTypes \union {"new_device"}

ASSUME AlertConstants ==
  /\ MaxTime \in Nat /\ MaxAlerts \in Nat /\ Cap \in Nat \ {0}
  /\ Devices \subseteq Clients
  /\ IsLookups(Batches)
  /\ PrivacyKind \in [Domains \union {NoDomain} -> PrivacyTypes \union {"none"}]
  /\ PrivacyKind[NoDomain] = "none"       \* a blank name is no catalogued one
  /\ Window \in Nat /\ PrivacyWindow \in Nat /\ HitLimit \in Nat
  /\ Quiet \in [DnsTypes \union PrivacyTypes -> Nat]
  /\ HitSettings \subseteq BOOLEAN

VARIABLES
  pc,        \* the agent: "down", "idle", "adding", "posting"
  drafts,    \* the alerts the pass still has to add
  seenNow,   \* the addresses this pass saw (observed_ips)
  previous,  \* {} or {the addresses the last whole pass saw}
  looked,    \* [at, base]: when the pass looked and the newest alert it saw
  due,       \* what the pass has to tell, by definition (a history variable)
  inbox,     \* the alerts table
  ever       \* every alert ever added (a history variable)

agentVars == <<pc, drafts, seenNow, previous, looked, due, inbox, ever>>
alertVars == <<now, log, agentVars>>

Rested == [at |-> 0, base |-> 0]

AlertsInit ==
  /\ LogInit
  /\ pc = "down" /\ drafts = <<>> /\ seenNow = {} /\ previous = {}
  /\ looked = Rested /\ due = {}
  /\ inbox = {} /\ ever = <<>>

-----------------------------------------------------------------------------
(* Time, lookups, and no row kept that no alert looks at.  Lookups of a     *)
(* pass's own tick that it has not counted arrive, here, when the pass has  *)
(* ended: it would not look at them again.                                  *)
Tick ==
  /\ now < MaxTime /\ pc # "adding"
  /\ TimePasses(PrivacyWindow)
  /\ UNCHANGED agentVars

Lookups ==
  /\ pc \in {"down", "idle"}
  /\ LookupsArrive(Batches)
  /\ UNCHANGED agentVars

-----------------------------------------------------------------------------
\* Mutant of RecentlyAlerted: an acknowledged alert does not count.
RecentlyPending(type, subject) ==
  \E a \in inbox : /\ a.type = type /\ a.subject = subject /\ ~a.acked
                  /\ a.time >= now - Quiet[type]

(* has_recent_alert: the eight newest of this type and subject are looked   *)
(* at, and one recent alert among them is enough.                           *)
RecentlyAlerted(type, subject) ==
  \E a \in inbox : a.type = type /\ a.subject = subject /\ a.time >= now - Quiet[type]

Draft(type, subject, domain) == [type |-> type, subject |-> subject, domain |-> domain]

Ordered(S) == SetToSeq(S)

NewDevices(seen, known) == {Draft("new_device", ip, NoDomain) : ip \in seen \ known}

DnsAlerts ==
  LET rows == Since(log, now - Window)
      Worth(type, ip) ==
        CASE type = "late_night"    -> now \in Night /\ Queries(By(rows, ip)) >= LateAt
          [] type = "spike"         -> Queries(By(rows, ip)) >= SpikeAt
          [] type = "blocked_burst" -> Queries(Blocked(By(rows, ip))) >= BurstAt
      worth == {x \in DnsTypes \X Clients :
                  Worth(x[1], x[2]) /\ ~RecentlyAlerted(x[1], x[2])}
  IN {Draft(x[1], x[2], NoDomain) : x \in worth}

(* scan_recent_privacy_hits: one hit per client and catalogued domain,      *)
(* those with the most lookups first; only the first HitLimit are looked    *)
(* at, before the recent alerts are.                                        *)
PrivacyHits ==
  LET rows == Since(log, now - PrivacyWindow)
      hits == {x \in Clients \X Domains :
                 PrivacyKind[x[2]] # "none" /\ Naming(By(rows, x[1]), x[2]) # {}}
  IN Tops(hits, LAMBDA x : Queries(Naming(By(rows, x[1]), x[2])), HitLimit)

PrivacyAlerts(hits) ==
  {Draft(PrivacyKind[x[2]], x[1], x[2]) :
     x \in {h \in hits : ~RecentlyAlerted(PrivacyKind[h[2]], h[1])}}

(* What the pass has to tell, without the order of the drafts, the loop's   *)
(* filter and the limit on hits: the devices that were not there the last   *)
(* time, the thresholds passed, and each client with a catalogued domain    *)
(* (where there are no more hits than a pass looks at).                     *)
Due(seen, known, onHits) ==
  LET recent == {r \in Since(log, now - PrivacyWindow) : PrivacyKind[r.domain] # "none"}
  IN {<<"new_device", ip>> : ip \in seen \ known}
     \union {<<d.type, d.subject>> : d \in DnsAlerts}
     \union {x \in PrivacyTypes \X Clients :
               /\ onHits /\ Cardinality({<<r.client, r.domain>> : r \in recent}) <= HitLimit
               /\ ~RecentlyAlerted(x[1], x[2])
               /\ \E r \in By(recent, x[2]) : PrivacyKind[r.domain] = x[1]}

(* evaluate_alerts and the filter of the agent's loop.                      *)
Evaluate ==
  /\ pc = "idle"
  /\ \E seen \in SUBSET Devices, onHits \in HitSettings, hits \in PrivacyHits :
       LET known == IF previous = {} THEN seen ELSE UNION previous
           told  == Ordered(NewDevices(seen, known)) \o Ordered(DnsAlerts)
                      \o (IF onHits THEN Ordered(PrivacyAlerts(hits)) ELSE <<>>)
       IN /\ Len(ever) + Len(told) <= MaxAlerts
          /\ seenNow' = seen
          /\ drafts' = told
          /\ due' = Due(seen, known, onHits)
  /\ looked' = [at |-> now, base |-> Len(ever)]
  /\ pc' = "adding"
  /\ UNCHANGED <<logVars, previous, inbox, ever>>

\* Mutant of Newest: what is acknowledged goes first.
NewestPending(rows, k) ==
  {a \in rows : Cardinality({b \in rows : /\ (b.acked => a.acked)
                                         /\ (b.id > a.id \/ (a.acked /\ ~b.acked))}) < k}

(* add_alert: the row is added and the table is cut to the newest Cap rows, *)
(* in one transaction.  Ids grow, so the newest are those with the largest. *)
Newest(rows, k) ==
  {a \in rows : Cardinality({b \in rows : b.id > a.id}) < k}

AddAlert ==
  /\ pc = "adding" /\ drafts # <<>>
  /\ LET d   == Head(drafts)
         row == [id |-> Len(ever) + 1, type |-> d.type, subject |-> d.subject,
                 domain |-> d.domain, time |-> now, base |-> looked.base,
                 acked |-> FALSE]
     IN /\ inbox' = Newest(inbox \union {row}, Cap)
        /\ ever' = Append(ever, row)
  /\ drafts' = Tail(drafts)
  /\ pc' = IF Webhook THEN "posting" ELSE "adding"
  /\ UNCHANGED <<logVars, seenNow, previous, looked, due>>

(* deliver_webhook returns, posted or not: a failed connection, a timeout   *)
(* and an HTTP error are swallowed.                                         *)
Deliver ==
  /\ pc = "posting"
  /\ pc' = "adding"
  /\ UNCHANGED <<logVars, drafts, seenNow, previous, looked, due, inbox, ever>>

EndsPass ==
  /\ pc' = "idle" /\ drafts' = <<>> /\ seenNow' = {} /\ looked' = Rested /\ due' = {}
  /\ UNCHANGED <<logVars, inbox, ever>>

(* The pass ends; only now the devices it saw become the known ones.        *)
Finish ==
  /\ pc = "adding" /\ drafts = <<>>
  /\ previous' = {seenNow}
  /\ EndsPass

\* Mutant of PassFails: the devices are remembered all the same.
PassFailsKnowing ==
  /\ pc \in {"adding", "posting"}
  /\ previous' = {seenNow}
  /\ EndsPass

(* Any other exception -- a malformed answer of the webhook, a locked       *)
(* database -- ends the pass in the loop's handler.                         *)
PassFails ==
  /\ pc \in {"adding", "posting"}
  /\ EndsPass
  /\ UNCHANGED previous

Crash ==
  /\ pc # "down"
  /\ pc' = "down" /\ drafts' = <<>> /\ seenNow' = {} /\ previous' = {}
  /\ looked' = Rested /\ due' = {}
  /\ UNCHANGED <<logVars, inbox, ever>>

Start ==
  /\ pc = "down"
  /\ pc' = "idle"
  /\ UNCHANGED <<logVars, drafts, seenNow, previous, looked, due, inbox, ever>>

-----------------------------------------------------------------------------
(* The dashboard: an alert, or all that are there, acknowledged.            *)
AckAlert ==
  /\ \E a \in inbox : /\ ~a.acked
                      /\ inbox' = (inbox \ {a}) \union {[a EXCEPT !.acked = TRUE]}
  /\ UNCHANGED <<logVars, pc, drafts, seenNow, previous, looked, due, ever>>

AckAllAlerts ==
  /\ inbox' = {[a EXCEPT !.acked = TRUE] : a \in inbox}
  /\ UNCHANGED <<logVars, pc, drafts, seenNow, previous, looked, due, ever>>

-----------------------------------------------------------------------------
AlertsNext ==
  \/ Tick \/ Lookups
  \/ Evaluate \/ AddAlert \/ Deliver \/ Finish \/ PassFails
  \/ Crash \/ Start
  \/ AckAlert \/ AckAllAlerts

AlertsSpec == AlertsInit /\ [][AlertsNext]_alertVars
-----------------------------------------------------------------------------
(* Properties.                                                              *)

Told == {ever[i] : i \in DOMAIN ever}

DraftRow == [type : AlertTypes, subject : Clients, domain : Domains \union {NoDomain}]
AlertRow == [id : 1..MaxAlerts, type : AlertTypes, subject : Clients,
             domain : Domains \union {NoDomain}, time : Nat,
             base : 0..MaxAlerts, acked : BOOLEAN]

(* Every variable has its type, and a pass is in progress exactly when the  *)
(* agent is adding or posting.                                              *)
AlertsTypeOK ==
  /\ LogTypeOK
  /\ pc \in {"down", "idle", "adding", "posting"}
  /\ drafts \in Seq(DraftRow)
  /\ seenNow \subseteq Devices
  /\ previous = {} \/ \E S \in SUBSET Devices : previous = {S}
  /\ looked \in [at : Nat, base : 0..MaxAlerts]
  /\ inbox \subseteq AlertRow
  /\ ever \in Seq(AlertRow)
  /\ pc \in {"down", "idle"} => drafts = <<>> /\ seenNow = {} /\ looked = Rested

Same(a, b) == a.type = b.type /\ a.subject = b.subject

(* The inbox has each of the newest Cap alerts, acknowledged or not, once   *)
(* and as it was told: has_recent_alert needs them.                         *)
InboxIsNewest ==
  /\ \A i \in DOMAIN ever : ever[i].id = i
  /\ \A a \in inbox : a.id \in DOMAIN ever
  /\ \A a, b \in inbox : a.id = b.id => a = b
  /\ \A i \in DOMAIN ever : i > Len(ever) - Cap =>
       \E a \in inbox : a.id = i /\ Same(a, ever[i]) /\ a.time = ever[i].time

(* has_recent_alert: of two alerts of one kind about one device within the  *)
(* quiet time, either the first had left the inbox when the second was      *)
(* drafted, or both are privacy alerts drafted by the same pass -- which    *)
(* looks at the table once per hit and before it adds any of them.          *)
NoRepeat ==
  \A a, b \in Told :
    (/\ a.id < b.id /\ a.type = b.type /\ a.subject = b.subject
     /\ a.type # "new_device" /\ b.time - a.time <= Quiet[a.type])
    => \/ a.id <= b.base - Cap
       \/ a.type \in PrivacyTypes /\ a.base = b.base

(* The agent takes the devices of a pass for known only when the pass has   *)
(* told all it had to tell: a pass that fails or dies among its drafts      *)
(* leaves the newcomers new.                                                *)
KnownOnlyWhenTold ==
  [][previous' # previous /\ previous' # {} =>
       \A x \in due : \E a \in Told :
         a.type = x[1] /\ a.subject = x[2] /\ a.base = looked.base]_alertVars
=============================================================================
