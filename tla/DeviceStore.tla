----------------------------- MODULE DeviceStore -----------------------------
(***************************************************************************)
(* The devices table and the inventory synchronization that keeps it in    *)
(* step with the LAN.  A row is found by address, a device is recognized   *)
(* by its MAC: when a known MAC shows up under another address the row is  *)
(* moved there, with the settings an administrator made.  The agent and    *)
(* the dashboard's handlers synchronize side by side, and an upsert is a   *)
(* read by MAC, a read by address and a transaction that writes: sqlite3   *)
(* begins a transaction at the first write, not at the first read.         *)
(***************************************************************************)
EXTENDS Naturals, FiniteSets

CONSTANTS
  Addresses,  \* of the LAN, as numbers: a synchronization goes by address
  Macs,       \* hardware addresses
  NoMac,      \* of a row made by the dashboard, and of a free address
  Ids, NoId,  \* primary keys; any unused one is the next
  Pool,       \* the addresses the LAN may give to a device
  Syncs,      \* synchronizations at a time: the agent's, the handlers'
  Agent,      \* the one of the agent, which never ceases
  Overlap,    \* may they, and the administrator's requests, overlap?
  Lingering,  \* may a neighbor entry outlive the device's change of address?
  MaxEvents   \* bound on LAN changes, requests and failures

ASSUME DeviceAssumption ==
  /\ Addresses \subseteq Nat
  /\ NoMac \notin Macs /\ NoId \notin Ids /\ Agent \in Syncs
  /\ Pool \in [Macs -> SUBSET Addresses]
  /\ Overlap \in BOOLEAN /\ Lingering \in BOOLEAN
  /\ MaxEvents \in Nat

\* configured: paused, named or given a profile.
\* enrolled: managed and transparent_control, which are written together.
Row == [id : Ids, address : Addresses, mac : Macs \cup {NoMac}, configured : BOOLEAN, enrolled : BOOLEAN]

VARIABLES
  rows,    \* the devices table
  lan,     \* the neighbor table: which MAC answers for which address
  sync,    \* the synchronizations under way
  linked,  \* the devices an administrator has linked and not unlinked since
  marked,  \* those of them configured
  budget

vars == <<rows, lan, sync, linked, marked, budget>>

Neighbors == [Addresses -> Macs \cup {NoMac}]
Views ==
  {view \in Neighbors :
     \A a \in Addresses : view[a] # NoMac =>
       /\ a \in Pool[view[a]]
       /\ ~Lingering => \A b \in Addresses : view[b] = view[a] => b = a}

Steps == {"idle", "by_mac", "by_address", "move", "insert", "select", "delete"}
Sync == [step : Steps, seen : Neighbors, todo : SUBSET Addresses,
         match : Ids \cup {NoId}, conflict : Ids \cup {NoId}, doomed : SUBSET Ids]
Idle == [step |-> "idle", seen |-> [a \in Addresses |-> NoMac], todo |-> {},
         match |-> NoId, conflict |-> NoId, doomed |-> {}]

TypeOK ==
  /\ rows \in SUBSET Row
  /\ \A r, q \in rows : r.id = q.id \/ r.address = q.address => r = q
  /\ lan \in Neighbors
  /\ sync \in [Syncs -> Sync]
  /\ linked \in SUBSET Macs /\ marked \in SUBSET linked
  /\ budget \in 0..MaxEvents

Init ==
  /\ rows = {}
  /\ lan \in Views
  /\ sync = [s \in Syncs |-> Idle]
  /\ linked = {} /\ marked = {}
  /\ budget = MaxEvents

Spend == budget > 0 /\ budget' = budget - 1
Free == Overlap \/ \A s \in Syncs : sync[s] = Idle
At(s, step) == sync[s].step = step
Present(s) == {a \in Addresses : sync[s].seen[a] # NoMac}

Without(ids) == {r \in rows : r.id \notin ids}
RowAt(a) == {r \in rows : r.address = a}

(***************************************************************************)
(* Synchronization.                                                        *)
(***************************************************************************)
\* Probing and reading the neighbor table; the upserts follow by address.
Observe(s) ==
  /\ Free
  /\ At(s, "idle")
  /\ sync' = [sync EXCEPT ![s] = [Idle EXCEPT
       !.step = IF \A a \in Addresses : lan[a] = NoMac THEN "select" ELSE "by_mac",
       !.seen = lan, !.todo = {a \in Addresses : lan[a] # NoMac}]]
  /\ IF s = Agent THEN UNCHANGED budget ELSE Spend
  /\ UNCHANGED <<rows, lan, linked, marked>>

First(s, a) == a \in sync[s].todo /\ \A b \in sync[s].todo : a <= b

\* The row of the same hardware under another address: the one seen last,
\* which the model leaves open.
OtherRows(s, a) == {r \in rows : r.mac = sync[s].seen[a] /\ r.address # a}
FindByMac(s) == \E a \in Addresses :
  /\ At(s, "by_mac") /\ First(s, a)
  /\ IF OtherRows(s, a) = {}
     THEN sync' = [sync EXCEPT ![s].step = "insert"]
     ELSE \E r \in OtherRows(s, a) :
            sync' = [sync EXCEPT ![s].step = "by_address", ![s].match = r.id]
  /\ UNCHANGED <<rows, lan, linked, marked, budget>>

\* A row of other hardware at the new address ends the migration; one of the
\* same or of unknown hardware will be deleted.
BlockingAny(s, a) == {r \in RowAt(a) : r.id # sync[s].match /\ r.mac # NoMac}  \* mutant: the same hardware too
Blocking(s, a) == {r \in RowAt(a) : r.id # sync[s].match /\ r.mac \notin {NoMac, sync[s].seen[a]}}
Yielding(s, a) == {r \in RowAt(a) : r.id # sync[s].match /\ r.mac \in {NoMac, sync[s].seen[a]}}
FindConflict(s) == \E a \in Addresses :
  /\ At(s, "by_address") /\ First(s, a)
  /\ \/ /\ Blocking(s, a) # {}
        /\ sync' = [sync EXCEPT ![s].step = "insert", ![s].match = NoId]
     \/ \E r \in Yielding(s, a) :
          sync' = [sync EXCEPT ![s].step = "move", ![s].conflict = r.id]
     \/ /\ Blocking(s, a) \cup Yielding(s, a) = {}
        /\ sync' = [sync EXCEPT ![s].step = "move"]
  /\ UNCHANGED <<rows, lan, linked, marked, budget>>

Upserted(s, a) ==
  sync' = [sync EXCEPT ![s].step = IF sync[s].todo = {a} THEN "select" ELSE "by_mac",
                       ![s].todo = @ \ {a}, ![s].match = NoId, ![s].conflict = NoId]

\* DELETE and UPDATE in one transaction.  If somebody took the address in
\* between, the UPDATE breaks UNIQUE(ip_address): all is rolled back and the
\* exception ends the synchronization.
MovedInto(s, a) ==  \* mutant: merged into the row that is there
  {IF r.id = sync[s].conflict THEN [r EXCEPT !.mac = sync[s].seen[a], !.enrolled = TRUE] ELSE r :
     r \in IF sync[s].conflict = NoId THEN rows ELSE Without({sync[s].match})}
Moved(s, a) == {IF r.id = sync[s].match THEN [r EXCEPT !.address = a] ELSE r :
                  r \in Without({sync[s].conflict})}
KeyUnique(table) == \A r, q \in table : r.id = q.id => r = q  \* mutant: ip_address not UNIQUE
Unique(table) == \A r, q \in table : r.address = q.address => r = q
Move(s) == \E a \in Addresses :
  /\ At(s, "move") /\ First(s, a)
  /\ \/ /\ Unique(Moved(s, a))
        /\ rows' = Moved(s, a)
        /\ Upserted(s, a)
     \/ /\ ~Unique(Moved(s, a))
        /\ sync' = [sync EXCEPT ![s] = Idle]
        /\ UNCHANGED rows
  /\ UNCHANGED <<lan, linked, marked, budget>>

\* INSERT ... ON CONFLICT(ip_address) DO UPDATE: the row at the address, if
\* any, takes the observed MAC and keeps its settings.
NewRow(id, a, mac) == [id |-> id, address |-> a, mac |-> mac, configured |-> FALSE, enrolled |-> FALSE]
Unused == {i \in Ids : \A r \in rows : r.id # i}
WithFreshRow(a, mac) ==  \* mutant: INSERT OR REPLACE
  {IF r.address = a THEN NewRow(r.id, a, mac) ELSE r : r \in rows}
WithMac(a, mac) == {IF r.address = a THEN [r EXCEPT !.mac = mac] ELSE r : r \in rows}
Insert(s) == \E a \in Addresses :
  /\ At(s, "insert") /\ First(s, a)
  /\ IF RowAt(a) = {}
     THEN \E i \in Unused : rows' = rows \cup {NewRow(i, a, sync[s].seen[a])}
     ELSE rows' = WithMac(a, sync[s].seen[a])
  /\ Upserted(s, a)
  /\ UNCHANGED <<lan, linked, marked, budget>>

\* prune_absent_devices: the SELECT, then the DELETEs by id.
PrunableAll(s) == {r \in rows : r.address \notin Present(s)}  \* mutant: keep_enrolled forgotten
Prunable(s) == {r \in rows : r.address \notin Present(s) /\ ~r.enrolled}
SelectAbsent(s) ==
  /\ At(s, "select")
  /\ sync' = [sync EXCEPT ![s].step = "delete", ![s].doomed = {r.id : r \in Prunable(s)}]
  /\ UNCHANGED <<rows, lan, linked, marked, budget>>

DeleteAbsent(s) ==
  /\ At(s, "delete")
  /\ rows' = Without(sync[s].doomed)
  /\ sync' = [sync EXCEPT ![s] = Idle]
  /\ UNCHANGED <<lan, linked, marked, budget>>

\* The database is locked for too long, or the process dies: every upsert
\* committed so far stays.
Abort(s) ==
  /\ Spend
  /\ ~At(s, "idle")
  /\ sync' = [sync EXCEPT ![s] = Idle]
  /\ UNCHANGED <<rows, lan, linked, marked>>

(***************************************************************************)
(* Requests of an administrator, and the LAN.                              *)
(***************************************************************************)
WithEnrollment(a, on) == {IF r.address = a THEN [r EXCEPT !.enrolled = on] ELSE r : r \in rows}

Link(a) == \E r \in RowAt(a) :
  /\ Spend /\ Free
  /\ rows' = WithEnrollment(a, TRUE)
  /\ linked' = linked \cup ({r.mac} \ {NoMac})
  /\ marked' = marked \cup (IF r.configured THEN {r.mac} \ {NoMac} ELSE {})
  /\ UNCHANGED <<lan, sync>>

Unlink(a) == \E r \in RowAt(a) :
  /\ Spend /\ Free
  /\ rows' = WithEnrollment(a, FALSE)
  /\ linked' = linked \ {r.mac} /\ marked' = marked \ {r.mac}
  /\ UNCHANGED <<lan, sync>>

\* clear_device_enrollments, of the emergency stop.
UnlinkAll ==
  /\ Spend /\ Free
  /\ rows' = {[r EXCEPT !.enrolled = FALSE] : r \in rows}
  /\ linked' = {} /\ marked' = {}
  /\ UNCHANGED <<lan, sync>>

WithSettings(a, on) == {IF r.address = a THEN [r EXCEPT !.configured = on] ELSE r : r \in rows}

\* Pause or resume, name, assign or clear a profile.
Configure(a, on) == \E r \in RowAt(a) :
  /\ Spend /\ Free
  /\ rows' = WithSettings(a, on)
  /\ marked' = IF on THEN marked \cup ({r.mac} \cap linked) ELSE marked \ {r.mac}
  /\ UNCHANGED <<lan, sync, linked>>

\* Naming or assigning a profile creates the row of an unknown address.
ConfigureUnknown(a) ==
  /\ Spend /\ Free
  /\ RowAt(a) = {}
  /\ \E i \in Unused : rows' = rows \cup {[NewRow(i, a, NoMac) EXCEPT !.configured = TRUE]}
  /\ UNCHANGED <<lan, sync, linked, marked>>

\* Devices join, leave and get other addresses.
LanChange ==
  /\ Spend
  /\ lan' \in Views
  /\ UNCHANGED <<rows, sync, linked, marked>>

SyncStep(s) ==
  \/ Observe(s) \/ FindByMac(s) \/ FindConflict(s) \/ Move(s)
  \/ Insert(s) \/ SelectAbsent(s) \/ DeleteAbsent(s)

Next ==
  \/ \E s \in Syncs : SyncStep(s) \/ Abort(s)
  \/ \E a \in Addresses : Link(a) \/ Unlink(a) \/ ConfigureUnknown(a)
  \/ \E a \in Addresses, on \in BOOLEAN : Configure(a, on)
  \/ UnlinkAll \/ LanChange

\* The agent synchronizes in every pass, and a request under way is answered.
Fairness == \A s \in Syncs : WF_vars(SyncStep(s))

Spec == Init /\ [][Next]_vars /\ Fairness

(***************************************************************************)
(* Properties.                                                             *)
(***************************************************************************)
\* A linked device has exactly the settings an administrator gave it,
\* whichever address it has, had or will have: every row of its hardware
\* carries them, and there is one (storage.py, upsert_device).
SettingsFollow ==
  \A m \in linked :
    /\ \E r \in rows : r.mac = m
    /\ \A r \in rows : r.mac = m => r.enrolled /\ (r.configured <=> m \in marked)

RowsOf(m) == {r \in rows : r.mac = m}

\* The device has its settings: in one row, which no synchronization is about
\* to delete.
Kept(m) ==
  \E r \in rows :
    /\ RowsOf(m) = {r}
    /\ r.enrolled /\ (r.configured <=> m \in marked)
    /\ \A s \in Syncs : r.id \notin sync[s].doomed

\* The writes that rest on a read which no longer holds: a row is inserted for
\* hardware that has one elsewhere, a row is given to other hardware, or what
\* was a row without hardware when it was read is deleted.
Duplicates(s, a, m) == At(s, "insert") /\ First(s, a) /\ sync[s].seen[a] = m /\ OtherRows(s, a) # {}
TakesOver(s, a, m) ==
  At(s, "insert") /\ First(s, a) /\ sync[s].seen[a] # m /\ RowAt(a) \cap RowsOf(m) # {}
DeletesLate(s, m) == At(s, "move") /\ \E r \in RowsOf(m) : r.id = sync[s].conflict
Harms(s, m) == DeletesLate(s, m) \/ \E a \in Addresses : Duplicates(s, a, m) \/ TakesOver(s, a, m)

\* Whatever overlaps and whichever addresses are reused, these are the only ways
\* for a linked device to lose its settings: one of those writes, or being
\* linked when it had several rows or when its row was about to be deleted.
SettingsStay ==
  [][\A m \in linked' :
       \/ Kept(m)'
       \/ \E s \in Syncs : sync'[s] # sync[s] /\ Harms(s, m)
       \/ m \in linked /\ ~Kept(m)
       \/ /\ m \notin linked
          /\ \/ \E r, q \in RowsOf(m) : r # q
             \/ \E r \in RowsOf(m), s \in Syncs : r.id \in sync[s].doomed]_vars

\* Synchronizing moves settings and drops them with their row, but makes up
\* none: no row comes out of it enrolled or configured that was not.
NothingMadeUp ==
  [][sync' # sync =>
       \A q \in rows' : q.enrolled \/ q.configured =>
         \E r \in rows : r.id = q.id /\ r.enrolled = q.enrolled /\ r.configured = q.configured]_vars

\* Every device on the LAN is listed once, under its address; nothing else is
\* listed but what is linked.
Listed ==
  /\ \A a \in Addresses : lan[a] # NoMac =>
       {r.address : r \in {q \in rows : q.mac = lan[a]}} = {a}
  /\ \A r \in rows : lan[r.address] = NoMac => r.enrolled

\* Once LAN and administrator are quiet, so it stays: duplicates that moving
\* devices, reused addresses and overlapping upserts left are merged.
EventuallyListed == <>[]Listed
=============================================================================
