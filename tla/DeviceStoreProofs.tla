-------------------------- MODULE DeviceStoreProofs --------------------------
(***************************************************************************)
(* Proofs about DeviceStore, for any addresses, devices and number of      *)
(* events: the type invariant with the uniqueness of keys and addresses,   *)
(* that synchronizing makes up no settings, and the only ways for a linked *)
(* device to lose its own, whatever overlaps and whichever address is      *)
(* given to another device.                                                *)
(***************************************************************************)
EXTENDS DeviceStore, TLAPS

-----------------------------------------------------------------------------
(* Types.                                                                  *)

LEMMA SpendType == ASSUME budget \in 0..MaxEvents, Spend PROVE budget' \in 0..MaxEvents
BY DeviceAssumption DEF Spend

LEMMA IdleType == Idle \in Sync
BY DEF Idle, Sync, Steps, Neighbors

\* What the type invariant says of the table: rows with unique keys.
Table(table) ==
  /\ table \in SUBSET Row
  /\ \A r, q \in table : r.id = q.id \/ r.address = q.address => r = q

\* Deleting rows, and changing what is no key, keep it.
LEMMA WithoutTable == ASSUME Table(rows), NEW ids PROVE Table(Without(ids))
BY DEF Table, Without

LEMMA WithEnrollmentTable ==
  ASSUME Table(rows), NEW a, NEW on \in BOOLEAN PROVE Table(WithEnrollment(a, on))
BY DEF Table, WithEnrollment, Row

LEMMA NewRowTable ==
  ASSUME Table(rows), NEW a \in Addresses, RowAt(a) = {}, NEW i \in Unused,
         NEW r \in Row, r.id = i, r.address = a
  PROVE  Table(rows \cup {r})
BY DEF Table, RowAt, Unused

LEMMA MovedTable ==
  ASSUME Table(rows), NEW s \in Syncs, NEW a \in Addresses, Unique(Moved(s, a))
  PROVE  Table(Moved(s, a))
<1>1. Moved(s, a) \in SUBSET Row
  BY DEF Table, Moved, Without, Row
<1>2. \A q \in Moved(s, a) : \E r \in rows : r.id = q.id /\ q = IF r.id = sync[s].match THEN [r EXCEPT !.address = a] ELSE r
  BY DEF Table, Moved, Without, Row
<1>3. \A q, p \in Moved(s, a) : q.id = p.id => q = p
  BY <1>2 DEF Table
<1>4. QED
  BY <1>1, <1>3 DEF Table, Unique

LEMMA UpsertedType ==
  ASSUME sync \in [Syncs -> Sync], NEW s \in Syncs, NEW a \in Addresses, Upserted(s, a)
  PROVE  sync' \in [Syncs -> Sync]
<1>1. [sync[s] EXCEPT !.step = IF sync[s].todo = {a} THEN "select" ELSE "by_mac",
                      !.todo = sync[s].todo \ {a}, !.match = NoId, !.conflict = NoId] \in Sync
  BY DEF Sync, Steps
<1>2. QED
  BY <1>1 DEF Upserted

LEMMA StepTypeOK ==
  ASSUME TypeOK, NEW s \in Syncs, SyncStep(s) \/ Abort(s)
  PROVE  TypeOK'
<1> USE SpendType, IdleType
<1>0. Table(rows) /\ sync[s] \in Sync /\ sync \in [Syncs -> Sync]
  BY DEF TypeOK, Table
<1>1. SUFFICES Table(rows)' /\ sync' \in [Syncs -> Sync] /\ budget' \in 0..MaxEvents /\ UNCHANGED <<lan, linked, marked>>
  BY DEF TypeOK, Table
<1>2. \A a \in Addresses : Upserted(s, a) => sync' \in [Syncs -> Sync]
  BY <1>0, UpsertedType
<1>3. CASE Observe(s)
  <2>1. sync' \in [Syncs -> Sync]
    BY <1>0, <1>3 DEF Observe, Sync, Steps, TypeOK, Neighbors, Idle
  <2>2. QED
    BY <1>0, <1>3, <2>1 DEF Observe, TypeOK
<1>4. CASE FindByMac(s)
  <2>1. sync' \in [Syncs -> Sync]
    BY <1>0, <1>4 DEF FindByMac, OtherRows, Sync, Steps, Table, Row
  <2>2. QED
    BY <1>0, <1>4, <2>1 DEF FindByMac, TypeOK
<1>5. CASE FindConflict(s)
  <2>1. sync' \in [Syncs -> Sync]
    BY <1>0, <1>5 DEF FindConflict, Yielding, RowAt, Sync, Steps, Table, Row
  <2>2. QED
    BY <1>0, <1>5, <2>1 DEF FindConflict, TypeOK
<1>6. CASE Move(s)
  <2>1. PICK a \in Addresses : First(s, a) /\
              \/ Unique(Moved(s, a)) /\ rows' = Moved(s, a) /\ Upserted(s, a)
              \/ sync' = [sync EXCEPT ![s] = Idle] /\ UNCHANGED rows
    BY <1>6 DEF Move
  <2>2. QED
    BY <1>0, <1>2, <1>6, <2>1, MovedTable DEF Move, TypeOK, Steps
<1>7. CASE Insert(s)
  <2>1. PICK a \in Addresses : First(s, a) /\ Upserted(s, a) /\
              IF RowAt(a) = {}
              THEN \E i \in Unused : rows' = rows \cup {NewRow(i, a, sync[s].seen[a])}
              ELSE rows' = WithMac(a, sync[s].seen[a])
    BY <1>7 DEF Insert
  <2>2. sync[s].seen[a] \in Macs \cup {NoMac}
    BY <1>0 DEF Sync, Neighbors
  <2>3. CASE RowAt(a) = {}
    <3>1. PICK i \in Unused : rows' = rows \cup {NewRow(i, a, sync[s].seen[a])}
      BY <2>1, <2>3
    <3>2. NewRow(i, a, sync[s].seen[a]) \in Row
      BY <2>2, <3>1 DEF NewRow, Row, Unused
    <3>3. Table(rows \cup {NewRow(i, a, sync[s].seen[a])})
      BY <1>0, <2>3, <3>2, NewRowTable DEF NewRow
    <3>4. QED
      BY <1>2, <1>7, <2>1, <3>1, <3>3 DEF Insert, TypeOK, Steps, Table
  <2>4. CASE RowAt(a) # {}
    <3>1. rows' = WithMac(a, sync[s].seen[a])
      BY <2>1, <2>4
    <3>2. Table(rows)'
      BY <1>0, <2>2, <3>1 DEF Table, WithMac, Row
    <3>3. QED
      BY <1>2, <1>7, <2>1, <3>2 DEF Insert, TypeOK, Steps
  <2>5. QED
    BY <2>3, <2>4
<1>8. CASE SelectAbsent(s)
  <2>1. sync' \in [Syncs -> Sync]
    <3>1. {r.id : r \in Prunable(s)} \in SUBSET Ids
      BY <1>0 DEF Prunable, Table, Row
    <3>2. [sync[s] EXCEPT !.step = "delete", !.doomed = {r.id : r \in Prunable(s)}] \in Sync
      BY <1>0, <3>1 DEF Sync, Steps
    <3>3. QED
      BY <1>0, <1>8, <3>2 DEF SelectAbsent
  <2>2. QED
    BY <1>0, <1>8, <2>1 DEF SelectAbsent, TypeOK
<1>9. CASE DeleteAbsent(s)
  <2>1. Table(Without(sync[s].doomed))
    BY <1>0, WithoutTable
  <2>2. QED
    <3>1. rows' = Without(sync[s].doomed) /\ sync' = [sync EXCEPT ![s] = Idle] /\ UNCHANGED <<lan, linked, marked, budget>>
      BY <1>9 DEF DeleteAbsent
    <3>2. Table(rows')
      BY <2>1, <3>1
    <3>3. QED
      BY <1>0, <3>1, <3>2 DEF TypeOK
<1>10. CASE Abort(s)
  BY <1>0, <1>10 DEF Abort, TypeOK
<1>11. QED
  BY <1>3, <1>4, <1>5, <1>6, <1>7, <1>8, <1>9, <1>10 DEF SyncStep

LEMMA RequestTypeOK ==
  ASSUME TypeOK,
         \/ \E a \in Addresses : Link(a) \/ Unlink(a) \/ ConfigureUnknown(a)
         \/ \E a \in Addresses, on \in BOOLEAN : Configure(a, on)
         \/ UnlinkAll \/ LanChange
  PROVE  TypeOK'
<1>0. Table(rows)
  BY DEF TypeOK, Table
<1> DEFINE Goal == /\ Table(rows') /\ lan' \in Neighbors /\ linked' \in SUBSET Macs
                   /\ marked' \in SUBSET linked' /\ Spend /\ UNCHANGED sync
<1>1. SUFFICES Goal
  BY SpendType DEF TypeOK, Table
<1>2. \A a \in Addresses : \A r \in RowAt(a) : r \in rows /\ r.mac \in Macs \cup {NoMac} /\ r.configured \in BOOLEAN
  BY <1>0 DEF RowAt, Table, Row
<1>3. ASSUME NEW a \in Addresses, Link(a) PROVE Goal
  <2>1. Table(rows')
    BY <1>0, <1>3, WithEnrollmentTable DEF Link
  <2>2. QED
    BY <1>2, <1>3, <2>1 DEF Link, TypeOK
<1>4. ASSUME NEW a \in Addresses, Unlink(a) PROVE Goal
  <2>1. Table(rows')
    BY <1>0, <1>4, WithEnrollmentTable DEF Unlink
  <2>2. QED
    BY <1>2, <1>4, <2>1 DEF Unlink, TypeOK
<1>5. ASSUME NEW a \in Addresses, ConfigureUnknown(a) PROVE Goal
  <2>1. PICK i \in Unused : rows' = rows \cup {[NewRow(i, a, NoMac) EXCEPT !.configured = TRUE]}
    BY <1>5 DEF ConfigureUnknown
  <2>2. [NewRow(i, a, NoMac) EXCEPT !.configured = TRUE] \in Row
    BY <2>1 DEF NewRow, Row, Unused
  <2>3. Table(rows')
    BY <1>0, <1>5, <2>1, <2>2, NewRowTable DEF NewRow, ConfigureUnknown
  <2>4. QED
    BY <1>5, <2>3 DEF ConfigureUnknown, TypeOK
<1>6. ASSUME NEW a \in Addresses, NEW on \in BOOLEAN, Configure(a, on) PROVE Goal
  <2>1. Table(rows')
    BY <1>0, <1>6 DEF Configure, WithSettings, Table, Row
  <2>2. QED
    BY <1>2, <1>6, <2>1 DEF Configure, TypeOK
<1>7. CASE UnlinkAll
  <2>1. Table(rows')
    <3>1. \A r \in rows : /\ [r EXCEPT !.enrolled = FALSE] \in Row
                           /\ [r EXCEPT !.enrolled = FALSE].id = r.id
                           /\ [r EXCEPT !.enrolled = FALSE].address = r.address
      BY <1>0 DEF Table, Row
    <3>2. \A q \in rows' : \E r \in rows : q = [r EXCEPT !.enrolled = FALSE]
      BY <1>7 DEF UnlinkAll
    <3>3. rows' \in SUBSET Row
      BY <1>0, <3>1, <3>2 DEF Table
    <3>4. ASSUME NEW q \in rows', NEW p \in rows', q.id = p.id \/ q.address = p.address PROVE q = p
      <4>1. PICK r \in rows : q = [r EXCEPT !.enrolled = FALSE]
        BY <3>2
      <4>2. PICK t \in rows : p = [t EXCEPT !.enrolled = FALSE]
        BY <3>2
      <4>3. r.id = t.id \/ r.address = t.address
        BY <3>1, <3>4, <4>1, <4>2
      <4>4. QED
        BY <1>0, <4>1, <4>2, <4>3 DEF Table
    <3>5. QED
      BY <3>3, <3>4 DEF Table
  <2>2. QED
    BY <1>7, <2>1 DEF UnlinkAll, TypeOK
<1>8. CASE LanChange
  BY <1>0, <1>8 DEF LanChange, Views, TypeOK
<1>9. QED
  BY <1>3, <1>4, <1>5, <1>6, <1>7, <1>8

\* Types, unique keys and unique addresses, with any overlap.
THEOREM TypeCorrect == Spec => []TypeOK
<1>1. Init => TypeOK
  BY DeviceAssumption, IdleType DEF Init, TypeOK, Views
<1>2. TypeOK /\ [Next]_vars => TypeOK'
  <2>1. SUFFICES ASSUME TypeOK, [Next]_vars PROVE TypeOK'
    OBVIOUS
  <2>2. CASE Next
    BY <2>1, <2>2, StepTypeOK, RequestTypeOK DEF Next
  <2>3. CASE UNCHANGED vars
    BY <2>1, <2>3 DEF vars, TypeOK
  <2>4. QED
    BY <2>1, <2>2, <2>3
<1>3. QED
  BY <1>1, <1>2, PTL DEF Spec

-----------------------------------------------------------------------------
(* No settings out of nowhere.                                             *)

\* A row that has moved is still the same row.
LEMMA MovedRows ==
  ASSUME Table(rows), NEW s, NEW a, NEW q \in Moved(s, a)
  PROVE  \E r \in rows : /\ r.id # sync[s].conflict
                         /\ q.id = r.id /\ q.mac = r.mac
                         /\ q.enrolled = r.enrolled /\ q.configured = r.configured
                         /\ q.address = IF r.id = sync[s].match THEN a ELSE r.address
BY DEF Table, Moved, Without, Row

\* So is one that has been given a MAC.
LEMMA AdoptedRows ==
  ASSUME Table(rows), NEW a, NEW mac
  PROVE  \A q \in WithMac(a, mac) :
           \E r \in rows : /\ q.id = r.id /\ q.address = r.address
                          /\ q.enrolled = r.enrolled /\ q.configured = r.configured
                          /\ q.mac = IF r.address = a THEN mac ELSE r.mac
BY DEF Table, WithMac, Row

\* A synchronization never makes up a link or a setting, whatever overlaps.
THEOREM NoSettingsMadeUp == Spec => NothingMadeUp
<1> DEFINE FromTable == \A q \in rows' : q.enrolled \/ q.configured =>
             \E r \in rows : r.id = q.id /\ r.enrolled = q.enrolled /\ r.configured = q.configured
<1>1. TypeOK /\ [Next]_vars => [sync' # sync => FromTable]_vars
  <2>1. SUFFICES ASSUME TypeOK, Next, sync' # sync PROVE FromTable
    BY DEF vars
  <2>2. Table(rows)
    BY <2>1 DEF TypeOK, Table
  <2>3. PICK s \in Syncs : SyncStep(s) \/ Abort(s)
    BY <2>1 DEF Next, Link, Unlink, ConfigureUnknown, Configure, UnlinkAll, LanChange
  <2>4. CASE Observe(s) \/ FindByMac(s) \/ FindConflict(s) \/ SelectAbsent(s) \/ Abort(s)
    BY <2>4 DEF Observe, FindByMac, FindConflict, SelectAbsent, Abort
  <2>5. CASE Move(s)
    BY <2>2, <2>5, MovedRows DEF Move
  <2>6. CASE Insert(s)
    <3>1. PICK a \in Addresses :
            IF RowAt(a) = {}
            THEN \E i \in Unused : rows' = rows \cup {NewRow(i, a, sync[s].seen[a])}
            ELSE rows' = WithMac(a, sync[s].seen[a])
      BY <2>6 DEF Insert
    <3>2. CASE RowAt(a) = {}
      BY <3>1, <3>2 DEF NewRow
    <3>3. CASE RowAt(a) # {}
      BY <2>2, <3>1, <3>3, AdoptedRows
    <3>4. QED
      BY <3>2, <3>3
  <2>7. CASE DeleteAbsent(s)
    BY <2>7 DEF DeleteAbsent, Without
  <2>8. QED
    BY <2>3, <2>4, <2>5, <2>6, <2>7 DEF SyncStep
<1>2. QED
  BY <1>1, TypeCorrect, PTL DEF Spec, NothingMadeUp

-----------------------------------------------------------------------------
(* The ways to lose settings.                                              *)

LEMMA EnrollmentRows ==
  ASSUME Table(rows), NEW a, NEW on \in BOOLEAN
  PROVE  /\ \A q \in WithEnrollment(a, on) : \E t \in rows :
              /\ q.id = t.id /\ q.address = t.address /\ q.mac = t.mac /\ q.configured = t.configured
              /\ q.enrolled = IF t.address = a THEN on ELSE t.enrolled
         /\ \A t \in rows : \E q \in WithEnrollment(a, on) : q.mac = t.mac
<1> DEFINE Set(r) == [r EXCEPT !.enrolled = on]
<1>1. \A r \in rows : Set(r).id = r.id /\ Set(r).address = r.address /\ Set(r).mac = r.mac
                      /\ Set(r).configured = r.configured /\ Set(r).enrolled = on
  BY DEF Table, Row
<1>2. WithEnrollment(a, on) = {IF r.address = a THEN Set(r) ELSE r : r \in rows}
  BY DEF WithEnrollment
<1>3. QED
  BY <1>1, <1>2

LEMMA EnrollmentKeys ==
  ASSUME Table(rows), NEW a, NEW on \in BOOLEAN
  PROVE  \A q \in WithEnrollment(a, on) : \E t \in rows : q.id = t.id /\ q.mac = t.mac
BY EnrollmentRows

LEMMA SettingsRows ==
  ASSUME Table(rows), NEW a, NEW on \in BOOLEAN
  PROVE  /\ \A q \in WithSettings(a, on) : \E t \in rows :
              /\ q.id = t.id /\ q.address = t.address /\ q.mac = t.mac /\ q.enrolled = t.enrolled
              /\ q.configured = IF t.address = a THEN on ELSE t.configured
         /\ \A t \in rows : \E q \in WithSettings(a, on) : q.mac = t.mac
<1> DEFINE Set(r) == [r EXCEPT !.configured = on]
<1>1. \A r \in rows : Set(r).id = r.id /\ Set(r).address = r.address /\ Set(r).mac = r.mac
                      /\ Set(r).enrolled = r.enrolled /\ Set(r).configured = on
  BY DEF Table, Row
<1>2. WithSettings(a, on) = {IF r.address = a THEN Set(r) ELSE r : r \in rows}
  BY DEF WithSettings
<1>3. QED
  BY <1>1, <1>2

\* The row r of a device that has its settings.
Sound(m, r) ==
  /\ RowsOf(m) = {r}
  /\ r.enrolled /\ (r.configured <=> m \in marked)
  /\ \A s \in Syncs : r.id \notin sync[s].doomed

\* A step carries the device's settings over if the row is still there, still
\* the only one of its hardware, and selected by nobody.
LEMMA Carried ==
  ASSUME TypeOK', NEW m, NEW r, NEW q \in rows', q.id = r.id, q.mac = m,
         q.enrolled, q.configured <=> m \in marked',
         \A p \in rows' : p.mac = m => p.id = r.id,
         \A s \in Syncs : r.id \notin sync'[s].doomed
  PROVE  Kept(m)'
<1>1. RowsOf(m)' = {q}
  BY DEF RowsOf, TypeOK
<1>2. QED
  BY <1>1 DEF Kept

\* Reading, and giving up, select nothing more.
LEMMA ReadKeeps ==
  ASSUME TypeOK, TypeOK', NEW m \in Macs, NEW r, Sound(m, r), NEW s \in Syncs,
         Observe(s) \/ FindByMac(s) \/ FindConflict(s) \/ SelectAbsent(s) \/ Abort(s)
  PROVE  Kept(m)'
<1>1. sync \in [Syncs -> Sync] /\ rows' = rows /\ marked' = marked
  BY DEF TypeOK, Observe, FindByMac, FindConflict, SelectAbsent, Abort
<1>2. r \in rows /\ r.mac = m /\ \A p \in rows : p.mac = m => p = r
  BY DEF Sound, RowsOf
<1>3. CASE Observe(s) \/ Abort(s)
  <2>1. sync'[s].doomed = {}
    <3>1. CASE Abort(s)
      BY <1>1, <3>1 DEF Abort, Idle
    <3>2. CASE Observe(s)
      BY <1>1, <3>2 DEF Observe, Idle
    <3>3. QED
      BY <1>3, <3>1, <3>2
  <2>2. \A t \in Syncs : t = s \/ sync'[t] = sync[t]
    BY <1>1, <1>3 DEF Observe, Abort
  <2>3. QED
    BY <1>1, <1>2, <2>1, <2>2, Carried DEF Sound
<1>4. CASE FindByMac(s) \/ FindConflict(s)
  <2>1. \A t \in Syncs : sync'[t].doomed = sync[t].doomed
    BY <1>1, <1>4 DEF FindByMac, FindConflict, Sync
  <2>2. QED
    BY <1>1, <1>2, <2>1, Carried DEF Sound
<1>5. CASE SelectAbsent(s)
  <2>1. \A p \in Prunable(s) : p \in rows /\ ~p.enrolled
    BY DEF Prunable
  <2>2. \A p \in Prunable(s) : p.id # r.id
    BY <1>2, <2>1 DEF Sound, TypeOK
  <2>3. \A t \in Syncs : r.id \notin sync'[t].doomed
    BY <1>1, <1>5, <2>2 DEF SelectAbsent, Sound, Sync
  <2>4. QED
    BY <1>1, <1>2, <2>3, Carried DEF Sound
<1>6. QED
  BY <1>3, <1>4, <1>5

LEMMA UpsertedDoomed ==
  ASSUME sync \in [Syncs -> Sync], NEW s \in Syncs, NEW a, Upserted(s, a)
  PROVE  /\ \A t \in Syncs : sync'[t].doomed = sync[t].doomed
         /\ sync'[s].step \in {"select", "by_mac"}
BY DEF Upserted, Sync

LEMMA MoveKeeps ==
  ASSUME TypeOK, TypeOK', NEW m \in Macs, NEW r, Sound(m, r), NEW s \in Syncs, Move(s),
         sync'[s] # sync[s] => ~DeletesLate(s, m)
  PROVE  Kept(m)'
<1>1. sync \in [Syncs -> Sync] /\ marked' = marked /\ At(s, "move") /\ Table(rows)
  BY DEF TypeOK, Move, Table
<1>2. r \in rows /\ r.mac = m /\ \A p \in rows : p.mac = m => p = r
  BY DEF Sound, RowsOf
<1>3. PICK a \in Addresses :
       \/ rows' = Moved(s, a) /\ Upserted(s, a)
       \/ rows' = rows /\ sync' = [sync EXCEPT ![s] = Idle]
  BY DEF Move
<1>4. CASE rows' = Moved(s, a) /\ Upserted(s, a)
  <2>1. sync'[s] # sync[s]
    BY <1>1, <1>4, UpsertedDoomed DEF At
  <2>2. r.id # sync[s].conflict
    BY <1>1, <1>2, <2>1 DEF DeletesLate, RowsOf
  <2> DEFINE q == IF r.id = sync[s].match THEN [r EXCEPT !.address = a] ELSE r
  <2>3. q \in Moved(s, a)
    BY <1>2, <2>2 DEF Moved, Without
  <2>4. q.id = r.id /\ q.mac = m /\ q.enrolled = r.enrolled /\ q.configured = r.configured
    BY <1>1, <1>2 DEF Table, Row
  <2>5. \A p \in Moved(s, a) : p.mac = m => p.id = r.id
    BY <1>1, <1>2, MovedRows
  <2>6. \A t \in Syncs : r.id \notin sync'[t].doomed
    BY <1>1, <1>4, UpsertedDoomed DEF Sound
  <2> HIDE DEF q
  <2>7. QED
    BY <1>1, <1>4, <2>3, <2>4, <2>5, <2>6, Carried DEF Sound
<1>5. CASE rows' = rows /\ sync' = [sync EXCEPT ![s] = Idle]
  <2>1. \A t \in Syncs : sync'[t].doomed \subseteq sync[t].doomed
    BY <1>1, <1>5 DEF Idle, Sync
  <2>2. QED
    BY <1>1, <1>2, <1>5, <2>1, Carried DEF Sound
<1>6. QED
  BY <1>3, <1>4, <1>5

LEMMA InsertKeeps ==
  ASSUME TypeOK, TypeOK', NEW m \in Macs, NEW r, Sound(m, r), NEW s \in Syncs, Insert(s),
         sync'[s] # sync[s] => \A a \in Addresses : ~Duplicates(s, a, m) /\ ~TakesOver(s, a, m)
  PROVE  Kept(m)'
<1>1. sync \in [Syncs -> Sync] /\ marked' = marked /\ At(s, "insert") /\ Table(rows)
  BY DEF TypeOK, Insert, Table
<1>2. r \in rows /\ r.mac = m /\ \A p \in rows : p.mac = m => p = r
  BY DEF Sound, RowsOf
<1>3. PICK a \in Addresses :
       /\ First(s, a) /\ Upserted(s, a)
       /\ IF RowAt(a) = {}
            THEN \E i \in Unused : rows' = rows \cup {NewRow(i, a, sync[s].seen[a])}
            ELSE rows' = WithMac(a, sync[s].seen[a])
  BY DEF Insert
<1> DEFINE mac == sync[s].seen[a]
<1>4. sync'[s] # sync[s]
  BY <1>1, <1>3, UpsertedDoomed DEF At
<1>5. mac = m => r.address = a
  BY <1>1, <1>2, <1>3, <1>4 DEF Duplicates, OtherRows
<1>6. r.address = a => mac = m
  BY <1>1, <1>2, <1>3, <1>4 DEF TakesOver, RowAt, RowsOf
<1>7. \A t \in Syncs : r.id \notin sync'[t].doomed
  BY <1>1, <1>3, UpsertedDoomed DEF Sound
<1>8. CASE RowAt(a) = {}
  <2>1. mac # m
    BY <1>2, <1>5, <1>8 DEF RowAt
  <2>2. PICK i \in Unused : rows' = rows \cup {NewRow(i, a, mac)}
    BY <1>3, <1>8
  <2>3. \A p \in rows' : p.mac = m => p = r
    BY <1>2, <2>1, <2>2 DEF NewRow
  <2>4. QED
    BY <1>1, <1>2, <1>7, <2>2, <2>3, Carried DEF Sound
<1>9. CASE RowAt(a) # {}
  <2>1. rows' = WithMac(a, mac)
    BY <1>3, <1>9
  <2> DEFINE q == IF r.address = a THEN [r EXCEPT !.mac = mac] ELSE r
  <2>2. q \in rows'
    BY <1>2, <2>1 DEF WithMac
  <2>3. q.id = r.id /\ q.mac = m /\ q.enrolled = r.enrolled /\ q.configured = r.configured
    BY <1>1, <1>2, <1>6 DEF Table, Row
  <2>4. ASSUME NEW p \in rows', p.mac = m PROVE p.id = r.id
    <3>1. PICK t \in rows : p.id = t.id /\ p.mac = IF t.address = a THEN mac ELSE t.mac
      BY <1>1, <2>1, AdoptedRows
    <3>2. t = r
      BY <1>1, <1>2, <1>5, <2>4, <3>1 DEF Table
    <3>3. QED
      BY <3>1, <3>2
  <2> HIDE DEF q
  <2>5. QED
    BY <1>1, <1>7, <2>2, <2>3, <2>4, Carried DEF Sound
<1>10. QED
  BY <1>8, <1>9

LEMMA DeleteKeeps ==
  ASSUME TypeOK, TypeOK', NEW m \in Macs, NEW r, Sound(m, r), NEW s \in Syncs, DeleteAbsent(s)
  PROVE  Kept(m)'
<1>1. sync \in [Syncs -> Sync] /\ marked' = marked /\ rows' = Without(sync[s].doomed)
  BY DEF TypeOK, DeleteAbsent
<1>2. r \in rows /\ r.mac = m /\ \A p \in rows : p.mac = m => p = r
  BY DEF Sound, RowsOf
<1>3. r \in rows' /\ \A p \in rows' : p.mac = m => p.id = r.id
  BY <1>1, <1>2 DEF Without, Sound
<1>4. \A t \in Syncs : sync'[t].doomed \subseteq sync[t].doomed
  BY <1>1 DEF DeleteAbsent, Idle, Sync
<1>5. QED
  BY <1>1, <1>2, <1>3, <1>4, Carried DEF Sound

\* A request changes one row, and its device's record with it.
Request ==
  \/ LanChange
  \/ \E a \in Addresses : Link(a) \/ Unlink(a) \/ ConfigureUnknown(a)
  \/ \E a \in Addresses, on \in BOOLEAN : Configure(a, on)

LEMMA RequestKeeps ==
  ASSUME TypeOK, TypeOK', NEW m \in linked', NEW r, Sound(m, r), Request
  PROVE  Kept(m)'
<1>1. m \in Macs /\ Table(rows) /\ sync' = sync
  BY DEF TypeOK, Table, Request, LanChange, Link, Unlink, ConfigureUnknown, Configure
<1>2. r \in rows /\ r.mac = m /\ \A p \in rows : p.mac = m => p = r
  BY DEF Sound, RowsOf
<1>3. ASSUME NEW q \in rows', q.id = r.id, q.mac = m, q.enrolled, q.configured <=> m \in marked',
             \A p \in rows' : p.mac = m => \E t \in rows : p.id = t.id /\ t.mac = m
      PROVE  Kept(m)'
  BY <1>1, <1>2, <1>3, Carried DEF Sound
<1>4. CASE LanChange
  BY <1>2, <1>3, <1>4 DEF LanChange, Sound
<1>5. ASSUME NEW a \in Addresses, Link(a) PROVE Kept(m)'
  <2>1. PICK t \in rows :
          /\ t.address = a
          /\ rows' = WithEnrollment(a, TRUE)
          /\ marked' = marked \cup (IF t.configured THEN {t.mac} \ {NoMac} ELSE {})
    BY <1>5 DEF Link, RowAt
  <2> DEFINE q == IF r.address = a THEN [r EXCEPT !.enrolled = TRUE] ELSE r
  <2>2. q \in rows'
    BY <1>2, <2>1 DEF WithEnrollment
  <2>3. q.id = r.id /\ q.mac = m /\ q.enrolled /\ q.configured = r.configured
    BY <1>1, <1>2 DEF Table, Row, Sound
  <2>4. m \in marked' <=> m \in marked
    BY <1>2, <2>1 DEF Sound
  <2>5. \A p \in rows' : p.mac = m => \E u \in rows : p.id = u.id /\ u.mac = m
    <3>1. \A on \in BOOLEAN : \A p \in WithEnrollment(a, on) : \E u \in rows : p.id = u.id /\ p.mac = u.mac
      BY <1>1, EnrollmentKeys
    <3>2. \A p \in rows' : \E u \in rows : p.id = u.id /\ p.mac = u.mac
      BY <2>1, <3>1
    <3>3. QED
      BY <3>2
  <2> HIDE DEF q
  <2>6. QED
    BY <1>3, <2>2, <2>3, <2>4, <2>5 DEF Sound
<1>6. ASSUME NEW a \in Addresses, Unlink(a) PROVE Kept(m)'
  <2>1. PICK t \in rows :
          /\ t.address = a
          /\ rows' = WithEnrollment(a, FALSE)
          /\ linked' = linked \ {t.mac} /\ marked' = marked \ {t.mac}
    BY <1>6 DEF Unlink, RowAt
  <2>2. r.address # a
    BY <1>1, <1>2, <2>1 DEF Table
  <2>3. r \in rows'
    BY <1>2, <2>1, <2>2 DEF WithEnrollment
  <2>4. \A p \in rows' : p.mac = m => \E u \in rows : p.id = u.id /\ u.mac = m
    <3>1. \A on \in BOOLEAN : \A p \in WithEnrollment(a, on) : \E u \in rows : p.id = u.id /\ p.mac = u.mac
      BY <1>1, EnrollmentKeys
    <3>2. \A p \in rows' : \E u \in rows : p.id = u.id /\ p.mac = u.mac
      BY <2>1, <3>1
    <3>3. QED
      BY <3>2
  <2>5. QED
    BY <1>2, <1>3, <2>1, <2>3, <2>4 DEF Sound
<1>7. ASSUME NEW a \in Addresses, ConfigureUnknown(a) PROVE Kept(m)'
  <2>1. PICK i \in Unused : rows' = rows \cup {[NewRow(i, a, NoMac) EXCEPT !.configured = TRUE]}
    BY <1>7 DEF ConfigureUnknown
  <2>2. m # NoMac /\ marked' = marked
    BY <1>1, <1>7, DeviceAssumption DEF ConfigureUnknown
  <2>3. r \in rows' /\ \A p \in rows' : p.mac = m => p \in rows
    BY <1>2, <2>1, <2>2 DEF NewRow
  <2>4. QED
    BY <1>2, <1>3, <2>2, <2>3 DEF Sound
<1>8. ASSUME NEW a \in Addresses, NEW on \in BOOLEAN, Configure(a, on) PROVE Kept(m)'
  <2>1. PICK t \in rows :
          /\ t.address = a
          /\ rows' = WithSettings(a, on)
          /\ linked' = linked
          /\ marked' = IF on THEN marked \cup ({t.mac} \cap linked) ELSE marked \ {t.mac}
    BY <1>8 DEF Configure, RowAt
  <2> DEFINE q == IF r.address = a THEN [r EXCEPT !.configured = on] ELSE r
  <2>2. q \in rows'
    BY <1>2, <2>1 DEF WithSettings
  <2>3. /\ q.id = r.id /\ q.mac = m /\ q.enrolled = r.enrolled
        /\ q.configured = IF r.address = a THEN on ELSE r.configured
    BY <1>1, <1>2 DEF Table, Row
  <2>4. r.address = a <=> t.mac = m
    BY <1>1, <1>2, <2>1 DEF Table
  <2>5. q.configured <=> m \in marked'
    BY <2>1, <2>3, <2>4 DEF Sound
  <2>6. \A p \in rows' : p.mac = m => \E u \in rows : p.id = u.id /\ u.mac = m
    BY <1>1, <2>1, SettingsRows
  <2> HIDE DEF q
  <2>7. QED
    BY <1>3, <2>2, <2>3, <2>5, <2>6 DEF Sound
<1>9. QED
  BY <1>4, <1>5, <1>6, <1>7, <1>8 DEF Request

\* A device that is linked anew has its settings, unless it has several rows or
\* its row is about to be deleted.
LEMMA LinkKeeps ==
  ASSUME TypeOK, TypeOK', NEW m \in linked', m \notin linked, NEW a \in Addresses, Link(a),
         \A r, q \in RowsOf(m) : r = q,
         \A r \in RowsOf(m), s \in Syncs : r.id \notin sync[s].doomed
  PROVE  Kept(m)'
<1>1. Table(rows) /\ sync' = sync /\ m \notin marked
  BY DEF TypeOK, Table, Link
<1>2. PICK r \in rows :
        /\ r.address = a
        /\ rows' = WithEnrollment(a, TRUE)
        /\ linked' = linked \cup ({r.mac} \ {NoMac})
        /\ marked' = marked \cup (IF r.configured THEN {r.mac} \ {NoMac} ELSE {})
  BY DEF Link, RowAt
<1>3. r.mac = m /\ m # NoMac /\ r \in RowsOf(m)
  BY <1>2 DEF RowsOf
<1> DEFINE q == [r EXCEPT !.enrolled = TRUE]
<1>4. q \in rows'
  BY <1>2 DEF WithEnrollment
<1>5. q.id = r.id /\ q.mac = m /\ q.enrolled /\ q.configured = r.configured
  BY <1>1, <1>3 DEF Table, Row
<1>6. \A p \in rows' : p.mac = m => p.id = r.id
  <2>1. \A p \in rows' : \E u \in rows : p.id = u.id /\ p.mac = u.mac
    <3>1. \A on \in BOOLEAN : \A p \in WithEnrollment(a, on) : \E u \in rows : p.id = u.id /\ p.mac = u.mac
      BY <1>1, EnrollmentKeys
    <3>2. QED
      BY <1>2, <3>1
  <2>2. QED
    BY <1>3, <2>1 DEF RowsOf
<1>7. r.configured <=> m \in marked'
  BY <1>1, <1>2, <1>3
<1> HIDE DEF q
<1>8. QED
  BY <1>1, <1>3, <1>4, <1>5, <1>6, <1>7, Carried

\* A linked device loses its settings in no other way: not by moving to another
\* address, by requests for it or for others, by pruning, or by a synchronization
\* that is given up half way.
THEOREM SettingsLossIsBounded == Spec => SettingsStay
<1> DEFINE Excepted(m) ==
      \/ \E s \in Syncs : sync'[s] # sync[s] /\ Harms(s, m)
      \/ m \in linked /\ ~Kept(m)
      \/ /\ m \notin linked
         /\ \/ \E r, q \in RowsOf(m) : r # q
            \/ \E r \in RowsOf(m), s \in Syncs : r.id \in sync[s].doomed
<1>1. ASSUME TypeOK, TypeOK', Next, NEW m \in linked', ~Excepted(m) PROVE Kept(m)'
  <2>1. CASE m \in linked
    <3>1. PICK r : Sound(m, r)
      BY <1>1, <2>1 DEF Kept, Sound
    <3>2. m \in Macs
      BY <1>1, <2>1 DEF TypeOK
    <3>3. ASSUME NEW s \in Syncs, SyncStep(s) \/ Abort(s) PROVE Kept(m)'
      BY <1>1, <3>1, <3>2, <3>3, ReadKeeps, MoveKeeps, InsertKeeps, DeleteKeeps DEF SyncStep, Harms
    <3>4. ~UnlinkAll
      BY <1>1 DEF UnlinkAll
    <3>5. QED
      BY <1>1, <3>1, <3>3, <3>4, RequestKeeps DEF Next, Request
  <2>2. CASE m \notin linked
    <3>1. PICK a \in Addresses : Link(a)
      BY <1>1, <2>2 DEF Next, SyncStep, Observe, FindByMac, FindConflict, Move, Insert,
           SelectAbsent, DeleteAbsent, Abort, Unlink, ConfigureUnknown, Configure, UnlinkAll, LanChange
    <3>2. QED
      BY <1>1, <2>2, <3>1, LinkKeeps
  <2>3. QED
    BY <2>1, <2>2
<1>2. ASSUME TypeOK, TypeOK', UNCHANGED vars, NEW m \in linked', ~Excepted(m) PROVE Kept(m)'
  BY <1>2 DEF vars, Kept, RowsOf
<1>3. TypeOK /\ TypeOK' /\ [Next]_vars =>
        [\A m \in linked' :
           \/ Kept(m)'
           \/ \E s \in Syncs : sync'[s] # sync[s] /\ Harms(s, m)
           \/ m \in linked /\ ~Kept(m)
           \/ /\ m \notin linked
              /\ \/ \E r, q \in RowsOf(m) : r # q
                 \/ \E r \in RowsOf(m), s \in Syncs : r.id \in sync[s].doomed]_vars
  BY <1>1, <1>2
<1>4. QED
  BY <1>3, TypeCorrect, PTL DEF Spec, SettingsStay
=============================================================================
