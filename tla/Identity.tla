------------------------------- MODULE Identity -------------------------------
(***************************************************************************)
(* What a device is called and what it is taken for.  Three writers label   *)
(* the rows of devices: the agent and the dashboard's refresh and identify  *)
(* handlers, which sync the inventory (inventory.py, storage.py,            *)
(* identity.py) and apply what nmap found (discovery_service.py,            *)
(* nmap_identify.py), and the administrator, whose label is "manual" and    *)
(* meant to stand.                                                          *)
(*                                                                          *)
(* A statement that writes takes SQLite's lock and holds it until the       *)
(* connection commits; a SELECT before it holds nothing.  So an upsert is   *)
(* one step, and a label or an applied scan is two: the row it reads may    *)
(* be another one by the time it writes.  Rows that follow a MAC address to *)
(* another address are DeviceStore's subject.                               *)
(*                                                                          *)
(* A tick is the minute the agent leaves between two scans.                 *)
(***************************************************************************)
EXTENDS Integers, FiniteSets

CONSTANTS
  Devices,      \* LAN addresses
  Rank,         \* [Devices -> Nat]: their order as text
  Gateway,      \* the router's address, or one outside Devices
  Enrolled,     \* the devices a prune keeps
  Hosts,        \* hostnames
  NoHost,       \* and no hostname
  Types,        \* device types, "unknown" among them
  Inferred,     \* infer_device_type: [Devices -> [hostname -> type]]
  Suggested,    \* the type of suggest_identity: for the gateway "router", for
                \* others the same, or what the vendor suggests
  Branded,      \* devices whose MAC address names a vendor
  Plain,        \* [Devices -> names that only say Device, Android, Phone, Unknown]
  HandLabels,   \* labels the administrator gives: [name, type]
  Hints,        \* what nmap may find of a host: [type, host, os]
  None,         \* no row
  MaxHosts,     \* discovery.nmap_max_hosts
  UnknownGap,   \* ticks before an unknown device is scanned again (120 s)
  KnownGap,     \* and a known one (discovery.nmap_interval_seconds)
  MaxStarts     \* bound of the model: starts of the agent

ASSUME IdentityConstants ==
  /\ Rank \in [Devices -> Nat]
  /\ \A c, d \in Devices : Rank[c] = Rank[d] => c = d
  /\ "unknown" \in Types /\ None \notin Devices \union HandLabels
  /\ Inferred \in [Devices -> [Hosts \union {NoHost} -> Types]]
  /\ Suggested \in [Devices -> [Hosts \union {NoHost} -> Types]]
  /\ \A d \in Devices, h \in Hosts \union {NoHost} :
       d # Gateway /\ Inferred[d][h] # "unknown" => Suggested[d][h] = Inferred[d][h]
  /\ Gateway \in Devices => \A h \in Hosts \union {NoHost} : Suggested[Gateway][h] = "router"
  /\ \A label \in HandLabels : label.type \in Types
  /\ Hints \subseteq [type : Types, host : Hosts \union {NoHost}, os : BOOLEAN]
  /\ MaxHosts \in Nat \ {0} /\ UnknownGap \in Nat /\ KnownGap \in Nat
  /\ UnknownGap <= KnownGap

VARIABLES
  lan,          \* [present address -> hostname Pi-hole knows]
  rows,         \* devices: [address -> row or None]
  hand,         \* [address -> the label given by hand, or None] (history)
  raced,        \* addresses labelled by hand while a writer held their old row
  pc,           \* [thread -> where it stands]
  present,      \* [thread -> the present addresses its sync returned]
  todo,         \* [thread -> addresses it is about to scan or to label]
  hints,        \* [thread -> [scanned address -> Hints], still to apply]
  held,         \* [thread -> the address, arguments and row it works on]
  age,          \* [address -> ticks since the agent scanned it, up to KnownGap]
  due,          \* a tick has passed since the agent's last scan
  starts        \* starts of the agent

idVars == <<lan, rows, hand, raced, pc, present, todo, hints, held, age, due, starts>>
threadVars == <<present, todo, hints, held>>
agentOnly == <<age, due, starts>>

Threads == {"agent", "refresh", "identify"}
Nothing == [at |-> None, args |-> None, row |-> None]
NoName == [by |-> "none", of |-> "nothing"]

Earliest(d, D) == \A c \in D : Rank[d] <= Rank[c]

\* candidates.sort(), sorted(...), and the first MaxHosts of them.
FirstHosts(D, before(_, _)) ==
  {d \in D : Cardinality({c \in D : before(c, d)}) < MaxHosts}

-----------------------------------------------------------------------------
(* suggest_identity: the type, the confidence and the name, which tells the *)
(* hostname it is made from, or that there is none.                         *)
Suggestion(d, h) ==
  LET type == Suggested[d][h]
      high == d = Gateway \/ (h # NoHost /\ (type # "unknown" \/ d \in Branded))
      low == h = NoHost /\ d \notin Branded
  IN [type |-> type,
      name |-> [by |-> "auto", of |-> IF d = Gateway THEN NoHost ELSE h],
      conf |-> IF high THEN "high" ELSE IF low THEN "low" ELSE "medium"]

Known(type) == type # "unknown"

\* Mutant of AutoLabel: the suggested type replaces the row's.
AutoRetype(d, row) ==
  LET s == Suggestion(d, row.host)
  IN IF row.conf = "manual"
     THEN row
     ELSE [type |-> s.type, host |-> row.host, name |-> s.name, conf |-> s.conf]

\* Mutant of AutoLabel: whatever the row.
AutoLabelAny(d, row) ==
  LET s == Suggestion(d, row.host)
  IN [type |-> IF Known(row.type) THEN row.type ELSE s.type,
      host |-> row.host, name |-> s.name, conf |-> s.conf]

(* _auto_label_device on a row it read; of a row labelled by hand it only   *)
(* refreshes the vendor, which is left out.                                 *)
AutoLabel(d, row) ==
  LET s == Suggestion(d, row.host)
  IN IF row.conf = "manual"
     THEN row
     ELSE [type |-> IF Known(row.type) THEN row.type ELSE s.type,
           host |-> row.host, name |-> s.name, conf |-> s.conf]

(* upsert_device: the row with what was observed, and its new label.        *)
Upserted(d, h) ==
  LET row == rows[d]
  IN IF row = None
     THEN AutoLabel(d, [type |-> Inferred[d][h], host |-> h, name |-> NoName,
                        conf |-> "medium"])
     ELSE AutoLabel(d, [row EXCEPT
            !.host = IF h # NoHost THEN h ELSE @,
            !.type = IF Known(@) THEN @ ELSE Inferred[d][h]])

-----------------------------------------------------------------------------
(* collect_presence returns the addresses in the neighbor tables, with the  *)
(* hostname Pi-hole has for them, and sync_device_inventory upserts each    *)
(* (transactions on different rows, taken as one step).  The agent scans in *)
(* the passes in which a minute has gone by.                                *)
SyncInventory(t) ==
  /\ pc[t] = "idle"
  /\ rows' = [d \in Devices |-> IF d \in DOMAIN lan THEN Upserted(d, lan[d]) ELSE rows[d]]
  /\ present' = [present EXCEPT ![t] = DOMAIN lan]
  /\ pc' = [pc EXCEPT ![t] = "prune"]
  /\ UNCHANGED <<lan, hand, raced, todo, hints, held, agentOnly>>

(* prune_absent_devices, and where the thread goes from there.              *)
PruneAbsent(t) ==
  /\ pc[t] = "prune"
  /\ LET gone == Devices \ (present[t] \union Enrolled)
     IN /\ rows' = [d \in Devices |-> IF d \in gone THEN None ELSE rows[d]]
        /\ hand' = [d \in Devices |-> IF d \in gone THEN None ELSE hand[d]]
        /\ raced' = raced \ gone
  /\ pc' = [pc EXCEPT ![t] = IF t # "agent" THEN "list" ELSE IF due THEN "select" ELSE "idle"]
  /\ present' = [present EXCEPT ![t] = IF pc'[t] = "idle" THEN {} ELSE @]
  /\ UNCHANGED <<lan, todo, hints, held, agentOnly>>

-----------------------------------------------------------------------------
(* relabel_discovered_devices: the list of rows not labelled by hand; the   *)
(* first of them is read before the connection writes ...                   *)
AfterLabels(t) ==
  /\ pc' = [pc EXCEPT ![t] = IF t = "identify" THEN "select" ELSE "idle"]
  /\ present' = [present EXCEPT ![t] = IF t = "identify" THEN @ ELSE {}]

Labelled == {d \in Devices : rows[d] # None /\ rows[d].conf # "manual"}

ListRows(t) ==
  /\ pc[t] = "list"
  /\ IF Labelled = {}
     THEN AfterLabels(t) /\ UNCHANGED todo
     ELSE /\ todo' = [todo EXCEPT ![t] = Labelled]
          /\ pc' = [pc EXCEPT ![t] = "readLabel"]
          /\ UNCHANGED present
  /\ UNCHANGED <<lan, rows, hand, raced, hints, held, agentOnly>>

ReadLabel(t) ==
  /\ pc[t] = "readLabel"
  /\ \E d \in todo[t] :
       LET rest == todo[t] \ {d}
       IN /\ todo' = [todo EXCEPT ![t] = rest]
          /\ IF rows[d] # None
             THEN /\ held' = [held EXCEPT ![t] = [at |-> d, args |-> None, row |-> rows[d]]]
                  /\ pc' = [pc EXCEPT ![t] = "writeLabels"]
                  /\ UNCHANGED present
             ELSE /\ UNCHANGED held
                  /\ IF rest = {} THEN AfterLabels(t) ELSE UNCHANGED <<pc, present>>
  /\ UNCHANGED <<lan, rows, hand, raced, hints, agentOnly>>

(* ... and from its UPDATE on the others are read under the lock.           *)
WithLabel(row, label) ==
  IF row = None THEN None
  ELSE [row EXCEPT !.type = label.type, !.name = label.name, !.conf = label.conf]

WriteLabels(t) ==
  /\ pc[t] = "writeLabels"
  /\ LET d == held[t].at
         first == IF held[t].row.conf = "manual" THEN rows[d]
                  ELSE WithLabel(rows[d], AutoLabel(d, held[t].row))
     IN rows' = [c \in Devices |-> IF c = d THEN first
                                   ELSE IF c \in todo[t] /\ rows[c] # None
                                   THEN AutoLabel(c, rows[c]) ELSE rows[c]]
  /\ todo' = [todo EXCEPT ![t] = {}]
  /\ held' = [held EXCEPT ![t] = Nothing]
  /\ AfterLabels(t)
  /\ UNCHANGED <<lan, hand, raced, hints, agentOnly>>

-----------------------------------------------------------------------------
(* select_scan_targets: present, not labelled by hand, not scanned lately;  *)
(* the unknown ones first.                                                  *)
Candidates(t) ==
  {d \in present[t] : /\ rows[d] # None /\ rows[d].conf # "manual"
                      /\ age[d] >= IF Known(rows[d].type) THEN KnownGap ELSE UnknownGap}

Sooner(c, d) ==
  LET later(x) == Known(rows[x].type)
  IN IF later(c) = later(d) THEN Rank[c] < Rank[d] ELSE later(d)

(* The identify handler forces all that are present, by hand or not.        *)
Targets(t) ==
  IF t = "agent" THEN FirstHosts(Candidates(t), Sooner)
  ELSE FirstHosts(present[t], LAMBDA c, d : Rank[c] < Rank[d])

SelectTargets(t) ==
  /\ pc[t] = "select"
  /\ LET targets == Targets(t)
     IN /\ todo' = [todo EXCEPT ![t] = targets]
        /\ pc' = [pc EXCEPT ![t] = IF targets = {} THEN "idle" ELSE "scan"]
        /\ due' = (due /\ ~(t = "agent" /\ targets = {}))
  /\ present' = [present EXCEPT ![t] = {}]
  /\ UNCHANGED <<lan, rows, hand, raced, hints, held, age, starts>>

(* run_nmap_identification: fingerprint_hosts finds something of some of    *)
(* the targets, of none when nmap fails or takes too long.  The agent notes *)
(* the time for all of them; the handler's notes are its own.               *)
\* Mutant of Noted: only the hosts that nmap found something of.
NotedFound(targets, found) == found

Noted(targets, found) == targets

Scanned(t) ==
  /\ pc[t] = "scan"
  /\ \E found \in SUBSET todo[t] : \E answer \in [found -> Hints] :
       /\ hints' = [hints EXCEPT ![t] = answer]
       /\ age' = IF t # "agent" THEN age
                 ELSE [d \in Devices |-> IF d \in Noted(todo[t], found) THEN 0 ELSE age[d]]
  /\ todo' = [todo EXCEPT ![t] = {}]
  /\ pc' = [pc EXCEPT ![t] = "apply"]
  /\ UNCHANGED <<lan, rows, hand, raced, present, held, due, starts>>

-----------------------------------------------------------------------------
(* _display_name_for: no name keeps the one there is.                       *)
NameFor(d, hint, current) ==
  LET named(what) == [by |-> "nmap", of |-> what]
      keeps == current # NoName /\ current \notin Plain[d] /\ ~Known(hint.type)
  IN IF keeps THEN NoName
     ELSE IF hint.host # NoHost THEN named(hint.host)
     ELSE IF hint.type = "android" THEN named("android")
     ELSE IF hint.os THEN named("os") ELSE NoName

(* apply_nmap_identities: one hint after the other, in the hosts' order;    *)
(* get_device decides whether it is applied and with which arguments ...    *)
Look(t) ==
  /\ pc[t] = "apply"
  /\ \E d \in DOMAIN hints[t] :
       LET hint == hints[t][d]
           device == rows[d]
       IN /\ Earliest(d, DOMAIN hints[t])
          /\ hints' = [hints EXCEPT ![t] = [c \in DOMAIN @ \ {d} |-> @[c]]]
          /\ IF device = None \/ device.conf = "manual"
             THEN UNCHANGED <<held, pc>>
             ELSE /\ held' = [held EXCEPT ![t] = [at |-> d, row |-> None, args |->
                       [type |-> hint.type, host |-> hint.host,
                        name |-> NameFor(d, hint, device.name),
                        conf |-> IF Known(hint.type) THEN "nmap" ELSE device.conf]]]
                  /\ pc' = [pc EXCEPT ![t] = "readRow"]
  /\ UNCHANGED <<lan, rows, hand, raced, present, todo, agentOnly>>

(* ... apply_discovered_identity reads the row again, and writes all of it  *)
(* unless nothing would change.                                             *)
Applied(row, args) ==
  [type |-> IF Known(args.type) /\ (~Known(row.type) \/ args.conf = "nmap")
            THEN args.type ELSE row.type,
   host |-> IF args.host # NoHost THEN args.host ELSE row.host,
   name |-> IF args.name # NoName THEN args.name ELSE row.name,
   conf |-> args.conf]

Applies(row, args) == row # None /\ row.conf # "manual" /\ Applied(row, args) # row

ReadRow(t) ==
  /\ pc[t] = "readRow"
  /\ LET d == held[t].at
     IN IF Applies(rows[d], held[t].args)
        THEN /\ held' = [held EXCEPT ![t].row = rows[d]]
             /\ pc' = [pc EXCEPT ![t] = "writeRow"]
        ELSE /\ held' = [held EXCEPT ![t] = Nothing]
             /\ pc' = [pc EXCEPT ![t] = "apply"]
  /\ UNCHANGED <<lan, rows, hand, raced, present, todo, hints, agentOnly>>

WriteRow(t) ==
  /\ pc[t] = "writeRow"
  /\ LET d == held[t].at
     IN rows' = [rows EXCEPT ![d] = IF @ = None THEN None
                                    ELSE Applied(held[t].row, held[t].args)]
  /\ held' = [held EXCEPT ![t] = Nothing]
  /\ pc' = [pc EXCEPT ![t] = "apply"]
  /\ UNCHANGED <<lan, hand, raced, present, todo, hints, agentOnly>>

(* The scan is over; the agent notes the time of its pass.                  *)
ScanOver(t) ==
  /\ pc[t] = "apply" /\ DOMAIN hints[t] = {}
  /\ pc' = [pc EXCEPT ![t] = "idle"]
  /\ due' = (due /\ t # "agent")
  /\ UNCHANGED <<lan, rows, hand, raced, threadVars, age, starts>>

Work(t) ==
  \/ SyncInventory(t) \/ PruneAbsent(t)
  \/ ListRows(t) \/ ReadLabel(t) \/ WriteLabels(t)
  \/ SelectTargets(t) \/ Scanned(t)
  \/ Look(t) \/ ReadRow(t) \/ WriteRow(t) \/ ScanOver(t)

-----------------------------------------------------------------------------
(* update_device_identity: name, type and "manual", on a new row if there   *)
(* is none.                                                                 *)
Holding(d) == {t \in Threads : pc[t] \in {"writeLabels", "writeRow"} /\ held[t].at = d}

SetIdentity ==
  \E d \in Devices, label \in HandLabels :
    LET row == [type |-> label.type, name |-> [by |-> "hand", of |-> label.name], conf |-> "manual",
                host |-> IF rows[d] = None THEN NoHost ELSE rows[d].host]
    IN /\ rows' = [rows EXCEPT ![d] = row]
       /\ hand' = [hand EXCEPT ![d] = label]
       /\ raced' = IF Holding(d) = {} THEN raced \ {d} ELSE raced \union {d}
       /\ UNCHANGED <<lan, pc, threadVars, agentOnly>>

(* Devices come, go, and tell Pi-hole a hostname or not.                    *)
LanChanges ==
  /\ \E D \in SUBSET Devices : \E names \in [D -> Hosts \union {NoHost}] :
       names # lan /\ lan' = names
  /\ UNCHANGED <<rows, hand, raced, pc, threadVars, agentOnly>>

(* A minute: the agent, when it is due, gets to its scan within it, and the *)
(* scan is over within it (fingerprint_hosts gives up after 90 seconds).    *)
Minute ==
  /\ ~due /\ due' = TRUE
  /\ age' = [d \in Devices |-> IF age[d] < KnownGap THEN age[d] + 1 ELSE KnownGap]
  /\ UNCHANGED <<lan, rows, hand, raced, pc, threadVars, starts>>

(* The agent starts again: what it scanned, and when, is forgotten.         *)
AgentStarts ==
  /\ starts < MaxStarts /\ starts' = starts + 1
  /\ pc' = [pc EXCEPT !["agent"] = "idle"]
  /\ present' = [present EXCEPT !["agent"] = {}]
  /\ todo' = [todo EXCEPT !["agent"] = {}]
  /\ hints' = [hints EXCEPT !["agent"] = <<>>]
  /\ held' = [held EXCEPT !["agent"] = Nothing]
  /\ age' = [d \in Devices |-> KnownGap] /\ due' = TRUE
  /\ UNCHANGED <<lan, rows, hand, raced>>

IdInit ==
  /\ lan = <<>> /\ rows = [d \in Devices |-> None]
  /\ hand = [d \in Devices |-> None] /\ raced = {}
  /\ pc = [t \in Threads |-> "idle"] /\ present = [t \in Threads |-> {}]
  /\ todo = [t \in Threads |-> {}] /\ hints = [t \in Threads |-> <<>>]
  /\ held = [t \in Threads |-> Nothing]
  /\ age = [d \in Devices |-> KnownGap] /\ due = TRUE /\ starts = 1

IdNext ==
  \/ \E t \in Threads : Work(t)
  \/ SetIdentity \/ LanChanges \/ Minute \/ AgentStarts

(* The agent's loop goes on and time passes; nobody has to use the          *)
(* dashboard.                                                               *)
IdFairness == WF_idVars(Work("agent")) /\ WF_idVars(Minute)

IdSpec == IdInit /\ [][IdNext]_idVars /\ IdFairness

-----------------------------------------------------------------------------
NameOf == [by : {"none"}, of : {"nothing"}] \union [by : {"auto"}, of : Hosts \union {NoHost}]
            \union [by : {"nmap"}, of : Hosts \union {"android", "os"}]
            \union [by : {"hand"}, of : {label.name : label \in HandLabels}]
Row == [type : Types, host : Hosts \union {NoHost}, name : NameOf,
        conf : {"manual", "nmap", "high", "medium", "low"}]
ASSUME NoRow == None \notin Row

(* The types of the variables, and two facts about what a thread holds: a   *)
(* row only between its SELECT and its UPDATE, and never, when it is about  *)
(* to apply a scan, a row labelled by hand.                                 *)
IdTypeOK ==
  /\ DOMAIN lan \subseteq Devices
  /\ rows \in [Devices -> Row \union {None}]
  /\ hand \in [Devices -> HandLabels \union {None}]
  /\ raced \subseteq Devices
  /\ pc \in [Threads -> {"idle", "prune", "list", "readLabel", "writeLabels", "select",
                         "scan", "apply", "readRow", "writeRow"}]
  /\ \A t \in Threads :
       /\ present[t] \subseteq Devices /\ todo[t] \subseteq Devices
       /\ DOMAIN hints[t] \subseteq Devices
       /\ held[t].row # None <=> pc[t] \in {"writeLabels", "writeRow"}
       /\ pc[t] = "writeRow" => held[t].row.conf # "manual"
  /\ age \in [Devices -> 0 .. KnownGap]

(* What the administrator says of a device stands while its row is there:   *)
(* only a writer that had read the row before takes it back.  (The type     *)
(* "unknown" does not stand: the next pass that sees a telling hostname     *)
(* replaces it.)                                                            *)
HandLabelsStand ==
  \A d \in Devices :
    hand[d] # None /\ d \notin raced =>
      /\ rows[d] # None /\ rows[d].conf = "manual"
      /\ rows[d].name = [by |-> "hand", of |-> hand[d].name]
      /\ Known(hand[d].type) => rows[d].type = hand[d].type

(* A known type is replaced only by hand, by a scan that knows one, or by a *)
(* writer whose row is an old one: no pass of the inventory and no relabel  *)
(* of what is there changes it.                                             *)
KnownTypesStay ==
  [][\A d \in Devices :
       /\ rows[d] # None /\ rows'[d] # None
       /\ Known(rows[d].type) /\ rows'[d].type # rows[d].type
       => \/ hand'[d] # None /\ rows'[d].name = [by |-> "hand", of |-> hand'[d].name]
          \/ \E t \in Threads : /\ pc[t] = "writeRow" /\ held[t].at = d
                                /\ Known(held[t].args.type)
          \/ \E t \in Threads : t \in Holding(d) /\ held[t].row # rows[d]
    ]_idVars

(* The agent's scans reach every device that stays: one that is never       *)
(* identified does not keep the others from being scanned.                  *)
ScansReachAll ==
  \A d \in Devices :
    <>[](d \in DOMAIN lan) =>
      []<>(\/ rows[d] # None /\ rows[d].conf = "manual"
           \/ pc["agent"] = "scan" /\ d \in todo["agent"])
=============================================================================
