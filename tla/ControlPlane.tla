---------------------------- MODULE ControlPlane ----------------------------
(***************************************************************************)
(* Who is linked: the agent's pass, the dashboard's control requests and   *)
(* the root helpers meet over two files, the devices table and the         *)
(* [network] section of config.toml, and nothing locks the two together.   *)
(*                                                                         *)
(* Every process is cut at each access to shared state.  The controller is *)
(* one step here, its effect the set of intercepted devices; NetController *)
(* shows how it gets there.  Devices are identified by address.            *)
(***************************************************************************)
EXTENDS Naturals, FiniteSets

CONSTANTS Addr,       \* addresses of devices that may be linked
          Androids,   \* those identified as Android devices
          Workers,    \* requests the dashboard's thread pool serves at a time
          Ops,        \* which requests occur
          Faults,     \* which faults occur: "helper", "crash"
          MaxEvents   \* bound on requests, presence changes and faults

AllOps == {"link", "unlink", "targets", "rollback", "emergency", "flags",
           "refresh", "identify", "autolink"}

ASSUME AddrAssumption == Androids \subseteq Addr
ASSUME OpsAssumption == Ops \subseteq AllOps /\ Faults \subseteq {"helper", "crash"}
ASSUME BoundAssumption == MaxEvents \in Nat

\* config.toml: network.mode and arp_assisted_targets, discovery.auto_link_android.
File == [mode : {"dns_only", "arp_assisted"}, targets : SUBSET Addr, auto : BOOLEAN]

VARIABLES
  present,   \* devices on the LAN, as a probe would find them
  rows,      \* devices table: rows
  enrolled,  \* devices table: managed = transparent_control = 1
  file,      \* config.toml
  linked,    \* devices the controller intercepts
  apc,       \* next step of the agent's pass
  settings,  \* settings of this pass
  seen,      \* observed_ips of this pass
  todo,      \* what a loop of the pass has left: devices found, rows selected
             \* for deletion, Androids to link
  desired,   \* targets reconcile_enrolled_targets computed
  req,       \* the requests being served
  settled,   \* 0: something changed since the pass began; 1: this pass began
             \* after the last change; 2: such a pass has ended
  cleared,   \* the last request was a successful rollback or emergency stop
  budget

db    == <<rows, enrolled>>
agent == <<apc, settings, seen, todo, desired>>
ghost == <<settled, cleared>>
vars  == <<present, rows, enrolled, file, linked, apc, settings, seen, todo,
           desired, req, settled, cleared, budget>>

\* What controller.apply makes of a configuration.
Interception(f) == IF f.mode = "arp_assisted" THEN f.targets ELSE {}

\* set-arp-assisted-targets.sh: the target list decides the mode.
SetTargets(T) ==
  [mode |-> IF T = {} THEN "dns_only" ELSE "arp_assisted", targets |-> T, auto |-> FALSE]

DnsOnly == SetTargets({})
Idle == [op |-> "none", step |-> "none", dev |-> {}, seen |-> {}, list |-> {}, text |-> DnsOnly,
         solo |-> TRUE]

Steps == {"none", "sync", "upsert", "select", "prune", "auto", "adopt",
          "enroll", "list", "clear", "read", "helper", "wipe"}
Request == [op : AllOps \cup {"none"}, step : Steps, dev : SUBSET Addr,
            seen : SUBSET Addr, list : SUBSET Addr, text : File, solo : BOOLEAN]

TypeOK ==
  /\ present \in SUBSET Addr
  /\ rows \in SUBSET Addr
  /\ enrolled \in SUBSET rows
  /\ file \in File
  /\ linked \in SUBSET Addr
  /\ apc \in {"load", "sync", "upsert", "select", "prune", "auto", "adopt", "decide", "write",
             "reload", "apply"}
  /\ settings \in File
  /\ seen \in SUBSET Addr
  /\ todo \in SUBSET Addr
  /\ desired \in SUBSET Addr
  /\ req \in [Workers -> Request]
  /\ settled \in 0..2
  /\ cleared \in BOOLEAN
  /\ budget \in 0..MaxEvents

Init ==
  /\ present \in SUBSET Addr
  /\ rows = {}
  /\ enrolled = {}
  /\ file = DnsOnly
  /\ linked = {}
  /\ apc = "load"
  /\ settings = DnsOnly
  /\ seen = {}
  /\ todo = {}
  /\ desired = {}
  /\ req = [w \in Workers |-> Idle]
  /\ settled = 0
  /\ cleared = FALSE
  /\ budget = MaxEvents

-----------------------------------------------------------------------------
(* The agent's pass.                                                       *)

AgentLoad ==
  /\ apc = "load"
  /\ settings' = file
  /\ settled' = IF settled = 0 THEN 1 ELSE settled
  /\ apc' = "sync"
  /\ UNCHANGED <<present, db, file, linked, seen, todo, desired, req, cleared, budget>>

\* The locals of a pass are dead between passes.
EndPass == apc' = "load" /\ settings' = DnsOnly /\ seen' = {}

\* The inventory synchronization: probing finds the devices present, and each
\* is upserted in a transaction of its own.
AgentProbe ==
  /\ apc = "sync"
  /\ seen' = present
  /\ todo' = present
  /\ apc' = IF present = {} THEN "select" ELSE "upsert"
  /\ UNCHANGED <<present, db, file, linked, settings, desired, req, ghost, budget>>

AgentUpsert ==
  /\ apc = "upsert"
  /\ \E a \in todo :
       /\ rows' = rows \cup {a}
       /\ todo' = todo \ {a}
       /\ apc' = IF todo = {a} THEN "select" ELSE "upsert"
  /\ UNCHANGED <<present, enrolled, file, linked, settings, seen, desired, req, ghost, budget>>

\* The DELETEs come after the SELECT, outside its transaction: a device
\* enrolled in between loses its row and with it its enrollment.
Prunable(observed) == rows \ (observed \cup enrolled)

Prune(selection) ==
  /\ rows' = rows \ selection
  /\ enrolled' = enrolled \ selection

AgentSelect ==
  /\ apc = "select"
  /\ todo' = Prunable(seen)
  /\ apc' = "prune"
  /\ UNCHANGED <<present, db, file, linked, settings, seen, desired, req, ghost, budget>>

AgentPrune ==
  /\ apc = "prune"
  /\ Prune(todo)
  /\ todo' = {}
  /\ apc' = "auto"
  /\ UNCHANGED <<present, file, linked, settings, seen, desired, req, ghost, budget>>

\* auto_enroll_android_devices, under the settings a process loaded: the list
\* it reads, and then a write per device.
NewAndroids(conf, observed) ==
  IF conf.auto THEN (Androids \cap observed \cap rows) \ enrolled ELSE {}

ListAndroids ==
  /\ apc = "auto"
  /\ todo' = NewAndroids(settings, seen)
  /\ apc' = IF NewAndroids(settings, seen) = {} THEN "decide" ELSE "adopt"
  /\ UNCHANGED <<present, db, file, linked, settings, seen, desired, req, ghost, budget>>

\* A device whose row is gone raises LookupError, which ends the pass.
AutoLinkAndroid ==
  /\ apc = "adopt"
  /\ \E a \in todo :
       \/ /\ a \in rows
          /\ enrolled' = enrolled \cup {a}
          /\ todo' = todo \ {a}
          /\ apc' = IF todo = {a} THEN "decide" ELSE "adopt"
          /\ UNCHANGED <<settings, seen, settled>>
       \/ /\ a \notin rows
          /\ EndPass
          /\ todo' = {}
          /\ settled' = 0
          /\ UNCHANGED enrolled
  /\ UNCHANGED <<present, rows, file, linked, desired, req, cleared, budget>>

Desired == enrolled \cap seen

\* Mutant of NeedsWrite: targets are added but never taken away.
NeedsWriteGrowing ==
  (settings.mode = "arp_assisted" \/ settings.targets # {}) /\ ~(Desired \subseteq settings.targets)

NeedsWrite ==
  /\ settings.mode = "arp_assisted" \/ settings.targets # {}
  /\ settings.targets # Desired

Reconcile ==
  /\ apc = "decide"
  /\ IF NeedsWrite
       THEN desired' = Desired /\ apc' = "write"
       ELSE UNCHANGED desired /\ apc' = "apply"
  /\ UNCHANGED <<present, db, file, linked, settings, seen, todo, req, ghost, budget>>

Fault(f) == f \in Faults /\ budget > 0 /\ budget' = budget - 1

\* The helper replaces the file; if it fails, or replaces it and is late, the
\* pass ends in the handler of the loop, before the controller is reached.
AgentWrite ==
  /\ apc = "write"
  /\ \/ /\ file' = SetTargets(desired)
        /\ apc' = "reload"
        /\ UNCHANGED <<settings, seen, settled, budget>>
     \/ /\ Fault("helper")
        /\ file' \in {file, SetTargets(desired)}
        /\ EndPass
        /\ settled' = 0
  /\ desired' = {}
  /\ UNCHANGED <<present, db, linked, todo, req, cleared>>

\* Mutant of AgentReload: the pass goes on with the settings it began with.
AgentKeepSettings ==
  /\ apc = "reload"
  /\ apc' = "apply"
  /\ UNCHANGED <<present, db, file, linked, settings, seen, todo, desired, req, ghost, budget>>

AgentReload ==
  /\ apc = "reload"
  /\ settings' = file
  /\ apc' = "apply"
  /\ UNCHANGED <<present, db, file, linked, seen, todo, desired, req, ghost, budget>>

AgentApply ==
  /\ apc = "apply"
  /\ linked' = Interception(settings)
  /\ settled' = IF settled = 1 THEN 2 ELSE settled
  /\ EndPass
  /\ UNCHANGED <<present, db, file, todo, desired, req, cleared, budget>>

AgentStep ==
  \/ AgentLoad \/ AgentProbe \/ AgentUpsert \/ AgentSelect \/ AgentPrune
  \/ ListAndroids \/ AutoLinkAndroid
  \/ Reconcile \/ AgentWrite \/ AgentReload \/ AgentApply

\* The agent dies and systemd starts it again; arpspoof dies with it.
AgentCrash ==
  /\ Fault("crash")
  /\ EndPass
  /\ todo' = {}
  /\ desired' = {}
  /\ linked' = {}
  /\ settled' = 0
  /\ UNCHANGED <<present, db, file, req, cleared>>

-----------------------------------------------------------------------------
(* The dashboard.  A request is a sequence of steps of one worker; several  *)
(* workers run at once.  Each step counts as a disturbance of the pass.    *)

FirstStep(op) ==
  CASE op \in {"link", "unlink", "refresh", "identify"} -> "sync"
    [] op = "rollback"                                   -> "list"
    [] op = "emergency"                                  -> "clear"
    [] op \in {"flags", "autolink"}                      -> "read"
    [] op = "targets"                                    -> "helper"

\* Link and unlink name one device, the target list any number of them.
Arguments(op) ==
  CASE op \in {"link", "unlink"} -> {{a} : a \in Addr}
    [] op = "targets"            -> SUBSET Addr
    [] OTHER                     -> {{}}

\* No other request is being served.
Alone(w) == \A v \in Workers \ {w} : req[v] = Idle

\* Every handler loads the settings first, which matters to identify only.
NewRequest(w, op, dev) ==
  [op |-> op, step |-> FirstStep(op), dev |-> dev, seen |-> {},
   list |-> IF op = "targets" THEN dev ELSE {},
   text |-> IF op = "identify" THEN file ELSE DnsOnly,
   solo |-> Alone(w)]

\* solo, a ghost, holds of a request that no other one overlaps.
Overlapped(v) == IF req[v] = Idle THEN Idle ELSE [req[v] EXCEPT !.solo = FALSE]

StartRequest(w) ==
  /\ req[w] = Idle
  /\ budget > 0
  /\ budget' = budget - 1
  /\ \E op \in Ops : \E dev \in Arguments(op) :
       req' = [v \in Workers |-> IF v = w THEN NewRequest(w, op, dev) ELSE Overlapped(v)]
  /\ settled' = 0
  /\ cleared' = FALSE
  /\ UNCHANGED <<present, db, file, linked, agent>>

Goto(w, step, list) == req' = [req EXCEPT ![w] = [@ EXCEPT !.step = step, !.list = list]]

\* A response, successful or not, ends the request.
Respond(w) == req' = [req EXCEPT ![w] = Idle]

At(w, step) == req[w].step = step

\* The requests that show or link devices begin with the same inventory sync
\* as a pass.
SyncInventory(w) ==
  /\ At(w, "sync")
  /\ req' = [req EXCEPT ![w] = [@ EXCEPT
       !.step = IF present = {} THEN "select" ELSE "upsert", !.seen = present, !.list = present]]
  /\ UNCHANGED <<rows, enrolled, file, linked, cleared>>

UpsertFound(w) ==
  /\ At(w, "upsert")
  /\ \E a \in req[w].list :
       /\ rows' = rows \cup {a}
       /\ Goto(w, IF req[w].list = {a} THEN "select" ELSE "upsert", req[w].list \ {a})
  /\ UNCHANGED <<enrolled, file, linked, cleared>>

SelectAbsent(w) ==
  /\ At(w, "select")
  /\ Goto(w, "prune", Prunable(req[w].seen))
  /\ UNCHANGED <<rows, enrolled, file, linked, cleared>>

PruneAbsent(w) ==
  /\ At(w, "prune")
  /\ Prune(req[w].list)
  /\ CASE req[w].op \in {"link", "unlink"} -> Goto(w, "enroll", {})
       [] req[w].op = "identify"          -> Goto(w, "auto", {})
       [] OTHER                           -> Respond(w)
  /\ UNCHANGED <<file, linked, cleared>>

\* The Relabel button ends with the auto-link of the agent's pass.
IdentifyAndroids(w) ==
  /\ At(w, "auto")
  /\ IF NewAndroids(req[w].text, req[w].seen) = {}
       THEN Respond(w)
       ELSE Goto(w, "adopt", NewAndroids(req[w].text, req[w].seen))
  /\ UNCHANGED <<rows, enrolled, file, linked, cleared>>

AdoptAndroid(w) ==
  /\ At(w, "adopt")
  /\ \E a \in req[w].list :
       /\ enrolled' = enrolled \cup ({a} \cap rows)
       /\ IF a \notin rows \/ req[w].list = {a}
            THEN Respond(w)
            ELSE Goto(w, "adopt", req[w].list \ {a})
  /\ UNCHANGED <<rows, file, linked, cleared>>

\* A device without a row is answered 404.
SetEnrollment(w) ==
  /\ At(w, "enroll")
  /\ IF req[w].dev \subseteq rows
       THEN /\ enrolled' = IF req[w].op = "link" THEN enrolled \cup req[w].dev
                                               ELSE enrolled \ req[w].dev
            /\ Goto(w, "list", {})
       ELSE Respond(w) /\ UNCHANGED enrolled
  /\ UNCHANGED <<rows, file, linked, cleared>>

\* Mutant of RollbackList: the devices of the present list view only.
RollbackListPresent == enrolled \cap present

RollbackList == enrolled

\* The list the helper is called with: on link every enrolled device, present
\* or not; on unlink the present ones.
TargetsAfter(r) ==
  IF r.op = "link" THEN enrolled \cup r.dev ELSE (enrolled \cap r.seen) \ r.dev

ListTargets(w) ==
  /\ At(w, "list")
  /\ IF req[w].op = "rollback"
       THEN Goto(w, "clear", RollbackList)
       ELSE Goto(w, "helper", TargetsAfter(req[w]))
  /\ UNCHANGED <<rows, enrolled, file, linked, cleared>>

\* A rollback clears the devices it listed one by one, and ends with an error
\* when one has lost its row; the emergency stop clears the whole table.
ClearEnrollment(w) ==
  /\ At(w, "clear")
  /\ \/ /\ req[w].op = "emergency"
        /\ enrolled' = {}
        /\ Goto(w, "helper", {})
     \/ /\ req[w].op = "rollback"
        /\ req[w].list = {}
        /\ Goto(w, "helper", {})
        /\ UNCHANGED enrolled
     \/ /\ req[w].op = "rollback"
        /\ \E a \in req[w].list :
             IF a \in rows
               THEN enrolled' = enrolled \ {a} /\ Goto(w, "clear", req[w].list \ {a})
               ELSE Respond(w) /\ UNCHANGED enrolled
  /\ UNCHANGED <<rows, file, linked, cleared>>

\* set-network-flags.sh reads the whole text of the file and writes it back; so
\* does an administrator's editor when it switches auto_link_android on.
ReadText(w) ==
  /\ At(w, "read")
  /\ req' = [req EXCEPT ![w] = [@ EXCEPT !.step = "helper",
       !.text = IF req[w].op = "autolink" THEN [file EXCEPT !.auto = TRUE] ELSE file]]
  /\ UNCHANGED <<rows, enrolled, file, linked, cleared>>

HelperWrites(r) == IF r.op \in {"flags", "autolink"} THEN r.text ELSE SetTargets(r.list)

RunHelper(w) ==
  /\ At(w, "helper")
  /\ file' = HelperWrites(req[w])
  /\ IF req[w].op = "emergency" THEN Goto(w, "wipe", {}) ELSE Respond(w)
  /\ cleared' = (req[w].op = "rollback" /\ req[w].solo)
  /\ UNCHANGED <<rows, enrolled, linked>>

\* The emergency helper goes on to clear the table again and to kill arpspoof.
WipeKernel(w) ==
  /\ At(w, "wipe")
  /\ enrolled' = {}
  /\ linked' = {}
  /\ Respond(w)
  /\ cleared' = req[w].solo
  /\ UNCHANGED <<rows, file>>

\* The helper is missing, refuses, fails past the file, or answers too late:
\* an error response.
HelperFails(w) ==
  /\ At(w, "helper")
  /\ Fault("helper")
  /\ file' \in {file, HelperWrites(req[w])}
  /\ Respond(w)
  /\ settled' = 0
  /\ UNCHANGED <<present, db, linked, agent, cleared>>

ServeRequest(w) ==
  \/ /\ \/ SyncInventory(w) \/ UpsertFound(w) \/ SelectAbsent(w) \/ PruneAbsent(w)
        \/ IdentifyAndroids(w) \/ AdoptAndroid(w) \/ SetEnrollment(w) \/ ListTargets(w)
        \/ ClearEnrollment(w) \/ ReadText(w) \/ RunHelper(w) \/ WipeKernel(w)
     /\ settled' = 0
     /\ UNCHANGED <<present, agent, budget>>
  \/ HelperFails(w)

\* A device joins or leaves the LAN.
PresenceChange ==
  /\ budget > 0
  /\ budget' = budget - 1
  /\ \E a \in Addr : present' = IF a \in present THEN present \ {a} ELSE present \cup {a}
  /\ settled' = 0
  /\ UNCHANGED <<db, file, linked, agent, req, cleared>>

Next ==
  \/ AgentStep
  \/ AgentCrash
  \/ \E w \in Workers : StartRequest(w) \/ ServeRequest(w)
  \/ PresenceChange

\* The agent's loop and every request under way proceed; nobody has to press a
\* button, to come home or to fail.
Fairness == WF_vars(AgentStep) /\ \A w \in Workers : WF_vars(ServeRequest(w))

Spec == Init /\ [][Next]_vars
FairSpec == Spec /\ Fairness

-----------------------------------------------------------------------------
(* What must hold once things calm down: one whole pass begun after the    *)
(* last request, presence change or fault is enough.                       *)

\* The controller does what the file says, and the file names the enrolled
\* devices that are present, or nobody.
Converged ==
  settled = 2 =>
    /\ linked = Interception(file)
    /\ file.targets \in {{}, enrolled \cap present}

\* A rollback or an emergency stop that no other request overlaps or follows is
\* final: no pass in progress brings a target, a link or an enrollment back.
ClearingIsFinal ==
  cleared /\ settled = 2 => linked = {} /\ file.targets = {} /\ enrolled = {}

\* However requests, presence and faults interleaved, in the end the controller
\* intercepts the present enrolled devices, or nobody.
EventuallyConverged ==
  <>[](linked = Interception(file) /\ linked \in {{}, enrolled \cap present})

\* The comment on reconcile_enrolled_targets (enrollment.py:102-103): once things
\* have calmed down, every enrolled device that is present gets linked again,
\* whatever mode the file was left in.
EnrolledReconnect == <>[](enrolled \cap present \subseteq linked)
=============================================================================
