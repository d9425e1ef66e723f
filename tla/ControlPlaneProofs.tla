------------------------- MODULE ControlPlaneProofs -------------------------
(***************************************************************************)
(* What TLAPS proves of ControlPlane, for any devices, any number of        *)
(* workers, every kind of request and fault, and any number of events: its  *)
(* types, that one undisturbed pass makes table, file and interception      *)
(* agree and, where nobody switches auto_link_android on, that clearing is  *)
(* final.                                                                   *)
(***************************************************************************)
EXTENDS ControlPlane, TLAPS

USE AddrAssumption, OpsAssumption, BoundAssumption

LEMMA FilesTyped ==
  /\ DnsOnly \in File
  /\ \A T \in SUBSET Addr : SetTargets(T) \in File
  /\ Idle \in Request
BY DEF DnsOnly, SetTargets, File, Idle, Request, Steps, AllOps

LEMMA GotoTyped ==
  ASSUME NEW w \in Workers, NEW step \in Steps, NEW list \in SUBSET Addr,
         req \in [Workers -> Request], Goto(w, step, list)
  PROVE  req' \in [Workers -> Request]
BY DEF Goto, Request

LEMMA RespondTyped ==
  ASSUME NEW w \in Workers, req \in [Workers -> Request], Respond(w)
  PROVE  req' \in [Workers -> Request]
BY FilesTyped DEF Respond

(***************************************************************************)
(* Types.                                                                   *)
(***************************************************************************)

LEMMA AgentTyped ==
  ASSUME TypeOK, AgentStep \/ AgentCrash
  PROVE  TypeOK'
<1>1. CASE AgentLoad
  BY <1>1 DEF TypeOK, AgentLoad, db
<1>2. CASE AgentProbe \/ AgentSelect
  BY <1>2 DEF TypeOK, AgentProbe, AgentSelect, Prunable, db, ghost
<1>3. CASE AgentUpsert \/ AgentPrune
  BY <1>3 DEF TypeOK, AgentUpsert, AgentPrune, Prune, ghost
<1>4. CASE ListAndroids
  BY <1>4 DEF TypeOK, ListAndroids, NewAndroids, db, ghost
<1>10. CASE AutoLinkAndroid
  BY <1>10, FilesTyped DEF TypeOK, AutoLinkAndroid, EndPass
<1>5. CASE Reconcile
  BY <1>5 DEF TypeOK, Reconcile, Desired, db, ghost
<1>6. CASE AgentWrite
  BY <1>6, FilesTyped DEF TypeOK, AgentWrite, EndPass, Fault, db
<1>7. CASE AgentReload
  BY <1>7 DEF TypeOK, AgentReload, db, ghost
<1>8. CASE AgentApply
  <2>1. Interception(settings) \in SUBSET Addr
    BY DEF TypeOK, Interception, File
  <2> QED
    BY <1>8, <2>1, FilesTyped DEF TypeOK, AgentApply, EndPass, db
<1>9. CASE AgentCrash
  BY <1>9, FilesTyped DEF TypeOK, AgentCrash, EndPass, Fault, db
<1> QED
  BY <1>1, <1>2, <1>3, <1>4, <1>5, <1>6, <1>7, <1>8, <1>9, <1>10 DEF AgentStep

LEMMA NewTyped ==
  ASSUME TypeOK, NEW w \in Workers, NEW op \in Ops, NEW dev \in Arguments(op)
  PROVE  NewRequest(w, op, dev) \in Request
<1>1. op \in AllOps /\ FirstStep(op) \in Steps /\ dev \in SUBSET Addr
  BY DEF AllOps, FirstStep, Steps, Arguments
<1>2. Alone(w) \in BOOLEAN
  BY DEF Alone
<1>3. (IF op = "targets" THEN dev ELSE {}) \in SUBSET Addr
  BY <1>1
<1>4. (IF op = "identify" THEN file ELSE DnsOnly) \in File
  BY FilesTyped DEF TypeOK
<1> QED
  BY <1>1, <1>2, <1>3, <1>4 DEF NewRequest, Request

LEMMA StartTyped ==
  ASSUME TypeOK, NEW w \in Workers, StartRequest(w)
  PROVE  TypeOK'
<1>1. PICK op \in Ops : \E dev \in Arguments(op) :
       req' = [v \in Workers |-> IF v = w THEN NewRequest(w, op, dev) ELSE Overlapped(v)]
  BY DEF StartRequest
<1>2. PICK dev \in Arguments(op) :
       req' = [v \in Workers |-> IF v = w THEN NewRequest(w, op, dev) ELSE Overlapped(v)]
  BY <1>1
<1>3. ASSUME NEW v \in Workers PROVE Overlapped(v) \in Request
  BY FilesTyped DEF Overlapped, TypeOK, Request
<1>4. req' \in [Workers -> Request]
  <2>1. NewRequest(w, op, dev) \in Request
    BY NewTyped
  <2> QED
    BY <1>2, <1>3, <2>1
<1>5. budget' \in 0..MaxEvents /\ settled' \in 0..2
  BY DEF StartRequest, TypeOK
<1>6. cleared' \in BOOLEAN
  BY DEF StartRequest
<1>7. /\ present' = present /\ rows' = rows /\ enrolled' = enrolled /\ file' = file
      /\ linked' = linked /\ apc' = apc /\ settings' = settings /\ seen' = seen
      /\ todo' = todo /\ desired' = desired
  BY DEF StartRequest, db, agent
<1> QED
  BY <1>4, <1>5, <1>6, <1>7 DEF TypeOK

LEMMA ServeTyped ==
  ASSUME TypeOK, NEW w \in Workers, ServeRequest(w)
  PROVE  TypeOK'
<1> DEFINE Rest == settled' = 0 /\ UNCHANGED <<present, agent, budget>>
<1>0. req \in [Workers -> Request] /\ req[w] \in Request
  BY DEF TypeOK
<1>1. CASE SyncInventory(w) /\ Rest
  <2>1. req' \in [Workers -> Request]
    BY <1>0, <1>1 DEF SyncInventory, TypeOK, Request, Steps
  <2> QED
    BY <1>1, <2>1 DEF SyncInventory, TypeOK, agent
<1>11. CASE UpsertFound(w) /\ Rest
  <2>1. PICK a \in req[w].list :
          /\ rows' = rows \cup {a}
          /\ Goto(w, IF req[w].list = {a} THEN "select" ELSE "upsert", req[w].list \ {a})
    BY <1>11 DEF UpsertFound
  <2>2. /\ (IF req[w].list = {a} THEN "select" ELSE "upsert") \in Steps
        /\ req[w].list \ {a} \in SUBSET Addr /\ a \in Addr
    BY <1>0 DEF Steps, Request
  <2>3. req' \in [Workers -> Request]
    BY <1>0, <2>1, <2>2, GotoTyped
  <2> QED
    BY <1>11, <2>1, <2>2, <2>3 DEF UpsertFound, TypeOK, agent
<1>12. CASE SelectAbsent(w) /\ Rest
  <2>1. Prunable(req[w].seen) \in SUBSET Addr /\ "prune" \in Steps
    BY DEF TypeOK, Prunable, Steps
  <2>2. req' \in [Workers -> Request]
    BY <1>0, <1>12, <2>1, GotoTyped DEF SelectAbsent
  <2> QED
    BY <1>12, <2>2 DEF SelectAbsent, TypeOK, agent
<1>2. CASE PruneAbsent(w) /\ Rest
  <2>1. req' \in [Workers -> Request]
    BY <1>0, <1>2, GotoTyped, RespondTyped DEF PruneAbsent, Steps
  <2> QED
    BY <1>0, <1>2, <2>1 DEF PruneAbsent, Prune, TypeOK, agent
<1>3. CASE IdentifyAndroids(w) /\ Rest
  <2>1. NewAndroids(req[w].text, req[w].seen) \in SUBSET Addr /\ "adopt" \in Steps
    BY DEF NewAndroids, Steps
  <2>2. req' \in [Workers -> Request]
    BY <1>0, <1>3, <2>1, GotoTyped, RespondTyped DEF IdentifyAndroids
  <2> QED
    BY <1>3, <2>2 DEF IdentifyAndroids, TypeOK, agent
<1>13. CASE AdoptAndroid(w) /\ Rest
  <2>1. PICK a \in req[w].list :
          /\ enrolled' = enrolled \cup ({a} \cap rows)
          /\ IF a \notin rows \/ req[w].list = {a}
               THEN Respond(w)
               ELSE Goto(w, "adopt", req[w].list \ {a})
    BY <1>13 DEF AdoptAndroid
  <2>2. "adopt" \in Steps /\ req[w].list \ {a} \in SUBSET Addr
    BY <1>0 DEF Steps, Request
  <2>3. req' \in [Workers -> Request]
    BY <1>0, <2>1, <2>2, GotoTyped, RespondTyped
  <2> QED
    BY <1>13, <2>1, <2>3 DEF AdoptAndroid, TypeOK, agent
<1>4. CASE SetEnrollment(w) /\ Rest
  <2>1. req' \in [Workers -> Request]
    BY <1>0, <1>4, GotoTyped, RespondTyped DEF SetEnrollment, Steps
  <2> QED
    BY <1>0, <1>4, <2>1 DEF SetEnrollment, TypeOK, agent
<1>5. CASE ListTargets(w) /\ Rest
  <2>1. RollbackList \in SUBSET Addr /\ TargetsAfter(req[w]) \in SUBSET Addr
    BY <1>0 DEF RollbackList, TargetsAfter, TypeOK, Request
  <2>2. req' \in [Workers -> Request]
    BY <1>0, <1>5, <2>1, GotoTyped DEF ListTargets, Steps
  <2> QED
    BY <1>5, <2>2 DEF ListTargets, TypeOK, agent
<1>6. CASE ClearEnrollment(w) /\ Rest
  <2>1. req[w].list \subseteq Addr /\ {} \in SUBSET Addr /\ \A a : req[w].list \ {a} \in SUBSET Addr
    BY <1>0 DEF Request
  <2>2. "helper" \in Steps /\ "clear" \in Steps
    BY DEF Steps
  <2>3. enrolled' \in SUBSET rows /\ rows' = rows /\ req' \in [Workers -> Request]
    <3>1. CASE enrolled' = {} /\ Goto(w, "helper", {})
      BY <1>0, <1>6, <2>1, <2>2, <3>1, GotoTyped DEF ClearEnrollment
    <3>2. CASE UNCHANGED enrolled /\ Goto(w, "helper", {})
      BY <1>0, <1>6, <2>1, <2>2, <3>2, GotoTyped DEF ClearEnrollment, TypeOK
    <3>3. ASSUME NEW a \in req[w].list,
                 \/ a \in rows /\ enrolled' = enrolled \ {a} /\ Goto(w, "clear", req[w].list \ {a})
                 \/ Respond(w) /\ UNCHANGED enrolled
          PROVE  enrolled' \in SUBSET rows /\ rows' = rows /\ req' \in [Workers -> Request]
      BY <1>0, <1>6, <2>1, <2>2, <3>3, GotoTyped, RespondTyped DEF ClearEnrollment, TypeOK
    <3> QED
      BY <1>6, <3>1, <3>2, <3>3 DEF ClearEnrollment
  <2> QED
    BY <1>6, <2>3 DEF ClearEnrollment, TypeOK, agent
<1>7. CASE ReadText(w) /\ Rest
  <2> DEFINE text == IF req[w].op = "autolink" THEN [file EXCEPT !.auto = TRUE] ELSE file
  <2>1. text \in File
    BY DEF TypeOK, File
  <2> HIDE DEF text
  <2>2. req' = [req EXCEPT ![w] = [@ EXCEPT !.step = "helper", !.text = text]]
    BY <1>7 DEF ReadText, text
  <2>3. req' \in [Workers -> Request]
    BY <1>0, <2>1, <2>2 DEF Request, Steps
  <2> QED
    BY <1>7, <2>3 DEF ReadText, TypeOK, agent
<1>8. CASE RunHelper(w) /\ Rest
  <2>1. HelperWrites(req[w]) \in File
    BY <1>0, FilesTyped DEF HelperWrites, Request
  <2>2. req' \in [Workers -> Request]
    BY <1>0, <1>8, GotoTyped, RespondTyped DEF RunHelper, Steps
  <2>3. cleared' \in BOOLEAN
    BY <1>0, <1>8 DEF RunHelper, Request
  <2> QED
    BY <1>8, <2>1, <2>2, <2>3 DEF RunHelper, TypeOK, agent
<1>9. CASE WipeKernel(w) /\ Rest
  <2>1. cleared' \in BOOLEAN
    BY <1>0, <1>9 DEF WipeKernel, Request
  <2> QED
    BY <1>0, <1>9, <2>1, RespondTyped DEF WipeKernel, TypeOK, agent
<1>10. CASE HelperFails(w)
  <2>1. HelperWrites(req[w]) \in File
    BY <1>0, FilesTyped DEF HelperWrites, Request
  <2> QED
    BY <1>0, <1>10, <2>1, RespondTyped DEF HelperFails, Fault, TypeOK, db, agent
<1> QED
  BY <1>1, <1>2, <1>3, <1>4, <1>5, <1>6, <1>7, <1>8, <1>9, <1>10, <1>11, <1>12, <1>13 DEF ServeRequest

LEMMA StepTyped ==
  ASSUME TypeOK, [Next]_vars
  PROVE  TypeOK'
<1>1. CASE PresenceChange
  BY <1>1 DEF TypeOK, PresenceChange, db, agent
<1>2. CASE UNCHANGED vars
  BY <1>2 DEF TypeOK, vars
<1> QED
  BY <1>1, <1>2, AgentTyped, StartTyped, ServeTyped DEF Next

LEMMA InitTyped ==
  ASSUME Init
  PROVE  TypeOK
<1>1. req \in [Workers -> Request] /\ settings \in File /\ file \in File
  BY FilesTyped DEF Init
<1>2. budget \in 0..MaxEvents /\ settled \in 0..2
  BY DEF Init
<1>3. cleared \in BOOLEAN
  BY DEF Init
<1>4. /\ rows \in SUBSET Addr /\ enrolled \in SUBSET rows /\ linked \in SUBSET Addr
      /\ seen \in SUBSET Addr /\ todo \in SUBSET Addr /\ desired \in SUBSET Addr
      /\ present \in SUBSET Addr /\ apc = "load"
  BY DEF Init
<1> QED
  BY <1>1, <1>2, <1>3, <1>4 DEF TypeOK

(* Every variable keeps its type, whoever writes the table and the file in  *)
(* whatever order.                                                          *)
THEOREM TypeCorrect == Spec => []TypeOK
BY InitTyped, StepTyped, PTL DEF Spec

(***************************************************************************)
(* One undisturbed pass.  What a pass that began after the last             *)
(* disturbance knows at each of its steps: the settings it loaded are those *)
(* of the file, its probe found the devices present, the prune selected     *)
(* nobody enrolled or present, and what it writes is what is enrolled and   *)
(* present.  A next pass then finds nothing to change.                      *)
(***************************************************************************)

\* The list decides the mode, whichever helper wrote the file.
FileOK(f) == f.mode = "dns_only" <=> f.targets = {}

FilesOK == FileOK(file) /\ \A w \in Workers : FileOK(req[w].text)

AndroidsEnrolled == file.auto => Androids \cap present \subseteq enrolled
TargetsAgree == file.targets \in {{}, enrolled \cap present}

Known ==
  /\ apc \notin {"load", "reload"} => settings = file
  /\ apc \notin {"load", "sync"} => seen = present
  /\ apc \notin {"load", "sync"} => present \subseteq IF apc = "upsert" THEN rows \cup todo ELSE rows
  /\ apc = "prune" => todo \cap (enrolled \cup present) = {}
  /\ apc = "adopt" => todo \subseteq present /\ Androids \cap present \subseteq enrolled \cup todo
  /\ apc \in {"decide", "write", "reload", "apply"} => AndroidsEnrolled
  /\ apc = "write" => desired = enrolled \cap present /\ file.mode = "arp_assisted"
  /\ apc \in {"reload", "apply"} => TargetsAgree

Agreed ==
  /\ apc \notin {"adopt", "write", "reload"}
  /\ linked = Interception(file)
  /\ TargetsAgree
  /\ AndroidsEnrolled
  /\ present \subseteq rows

PassKnows ==
  /\ settled # 0 => Known
  /\ settled = 1 => apc # "load"
  /\ settled = 2 => Agreed

Inv == TypeOK /\ FilesOK /\ PassKnows

LEMMA TargetsOK == \A T : FileOK(SetTargets(T)) /\ SetTargets(T).auto = FALSE
                           /\ SetTargets(T).targets = T
BY DEF FileOK, SetTargets

LEMMA OthersUnsettle ==
  ASSUME NEW w \in Workers, StartRequest(w) \/ ServeRequest(w) \/ PresenceChange \/ AgentCrash
  PROVE  settled' = 0
BY DEF StartRequest, ServeRequest, HelperFails, PresenceChange, AgentCrash

LEMMA AgentKnows ==
  ASSUME Inv, AgentStep
  PROVE  FileOK(file') /\ PassKnows'
<1> USE DEF Inv
<1>1. CASE AgentLoad
  BY <1>1 DEF AgentLoad, TypeOK, FilesOK, PassKnows, Known, Agreed, TargetsAgree, AndroidsEnrolled, db
<1>2. CASE AgentProbe
  BY <1>2 DEF AgentProbe, db, ghost, TypeOK, FilesOK, PassKnows, Known, Agreed, TargetsAgree, AndroidsEnrolled
<1>9. CASE AgentUpsert
  <2>1. PICK a \in todo :
          /\ rows' = rows \cup {a}
          /\ todo' = todo \ {a}
          /\ apc' = IF todo = {a} THEN "select" ELSE "upsert"
    BY <1>9 DEF AgentUpsert
  <2>2. settled # 0 => present \subseteq IF apc' = "upsert" THEN rows' \cup todo' ELSE rows'
    BY <1>9, <2>1 DEF AgentUpsert, PassKnows, Known
  <2> QED
    BY <1>9, <2>1, <2>2 DEF AgentUpsert, ghost, TypeOK, FilesOK, PassKnows, Known, Agreed, TargetsAgree, AndroidsEnrolled
<1>10. CASE AgentSelect
  BY <1>10 DEF AgentSelect, Prunable, db, ghost, TypeOK, FilesOK, PassKnows, Known, Agreed, TargetsAgree, AndroidsEnrolled
<1>3. CASE AgentPrune
  <2>1. settled # 0 => enrolled' = enrolled /\ present' \subseteq rows'
    BY <1>3 DEF AgentPrune, Prune, TypeOK, PassKnows, Known
  <2> QED
    BY <1>3, <2>1 DEF AgentPrune, ghost, TypeOK, FilesOK, PassKnows, Known, Agreed, TargetsAgree, AndroidsEnrolled
<1>4. CASE ListAndroids
  <2> DEFINE N == NewAndroids(settings, seen)
  <2>1. settled # 0 => settings = file /\ seen = present /\ present \subseteq rows
    BY <1>4 DEF ListAndroids, PassKnows, Known
  <2>2. settled # 0 => N \subseteq present /\ (file.auto => Androids \cap present \subseteq enrolled \cup N)
    BY <2>1 DEF NewAndroids
  <2>3. settled # 0 /\ N # {} => file.auto
    BY <2>1 DEF NewAndroids
  <2>4. settled = 2 => N = {}
    BY <2>1 DEF NewAndroids, PassKnows, Agreed, AndroidsEnrolled
  <2>5. todo' = N /\ apc' = IF N = {} THEN "decide" ELSE "adopt"
    BY <1>4 DEF ListAndroids
  <2> HIDE DEF N
  <2> QED
    BY <1>4, <2>1, <2>2, <2>3, <2>4, <2>5
       DEF ListAndroids, db, ghost, TypeOK, FilesOK, PassKnows, Known, Agreed, TargetsAgree, AndroidsEnrolled
<1>11. CASE AutoLinkAndroid
  <2>1. PICK a \in todo :
      \/ /\ a \in rows
         /\ enrolled' = enrolled \cup {a}
         /\ todo' = todo \ {a}
         /\ apc' = IF todo = {a} THEN "decide" ELSE "adopt"
         /\ UNCHANGED <<settings, seen, settled>>
      \/ settled' = 0
    BY <1>11 DEF AutoLinkAndroid
  <2>2. CASE settled' = 0
    BY <1>11, <2>2 DEF AutoLinkAndroid, FilesOK, PassKnows
  <2>3. CASE UNCHANGED <<settings, seen, settled>> /\ enrolled' = enrolled \cup {a} /\ todo' = todo \ {a}
             /\ apc' = IF todo = {a} THEN "decide" ELSE "adopt"
    BY <1>11, <2>3 DEF AutoLinkAndroid, TypeOK, FilesOK, PassKnows, Known, Agreed, TargetsAgree, AndroidsEnrolled
  <2> QED
    BY <2>1, <2>2, <2>3
<1>5. CASE Reconcile
  <2>1. settled # 0 => settings = file /\ Desired = enrolled \cap present
    BY <1>5 DEF Reconcile, Desired, PassKnows, Known, TypeOK
  <2>2. CASE NeedsWrite
    <3>1. settled # 0 => file.mode = "arp_assisted" /\ settled # 2
      BY <1>5, <2>1, <2>2 DEF NeedsWrite, FilesOK, FileOK, PassKnows, Agreed, TargetsAgree, TypeOK, File
    <3> QED
      BY <1>5, <2>1, <2>2, <3>1 DEF Reconcile, db, ghost, TypeOK, FilesOK, PassKnows, Known, Agreed, TargetsAgree, AndroidsEnrolled
  <2>3. CASE ~NeedsWrite
    <3>1. settled # 0 => TargetsAgree
      BY <1>5, <2>1, <2>3 DEF NeedsWrite, FilesOK, FileOK, TargetsAgree, TypeOK, File
    <3> QED
      BY <1>5, <2>1, <2>3, <3>1 DEF Reconcile, db, ghost, TypeOK, FilesOK, PassKnows, Known, Agreed, TargetsAgree, AndroidsEnrolled
  <2> QED
    BY <2>2, <2>3
<1>6. CASE AgentWrite
  <2>1. FileOK(file')
    BY <1>6, TargetsOK DEF AgentWrite, FilesOK
  <2>2. CASE file' = SetTargets(desired) /\ apc' = "reload" /\ UNCHANGED <<settings, seen, settled, budget>>
    <3>1. file'.auto = FALSE /\ file'.targets = desired
      BY <2>2, TargetsOK
    <3> QED
      BY <1>6, <2>1, <2>2, <3>1 DEF AgentWrite, db, TypeOK, PassKnows, Known, Agreed, TargetsAgree, AndroidsEnrolled
  <2>3. CASE settled' = 0
    BY <2>1, <2>3 DEF PassKnows
  <2> QED
    BY <1>6, <2>2, <2>3 DEF AgentWrite
<1>7. CASE AgentReload
  BY <1>7 DEF AgentReload, db, ghost, TypeOK, FilesOK, PassKnows, Known, Agreed, TargetsAgree, AndroidsEnrolled
<1>8. CASE AgentApply
  BY <1>8 DEF AgentApply, EndPass, db, Interception, TypeOK, FilesOK, PassKnows, Known, Agreed, TargetsAgree, AndroidsEnrolled
<1> QED
  BY <1>1, <1>2, <1>3, <1>4, <1>5, <1>6, <1>7, <1>8, <1>9, <1>10, <1>11 DEF AgentStep

\* What a request has read of the file is a file some helper wrote.
LEMMA TextKept ==
  ASSUME Inv, NEW w \in Workers, NEW step, NEW list, Goto(w, step, list) \/ Respond(w)
  PROVE  \A v \in Workers : FileOK(req'[v].text)
<1>1. FileOK(Idle.text)
  BY TargetsOK DEF Idle, DnsOnly
<1> QED
  BY <1>1 DEF Inv, TypeOK, FilesOK, Goto, Respond, Request

LEMMA ServeFiles ==
  ASSUME Inv, NEW w \in Workers, ServeRequest(w)
  PROVE  FilesOK'
<1> DEFINE Texts == \A v \in Workers : FileOK(req'[v].text)
<1>0. req \in [Workers -> Request] /\ FileOK(file) /\ \A v \in Workers : FileOK(req[v].text)
  BY DEF Inv, TypeOK, FilesOK
<1>1. CASE SyncInventory(w)
  BY <1>0, <1>1 DEF SyncInventory, FilesOK, Request
<1>10. CASE UpsertFound(w) \/ SelectAbsent(w)
  BY <1>0, <1>10, TextKept DEF UpsertFound, SelectAbsent, FilesOK
<1>11. CASE AdoptAndroid(w)
  BY <1>0, <1>11, TextKept DEF AdoptAndroid, FilesOK
<1>2. CASE PruneAbsent(w)
  BY <1>0, <1>2, TextKept DEF PruneAbsent, FilesOK
<1>3. CASE IdentifyAndroids(w)
  BY <1>0, <1>3, TextKept DEF IdentifyAndroids, FilesOK
<1>4. CASE SetEnrollment(w)
  BY <1>0, <1>4, TextKept DEF SetEnrollment, FilesOK
<1>5. CASE ListTargets(w)
  BY <1>0, <1>5, TextKept DEF ListTargets, FilesOK
<1>6. CASE ClearEnrollment(w)
  BY <1>0, <1>6, TextKept DEF ClearEnrollment, FilesOK
<1>7. CASE ReadText(w)
  <2> DEFINE text == IF req[w].op = "autolink" THEN [file EXCEPT !.auto = TRUE] ELSE file
  <2>1. FileOK(text)
    BY <1>0 DEF FileOK, Inv, TypeOK, File
  <2> HIDE DEF text
  <2>2. req' = [req EXCEPT ![w] = [@ EXCEPT !.step = "helper", !.text = text]] /\ file' = file
    BY <1>7 DEF ReadText, text
  <2> QED
    BY <1>0, <2>1, <2>2 DEF FilesOK, Request
<1>8. CASE RunHelper(w) \/ HelperFails(w)
  <2>1. FileOK(HelperWrites(req[w]))
    BY <1>0, TargetsOK DEF HelperWrites
  <2>2. FileOK(file')
    BY <1>0, <1>8, <2>1 DEF RunHelper, HelperFails
  <2>3. Texts
    BY <1>8, TextKept DEF RunHelper, HelperFails
  <2> QED
    BY <2>2, <2>3 DEF FilesOK
<1>9. CASE WipeKernel(w)
  BY <1>0, <1>9, TextKept DEF WipeKernel, FilesOK
<1> QED
  BY <1>1, <1>2, <1>3, <1>4, <1>5, <1>6, <1>7, <1>8, <1>9, <1>10, <1>11 DEF ServeRequest

LEMMA StartFiles ==
  ASSUME Inv, NEW w \in Workers, StartRequest(w)
  PROVE  FilesOK'
<1>1. PICK op \in Ops : \E dev \in Arguments(op) :
       req' = [v \in Workers |-> IF v = w THEN NewRequest(w, op, dev) ELSE Overlapped(v)]
  BY DEF StartRequest
<1> PICK dev \in Arguments(op) :
       req' = [v \in Workers |-> IF v = w THEN NewRequest(w, op, dev) ELSE Overlapped(v)]
  BY <1>1
<1>2. FileOK(NewRequest(w, op, dev).text)
  BY TargetsOK DEF NewRequest, DnsOnly, Inv, FilesOK
<1>3. ASSUME NEW v \in Workers PROVE FileOK(Overlapped(v).text)
  BY DEF Overlapped, Inv, TypeOK, FilesOK, Request
<1>4. \A v \in Workers : FileOK(req'[v].text)
  BY <1>2, <1>3
<1>5. file' = file
  BY DEF StartRequest
<1> QED
  BY <1>4, <1>5 DEF FilesOK, Inv

LEMMA StepKnows ==
  ASSUME Inv, [Next]_vars
  PROVE  Inv'
<1>1. TypeOK'
  BY StepTyped DEF Inv
<1>2. CASE AgentStep
  <2>1. req' = req
    BY <1>2 DEF AgentStep, AgentLoad, AgentProbe, AgentUpsert, AgentSelect, AgentPrune, ListAndroids,
                AutoLinkAndroid, Reconcile, AgentWrite, AgentReload, AgentApply
  <2> QED
    BY <1>1, <1>2, <2>1, AgentKnows DEF Inv, FilesOK
<1>3. CASE AgentCrash
  BY <1>1, <1>3 DEF AgentCrash, Inv, FilesOK, PassKnows
<1>4. ASSUME NEW w \in Workers, StartRequest(w) \/ ServeRequest(w) PROVE Inv'
  BY <1>1, <1>4, OthersUnsettle, StartFiles, ServeFiles DEF Inv, PassKnows
<1>5. CASE PresenceChange
  BY <1>1, <1>5 DEF PresenceChange, Inv, FilesOK, PassKnows
<1>6. CASE UNCHANGED vars
  BY <1>1, <1>6 DEF vars, Inv, FilesOK, PassKnows, Known, Agreed, TargetsAgree, AndroidsEnrolled
<1> QED
  BY <1>2, <1>3, <1>4, <1>5, <1>6 DEF Next

LEMMA InvHolds == Spec => []Inv
<1>1. ASSUME Init PROVE FilesOK /\ PassKnows
  BY <1>1, TargetsOK DEF Init, FilesOK, PassKnows, Idle, DnsOnly
<1>2. Init => TypeOK
  BY InitTyped
<1> QED
  BY <1>1, <1>2, StepKnows, PTL DEF Spec, Inv

(* After one whole pass that nothing disturbed, the controller does what    *)
(* the file says, and the file names the enrolled devices that are present  *)
(* or nobody; and so after every further undisturbed pass.                  *)
THEOREM Convergence == Spec => []Converged
<1>1. Inv => Converged
  BY DEF Inv, PassKnows, Agreed, TargetsAgree, Converged
<1> QED
  BY <1>1, InvHolds, PTL

(***************************************************************************)
(* A rollback or an emergency stop is final where no request switches       *)
(* auto_link_android on.  A rollback that runs alone has, of every enrolled *)
(* device, either cleared it or still listed it: only another request could *)
(* enroll one behind its back, and the agent's pass only prunes.            *)
(***************************************************************************)

RequestOK(r, e) ==
  /\ r.op # "autolink" /\ r.text.auto = FALSE
  /\ r.step # "adopt"
  /\ r.step = "clear" => r.op \in {"rollback", "emergency"}
  /\ r.op = "rollback" => r.step \in {"list", "clear", "helper"}
  /\ r.op = "rollback" /\ r.solo => /\ r.step = "clear" => e \subseteq r.list
                                    /\ r.step = "helper" => e = {}

ClearInv ==
  /\ file.auto = FALSE /\ settings.auto = FALSE /\ apc # "adopt"
  /\ \A w \in Workers : RequestOK(req[w], enrolled)
  /\ \A w, v \in Workers : req[w] # Idle /\ req[w].solo /\ v # w => req[v] = Idle
  /\ cleared => enrolled = {} /\ \A w \in Workers : req[w] = Idle

LEMMA IdleOK == \A e : RequestOK(Idle, e)
BY TargetsOK DEF RequestOK, Idle, DnsOnly

LEMMA WorkerKeeps ==
  ASSUME TypeOK, ClearInv, NEW w \in Workers, NEW r \in Request,
         req' = [req EXCEPT ![w] = r], req[w] # Idle, r = Idle \/ r.solo = req[w].solo,
         RequestOK(r, enrolled'), file'.auto = FALSE, settings' = settings, apc' = apc,
         cleared' => enrolled' = {} /\ r = Idle /\ req[w].solo
  PROVE  ClearInv'
<1>1. req \in [Workers -> Request]
  BY DEF TypeOK
<1>2. ASSUME NEW v \in Workers PROVE RequestOK(req'[v], enrolled')
  <2>1. CASE v = w
    BY <1>1, <2>1
  <2>2. CASE v # w /\ req[v] = Idle
    BY <1>1, <2>2, IdleOK
  <2>3. CASE v # w /\ req[v] # Idle
    <3>1. req'[v] = req[v] /\ ~req[v].solo
      BY <1>1, <2>3 DEF ClearInv, Request
    <3> QED
      BY <3>1 DEF ClearInv, RequestOK
  <2> QED
    BY <2>1, <2>2, <2>3
<1>3. ASSUME NEW u \in Workers, NEW v \in Workers, req'[u] # Idle, req'[u].solo, v # u
      PROVE  req'[v] = Idle
  BY <1>1, <1>3 DEF ClearInv
<1>4. cleared' => \A v \in Workers : req'[v] = Idle
  BY <1>1 DEF ClearInv
<1> QED
  BY <1>2, <1>3, <1>4 DEF ClearInv

LEMMA ServeKeeps ==
  ASSUME TypeOK, ClearInv, NEW w \in Workers, ServeRequest(w)
  PROVE  ClearInv'
<1>0. /\ req \in [Workers -> Request] /\ req[w] \in Request /\ RequestOK(req[w], enrolled)
      /\ Idle \in Request /\ file.auto = FALSE
  BY FilesTyped DEF TypeOK, ClearInv
<1>1. req[w] # Idle /\ ~cleared
  <2>1. req[w].step # "none"
    BY DEF ServeRequest, SyncInventory, UpsertFound, SelectAbsent, PruneAbsent, IdentifyAndroids,
           AdoptAndroid, SetEnrollment, ListTargets, ClearEnrollment, ReadText, RunHelper, WipeKernel, HelperFails, At
  <2>2. req[w] # Idle
    BY <2>1 DEF Idle
  <2> QED
    BY <2>2 DEF ClearInv
<1>2. settings' = settings /\ apc' = apc
  BY DEF ServeRequest, HelperFails, agent
\* The two shapes of a step that stays clear of the settled devices.
<1>3. ASSUME Respond(w), file'.auto = FALSE, cleared' => cleared PROVE ClearInv'
  BY <1>0, <1>1, <1>2, <1>3, WorkerKeeps, IdleOK DEF Respond
<1>4. ASSUME NEW step \in Steps, NEW list \in SUBSET Addr, Goto(w, step, list),
             RequestOK([req[w] EXCEPT !.step = step, !.list = list], enrolled'),
             file'.auto = FALSE, cleared' => cleared
      PROVE  ClearInv'
  <2> DEFINE r == [req[w] EXCEPT !.step = step, !.list = list]
  <2>1. r \in Request /\ r.solo = req[w].solo /\ req' = [req EXCEPT ![w] = r]
    BY <1>0, <1>4 DEF Goto, Request
  <2> HIDE DEF r
  <2>2. RequestOK(r, enrolled')
    BY <1>4 DEF r
  <2> QED
    BY <1>0, <1>1, <1>2, <1>4, <2>1, <2>2, WorkerKeeps
<1>5. CASE SyncInventory(w)
  <2> DEFINE step == IF present = {} THEN "select" ELSE "upsert"
             r == [req[w] EXCEPT !.step = step, !.seen = present, !.list = present]
  <2>1. present \in SUBSET Addr /\ step \in {"select", "upsert"}
    BY DEF TypeOK
  <2>2. r \in Request /\ r.solo = req[w].solo /\ req' = [req EXCEPT ![w] = r]
    BY <1>0, <1>5, <2>1 DEF SyncInventory, Request, Steps
  <2>3. req[w].op # "rollback"
    BY <1>0, <1>5 DEF SyncInventory, At, RequestOK
  <2>4. RequestOK(r, enrolled')
    BY <1>0, <2>3 DEF RequestOK, Request
  <2> HIDE DEF r
  <2> QED
    BY <1>0, <1>1, <1>2, <1>5, <2>2, <2>4, WorkerKeeps DEF SyncInventory
<1>6. CASE PruneAbsent(w)
  <2>1. req[w].op # "rollback"
    BY <1>0, <1>6 DEF PruneAbsent, At, RequestOK
  <2>2. \A step \in {"enroll", "auto"} : RequestOK([req[w] EXCEPT !.step = step, !.list = {}], enrolled')
    BY <1>0, <2>1 DEF RequestOK, Request
  <2>3. {"enroll", "auto"} \subseteq Steps /\ {} \in SUBSET Addr /\ file' = file /\ (cleared' => cleared)
    BY <1>6 DEF PruneAbsent, Steps
  <2> QED
    BY <1>0, <1>3, <1>4, <1>6, <2>2, <2>3 DEF PruneAbsent
<1>7. CASE IdentifyAndroids(w)
  <2>1. NewAndroids(req[w].text, req[w].seen) = {}
    BY <1>0 DEF NewAndroids, RequestOK
  <2> QED
    BY <1>0, <1>3, <1>7, <2>1 DEF IdentifyAndroids
<1>16. CASE UpsertFound(w)
  <2>1. PICK a \in req[w].list :
          Goto(w, IF req[w].list = {a} THEN "select" ELSE "upsert", req[w].list \ {a})
    BY <1>16 DEF UpsertFound
  <2>2. req[w].op # "rollback" /\ req[w].list \ {a} \in SUBSET Addr
    BY <1>0, <1>16 DEF UpsertFound, At, RequestOK, Request
  <2>3. ASSUME NEW step \in {"select", "upsert"}
        PROVE  step \in Steps /\ RequestOK([req[w] EXCEPT !.step = step, !.list = req[w].list \ {a}], enrolled')
    BY <1>0, <2>2 DEF RequestOK, Request, Steps
  <2> QED
    BY <1>0, <1>4, <1>16, <2>1, <2>2, <2>3 DEF UpsertFound
<1>17. CASE SelectAbsent(w)
  <2> DEFINE list == Prunable(req[w].seen)
  <2>1. req[w].op # "rollback" /\ list \in SUBSET Addr /\ "prune" \in Steps
    BY <1>0, <1>17 DEF SelectAbsent, At, RequestOK, Prunable, TypeOK, Steps
  <2> HIDE DEF list
  <2>2. RequestOK([req[w] EXCEPT !.step = "prune", !.list = list], enrolled')
    BY <1>0, <2>1 DEF RequestOK, Request
  <2>3. Goto(w, "prune", list) /\ file' = file /\ cleared' = cleared
    BY <1>17 DEF SelectAbsent, list
  <2> QED
    BY <1>0, <1>4, <2>1, <2>2, <2>3
\* With auto_link_android off, nothing is adopted.
<1>18. ~AdoptAndroid(w)
  BY <1>0 DEF AdoptAndroid, At, RequestOK
<1>8. CASE SetEnrollment(w)
  <2>1. req[w].op # "rollback"
    BY <1>0, <1>8 DEF SetEnrollment, At, RequestOK
  <2>2. RequestOK([req[w] EXCEPT !.step = "list", !.list = {}], enrolled')
    BY <1>0, <2>1 DEF RequestOK, Request
  <2>3. "list" \in Steps /\ {} \in SUBSET Addr /\ file' = file /\ (cleared' => cleared)
    BY <1>8 DEF SetEnrollment, Steps
  <2> QED
    BY <1>0, <1>3, <1>4, <1>8, <2>2, <2>3 DEF SetEnrollment
<1>9. CASE ListTargets(w)
  <2>1. RollbackList \in SUBSET Addr /\ TargetsAfter(req[w]) \in SUBSET Addr
    BY <1>0 DEF RollbackList, TargetsAfter, TypeOK, Request
  <2>2. "clear" \in Steps /\ "helper" \in Steps /\ file' = file /\ (cleared' => cleared) /\ enrolled' = enrolled
    BY <1>9 DEF ListTargets, Steps
  <2>3. CASE req[w].op = "rollback"
    <3>1. RequestOK([req[w] EXCEPT !.step = "clear", !.list = RollbackList], enrolled')
      BY <1>0, <2>2, <2>3 DEF RequestOK, Request, RollbackList
    <3> QED
      BY <1>0, <1>4, <1>9, <2>1, <2>2, <2>3, <3>1 DEF ListTargets
  <2>4. CASE req[w].op # "rollback"
    <3>1. RequestOK([req[w] EXCEPT !.step = "helper", !.list = TargetsAfter(req[w])], enrolled')
      BY <1>0, <2>1, <2>4 DEF RequestOK, Request
    <3> QED
      BY <1>0, <1>4, <1>9, <2>1, <2>2, <2>4, <3>1 DEF ListTargets
  <2> QED
    BY <2>3, <2>4
<1>10. CASE ClearEnrollment(w)
  <2>1. "clear" \in Steps /\ "helper" \in Steps /\ {} \in SUBSET Addr /\ file' = file /\ (cleared' => cleared)
    BY <1>10 DEF ClearEnrollment, Steps
  <2>2. CASE enrolled' = {} /\ Goto(w, "helper", {})
    <3>1. RequestOK([req[w] EXCEPT !.step = "helper", !.list = {}], enrolled')
      BY <1>0, <2>2 DEF RequestOK, Request
    <3> QED
      BY <1>0, <1>4, <2>1, <2>2, <3>1
  <2>3. CASE req[w].op = "rollback" /\ req[w].list = {} /\ Goto(w, "helper", {}) /\ UNCHANGED enrolled
    <3>1. RequestOK([req[w] EXCEPT !.step = "helper", !.list = {}], enrolled')
      BY <1>0, <1>10, <2>3 DEF RequestOK, Request, ClearEnrollment, At
    <3> QED
      BY <1>0, <1>4, <2>1, <2>3, <3>1
  <2>4. ASSUME NEW a \in req[w].list, req[w].op = "rollback",
               enrolled' = enrolled \ {a}, Goto(w, "clear", req[w].list \ {a})
        PROVE  ClearInv'
    <3>1. req[w].list \ {a} \in SUBSET Addr
      BY <1>0 DEF Request
    <3>2. RequestOK([req[w] EXCEPT !.step = "clear", !.list = req[w].list \ {a}], enrolled')
      BY <1>0, <1>10, <2>4, <3>1 DEF RequestOK, Request, ClearEnrollment, At
    <3> QED
      BY <1>0, <1>4, <2>1, <2>4, <3>1, <3>2
  <2>5. CASE Respond(w)
    BY <1>0, <1>3, <2>1, <2>5
  <2> QED
    BY <1>10, <2>2, <2>3, <2>4, <2>5 DEF ClearEnrollment
<1>11. CASE ReadText(w)
  <2> DEFINE r == [req[w] EXCEPT !.step = "helper", !.text = file]
  <2>1. r \in Request /\ r.solo = req[w].solo
    BY <1>0 DEF TypeOK, Request, Steps
  <2>2. req[w].op # "autolink" /\ req[w].op # "rollback"
    BY <1>0, <1>11 DEF ReadText, At, RequestOK
  <2>3. req' = [req EXCEPT ![w] = r]
    BY <1>0, <1>11, <2>2 DEF ReadText
  <2>4. RequestOK(r, enrolled')
    BY <1>0, <2>2 DEF RequestOK, Request
  <2> HIDE DEF r
  <2> QED
    BY <1>0, <1>1, <1>2, <1>11, <2>1, <2>3, <2>4, WorkerKeeps DEF ReadText
<1>12. HelperWrites(req[w]).auto = FALSE
  BY <1>0, TargetsOK DEF HelperWrites, RequestOK
<1>13. CASE RunHelper(w)
  <2>1. CASE req[w].op = "emergency"
    <3>1. RequestOK([req[w] EXCEPT !.step = "wipe", !.list = {}], enrolled')
      BY <1>0, <2>1 DEF RequestOK, Request
    <3>2. "wipe" \in Steps /\ {} \in SUBSET Addr /\ file'.auto = FALSE
      BY <1>12, <1>13 DEF RunHelper, Steps
    <3>3. ~cleared'
      BY <1>13, <2>1 DEF RunHelper
    <3> QED
      BY <1>4, <1>13, <2>1, <3>1, <3>2, <3>3 DEF RunHelper
  <2>2. CASE req[w].op # "emergency"
    <3>1. req' = [req EXCEPT ![w] = Idle] /\ file'.auto = FALSE
      BY <1>12, <1>13, <2>2 DEF RunHelper, Respond
    <3>2. cleared' => enrolled' = {} /\ req[w].solo
      BY <1>0, <1>13 DEF RunHelper, At, RequestOK
    <3> QED
      BY <1>0, <1>1, <1>2, <3>1, <3>2, WorkerKeeps, IdleOK
  <2> QED
    BY <2>1, <2>2
<1>14. CASE WipeKernel(w)
  <2>1. req' = [req EXCEPT ![w] = Idle] /\ file' = file /\ enrolled' = {} /\ (cleared' => req[w].solo)
    BY <1>14 DEF WipeKernel, Respond
  <2> QED
    BY <1>0, <1>1, <1>2, <2>1, WorkerKeeps, IdleOK
<1>15. CASE HelperFails(w)
  BY <1>0, <1>3, <1>12, <1>15 DEF HelperFails
<1> QED
  BY <1>5, <1>6, <1>7, <1>8, <1>9, <1>10, <1>11, <1>13, <1>14, <1>15, <1>16, <1>17, <1>18
     DEF ServeRequest

LEMMA StartKeeps ==
  ASSUME TypeOK, ClearInv, NEW w \in Workers, StartRequest(w), "autolink" \notin Ops
  PROVE  ClearInv'
<1>1. PICK op \in Ops : \E dev \in Arguments(op) :
       req' = [v \in Workers |-> IF v = w THEN NewRequest(w, op, dev) ELSE Overlapped(v)]
  BY DEF StartRequest
<1>2. PICK dev \in Arguments(op) :
       req' = [v \in Workers |-> IF v = w THEN NewRequest(w, op, dev) ELSE Overlapped(v)]
  BY <1>1
<1>3. file' = file /\ settings' = settings /\ apc' = apc /\ enrolled' = enrolled /\ ~cleared' /\ req[w] = Idle
  BY DEF StartRequest, db, agent
<1>4. RequestOK(NewRequest(w, op, dev), enrolled)
  <2>1. NewRequest(w, op, dev).text.auto = FALSE
    BY TargetsOK DEF NewRequest, DnsOnly, ClearInv
  <2>2. op # "autolink" /\ op \in AllOps
    OBVIOUS
  <2> QED
    BY <2>1, <2>2 DEF RequestOK, NewRequest, FirstStep, AllOps
<1>5. ASSUME NEW v \in Workers \ {w}
      PROVE  /\ RequestOK(req'[v], enrolled)
             /\ req[v] # Idle => ~req'[v].solo
             /\ req[v] = Idle => req'[v] = Idle
  <2>1. req[v] \in Request /\ RequestOK(req[v], enrolled)
    BY DEF TypeOK, ClearInv
  <2>2. req'[v] = Overlapped(v)
    BY <1>2
  <2>3. CASE req[v] = Idle
    BY <2>2, <2>3, IdleOK DEF Overlapped
  <2>4. CASE req[v] # Idle
    BY <2>1, <2>2, <2>4 DEF Overlapped, Request, RequestOK
  <2> QED
    BY <2>3, <2>4
<1>6. ASSUME NEW u \in Workers, NEW v \in Workers, req'[u] # Idle, req'[u].solo, v # u
      PROVE  req'[v] = Idle
  <2>1. req'[w] = NewRequest(w, op, dev)
    BY <1>2
  <2>2. u = w
    BY <1>5, <1>6
  <2>3. NewRequest(w, op, dev).solo = Alone(w)
    BY DEF NewRequest
  <2>4. NewRequest(w, op, dev).solo
    BY <1>6, <2>1, <2>2
  <2>5. req[v] = Idle
    BY <1>6, <2>2, <2>3, <2>4 DEF Alone
  <2> QED
    BY <1>5, <1>6, <2>2, <2>5
<1>7. ASSUME NEW v \in Workers PROVE RequestOK(req'[v], enrolled')
  <2>1. CASE v = w
    BY <1>2, <1>3, <1>4, <2>1
  <2> QED
    BY <1>3, <1>5, <2>1
<1> QED
  BY <1>3, <1>6, <1>7 DEF ClearInv

LEMMA AgentKeeps ==
  ASSUME TypeOK, ClearInv, AgentStep \/ AgentCrash
  PROVE  ClearInv'
<1>1. ~AutoLinkAndroid
  BY DEF AutoLinkAndroid, ClearInv
<1>2. req' = req /\ cleared' = cleared /\ enrolled' \subseteq enrolled
  BY <1>1 DEF AgentStep, AgentLoad, AgentProbe, AgentUpsert, AgentSelect, AgentPrune, Prune,
              ListAndroids, Reconcile, AgentWrite, AgentReload, AgentApply, AgentCrash, db, ghost
<1>4. file'.auto = FALSE /\ settings'.auto = FALSE
  BY <1>1, TargetsOK DEF AgentStep, AgentLoad, AgentProbe, AgentUpsert, AgentSelect, AgentPrune,
                    ListAndroids, Reconcile, AgentWrite, AgentReload, AgentApply, AgentCrash,
                    EndPass, DnsOnly, ClearInv, db
<1>5. apc' # "adopt"
  BY <1>1 DEF AgentStep, AgentLoad, AgentProbe, AgentUpsert, AgentSelect, AgentPrune,
              ListAndroids, NewAndroids, Reconcile, AgentWrite, AgentReload, AgentApply, AgentCrash,
              EndPass, ClearInv
<1>3. \A w \in Workers : RequestOK(req'[w], enrolled')
  BY <1>2 DEF ClearInv, RequestOK
<1> QED
  BY <1>2, <1>3, <1>4, <1>5 DEF ClearInv

(* Where auto_link_android stays off, the default, a rollback or emergency   *)
(* stop that no other request overlaps or follows is final: no pass that was *)
(* in progress brings a target, a link or an enrollment back, and neither    *)
(* do pruning, devices coming and going or a crash of the agent.            *)
THEOREM ClearingFinal ==
  ASSUME "autolink" \notin Ops
  PROVE  Spec => []ClearingIsFinal
<1>1. ASSUME Init PROVE ClearInv
  BY <1>1, TargetsOK, IdleOK DEF Init, ClearInv, DnsOnly
<1>2. ASSUME Inv, ClearInv, [Next]_vars PROVE ClearInv'
  <2> USE DEF Inv
  <2>1. CASE PresenceChange \/ UNCHANGED vars
    BY <1>2, <2>1 DEF PresenceChange, vars, ClearInv, RequestOK, db, agent
  <2> QED
    BY <1>2, <2>1, AgentKeeps, StartKeeps, ServeKeeps DEF Next
<1>3. Inv /\ ClearInv => ClearingIsFinal
  BY DEF Inv, ClearInv, PassKnows, Agreed, TargetsAgree, Interception, ClearingIsFinal
<1>4. Inv /\ ClearInv /\ [Next]_vars => ClearInv'
  BY <1>2
<1> QED
  BY <1>1, <1>3, <1>4, InvHolds, PTL DEF Spec
=============================================================================
