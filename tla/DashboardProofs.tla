-------------------------- MODULE DashboardProofs ---------------------------
(***************************************************************************)
(* What TLAPS proves of what the dashboard's handlers share.  Of            *)
(* AccessRequests, for any number of requests, domains and concurrent       *)
(* handlers: an approval on record is in force, and the desk implements     *)
(* DecisionRegister.  Of ConfigFile, for any number of helpers and editors, *)
(* any addresses and tails of any length: unless two helpers shared the     *)
(* temporary file, or a helper worked on a damaged file or on unmanaged     *)
(* addresses that changed under it, config.toml is what it spells.  Of      *)
(* PayloadCache, for any number of handlers and any lifetime: no answer is  *)
(* older than that.  Of LiveFeed, for any filters and limits and a log of   *)
(* any length: a feed whose requests did not overlap is the log.            *)
(***************************************************************************)
EXTENDS AccessRequests, ConfigFile, PayloadCache, LiveFeed, FiniteSetTheorems, TLAPS

-----------------------------------------------------------------------------
(* AccessRequests.                                                          *)

\* Spending keeps the budget in its range.
LEMMA SpendType == ASSUME budget \in 0..MaxEvents, Spend PROVE budget' \in 0..MaxEvents
BY BoundAssumption DEF Spend

\* A handler that is at a step of its request is a handler.
LEMMA AtHandler ==
  ASSUME TypeOK, NEW w \in Workers, NEW step \in Steps, At(w, step)
  PROVE  req[w] \in Handler /\ req[w].id \in Ids /\ req[w].decision \in Decisions
BY DEF TypeOK, At, Steps, Handler, Free

\* Moving a handler on leaves the others, and what it decides, alone.
LEMMA GotoType ==
  ASSUME TypeOK, NEW w \in Workers, req[w] \in Handler, NEW step \in Steps, Goto(w, step)
  PROVE  req' \in [Workers -> Handler \cup {Free}]
BY DEF TypeOK, Goto, Handler

LEMMA RespondType ==
  ASSUME TypeOK, NEW w \in Workers, Respond(w)
  PROVE  req' \in [Workers -> Handler \cup {Free}]
BY DEF TypeOK, Respond

\* A step of one handler leaves the others where they are, and it either ends
\* or moves on with the same request and decision.
LEMMA HandlerMoves ==
  ASSUME TypeOK, NEW w \in Workers, req[w] \in Handler, NEW step \in Steps,
         Goto(w, step) \/ Respond(w)
  PROVE  /\ \A v \in Workers \ {w} : req'[v] = req[v]
         /\ Respond(w) => req'[w] = Free
         /\ Goto(w, step) => req'[w] = [step |-> step, id |-> req[w].id, decision |-> req[w].decision]
BY DEF TypeOK, Goto, Respond, Handler

LEMMA InitInductive == Init => Inductive
<1>1. SUFFICES ASSUME Init PROVE Inductive
  OBVIOUS
<1>2. TypeOK
  BY <1>1, BoundAssumption DEF Init, TypeOK, Row, Absent
<1>3. QED
  BY <1>1, <1>2 DEF Init, Inductive, ApprovalInForce, RowsConsistent, HandlerOrder, Absent,
                    Undecided, At, Free

LEMMA StepTypeOK == ASSUME Inductive, Next PROVE TypeOK'
<1> USE DEF Inductive
<1>1. CASE \E i \in Ids : CreateRequest(i)
  BY <1>1, SpendType DEF TypeOK, CreateRequest, Row, Pending
<1>2. ASSUME NEW w \in Workers, StartDecision(w) PROVE TypeOK'
  BY <1>2, SpendType DEF TypeOK, StartDecision, Handler, Steps
<1>3. ASSUME NEW w \in Workers, FetchRequest(w) PROVE TypeOK'
  <2>1. req[w] \in Handler
    BY <1>3, AtHandler DEF FetchRequest, Steps
  <2>2. req' \in [Workers -> Handler \cup {Free}]
    BY <1>3, <2>1, GotoType, RespondType DEF FetchRequest, Steps
  <2>3. QED
    BY <1>3, <2>2 DEF TypeOK, FetchRequest
<1>4. ASSUME NEW w \in Workers, AllowDomain(w) PROVE TypeOK'
  <2>1. req[w] \in Handler /\ DomainOf[req[w].id] \in Domains
    BY <1>4, AtHandler, DomainAssumption DEF AllowDomain, Steps
  <2>2. req' \in [Workers -> Handler \cup {Free}]
    BY <1>4, <2>1, GotoType, RespondType DEF AllowDomain, Steps
  <2>3. QED
    BY <1>4, <2>1, <2>2, SpendType DEF TypeOK, AllowDomain
<1>5. ASSUME NEW w \in Workers, RecordDecision(w) PROVE TypeOK'
  <2>1. req[w] \in Handler /\ req[w].id \in Ids /\ req[w].decision \in Decisions
    BY <1>5, AtHandler DEF RecordDecision, Steps
  <2>2. req' \in [Workers -> Handler \cup {Free}]
    BY <1>5, <2>1, GotoType, RespondType DEF RecordDecision, Steps
  <2>3. row' \in [Ids -> Row]
    BY <1>5, <2>1 DEF TypeOK, RecordDecision, Row, StatusOf
  <2>4. QED
    BY <1>5, <2>1, <2>2, <2>3 DEF TypeOK, RecordDecision
<1>6. ASSUME NEW w \in Workers, ReadDecided(w) PROVE TypeOK'
  <2>1. req[w] \in Handler /\ req[w].id \in Ids
    BY <1>6, AtHandler DEF ReadDecided, Steps
  <2>2. req' \in [Workers -> Handler \cup {Free}]
    BY <1>6, RespondType DEF ReadDecided
  <2>3. row[req[w].id].decision \in Decisions
    BY <1>6, <2>1 DEF ReadDecided, HandlerOrder, TypeOK, Row
  <2>4. QED
    BY <1>6, <2>1, <2>2, <2>3 DEF TypeOK, ReadDecided
<1>7. CASE Crash
  BY <1>7, SpendType DEF TypeOK, Crash
<1>8. QED
  BY <1>1, <1>2, <1>3, <1>4, <1>5, <1>6, <1>7, Next DEF Next

LEMMA StepInductive == ASSUME Inductive, Next PROVE Inductive'
<1> USE DEF Inductive
<1>0. TypeOK'
  BY StepTypeOK
<1>1. CASE \E i \in Ids : CreateRequest(i)
  <2> SUFFICES ASSUME NEW i \in Ids, CreateRequest(i) PROVE Inductive'
    BY <1>1
  <2>1. \A j \in Ids : row'[j] = IF j = i THEN Pending ELSE row[j]
    BY DEF CreateRequest, TypeOK
  <2>2. row[i].decision = Undecided
    BY DEF CreateRequest, RowsConsistent
  <2>3. ApprovalInForce' /\ RowsConsistent'
    BY <2>1 DEF CreateRequest, ApprovalInForce, RowsConsistent, Pending, Undecided
  <2>4. HandlerOrder'
    <3> SUFFICES ASSUME NEW v \in Workers, At(v, "read") PROVE row'[req[v].id].decision # Undecided
      BY DEF CreateRequest, HandlerOrder, At
    <3>1. QED
      BY <2>1, <2>2, AtHandler DEF HandlerOrder, Steps
  <2>5. QED
    BY <1>0, <2>3, <2>4
<1>2. ASSUME NEW w \in Workers, StartDecision(w) PROVE Inductive'
  BY <1>0, <1>2 DEF StartDecision, ApprovalInForce, RowsConsistent, HandlerOrder, At, TypeOK
<1>3. ASSUME NEW w \in Workers, FetchRequest(w) PROVE Inductive'
  <2>1. req[w] \in Handler /\ req[w].id \in Ids /\ req[w].decision \in Decisions
    BY <1>3, AtHandler DEF FetchRequest, Steps
  <2>2. PICK step \in {"allow", "record"} :
          /\ Goto(w, step) \/ Respond(w)
          /\ Goto(w, step) /\ step = "record" => req[w].decision # "always_allow"
    BY <1>3, <2>1 DEF FetchRequest, Decisions
  <2>3. /\ \A v \in Workers \ {w} : req'[v] = req[v]
        /\ req'[w] = Free \/ req'[w] = [step |-> step, id |-> req[w].id, decision |-> req[w].decision]
    BY <2>1, <2>2, HandlerMoves DEF Steps
  <2>4. CASE req'[w] = Free
    BY <1>0, <1>3, <2>3, <2>4 DEF FetchRequest, ApprovalInForce, RowsConsistent, HandlerOrder, At, Free
  <2>5. CASE req'[w] # Free
    <3>1. Goto(w, step)
      BY <2>1, <2>2, <2>5, HandlerMoves DEF Steps
    <3>2. QED
      BY <1>0, <1>3, <2>2, <2>3, <2>5, <3>1
      DEF FetchRequest, ApprovalInForce, RowsConsistent, HandlerOrder, At
  <2>6. QED
    BY <2>4, <2>5
<1>4. ASSUME NEW w \in Workers, AllowDomain(w) PROVE Inductive'
  <2>1. req[w] \in Handler
    BY <1>4, AtHandler DEF AllowDomain, Steps
  <2>2. /\ \A v \in Workers \ {w} : req'[v] = req[v]
        /\ \/ req'[w] = Free
           \/ /\ req'[w] = [step |-> "record", id |-> req[w].id, decision |-> req[w].decision]
              /\ DomainOf[req[w].id] \in allowed'
    BY <1>4, <2>1, HandlerMoves DEF AllowDomain, Steps
  <2>3. row' = row /\ allowed \subseteq allowed'
    BY <1>4 DEF AllowDomain
  <2>4. QED
    BY <1>0, <2>2, <2>3 DEF ApprovalInForce, RowsConsistent, HandlerOrder, At, Free
<1>5. ASSUME NEW w \in Workers, RecordDecision(w) PROVE Inductive'
  <2>1. req[w] \in Handler /\ req[w].id \in Ids /\ req[w].decision \in Decisions
    BY <1>5, AtHandler DEF RecordDecision, Steps
  <2>2. \A j \in Ids : row'[j] = row[j] \/
          (j = req[w].id /\ row'[j] = [status |-> StatusOf(req[w].decision), decision |-> req[w].decision])
    BY <1>5 DEF RecordDecision, TypeOK
  <2>3. ApprovalInForce'
    BY <1>5, <2>1, <2>2 DEF RecordDecision, ApprovalInForce, HandlerOrder
  <2>4. RowsConsistent'
    BY <2>1, <2>2 DEF RowsConsistent, StatusOf, Decisions, Undecided
  <2>5. HandlerOrder'
    <3>0. Respond(w) \/ (Goto(w, "read") /\ row'[req[w].id].decision = req[w].decision)
      BY <1>5, <2>1 DEF RecordDecision, TypeOK
    <3>1. /\ \A v \in Workers \ {w} : req'[v] = req[v]
          /\ \/ req'[w] = Free
             \/ /\ req'[w] = [step |-> "read", id |-> req[w].id, decision |-> req[w].decision]
                /\ row'[req[w].id].decision = req[w].decision
      BY <2>1, <3>0, HandlerMoves DEF Steps
    <3>2. \A v \in Workers \ {w} : At(v, "read") => row'[req[v].id].decision # Undecided
      BY <2>1, <2>2, AtHandler DEF HandlerOrder, Steps, Decisions, Undecided
    <3>3. allowed' = allowed
      BY <1>5 DEF RecordDecision
    <3>4. QED
      BY <2>1, <3>1, <3>2, <3>3 DEF HandlerOrder, At, Free, Decisions, Undecided
  <2>6. QED
    BY <1>0, <2>3, <2>4, <2>5
<1>6. ASSUME NEW w \in Workers, ReadDecided(w) PROVE Inductive'
  BY <1>0, <1>6 DEF ReadDecided, Respond, ApprovalInForce, RowsConsistent, HandlerOrder, At, TypeOK, Free
<1>7. CASE Crash
  BY <1>0, <1>7 DEF Crash, ApprovalInForce, RowsConsistent, HandlerOrder, At, Free
<1>8. QED
  BY <1>1, <1>2, <1>3, <1>4, <1>5, <1>6, <1>7, Next DEF Next

\* Types, approvals in force and the facts the refinement needs hold always.
THEOREM InductiveHolds == Spec => []Inductive
<1>1. Inductive /\ [Next]_vars => Inductive'
  <2>1. Inductive /\ UNCHANGED vars => Inductive'
    BY DEF Inductive, vars, TypeOK, ApprovalInForce, RowsConsistent, HandlerOrder, At
  <2>2. QED
    BY <2>1, StepInductive
<1>2. QED
  BY InitInductive, <1>1, PTL DEF Spec

\* Rows, handlers and what was confirmed or refused keep their types, whichever
\* handlers race, fail or die (dashboard.py:637).
THEOREM TypeCorrect == Spec => []TypeOK
<1>1. Inductive => TypeOK
  BY DEF Inductive
<1>2. QED
  BY <1>1, InductiveHolds, PTL

\* An approval on record is in force: whichever handlers race, fail or die, no
\* row says always_allow while its domain is missing from the allow list.
THEOREM ApprovalsInForce == Spec => []ApprovalInForce
<1>1. Inductive => ApprovalInForce
  BY DEF Inductive
<1>2. QED
  BY <1>1, InductiveHolds, PTL

-----------------------------------------------------------------------------
(* Refinement.                                                             *)

\* Every step of the desk decides an undecided request, confirms a decided one,
\* or changes nothing the register has.
LEMMA StepRefines ==
  ASSUME Inductive, [Next]_vars
  PROVE  [Register!Next]_<<[i \in Ids |-> row[i].decision], confirmed>>
<1> DEFINE record == [i \in Ids |-> row[i].decision]
<1> USE DEF Inductive
<1>1. CASE \E i \in Ids : CreateRequest(i)
  <2> SUFFICES ASSUME NEW i \in Ids, CreateRequest(i) PROVE UNCHANGED <<record, confirmed>>
    BY <1>1
  <2>1. \A j \in Ids : row'[j].decision = row[j].decision
    BY DEF CreateRequest, TypeOK, Pending, RowsConsistent
  <2>2. QED
    BY <2>1 DEF CreateRequest
<1>2. ASSUME NEW w \in Workers, RecordDecision(w) PROVE [Register!Next]_<<record, confirmed>>
  <2>1. req[w].id \in Ids /\ req[w].decision \in Decisions
    BY <1>2, AtHandler DEF RecordDecision, Steps
  <2>2. CASE row[req[w].id].status = "pending"
    <3>1. record[req[w].id] = Undecided /\ UNCHANGED confirmed
      BY <1>2, <2>1, <2>2 DEF RecordDecision, RowsConsistent
    <3>2. record' = [record EXCEPT ![req[w].id] = req[w].decision]
      <4>1. \A j \in Ids : row'[j].decision = IF j = req[w].id THEN req[w].decision ELSE row[j].decision
        BY <1>2, <2>1, <2>2 DEF RecordDecision, TypeOK
      <4>2. QED
        BY <4>1
    <3>3. QED
      BY <2>1, <3>1, <3>2 DEF Register!Next, Register!Decide, Undecided, Register!Undecided
  <2>3. CASE row[req[w].id].status # "pending"
    BY <1>2, <2>3 DEF RecordDecision
  <2>4. QED
    BY <2>2, <2>3
<1>3. ASSUME NEW w \in Workers, ReadDecided(w) PROVE [Register!Next]_<<record, confirmed>>
  <2>1. req[w].id \in Ids
    BY <1>3, AtHandler DEF ReadDecided, Steps
  <2>2. Register!Confirm(req[w].id)
    BY <1>3, <2>1 DEF ReadDecided, HandlerOrder, Register!Confirm, Undecided, Register!Undecided
  <2>3. QED
    BY <2>1, <2>2 DEF Register!Next
<1>4. ASSUME NEW w \in Workers, StartDecision(w) \/ FetchRequest(w) \/ AllowDomain(w)
      PROVE UNCHANGED <<record, confirmed>>
  BY <1>4 DEF StartDecision, FetchRequest, AllowDomain
<1>5. CASE Crash \/ UNCHANGED vars
  BY <1>5 DEF Crash, vars
<1>6. QED
  BY <1>1, <1>2, <1>3, <1>4, <1>5, [Next]_vars DEF Next

\* Handlers, crashes and double decisions implement the register that decides
\* once and confirms nothing but what it decided.
THEOREM Refinement == Spec => ImplementsRegister
<1>1. Init => Register!Init
  BY DEF Init, Register!Init, Absent, Undecided, Register!Undecided
<1>2. Inductive /\ [Next]_vars => [Register!Next]_<<[i \in Ids |-> row[i].decision], confirmed>>
  BY StepRefines
<1>3. QED
  BY <1>1, <1>2, InductiveHolds, PTL DEF Spec, ImplementsRegister, Register!Spec

-----------------------------------------------------------------------------
(* ConfigFile.                                                              *)

USE ConfigConstants

\* The contents of an inode, and a helper at each of its steps.
Texts == [kind : {"text"}, settings : Settings, tail : Nat]
Contents == Texts \union {Empty}

Check == [step : {"check"}, targets : SUBSET Hosts, taint : BOOLEAN]
EditTargets == [step : {"edit"}, targets : SUBSET Hosts, unmanaged : SUBSET (Hosts \ OffLimits),
                taint : BOOLEAN]
EditFlags == [step : {"edit"}, taint : BOOLEAN]
Open == [step : {"open"}, text : Texts, taint : BOOLEAN]
Write == [step : {"write"}, text : Texts, taint : BOOLEAN, inode : Inodes]
Renaming == [step : {"rename"}, taint : BOOLEAN, inode : Inodes]
Run == {NotRunning} \union Check \union EditTargets \union EditFlags \union Open \union Write
         \union Renaming

ConfigTyped ==
  /\ inodes \in [Inodes -> Contents]
  /\ config \in Inodes
  /\ tmp \in Inodes \union {NoInode}
  /\ config # tmp
  /\ runs \in [Runs -> Run]
  /\ excused \in BOOLEAN

SoundText(c) == c \in Texts /\ c.tail = 0 /\ Accepted(c.settings)

\* Nobody but h writes to or renames what h opened.
Owns(h) == runs[h].inode = tmp /\ \A g \in Writers \ {h} : runs[g].inode # tmp

\* What a helper that is not tainted has to go on at each step.
Good(h) ==
  /\ runs[h] \in EditTargets =>
       runs[h].targets \intersect (OffLimits \union runs[h].unmanaged) = {}
  /\ runs[h] \in Open => SoundText(runs[h].text)
  /\ runs[h] \in Write => Owns(h) /\ SoundText(runs[h].text) /\ inodes[runs[h].inode] = Empty
  /\ runs[h] \in Renaming => Owns(h) /\ SoundText(inodes[runs[h].inode])

Untainted == \A h \in Runs : runs[h] # NotRunning /\ ~runs[h].taint => Good(h)

\* A file that is vouched for is sound, and nobody has it open.
Vouched ==
  ~excused => SoundText(inodes[config]) /\ \A h \in Writers : runs[h].inode # config

ConfigInv == ConfigTyped /\ Untainted /\ Vouched

-----------------------------------------------------------------------------
(* Texts.                                                                   *)

\* The loader gives a text's own settings, and nothing else, if it has no tail
\* and names no target that is off limits or unmanaged.
LEMMA SoundMeans ==
  ASSUME NEW c \in Contents
  PROVE  Sound(c) <=> SoundText(c)
<1>1. CASE c = Empty
  BY <1>1 DEF Empty, Sound, SoundText, Texts
<1>2. CASE c \in Texts /\ c.tail = 0 /\ Accepted(c.settings)
  BY <1>2 DEF Texts, Sound, SoundText, LoadOutcome
<1>3. CASE c \in Texts /\ (c.tail # 0 \/ ~Accepted(c.settings))
  <2>1. <<>> \in LoadOutcome(c)
    BY <1>3 DEF LoadOutcome, Texts
  <2>2. <<>> # <<c.settings>>
    OBVIOUS
  <2> QED
    BY <1>3, <2>1, <2>2 DEF Sound, SoundText
<1> QED
  BY <1>1, <1>2, <1>3 DEF Contents

LEMMA TextTyped ==
  ASSUME NEW s \in Settings, NEW tail \in Nat
  PROVE  /\ Text(s, tail) \in Texts /\ Text(s, tail).settings = s
         /\ tail = 0 => Text(s, tail).tail = 0
BY DEF Text, Texts

LEMMA LengthTyped ==
  ASSUME NEW c \in Contents
  PROVE  Length(c) \in Nat /\ (c = Empty => Length(c) = 0)
<1>1. CASE c = Empty
  BY <1>1 DEF Length, Empty
<1>2. CASE c \in Texts
  <2>1. c.settings.targets \in SUBSET Hosts /\ c.tail \in Nat
    BY <1>2 DEF Texts, Settings
  <2>2. Cardinality(c.settings.targets) \in Nat
    BY <2>1, FS_Subset, FS_CardinalityType
  <2> QED
    BY <1>2, <2>1, <2>2 DEF Length, Texts, Empty
<1> QED
  BY <1>1, <1>2 DEF Contents

LEMMA OneMore ==
  ASSUME NEW S, IsFiniteSet(S), NEW x
  PROVE  /\ IsFiniteSet(S \cup {x})
         /\ Cardinality(S \cup {x}) \in Nat /\ Cardinality(S \cup {x}) <= Cardinality(S) + 1
<1>1. Cardinality(S) \in Nat
  BY FS_CardinalityType
<1>2. IsFiniteSet(S \cup {x})
  BY FS_AddElement
<1>3. Cardinality(S \cup {x}) = IF x \in S THEN Cardinality(S) ELSE Cardinality(S) + 1
  BY FS_AddElement
<1>4. Cardinality(S \cup {x}) \in Nat
  BY <1>2, FS_CardinalityType
<1> QED
  BY <1>1, <1>2, <1>3, <1>4

LEMMA NoInodeIsNone == NoInode \notin Inodes
<1>1. Cardinality(Runs) \in Nat
  BY FS_CardinalityType
<1> QED
  BY <1>1 DEF NoInode, Inodes

\* There is a free inode for whoever needs one.
LEMMA FreshIsFree ==
  ASSUME ConfigTyped
  PROVE  Fresh \in Inodes /\ Fresh \notin InUse
<1> DEFINE T == {runs[h].inode : h \in Writers}
           f == [h \in Writers |-> runs[h].inode]
           n == Cardinality(Runs)
<1>1. IsFiniteSet(Writers) /\ Cardinality(Writers) <= n /\ n \in Nat /\ Cardinality(Writers) \in Nat
  BY FS_Subset, FS_CardinalityType DEF Writers
<1>2. f \in Surjection(Writers, T)
  BY DEF Surjection
<1> HIDE DEF f
<1>3. IsFiniteSet(T) /\ Cardinality(T) <= Cardinality(Writers) /\ Cardinality(T) \in Nat
  BY <1>1, <1>2, FS_Surjection, FS_CardinalityType
<1> HIDE DEF T
<1>4. /\ IsFiniteSet(T \cup {config}) /\ Cardinality(T \cup {config}) \in Nat
      /\ Cardinality(T \cup {config}) <= Cardinality(T) + 1
  BY <1>3, OneMore
<1>5. /\ IsFiniteSet((T \cup {config}) \cup {tmp})
      /\ Cardinality((T \cup {config}) \cup {tmp}) <= Cardinality(T \cup {config}) + 1
  BY <1>4, OneMore
<1>6. InUse = (T \cup {config}) \cup {tmp}
  BY DEF InUse, T
<1>7. Cardinality(InUse) \in Nat /\ IsFiniteSet(InUse)
  BY <1>5, <1>6, FS_CardinalityType
<1>8. Cardinality(InUse) <= n + 2
  BY <1>1, <1>3, <1>4, <1>5, <1>6, <1>7
<1>9. Cardinality(Inodes) = n + 3
  <2>1. Cardinality(0 .. (n + 2)) = IF 0 > n + 2 THEN 0 ELSE n + 2 - 0 + 1
    BY <1>1, FS_Interval
  <2> QED
    BY <1>1, <2>1 DEF Inodes
<1>10. ~(Inodes \subseteq InUse)
  <2> SUFFICES ASSUME Inodes \subseteq InUse PROVE FALSE
    OBVIOUS
  <2>1. Cardinality(Inodes) <= Cardinality(InUse)
    BY <1>7, FS_Subset
  <2> QED
    BY <1>1, <1>7, <1>8, <1>9, <2>1
<1>11. \E i \in Inodes : i \notin InUse
  BY <1>10
<1> QED
  BY <1>11 DEF Fresh

-----------------------------------------------------------------------------
(* Steps.                                                                   *)

\* A helper's step tells what its record holds.
LEMMA Kinds ==
  ASSUME ConfigTyped, NEW h \in Runs
  PROVE  /\ runs[h].step = "check" => runs[h] \in Check
         /\ runs[h].step = "edit" => runs[h] \in EditTargets \union EditFlags
         /\ runs[h] \in EditTargets => "targets" \in DOMAIN runs[h]
         /\ runs[h] \in EditFlags => "targets" \notin DOMAIN runs[h]
         /\ runs[h].step = "open" => runs[h] \in Open
         /\ runs[h].step = "write" => runs[h] \in Write
         /\ runs[h].step = "rename" => runs[h] \in Renaming
         /\ h \in Writers <=> runs[h] \in Write \union Renaming
         /\ h \in Writers => runs[h].inode \in Inodes
<1>1. runs[h] \in Run
  BY DEF ConfigTyped
<1> QED
  BY <1>1 DEF Run, NotRunning, Check, EditTargets, EditFlags, Open, Write, Renaming, Writers

LEMMA TaintKeeps ==
  ASSUME NEW r \in Write \union Renaming
  PROVE  LET t == [r EXCEPT !.taint = TRUE]
         IN t \in Write \union Renaming /\ t.taint /\ t.inode = r.inode /\ t.step = r.step
BY DEF Write, Renaming

\* A step that opens nothing and touches neither file.
LEMMA ReaderStep ==
  ASSUME ConfigInv, NEW h \in Runs \ Writers,
         NEW r \in {NotRunning} \union Check \union EditTargets \union EditFlags \union Open,
         runs' = [runs EXCEPT ![h] = r], UNCHANGED <<inodes, config, tmp, excused>>,
         r \in EditTargets /\ ~r.taint =>
           r.targets \intersect (OffLimits \union r.unmanaged) = {},
         r \in Open /\ ~r.taint => SoundText(r.text)
  PROVE  ConfigInv'
<1>1. r \in Run /\ r.step \notin {"write", "rename"} /\ r \notin Write \union Renaming
  BY DEF Run, NotRunning, Check, EditTargets, EditFlags, Open, Write, Renaming
<1>2. ConfigTyped'
  BY <1>1 DEF ConfigInv, ConfigTyped
<1>3. \A g \in Runs \ {h} : runs'[g] = runs[g]
  BY DEF ConfigInv, ConfigTyped
<1>4. runs'[h] = r
  BY DEF ConfigInv, ConfigTyped
<1>5. Writers' = Writers
  BY <1>1, <1>3, <1>4 DEF Writers
<1>6. \A g \in Writers : runs'[g] = runs[g]
  BY <1>3
<1>7. \A g \in Runs \ {h} : Owns(g) => Owns(g)'
  BY <1>3, <1>5, <1>6 DEF Owns
<1>8. \A g \in Runs \ {h} : Good(g) => Good(g)'
  BY <1>3, <1>7 DEF Good
<1>9. r # NotRunning /\ ~r.taint => Good(h)'
  BY <1>1, <1>4 DEF Good
<1>10. Untainted'
  BY <1>3, <1>4, <1>8, <1>9 DEF ConfigInv, Untainted
<1>11. Vouched'
  BY <1>5, <1>6 DEF ConfigInv, Vouched
<1> QED
  BY <1>2, <1>10, <1>11 DEF ConfigInv

LEMMA StartStep ==
  ASSUME ConfigInv, NEW h \in Runs, StartTargets(h) \/ StartFlags(h)
  PROVE  ConfigInv'
<1>1. h \notin Writers
  BY DEF StartTargets, StartFlags, HelperAt, Writers
<1>2. CASE StartTargets(h)
  <2>1. PICK list \in SUBSET Hosts :
          runs' = [runs EXCEPT ![h] = [step |-> "check", targets |-> list, taint |-> FALSE]]
    BY <1>2 DEF StartTargets
  <2> DEFINE r == [step |-> "check", targets |-> list, taint |-> FALSE]
  <2>2. r \in Check /\ r \notin EditTargets /\ r \notin Open
    BY DEF Check, EditTargets, Open
  <2> HIDE DEF r
  <2> QED
    BY <1>1, <1>2, <2>1, <2>2, ReaderStep DEF StartTargets, r
<1>3. CASE StartFlags(h)
  <2> DEFINE r == [step |-> "edit", taint |-> FALSE]
  <2>1. r \in EditFlags /\ r \notin EditTargets /\ r \notin Open
    BY DEF EditFlags, EditTargets, Open
  <2>2. runs' = [runs EXCEPT ![h] = r]
    BY <1>3 DEF StartFlags
  <2> HIDE DEF r
  <2> QED
    BY <1>1, <1>3, <2>1, <2>2, ReaderStep DEF StartFlags
<1> QED
  BY <1>2, <1>3

LEMMA UnmanagedTyped ==
  ASSUME NEW c \in Contents
  PROVE  Unmanaged(c) \in SUBSET (Hosts \ OffLimits)
BY DEF Unmanaged, Contents, Texts, Settings, Empty

LEMMA CheckStep ==
  ASSUME ConfigInv, NEW h \in Runs, CheckTargets(h)
  PROVE  ConfigInv'
<1>1. h \notin Writers /\ runs[h] \in Check /\ inodes[config] \in Contents
  BY Kinds DEF CheckTargets, HelperAt, Writers, ConfigInv, ConfigTyped
<1>2. UNCHANGED <<inodes, config, tmp, excused>>
  BY DEF CheckTargets
<1>3. CASE /\ runs[h].targets \intersect Refusal(inodes[config]) = {}
           /\ runs' = [runs EXCEPT ![h] =
                [step |-> "edit", targets |-> runs[h].targets,
                 unmanaged |-> Unmanaged(inodes[config]), taint |-> ~Sound(inodes[config])]]
  <2> DEFINE r == [step |-> "edit", targets |-> runs[h].targets,
                   unmanaged |-> Unmanaged(inodes[config]), taint |-> ~Sound(inodes[config])]
  <2>1. runs[h].targets \in SUBSET Hosts
    BY <1>1 DEF Check
  <2>2. r \in EditTargets /\ r \notin Open
    BY <1>1, <2>1, UnmanagedTyped DEF EditTargets, Open
  <2>3. r.targets \intersect (OffLimits \union r.unmanaged) = {}
    BY <1>3 DEF Refusal
  <2>4. runs' = [runs EXCEPT ![h] = r]
    BY <1>3
  <2> HIDE DEF r
  <2> QED
    BY <1>1, <1>2, <2>2, <2>3, <2>4, ReaderStep
<1>4. CASE Leaves(h)
  <2>1. NotRunning \notin EditTargets /\ NotRunning \notin Open
    BY DEF NotRunning, EditTargets, Open
  <2> QED
    BY <1>1, <1>2, <1>4, <2>1, ReaderStep DEF Leaves
<1> QED
  BY <1>3, <1>4 DEF CheckTargets

LEMMA EditStep ==
  ASSUME ConfigInv, NEW h \in Runs, EditText(h)
  PROVE  ConfigInv'
<1> DEFINE c == inodes[config]
           t == Text(Edited(runs[h], c.settings), c.tail)
           r == [step |-> "open", text |-> t,
                 taint |-> runs[h].taint \/ ~Sound(c) \/ ~Rechecked(runs[h], c)]
<1>1. /\ h \notin Writers /\ runs[h] \in EditTargets \union EditFlags
      /\ c \in Contents
  BY Kinds DEF EditText, HelperAt, Writers, ConfigInv, ConfigTyped
<1>2. UNCHANGED <<inodes, config, tmp, excused>>
  BY DEF EditText
<1>3. CASE Leaves(h)
  <2>1. NotRunning \notin EditTargets /\ NotRunning \notin Open
    BY DEF NotRunning, EditTargets, Open
  <2> QED
    BY <1>1, <1>2, <1>3, <2>1, ReaderStep DEF Leaves
<1>4. CASE c.kind # "empty" /\ runs' = [runs EXCEPT ![h] = r]
  <2>1. c \in Texts /\ c.settings \in Settings /\ c.tail \in Nat
    BY <1>1, <1>4 DEF Contents, Texts, Empty
  <2>2. Edited(runs[h], c.settings) \in Settings
    BY <1>1, <2>1 DEF Edited, EditTargets, EditFlags, Settings
  <2>3. t \in Texts /\ t.settings = Edited(runs[h], c.settings) /\ (c.tail = 0 => t.tail = 0)
    BY <2>1, <2>2, TextTyped
  <2>4. runs[h].taint \in BOOLEAN
    BY <1>1 DEF EditTargets, EditFlags
  <2>5. ASSUME ~runs[h].taint, Sound(c), Rechecked(runs[h], c)
        PROVE  SoundText(t)
    <3>1. c.tail = 0 /\ Accepted(c.settings)
      BY <1>1, <2>5, SoundMeans DEF SoundText
    <3>2. CASE runs[h] \in EditFlags
      <4>1. Edited(runs[h], c.settings) = c.settings
        BY <3>2 DEF Edited, EditFlags
      <4> QED
        BY <2>3, <3>1, <4>1 DEF SoundText
    <3>3. CASE runs[h] \in EditTargets
      <4>1. runs[h].targets \intersect (OffLimits \union runs[h].unmanaged) = {}
        <5>1. runs[h] # NotRunning
          BY <3>3 DEF NotRunning, EditTargets
        <5> QED
          BY <2>5, <3>3, <5>1 DEF ConfigInv, Untainted, Good
      <4>2. runs[h].unmanaged = c.settings.unmanaged
        BY <1>4, <2>5, <3>3 DEF Rechecked, EditTargets, Unmanaged
      <4>3. /\ Edited(runs[h], c.settings).targets = runs[h].targets
            /\ Edited(runs[h], c.settings).unmanaged = c.settings.unmanaged
        BY <2>1, <3>3 DEF Edited, EditTargets, Settings
      <4>4. Accepted(Edited(runs[h], c.settings))
        BY <4>1, <4>2, <4>3 DEF Accepted
      <4> QED
        BY <2>3, <3>1, <4>4 DEF SoundText
    <3> QED
      BY <1>1, <3>2, <3>3
  <2> DEFINE bad == runs[h].taint \/ ~Sound(c) \/ ~Rechecked(runs[h], c)
  <2>6. bad \in BOOLEAN
    OBVIOUS
  <2>7. r.taint = bad /\ r.text = t
    OBVIOUS
  <2> HIDE DEF c, t
  <2>8. r \in Open /\ r \notin EditTargets
    BY <2>3 DEF Open, EditTargets
  <2>9. r \in Open /\ ~r.taint => SoundText(r.text)
    BY <2>5, <2>7
  <2> HIDE DEF r
  <2> QED
    BY <1>1, <1>2, <1>4, <2>8, <2>9, ReaderStep
<1> QED
  BY <1>3, <1>4 DEF EditText

\* The helper that opens the temporary file owns it, or is tainted with the others.
LEMMA OpenStep ==
  ASSUME ConfigInv, NEW h \in Runs, OpenTemporary(h)
  PROVE  ConfigInv'
<1> DEFINE i == IF tmp = NoInode THEN Fresh ELSE tmp
           others == {g \in Writers : runs[g].inode = i}
           shared == runs[h].taint \/ others # {}
           r == [step |-> "write", text |-> runs[h].text, inode |-> i, taint |-> shared]
<1> USE DEF ConfigInv
<1>1. h \notin Writers /\ runs[h] \in Open
  BY Kinds DEF OpenTemporary, HelperAt, Writers
<1>2. i \in Inodes /\ i # config /\ (tmp = NoInode => i \notin InUse)
  BY FreshIsFree DEF ConfigTyped, InUse
<1>3. /\ inodes' = [inodes EXCEPT ![i] = Empty] /\ tmp' = i
      /\ runs' = [g \in Runs |-> IF g = h THEN r
                                 ELSE IF g \in others THEN [runs[g] EXCEPT !.taint = TRUE]
                                 ELSE runs[g]]
      /\ UNCHANGED <<config, excused>>
  BY DEF OpenTemporary
<1> HIDE DEF i
<1>4. r \in Write /\ r.inode = i /\ r.text = runs[h].text
  <2>1. shared \in BOOLEAN
    OBVIOUS
  <2> HIDE DEF shared
  <2> QED
    BY <1>1, <1>2, <2>1 DEF Open, Write
<1>5. r.taint = shared
  OBVIOUS
<1> HIDE DEF r
<1>6. others \subseteq Writers /\ Writers \subseteq Runs /\ h \notin others
  BY <1>1 DEF Writers
<1>7. \A g \in others : /\ runs'[g] \in Write \union Renaming /\ runs'[g].taint
                        /\ runs'[g].inode = runs[g].inode /\ runs'[g].step = runs[g].step
  <2> SUFFICES ASSUME NEW g \in others
               PROVE  /\ runs'[g] \in Write \union Renaming /\ runs'[g].taint
                      /\ runs'[g].inode = runs[g].inode /\ runs'[g].step = runs[g].step
    OBVIOUS
  <2>1. g \in Runs /\ g # h /\ runs[g] \in Write \union Renaming
    BY <1>6, Kinds
  <2>2. runs'[g] = [runs[g] EXCEPT !.taint = TRUE]
    BY <1>3, <2>1
  <2> QED
    BY <2>1, <2>2, TaintKeeps
<1> HIDE DEF others
<1>8. runs'[h] = r /\ \A g \in Runs \ ({h} \union others) : runs'[g] = runs[g]
  BY <1>3
<1>9. Empty \in Contents
  BY DEF Contents
<1>10. runs' \in [Runs -> Run]
  BY <1>3, <1>4, <1>6, <1>7, <1>8 DEF Run, ConfigTyped
<1>11. ConfigTyped'
  BY <1>2, <1>3, <1>9, <1>10 DEF ConfigTyped
<1>12. Writers' = Writers \union {h}
  BY <1>4, <1>6, <1>7, <1>8 DEF Writers, Write
<1>13. \A g \in Writers : runs'[g].inode = runs[g].inode
  BY <1>1, <1>6, <1>7, <1>8
<1>14. ~r.taint => Good(h)'
  <2> SUFFICES ASSUME ~r.taint PROVE Good(h)'
    OBVIOUS
  <2>1. others = {} /\ ~runs[h].taint
    BY <1>5
  <2>2. Owns(h)'
    <3>1. \A g \in Writers : runs[g].inode # i
      BY <2>1 DEF others
    <3> QED
      BY <1>3, <1>4, <1>8, <1>12, <1>13, <3>1 DEF Owns
  <2>3. SoundText(runs[h].text)
    BY <1>1, <2>1 DEF Untainted, Good, Open, NotRunning
  <2>4. inodes'[i] = Empty
    BY <1>2, <1>3 DEF ConfigTyped
  <2>5. r \notin EditTargets /\ r \notin Open /\ r \notin Renaming
    BY <1>4 DEF Write, EditTargets, Open, Renaming
  <2> QED
    BY <1>4, <1>8, <2>2, <2>3, <2>4, <2>5 DEF Good
<1>15. ASSUME NEW g \in Runs, g # h, runs'[g] # NotRunning, ~runs'[g].taint
       PROVE  Good(g)'
  <2>1. g \notin others /\ runs'[g] = runs[g]
    BY <1>7, <1>8, <1>15
  <2>2. Good(g)
    BY <1>15, <2>1 DEF Untainted
  <2>3. g \notin Writers
    <3> SUFFICES ASSUME g \in Writers PROVE FALSE
      OBVIOUS
    <3>1. runs[g] \in Write \union Renaming /\ runs[g].inode \in Inodes
      BY Kinds
    <3>2. Owns(g)
      BY <2>2, <3>1 DEF Good
    <3>3. tmp # NoInode
      BY <3>1, <3>2, NoInodeIsNone DEF Owns
    <3> QED
      BY <2>1, <3>2, <3>3 DEF Owns, others, i
  <2>4. runs[g] \notin Write /\ runs[g] \notin Renaming
    BY <2>3, Kinds
  <2> QED
    BY <2>1, <2>2, <2>4 DEF Good
<1>16. Untainted'
  BY <1>8, <1>14, <1>15 DEF Untainted
<1>17. Vouched'
  <2>1. inodes'[config] = inodes[config]
    BY <1>2, <1>3 DEF ConfigTyped
  <2> QED
    BY <1>2, <1>3, <1>4, <1>8, <1>12, <1>13, <2>1 DEF Vouched
<1> QED
  BY <1>11, <1>16, <1>17

\* A sound text goes to an empty inode that nobody else has open, or the helper
\* is tainted and what it writes to is not vouched for.
LEMMA WriteStep ==
  ASSUME ConfigInv, NEW h \in Runs, WriteTemporary(h)
  PROVE  ConfigInv'
<1> DEFINE i == runs[h].inode
           new == runs[h].text
           rest == Length(inodes[i]) - Length(new)
           t == Text(new.settings, new.tail + (IF rest > 0 THEN rest ELSE 0))
           r == [step |-> "rename", taint |-> runs[h].taint, inode |-> i]
<1> USE DEF ConfigInv
<1>1. runs[h] \in Write /\ i \in Inodes /\ h \in Writers /\ inodes[i] \in Contents
  BY Kinds DEF WriteTemporary, HelperAt, ConfigTyped, Write
<1>2. new \in Texts /\ new.settings \in Settings /\ new.tail \in Nat
  BY <1>1 DEF Write, Texts
<1>3. rest \in Int /\ (inodes[i] = Empty => ~(rest > 0))
  BY <1>1, <1>2, LengthTyped DEF Contents
<1> HIDE DEF rest
<1>4. t \in Texts /\ t.settings = new.settings /\ (new.tail = 0 /\ ~(rest > 0) => t.tail = 0)
  <2>1. new.tail + (IF rest > 0 THEN rest ELSE 0) \in Nat
    BY <1>2, <1>3
  <2>2. new.tail = 0 /\ ~(rest > 0) => new.tail + (IF rest > 0 THEN rest ELSE 0) = 0
    BY <1>2, <1>3
  <2> QED
    BY <1>2, <2>1, <2>2, TextTyped
<1>5. /\ inodes' = [inodes EXCEPT ![i] = t] /\ runs' = [runs EXCEPT ![h] = r]
      /\ UNCHANGED <<config, tmp, excused>>
  BY DEF WriteTemporary, rest
<1>6. r \in Renaming /\ r.inode = i /\ r.taint = runs[h].taint
  BY <1>1 DEF Write, Renaming
<1> HIDE DEF t, r
<1>7. ConfigTyped'
  BY <1>1, <1>4, <1>5, <1>6 DEF ConfigTyped, Run, Contents
<1>8. runs'[h] = r /\ \A g \in Runs \ {h} : runs'[g] = runs[g]
  BY <1>5 DEF ConfigTyped
<1>9. Writers' = Writers /\ \A g \in Writers : runs'[g].inode = runs[g].inode
  BY <1>1, <1>6, <1>8 DEF Writers, Renaming
<1>10. \A j \in Inodes \ {i} : inodes'[j] = inodes[j]
  BY <1>1, <1>5 DEF ConfigTyped
<1>11. inodes'[i] = t
  BY <1>1, <1>5 DEF ConfigTyped
<1>12. \A g \in Runs : Owns(g) => Owns(g)'
  <2> SUFFICES ASSUME NEW g \in Runs, Owns(g) PROVE Owns(g)'
    OBVIOUS
  <2>1. runs'[g].inode = runs[g].inode
    BY <1>6, <1>8
  <2> QED
    BY <1>5, <1>9, <2>1 DEF Owns
<1>13. ~r.taint => Good(h)'
  <2> SUFFICES ASSUME ~r.taint PROVE Good(h)'
    OBVIOUS
  <2>1. Owns(h) /\ SoundText(new) /\ inodes[i] = Empty
    BY <1>1, <1>6 DEF Untainted, Good, Write, NotRunning
  <2>2. SoundText(t)
    BY <1>3, <1>4, <2>1 DEF SoundText
  <2>3. r \notin EditTargets /\ r \notin Open /\ r \notin Write
    BY <1>6 DEF EditTargets, Open, Write, Renaming
  <2> QED
    BY <1>6, <1>8, <1>11, <1>12, <2>1, <2>2, <2>3 DEF Good
<1>14. ASSUME NEW g \in Runs, g # h, runs'[g] # NotRunning, ~runs'[g].taint
       PROVE  Good(g)'
  <2>1. runs'[g] = runs[g] /\ Good(g)
    BY <1>8, <1>14 DEF Untainted
  <2>2. runs[g] \in Write \union Renaming => Owns(g) /\ runs[g].inode # i /\ runs[g].inode \in Inodes
    BY <1>1, <1>14, <2>1, Kinds DEF Good, Owns
  <2> QED
    BY <1>10, <1>12, <2>1, <2>2 DEF Good
<1>15. Untainted'
  BY <1>8, <1>13, <1>14 DEF Untainted
<1>16. Vouched'
  <2>1. ~excused => config # i
    BY <1>1 DEF Vouched
  <2> QED
    BY <1>5, <1>9, <1>10, <2>1 DEF Vouched, ConfigTyped
<1> QED
  BY <1>7, <1>15, <1>16

LEMMA LeftTyped ==
  ASSUME ConfigTyped, NEW i \in Inodes, NEW holders
  PROVE  Left(i, holders) \in Contents
BY DEF Left, ConfigTyped, Contents

\* A writer that fails or dies leaves the name config.toml and the owned
\* temporary file as they are.
LEMMA LeaveStep ==
  ASSUME ConfigInv, NEW h \in Runs, RenameFails(h) \/ HelperDies(h)
  PROVE  ConfigInv'
<1> DEFINE i == runs[h].inode
<1> USE DEF ConfigInv
<1>1. h \in Writers /\ i \in Inodes
  BY Kinds DEF RenameFails, HelperDies, HelperAt, Writers
<1>2. /\ runs' = [runs EXCEPT ![h] = NotRunning] /\ UNCHANGED <<config, tmp, excused>>
      /\ \E c \in Contents : /\ inodes' = [inodes EXCEPT ![i] = c]
                             /\ i \in {config, tmp} => c = inodes[i]
  <2>1. inodes[i] \in Contents /\ Left(i, Runs \ {h}) \in Contents
    BY <1>1, LeftTyped DEF ConfigTyped
  <2>2. CASE RenameFails(h)
    <3>1. i # tmp
      BY <1>1, <2>2, NoInodeIsNone DEF RenameFails
    <3> QED
      BY <2>1, <2>2, <3>1 DEF RenameFails, Leaves
  <2>3. CASE HelperDies(h)
    BY <2>1, <2>3 DEF HelperDies, Leaves
  <2> QED
    BY <2>2, <2>3
<1>3. runs'[h] = NotRunning /\ \A g \in Runs \ {h} : runs'[g] = runs[g]
  BY <1>2 DEF ConfigTyped
<1>4. Writers' = Writers \ {h}
  BY <1>1, <1>3 DEF Writers, NotRunning
<1>5. \A j \in Inodes : j \in {config, tmp} => inodes'[j] = inodes[j]
  BY <1>1, <1>2 DEF ConfigTyped
<1>6. ConfigTyped'
  BY <1>1, <1>2 DEF ConfigTyped, Run
<1>7. ASSUME NEW g \in Runs, runs'[g] # NotRunning, ~runs'[g].taint
      PROVE  Good(g)'
  <2>1. g # h /\ runs'[g] = runs[g] /\ Good(g)
    BY <1>3, <1>7 DEF Untainted
  <2>2. Owns(g) => Owns(g)'
    BY <1>2, <1>3, <1>4, <2>1 DEF Owns
  <2>3. runs[g] \in Write \union Renaming =>
          Owns(g) /\ runs[g].inode \in Inodes /\ inodes'[runs[g].inode] = inodes[runs[g].inode]
    BY <1>5, <2>1, Kinds DEF Good, Owns
  <2> QED
    BY <2>1, <2>2, <2>3 DEF Good
<1>8. Vouched'
  BY <1>2, <1>3, <1>4, <1>5 DEF Vouched, ConfigTyped
<1> QED
  BY <1>6, <1>7, <1>8 DEF Untainted

\* Whoever renames, nobody owns a temporary file afterwards; the owner's text is
\* sound and nobody else has it open.
LEMMA RenameStep ==
  ASSUME ConfigInv, NEW h \in Runs, Rename(h)
  PROVE  ConfigInv'
<1> DEFINE losers == {g \in Writers : runs[g].inode = tmp} \ {h}
           c == Left(config, Runs \ {h})
<1> USE DEF ConfigInv
<1>1. h \in Writers /\ runs[h] \in Renaming /\ tmp \in Inodes
  BY Kinds DEF Rename, HelperAt, Writers, ConfigTyped
<1>2. /\ config' = tmp /\ tmp' = NoInode /\ excused' = runs[h].taint
      /\ runs' = [g \in Runs |-> IF g = h THEN NotRunning
                    ELSE IF g \in Writers /\ runs[g].inode = tmp THEN [runs[g] EXCEPT !.taint = TRUE]
                    ELSE runs[g]]
      /\ inodes' = [inodes EXCEPT ![config] = c]
  BY DEF Rename
<1>3. c \in Contents
  BY LeftTyped DEF ConfigTyped
<1> HIDE DEF c
<1>4. ASSUME NEW g \in losers
      PROVE  /\ runs'[g] \in Write \union Renaming /\ runs'[g].taint
             /\ runs'[g].inode = runs[g].inode /\ runs'[g].step = runs[g].step
  <2>1. g \in Runs /\ g # h /\ g \in Writers /\ runs[g].inode = tmp
    BY <1>4 DEF Writers
  <2>2. runs[g] \in Write \union Renaming /\ runs'[g] = [runs[g] EXCEPT !.taint = TRUE]
    BY <1>2, <2>1, Kinds
  <2> QED
    BY <2>2, TaintKeeps
<1>5. runs'[h] = NotRunning /\ \A g \in Runs \ ({h} \union losers) : runs'[g] = runs[g]
  BY <1>2
<1>6. losers \subseteq Runs /\ losers \subseteq Writers /\ h \notin losers
  BY DEF Writers
<1>7. ConfigTyped'
  <2>1. runs' \in [Runs -> Run]
    <3>1. \A g \in Runs : runs'[g] \in Run
      BY <1>4, <1>5 DEF ConfigTyped, Run
    <3> QED
      BY <1>2, <3>1
  <2> QED
    BY <1>1, <1>2, <1>3, <2>1, NoInodeIsNone DEF ConfigTyped, Renaming
<1>8. Writers' = Writers \ {h}
  BY <1>4, <1>5, <1>6 DEF Writers, NotRunning
<1>9. ASSUME NEW g \in Runs, runs'[g] # NotRunning, ~runs'[g].taint
      PROVE  Good(g)'
  <2>1. g # h /\ g \notin losers /\ runs'[g] = runs[g] /\ Good(g)
    BY <1>4, <1>5, <1>9 DEF Untainted
  <2>2. g \notin Writers
    <3>1. g \in Writers => runs[g].inode # tmp
      BY <2>1
    <3> QED
      BY <2>1, <3>1, Kinds DEF Good, Owns
  <2> QED
    BY <2>1, <2>2, Kinds DEF Good
<1>10. Vouched'
  <2> SUFFICES ASSUME ~runs[h].taint
               PROVE  SoundText(inodes'[tmp]) /\ \A g \in Writers \ {h} : runs'[g].inode # tmp
    BY <1>2, <1>8 DEF Vouched
  <2>1. Owns(h) /\ SoundText(inodes[tmp])
    BY <1>1 DEF Untainted, Good, Owns, NotRunning, Renaming
  <2>2. inodes'[tmp] = inodes[tmp]
    BY <1>1, <1>2 DEF ConfigTyped
  <2>3. losers = {}
    BY <2>1 DEF Owns
  <2> QED
    BY <1>5, <2>1, <2>2, <2>3 DEF Owns, Writers
<1> HIDE DEF losers
<1> QED
  BY <1>7, <1>9, <1>10 DEF Untainted

LEMMA OperatorStep == ASSUME ConfigInv, OperatorEdits PROVE ConfigInv'
<1> USE DEF ConfigInv
<1>1. PICK s \in Settings :
        /\ Accepted(s) /\ config' = Fresh
        /\ inodes' = [inodes EXCEPT ![Fresh] = Text(s, 0), ![config] = Left(config, Runs)]
  BY DEF OperatorEdits
<1>2. Fresh \in Inodes /\ Fresh # config /\ Fresh # tmp /\ \A g \in Writers : runs[g].inode # Fresh
  BY FreshIsFree DEF InUse
<1>3. SoundText(Text(s, 0)) /\ Text(s, 0) \in Contents /\ Left(config, Runs) \in Contents
  BY <1>1, TextTyped, LeftTyped DEF SoundText, Contents, ConfigTyped
<1>4. UNCHANGED <<tmp, runs>> /\ excused' = FALSE
  BY DEF OperatorEdits
<1>5. inodes'[Fresh] = Text(s, 0) /\ \A j \in Inodes : j \notin {Fresh, config} => inodes'[j] = inodes[j]
  BY <1>1, <1>2 DEF ConfigTyped
<1>6. ConfigTyped'
  BY <1>1, <1>2, <1>3, <1>4 DEF ConfigTyped
<1>7. Writers' = Writers
  BY <1>4 DEF Writers
<1>8. ASSUME NEW g \in Runs, runs[g] # NotRunning, ~runs[g].taint
      PROVE  Good(g)'
  <2>1. Good(g) /\ runs'[g] = runs[g] /\ (Owns(g) <=> Owns(g)')
    BY <1>4, <1>7, <1>8 DEF Untainted, Owns
  <2>2. runs[g] \in Write \union Renaming => inodes'[runs[g].inode] = inodes[runs[g].inode]
    <3> SUFFICES ASSUME runs[g] \in Write \union Renaming
                 PROVE  inodes'[runs[g].inode] = inodes[runs[g].inode]
      OBVIOUS
    <3>1. runs[g].inode \in Inodes /\ runs[g].inode = tmp
      BY <2>1, Kinds DEF Good, Owns
    <3> QED
      BY <1>2, <1>5, <3>1 DEF ConfigTyped
  <2> QED
    BY <2>1, <2>2 DEF Good
<1>9. Vouched'
  BY <1>1, <1>2, <1>3, <1>4, <1>5, <1>7 DEF Vouched
<1> QED
  BY <1>4, <1>6, <1>8, <1>9 DEF Untainted

LEMMA StutterStep == ASSUME ConfigInv, UNCHANGED configVars PROVE ConfigInv'
BY DEF configVars, ConfigInv, ConfigTyped, Untainted, Good, Owns, Vouched, Writers

LEMMA ConfigStarts == ConfigInit => ConfigInv
<1> SUFFICES ASSUME ConfigInit PROVE ConfigInv
  OBVIOUS
<1>1. Cardinality(Runs) \in Nat
  BY FS_CardinalityType
<1>2. 0 \in Inodes
  BY <1>1 DEF Inodes
<1>3. DefaultSettings \in Settings /\ Accepted(DefaultSettings)
  BY DEF DefaultSettings, Settings, Accepted
<1>4. SoundText(Text(DefaultSettings, 0)) /\ Text(DefaultSettings, 0) \in Contents
  BY <1>3, TextTyped DEF SoundText, Contents
<1>5. ConfigTyped
  BY <1>2, <1>4, NoInodeIsNone DEF ConfigInit, ConfigTyped, Contents, Run
<1>6. Writers = {}
  BY DEF ConfigInit, Writers, NotRunning
<1>7. Vouched
  BY <1>2, <1>4, <1>6 DEF ConfigInit, Vouched
<1>8. Untainted
  BY DEF ConfigInit, Untainted
<1> QED
  BY <1>5, <1>7, <1>8 DEF ConfigInv

(* Whenever dashboard or agent load config.toml they get the settings it    *)
(* spells, however many helpers and editors there are and wherever they     *)
(* fail, unless the file came from a helper that shared the temporary file, *)
(* found a damaged one, or checked its list against other unmanaged         *)
(* addresses than those it found (set-arp-assisted-targets.sh:72, :89).     *)
THEOREM ConfigStaysSound == ConfigSpec => []ConfigIsSound
<1>1. ConfigInv /\ [ConfigNext]_configVars => ConfigInv'
  BY StartStep, CheckStep, EditStep, OpenStep, WriteStep, RenameStep, LeaveStep, OperatorStep,
     StutterStep DEF ConfigNext
<1>2. ConfigInv => ConfigIsSound
  <2> SUFFICES ASSUME ConfigInv, ~excused PROVE Sound(inodes[config])
    BY DEF ConfigIsSound
  <2>1. inodes[config] \in Contents
    BY DEF ConfigInv, ConfigTyped
  <2> QED
    BY <2>1, SoundMeans DEF ConfigInv, Vouched
<1> QED
  BY <1>1, <1>2, ConfigStarts, PTL DEF ConfigSpec

-----------------------------------------------------------------------------
(* The cache.                                                               *)

EntryOK(e) ==
  \/ e = NoEntry
  \/ e \in [storedAt : Nat, readAt : Nat] /\ e.storedAt <= e.readAt

AskedOK(q) ==
  \/ q = Idle
  \/ q \in [step : {"look", "produce"}, now : Nat] /\ q.now <= clock
  \/ q \in [step : {"store"}, now : Nat, readAt : Nat] /\ q.now <= q.readAt /\ q.readAt <= clock

AnswerOK(a) ==
  \/ a = NoAnswer
  \/ a \in [began : Nat, readAt : Nat] /\ a.readAt > a.began - Ttl

CacheInv ==
  /\ clock \in Nat /\ EntryOK(entry)
  /\ DOMAIN asked = Askers /\ \A w \in Askers : AskedOK(asked[w])
  /\ DOMAIN answers = Askers /\ \A w \in Askers : AnswerOK(answers[w])

LEMMA CacheStep == ASSUME CacheInv, [CacheNext]_cacheVars PROVE CacheInv'
<1> USE CacheConstants DEF CacheInv
<1>1. CASE Second
  BY <1>1 DEF Second, AskedOK, AnswerOK
<1>2. ASSUME NEW w \in Askers, Ask(w) PROVE CacheInv'
  <2> DEFINE q == [step |-> "look", now |-> clock]
  <2>1. AskedOK(q)
    BY DEF AskedOK
  <2>2. asked' = [asked EXCEPT ![w] = q] /\ UNCHANGED <<clock, entry, answers>>
    BY <1>2 DEF Ask
  <2> HIDE DEF q
  <2> QED
    BY <2>1, <2>2 DEF AskedOK
<1>3. ASSUME NEW w \in Askers, LookUp(w) PROVE CacheInv'
  <2>1. asked[w] \in [step : {"look", "produce"}, now : Nat] /\ asked[w].now <= clock
    BY <1>3 DEF LookUp, AskedOK, Idle
  <2>2. CASE Valid(asked[w].now)
    <3> DEFINE a == [began |-> asked[w].now, readAt |-> entry.readAt]
    <3>1. AnswerOK(a)
      BY <2>1, <2>2 DEF Valid, EntryOK, AnswerOK
    <3>2. /\ answers' = [answers EXCEPT ![w] = a] /\ asked' = [asked EXCEPT ![w] = Idle]
          /\ UNCHANGED <<clock, entry>>
      BY <1>3, <2>2 DEF LookUp, Answer
    <3> HIDE DEF a
    <3> QED
      BY <3>1, <3>2 DEF AskedOK, AnswerOK
  <2>3. CASE ~Valid(asked[w].now)
    <3> DEFINE q == [asked[w] EXCEPT !.step = "produce"]
    <3>1. AskedOK(q)
      BY <2>1 DEF AskedOK
    <3>2. asked' = [asked EXCEPT ![w] = q] /\ UNCHANGED <<clock, entry, answers>>
      BY <1>3, <2>3 DEF LookUp
    <3> HIDE DEF q
    <3> QED
      BY <3>1, <3>2 DEF AskedOK
  <2> QED
    BY <2>2, <2>3
<1>4. ASSUME NEW w \in Askers, Produce(w) PROVE CacheInv'
  <2> DEFINE q == [step |-> "store", now |-> asked[w].now, readAt |-> clock]
  <2>1. asked[w] \in [step : {"look", "produce"}, now : Nat] /\ asked[w].now <= clock
    BY <1>4 DEF Produce, AskedOK, Idle
  <2>2. AskedOK(q)
    BY <2>1 DEF AskedOK
  <2>3. asked' = [asked EXCEPT ![w] = q] /\ UNCHANGED <<clock, entry, answers>>
    BY <1>4 DEF Produce
  <2> HIDE DEF q
  <2> QED
    BY <2>2, <2>3 DEF AskedOK
<1>5. ASSUME NEW w \in Askers, StoreEntry(w) PROVE CacheInv'
  <2> DEFINE a == [began |-> asked[w].now, readAt |-> asked[w].readAt]
             e == [storedAt |-> asked[w].now, readAt |-> asked[w].readAt]
  <2>1. /\ asked[w] \in [step : {"store"}, now : Nat, readAt : Nat]
        /\ asked[w].now <= asked[w].readAt
    BY <1>5 DEF StoreEntry, AskedOK, Idle
  <2>2. AnswerOK(a) /\ EntryOK(e)
    BY <2>1 DEF AnswerOK, EntryOK
  <2>3. /\ entry' = e /\ answers' = [answers EXCEPT ![w] = a]
        /\ asked' = [asked EXCEPT ![w] = Idle] /\ UNCHANGED clock
    BY <1>5 DEF StoreEntry, Answer
  <2> HIDE DEF a, e
  <2> QED
    BY <2>2, <2>3 DEF AskedOK, AnswerOK
<1>6. ASSUME NEW w \in Askers, ProducerFails(w) PROVE CacheInv'
  BY <1>6 DEF ProducerFails, AskedOK
<1>7. CASE UNCHANGED cacheVars
  BY <1>7 DEF cacheVars, AskedOK
<1> QED
  BY <1>1, <1>2, <1>3, <1>4, <1>5, <1>6, <1>7 DEF CacheNext

(* However slow producers are, and whichever handler stores last, an answer *)
(* tells how things were less than Ttl before it was asked for, or later    *)
(* (dashboard.py:1306).                                                     *)
THEOREM AnswersFresh == CacheSpec => []AnswersAreFresh
<1>1. CacheInit => CacheInv
  BY DEF CacheInit, CacheInv, EntryOK, AskedOK, AnswerOK
<1>2. CacheInv => AnswersAreFresh
  BY DEF CacheInv, AnswerOK, AnswersAreFresh
<1> QED
  BY <1>1, <1>2, CacheStep, PTL DEF CacheSpec

-----------------------------------------------------------------------------
(* LiveFeed.  First what its lists are.                                     *)

\* Finite sets come about one element at a time: what holds of a set when it
\* holds of the set without any one of its elements holds of every finite set.
LEMMA SetInduction ==
  ASSUME NEW S, IsFiniteSet(S), NEW Reached, {} \in Reached,
         \A T \in SUBSET S : T # {} /\ (\A x \in T : T \ {x} \in Reached) => T \in Reached
  PROVE  S \in Reached
<1> SUFFICES ASSUME S \notin Reached PROVE FALSE
  OBVIOUS
<1> DEFINE Bad == {T \in SUBSET S : T \notin Reached}
<1>1. Bad \in SUBSET FiniteSubsetsOf(S) /\ Bad # {}
  BY FS_FiniteSubsetsOfFinite
<1>2. PICK T \in Bad : \A U \in Bad : <<U, T>> \notin StrictSubsetOrdering(S)
  <2> HIDE DEF Bad
  <2> QED BY <1>1, WFMin, FS_StrictSubsetOrderingWellFounded
<1>3. PICK x \in T : T \ {x} \notin Reached
  BY <1>2
<1>4. T \ {x} \in Bad /\ T \ {x} # T
  BY <1>2, <1>3
<1> QED
  BY <1>2, <1>4 DEF StrictSubsetOrdering

\* A finite set of numbers that is not empty has a largest one.
LEMMA MaxIsLargest ==
  ASSUME NEW S \in SUBSET Nat, IsFiniteSet(S), S # {}
  PROVE  Max(S) \in S /\ \A x \in S : x <= Max(S)
<1> DEFINE HasMax == {T \in SUBSET S : T # {} => \E m \in T : \A x \in T : x <= m}
<1>1. {} \in HasMax
  OBVIOUS
<1>2. ASSUME NEW T \in SUBSET S, T # {}, \A x \in T : T \ {x} \in HasMax PROVE T \in HasMax
  <2>1. PICK x \in T : TRUE
    BY <1>2
  <2>2. CASE T \ {x} = {}
    <3>1. \A y \in T : y = x
      BY <2>2
    <3> QED
      BY <2>1, <3>1
  <2>3. CASE T \ {x} # {}
    <3>1. PICK m \in T \ {x} : \A y \in T \ {x} : y <= m
      BY <1>2, <2>1, <2>3
    <3>2. CASE x <= m
      <4>1. \A y \in T : y <= m
        BY <3>1, <3>2
      <4> QED
        BY <3>1, <4>1
    <3>3. CASE m <= x
      <4>1. \A y \in T : y <= x
        BY <3>1, <3>3
      <4> QED
        BY <2>1, <4>1
    <3> QED
      BY <2>1, <3>1, <3>2, <3>3
  <2> QED
    BY <2>2, <2>3
<1>3. S \in HasMax
  <2> HIDE DEF HasMax
  <2> QED BY <1>1, <1>2, SetInduction
<1>4. \E m \in S : \A x \in S : m >= x
  BY <1>3
<1>5. Max(S) \in S /\ \A x \in S : Max(S) >= x
  BY <1>4 DEF Max
<1> QED
  BY <1>5

\* list holds every element of S once, in order.
Lists(list, S) ==
  /\ list \in Seq(S) /\ Rises(list)
  /\ \A x \in S : \E i \in DOMAIN list : list[i] = x

\* There is such a list.
LEMMA ListExists ==
  ASSUME NEW S \in SUBSET Nat, IsFiniteSet(S)
  PROVE  \E list : Lists(list, S)
<1> DEFINE Listed == {T \in SUBSET S : \E list : Lists(list, T)}
<1>1. {} \in Listed
  <2>1. Lists(<<>>, {})
    BY DEF Lists, Rises
  <2> QED
    BY <2>1
<1>2. ASSUME NEW T \in SUBSET S, T # {}, \A x \in T : T \ {x} \in Listed PROVE T \in Listed
  <2> DEFINE m == Max(T)
  <2>1. m \in T /\ \A x \in T : x <= m
    <3>1. IsFiniteSet(T) /\ T \in SUBSET Nat
      BY FS_Subset
    <3> QED
      BY <3>1, <1>2, MaxIsLargest
  <2> HIDE DEF m
  <2>2. PICK u : Lists(u, T \ {m})
    BY <1>2, <2>1
  <2> DEFINE list == Append(u, m)
  <2>3. u \in Seq(T \ {m}) /\ Len(u) \in Nat /\ DOMAIN u = 1..Len(u)
    BY <2>2 DEF Lists
  <2>4. /\ list \in Seq(T) /\ DOMAIN list = 1..Len(u) + 1
        /\ \A i \in 1..Len(u) : list[i] = u[i] /\ u[i] \in T \ {m}
        /\ list[Len(u) + 1] = m
    <3>1. u \in Seq(T)
      BY <2>3
    <3> QED
      BY <2>1, <2>3, <3>1
  <2> HIDE DEF list
  <2>5. Rises(list)
    <3> SUFFICES ASSUME NEW i \in 1..Len(u) + 1, NEW j \in 1..Len(u) + 1, i < j
                 PROVE  list[i] < list[j]
      BY <2>4 DEF Rises
    <3>1. i \in 1..Len(u)
      BY <2>3
    <3>2. CASE j \in 1..Len(u)
      BY <2>2, <2>3, <2>4, <3>1, <3>2 DEF Lists, Rises
    <3>3. CASE j = Len(u) + 1
      <4>1. list[i] = u[i] /\ u[i] \in T /\ u[i] # m /\ list[j] = m
        BY <2>4, <3>1, <3>3
      <4>2. u[i] \in Nat /\ m \in Nat /\ u[i] <= m
        BY <2>1, <4>1
      <4> QED
        BY <4>1, <4>2
    <3> QED
      BY <2>3, <3>2, <3>3
  <2>6. \A x \in T : \E i \in DOMAIN list : list[i] = x
    <3> SUFFICES ASSUME NEW x \in T PROVE \E i \in 1..Len(u) + 1 : list[i] = x
      BY <2>4
    <3>1. CASE x = m
      BY <2>3, <2>4, <3>1
    <3>2. CASE x # m
      <4>1. PICK i \in DOMAIN u : u[i] = x
        BY <2>2, <3>2 DEF Lists
      <4> QED
        BY <2>3, <2>4, <4>1
    <3> QED
      BY <3>1, <3>2
  <2> QED
    BY <2>4, <2>5, <2>6 DEF Lists
<1> HIDE DEF Listed
<1>3. S \in Listed
  BY <1>1, <1>2, SetInduction
<1> QED
  BY <1>3 DEF Listed

\* A list in order is as long as its set.
LEMMA ListLength ==
  ASSUME NEW S \in SUBSET Nat, NEW list, Lists(list, S)
  PROVE  /\ IsFiniteSet(S) /\ Len(list) = Cardinality(S)
         /\ list \in [1..Cardinality(S) -> S] /\ DOMAIN list = 1..Cardinality(S)
<1>1. Len(list) \in Nat /\ DOMAIN list = 1..Len(list) /\ list \in [1..Len(list) -> S]
  BY DEF Lists
<1> DEFINE D == 1..Len(list)
<1>2. \A i, j \in D : list[i] = list[j] => i = j
  <2> SUFFICES ASSUME NEW i \in D, NEW j \in D, list[i] = list[j], i # j PROVE FALSE
    OBVIOUS
  <2>1. list[i] \in Nat /\ list[j] \in Nat
    BY <1>1
  <2>2. CASE i < j
    BY <1>1, <2>1, <2>2 DEF Lists, Rises
  <2>3. CASE j < i
    BY <1>1, <2>1, <2>3 DEF Lists, Rises
  <2> QED
    BY <2>2, <2>3, <1>1
<1>3. list \in Injection(D, S) /\ list \in Surjection(D, S)
  BY <1>1, <1>2 DEF Injection, IsInjective, Surjection, Lists
<1>4. IsFiniteSet(D) /\ Cardinality(D) = Len(list)
  BY <1>1, FS_Interval
<1>5. IsFiniteSet(S) /\ Cardinality(S) = Cardinality(D)
  <2> HIDE DEF D
  <2> QED BY <1>3, <1>4, FS_Surjection
<1> QED
  BY <1>1, <1>4, <1>5

\* Two lists in order of one set are the same.
LEMMA ListsAreEqual ==
  ASSUME NEW S \in SUBSET Nat, NEW p, NEW q, Lists(p, S), Lists(q, S)
  PROVE  p = q
<1> DEFINE n == Cardinality(S)
<1>1. /\ n \in Nat /\ p \in [1..n -> S] /\ q \in [1..n -> S]
      /\ DOMAIN p = 1..n /\ DOMAIN q = 1..n
  BY ListLength, FS_CardinalityType
<1> HIDE DEF n
<1> DEFINE Differ == {i \in 1..n : p[i] # q[i]}
<1>2. ASSUME Differ # {} PROVE FALSE
  <2>1. Differ \in SUBSET Nat
    BY <1>1
  <2>2. PICK k \in Differ : \A i \in Differ : k <= i
    <3> DEFINE Smaller == {ss \in Nat \X Nat : ss[1] < ss[2]}
    <3>1. IsWellFoundedOn(Smaller, Nat)
      BY NatLessThanWellFounded DEF OpToRel
    <3>2. \A x, y \in Nat : x < y => <<x, y>> \in Smaller
      OBVIOUS
    <3>3. PICK k \in Differ : \A i \in Differ : ~ (<<i, k>> \in Smaller)
      <4> HIDE DEF Smaller, Differ
      <4> QED BY <1>2, <2>1, <3>1, WFMin
    <3> HIDE DEF Smaller
    <3>4. \A i \in Differ : ~(i < k) /\ i \in Nat /\ k \in Nat
      BY <2>1, <3>2, <3>3
    <3> QED
      BY <3>4
  <2>3. k \in 1..n /\ p[k] # q[k] /\ \A i \in 1..n : i < k => p[i] = q[i]
    BY <1>1, <2>2
  <2>4. \A i, j \in 1..n : i < j => p[i] < p[j] /\ q[i] < q[j]
    BY <1>1 DEF Lists, Rises
  <2>5. \A i \in 1..n : p[i] \in Nat /\ q[i] \in Nat
    BY <1>1
  <2>6. PICK a \in 1..n : p[a] = q[k]
    BY <1>1, <2>3 DEF Lists
  <2>7. PICK b \in 1..n : q[b] = p[k]
    BY <1>1, <2>3 DEF Lists
  <2>8. ~(a < k) /\ ~(b < k)
    <3>1. ASSUME a < k PROVE FALSE
      BY <2>3, <2>4, <2>5, <2>6, <3>1
    <3>2. ASSUME b < k PROVE FALSE
      BY <2>3, <2>4, <2>5, <2>7, <3>2
    <3> QED
      BY <3>1, <3>2
  <2>9. a # k /\ b # k
    BY <2>3, <2>6, <2>7
  <2>10. p[k] < p[a] /\ q[k] < q[b]
    BY <1>1, <2>3, <2>4, <2>8, <2>9
  <2> QED
    BY <2>3, <2>5, <2>6, <2>7, <2>10
<1>3. \A i \in 1..n : p[i] = q[i]
  BY <1>2
<1> QED
  BY <1>1, <1>3

\* InOrder is that list.
LEMMA InOrderLists ==
  ASSUME NEW S \in SUBSET Nat, IsFiniteSet(S)
  PROVE  Lists(InOrder(S), S)
<1> DEFINE n == Cardinality(S)
           list == InOrder(S)
<1>1. n \in Nat
  BY FS_CardinalityType
<1>2. PICK p : Lists(p, S)
  BY ListExists
<1>3. p \in [1..n -> S] /\ Rises(p)
  BY <1>2, ListLength DEF Lists
<1>4. list \in [1..n -> S] /\ Rises(list)
  BY <1>3 DEF InOrder
<1> HIDE DEF list, n
<1>5. \A i, j \in 1..n : list[i] = list[j] => i = j
  <2> SUFFICES ASSUME NEW i \in 1..n, NEW j \in 1..n, list[i] = list[j], i # j PROVE FALSE
    OBVIOUS
  <2>1. list[i] \in Nat /\ DOMAIN list = 1..n
    BY <1>4
  <2>2. i < j \/ j < i
    BY <1>1
  <2>3. list[i] < list[j] \/ list[j] < list[i]
    BY <1>4, <2>1, <2>2 DEF Rises
  <2> QED
    BY <2>1, <2>3
<1>6. list \in Injection(1..n, S)
  BY <1>4, <1>5 DEF Injection, IsInjective
<1>7. IsFiniteSet(1..n) /\ Cardinality(1..n) = n
  BY <1>1, FS_Interval
<1>8. list \in Surjection(1..n, S)
  BY <1>6, <1>7, FS_Injection DEF n
<1>9. list \in Seq(S)
  BY <1>1, <1>4
<1> QED
  BY <1>4, <1>8, <1>9 DEF Lists, Surjection, list

\* A set no larger than the limit loses nothing.
LEMMA LatestOfFew ==
  ASSUME NEW S \in SUBSET Nat, IsFiniteSet(S), NEW k \in Nat, Cardinality(S) <= k
  PROVE  Latest(S, k) = S
<1>1. ASSUME NEW i \in S PROVE Cardinality({j \in S : j > i}) < k
  <2> DEFINE T == {j \in S : j > i}
  <2>1. T \in SUBSET S /\ T # S
    <3>1. i \in S /\ i \notin T
      OBVIOUS
    <3> QED
      BY <3>1
  <2> HIDE DEF T
  <2>2. IsFiniteSet(T) /\ Cardinality(T) <= Cardinality(S) /\ Cardinality(T) # Cardinality(S)
    BY <2>1, FS_Subset
  <2>3. Cardinality(T) \in Nat /\ Cardinality(S) \in Nat
    BY <2>2, FS_CardinalityType
  <2>4. Cardinality(T) < k
    BY <2>2, <2>3
  <2> QED
    BY <2>4 DEF T
<1> QED
  BY <1>1 DEF Latest

\* What was cut off before newer ids were added is cut off after it as well.
LEMMA LatestAgain ==
  ASSUME NEW S \in SUBSET Nat, IsFiniteSet(S), NEW E \in SUBSET Nat, IsFiniteSet(E),
         \A i \in S, j \in E : i < j, NEW k \in Nat
  PROVE  Latest(Latest(S, k) \cup E, k) = Latest(S \cup E, k)
<1> DEFINE L == Latest(S, k)
           Above(T, i) == {j \in T : j > i}
<1>1. L \in SUBSET S
  BY DEF Latest
<1>2. ASSUME NEW T \in SUBSET (S \cup E)
      PROVE  IsFiniteSet(T) /\ Cardinality(T) \in Nat /\ \A U \in SUBSET T : Cardinality(U) <= Cardinality(T)
  <2>1. IsFiniteSet(S \cup E)
    BY FS_Union
  <2>2. IsFiniteSet(T)
    BY <2>1, FS_Subset
  <2> QED
    BY <2>2, FS_Subset, FS_CardinalityType
<1>3. ASSUME NEW i \in S, i \notin L PROVE ~(Cardinality(Above(S \cup E, i)) < k)
  <2> DEFINE A == Above(S, i)
             B == Above(S \cup E, i)
  <2>1. ~(Cardinality(A) < k)
    BY <1>3 DEF Latest
  <2>2. B \in SUBSET (S \cup E) /\ A \in SUBSET B /\ A \in SUBSET (S \cup E)
    OBVIOUS
  <2> HIDE DEF A, B
  <2>3. Cardinality(A) \in Nat /\ Cardinality(B) \in Nat /\ Cardinality(A) <= Cardinality(B)
    BY <1>2, <2>2
  <2>4. ~(Cardinality(B) < k)
    BY <2>1, <2>3
  <2> QED
    BY <2>4 DEF B
<1>4. ASSUME NEW i \in L \cup E PROVE Above(L \cup E, i) = Above(S \cup E, i)
  <2>1. ASSUME NEW j \in S, j > i PROVE j \in L
    <3>1. i \in L /\ i \in Nat /\ j \in Nat
      <4>1. ASSUME i \in E PROVE FALSE
        <5>1. j < i /\ i \in Nat /\ j \in Nat
          BY <4>1
        <5> QED
          BY <2>1, <5>1
      <4> HIDE DEF L
      <4> QED
        BY <1>1, <4>1
    <3> DEFINE A == Above(S, i)
               B == Above(S, j)
    <3>2. Cardinality(A) < k
      BY <3>1 DEF Latest
    <3>3. B \in SUBSET A /\ A \in SUBSET (S \cup E) /\ B \in SUBSET (S \cup E)
      <4>1. \A x \in S : x > j => x > i
        BY <2>1, <3>1
      <4> QED
        BY <4>1
    <3> HIDE DEF A, B
    <3>4. Cardinality(A) \in Nat /\ Cardinality(B) \in Nat /\ Cardinality(B) <= Cardinality(A)
      BY <1>2, <3>3
    <3>5. Cardinality(B) < k
      BY <3>2, <3>4
    <3> QED
      BY <3>5 DEF B, Latest
  <2> HIDE DEF L
  <2> QED
    BY <1>1, <2>1
<1>5. \A i \in L \cup E : /\ i \in S \cup E
                          /\ Cardinality(Above(L \cup E, i)) = Cardinality(Above(S \cup E, i))
  BY <1>1, <1>4
<1>6. Latest(L \cup E, k) = {i \in L \cup E : Cardinality(Above(L \cup E, i)) < k}
  BY DEF Latest
<1>7. Latest(S \cup E, k) = {i \in S \cup E : Cardinality(Above(S \cup E, i)) < k}
  BY DEF Latest
<1>8. \A i \in S \cup E : i \in L \cup E \/ (i \in S /\ i \notin L)
  OBVIOUS
<1> HIDE DEF L, Above
<1>9. {i \in L \cup E : Cardinality(Above(L \cup E, i)) < k}
        = {i \in S \cup E : Cardinality(Above(S \cup E, i)) < k}
  BY <1>3, <1>5, <1>8
<1> QED
  BY <1>6, <1>7, <1>9 DEF L

\* The first k of a set are k at most, and none is passed over.
LEMMA FirstIsInitial ==
  ASSUME NEW S \in SUBSET Nat, IsFiniteSet(S), NEW k \in Nat
  PROVE  /\ First(S, k) \in SUBSET S /\ IsFiniteSet(First(S, k))
         /\ Cardinality(First(S, k)) <= k
         /\ \A m \in First(S, k) : \A i \in S : i <= m => i \in First(S, k)
<1> DEFINE F == First(S, k)
           Below(i) == {j \in S : j < i}
<1>1. F \in SUBSET S /\ \A i \in S : i \in F <=> Cardinality(Below(i)) < k
  BY DEF First
<1>2. ASSUME NEW T \in SUBSET S
      PROVE  IsFiniteSet(T) /\ Cardinality(T) \in Nat /\ \A U \in SUBSET T : Cardinality(U) <= Cardinality(T)
  <2>1. IsFiniteSet(T)
    BY FS_Subset
  <2> QED
    BY <2>1, FS_Subset, FS_CardinalityType
<1>3. ASSUME NEW i \in S, NEW m \in F, i <= m PROVE i \in F
  <2>1. Below(i) \in SUBSET Below(m) /\ Below(m) \in SUBSET S /\ Below(i) \in SUBSET S
    <3>1. \A x \in S : x < i => x < m
      <4>1. i \in Nat /\ m \in Nat
        BY <1>1
      <4> QED
        BY <1>3, <4>1
    <3> QED
      BY <3>1
  <2>2. Cardinality(Below(m)) < k
    BY <1>1
  <2> HIDE DEF Below
  <2>3. /\ Cardinality(Below(i)) \in Nat /\ Cardinality(Below(m)) \in Nat
        /\ Cardinality(Below(i)) <= Cardinality(Below(m))
    BY <1>2, <2>1
  <2>4. Cardinality(Below(i)) < k
    BY <2>2, <2>3
  <2> QED
    BY <1>1, <2>4
<1>4. Cardinality(F) <= k
  <2>1. CASE F = {}
    BY <2>1, FS_EmptySet DEF F
  <2>2. CASE F # {}
    <3> DEFINE m == Max(F)
    <3>1. F \in SUBSET Nat /\ IsFiniteSet(F)
      BY <1>1, <1>2
    <3>2. m \in F /\ \A x \in F : x <= m
      <4> HIDE DEF F
      <4> QED BY <2>2, <3>1, MaxIsLargest
    <3> HIDE DEF m
    <3> DEFINE G == F \ {m}
    <3>3. G \in SUBSET Below(m) /\ Below(m) \in SUBSET S
      <4>1. \A x \in G : x \in S /\ x \in Nat /\ m \in Nat /\ x <= m /\ x # m
        BY <1>1, <3>2
      <4>2. \A x \in G : x \in S /\ x < m
        BY <4>1
      <4> QED
        BY <4>2
    <3>4. Cardinality(Below(m)) < k
      BY <1>1, <3>2
    <3>5. Cardinality(G) = Cardinality(F) - 1
      <4> HIDE DEF F
      <4> QED BY <3>1, <3>2, FS_RemoveElement
    <3> HIDE DEF Below, G
    <3>6. Cardinality(G) <= Cardinality(Below(m)) /\ Cardinality(Below(m)) \in Nat
      BY <1>2, <3>3
    <3>7. Cardinality(F) \in Nat
      BY <3>1, FS_CardinalityType
    <3>8. Cardinality(G) \in Int
      BY <3>5, <3>7
    <3> QED
      BY <3>4, <3>5, <3>6, <3>7, <3>8
  <2> QED
    BY <2>1, <2>2
<1> QED
  BY <1>1, <1>2, <1>3, <1>4

\* A list in order, continued by one of newer ids.
LEMMA JoinedLists ==
  ASSUME NEW S \in SUBSET Nat, NEW E \in SUBSET Nat, \A i \in S, j \in E : i < j,
         NEW u, Lists(u, S), NEW v, Lists(v, E)
  PROVE  Lists(u \o v, S \cup E)
<1> DEFINE w == u \o v
           m == Len(u)
           n == Len(v)
<1>1. /\ u \in Seq(S \cup E) /\ v \in Seq(S \cup E) /\ m \in Nat /\ n \in Nat
      /\ DOMAIN u = 1..m /\ DOMAIN v = 1..n
  BY DEF Lists
<1>2. /\ w \in Seq(S \cup E) /\ DOMAIN w = 1..m + n
      /\ \A i \in 1..m : w[i] = u[i]
      /\ \A i \in 1..n : w[m + i] = v[i]
  BY <1>1
<1>3. /\ \A i \in 1..m : u[i] \in S
      /\ \A i \in 1..n : v[i] \in E
  BY DEF Lists
<1> HIDE DEF w, m, n
<1>4. \A i \in 1..m + n : i \in 1..m \/ (i - m \in 1..n /\ i = m + (i - m))
  BY <1>1
<1>5. \A i \in 1..m + n : i \notin 1..m => i - m \in 1..n /\ w[i] = v[i - m]
  BY <1>2, <1>4
<1>6. Rises(w)
  <2> SUFFICES ASSUME NEW i \in 1..m + n, NEW j \in 1..m + n, i < j
               PROVE  w[i] < w[j]
    BY <1>2 DEF Rises
  <2>1. CASE i \in 1..m /\ j \in 1..m
    BY <1>1, <1>2, <2>1 DEF Lists, Rises
  <2>2. CASE i \in 1..m /\ j \notin 1..m
    BY <1>2, <1>3, <1>5, <2>2
  <2>3. CASE i \notin 1..m /\ j \notin 1..m
    <3>1. i - m \in 1..n /\ j - m \in 1..n /\ i - m < j - m
      BY <1>1, <1>5, <2>3
    <3>2. v[i - m] < v[j - m]
      BY <1>1, <3>1 DEF Lists, Rises
    <3> QED
      BY <1>5, <2>3, <3>2
  <2>4. i \notin 1..m => j \notin 1..m
    BY <1>1
  <2> QED
    BY <2>1, <2>2, <2>3, <2>4
<1>7. \A x \in S \cup E : \E i \in DOMAIN w : w[i] = x
  <2>1. ASSUME NEW x \in S PROVE \E i \in 1..m + n : w[i] = x
    <3>1. PICK i \in 1..m : u[i] = x
      BY <1>1 DEF Lists
    <3>2. i \in 1..m + n
      BY <1>1
    <3> QED
      BY <1>2, <3>1, <3>2
  <2>2. ASSUME NEW x \in E PROVE \E i \in 1..m + n : w[i] = x
    <3>1. PICK i \in 1..n : v[i] = x
      BY <1>1 DEF Lists
    <3>2. m + i \in 1..m + n
      BY <1>1
    <3> QED
      BY <1>2, <3>1, <3>2
  <2> QED
    BY <1>2, <2>1, <2>2
<1> QED
  BY <1>2, <1>6, <1>7 DEF Lists, w

\* What a list in order is made of.
LEMMA ListFacts ==
  ASSUME NEW S \in SUBSET Nat, NEW list, Lists(list, S)
  PROVE  /\ Len(list) \in Nat /\ DOMAIN list = 1..Len(list)
         /\ \A k \in 1..Len(list) : list[k] \in S
         /\ \A k \in 1..Len(list) : list[k] \in Nat
<1>1. list \in Seq(S)
  BY DEF Lists
<1>2. \A k \in 1..Len(list) : list[k] \in S
  BY <1>1
<1>3. \A k \in 1..Len(list) : list[k] \in Nat
  BY <1>2
<1>4. Len(list) \in Nat /\ DOMAIN list = 1..Len(list)
  BY <1>1
<1> QED
  BY <1>2, <1>3, <1>4

\* In a list in order, as many ids are above one as come after it.
LEMMA AboveInList ==
  ASSUME NEW S \in SUBSET Nat, NEW list, Lists(list, S), NEW i \in DOMAIN list
  PROVE  Cardinality({x \in S : x > list[i]}) = Len(list) - i
<1> DEFINE n == Len(list)
           D == i + 1 .. n
           A == {x \in S : x > list[i]}
           f == [k \in D |-> list[k]]
<1>1. /\ n \in Nat /\ DOMAIN list = 1..n /\ i \in 1..n
      /\ \A k \in 1..n : list[k] \in S
      /\ \A k \in 1..n : list[k] \in Nat
  BY ListFacts
<1> HIDE DEF n
<1>2. \A k \in D : k \in 1..n /\ i < k
  BY <1>1
<1>3. \A k, l \in 1..n : k < l => list[k] < list[l]
  BY <1>1 DEF Lists, Rises
<1>4. \A k \in D : list[k] \in A
  <2>1. \A k \in D : list[k] \in S /\ list[i] < list[k]
    BY <1>1, <1>2, <1>3
  <2> QED
    BY <1>1, <1>2, <2>1
<1>5. \A x \in A : \E k \in D : list[k] = x
  <2> SUFFICES ASSUME NEW x \in A PROVE \E k \in D : list[k] = x
    OBVIOUS
  <2>1. PICK k \in 1..n : list[k] = x
    BY <1>1 DEF Lists
  <2>2. ASSUME k < i \/ k = i PROVE FALSE
    <3>1. list[k] > list[i] /\ list[k] \in Nat /\ list[i] \in Nat
      BY <1>1, <2>1
    <3>2. list[k] < list[i] \/ k = i
      BY <1>1, <1>3, <2>2
    <3> QED
      BY <3>1, <3>2
  <2>3. k \in D
    BY <1>1, <2>2
  <2> QED
    BY <2>1, <2>3
<1>6. \A k, l \in D : list[k] = list[l] => k = l
  <2> SUFFICES ASSUME NEW k \in D, NEW l \in D, list[k] = list[l], k # l PROVE FALSE
    OBVIOUS
  <2>1. list[k] < list[l] \/ list[l] < list[k]
    BY <1>1, <1>2, <1>3
  <2> QED
    BY <1>1, <1>2, <2>1
<1>7. IsFiniteSet(D) /\ Cardinality(D) = n - i
  <2>1. i + 1 \in Int /\ n \in Int /\ i <= n /\ n - (i + 1) + 1 = n - i /\ (i + 1 > n => n - i = 0)
    BY <1>1
  <2>2. IsFiniteSet(D) /\ Cardinality(D) = IF i + 1 > n THEN 0 ELSE n - (i + 1) + 1
    BY <2>1, FS_Interval
  <2> QED
    BY <2>1, <2>2
<1> HIDE DEF D, A
<1>8. f \in Surjection(D, A) /\ f \in Injection(D, A)
  BY <1>4, <1>5, <1>6 DEF Surjection, Injection, IsInjective
<1> HIDE DEF f
<1>9. Cardinality(A) = Cardinality(D)
  BY <1>7, <1>8, FS_Surjection
<1> QED
  BY <1>7, <1>9 DEF A, n

\* Trimming a list in order leaves the list of the newest.
LEMMA TrimmedLists ==
  ASSUME NEW S \in SUBSET Nat, NEW list, Lists(list, S)
  PROVE  Lists(Trimmed(list), Latest(S, FeedKeeps)) /\ Len(Trimmed(list)) <= FeedKeeps
<1> DEFINE n == Len(list)
           keep == IF n < FeedKeeps THEN n ELSE FeedKeeps
           off == n - keep
           t == Trimmed(list)
           L == Latest(S, FeedKeeps)
<1>1. /\ n \in Nat /\ DOMAIN list = 1..n /\ list \in Seq(S)
      /\ \A k \in 1..n : list[k] \in S
      /\ \A k \in 1..n : list[k] \in Nat
  BY ListFacts DEF Lists
<1>2. keep \in Nat /\ keep <= FeedKeeps /\ off \in Nat /\ off + keep = n /\ (off = 0 \/ keep = FeedKeeps)
  <2> HIDE DEF n
  <2> QED BY <1>1, FeedConstants
<1>3. /\ t \in Seq(S) /\ DOMAIN t = 1..keep /\ Len(t) = keep
      /\ \A k \in 1..keep : t[k] = list[off + k]
  <2>1. t = SubSeq(list, off + 1, n)
    BY DEF Trimmed
  <2> HIDE DEF t, n, keep, off
  <2> QED
    BY <1>1, <1>2, <2>1
<1> HIDE DEF t, n, keep, off, L
<1>4. \A i \in 1..n : list[i] \in L <=> off < i
  <2> SUFFICES ASSUME NEW i \in 1..n PROVE list[i] \in L <=> off < i
    OBVIOUS
  <2>1. Cardinality({x \in S : x > list[i]}) = n - i
    BY <1>1, AboveInList DEF n
  <2>2. list[i] \in L <=> n - i < FeedKeeps
    BY <1>1, <2>1 DEF L, Latest
  <2> QED
    BY <1>1, <1>2, <2>2, FeedConstants
<1>5. \A k \in 1..keep : off + k \in 1..n /\ off < off + k
  BY <1>1, <1>2
<1>6. \A k \in 1..keep : t[k] \in L
  BY <1>3, <1>4, <1>5
<1>7. t \in Seq(L)
  <2>1. t \in [1..keep -> L]
    BY <1>3, <1>6
  <2> QED
    BY <1>2, <2>1
<1>8. Rises(t)
  <2> SUFFICES ASSUME NEW k \in 1..keep, NEW l \in 1..keep, k < l PROVE t[k] < t[l]
    BY <1>3 DEF Rises
  <2>1. off + k < off + l
    BY <1>2
  <2>2. list[off + k] < list[off + l]
    BY <1>1, <1>5, <2>1 DEF Lists, Rises
  <2> QED
    BY <1>3, <2>2
<1>9. \A x \in L : \E k \in DOMAIN t : t[k] = x
  <2> SUFFICES ASSUME NEW x \in L PROVE \E k \in 1..keep : t[k] = x
    BY <1>3
  <2>1. x \in S
    BY DEF L, Latest
  <2>2. PICK i \in 1..n : list[i] = x
    BY <1>1, <2>1 DEF Lists
  <2>3. off < i
    BY <1>4, <2>2
  <2>4. i - off \in 1..keep /\ off + (i - off) = i
    BY <1>1, <1>2, <2>3
  <2> QED
    BY <1>3, <2>2, <2>4
<1>10. Lists(t, L) /\ Len(t) <= FeedKeeps
  BY <1>2, <1>3, <1>7, <1>8, <1>9 DEF Lists
<1> QED
  BY <1>10 DEF t, L

-----------------------------------------------------------------------------
(* Then the invariant of the feed.                                          *)

(* What the browser asked for with the filter and the newest id it still    *)
(* has: a request that nothing came between.                                *)
Since(r) == IF r.reset THEN 0 ELSE latest

InStep(r) == ~r.stale /\ (r.reset \/ overlap = "none")

(* A row that no answer to come will hold: there are more than enough       *)
(* newer ones.                                                              *)
NewerRows(f, i) == {j \in DOMAIN rows : j > i /\ OfClient(f, j)}

Gone(i) == FetchLimit(filter) <= Cardinality(NewerRows(filter, i))

SentOK(r) ==
  /\ r \in [kind : {"sent"}, reset : BOOLEAN, filter : Filters, stale : BOOLEAN,
            since : 0..Len(rows)]
  /\ r.reset => r.since = 0
  /\ InStep(r) => r.filter = filter /\ r.since = Since(r)

(* An answer in step with the browser holds every row that matches between  *)
(* what is shown and its newest, but those that are gone.                   *)
Answers(r) ==
  /\ Since(r) <= r.latest
  /\ r.events = {i \in Since(r) + 1 .. r.latest : Matches(filter, i)} \ r.lost
  /\ \A i \in r.lost : i > Since(r) /\ Gone(i)
  /\ r.reset \/ r.events \cap missed = {}

ServedOK(r) ==
  /\ r \in [kind : {"served"}, reset : BOOLEAN, stale : BOOLEAN,
            events : SUBSET DOMAIN rows, latest : 0..Len(rows), lost : SUBSET DOMAIN rows]
  /\ Cardinality(r.events) <= Limit
  /\ InStep(r) => Answers(r)

RequestOK(r) == r = NoRequest \/ SentOK(r) \/ ServedOK(r)

(* While nothing overlaps there is one request at most, and it is in step.  *)
OneAtATime ==
  overlap = "none" =>
    /\ \A s, t \in InFlight : s = t
    /\ \A s \in InFlight : ~requests[s].stale /\ (requests[s].reset => latest = 0)
    /\ \A i \in missed : Gone(i)

FeedInv ==
  /\ FeedIsTheLog /\ OneAtATime
  /\ DOMAIN requests = Slots
  /\ \A s \in Slots : RequestOK(requests[s])

\* The limits a poll works with, and ids as numbers.
LEMMA FeedNumbers ==
  /\ \A f : FetchLimit(f) \in Nat
  /\ rows \in Seq(RowKinds) => /\ DOMAIN rows = 1..Len(rows) /\ Len(rows) \in Nat
                               /\ DOMAIN rows \in SUBSET Nat /\ IsFiniteSet(DOMAIN rows)
<1>1. \A f : FetchLimit(f) \in Nat
  BY FeedConstants DEF FetchLimit
<1>2. ASSUME rows \in Seq(RowKinds)
      PROVE  /\ DOMAIN rows = 1..Len(rows) /\ Len(rows) \in Nat
             /\ DOMAIN rows \in SUBSET Nat /\ IsFiniteSet(DOMAIN rows)
  <2>1. DOMAIN rows = 1..Len(rows) /\ Len(rows) \in Nat
    BY <1>2
  <2>2. IsFiniteSet(1..Len(rows))
    BY <2>1, FS_Interval
  <2> QED
    BY <2>1, <2>2
<1> QED
  BY <1>1, <1>2

\* What the dashboard serves: of the rows that match after the newest id shown
\* it leaves out those that are gone and those beyond the newest it sends, and
\* sends none that is gone.
Lost(f, since) ==
  {i \in DOMAIN rows : i > since /\ Matches(f, i) /\ i \notin RecentQueries(f, since)}

LEMMA PayloadAnswers ==
  ASSUME rows \in Seq(RowKinds), NEW f, NEW since \in 0..Len(rows),
         NEW ids, ids = Payload(f, since), NEW top, top = LatestId(ids, since)
  PROVE  /\ ids \in SUBSET DOMAIN rows /\ Cardinality(ids) <= Limit
         /\ top \in 0..Len(rows) /\ since <= top
         /\ ids = {i \in since + 1 .. top : Matches(f, i)} \ Lost(f, since)
         /\ \A i \in Lost(f, since) : FetchLimit(f) <= Cardinality(NewerRows(f, i))
         /\ \A i \in ids : ~(FetchLimit(f) <= Cardinality(NewerRows(f, i)))
<1> DEFINE n == Len(rows)
           C == {i \in DOMAIN rows : i > since /\ OfClient(f, i)}
           R == RecentQueries(f, since)
           F == {i \in R : Matches(f, i)}
           Later(i) == {j \in C : j > i}
<1>1. n \in Nat /\ DOMAIN rows = 1..n /\ IsFiniteSet(DOMAIN rows) /\ FetchLimit(f) \in Nat
  BY FeedNumbers
<1> HIDE DEF n
<1>2. C \in SUBSET DOMAIN rows /\ R \in SUBSET C /\ F \in SUBSET R
  BY DEF RecentQueries, Latest
<1>3. \A i \in C : i \in R <=> Cardinality(Later(i)) < FetchLimit(f)
  BY DEF RecentQueries, Latest
<1>4. \A i \in DOMAIN rows : i > since => Later(i) = NewerRows(f, i)
  BY <1>1 DEF NewerRows
<1>5. \A i \in C : i > since /\ i \in DOMAIN rows
  OBVIOUS
<1>6. \A i \in DOMAIN rows : i > since /\ Matches(f, i) => i \in C
  BY DEF Matches
<1>7. \A i \in Lost(f, since) : i \in C /\ i \notin R /\ i > since /\ Matches(f, i)
  BY <1>6 DEF Lost
<1>8. \A i \in C : i \in R <=> Cardinality(NewerRows(f, i)) < FetchLimit(f)
  <2> HIDE DEF C, Later, R
  <2> QED BY <1>3, <1>4, <1>5
<1>9. \A i \in DOMAIN rows : Cardinality(NewerRows(f, i)) \in Nat
  <2> SUFFICES ASSUME NEW i \in DOMAIN rows PROVE Cardinality(NewerRows(f, i)) \in Nat
    OBVIOUS
  <2>1. NewerRows(f, i) \in SUBSET DOMAIN rows
    BY DEF NewerRows
  <2>2. IsFiniteSet(NewerRows(f, i))
    BY <1>1, <2>1, FS_Subset
  <2> QED
    BY <2>2, FS_CardinalityType
<1>10. ids = First(F, Limit)
  BY DEF Payload
<1>11. \A i \in DOMAIN rows : i > since /\ Matches(f, i) /\ i \notin Lost(f, since) => i \in F
  BY DEF Lost
<1>12. \A i \in F : i \in DOMAIN rows /\ i > since /\ i \in R /\ Matches(f, i) /\ i \notin Lost(f, since)
  BY <1>2, <1>5, <1>7
<1> HIDE DEF C, R, F, Later
<1>13. F \in SUBSET Nat /\ IsFiniteSet(F)
  BY <1>1, <1>2, FS_Subset
<1>14. /\ ids \in SUBSET F /\ IsFiniteSet(ids) /\ Cardinality(ids) <= Limit
       /\ \A m \in ids : \A i \in F : i <= m => i \in ids
  BY <1>10, <1>13, FirstIsInitial, FeedConstants
<1>15. /\ top \in 0..n /\ since <= top
       /\ ids # {} => top \in ids
       /\ \A i \in ids : i <= top
  <2>1. CASE ids = {}
    BY <1>1, <2>1 DEF LatestId, n
  <2>2. CASE ids # {}
    <3>1. top \in ids /\ \A i \in ids : i <= top
      BY <1>13, <1>14, <2>2, MaxIsLargest DEF LatestId
    <3>2. top \in DOMAIN rows /\ top > since
      BY <1>12, <1>14, <3>1
    <3> QED
      BY <1>1, <3>1, <3>2
  <2> QED
    BY <2>1, <2>2
<1>16. \A i \in ids : i \in since + 1 .. top /\ Matches(f, i) /\ i \notin Lost(f, since)
  <2> SUFFICES ASSUME NEW i \in ids
               PROVE  i \in since + 1 .. top /\ Matches(f, i) /\ i \notin Lost(f, since)
    OBVIOUS
  <2>1. i \in DOMAIN rows /\ i > since /\ Matches(f, i) /\ i \notin Lost(f, since) /\ i <= top
    BY <1>12, <1>14, <1>15
  <2> QED
    BY <1>1, <1>15, <2>1
<1>17. ASSUME NEW i \in since + 1 .. top, Matches(f, i), i \notin Lost(f, since)
       PROVE  i \in ids
  <2>1. i \in DOMAIN rows /\ i > since /\ i <= top
    BY <1>1, <1>15
  <2>2. i \in F
    BY <1>11, <1>17, <2>1
  <2>3. ids # {}
    <3>1. CASE ids = {}
      <4>1. top = since
        BY <3>1 DEF LatestId
      <4> QED
        BY <1>1, <2>1, <4>1
    <3> QED
      BY <3>1
  <2> QED
    BY <1>14, <1>15, <2>1, <2>2, <2>3
<1>18. ids = {i \in since + 1 .. top : Matches(f, i)} \ Lost(f, since)
  BY <1>16, <1>17
<1>19. \A i \in Lost(f, since) : FetchLimit(f) <= Cardinality(NewerRows(f, i))
  BY <1>1, <1>2, <1>7, <1>8, <1>9
<1>20. \A i \in ids : ~(FetchLimit(f) <= Cardinality(NewerRows(f, i)))
  <2> SUFFICES ASSUME NEW i \in ids PROVE ~(FetchLimit(f) <= Cardinality(NewerRows(f, i)))
    OBVIOUS
  <2>1. i \in R /\ i \in C /\ i \in DOMAIN rows
    BY <1>2, <1>12, <1>14
  <2>2. Cardinality(NewerRows(f, i)) < FetchLimit(f) /\ Cardinality(NewerRows(f, i)) \in Nat
    BY <1>8, <1>9, <2>1
  <2> QED
    BY <1>1, <2>2
<1>21. ids \in SUBSET DOMAIN rows
  BY <1>12, <1>14
<1> QED
  BY <1>14, <1>15, <1>18, <1>19, <1>20, <1>21 DEF n

\* The log only grows.
Grows ==
  /\ rows \in Seq(RowKinds) /\ rows' \in Seq(RowKinds)
  /\ DOMAIN rows \in SUBSET DOMAIN rows' /\ Len(rows) <= Len(rows')
  /\ \A i \in DOMAIN rows : rows'[i] = rows[i]

LEMMA AppendGrows == ASSUME rows \in Seq(RowKinds), FtlAppends PROVE Grows
<1>1. PICK new \in RowKinds : rows' = Append(rows, new)
  BY DEF FtlAppends
<1> QED
  BY <1>1 DEF Grows

LEMMA SameGrows == ASSUME rows \in Seq(RowKinds), UNCHANGED rows PROVE Grows
BY DEF Grows

\* While the filter stays, what matched matches, and what is gone is gone.
LEMMA MatchesStay ==
  ASSUME Grows, NEW f, NEW i \in DOMAIN rows
  PROVE  /\ Matches(f, i)' <=> Matches(f, i)
         /\ OfClient(f, i)' <=> OfClient(f, i)
BY DEF Grows, Matches, OfClient

LEMMA GoneStays ==
  ASSUME Grows, UNCHANGED filter, NEW i \in DOMAIN rows, Gone(i)
  PROVE  Gone(i)'
<1>1. IsFiniteSet(DOMAIN rows')
  <2>1. DOMAIN rows' = 1..Len(rows') /\ 1 \in Int /\ Len(rows') \in Int
    BY DEF Grows
  <2> QED
    BY <2>1, FS_Interval
<1> DEFINE A == NewerRows(filter, i)
           B == {j \in DOMAIN rows' : j > i /\ filter.client \in {AnyClient, rows'[j].client}}
<1>2. B \in SUBSET DOMAIN rows'
  OBVIOUS
<1>3. A \in SUBSET B
  BY DEF Grows, NewerRows, OfClient
<1>4. FetchLimit(filter) <= Cardinality(A) /\ FetchLimit(filter) \in Nat
  BY FeedNumbers DEF Gone
<1> HIDE DEF A, B
<1>5. IsFiniteSet(B)
  BY <1>1, <1>2, FS_Subset
<1>6. Cardinality(A) <= Cardinality(B) /\ IsFiniteSet(A)
  BY <1>3, <1>5, FS_Subset
<1>7. Cardinality(A) \in Nat /\ Cardinality(B) \in Nat
  BY <1>5, <1>6, FS_CardinalityType
<1>8. FetchLimit(filter) <= Cardinality(B)
  BY <1>4, <1>6, <1>7
<1>9. FetchLimit(filter)' = FetchLimit(filter)
  BY DEF FetchLimit
<1> QED
  BY <1>8, <1>9 DEF Gone, NewerRows, OfClient, B

\* A request that a step leaves alone stays as it should be, unless the step
\* puts it in step with a browser it was not in step with.
LEMMA RequestStays ==
  ASSUME Grows, latest \in 0..Len(rows), NEW r, RequestOK(r),
         InStep(r)' => /\ InStep(r) /\ UNCHANGED <<filter, Since(r)>>
                       /\ r.reset \/ UNCHANGED missed
  PROVE  RequestOK(r)'
<1>0. DOMAIN rows = 1..Len(rows) /\ Len(rows) \in Nat /\ Len(rows') \in Nat /\ Len(rows) <= Len(rows')
  BY DEF Grows
<1>1. CASE r = NoRequest
  BY <1>1 DEF RequestOK
<1>2. CASE SentOK(r)
  <2>1. r \in [kind : {"sent"}, reset : BOOLEAN, filter : Filters, stale : BOOLEAN, since : 0..Len(rows')]
    <3>1. \A x \in 0..Len(rows) : x \in 0..Len(rows')
      BY <1>0
    <3> QED
      BY <1>2, <3>1 DEF SentOK
  <2>2. r.reset => r.since = 0
    BY <1>2 DEF SentOK
  <2>3. InStep(r)' => r.filter = filter' /\ r.since = Since(r)'
    BY <1>2 DEF SentOK
  <2>4. SentOK(r)'
    BY <2>1, <2>2, <2>3 DEF SentOK
  <2> QED
    BY <2>4 DEF RequestOK
<1>3. CASE ServedOK(r)
  <2>1. r \in [kind : {"served"}, reset : BOOLEAN, stale : BOOLEAN,
               events : SUBSET DOMAIN rows', latest : 0..Len(rows'), lost : SUBSET DOMAIN rows']
    <3>1. \A x \in 0..Len(rows) : x \in 0..Len(rows')
      BY <1>0
    <3>2. \A x \in SUBSET DOMAIN rows : x \in SUBSET DOMAIN rows'
      BY DEF Grows
    <3> QED
      BY <1>3, <3>1, <3>2 DEF ServedOK
  <2>2. Cardinality(r.events) <= Limit
    BY <1>3 DEF ServedOK
  <2>3. ASSUME InStep(r)' PROVE Answers(r)'
    <3>1. Answers(r) /\ UNCHANGED <<filter, Since(r)>> /\ (r.reset \/ UNCHANGED missed)
      BY <1>3, <2>3 DEF ServedOK
    <3>2. r.latest \in 0..Len(rows) /\ r.lost \in SUBSET DOMAIN rows /\ Since(r) \in Nat
      BY <1>0, <1>3 DEF ServedOK, Since
    <3>3. \A i \in Since(r) + 1 .. r.latest : i \in DOMAIN rows
      BY <1>0, <3>2
    <3>4. \A i \in Since(r) + 1 .. r.latest : Matches(filter, i)' <=> Matches(filter, i)
      BY <3>1, <3>3, MatchesStay DEF Matches, OfClient
    <3>5. \A i \in r.lost : Gone(i)'
      BY <3>1, <3>2, GoneStays DEF Answers
    <3>6. Since(r)' = Since(r)
      BY <3>1
    <3>7. r.events = {i \in Since(r)' + 1 .. r.latest : Matches(filter, i)'} \ r.lost
      <4>1. r.events = {i \in Since(r) + 1 .. r.latest : Matches(filter, i)} \ r.lost
        BY <3>1 DEF Answers
      <4>2. r.events = {i \in Since(r) + 1 .. r.latest : Matches(filter, i)'} \ r.lost
        BY <3>4, <4>1
      <4> QED
        BY <3>6, <4>2
    <3>8. Since(r)' <= r.latest /\ \A i \in r.lost : i > Since(r)'
      BY <3>1, <3>6 DEF Answers
    <3>9. r.reset \/ r.events \cap missed' = {}
      BY <3>1 DEF Answers
    <3> QED
      BY <3>5, <3>7, <3>8, <3>9 DEF Answers
  <2>4. ServedOK(r)'
    BY <2>1, <2>2, <2>3 DEF ServedOK
  <2> QED
    BY <2>4 DEF RequestOK
<1> QED
  BY <1>1, <1>2, <1>3 DEF RequestOK

\* What holds of a request holds of the slot it is in.
LEMMA SlotHolds ==
  ASSUME NEW t, NEW r, requests'[t] = r, RequestOK(r)'
  PROVE  RequestOK(requests[t])'
BY DEF RequestOK, SentOK, ServedOK, Answers, InStep, Since, Gone, NewerRows, Matches, OfClient, FetchLimit

\* A request is of one of three kinds.
LEMMA RequestKinds ==
  ASSUME NEW r, RequestOK(r)
  PROVE  /\ r.kind \in {"none", "sent", "served"}
         /\ r.kind = "sent" => SentOK(r) /\ r # NoRequest
         /\ r.kind = "served" => ServedOK(r) /\ r # NoRequest
BY DEF RequestOK, SentOK, ServedOK, NoRequest

\* The type of the feed, from what each part of it is.
LEMMA FeedTypeFollows ==
  ASSUME rows \in Seq(RowKinds), filter \in Filters, latest \in 0..Len(rows),
         shown \in Seq(DOMAIN rows), Len(shown) <= FeedKeeps,
         missed \in SUBSET DOMAIN rows, overlap \in {"none", "polls", "reset"},
         \A s \in Slots : RequestOK(requests[s])
  PROVE  FeedTypeOK
<1>1. \A s \in Slots : requests[s].kind \in {"none", "sent", "served"}
  BY RequestKinds
<1> QED
  BY <1>1 DEF FeedTypeOK

\* A step that leaves the feed alone leaves it the log.
Matching == {i \in 1..latest : Matches(filter, i)} \ missed

LEMMA FeedStays ==
  ASSUME FeedInv, Grows, UNCHANGED <<filter, shown, latest, missed>>,
         overlap' \in {"none", "polls", "reset"}, overlap' = "none" => overlap = "none",
         (\A s \in Slots : RequestOK(requests[s]))'
  PROVE  FeedIsTheLog'
<1>0. /\ FeedTypeOK /\ DOMAIN rows = 1..Len(rows) /\ Len(rows) \in Nat
      /\ Len(rows') \in Nat /\ Len(rows) <= Len(rows')
  BY DEF FeedInv, FeedIsTheLog, FeedTypeOK, Grows
<1>1. /\ rows' \in Seq(RowKinds) /\ filter' \in Filters /\ latest' \in 0..Len(rows')
      /\ shown' \in Seq(DOMAIN rows') /\ Len(shown') <= FeedKeeps
      /\ missed' \in SUBSET DOMAIN rows'
  <2>1. shown \in Seq(DOMAIN rows')
    BY <1>0 DEF Grows, FeedTypeOK
  <2> QED
    BY <1>0, <2>1 DEF Grows, FeedTypeOK
<1>2. FeedTypeOK'
  <2>1. (\A s \in Slots : requests[s].kind \in {"none", "sent", "served"})'
    BY DEF RequestOK, SentOK, ServedOK, NoRequest
  <2> QED
    BY <1>1, <2>1 DEF FeedTypeOK
<1>3. ASSUME overlap' = "none" PROVE shown' = InOrder(Latest(Matching, FeedKeeps))'
  <2>1. shown = InOrder(Latest(Matching, FeedKeeps))
    BY <1>3 DEF FeedInv, FeedIsTheLog, Matching
  <2>2. \A i \in 1..latest : i \in DOMAIN rows
    BY <1>0 DEF FeedTypeOK
  <2>3. \A i \in 1..latest : Matches(filter, i)' <=> Matches(filter, i)
    BY <2>2, MatchesStay DEF Matches, OfClient
  <2>4. Matching' = Matching
    BY <2>3 DEF Matching
  <2> QED
    BY <2>1, <2>4 DEF InOrder, Latest, Rises
<1> QED
  BY <1>2, <1>3 DEF FeedIsTheLog, Matching

-----------------------------------------------------------------------------
\* An empty log is an empty feed.
LEMMA FeedStarts == FeedInit => FeedInv
<1> SUFFICES ASSUME FeedInit PROVE FeedInv
  OBVIOUS
<1> USE DEF FeedInit
<1>1. \A s \in Slots : requests[s] = NoRequest
  OBVIOUS
<1>2. (\A s \in Slots : RequestOK(requests[s])) /\ DOMAIN requests = Slots
  BY <1>1 DEF RequestOK
<1>3. FeedTypeOK
  BY <1>2, FeedTypeFollows, FeedConstants
<1>4. OneAtATime
  BY <1>1 DEF OneAtATime, InFlight
<1>5. shown = InOrder(Latest(Matching, FeedKeeps))
  <2>1. Matching = {}
    BY DEF Matching
  <2>2. Latest({}, FeedKeeps) = {}
    BY DEF Latest
  <2>3. Lists(InOrder({}), {})
    BY InOrderLists, FS_EmptySet
  <2>4. Lists(<<>>, {})
    BY DEF Lists, Rises
  <2>5. InOrder({}) = <<>>
    BY <2>3, <2>4, ListsAreEqual
  <2> QED
    BY <2>1, <2>2, <2>5
<1> QED
  BY <1>2, <1>3, <1>4, <1>5 DEF FeedInv, FeedIsTheLog, Matching

LEMMA AppendKeeps == ASSUME FeedInv, FtlAppends PROVE FeedInv'
<1>0. /\ FeedTypeOK /\ rows \in Seq(RowKinds) /\ latest \in 0..Len(rows) /\ Grows
      /\ UNCHANGED <<filter, shown, latest, requests, overlap, missed>>
  BY AppendGrows DEF FeedInv, FeedIsTheLog, FeedTypeOK, FtlAppends
<1>1. (\A s \in Slots : RequestOK(requests[s]))'
  <2> SUFFICES ASSUME NEW s \in Slots PROVE RequestOK(requests[s])'
    OBVIOUS
  <2>1. PICK r : r = requests[s]
    OBVIOUS
  <2>2. RequestOK(r)
    BY <2>1 DEF FeedInv
  <2>3. InStep(r)' => InStep(r) /\ UNCHANGED <<filter, Since(r), missed>>
    BY <1>0 DEF InStep, Since
  <2>4. RequestOK(r)'
    BY <1>0, <2>2, <2>3, RequestStays
  <2> QED
    BY <1>0, <2>1, <2>4, SlotHolds
<1>2. FeedIsTheLog'
  BY <1>0, <1>1, FeedStays DEF FeedTypeOK
<1>3. OneAtATime'
  <2>1. InFlight' = InFlight
    BY <1>0 DEF InFlight
  <2>2. overlap = "none" => \A i \in missed : Gone(i)'
    BY <1>0, GoneStays DEF FeedInv, OneAtATime, FeedTypeOK
  <2> QED
    BY <1>0, <2>1, <2>2 DEF OneAtATime, FeedInv
<1> QED
  BY <1>0, <1>1, <1>2, <1>3 DEF FeedInv

LEMMA PollKeeps == ASSUME FeedInv, NEW s \in Slots, Poll(s) PROVE FeedInv'
<1>0. /\ FeedTypeOK /\ rows \in Seq(RowKinds) /\ latest \in 0..Len(rows) /\ Grows
      /\ UNCHANGED <<rows, filter, shown, latest, missed>>
  BY SameGrows DEF FeedInv, FeedIsTheLog, FeedTypeOK, Poll
<1>1. overlap' = "none" => overlap = "none" /\ InFlight = {}
  BY DEF Poll
<1>2. overlap' \in {"none", "polls", "reset"}
  BY <1>0 DEF Poll, FeedTypeOK
<1>3. /\ DOMAIN requests' = Slots /\ requests'[s] = Outgoing(filter, FALSE)
      /\ \A t \in Slots : t # s => requests'[t] = requests[t]
  BY DEF Poll, FeedInv
<1>4. (\A t \in Slots : RequestOK(requests[t]))'
  <2> SUFFICES ASSUME NEW t \in Slots PROVE RequestOK(requests[t])'
    OBVIOUS
  <2>1. PICK r : r = requests'[t]
    OBVIOUS
  <2>2. CASE t = s
    <3>1. r = [kind |-> "sent", reset |-> FALSE, filter |-> filter, stale |-> FALSE, since |-> latest]
      BY <1>3, <2>1, <2>2 DEF Outgoing
    <3>2. SentOK(r)'
      BY <1>0, <3>1 DEF SentOK, FeedTypeOK, Since
    <3>3. RequestOK(r)'
      BY <3>2 DEF RequestOK
    <3> QED
      BY <2>1, <3>3, SlotHolds
  <2>3. CASE t # s
    <3>1. RequestOK(r)
      BY <1>3, <2>1, <2>3 DEF FeedInv
    <3>2. InStep(r)' => InStep(r) /\ UNCHANGED <<filter, Since(r), missed>>
      BY <1>0, <1>1 DEF InStep, Since
    <3>3. RequestOK(r)'
      BY <1>0, <3>1, <3>2, RequestStays
    <3> QED
      BY <2>1, <3>3, SlotHolds
  <2> QED
    BY <2>2, <2>3
<1>5. FeedIsTheLog'
  BY <1>0, <1>1, <1>2, <1>4, FeedStays
<1>6. OneAtATime'
  <2> SUFFICES ASSUME overlap' = "none"
               PROVE  /\ (\A t, u \in InFlight : t = u)'
                      /\ (\A t \in InFlight : ~requests[t].stale /\ (requests[t].reset => latest = 0))'
                      /\ (\A i \in missed : Gone(i))'
    BY DEF OneAtATime
  <2>1. \A t \in InFlight' : t = s
    BY <1>1, <1>3 DEF InFlight
  <2>2. requests'[s].stale = FALSE /\ requests'[s].reset = FALSE
    BY <1>3 DEF Outgoing
  <2>3. \A i \in missed' : Gone(i)'
    BY <1>0, <1>1, GoneStays DEF FeedInv, OneAtATime, FeedTypeOK
  <2> QED
    BY <2>1, <2>2, <2>3
<1> QED
  BY <1>3, <1>4, <1>5, <1>6 DEF FeedInv

LEMMA SetFilterKeeps == ASSUME FeedInv, NEW s \in Slots, SetFilter(s) PROVE FeedInv'
<1>0. /\ FeedTypeOK /\ rows \in Seq(RowKinds) /\ UNCHANGED rows
      /\ shown' = <<>> /\ latest' = 0 /\ missed' = {}
      /\ DOMAIN rows = 1..Len(rows) /\ Len(rows) \in Nat
  BY DEF FeedInv, FeedIsTheLog, FeedTypeOK, SetFilter
<1>1. PICK f \in Filters :
        /\ filter' = f
        /\ requests' = [t \in Slots |->
             CASE t = s           -> Outgoing(f, TRUE)
               [] t \in InFlight  -> [requests[t] EXCEPT !.stale = TRUE]
               [] OTHER           -> NoRequest]
  BY DEF SetFilter
<1>2. overlap' = "none" => InFlight = {}
  BY DEF SetFilter
<1>3. overlap' \in {"none", "polls", "reset"}
  BY DEF SetFilter
<1>4. /\ DOMAIN requests' = Slots
      /\ requests'[s] = [kind |-> "sent", reset |-> TRUE, filter |-> f, stale |-> FALSE, since |-> 0]
      /\ \A t \in Slots : t # s /\ requests[t] = NoRequest => requests'[t] = NoRequest
      /\ \A t \in Slots : t # s /\ requests[t] # NoRequest =>
           requests'[t] = [requests[t] EXCEPT !.stale = TRUE]
  <2>1. DOMAIN requests' = Slots /\ s \notin InFlight
    BY <1>1 DEF SetFilter, InFlight
  <2>2. requests'[s] = Outgoing(f, TRUE)
    BY <1>1, <2>1
  <2>3. ASSUME NEW t \in Slots, t # s, requests[t] = NoRequest PROVE requests'[t] = NoRequest
    BY <1>1, <2>3 DEF InFlight
  <2>4. ASSUME NEW t \in Slots, t # s, requests[t] # NoRequest
        PROVE  requests'[t] = [requests[t] EXCEPT !.stale = TRUE]
    BY <1>1, <2>4 DEF InFlight
  <2>5. Outgoing(f, TRUE) = [kind |-> "sent", reset |-> TRUE, filter |-> f, stale |-> FALSE, since |-> 0]
    BY DEF Outgoing
  <2> QED
    BY <2>1, <2>2, <2>3, <2>4, <2>5
<1>5. (\A t \in Slots : RequestOK(requests[t]))'
  <2> SUFFICES ASSUME NEW t \in Slots PROVE RequestOK(requests[t])'
    OBVIOUS
  <2>1. PICK r : r = requests'[t]
    OBVIOUS
  <2>2. CASE t = s
    <3>1. r = [kind |-> "sent", reset |-> TRUE, filter |-> f, stale |-> FALSE, since |-> 0]
      BY <1>4, <2>1, <2>2
    <3>2. SentOK(r)'
      BY <1>0, <1>1, <3>1 DEF SentOK, Since
    <3>3. RequestOK(r)'
      BY <3>2 DEF RequestOK
    <3> QED
      BY <2>1, <3>3, SlotHolds
  <2>3. CASE t # s /\ requests[t] = NoRequest
    <3>1. RequestOK(r)'
      BY <1>4, <2>1, <2>3 DEF RequestOK
    <3> QED
      BY <2>1, <3>1, SlotHolds
  <2>4. CASE t # s /\ requests[t] # NoRequest
    <3>1. PICK q : q = requests[t]
      OBVIOUS
    <3>2. r = [q EXCEPT !.stale = TRUE] /\ (SentOK(q) \/ ServedOK(q))
      BY <1>4, <2>1, <2>4, <3>1 DEF FeedInv, RequestOK
    <3>3. CASE SentOK(q)
      <4>1. r \in [kind : {"sent"}, reset : BOOLEAN, filter : Filters, stale : BOOLEAN, since : 0..Len(rows)]
        BY <3>2, <3>3 DEF SentOK
      <4>2. r.stale = TRUE /\ (r.reset => r.since = 0)
        BY <3>2, <3>3 DEF SentOK
      <4>3. SentOK(r)'
        BY <1>0, <4>1, <4>2 DEF SentOK, InStep
      <4>4. RequestOK(r)'
        BY <4>3 DEF RequestOK
      <4> QED
        BY <2>1, <4>4, SlotHolds
    <3>4. CASE ServedOK(q)
      <4>1. /\ r \in [kind : {"served"}, reset : BOOLEAN, stale : BOOLEAN,
                      events : SUBSET DOMAIN rows, latest : 0..Len(rows), lost : SUBSET DOMAIN rows]
            /\ r.events = q.events
        BY <3>2, <3>4 DEF ServedOK
      <4>2. r.stale = TRUE /\ Cardinality(r.events) <= Limit
        BY <3>2, <3>4, <4>1 DEF ServedOK
      <4>3. ServedOK(r)'
        BY <1>0, <4>1, <4>2 DEF ServedOK, InStep
      <4>4. RequestOK(r)'
        BY <4>3 DEF RequestOK
      <4> QED
        BY <2>1, <4>4, SlotHolds
    <3> QED
      BY <3>2, <3>3, <3>4
  <2> QED
    BY <2>2, <2>3, <2>4
<1>6. FeedIsTheLog'
  <2>1. (\A t \in Slots : requests[t].kind \in {"none", "sent", "served"})'
    BY <1>5 DEF RequestOK, SentOK, ServedOK, NoRequest
  <2>2. FeedTypeOK'
    <3>1. shown' \in Seq(DOMAIN rows') /\ Len(shown') <= FeedKeeps
      BY <1>0, FeedConstants
    <3>2. rows' \in Seq(RowKinds) /\ latest' \in 0..Len(rows') /\ missed' \in SUBSET DOMAIN rows'
      BY <1>0
    <3> QED
      BY <1>1, <1>3, <2>1, <3>1, <3>2 DEF FeedTypeOK
  <2>3. Matching' = {}
    BY <1>0 DEF Matching
  <2>4. shown' = InOrder(Latest({}, FeedKeeps))
    <3>1. Latest({}, FeedKeeps) = {}
      BY DEF Latest
    <3>2. Lists(InOrder({}), {})
      BY InOrderLists, FS_EmptySet
    <3>3. Lists(<<>>, {})
      BY DEF Lists, Rises
    <3>4. InOrder({}) = <<>>
      BY <3>2, <3>3, ListsAreEqual
    <3> QED
      BY <1>0, <3>1, <3>4
  <2>5. shown' = InOrder(Latest(Matching', FeedKeeps))
    BY <2>3, <2>4
  <2> QED
    BY <2>2, <2>5 DEF FeedIsTheLog, Matching, InOrder, Latest, Rises
<1>7. OneAtATime'
  <2> SUFFICES ASSUME overlap' = "none"
               PROVE  /\ (\A t, u \in InFlight : t = u)'
                      /\ (\A t \in InFlight : ~requests[t].stale /\ (requests[t].reset => latest = 0))'
                      /\ (\A i \in missed : Gone(i))'
    BY DEF OneAtATime
  <2>1. \A t \in InFlight' : t = s
    BY <1>2, <1>4 DEF InFlight
  <2>2. requests'[s].stale = FALSE
    BY <1>4
  <2> QED
    BY <1>0, <2>1, <2>2
<1> QED
  BY <1>4, <1>5, <1>6, <1>7 DEF FeedInv

\* What an answer to q may hold.
GoodAnswer(q, ids, top, lost) ==
  /\ ids \in SUBSET DOMAIN rows /\ Cardinality(ids) <= Limit
  /\ top \in 0..Len(rows) /\ q.since <= top
  /\ ids = {i \in q.since + 1 .. top : Matches(q.filter, i)} \ lost
  /\ \A i \in lost : FetchLimit(q.filter) <= Cardinality(NewerRows(q.filter, i))
  /\ \A i \in ids : ~(FetchLimit(q.filter) <= Cardinality(NewerRows(q.filter, i)))
  /\ lost \in SUBSET DOMAIN rows /\ \A i \in lost : i > q.since

LEMMA AnsweredKeeps ==
  ASSUME FeedInv, NEW s \in Slots, requests[s].kind = "sent",
         NEW ids, NEW top, NEW lost, top = LatestId(ids, requests[s].since),
         GoodAnswer(requests[s], ids, top, lost), Answered(s, ids, lost),
         UNCHANGED <<rows, filter, shown, latest, overlap, missed>>
  PROVE  FeedInv'
<1>0. /\ FeedTypeOK /\ rows \in Seq(RowKinds) /\ latest \in 0..Len(rows) /\ Grows
      /\ DOMAIN rows = 1..Len(rows) /\ Len(rows) \in Nat
  BY SameGrows DEF FeedInv, FeedIsTheLog, FeedTypeOK
<1>1. PICK q : q = requests[s]
  OBVIOUS
<1>2. SentOK(q)
  BY <1>1, RequestKinds DEF FeedInv
<1>6. PICK r : r = [kind |-> "served", reset |-> q.reset, stale |-> q.stale,
                    events |-> ids, latest |-> top, lost |-> lost]
  OBVIOUS
<1>7. /\ DOMAIN requests' = Slots /\ requests'[s] = r
      /\ \A t \in Slots : t # s => requests'[t] = requests[t]
  BY <1>1, <1>6 DEF Answered, FeedInv
<1>8. q.since \in 0..Len(rows)
  BY <1>2 DEF SentOK
<1>9. /\ ids \in SUBSET DOMAIN rows /\ Cardinality(ids) <= Limit
      /\ top \in 0..Len(rows) /\ q.since <= top
      /\ ids = {i \in q.since + 1 .. top : Matches(q.filter, i)} \ lost
      /\ \A i \in lost : FetchLimit(q.filter) <= Cardinality(NewerRows(q.filter, i))
      /\ \A i \in ids : ~(FetchLimit(q.filter) <= Cardinality(NewerRows(q.filter, i)))
  BY <1>1 DEF GoodAnswer
<1>10. lost \in SUBSET DOMAIN rows /\ \A i \in lost : i > q.since
  BY <1>1 DEF GoodAnswer
<1>11. RequestOK(r)
  <2>1. r \in [kind : {"served"}, reset : BOOLEAN, stale : BOOLEAN,
               events : SUBSET DOMAIN rows, latest : 0..Len(rows), lost : SUBSET DOMAIN rows]
    BY <1>2, <1>6, <1>9, <1>10 DEF SentOK
  <2>2. ASSUME InStep(r) PROVE Answers(r)
    <3>1. q.filter = filter /\ q.since = Since(q)
      BY <1>2, <1>6, <2>2 DEF SentOK, InStep
    <3>2. Since(r) = q.since /\ r.events = ids /\ r.latest = top /\ r.lost = lost /\ r.reset = q.reset
      BY <1>6, <3>1 DEF Since
    <3>3. r.reset \/ r.events \cap missed = {}
      <4> SUFFICES ASSUME ~r.reset, NEW i \in ids, i \in missed PROVE FALSE
        BY <3>2
      <4>1. overlap = "none" /\ s \in InFlight
        BY <1>1, <1>2, <2>2, RequestKinds DEF InStep, InFlight, SentOK, NoRequest
      <4>2. Gone(i)
        BY <4>1 DEF FeedInv, OneAtATime
      <4> QED
        BY <1>9, <3>1, <4>2 DEF Gone
    <3>4. \A i \in lost : Gone(i)
      BY <1>9, <3>1 DEF Gone
    <3>5. ids = {i \in Since(r) + 1 .. top : Matches(filter, i)} \ lost
      BY <1>9, <3>1, <3>2
    <3> QED
      BY <1>9, <1>10, <3>2, <3>3, <3>4, <3>5 DEF Answers
  <2>3. Cardinality(r.events) <= Limit
    BY <1>6, <1>9
  <2>4. ServedOK(r)
    BY <2>1, <2>2, <2>3 DEF ServedOK
  <2> QED
    BY <2>4 DEF RequestOK
<1>12. (\A t \in Slots : RequestOK(requests[t]))'
  <2> SUFFICES ASSUME NEW t \in Slots PROVE RequestOK(requests[t])'
    OBVIOUS
  <2>1. PICK u : u = requests'[t]
    OBVIOUS
  <2>2. RequestOK(u)
    BY <1>7, <1>11, <2>1 DEF FeedInv
  <2>3. InStep(u)' => InStep(u) /\ UNCHANGED <<filter, Since(u), missed>>
    BY <1>0 DEF InStep, Since
  <2>4. RequestOK(u)'
    BY <1>0, <2>2, <2>3, RequestStays
  <2> QED
    BY <2>1, <2>4, SlotHolds
<1>13. FeedIsTheLog'
  BY <1>0, <1>12, FeedStays DEF FeedTypeOK
<1>14. OneAtATime'
  <2>1. InFlight' = InFlight
    <3>1. q # NoRequest /\ r # NoRequest
      BY <1>2, <1>6 DEF SentOK, NoRequest
    <3> QED
      BY <1>1, <1>7, <3>1 DEF InFlight
  <2>2. requests'[s].stale = requests[s].stale /\ requests'[s].reset = requests[s].reset
    BY <1>1, <1>6, <1>7
  <2>3. overlap = "none" => \A i \in missed : Gone(i)'
    BY <1>0, GoneStays DEF FeedInv, OneAtATime, FeedTypeOK
  <2>4. \A t \in InFlight : requests'[t].stale = requests[t].stale /\ requests'[t].reset = requests[t].reset
    BY <1>7, <2>2 DEF InFlight
  <2> QED
    BY <1>0, <2>1, <2>3, <2>4 DEF OneAtATime, FeedInv
<1> QED
  BY <1>7, <1>12, <1>13, <1>14 DEF FeedInv

LEMMA ServeKeeps == ASSUME FeedInv, NEW s \in Slots, Serve(s) PROVE FeedInv'
<1>1. /\ rows \in Seq(RowKinds) /\ DOMAIN rows = 1..Len(rows) /\ Len(rows) \in Nat
      /\ UNCHANGED <<rows, filter, shown, latest, overlap, missed>>
      /\ requests[s].kind = "sent"
  BY DEF FeedInv, FeedIsTheLog, FeedTypeOK, Serve
<1>2. PICK q : q = requests[s]
  OBVIOUS
<1>3. q.since \in 0..Len(rows)
  BY <1>1, <1>2, RequestKinds DEF FeedInv, SentOK
<1>4. PICK ids : ids = Payload(q.filter, q.since)
  OBVIOUS
<1>5. PICK top : top = LatestId(ids, q.since)
  OBVIOUS
<1>6. PICK lost : lost = Lost(q.filter, q.since)
  OBVIOUS
<1>7. Answered(s, ids, lost)
  BY <1>2, <1>4, <1>6 DEF Serve, Lost
<1>8. GoodAnswer(q, ids, top, lost)
  <2>1. /\ ids \in SUBSET DOMAIN rows /\ Cardinality(ids) <= Limit
        /\ top \in 0..Len(rows) /\ q.since <= top
        /\ ids = {i \in q.since + 1 .. top : Matches(q.filter, i)} \ lost
        /\ \A i \in lost : FetchLimit(q.filter) <= Cardinality(NewerRows(q.filter, i))
        /\ \A i \in ids : ~(FetchLimit(q.filter) <= Cardinality(NewerRows(q.filter, i)))
    BY <1>1, <1>3, <1>4, <1>5, <1>6, PayloadAnswers
  <2>2. lost \in SUBSET DOMAIN rows /\ \A i \in lost : i > q.since
    BY <1>6 DEF Lost
  <2> QED
    BY <2>1, <2>2 DEF GoodAnswer
<1> QED
  BY <1>1, <1>2, <1>5, <1>7, <1>8, AnsweredKeeps

\* An answer without events claims nothing.
LEMMA ServeNothingKeeps == ASSUME FeedInv, NEW s \in Slots, ServeNothing(s) PROVE FeedInv'
<1>1. /\ UNCHANGED <<rows, filter, shown, latest, overlap, missed>>
      /\ requests[s].kind = "sent" /\ Answered(s, {}, {})
  BY DEF ServeNothing
<1>2. PICK q : q = requests[s]
  OBVIOUS
<1>3. q.since \in 0..Len(rows) /\ Len(rows) \in Nat
  BY <1>1, <1>2, RequestKinds DEF FeedInv, FeedIsTheLog, FeedTypeOK, SentOK
<1>4. LatestId({}, q.since) = q.since
  BY DEF LatestId
<1>5. GoodAnswer(q, {}, q.since, {})
  <2>1. Cardinality({}) = 0 /\ Limit \in Nat
    BY FS_EmptySet, FeedConstants
  <2>2. {i \in q.since + 1 .. q.since : Matches(q.filter, i)} = {}
    BY <1>3
  <2> QED
    BY <1>3, <2>1, <2>2 DEF GoodAnswer
<1> QED
  BY <1>1, <1>2, <1>4, <1>5, AnsweredKeeps

\* A step that empties a slot.
LEMMA FailKeeps == ASSUME FeedInv, NEW s \in Slots, RequestFails(s) PROVE FeedInv'
<1>0. /\ FeedTypeOK /\ rows \in Seq(RowKinds) /\ latest \in 0..Len(rows) /\ Grows
      /\ UNCHANGED <<rows, filter, shown, latest, overlap, missed>>
  BY SameGrows DEF FeedInv, FeedIsTheLog, FeedTypeOK, RequestFails
<1>1. /\ DOMAIN requests' = Slots /\ requests'[s] = NoRequest
      /\ \A t \in Slots : t # s => requests'[t] = requests[t]
  BY DEF RequestFails, FeedInv
<1>2. (\A t \in Slots : RequestOK(requests[t]))'
  <2> SUFFICES ASSUME NEW t \in Slots PROVE RequestOK(requests[t])'
    OBVIOUS
  <2>1. PICK u : u = requests'[t]
    OBVIOUS
  <2>2. RequestOK(u)
    BY <1>1, <2>1 DEF FeedInv, RequestOK
  <2>3. InStep(u)' => InStep(u) /\ UNCHANGED <<filter, Since(u), missed>>
    BY <1>0 DEF InStep, Since
  <2>4. RequestOK(u)'
    BY <1>0, <2>2, <2>3, RequestStays
  <2> QED
    BY <2>1, <2>4, SlotHolds
<1>3. FeedIsTheLog'
  BY <1>0, <1>2, FeedStays DEF FeedTypeOK
<1>4. OneAtATime'
  <2>1. \A t \in InFlight' : t \in InFlight /\ requests'[t] = requests[t]
    BY <1>1 DEF InFlight
  <2>2. overlap = "none" => \A i \in missed : Gone(i)'
    BY <1>0, GoneStays DEF FeedInv, OneAtATime, FeedTypeOK
  <2> QED
    BY <1>0, <2>1, <2>2 DEF OneAtATime, FeedInv
<1> QED
  BY <1>1, <1>2, <1>3, <1>4 DEF FeedInv

\* Trimming keeps no more than the feed holds, whatever it is given.
LEMMA TrimmedType ==
  ASSUME NEW T, NEW list \in Seq(T)
  PROVE  Trimmed(list) \in Seq(T) /\ Len(Trimmed(list)) <= FeedKeeps
<1> DEFINE n == Len(list)
           keep == IF n < FeedKeeps THEN n ELSE FeedKeeps
<1>1. n \in Nat
  OBVIOUS
<1>2. keep \in Nat /\ keep <= FeedKeeps /\ keep <= n
  <2> HIDE DEF n
  <2> QED BY <1>1, FeedConstants
<1>3. Trimmed(list) = SubSeq(list, n - keep + 1, n)
  BY DEF Trimmed
<1> HIDE DEF n, keep
<1>4. Len(SubSeq(list, n - keep + 1, n)) = keep /\ SubSeq(list, n - keep + 1, n) \in Seq(T)
  BY <1>1, <1>2 DEF n
<1> QED
  BY <1>2, <1>3, <1>4

\* The ids of an answer, in order.
LEMMA EventsListed ==
  ASSUME rows \in Seq(RowKinds), NEW E \in SUBSET DOMAIN rows, Cardinality(E) <= Limit
  PROVE  /\ E \in SUBSET Nat /\ IsFiniteSet(E) /\ Lists(InOrder(E), E)
         /\ InOrder(E) \in Seq(DOMAIN rows) /\ Len(InOrder(E)) <= FeedKeeps
         /\ Latest(E, FeedKeeps) = E
<1>1. E \in SUBSET Nat /\ IsFiniteSet(E)
  BY FeedNumbers, FS_Subset
<1>2. Lists(InOrder(E), E)
  BY <1>1, InOrderLists
<1>3. Len(InOrder(E)) = Cardinality(E) /\ Cardinality(E) \in Nat
  BY <1>1, <1>2, ListLength, FS_CardinalityType
<1>4. Len(InOrder(E)) <= FeedKeeps /\ Cardinality(E) <= FeedKeeps
  BY <1>3, FeedConstants
<1>5. InOrder(E) \in Seq(DOMAIN rows)
  <2>1. InOrder(E) \in Seq(E)
    BY <1>2 DEF Lists
  <2> QED
    BY <2>1
<1>6. Latest(E, FeedKeeps) = E
  BY <1>1, <1>4, LatestOfFew, FeedConstants
<1> QED
  BY <1>1, <1>2, <1>4, <1>5, <1>6

\* An answer joined to a feed that is the log up to there.
LEMMA JoinedFeed ==
  ASSUME NEW M \in SUBSET Nat, IsFiniteSet(M), NEW E \in SUBSET Nat, IsFiniteSet(E),
         \A i \in M, j \in E : i < j,
         NEW list, list = InOrder(Latest(M, FeedKeeps))
  PROVE  Trimmed(list \o InOrder(E)) = InOrder(Latest(M \cup E, FeedKeeps))
<1> DEFINE L == Latest(M, FeedKeeps)
<1>1. L \in SUBSET M /\ L \in SUBSET Nat
  BY DEF Latest
<1>2. L \cup E \in SUBSET Nat
  BY <1>1
<1>3. IsFiniteSet(L)
  BY <1>1, FS_Subset
<1>4. \A i \in L, j \in E : i < j
  BY <1>1
<1>5. Latest(L \cup E, FeedKeeps) = Latest(M \cup E, FeedKeeps)
  BY LatestAgain, FeedConstants
<1> HIDE DEF L
<1>6. Lists(list, L) /\ Lists(InOrder(E), E)
  BY <1>1, <1>3, InOrderLists DEF L
<1>7. Lists(list \o InOrder(E), L \cup E)
  BY <1>1, <1>4, <1>6, JoinedLists
<1> DEFINE N == Latest(L \cup E, FeedKeeps)
<1>8. Lists(Trimmed(list \o InOrder(E)), N)
  BY <1>2, <1>7, TrimmedLists
<1>9. N \in SUBSET (L \cup E) /\ IsFiniteSet(L \cup E)
  BY <1>3, FS_Union DEF Latest
<1> HIDE DEF N
<1>10. N \in SUBSET Nat /\ IsFiniteSet(N)
  BY <1>2, <1>9, FS_Subset
<1>11. Lists(InOrder(N), N)
  BY <1>10, InOrderLists
<1>12. Trimmed(list \o InOrder(E)) = InOrder(N)
  BY <1>8, <1>10, <1>11, ListsAreEqual
<1> QED
  BY <1>5, <1>12 DEF N

LEMMA ReceiveKeeps == ASSUME FeedInv, NEW s \in Slots, Receive(s) PROVE FeedInv'
<1>0. /\ FeedTypeOK /\ rows \in Seq(RowKinds) /\ latest \in 0..Len(rows) /\ Grows
      /\ UNCHANGED <<rows, filter>>
      /\ DOMAIN rows = 1..Len(rows) /\ Len(rows) \in Nat
  BY SameGrows DEF FeedInv, FeedIsTheLog, FeedTypeOK, Receive
<1>1. PICK q : q = requests[s]
  OBVIOUS
<1> DEFINE E == q.events
           clean == /\ q.reset /\ ~q.stale /\ InFlight = {s}
                    /\ q.latest # 0 \/ latest = 0
<1>2. ServedOK(q) /\ s \in InFlight
  BY <1>1, RequestKinds DEF Receive, FeedInv, InFlight
<1>3. /\ shown' = IF q.reset THEN InOrder(E) ELSE Trimmed(shown \o InOrder(E))
      /\ latest' = IF q.latest # 0 THEN q.latest ELSE latest
      /\ missed' = IF q.reset THEN q.lost ELSE missed \union q.lost
      /\ overlap' = IF clean THEN "none" ELSE overlap
  BY <1>1 DEF Receive
<1>4. /\ DOMAIN requests' = Slots /\ requests'[s] = NoRequest
      /\ \A t \in Slots : t # s => requests'[t] = requests[t]
  BY DEF Receive, FeedInv
<1>5. /\ E \in SUBSET DOMAIN rows /\ Cardinality(E) <= Limit
      /\ q.latest \in 0..Len(rows) /\ q.lost \in SUBSET DOMAIN rows
      /\ q.reset \in BOOLEAN /\ q.stale \in BOOLEAN
  BY <1>2 DEF ServedOK
<1>6. /\ E \in SUBSET Nat /\ IsFiniteSet(E) /\ Lists(InOrder(E), E)
      /\ InOrder(E) \in Seq(DOMAIN rows) /\ Len(InOrder(E)) <= FeedKeeps
      /\ Latest(E, FeedKeeps) = E
  BY <1>0, <1>5, EventsListed
<1>7. ASSUME overlap' = "none"
      PROVE  /\ InFlight = {s} /\ Answers(q) /\ latest' = q.latest
             /\ q.reset \/ overlap = "none"
  <2>1. /\ InFlight = {s} /\ ~q.stale
        /\ q.reset \/ overlap = "none"
        /\ q.reset => q.latest # 0 \/ latest = 0
    <3>1. CASE clean
      BY <3>1
    <3>2. CASE ~clean
      <4>1. overlap = "none"
        BY <1>3, <1>7, <3>2
      <4>2. ~q.stale /\ (q.reset => latest = 0)
        BY <1>1, <1>2, <4>1 DEF FeedInv, OneAtATime
      <4>3. InFlight = {s}
        BY <1>2, <4>1 DEF FeedInv, OneAtATime
      <4> QED
        BY <4>1, <4>2, <4>3
    <3> QED
      BY <3>1, <3>2
  <2>2. Answers(q)
    BY <1>2, <2>1 DEF ServedOK, InStep
  <2>3. latest' = q.latest
    <3>1. CASE q.latest # 0
      BY <1>3, <3>1
    <3>2. CASE q.latest = 0
      <4>1. latest = 0
        <5>1. CASE q.reset
          BY <2>1, <3>2, <5>1
        <5>2. CASE ~q.reset
          BY <1>0, <2>2, <3>2, <5>2 DEF Answers, Since
        <5> QED
          BY <5>1, <5>2
      <4> QED
        BY <1>3, <3>2, <4>1
    <3> QED
      BY <3>1, <3>2
  <2> QED
    BY <2>1, <2>2, <2>3
<1>8. (\A t \in Slots : RequestOK(requests[t]))'
  <2> SUFFICES ASSUME NEW t \in Slots PROVE RequestOK(requests[t])'
    OBVIOUS
  <2>1. PICK u : u = requests'[t]
    OBVIOUS
  <2>2. CASE t = s
    <3>1. RequestOK(u)'
      BY <1>4, <2>1, <2>2 DEF RequestOK
    <3> QED
      BY <2>1, <3>1, SlotHolds
  <2>3. CASE t # s
    <3>1. RequestOK(u)
      BY <1>4, <2>1, <2>3 DEF FeedInv
    <3>2. CASE u = NoRequest
      <4>1. RequestOK(u)'
        BY <3>2 DEF RequestOK
      <4> QED
        BY <2>1, <4>1, SlotHolds
    <3>3. CASE u # NoRequest
      <4>1. t \in InFlight
        BY <1>4, <2>1, <2>3, <3>3 DEF InFlight
      <4>2. overlap' # "none"
        BY <1>7, <2>3, <4>1
      <4>3. InStep(u)' => InStep(u) /\ UNCHANGED <<filter, Since(u)>> /\ u.reset
        BY <1>0, <4>2 DEF InStep, Since
      <4>4. RequestOK(u)'
        BY <1>0, <3>1, <4>3, RequestStays
      <4> QED
        BY <2>1, <4>4, SlotHolds
    <3> QED
      BY <3>2, <3>3
  <2> QED
    BY <2>2, <2>3
<1>9. shown' \in Seq(DOMAIN rows) /\ Len(shown') <= FeedKeeps
  <2>1. CASE q.reset
    BY <1>3, <1>6, <2>1
  <2>2. CASE ~q.reset
    <3>1. shown \o InOrder(E) \in Seq(DOMAIN rows)
      <4> HIDE DEF E
      <4> QED BY <1>0, <1>6 DEF FeedTypeOK
    <3> QED
      BY <1>3, <2>2, <3>1, TrimmedType
  <2> QED
    BY <2>1, <2>2
<1>10. FeedTypeOK'
  <2>1. (\A t \in Slots : requests[t].kind \in {"none", "sent", "served"})'
    BY <1>8 DEF RequestOK, SentOK, ServedOK, NoRequest
  <2>2. latest' \in 0..Len(rows) /\ missed' \in SUBSET DOMAIN rows
    BY <1>0, <1>3, <1>5 DEF FeedTypeOK
  <2>3. overlap' \in {"none", "polls", "reset"}
    BY <1>0, <1>3 DEF FeedTypeOK
  <2> QED
    BY <1>0, <1>9, <2>1, <2>2, <2>3 DEF FeedTypeOK
<1> HIDE DEF clean
<1>11. ASSUME overlap' = "none"
       PROVE  shown' = InOrder(Latest(Matching', FeedKeeps))
  <2>1. /\ q.events = {i \in Since(q) + 1 .. q.latest : Matches(filter, i)} \ q.lost
        /\ Since(q) <= q.latest /\ latest' = q.latest
        /\ \A i \in q.lost : i > Since(q)
    BY <1>7, <1>11 DEF Answers
  <2>2. Matching' = {i \in 1..q.latest : Matches(filter, i)} \ missed'
    BY <1>0, <2>1 DEF Matching, Matches, OfClient
  <2>3. CASE q.reset
    <3>1. Matching' = E
      BY <1>3, <2>1, <2>2, <2>3 DEF Since
    <3> QED
      BY <1>3, <1>6, <2>3, <3>1
  <2>4. CASE ~q.reset
    <3>1. overlap = "none" /\ Since(q) = latest /\ missed' = missed \cup q.lost
      BY <1>3, <1>7, <1>11, <2>4 DEF Since
    <3>2. shown = InOrder(Latest(Matching, FeedKeeps))
      BY <3>1 DEF FeedInv, FeedIsTheLog, Matching
    <3>3. E \cap missed = {}
      BY <1>7, <1>11, <2>4 DEF Answers
    <3>4. \A i \in 1..q.latest : i \in 1..latest \/ i \in latest + 1 .. q.latest
      BY <1>0, <1>5
    <3>5. \A i \in 1..latest : i \in 1..q.latest /\ i \notin q.lost
      BY <1>0, <1>5, <2>1, <3>1
    <3>6. \A i \in latest + 1 .. q.latest : i \in 1..q.latest /\ i \notin 1..latest
      BY <1>0, <1>5
    <3>7. E = {i \in latest + 1 .. q.latest : Matches(filter, i)} \ q.lost
      BY <2>1, <3>1
    <3>8. Matching' = Matching \cup E
      <4> HIDE DEF E
      <4> QED BY <2>2, <3>1, <3>3, <3>4, <3>5, <3>6, <3>7 DEF Matching
    <3>9. \A i \in Matching, j \in E : i < j
      <4>1. \A i \in Matching : i \in 1..latest
        BY DEF Matching
      <4>2. \A j \in E : j \in latest + 1 .. q.latest
        BY <3>7
      <4> HIDE DEF E
      <4> QED
        BY <1>0, <1>5, <4>1, <4>2
    <3>10. Matching \in SUBSET Nat /\ IsFiniteSet(Matching)
      <4>1. Matching \in SUBSET (1..latest) /\ 1 \in Int /\ latest \in Int
        BY <1>0 DEF Matching
      <4>2. IsFiniteSet(1..latest)
        BY <4>1, FS_Interval
      <4>3. IsFiniteSet(Matching)
        BY <4>1, <4>2, FS_Subset
      <4>4. Matching \in SUBSET Nat
        BY <4>1
      <4> QED
        BY <4>3, <4>4
    <3> HIDE DEF E
    <3>11. Trimmed(shown \o InOrder(E)) = InOrder(Latest(Matching \cup E, FeedKeeps))
      BY <1>6, <3>2, <3>9, <3>10, JoinedFeed
    <3> QED
      BY <1>3, <2>4, <3>8, <3>11
  <2> QED
    BY <2>3, <2>4
<1>12. FeedIsTheLog'
  BY <1>10, <1>11 DEF FeedIsTheLog, Matching, InOrder, Latest, Rises
<1>13. OneAtATime'
  <2> SUFFICES ASSUME overlap' = "none"
               PROVE  /\ (\A t, u \in InFlight : t = u)'
                      /\ (\A t \in InFlight : ~requests[t].stale /\ (requests[t].reset => latest = 0))'
                      /\ (\A i \in missed : Gone(i))'
    BY DEF OneAtATime
  <2>1. InFlight' = {}
    BY <1>4, <1>7 DEF InFlight
  <2>2. \A i \in q.lost : Gone(i)
    BY <1>7 DEF Answers
  <2>3. ~q.reset => \A i \in missed : Gone(i)
    BY <1>7 DEF FeedInv, OneAtATime
  <2>4. missed' \in SUBSET DOMAIN rows
    BY <1>10, <1>0 DEF FeedTypeOK
  <2>5. \A i \in missed' : Gone(i)
    BY <1>3, <2>2, <2>3
  <2>6. \A i \in missed' : Gone(i)'
    BY <1>0, <2>4, <2>5, GoneStays
  <2> QED
    BY <2>1, <2>6
<1> QED
  BY <1>4, <1>8, <1>12, <1>13 DEF FeedInv

LEMMA StutterKeeps == ASSUME FeedInv, UNCHANGED feedVars PROVE FeedInv'
<1>0. /\ FeedTypeOK /\ rows \in Seq(RowKinds) /\ latest \in 0..Len(rows) /\ Grows
      /\ UNCHANGED <<filter, shown, latest, requests, overlap, missed>>
  BY SameGrows DEF FeedInv, FeedIsTheLog, FeedTypeOK, feedVars
<1>1. (\A t \in Slots : RequestOK(requests[t]))'
  <2> SUFFICES ASSUME NEW t \in Slots PROVE RequestOK(requests[t])'
    OBVIOUS
  <2>1. PICK u : u = requests[t]
    OBVIOUS
  <2>2. RequestOK(u)
    BY <2>1 DEF FeedInv
  <2>3. InStep(u)' => InStep(u) /\ UNCHANGED <<filter, Since(u), missed>>
    BY <1>0 DEF InStep, Since
  <2>4. RequestOK(u)'
    BY <1>0, <2>2, <2>3, RequestStays
  <2> QED
    BY <1>0, <2>1, <2>4, SlotHolds
<1>2. FeedIsTheLog'
  BY <1>0, <1>1, FeedStays DEF FeedTypeOK
<1>3. OneAtATime'
  <2>1. InFlight' = InFlight
    BY <1>0 DEF InFlight
  <2>2. overlap = "none" => \A i \in missed : Gone(i)'
    BY <1>0, GoneStays DEF FeedInv, OneAtATime, FeedTypeOK
  <2> QED
    BY <1>0, <2>1, <2>2 DEF OneAtATime, FeedInv
<1> QED
  BY <1>0, <1>1, <1>2, <1>3 DEF FeedInv

\* The invariant of the feed.
THEOREM FeedInvariant == FeedSpec => []FeedInv
<1>1. FeedInit => FeedInv
  BY FeedStarts
<1>2. FeedInv /\ [FeedNext]_feedVars => FeedInv'
  <2> SUFFICES ASSUME FeedInv, [FeedNext]_feedVars PROVE FeedInv'
    OBVIOUS
  <2>1. CASE FtlAppends
    BY <2>1, AppendKeeps
  <2>2. ASSUME NEW s \in Slots, Poll(s) PROVE FeedInv'
    BY <2>2, PollKeeps
  <2>3. ASSUME NEW s \in Slots, SetFilter(s) PROVE FeedInv'
    BY <2>3, SetFilterKeeps
  <2>4. ASSUME NEW s \in Slots, Serve(s) PROVE FeedInv'
    BY <2>4, ServeKeeps
  <2>5. ASSUME NEW s \in Slots, Receive(s) PROVE FeedInv'
    BY <2>5, ReceiveKeeps
  <2>6. ASSUME NEW s \in Slots, RequestFails(s) PROVE FeedInv'
    BY <2>6, FailKeeps
  <2>7. ASSUME NEW s \in Slots, ServeNothing(s) PROVE FeedInv'
    BY <2>7, ServeNothingKeeps
  <2>8. CASE UNCHANGED feedVars
    BY <2>8, StutterKeeps DEF feedVars
  <2> QED
    BY <2>1, <2>2, <2>3, <2>4, <2>5, <2>6, <2>7, <2>8 DEF FeedNext
<1> QED
  BY <1>1, <1>2, PTL DEF FeedSpec

\* While no request was sent before the answer of another had come, the feed
\* is the log: the last of the rows that match the filter, in order, each once,
\* but those a fetch limit cut off (live_activity and reloadActivity).
THEOREM FeedShowsTheLog == FeedSpec => []FeedIsTheLog
<1>1. FeedInv => FeedIsTheLog
  BY DEF FeedInv
<1> QED
  BY <1>1, FeedInvariant, PTL
=============================================================================
