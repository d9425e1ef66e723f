--------------------------- MODULE IdentityProofs ---------------------------
(***************************************************************************)
(* What TLAPS proves of Identity, for any devices, heuristics, scan results *)
(* and number of restarts: its types, and that a label given by hand stands *)
(* unless a writer still held the row of before.                            *)
(***************************************************************************)
EXTENDS Identity, TLAPS

LEMMA ConstantsTyped ==
  /\ Rank \in [Devices -> Nat]
  /\ \A c, d \in Devices : Rank[c] = Rank[d] => c = d
  /\ "unknown" \in Types /\ None \notin Devices \union HandLabels
  /\ Inferred \in [Devices -> [Hosts \union {NoHost} -> Types]]
  /\ Suggested \in [Devices -> [Hosts \union {NoHost} -> Types]]
  /\ \A label \in HandLabels : label.type \in Types
  /\ Hints \subseteq [type : Types, host : Hosts \union {NoHost}, os : BOOLEAN]
  /\ MaxHosts \in Nat \ {0} /\ UnknownGap \in Nat /\ KnownGap \in Nat
  /\ UnknownGap <= KnownGap
BY IdentityConstants

USE ConstantsTyped, NoRow

Conf == {"manual", "nmap", "high", "medium", "low"}
Names == Hosts \union {NoHost}
Args == [type : Types, host : Names, name : NameOf, conf : Conf]
Held == [at : Devices \union {None}, args : Args \union {None}, row : Row \union {None}]

LanOK(l) == DOMAIN l \subseteq Devices /\ \A d \in DOMAIN l : l[d] \in Names
HintsOK(h) == DOMAIN h \subseteq Devices /\ \A d \in DOMAIN h : h[d] \in Hints

PCs == {"idle", "prune", "list", "readLabel", "writeLabels", "select",
        "scan", "apply", "readRow", "writeRow"}

\* The types in full: those of IdTypeOK, and what is inside a thread's locals.
Typed ==
  /\ LanOK(lan)
  /\ rows \in [Devices -> Row \union {None}]
  /\ hand \in [Devices -> HandLabels \union {None}]
  /\ raced \subseteq Devices
  /\ pc \in [Threads -> PCs]
  /\ present \in [Threads -> SUBSET Devices]
  /\ todo \in [Threads -> SUBSET Devices]
  /\ held \in [Threads -> Held]
  /\ age \in [Devices -> 0 .. KnownGap]

ScansTyped == DOMAIN hints = Threads /\ \A t \in Threads : HintsOK(hints[t])

\* What a thread holds at each step.
HeldWhile ==
  \A t \in Threads :
    /\ held[t].row # None <=> pc[t] \in {"writeLabels", "writeRow"}
    /\ held[t].at # None <=> pc[t] \in {"writeLabels", "readRow", "writeRow"}
    /\ pc[t] \in {"readRow", "writeRow"} => held[t].args \in Args
    /\ pc[t] = "writeRow" => held[t].row.conf # "manual"

-----------------------------------------------------------------------------
(* Rows and labels.                                                         *)

LEMMA NamesTyped ==
  /\ NoName \in NameOf
  /\ \A h \in Names : [by |-> "auto", of |-> h] \in NameOf
  /\ \A h \in Hosts \union {"android", "os"} : [by |-> "nmap", of |-> h] \in NameOf
  /\ \A label \in HandLabels : [by |-> "hand", of |-> label.name] \in NameOf
BY DEF NoName, NameOf, Names

LEMMA SuggestionTyped ==
  ASSUME NEW d \in Devices, NEW h \in Names
  PROVE  /\ Suggestion(d, h).type \in Types
         /\ Suggestion(d, h).name \in NameOf
         /\ Suggestion(d, h).conf \in Conf
<1>1. [by |-> "auto", of |-> IF d = Gateway THEN NoHost ELSE h] \in NameOf
  BY NamesTyped DEF Names
<1>2. Suggested[d][h] \in Types
  BY DEF Names
<1> QED
  BY <1>1, <1>2 DEF Suggestion, Conf

LEMMA AutoLabelTyped ==
  ASSUME NEW d \in Devices, NEW row \in Row
  PROVE  AutoLabel(d, row) \in Row /\ (row.conf = "manual" => AutoLabel(d, row) = row)
<1>1. row.host \in Names /\ row.type \in Types
  BY DEF Row, Names
<1> DEFINE s == Suggestion(d, row.host)
<1>2. s.type \in Types /\ s.name \in NameOf /\ s.conf \in Conf
  BY <1>1, SuggestionTyped
<1>3. AutoLabel(d, row) = IF row.conf = "manual" THEN row
        ELSE [type |-> IF Known(row.type) THEN row.type ELSE s.type,
              host |-> row.host, name |-> s.name, conf |-> s.conf]
  BY DEF AutoLabel
<1> HIDE DEF s
<1> QED
  BY <1>1, <1>2, <1>3 DEF Row, Conf, Names

\* A sync leaves the label of a row labelled by hand, and its known type, alone.
LEMMA UpsertedTyped ==
  ASSUME NEW d \in Devices, NEW h \in Names, rows[d] \in Row \union {None}
  PROVE  /\ Upserted(d, h) \in Row
         /\ rows[d] # None /\ rows[d].conf = "manual" =>
              /\ Upserted(d, h).conf = "manual" /\ Upserted(d, h).name = rows[d].name
              /\ Known(rows[d].type) => Upserted(d, h).type = rows[d].type
<1>1. Inferred[d][h] \in Types
  BY DEF Names
<1>2. CASE rows[d] = None
  <2>1. [type |-> Inferred[d][h], host |-> h, name |-> NoName, conf |-> "medium"] \in Row
    BY <1>1, NamesTyped DEF Row, Names
  <2> QED
    BY <1>2, <2>1, AutoLabelTyped DEF Upserted
<1>3. CASE rows[d] # None
  <2> DEFINE r == [rows[d] EXCEPT !.host = IF h # NoHost THEN h ELSE @,
                                  !.type = IF Known(@) THEN @ ELSE Inferred[d][h]]
  <2>1. /\ r \in Row /\ r.conf = rows[d].conf /\ r.name = rows[d].name
        /\ Known(rows[d].type) => r.type = rows[d].type
    BY <1>1, <1>3 DEF Row, Names
  <2>2. Upserted(d, h) = AutoLabel(d, r)
    BY <1>3 DEF Upserted
  <2> HIDE DEF r
  <2> QED
    BY <2>1, <2>2, AutoLabelTyped
<1> QED
  BY <1>2, <1>3

LEMMA AppliedTyped ==
  ASSUME NEW row \in Row, NEW args \in Args
  PROVE  Applied(row, args) \in Row
BY DEF Applied, Args, Row, Names, Conf

LEMMA WithLabelTyped ==
  ASSUME NEW row \in Row \union {None}, NEW label \in Row
  PROVE  WithLabel(row, label) \in Row \union {None}
BY DEF WithLabel, Row

-----------------------------------------------------------------------------
(* Types.                                                                   *)

LEMMA IdleHolds == Nothing \in Held /\ Nothing.at = None /\ Nothing.row = None
BY DEF Nothing, Held

LEMMA TargetsTyped ==
  ASSUME Typed, NEW t \in Threads
  PROVE  Targets(t) \subseteq Devices
<1>1. present[t] \subseteq Devices
  BY DEF Typed
<1>2. Candidates(t) \subseteq present[t]
  BY DEF Candidates
<1> QED
  BY <1>1, <1>2 DEF Targets, FirstHosts

LEMMA SyncTyped ==
  ASSUME Typed, HeldWhile, NEW t \in Threads, SyncInventory(t) \/ PruneAbsent(t)
  PROVE  Typed' /\ HeldWhile'
<1>1. CASE SyncInventory(t)
  <2>1. \A d \in DOMAIN lan : Upserted(d, lan[d]) \in Row
    BY UpsertedTyped DEF Typed, LanOK
  <2>2. rows' \in [Devices -> Row \union {None}]
    BY <1>1, <2>1 DEF SyncInventory, Typed
  <2>3. present' \in [Threads -> SUBSET Devices]
    BY <1>1 DEF SyncInventory, Typed, LanOK
  <2>4. pc' \in [Threads -> PCs]
    BY <1>1 DEF SyncInventory, Typed, PCs
  <2> QED
    BY <1>1, <2>2, <2>3, <2>4 DEF SyncInventory, Typed, HeldWhile, agentOnly
<1>2. CASE PruneAbsent(t)
  <2>1. rows' \in [Devices -> Row \union {None}] /\ hand' \in [Devices -> HandLabels \union {None}]
    BY <1>2 DEF PruneAbsent, Typed
  <2>2. pc' \in [Threads -> PCs] /\ raced' \subseteq Devices
    BY <1>2 DEF PruneAbsent, Typed, PCs
  <2>3. present' \in [Threads -> SUBSET Devices]
    BY <1>2 DEF PruneAbsent, Typed
  <2>4. HeldWhile'
    BY <1>2 DEF PruneAbsent, Typed, HeldWhile
  <2> QED
    BY <1>2, <2>1, <2>2, <2>3, <2>4 DEF PruneAbsent, Typed, agentOnly
<1> QED
  BY <1>1, <1>2

LEMMA AfterLabelsTyped ==
  ASSUME Typed, NEW t \in Threads, AfterLabels(t)
  PROVE  /\ pc' \in [Threads -> PCs] /\ present' \in [Threads -> SUBSET Devices]
         /\ pc'[t] \in {"select", "idle"} /\ \A u \in Threads \ {t} : pc'[u] = pc[u]
BY DEF AfterLabels, Typed, PCs

LEMMA LabelsTyped ==
  ASSUME Typed, HeldWhile, NEW t \in Threads, ListRows(t) \/ ReadLabel(t) \/ WriteLabels(t)
  PROVE  Typed' /\ HeldWhile'
<1>1. CASE ListRows(t)
  <2>1. Labelled \subseteq Devices
    BY DEF Labelled
  <2>2. pc' \in [Threads -> PCs] /\ present' \in [Threads -> SUBSET Devices]
    BY <1>1, AfterLabelsTyped DEF ListRows, Typed, PCs
  <2>3. todo' \in [Threads -> SUBSET Devices]
    <3>1. UNCHANGED todo \/ todo' = [todo EXCEPT ![t] = Labelled]
      BY <1>1 DEF ListRows
    <3> QED
      BY <2>1, <3>1 DEF Typed
  <2>4. pc'[t] \in {"select", "idle", "readLabel"} /\ \A u \in Threads \ {t} : pc'[u] = pc[u]
    BY <1>1, AfterLabelsTyped DEF ListRows, Typed
  <2> QED
    BY <1>1, <2>2, <2>3, <2>4 DEF ListRows, Typed, HeldWhile, agentOnly
<1>2. CASE ReadLabel(t)
  <2>1. PICK d \in todo[t] : ReadLabel(t)!2!(d)
    BY <1>2 DEF ReadLabel
  <2>2. d \in Devices /\ rows[d] \in Row \union {None}
    BY DEF Typed
  <2>3. todo' \in [Threads -> SUBSET Devices]
    BY <2>1 DEF Typed
  <2>4. CASE rows[d] # None
    <3> DEFINE h == [at |-> d, args |-> None, row |-> rows[d]]
    <3>1. held' = [held EXCEPT ![t] = h] /\ pc' = [pc EXCEPT ![t] = "writeLabels"] /\ present' = present
      BY <2>1, <2>4
    <3>2. h \in Held /\ h.at # None /\ h.row # None
      BY <2>2, <2>4 DEF Held
    <3> HIDE DEF h
    <3>3. held' \in [Threads -> Held] /\ pc' \in [Threads -> PCs]
      BY <3>1, <3>2 DEF Typed, PCs
    <3>4. HeldWhile'
      BY <3>1, <3>2 DEF Typed, HeldWhile
    <3> QED
      BY <1>2, <2>3, <3>1, <3>3, <3>4 DEF ReadLabel, Typed, agentOnly
  <2>5. CASE rows[d] = None
    <3>1. pc' \in [Threads -> PCs] /\ present' \in [Threads -> SUBSET Devices]
      BY <2>1, <2>5, AfterLabelsTyped DEF Typed
    <3>2. pc'[t] \in {"select", "idle", "readLabel"} /\ \A u \in Threads \ {t} : pc'[u] = pc[u]
      BY <1>2, <2>1, <2>5, AfterLabelsTyped DEF ReadLabel, Typed
    <3> QED
      BY <1>2, <2>1, <2>3, <2>5, <3>1, <3>2 DEF ReadLabel, Typed, HeldWhile, agentOnly
  <2> QED
    BY <2>4, <2>5
<1>3. CASE WriteLabels(t)
  <2> DEFINE d == held[t].at
             first == IF held[t].row.conf = "manual" THEN rows[d]
                      ELSE WithLabel(rows[d], AutoLabel(d, held[t].row))
  <2>1. d \in Devices /\ held[t].row \in Row
    BY <1>3 DEF WriteLabels, Typed, HeldWhile, Held
  <2>2. first \in Row \union {None}
    BY <2>1, AutoLabelTyped, WithLabelTyped DEF Typed
  <2>3. \A c \in Devices : rows[c] # None => AutoLabel(c, rows[c]) \in Row
    BY AutoLabelTyped DEF Typed
  <2>4. rows' = [c \in Devices |-> IF c = d THEN first
                                   ELSE IF c \in todo[t] /\ rows[c] # None
                                   THEN AutoLabel(c, rows[c]) ELSE rows[c]]
    BY <1>3 DEF WriteLabels
  <2> HIDE DEF d, first
  <2>5. rows' \in [Devices -> Row \union {None}]
    BY <2>2, <2>3, <2>4 DEF Typed
  <2>6. todo' \in [Threads -> SUBSET Devices] /\ held' \in [Threads -> Held]
    BY <1>3, IdleHolds DEF WriteLabels, Typed
  <2>7. HeldWhile'
    BY <1>3, IdleHolds, AfterLabelsTyped DEF WriteLabels, Typed, HeldWhile
  <2> QED
    BY <1>3, <2>5, <2>6, <2>7, AfterLabelsTyped DEF WriteLabels, Typed, agentOnly
<1> QED
  BY <1>1, <1>2, <1>3

\* A thread's step on its locals that leaves the other threads alone.
LEMMA HeldMoves ==
  ASSUME Typed, HeldWhile, NEW t \in Threads, NEW h \in Held, NEW step \in PCs,
         held' = [held EXCEPT ![t] = h], pc' = [pc EXCEPT ![t] = step],
         h.row # None <=> step \in {"writeLabels", "writeRow"},
         h.at # None <=> step \in {"writeLabels", "readRow", "writeRow"},
         step \in {"readRow", "writeRow"} => h.args \in Args,
         step = "writeRow" => h.row.conf # "manual"
  PROVE  held' \in [Threads -> Held] /\ pc' \in [Threads -> PCs] /\ HeldWhile'
BY DEF Typed, HeldWhile

LEMMA ScanTyped ==
  ASSUME Typed, HeldWhile, NEW t \in Threads, SelectTargets(t) \/ Scanned(t) \/ ScanOver(t)
  PROVE  Typed' /\ HeldWhile'
<1>1. CASE SelectTargets(t)
  <2>1. todo' \in [Threads -> SUBSET Devices]
    BY <1>1, TargetsTyped DEF SelectTargets, Typed
  <2>2. present' \in [Threads -> SUBSET Devices]
    BY <1>1 DEF SelectTargets, Typed
  <2>3. pc' \in [Threads -> PCs] /\ HeldWhile'
    BY <1>1 DEF SelectTargets, Typed, HeldWhile, PCs
  <2> QED
    BY <1>1, <2>1, <2>2, <2>3 DEF SelectTargets, Typed
<1>2. CASE Scanned(t)
  <2>1. age' \in [Devices -> 0 .. KnownGap]
    <3>1. PICK found \in SUBSET todo[t] :
            age' = IF t # "agent" THEN age
                   ELSE [d \in Devices |-> IF d \in Noted(todo[t], found) THEN 0 ELSE age[d]]
      BY <1>2 DEF Scanned
    <3> QED
      BY <3>1 DEF Typed
  <2>2. todo' \in [Threads -> SUBSET Devices]
    BY <1>2 DEF Scanned, Typed
  <2>3. pc' \in [Threads -> PCs] /\ HeldWhile'
    BY <1>2 DEF Scanned, Typed, HeldWhile, PCs
  <2> QED
    BY <1>2, <2>1, <2>2, <2>3 DEF Scanned, Typed
<1>3. CASE ScanOver(t)
  <2>1. pc' \in [Threads -> PCs] /\ HeldWhile'
    BY <1>3 DEF ScanOver, threadVars, Typed, HeldWhile, PCs
  <2> QED
    BY <1>3, <2>1 DEF ScanOver, threadVars, Typed
<1> QED
  BY <1>1, <1>2, <1>3

LEMMA NameForTyped ==
  ASSUME NEW d \in Devices, NEW hint \in Hints, NEW current
  PROVE  NameFor(d, hint, current) \in NameOf
<1>1. hint.host \in Names /\ {"android", "os"} \subseteq {"android", "os"}
  BY DEF Names
<1>2. hint.host # NoHost => [by |-> "nmap", of |-> hint.host] \in NameOf
  BY <1>1, NamesTyped DEF Names
<1>3. /\ [by |-> "nmap", of |-> "android"] \in NameOf /\ [by |-> "nmap", of |-> "os"] \in NameOf
      /\ NoName \in NameOf
  BY NamesTyped
<1> QED
  BY <1>2, <1>3 DEF NameFor

LEMMA LookTyped ==
  ASSUME Typed, HeldWhile, ScansTyped, NEW t \in Threads, Look(t)
  PROVE  Typed' /\ HeldWhile'
<1> USE DEF Look
<1>1. PICK d \in DOMAIN hints[t] : Look(t)!2!(d)
  OBVIOUS
<1> DEFINE hint == hints[t][d]
           args == [type |-> hint.type, host |-> hint.host, name |-> NameFor(d, hint, rows[d].name),
                    conf |-> IF Known(hint.type) THEN "nmap" ELSE rows[d].conf]
           h == [at |-> d, row |-> None, args |-> args]
<1>2. d \in Devices /\ hint \in Hints
  BY DEF ScansTyped, HintsOK
<1>3. CASE UNCHANGED <<held, pc>>
  BY <1>3 DEF Typed, HeldWhile, agentOnly
<1>4. CASE rows[d] # None /\ held' = [held EXCEPT ![t] = h] /\ pc' = [pc EXCEPT ![t] = "readRow"]
  <2>1. rows[d] \in Row
    BY <1>2, <1>4 DEF Typed
  <2>2. args \in Args
    <3>1. NameFor(d, hint, rows[d].name) \in NameOf
      BY <1>2, NameForTyped
    <3>2. hint.type \in Types /\ hint.host \in Names /\ rows[d].conf \in Conf
      BY <1>2, <2>1 DEF Names, Row, Conf
    <3> HIDE DEF hint
    <3> QED
      BY <3>1, <3>2 DEF Args, Conf
  <2> HIDE DEF args
  <2>3. h \in Held /\ h.at # None /\ h.row = None /\ h.args \in Args
    BY <1>2, <2>2 DEF Held
  <2> HIDE DEF h
  <2> QED
    BY <1>4, <2>3, HeldMoves DEF Typed, agentOnly, PCs
<1> QED
  BY <1>1, <1>3, <1>4

LEMMA RowTyped ==
  ASSUME Typed, HeldWhile, NEW t \in Threads, ReadRow(t) \/ WriteRow(t)
  PROVE  Typed' /\ HeldWhile'
<1> DEFINE d == held[t].at
<1>1. held[t] \in Held /\ d \in Devices /\ held[t].args \in Args
  BY DEF ReadRow, WriteRow, Typed, HeldWhile, Held
<1>2. CASE ReadRow(t)
  <2>1. CASE Applies(rows[d], held[t].args)
    <3> DEFINE h == [held[t] EXCEPT !.row = rows[d]]
    <3>1. rows[d] \in Row /\ rows[d].conf # "manual"
      BY <1>1, <2>1 DEF Applies, Typed
    <3>2. h \in Held /\ h.row \in Row /\ h.row.conf # "manual" /\ h.at # None /\ h.args \in Args
      BY <1>1, <3>1 DEF Held
    <3>3. held' = [held EXCEPT ![t] = h] /\ pc' = [pc EXCEPT ![t] = "writeRow"]
      BY <1>2, <2>1 DEF ReadRow
    <3> HIDE DEF h
    <3> QED
      BY <1>2, <3>2, <3>3, HeldMoves DEF ReadRow, Typed, agentOnly, PCs
  <2>2. CASE ~Applies(rows[d], held[t].args)
    <3>1. held' = [held EXCEPT ![t] = Nothing] /\ pc' = [pc EXCEPT ![t] = "apply"]
      BY <1>2, <2>2 DEF ReadRow
    <3> QED
      BY <1>2, <3>1, HeldMoves, IdleHolds DEF ReadRow, Typed, agentOnly, PCs
  <2> QED
    BY <2>1, <2>2
<1>3. CASE WriteRow(t)
  <2>1. held[t].row \in Row
    BY <1>1, <1>3 DEF WriteRow, HeldWhile, Held
  <2>2. Applied(held[t].row, held[t].args) \in Row
    BY <1>1, <2>1, AppliedTyped
  <2>3. rows' \in [Devices -> Row \union {None}]
    BY <1>1, <1>3, <2>2 DEF WriteRow, Typed
  <2> QED
    BY <1>3, <2>3, HeldMoves, IdleHolds DEF WriteRow, Typed, agentOnly, PCs
<1> QED
  BY <1>2, <1>3

LEMMA OthersTyped ==
  ASSUME Typed, HeldWhile, SetIdentity \/ LanChanges \/ Minute \/ AgentStarts
  PROVE  Typed' /\ HeldWhile'
<1>1. CASE SetIdentity
  <2>1. PICK d \in Devices, label \in HandLabels : SetIdentity!(d, label)
    BY <1>1 DEF SetIdentity
  <2> DEFINE row == [type |-> label.type, name |-> [by |-> "hand", of |-> label.name], conf |-> "manual",
                     host |-> IF rows[d] = None THEN NoHost ELSE rows[d].host]
  <2>2. rows[d] # None => rows[d].host \in Names
    BY DEF Typed, Row, Names
  <2>3. row \in Row
    BY <2>2, NamesTyped DEF Row, Names
  <2>4. rows' = [rows EXCEPT ![d] = row] /\ hand' = [hand EXCEPT ![d] = label] /\ raced' \subseteq Devices
    BY <2>1 DEF Typed
  <2>5. UNCHANGED <<lan, pc, present, todo, held, age>>
    BY <2>1 DEF threadVars, agentOnly
  <2> HIDE DEF row
  <2> QED
    BY <2>3, <2>4, <2>5 DEF Typed, HeldWhile
<1>2. CASE LanChanges
  <2>1. LanOK(lan')
    BY <1>2 DEF LanChanges, LanOK, Names
  <2> QED
    BY <1>2, <2>1 DEF LanChanges, threadVars, agentOnly, Typed, HeldWhile
<1>3. CASE Minute
  <2>1. age' \in [Devices -> 0 .. KnownGap]
    BY <1>3 DEF Minute, Typed
  <2> QED
    BY <1>3, <2>1 DEF Minute, threadVars, Typed, HeldWhile
<1>4. CASE AgentStarts
  <2>1. "agent" \in Threads
    BY DEF Threads
  <2>2. held' \in [Threads -> Held] /\ pc' \in [Threads -> PCs] /\ HeldWhile'
    BY <1>4, <2>1, HeldMoves, IdleHolds DEF AgentStarts, PCs
  <2>3. present' \in [Threads -> SUBSET Devices] /\ todo' \in [Threads -> SUBSET Devices]
    BY <1>4, <2>1 DEF AgentStarts, Typed
  <2>4. age' \in [Devices -> 0 .. KnownGap]
    BY <1>4 DEF AgentStarts
  <2> QED
    BY <1>4, <2>2, <2>3, <2>4 DEF AgentStarts, Typed
<1> QED
  BY <1>1, <1>2, <1>3, <1>4

LEMMA ScansStep ==
  ASSUME Typed, ScansTyped, [IdNext]_idVars
  PROVE  ScansTyped'
<1>1. ASSUME NEW t \in Threads, Scanned(t) PROVE ScansTyped'
  <2>1. PICK found \in SUBSET todo[t] : \E answer \in [found -> Hints] :
          hints' = [hints EXCEPT ![t] = answer]
    BY <1>1 DEF Scanned
  <2>2. PICK answer \in [found -> Hints] : hints' = [hints EXCEPT ![t] = answer]
    BY <2>1
  <2>3. HintsOK(answer)
    BY DEF HintsOK, Typed
  <2> QED
    BY <2>2, <2>3 DEF ScansTyped
<1>2. ASSUME NEW t \in Threads, Look(t) PROVE ScansTyped'
  <2>1. PICK d \in DOMAIN hints[t] :
          hints' = [hints EXCEPT ![t] = [c \in DOMAIN hints[t] \ {d} |-> hints[t][c]]]
    BY <1>2 DEF Look, ScansTyped
  <2>2. HintsOK([c \in DOMAIN hints[t] \ {d} |-> hints[t][c]])
    BY DEF ScansTyped, HintsOK
  <2> QED
    BY <2>1, <2>2 DEF ScansTyped
<1>3. CASE AgentStarts
  <2>1. HintsOK(<<>>)
    BY DEF HintsOK
  <2> QED
    BY <1>3, <2>1 DEF AgentStarts, ScansTyped
<1>4. CASE UNCHANGED hints
  BY <1>4 DEF ScansTyped
<1> QED
  BY <1>1, <1>2, <1>3, <1>4
  DEF IdNext, Work, SyncInventory, PruneAbsent, ListRows, ReadLabel, WriteLabels, SelectTargets,
      ReadRow, WriteRow, ScanOver, SetIdentity, LanChanges, Minute, threadVars, idVars

TypesOK == Typed /\ HeldWhile /\ ScansTyped

LEMMA StepTyped == ASSUME TypesOK, [IdNext]_idVars PROVE TypesOK'
<1>1. CASE UNCHANGED idVars
  BY <1>1, ScansStep DEF TypesOK, idVars, Typed, HeldWhile
<1> QED
  BY <1>1, SyncTyped, LabelsTyped, ScanTyped, LookTyped, RowTyped, OthersTyped, ScansStep
  DEF TypesOK, IdNext, Work

LEMMA TypesHold == IdSpec => []TypesOK
<1>1. ASSUME IdInit PROVE TypesOK
  <2>1. LanOK(<<>>) /\ HintsOK(<<>>)
    BY DEF LanOK, HintsOK
  <2>2. KnownGap \in 0 .. KnownGap
    OBVIOUS
  <2>3. HeldWhile
    BY <1>1, IdleHolds DEF IdInit, HeldWhile
  <2> QED
    BY <1>1, <2>1, <2>2, <2>3, IdleHolds DEF IdInit, TypesOK, Typed, ScansTyped, PCs
<1> QED
  BY <1>1, StepTyped, PTL DEF IdSpec

(* Every variable keeps its type; a thread holds a row only between its     *)
(* SELECT and its UPDATE, and never one labelled by hand when it is about   *)
(* to write what a scan found.                                              *)
THEOREM TypeCorrect == IdSpec => []IdTypeOK
<1>1. TypesOK => IdTypeOK
  BY DEF TypesOK, Typed, HeldWhile, ScansTyped, LanOK, HintsOK, PCs, IdTypeOK
<1> QED
  BY <1>1, TypesHold, PTL

-----------------------------------------------------------------------------
(* Labels given by hand.  A thread that read such a row knows that it is    *)
(* manual; one that had read another row made the address a raced one.      *)

Standing(d) == hand[d] # None /\ d \notin raced

LabelIn(row, label) ==
  /\ row # None /\ row.conf = "manual"
  /\ row.name = [by |-> "hand", of |-> label.name]
  /\ Known(label.type) => row.type = label.type

Labels == \A d \in Devices : Standing(d) => LabelIn(rows[d], hand[d])

NobodyHolds ==
  \A d \in Devices, t \in Threads :
    Standing(d) /\ held[t].at = d =>
      /\ pc[t] # "writeRow"
      /\ pc[t] = "writeLabels" => held[t].row.conf = "manual"

LEMMA SyncKeeps ==
  ASSUME TypesOK, Labels, NobodyHolds, NEW t \in Threads, SyncInventory(t) \/ PruneAbsent(t)
  PROVE  Labels' /\ NobodyHolds'
<1> USE DEF TypesOK
<1>1. CASE SyncInventory(t)
  <2>1. ASSUME NEW d \in Devices, Standing(d), d \in DOMAIN lan
        PROVE  LabelIn(Upserted(d, lan[d]), hand[d])
    <3>1. Upserted(d, lan[d]) # None
      BY <2>1, UpsertedTyped DEF Typed, LanOK
    <3> QED
      BY <2>1, <3>1, UpsertedTyped DEF Labels, LabelIn, Typed, LanOK, Known
  <2>2. \A d \in Devices : rows'[d] = IF d \in DOMAIN lan THEN Upserted(d, lan[d]) ELSE rows[d]
    BY <1>1 DEF SyncInventory
  <2>3. UNCHANGED <<hand, raced, held>> /\ pc' = [pc EXCEPT ![t] = "prune"]
    BY <1>1 DEF SyncInventory
  <2>4. Labels'
    BY <2>1, <2>2, <2>3 DEF Labels, Standing
  <2> QED
    BY <2>3, <2>4 DEF NobodyHolds, Standing, Typed
<1>2. CASE PruneAbsent(t)
  <2> DEFINE gone == Devices \ (present[t] \union Enrolled)
  <2>1. /\ rows' = [d \in Devices |-> IF d \in gone THEN None ELSE rows[d]]
        /\ hand' = [d \in Devices |-> IF d \in gone THEN None ELSE hand[d]]
        /\ raced' = raced \ gone /\ held' = held
    BY <1>2 DEF PruneAbsent
  <2>2. pc'[t] \in {"list", "select", "idle"} /\ \A u \in Threads \ {t} : pc'[u] = pc[u]
    BY <1>2 DEF PruneAbsent, Typed
  <2> HIDE DEF gone
  <2>3. \A d \in Devices : hand'[d] # None /\ d \notin raced' => d \notin gone /\ Standing(d)
    BY <2>1 DEF Standing
  <2>4. Labels'
    BY <2>1, <2>3 DEF Labels, Standing
  <2> QED
    BY <2>1, <2>2, <2>3, <2>4 DEF NobodyHolds, Standing
<1> QED
  BY <1>1, <1>2

\* A step that writes no row and no label, and after which the thread holds
\* nothing, or what is not about to be written.
LEMMA LocalsKeep ==
  ASSUME TypesOK, Labels, NobodyHolds, NEW t \in Threads,
         UNCHANGED <<rows, hand, raced>>,
         \A u \in Threads \ {t} : pc'[u] = pc[u] /\ held'[u] = held[u],
         pc'[t] \notin {"writeLabels", "writeRow"}
  PROVE  Labels' /\ NobodyHolds'
BY DEF Labels, NobodyHolds, Standing

LEMMA LabelsKeep ==
  ASSUME TypesOK, Labels, NobodyHolds, NEW t \in Threads,
         ListRows(t) \/ ReadLabel(t) \/ WriteLabels(t)
  PROVE  Labels' /\ NobodyHolds'
<1> USE DEF TypesOK
<1>1. CASE ListRows(t)
  <2>1. pc'[t] \in {"select", "idle", "readLabel"} /\ \A u \in Threads \ {t} : pc'[u] = pc[u]
    BY <1>1, AfterLabelsTyped DEF ListRows, Typed
  <2> QED
    BY <1>1, <2>1, LocalsKeep DEF ListRows
<1>2. CASE ReadLabel(t)
  <2>1. PICK d \in todo[t] : ReadLabel(t)!2!(d)
    BY <1>2 DEF ReadLabel
  <2>2. d \in Devices /\ UNCHANGED <<rows, hand, raced>>
    BY <1>2 DEF ReadLabel, Typed
  <2>3. CASE rows[d] # None
    <3> DEFINE h == [at |-> d, args |-> None, row |-> rows[d]]
    <3>1. held' = [held EXCEPT ![t] = h] /\ pc' = [pc EXCEPT ![t] = "writeLabels"]
      BY <2>1, <2>3
    <3>2. h.at = d /\ h.row = rows[d]
      OBVIOUS
    <3> HIDE DEF h
    <3>3. Standing(d) => h.row.conf = "manual"
      BY <2>2, <3>2 DEF Labels, LabelIn
    <3>4. NobodyHolds'
      BY <2>2, <3>1, <3>2, <3>3 DEF NobodyHolds, Standing, Typed
    <3> QED
      BY <2>2, <3>4 DEF Labels, Standing
  <2>4. CASE rows[d] = None
    <3>1. pc'[t] \in {"select", "idle", "readLabel"} /\ \A u \in Threads \ {t} : pc'[u] = pc[u]
      BY <1>2, <2>1, <2>4, AfterLabelsTyped DEF ReadLabel, Typed
    <3>2. held' = held
      BY <2>1, <2>4
    <3> QED
      BY <2>2, <3>1, <3>2, LocalsKeep
  <2> QED
    BY <2>3, <2>4
<1>3. CASE WriteLabels(t)
  <2> DEFINE d == held[t].at
             first == IF held[t].row.conf = "manual" THEN rows[d]
                      ELSE WithLabel(rows[d], AutoLabel(d, held[t].row))
  <2>1. rows' = [c \in Devices |-> IF c = d THEN first
                                   ELSE IF c \in todo[t] /\ rows[c] # None
                                   THEN AutoLabel(c, rows[c]) ELSE rows[c]]
    BY <1>3 DEF WriteLabels
  <2>2. pc[t] = "writeLabels" /\ UNCHANGED <<hand, raced>>
    BY <1>3 DEF WriteLabels
  <2>3. \A c \in Devices : Standing(c) /\ c = d => first = rows[c]
    BY <2>2 DEF NobodyHolds
  <2> HIDE DEF d, first
  <2>4. ASSUME NEW c \in Devices, Standing(c) PROVE rows'[c] = rows[c]
    <3>1. rows[c] # None /\ rows[c].conf = "manual"
      BY <2>4 DEF Labels, LabelIn
    <3>2. rows[c] \in Row
      BY <3>1 DEF Typed
    <3>3. AutoLabel(c, rows[c]) = rows[c]
      BY <3>1, <3>2, AutoLabelTyped
    <3> QED
      BY <2>1, <2>3, <2>4, <3>3
  <2>5. Labels'
    BY <2>2, <2>4 DEF Labels, Standing
  <2>6. /\ pc'[t] \in {"select", "idle"}
        /\ \A u \in Threads \ {t} : pc'[u] = pc[u] /\ held'[u] = held[u]
    BY <1>3, AfterLabelsTyped DEF WriteLabels, Typed
  <2> QED
    BY <2>2, <2>5, <2>6 DEF NobodyHolds, Standing
<1> QED
  BY <1>1, <1>2, <1>3

LEMMA ScanKeeps ==
  ASSUME TypesOK, Labels, NobodyHolds, NEW t \in Threads,
         SelectTargets(t) \/ Scanned(t) \/ ScanOver(t) \/ Look(t)
  PROVE  Labels' /\ NobodyHolds'
<1>1. UNCHANGED <<rows, hand, raced>>
  BY DEF SelectTargets, Scanned, ScanOver, Look
<1>2. ASSUME SelectTargets(t) \/ Scanned(t) \/ ScanOver(t)
      PROVE  /\ pc'[t] \in {"idle", "scan", "apply"}
             /\ \A u \in Threads \ {t} : pc'[u] = pc[u] /\ held'[u] = held[u]
  BY <1>2 DEF SelectTargets, Scanned, ScanOver, threadVars, TypesOK, Typed
<1>3. ASSUME Look(t)
      PROVE  /\ pc'[t] \in {"apply", "readRow"}
             /\ \A u \in Threads \ {t} : pc'[u] = pc[u] /\ held'[u] = held[u]
  <2>1. PICK d \in DOMAIN hints[t] : Look(t)!2!(d)
    BY <1>3 DEF Look
  <2>2. UNCHANGED <<held, pc>> \/ \E h : held' = [held EXCEPT ![t] = h] /\ pc' = [pc EXCEPT ![t] = "readRow"]
    BY <2>1
  <2>3. pc[t] = "apply"
    BY <1>3 DEF Look
  <2> QED
    BY <2>2, <2>3 DEF TypesOK, Typed
<1> QED
  BY <1>1, <1>2, <1>3, LocalsKeep

LEMMA RowKeeps ==
  ASSUME TypesOK, Labels, NobodyHolds, NEW t \in Threads, ReadRow(t) \/ WriteRow(t)
  PROVE  Labels' /\ NobodyHolds'
<1> USE DEF TypesOK
<1> DEFINE d == held[t].at
<1>1. held[t] \in Held /\ d \in Devices
  BY DEF ReadRow, WriteRow, Typed, HeldWhile, Held
<1>2. CASE ReadRow(t) /\ Applies(rows[d], held[t].args)
  <2>1. ~Standing(d)
    BY <1>1, <1>2 DEF Applies, Labels, LabelIn
  <2> DEFINE h == [held[t] EXCEPT !.row = rows[d]]
  <2>2. h.at = d
    BY <1>1 DEF Held
  <2>3. /\ held' = [held EXCEPT ![t] = h] /\ pc' = [pc EXCEPT ![t] = "writeRow"]
        /\ UNCHANGED <<rows, hand, raced>>
    BY <1>2 DEF ReadRow
  <2> HIDE DEF h
  <2>4. NobodyHolds'
    BY <2>1, <2>2, <2>3 DEF NobodyHolds, Standing, Typed
  <2> QED
    BY <2>3, <2>4 DEF Labels, Standing
<1>3. CASE ReadRow(t) /\ ~Applies(rows[d], held[t].args)
  <2>1. /\ held' = [held EXCEPT ![t] = Nothing] /\ pc' = [pc EXCEPT ![t] = "apply"]
        /\ UNCHANGED <<rows, hand, raced>>
    BY <1>3 DEF ReadRow
  <2> QED
    BY <2>1, LocalsKeep DEF Typed
<1>4. CASE WriteRow(t)
  <2>1. ~Standing(d)
    BY <1>1, <1>4 DEF WriteRow, NobodyHolds
  <2>2. /\ held' = [held EXCEPT ![t] = Nothing] /\ pc' = [pc EXCEPT ![t] = "apply"]
        /\ UNCHANGED <<hand, raced>>
    BY <1>4 DEF WriteRow
  <2>3. \A c \in Devices \ {d} : rows'[c] = rows[c]
    BY <1>4 DEF WriteRow, Typed
  <2>4. Labels'
    BY <2>1, <2>2, <2>3 DEF Labels, Standing
  <2> QED
    BY <2>2, <2>4 DEF NobodyHolds, Standing, Typed
<1> QED
  BY <1>2, <1>3, <1>4

LEMMA OthersKeep ==
  ASSUME TypesOK, Labels, NobodyHolds, SetIdentity \/ LanChanges \/ Minute \/ AgentStarts
  PROVE  Labels' /\ NobodyHolds'
<1> USE DEF TypesOK
<1>1. CASE SetIdentity
  <2>1. PICK d \in Devices, label \in HandLabels : SetIdentity!(d, label)
    BY <1>1 DEF SetIdentity
  <2> DEFINE row == [type |-> label.type, name |-> [by |-> "hand", of |-> label.name], conf |-> "manual",
                     host |-> IF rows[d] = None THEN NoHost ELSE rows[d].host]
  <2>2. rows' = [rows EXCEPT ![d] = row] /\ hand' = [hand EXCEPT ![d] = label] /\ held' = held /\ pc' = pc
    BY <2>1 DEF threadVars
  <2>3. raced' = IF Holding(d) = {} THEN raced \ {d} ELSE raced \union {d}
    BY <2>1
  <2>4. row \in Row
    <3>1. rows[d] # None => rows[d].host \in Names
      BY DEF Typed, Row, Names
    <3> QED
      BY <3>1, NamesTyped DEF Row, Names
  <2>5. row # None /\ LabelIn(row, label)
    <3>1. row # None
      BY <2>4
    <3> QED
      BY <3>1 DEF LabelIn
  <2> HIDE DEF row
  <2>6. \A c \in Devices \ {d} : Standing(c)' => Standing(c) /\ rows'[c] = rows[c] /\ hand'[c] = hand[c]
    BY <2>2, <2>3 DEF Standing, Typed
  <2>7. rows'[d] = row /\ hand'[d] = label
    BY <2>2 DEF Typed
  <2>8. Labels'
    BY <2>5, <2>6, <2>7 DEF Labels, Standing
  <2>9. d \notin raced' => \A t \in Threads : held[t].at = d => pc[t] \notin {"writeLabels", "writeRow"}
    BY <2>3 DEF Holding
  <2> QED
    BY <2>2, <2>6, <2>8, <2>9 DEF NobodyHolds, Standing
<1>2. CASE LanChanges \/ Minute
  BY <1>2 DEF LanChanges, Minute, threadVars, Labels, NobodyHolds, Standing
<1>3. CASE AgentStarts
  <2>1. "agent" \in Threads
    BY DEF Threads
  <2>2. /\ pc'["agent"] = "idle" /\ UNCHANGED <<rows, hand, raced>>
        /\ \A u \in Threads \ {"agent"} : pc'[u] = pc[u] /\ held'[u] = held[u]
    BY <1>3, <2>1 DEF AgentStarts, Typed
  <2> QED
    BY <2>1, <2>2, LocalsKeep
<1> QED
  BY <1>1, <1>2, <1>3

(* What the administrator says of a device stands while its row is there:   *)
(* no inventory pass, no relabel and no scan replaces a label given by hand *)
(* (_auto_label_device, apply_nmap_identities, apply_discovered_identity),  *)
(* except a writer that held the row read before it was given.              *)
THEOREM LabelsStand == IdSpec => []HandLabelsStand
<1>1. IdInit => Labels /\ NobodyHolds
  BY DEF IdInit, Labels, NobodyHolds, Standing
<1>2. TypesOK /\ Labels /\ NobodyHolds /\ [IdNext]_idVars => (Labels /\ NobodyHolds)'
  <2> SUFFICES ASSUME TypesOK, Labels, NobodyHolds, [IdNext]_idVars PROVE Labels' /\ NobodyHolds'
    OBVIOUS
  <2>1. CASE UNCHANGED idVars
    BY <2>1 DEF idVars, Labels, NobodyHolds, Standing
  <2> QED
    BY <2>1, SyncKeeps, LabelsKeep, ScanKeeps, RowKeeps, OthersKeep DEF IdNext, Work
<1>3. Labels => HandLabelsStand
  BY DEF Labels, HandLabelsStand, Standing, LabelIn
<1> QED
  BY <1>1, <1>2, <1>3, TypesHold, PTL DEF IdSpec

-----------------------------------------------------------------------------
(* Known types.                                                             *)

Retyped(d) ==
  /\ rows[d] # None /\ rows'[d] # None
  /\ Known(rows[d].type) /\ rows'[d].type # rows[d].type

ByHand(d) == hand'[d] # None /\ rows'[d].name = [by |-> "hand", of |-> hand'[d].name]

ByScan(d) == \E t \in Threads : pc[t] = "writeRow" /\ held[t].at = d /\ Known(held[t].args.type)

ByOldRow(d) == \E t \in Threads : t \in Holding(d) /\ held[t].row # rows[d]

\* Labelling and observing keep a known type.
LEMMA KnownKept ==
  ASSUME NEW d \in Devices, NEW h \in Names, rows[d] \in Row, Known(rows[d].type)
  PROVE  /\ Upserted(d, h).type = rows[d].type
         /\ AutoLabel(d, rows[d]).type = rows[d].type
<1>1. \A row \in Row : Known(row.type) => AutoLabel(d, row).type = row.type
  BY DEF AutoLabel
<1>2. rows[d] # None
  OBVIOUS
<1> DEFINE r == [rows[d] EXCEPT !.host = IF h # NoHost THEN h ELSE @,
                                !.type = IF Known(@) THEN @ ELSE Inferred[d][h]]
<1>3. r \in Row /\ r.type = rows[d].type
  BY DEF Row, Names
<1>4. Upserted(d, h) = AutoLabel(d, r)
  BY <1>2 DEF Upserted
<1> HIDE DEF r
<1> QED
  BY <1>1, <1>3, <1>4

LEMMA RetypeStep ==
  ASSUME TypesOK, IdNext, NEW d \in Devices, Retyped(d)
  PROVE  ByHand(d) \/ ByScan(d) \/ ByOldRow(d)
<1> USE DEF TypesOK
<1>1. rows[d] \in Row /\ Known(rows[d].type) /\ rows'[d] # rows[d] /\ rows'[d].type # rows[d].type
  BY DEF Retyped, Typed
<1>2. ASSUME NEW t \in Threads, SyncInventory(t) PROVE FALSE
  <2>1. rows'[d] = IF d \in DOMAIN lan THEN Upserted(d, lan[d]) ELSE rows[d]
    BY <1>2 DEF SyncInventory
  <2>2. d \in DOMAIN lan => lan[d] \in Names
    BY DEF Typed, LanOK
  <2> QED
    BY <1>1, <2>1, <2>2, KnownKept
<1>3. ASSUME NEW t \in Threads, PruneAbsent(t) PROVE FALSE
  BY <1>1, <1>3 DEF PruneAbsent, Retyped
<1>4. ASSUME NEW t \in Threads, WriteLabels(t) PROVE ByOldRow(d)
  <2> DEFINE first == IF held[t].row.conf = "manual" THEN rows[held[t].at]
                      ELSE WithLabel(rows[held[t].at], AutoLabel(held[t].at, held[t].row))
  <2>1. rows'[d] = IF d = held[t].at THEN first
                   ELSE IF d \in todo[t] /\ rows[d] # None THEN AutoLabel(d, rows[d]) ELSE rows[d]
    BY <1>4 DEF WriteLabels
  <2>2. AutoLabel(d, rows[d]).type = rows[d].type
    <3>1. NoHost \in Names
      BY DEF Names
    <3> QED
      BY <1>1, <3>1, KnownKept
  <2>3. d = held[t].at
    BY <1>1, <2>1, <2>2
  <2>4. held[t].row = rows[d] => first.type = rows[d].type
    <3>1. AutoLabel(d, rows[d]) \in Row
      BY <1>1, AutoLabelTyped
    <3> QED
      BY <1>1, <2>2, <2>3, <3>1 DEF WithLabel, Row
  <2> HIDE DEF first
  <2>5. held[t].row # rows[d]
    BY <1>1, <2>1, <2>3, <2>4
  <2> QED
    BY <1>4, <2>3, <2>5 DEF WriteLabels, ByOldRow, Holding
<1>5. ASSUME NEW t \in Threads, WriteRow(t) PROVE ByScan(d) \/ ByOldRow(d)
  <2>1. held[t].at = d /\ pc[t] = "writeRow"
    BY <1>1, <1>5 DEF WriteRow, Typed
  <2>2. CASE held[t].row # rows[d]
    BY <2>1, <2>2 DEF ByOldRow, Holding
  <2>3. CASE held[t].row = rows[d]
    <3>1. rows'[d] = Applied(rows[d], held[t].args)
      BY <1>1, <1>5, <2>1, <2>3 DEF WriteRow, Typed
    <3>2. Applied(rows[d], held[t].args).type =
            IF Known(held[t].args.type) /\ (~Known(rows[d].type) \/ held[t].args.conf = "nmap")
            THEN held[t].args.type ELSE rows[d].type
      BY DEF Applied
    <3>3. Known(held[t].args.type)
      BY <1>1, <3>1, <3>2
    <3> QED
      BY <2>1, <3>3 DEF ByScan
  <2> QED
    BY <2>2, <2>3
<1>6. ASSUME SetIdentity PROVE ByHand(d)
  <2>1. PICK c \in Devices, label \in HandLabels : SetIdentity!(c, label)
    BY <1>6 DEF SetIdentity
  <2> DEFINE row == [type |-> label.type, name |-> [by |-> "hand", of |-> label.name], conf |-> "manual",
                     host |-> IF rows[c] = None THEN NoHost ELSE rows[c].host]
  <2>2. rows' = [rows EXCEPT ![c] = row] /\ hand' = [hand EXCEPT ![c] = label]
    BY <2>1
  <2>3. row.name = [by |-> "hand", of |-> label.name]
    OBVIOUS
  <2> HIDE DEF row
  <2>4. c = d
    BY <1>1, <2>2 DEF Typed
  <2>5. rows'[d] = row /\ hand'[d] = label /\ label # None
    BY <2>2, <2>4 DEF Typed
  <2> QED
    BY <2>3, <2>5 DEF ByHand
<1>7. rows' # rows
  BY <1>1
<1> QED
  BY <1>2, <1>3, <1>4, <1>5, <1>6, <1>7
  DEF IdNext, Work, ListRows, ReadLabel, SelectTargets, Scanned, Look, ReadRow, ScanOver,
      LanChanges, Minute, AgentStarts

(* A known type is replaced only by hand, by a scan that knows one, or by a *)
(* writer whose row is an old one (_auto_label_device, upsert_device,       *)
(* apply_discovered_identity), for any heuristics and scan results.         *)
THEOREM KnownStay == IdSpec => KnownTypesStay
<1>1. ASSUME TypesOK, [IdNext]_idVars, NEW d \in Devices, Retyped(d)
      PROVE  ByHand(d) \/ ByScan(d) \/ ByOldRow(d)
  <2>1. CASE UNCHANGED idVars
    BY <1>1, <2>1 DEF idVars, Retyped
  <2> QED
    BY <1>1, <2>1, RetypeStep
<1>2. TypesOK /\ [IdNext]_idVars =>
        [\A d \in Devices :
           Retyped(d) => ByHand(d) \/ ByScan(d) \/ ByOldRow(d)]_idVars
  BY <1>1
<1>3. TypesOK /\ [IdNext]_idVars =>
        [\A d \in Devices :
           /\ rows[d] # None /\ rows'[d] # None
           /\ Known(rows[d].type) /\ rows'[d].type # rows[d].type
           => \/ hand'[d] # None /\ rows'[d].name = [by |-> "hand", of |-> hand'[d].name]
              \/ \E t \in Threads : /\ pc[t] = "writeRow" /\ held[t].at = d
                                    /\ Known(held[t].args.type)
              \/ \E t \in Threads : t \in Holding(d) /\ held[t].row # rows[d]
        ]_idVars
  BY <1>2 DEF Retyped, ByHand, ByScan, ByOldRow
<1> QED
  BY <1>3, TypesHold, PTL DEF IdSpec, KnownTypesStay
=============================================================================
