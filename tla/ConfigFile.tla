----------------------------- MODULE ConfigFile -----------------------------
(***************************************************************************)
(* Who writes config.toml: the target, flags and emergency helpers, which   *)
(* dashboard and agent start without regard to each other, and the          *)
(* operator.  Each helper reads the file, opens the one config.toml.tmp,    *)
(* writes its text and renames it: two at once share the inode, so the      *)
(* model has inodes.  What load_settings makes of the file is LoadOutcome.  *)
(*                                                                          *)
(* A text is the settings it spells, and the tail of a longer text it was   *)
(* written over.  Of the settings only targets and unmanaged addresses are  *)
(* kept apart.  Longer lists of targets are longer texts.  Texts that only  *)
(* differ in flags count as equally long, though "false" is a byte longer   *)
(* than "true": where one flag differs a line feed is left, where both do,  *)
(* the end of the last line with it.  Only helpers that share the temporary *)
(* file leave either, and of their files ConfigIsSound claims nothing       *)
(* (excused).  An emergency stop does to the file what an empty list of     *)
(* targets does.                                                            *)
(***************************************************************************)
EXTENDS Integers, FiniteSets

CONSTANTS
  Hosts,      \* addresses a list of targets may name
  OffLimits,  \* of these, outside lan_cidr or the gateway
  Runs,       \* helper runs at a time
  MaxTail,    \* bound of the model: longer tails count as this long
  MaxEdits    \* bound of the model: helpers and editors started

ASSUME ConfigConstants ==
  /\ IsFiniteSet(Hosts) /\ OffLimits \subseteq Hosts
  /\ IsFiniteSet(Runs)
  /\ MaxTail \in Nat \ {0}

VARIABLES
  inodes,   \* their contents
  config,   \* the inode of config.toml
  tmp,      \* that of config.toml.tmp, or NoInode
  runs,     \* the helpers under way
  edits,    \* helpers and editors started so far
  excused   \* history: what was renamed last may be unsound, see Taints

configVars == <<inodes, config, tmp, runs, edits, excused>>

Inodes == 0..(Cardinality(Runs) + 2)
NoInode == -1

Settings == [targets : SUBSET Hosts, unmanaged : SUBSET (Hosts \ OffLimits)]
DefaultSettings == [targets |-> {}, unmanaged |-> {}]
Empty == [kind |-> "empty"]
Text(s, tail) ==
  [kind |-> "text", settings |-> s, tail |-> IF tail < MaxTail THEN tail ELSE MaxTail]

NotRunning == [step |-> "none"]

ConfigInit ==
  /\ inodes = [i \in Inodes |-> IF i = 0 THEN Text(DefaultSettings, 0) ELSE Empty]
  /\ config = 0 /\ tmp = NoInode
  /\ runs = [h \in Runs |-> NotRunning]
  /\ edits = 0 /\ excused = FALSE

-----------------------------------------------------------------------------
(* load_settings.                                                           *)

Accepted(s) == s.targets \intersect (OffLimits \union s.unmanaged) = {}

(* The settings loaded, or <<>> for an error.  An empty file sets nothing,  *)
(* so everything has its default.  What a tail spells depends on where it   *)
(* is cut off: a key that nobody reads, or something that tomllib refuses.  *)
LoadOutcome(c) ==
  IF c.kind = "empty" THEN {<<DefaultSettings>>}
  ELSE (IF Accepted(c.settings) THEN {<<c.settings>>} ELSE {}) \union
       (IF c.tail > 0 \/ ~Accepted(c.settings) THEN {<<>>} ELSE {})

Sound(c) == c.kind = "text" /\ LoadOutcome(c) = {<<c.settings>>}

-----------------------------------------------------------------------------
(* The helpers.                                                             *)

HelperAt(h, step) == runs[h].step = step
Starts == edits < MaxEdits /\ edits' = edits + 1
Leaves(h) == runs' = [runs EXCEPT ![h] = NotRunning]

Writers == {h \in Runs : runs[h].step \in {"write", "rename"}}

StartTargets(h) ==
  /\ HelperAt(h, "none") /\ Starts
  /\ \E list \in SUBSET Hosts :
       runs' = [runs EXCEPT ![h] =
         [step |-> "check", targets |-> list, taint |-> FALSE]]
  /\ UNCHANGED <<inodes, config, tmp, excused>>

StartFlags(h) ==
  /\ HelperAt(h, "none") /\ Starts
  /\ runs' = [runs EXCEPT ![h] = [step |-> "edit", taint |-> FALSE]]
  /\ UNCHANGED <<inodes, config, tmp, excused>>

(* unmanaged_ips by what a reader finds; an empty file lists none.          *)
Unmanaged(c) == IF c.kind = "empty" THEN {} ELSE c.settings.unmanaged

(* What the target helper refuses of a list, by the file as it reads it     *)
(* first.                                                                   *)
Refusal(c) == OffLimits \union Unmanaged(c)

(* One address refused, or a tail that tomllib refuses, ends the helper.    *)
CheckTargets(h) ==
  /\ HelperAt(h, "check")
  /\ \/ /\ runs[h].targets \intersect Refusal(inodes[config]) = {}
        /\ runs' = [runs EXCEPT ![h] =
             [step |-> "edit", targets |-> runs[h].targets,
              unmanaged |-> Unmanaged(inodes[config]), taint |-> ~Sound(inodes[config])]]
     \/ /\ \/ runs[h].targets \intersect Refusal(inodes[config]) # {}
           \/ inodes[config].kind = "text" /\ inodes[config].tail > 0
        /\ Leaves(h)
  /\ UNCHANGED <<inodes, config, tmp, edits, excused>>

Edited(run, s) ==
  IF "targets" \in DOMAIN run THEN [s EXCEPT !.targets = run.targets] ELSE s

Rechecked(run, c) == "targets" \in DOMAIN run => run.unmanaged = Unmanaged(c)

(* It reads the file again and edits line by line what it finds, though the *)
(* unmanaged addresses may be others by now; a line that is missing ends it.*)
EditText(h) ==
  /\ HelperAt(h, "edit")
  /\ LET c == inodes[config]
     IN IF c.kind = "empty" THEN Leaves(h)
        ELSE runs' = [runs EXCEPT ![h] =
               [step |-> "open", text |-> Text(Edited(runs[h], c.settings), c.tail),
                taint |-> runs[h].taint \/ ~Sound(c) \/ ~Rechecked(runs[h], c)]]
  /\ UNCHANGED <<inodes, config, tmp, edits, excused>>

\* Mutant of OpenTemporary: the text goes to config.toml itself.
OpenInPlace(h) ==
  /\ HelperAt(h, "open")
  /\ inodes' = [inodes EXCEPT ![config] = Empty]
  /\ tmp' = config
  /\ runs' = [runs EXCEPT ![h] =
       [step |-> "write", text |-> runs[h].text, taint |-> runs[h].taint, inode |-> config]]
  /\ UNCHANGED <<config, edits, excused>>

InUse == {config, tmp} \union {runs[h].inode : h \in Writers}
Fresh == CHOOSE i \in Inodes : i \notin InUse

(* write_text opens the temporary file and truncates it, whoever else       *)
(* holds it: from here on neither knows what it renames.                    *)
OpenTemporary(h) ==
  /\ HelperAt(h, "open")
  /\ LET i      == IF tmp = NoInode THEN Fresh ELSE tmp
         others == {g \in Writers : runs[g].inode = i}
     IN /\ inodes' = [inodes EXCEPT ![i] = Empty]
        /\ tmp' = i
        /\ runs' = [g \in Runs |->
             IF g = h THEN [step |-> "write", text |-> runs[h].text, inode |-> i,
                            taint |-> runs[h].taint \/ others # {}]
             ELSE IF g \in others THEN [runs[g] EXCEPT !.taint = TRUE]
             ELSE runs[g]]
  /\ UNCHANGED <<config, edits, excused>>

Length(c) == IF c.kind = "empty" THEN 0 ELSE Cardinality(c.settings.targets) + c.tail

(* The text is short enough for one write, from the start of the file.      *)
WriteTemporary(h) ==
  /\ HelperAt(h, "write")
  /\ LET new  == runs[h].text
         rest == Length(inodes[runs[h].inode]) - Length(new)
     IN inodes' = [inodes EXCEPT ![runs[h].inode] =
          Text(new.settings, new.tail + (IF rest > 0 THEN rest ELSE 0))]
  /\ runs' = [runs EXCEPT ![h] =
       [step |-> "rename", taint |-> runs[h].taint, inode |-> runs[h].inode]]
  /\ UNCHANGED <<config, tmp, edits, excused>>

(* What an inode that lost its name holds: as long as somebody has it open. *)
Left(i, holders) ==
  IF \E g \in Writers \intersect holders : runs[g].inode = i THEN inodes[i] ELSE Empty

(* The rename takes what has that name now; whoever had it open goes on     *)
(* writing to what is config.toml from then on.                             *)
Rename(h) ==
  /\ HelperAt(h, "rename") /\ tmp # NoInode
  /\ config' = tmp /\ tmp' = NoInode
  /\ excused' = runs[h].taint
  /\ runs' = [g \in Runs |->
       IF g = h THEN NotRunning
       ELSE IF g \in Writers /\ runs[g].inode = tmp THEN [runs[g] EXCEPT !.taint = TRUE]
       ELSE runs[g]]
  /\ inodes' = [inodes EXCEPT ![config] = Left(config, Runs \ {h})]
  /\ UNCHANGED edits

(* Somebody else renamed it: FileNotFoundError.                             *)
RenameFails(h) ==
  /\ tmp = NoInode
  /\ HelperAt(h, "rename")
  /\ Leaves(h)
  /\ inodes' = [inodes EXCEPT ![runs[h].inode] =
       IF runs[h].inode = config THEN inodes[config] ELSE Left(runs[h].inode, Runs \ {h})]
  /\ UNCHANGED <<config, tmp, edits, excused>>

(* It is killed, or the disk is full when it writes.                        *)
HelperDies(h) ==
  /\ h \in Writers
  /\ Leaves(h)
  /\ inodes' = [inodes EXCEPT ![runs[h].inode] =
       IF runs[h].inode \in {config, tmp} THEN inodes[runs[h].inode]
       ELSE Left(runs[h].inode, Runs \ {h})]
  /\ UNCHANGED <<config, tmp, edits, excused>>

(* The operator lists other unmanaged addresses, none that is a target,     *)
(* with an editor that replaces the file, and repairs a damaged file.       *)
OperatorEdits ==
  /\ Starts
  /\ \E s \in Settings :
       /\ Accepted(s)
       /\ Sound(inodes[config]) => s.targets = inodes[config].settings.targets
       /\ config' = Fresh
       /\ inodes' = [inodes EXCEPT ![Fresh] = Text(s, 0), ![config] = Left(config, Runs)]
  /\ excused' = FALSE
  /\ UNCHANGED <<tmp, runs>>

ConfigNext ==
  \/ OperatorEdits
  \/ \E h \in Runs :
       \/ StartTargets(h) \/ StartFlags(h) \/ CheckTargets(h) \/ EditText(h)
       \/ OpenTemporary(h) \/ WriteTemporary(h) \/ Rename(h) \/ RenameFails(h)
       \/ HelperDies(h)

ConfigSpec == ConfigInit /\ [][ConfigNext]_configVars

-----------------------------------------------------------------------------
(* Whenever dashboard or agent load config.toml, they get the settings it   *)
(* spells: a helper that dies, fails or is refused does not tear the file,  *)
(* and no helper writes what the loader refuses.  excused holds only while  *)
(* the file comes from a helper that shared the temporary file with         *)
(* another, found an unsound file, or checked its list against other        *)
(* unmanaged addresses than those it found when it edited the file; the     *)
(* next helper that reads a sound file and has the temporary file to itself *)
(* ends it.                                                                 *)
ConfigIsSound ==
  ~excused => Sound(inodes[config])
=============================================================================
