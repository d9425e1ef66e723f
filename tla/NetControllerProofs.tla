------------------------ MODULE NetControllerProofs ------------------------
(***************************************************************************)
(* Proofs about NetController for every set of addresses, every set of     *)
(* configuration files and any number of events: type correctness, and the *)
(* five safety invariants by way of Inductive.                             *)
(***************************************************************************)
EXTENDS NetController, TLAPS

-----------------------------------------------------------------------------
(* Rulesets and processes.                                                 *)

\* What apply_nftables loads is a ruleset and never the absence of one.
LEMMA RulesetProper ==
  ASSUME NEW c \in Config, NEW b \in SUBSET Addr
  PROVE  Ruleset(c, b) \in Rulesets /\ Ruleset(c, b) # NoRules
BY DEF Config, Ruleset, Rulesets, NoRules, Modes

LEMMA NoRulesType == NoRules \in Rulesets
BY DEF NoRules, Rulesets

\* An exiting process stays known.
LEMMA ExitsStayKnown ==
  ASSUME NEW p \in [Keys -> {"none", "alive", "dead"}], NEW k \in Keys
  PROVE  [p EXCEPT ![k] = "dead"] \in [Keys -> {"none", "alive", "dead"}]
OBVIOUS

LEMMA NoProcsType == NoProcs \in [Keys -> {"none", "alive", "dead"}]
BY DEF NoProcs

\* Spending keeps the budget in its range.
LEMMA SpendType == ASSUME budget \in 0..MaxEvents, Spend PROVE budget' \in 0..MaxEvents
BY BoundAssumption DEF Spend

-----------------------------------------------------------------------------
(* Type correctness.                                                       *)

LEMMA InitTypeOK == Init => TypeOK
<1>1. SUFFICES ASSUME Init PROVE TypeOK
  OBVIOUS
<1>2. DnsOnly \in Config
  BY DEF DnsOnly, Config, Modes
<1>3. MaxEvents \in 0..MaxEvents
  BY BoundAssumption
<1>4. want \in Want
  BY <1>1, WantsAssumption DEF Init
<1>5. health \in [mode : Modes \cup {"unknown"}, ok : BOOLEAN]
  BY <1>1 DEF Init, Modes
<1>6. pc \in PCs /\ script \in 0..3 /\ result \in {"ok", "bad", "failed"}
  BY <1>1 DEF Init, PCs
<1>7. stopping \in BOOLEAN /\ ipForward \in BOOLEAN /\ cut \in BOOLEAN /\ lost \in BOOLEAN
  BY <1>1 DEF Init
<1>8. memo \in Rulesets /\ nft \in Rulesets /\ procs \in [Keys -> {"none", "alive", "dead"}]
  BY <1>1, NoRulesType, NoProcsType DEF Init
<1>9. budget \in 0..MaxEvents
  BY <1>1, <1>3 DEF Init
<1>10. QED
  BY <1>1, <1>2, <1>4, <1>5, <1>6, <1>7, <1>8, <1>9 DEF Init, TypeOK

LEMMA AgentTypeOK == ASSUME TypeOK, AgentStep PROVE TypeOK'
<1> USE DEF TypeOK, world, pass, kernel, processes, Return
<1>1. CASE LoadSettings
  BY <1>1 DEF LoadSettings, PCs, Want
<1>2. CASE EvaluatePolicies
  BY <1>2, SpendType DEF EvaluatePolicies, FirstStep, PCs
<1>3. CASE DnsOnlyStop
  BY <1>3, NoProcsType DEF DnsOnlyStop, StopArpAssisted, PCs
<1>4. CASE DnsOnlyFlush
  BY <1>4, NoRulesType DEF DnsOnlyFlush, FlushNftables, PCs
<1>5. CASE DnsOnlyForwardingOff
  BY <1>5, SpendType DEF DnsOnlyForwardingOff, PCs
<1>6. CASE Preflight
  BY <1>6, NoProcsType DEF Preflight, StopArpAssisted, PCs
<1>7. CASE UnreadyFlush
  BY <1>7, NoRulesType DEF UnreadyFlush, FlushNftables, PCs
<1>8. CASE CompareRuleset
  BY <1>8, NoRulesType DEF CompareRuleset, PCs
<1>9. CASE LoadNftables
  BY <1>9, RulesetProper, SpendType DEF LoadNftables, LoadRuleset, PCs
<1>10. CASE ConfigureForwarding
  BY <1>10, SpendType DEF ConfigureForwarding, AfterForwarding, PCs
<1>11. CASE Recheck
  <2>1. KeysOf(cfg.targets) \subseteq Keys
    BY DEF Config, Keys, KeysOf
  <2>2. QED
    BY <1>11, <2>1, NoProcsType DEF Recheck, StopArpAssisted, PCs
<1>12. CASE \E k \in Keys : EnsureArpspoof(k)
  BY <1>12, SpendType DEF EnsureArpspoof, PCs
<1>13. CASE FinishArpAssisted
  BY <1>13 DEF FinishArpAssisted, StopStale, PCs
<1>14. CASE StopOther
  BY <1>14, NoProcsType DEF StopOther, StopArpAssisted, PCs
<1>15. CASE RecordHealth
  <2>1. cfg.mode \in Modes
    BY DEF Config
  <2>2. health' \in [mode : Modes \cup {"unknown"}, ok : BOOLEAN]
    <3>1. CASE health' = Unknown
      BY <3>1 DEF Unknown
    <3>2. CASE health' = [mode |-> cfg.mode, ok |-> result = "ok"]
      BY <2>1, <3>2
    <3>3. QED
      BY <1>15, <3>1, <3>2 DEF RecordHealth
  <2>3. QED
    BY <1>15, <2>2, SpendType DEF RecordHealth, PCs
<1>16. CASE StopAgent
  BY <1>16, NoProcsType, NoRulesType DEF StopAgent, StopArpAssisted, PCs
<1>17. CASE Restart
  BY <1>17 DEF Restart, PCs
<1>18. QED
  BY <1>1, <1>2, <1>3, <1>4, <1>5, <1>6, <1>7, <1>8, <1>9, <1>10, <1>11, <1>12, <1>13,
     <1>14, <1>15, <1>16, <1>17, AgentStep DEF AgentStep

LEMMA EnvironmentTypeOK == ASSUME TypeOK, EnvironmentStep PROVE TypeOK'
<1> USE SpendType DEF TypeOK, world, pass, kernel, processes
<1>1. CASE Reconfigure
  BY <1>1, WantsAssumption DEF Reconfigure
<1>2. CASE ChangePolicy
  BY <1>2 DEF ChangePolicy
<1>3. CASE AddressChange
  BY <1>3 DEF AddressChange
<1>4. CASE ProcessExits
  BY <1>4, ExitsStayKnown DEF ProcessExits, Alive
<1>5. CASE Crash
  BY <1>5, NoProcsType, NoRulesType DEF Crash, PCs
<1>6. AllExit => procs' \in [Keys -> {"none", "alive", "dead"}] /\ exited' \in SUBSET Keys
  BY DEF AllExit, Alive
<1>7. CASE RequestStop
  BY <1>6, <1>7 DEF RequestStop
<1>8. CASE StartAgent
  BY <1>8 DEF StartAgent, PCs
<1>9. CASE Rollback
  BY <1>9, NoRulesType DEF Rollback, Modes
<1>10. CASE EmergencyConfig
  <2>1. [cfg |-> DnsOnly, valid |-> TRUE] \in Want
    BY DEF Want, DnsOnly, Config, Modes
  <2>2. QED
    BY <1>10, <2>1 DEF EmergencyConfig
<1>11. CASE EmergencyKernel
  <2>1. lost' \in BOOLEAN /\ cut' \in BOOLEAN /\ ipForward' \in BOOLEAN
    BY <1>11, Zenon DEF EmergencyKernel
  <2>2. script' \in 0..3 /\ nft' \in Rulesets
    BY <1>11, NoRulesType DEF EmergencyKernel
  <2>3. procs' \in [Keys -> {"none", "alive", "dead"}] /\ exited' \in SUBSET Keys
    BY <1>6, <1>11 DEF EmergencyKernel
  <2>4. health' \in [mode : Modes \cup {"unknown"}, ok : BOOLEAN]
    <3>1. health' = health \/ health' = [mode |-> "dns_only", ok |-> TRUE]
      BY <1>11, Zenon DEF EmergencyKernel
    <3>2. [mode |-> "dns_only", ok |-> TRUE] \in [mode : Modes \cup {"unknown"}, ok : BOOLEAN]
      BY DEF Modes
    <3>3. QED
      BY <3>1, <3>2
  <2>5. QED
    BY <1>11, <2>1, <2>2, <2>3, <2>4 DEF EmergencyKernel
<1>12. QED
  BY <1>1, <1>2, <1>3, <1>4, <1>5, <1>7, <1>8, <1>9, <1>10, <1>11, EnvironmentStep
  DEF EnvironmentStep

\* Every variable keeps its type.
THEOREM TypeCorrect == Spec => []TypeOK
<1>1. TypeOK /\ [Next]_vars => TypeOK'
  BY AgentTypeOK, EnvironmentTypeOK DEF Next, vars, TypeOK
<1>2. QED
  BY InitTypeOK, <1>1, PTL DEF Spec

-----------------------------------------------------------------------------
(* The inductive invariant.                                                *)

LEMMA AgentInductive == ASSUME Inductive, AgentStep PROVE Inductive'
<1> USE DEF Inductive, InstalledIsMemo, InterceptionFiltered, InterceptionForwards,
      HealthyRulesAreCurrent, ReportedProcesses, TeardownOrder, ProcessesImplyMemo, MissingTable,
      PassOrder, Intercepting, Down, world, pass, kernel, processes, Return
<1>1. TypeOK'
  BY AgentTypeOK
<1>2. Alive \subseteq Known
  BY DEF Alive, Known
<1>3. procs' = NoProcs => Known' = {} /\ Alive' = {}
  BY DEF Known, Alive, NoProcs
<1>4. UNCHANGED processes => UNCHANGED <<Known, Alive, exited>>
  BY DEF Known, Alive, processes
<1>5. Ruleset(cfg, blocked) # NoRules
  BY RulesetProper DEF TypeOK
<1>6. CASE LoadSettings
  BY <1>1, <1>2, <1>3, <1>4, <1>5, <1>6 DEF LoadSettings
<1>7. CASE EvaluatePolicies
  BY <1>1, <1>2, <1>3, <1>4, <1>5, <1>7 DEF EvaluatePolicies, FirstStep
<1>8. CASE DnsOnlyStop
  BY <1>1, <1>2, <1>3, <1>4, <1>5, <1>8 DEF DnsOnlyStop, StopArpAssisted
<1>9. CASE DnsOnlyFlush
  BY <1>1, <1>2, <1>3, <1>4, <1>5, <1>9 DEF DnsOnlyFlush, FlushNftables
<1>10. CASE DnsOnlyForwardingOff
  BY <1>1, <1>2, <1>3, <1>4, <1>5, <1>10 DEF DnsOnlyForwardingOff
<1>11. CASE Preflight
  BY <1>1, <1>2, <1>3, <1>4, <1>5, <1>11 DEF Preflight, StopArpAssisted
<1>12. CASE UnreadyFlush
  BY <1>1, <1>2, <1>3, <1>4, <1>5, <1>12 DEF UnreadyFlush, FlushNftables
<1>13. CASE CompareRuleset
  BY <1>1, <1>2, <1>3, <1>4, <1>5, <1>13 DEF CompareRuleset
<1>14. CASE LoadNftables
  <2>1. UNCHANGED <<Known, Alive, exited>>
    BY <1>4, <1>14 DEF LoadNftables
  <2>2. CASE LoadRuleset
    BY <1>1, <1>5, <1>14, <2>1, <2>2 DEF LoadNftables, LoadRuleset
  <2>3. CASE lost' = (memo # NoRules) /\ UNCHANGED <<nft, memo>> /\ pc' = "report" /\ result' = "failed"
    BY <1>1, <1>2, <1>14, <2>1, <2>3 DEF LoadNftables
  <2>4. QED
    BY <1>14, <2>2, <2>3 DEF LoadNftables
<1>15. CASE ConfigureForwarding
  BY <1>1, <1>2, <1>3, <1>4, <1>5, <1>15 DEF ConfigureForwarding, AfterForwarding, NeedsForwarding
<1>16. CASE Recheck
  BY <1>1, <1>2, <1>3, <1>4, <1>5, <1>16 DEF Recheck, StopArpAssisted
<1>17. CASE \E k \in Keys : EnsureArpspoof(k)
  <2> SUFFICES ASSUME NEW k \in Keys, EnsureArpspoof(k) PROVE Inductive'
    BY <1>17
  <2>1. memo # NoRules /\ (nft = NoRules => lost) /\ (ipForward \/ cut)
    BY <1>5 DEF EnsureArpspoof
  <2>2. CASE pc' = pc
    <3>1. /\ Known' = Known \cup {k} /\ todo' = todo \ {k}
          /\ Alive' = Alive \cup {k} /\ exited' = exited \ {k}
      BY <2>2 DEF EnsureArpspoof, Known, Alive, TypeOK
    <3>2. QED
      BY <1>1, <2>1, <2>2, <3>1 DEF EnsureArpspoof
  <2>3. CASE pc' = "report" /\ result' = "failed"
    BY <1>1, <2>1, <2>3 DEF EnsureArpspoof
  <2>4. QED
    BY <2>2, <2>3 DEF EnsureArpspoof
<1>18. CASE FinishArpAssisted
  <2>1. /\ Known' = KeysOf(cfg.targets) /\ Alive' = Alive \cap KeysOf(cfg.targets)
        /\ exited' = exited \cap KeysOf(cfg.targets)
    <3>1. KeysOf(cfg.targets) \subseteq Keys /\ KeysOf(cfg.targets) \subseteq Known
      BY <1>18 DEF FinishArpAssisted, Known
    <3>2. QED
      BY <1>18, <3>1 DEF FinishArpAssisted, StopStale, Known, Alive, TypeOK
  <2>2. QED
    BY <1>1, <1>2, <1>5, <1>18, <2>1 DEF FinishArpAssisted
<1>19. CASE StopOther
  BY <1>1, <1>2, <1>3, <1>4, <1>5, <1>19 DEF StopOther, StopArpAssisted
<1>20. CASE RecordHealth
  BY <1>1, <1>2, <1>3, <1>4, <1>5, <1>20 DEF RecordHealth
<1>21. CASE StopAgent
  BY <1>1, <1>2, <1>3, <1>4, <1>5, <1>21 DEF StopAgent, StopArpAssisted
<1>22. CASE Restart
  BY <1>1, <1>2, <1>3, <1>4, <1>5, <1>22 DEF Restart
<1>23. QED
  BY <1>6, <1>7, <1>8, <1>9, <1>10, <1>11, <1>12, <1>13, <1>14, <1>15, <1>16, <1>17, <1>18, <1>19, <1>20, <1>21, <1>22, AgentStep DEF AgentStep

\* After the script's pkill the exited processes are still known.
LEMMA AllExitKnown ==
  ASSUME TypeOK, AllExit
  PROVE  Known' = Known /\ Alive' = {} /\ Alive \cup exited \subseteq exited'
BY DEF TypeOK, AllExit, Known, Alive

LEMMA EnvironmentInductive == ASSUME Inductive, EnvironmentStep PROVE Inductive'
<1> USE DEF Inductive, InstalledIsMemo, InterceptionFiltered, InterceptionForwards,
      HealthyRulesAreCurrent, ReportedProcesses, TeardownOrder, ProcessesImplyMemo, MissingTable,
      PassOrder, Intercepting, Down, world, pass, kernel, processes, Return
<1>1. TypeOK'
  BY EnvironmentTypeOK
<1>2. Alive \subseteq Known
  BY DEF Alive, Known
<1>3. procs' = NoProcs => Known' = {} /\ Alive' = {}
  BY DEF Known, Alive, NoProcs
<1>4. UNCHANGED processes => UNCHANGED <<Known, Alive, exited>>
  BY DEF Known, Alive, processes
<1>5. Ruleset(cfg, blocked) # NoRules
  BY RulesetProper DEF TypeOK
<1>6. CASE Reconfigure
  BY <1>1, <1>2, <1>3, <1>4, <1>5, <1>6 DEF Reconfigure
<1>7. CASE ChangePolicy
  BY <1>1, <1>2, <1>3, <1>4, <1>5, <1>7 DEF ChangePolicy
<1>8. CASE AddressChange
  BY <1>1, <1>2, <1>3, <1>4, <1>5, <1>8 DEF AddressChange
<1>9. CASE ProcessExits
  <2>1. Known' = Known /\ Alive' \subseteq Alive /\ Alive \cup exited \subseteq Alive' \cup exited'
    BY <1>9 DEF ProcessExits, Known, Alive, TypeOK
  <2>2. QED
    BY <1>1, <1>9, <2>1 DEF ProcessExits
<1>10. CASE Crash
  BY <1>1, <1>2, <1>3, <1>4, <1>5, <1>10 DEF Crash
<1>11. CASE RequestStop
  <2>1. Known' = Known /\ Alive' \subseteq Alive /\ Alive \cup exited \subseteq Alive' \cup exited'
    BY <1>4, AllExitKnown, <1>11 DEF RequestStop
  <2>2. QED
    BY <1>1, <1>11, <2>1 DEF RequestStop
<1>12. CASE StartAgent
  BY <1>1, <1>2, <1>3, <1>4, <1>5, <1>12 DEF StartAgent
<1>13. CASE Rollback
  BY <1>1, <1>2, <1>3, <1>4, <1>5, <1>13 DEF Rollback
<1>14. CASE EmergencyConfig
  BY <1>1, <1>2, <1>3, <1>4, <1>5, <1>14 DEF EmergencyConfig
<1>15. CASE EmergencyKernel
  <2>1. Known' = Known /\ Alive' \subseteq Alive /\ Alive \cup exited \subseteq Alive' \cup exited'
    BY <1>4, AllExitKnown, <1>15 DEF EmergencyKernel
  <2>2. CASE script = 1
    <3>0. script # 2 /\ script # 3
      BY <2>2
    <3>1. nft' = NoRules /\ (memo # NoRules => lost') /\ memo' = memo
      BY <1>15, <3>0, Zenon DEF EmergencyKernel
    <3>2. UNCHANGED <<pc, cfg, blocked, todo, result, ipForward, cut>>
      BY <1>15, <2>2 DEF EmergencyKernel
    <3>3. QED
      BY <1>1, <1>2, <2>1, <3>1, <3>2
  <2>3. CASE script = 2
    BY <1>1, <1>15, <2>1, <2>3 DEF EmergencyKernel
  <2>4. CASE script = 3
    BY <1>1, <1>15, <2>1, <2>4 DEF EmergencyKernel
  <2>5. QED
    BY <1>15, <2>2, <2>3, <2>4 DEF EmergencyKernel
<1>16. QED
  BY <1>6, <1>7, <1>8, <1>9, <1>10, <1>11, <1>12, <1>13, <1>14, <1>15, EnvironmentStep DEF EnvironmentStep


LEMMA InitInductive == Init => Inductive
<1>1. SUFFICES ASSUME Init PROVE Inductive
  OBVIOUS
<1>2. Known = {} /\ Alive = {}
  BY <1>1 DEF Init, Known, Alive, NoProcs
<1>3. QED
  BY <1>1, <1>2, InitTypeOK
  DEF Init, Inductive, InstalledIsMemo, InterceptionFiltered, InterceptionForwards, Intercepting,
      HealthyRulesAreCurrent, ReportedProcesses, TeardownOrder, ProcessesImplyMemo, MissingTable,
      PassOrder, Down

\* The invariant and the step facts it rests on hold in every state.
THEOREM InductiveHolds == Spec => []Inductive
<1>1. Inductive /\ UNCHANGED vars => Inductive'
  BY DEF Inductive, vars, TypeOK, InstalledIsMemo, InterceptionFiltered, InterceptionForwards,
         Intercepting, HealthyRulesAreCurrent, ReportedProcesses, TeardownOrder,
         ProcessesImplyMemo, MissingTable, PassOrder, Down, Known, Alive
<1>2. Inductive /\ [Next]_vars => Inductive'
  BY <1>1, AgentInductive, EnvironmentInductive DEF Next
<1>3. QED
  BY InitInductive, <1>2, PTL DEF Spec

-----------------------------------------------------------------------------
(* What it is for.                                                         *)

\* The kernel never holds another ruleset than the one the agent remembers.
THEOREM MemoIsTruthful == Spec => []InstalledIsMemo
<1>1. Inductive => InstalledIsMemo
  BY DEF Inductive
<1>2. QED
  BY <1>1, InductiveHolds, PTL

\* Interception without the table is always accounted for.
THEOREM FilteredInterception == Spec => []InterceptionFiltered
<1>1. Inductive => InterceptionFiltered
  BY DEF Inductive
<1>2. QED
  BY <1>1, InductiveHolds, PTL

\* Interception without forwarding is the emergency script's doing.
THEOREM ForwardedInterception == Spec => []InterceptionForwards
<1>1. Inductive => InterceptionForwards
  BY DEF Inductive
<1>2. QED
  BY <1>1, InductiveHolds, PTL

\* What a healthy pass leaves in the kernel is its own ruleset.
THEOREM RulesAreCurrent == Spec => []HealthyRulesAreCurrent
<1>1. Inductive => HealthyRulesAreCurrent
  BY DEF Inductive
<1>2. QED
  BY <1>1, InductiveHolds, PTL

\* What a pass reports: when it calls itself healthy, the process table is one
\* process per direction of each target, and each runs or has exited since the
\* pass asked for it.
THEOREM TruthfulReport == Spec => []ReportedProcesses
<1>1. Inductive => ReportedProcesses
  BY DEF Inductive
<1>2. QED
  BY <1>1, InductiveHolds, PTL
=============================================================================
