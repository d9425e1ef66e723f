---------------------------- MODULE NetController ----------------------------
(***************************************************************************)
(* The agent process of Pi-Circle seen from the kernel: the loop of        *)
(* Agent.run_forever and the NetworkController it drives, one action per   *)
(* command the controller issues, so that the root helper scripts, a       *)
(* crash, a dying arpspoof or a failing command can fall between any two.  *)
(*                                                                         *)
(* An action of the agent is a step of one pass ("tick"):                  *)
(*   load settings - evaluate policies - apply(...) - record the health    *)
(* and pc names the next step.  The actors outside the agent spend budget. *)
(* The two Pi-hole flag syncs at the head of apply() share no state with   *)
(* the rest of the controller and are left out of this module.             *)
(***************************************************************************)
EXTENDS Naturals, FiniteSets

CONSTANTS Addr,      \* LAN addresses a configuration can name as ARP target
          Wants,     \* what can be found in the configuration file
          MaxEvents  \* bound on the steps of actors other than the agent

Modes == {"dns_only", "router_integrated", "inline_gateway", "arp_assisted"}

\* NetworkConfig, as far as the controller's control flow reads it.
Config == [mode : Modes, forward : BOOLEAN, targets : SUBSET Addr]

\* The file, and whether load_settings accepts it or raises.
Want == [cfg : Config, valid : BOOLEAN]

DnsOnly == [mode |-> "dns_only", forward |-> FALSE, targets |-> {}]

ASSUME WantsAssumption == Wants \subseteq Want
ASSUME BoundAssumption == MaxEvents \in Nat

\* The nftables ruleset, by what distinguishes two texts of it.
Ruleset(c, b) ==
  IF c.mode = "arp_assisted"
    THEN [mode |-> c.mode, targets |-> c.targets, blocked |-> b \cap c.targets]
    ELSE [mode |-> c.mode, targets |-> {}, blocked |-> {}]

NoRules == [mode |-> "none", targets |-> {}, blocked |-> {}]
Rulesets == [mode : Modes \cup {"none"}, targets : SUBSET Addr, blocked : SUBSET Addr]

\* A target is intercepted by two arpspoof processes, one per direction.
Keys == {"client", "gateway"} \X Addr
KeysOf(targets) == {"client", "gateway"} \X targets
NoProcs == [k \in Keys |-> "none"]

VARIABLES
  want,       \* the configuration file
  paused,     \* devices the policies want to block (pause, bedtime, budget)
  local,      \* addresses of the Pi's own interface
  pc,         \* next step of the agent
  cfg,        \* settings.network as this pass loaded it
  blocked,    \* blocked_ips of this pass
  todo,       \* keys apply_arp_assisted has still to ensure
  result,     \* what apply returned: "ok", "bad", or "failed" for an exception
  stopping,   \* Agent._stopping
  procs,      \* _arp_processes: absent, running or exited
  exited,     \* those that exited since _ensure_arpspoof last asked for them
  memo,       \* _active_nft_ruleset
  nft,        \* table inet pi_circle in the kernel
  ipForward,  \* net.ipv4.ip_forward
  cut,        \* the emergency script switched forwarding off after the agent
              \* last switched it on
  lost,       \* the table was refused or deleted behind a memo that still names it
  script,     \* next step of emergency-dns-only.sh, 0 when it does not run
  health,     \* the network_health row
  budget      \* events left

world  == <<want, paused, local>>
pass   == <<cfg, blocked, todo>>
kernel == <<nft, ipForward, cut, lost>>
processes == <<procs, exited>>
vars   == <<want, paused, local, pc, cfg, blocked, todo, result, stopping, procs, exited,
            memo, nft, ipForward, cut, lost, script, health, budget>>

PCs == {"idle", "policy", "dnsStop", "dnsFlush", "dnsForward", "preflight",
        "unready", "nft", "nftLoad", "forward", "recheck", "ensure", "stopOther",
        "report", "crashed", "stopped"}

Alive == {k \in Keys : procs[k] = "alive"}
Known == {k \in Keys : procs[k] # "none"}
Down  == pc \in {"crashed", "stopped"}

TypeOK ==
  /\ want \in Want
  /\ paused \in SUBSET Addr
  /\ local \in SUBSET Addr
  /\ pc \in PCs
  /\ cfg \in Config
  /\ blocked \in SUBSET Addr
  /\ todo \in SUBSET Keys
  /\ result \in {"ok", "bad", "failed"}
  /\ stopping \in BOOLEAN
  /\ procs \in [Keys -> {"none", "alive", "dead"}]
  /\ exited \in SUBSET Keys
  /\ memo \in Rulesets
  /\ nft \in Rulesets
  /\ ipForward \in BOOLEAN
  /\ cut \in BOOLEAN
  /\ lost \in BOOLEAN
  /\ script \in 0..3
  /\ health \in [mode : Modes \cup {"unknown"}, ok : BOOLEAN]
  /\ budget \in 0..MaxEvents

Init ==
  /\ want \in {w \in Wants : w.valid}
  /\ paused = {}
  /\ local = {}
  /\ pc = "idle"
  /\ cfg = DnsOnly
  /\ blocked = {}
  /\ todo = {}
  /\ result = "ok"
  /\ stopping = FALSE
  /\ procs = NoProcs
  /\ exited = {}
  /\ memo = NoRules
  /\ nft = NoRules
  /\ ipForward = FALSE
  /\ cut = FALSE
  /\ lost = FALSE
  /\ script = 0
  /\ health = [mode |-> "dns_only", ok |-> TRUE]
  /\ budget = MaxEvents

-----------------------------------------------------------------------------
(* One pass of the agent's loop.                                           *)

\* A fault, or a step of somebody else, uses up one event.
Spend == budget > 0 /\ budget' = budget - 1

\* load_settings, the only way the agent learns of a new configuration.  (A
\* pass whose reconciler wrote the file loads it twice: this is the last load.)
LoadSettings ==
  /\ pc = "idle" /\ ~stopping
  /\ IF want.valid
       THEN /\ cfg' = want.cfg
            /\ pc' = "policy"
            /\ UNCHANGED result
       ELSE /\ result' = "failed"
            /\ pc' = "report"
            /\ UNCHANGED cfg
  /\ UNCHANGED <<world, blocked, todo, stopping, processes, memo, kernel, script, health, budget>>

FirstStep(mode) ==
  CASE mode = "dns_only"     -> "dnsStop"
    [] mode = "arp_assisted" -> "preflight"
    [] OTHER                 -> "nft"

Return(r) == pc' = "report" /\ result' = r

\* Only linked devices are blocked; the mode then selects the branch of apply.
\* The steps before it (inventory, reconciler, usage) may raise.
EvaluatePolicies ==
  /\ pc = "policy"
  /\ \/ /\ blocked' = paused \cap cfg.targets
        /\ pc' = FirstStep(cfg.mode)
        /\ UNCHANGED <<result, budget>>
     \/ /\ Spend
        /\ Return("failed")
        /\ UNCHANGED blocked
  /\ UNCHANGED <<world, cfg, todo, stopping, processes, memo, kernel, script, health>>

\* stop_arp_assisted forgets every process.
StopArpAssisted == procs' = NoProcs /\ exited' = {}

\* Mutant of DnsOnlyStop: apply returns once the processes are stopped.
DnsOnlyStopOnly ==
  /\ pc = "dnsStop"
  /\ StopArpAssisted
  /\ Return("ok")
  /\ UNCHANGED <<world, pass, stopping, memo, kernel, script, health, budget>>

DnsOnlyStop ==
  /\ pc = "dnsStop"
  /\ StopArpAssisted
  /\ pc' = "dnsFlush"
  /\ UNCHANGED <<world, pass, result, stopping, memo, kernel, script, health, budget>>

\* Mutant of FlushNftables: the memo survives the table.
FlushKeepingMemo ==
  /\ nft' = NoRules
  /\ UNCHANGED <<memo, lost, ipForward, cut>>

FlushNftables ==
  /\ nft' = NoRules
  /\ memo' = NoRules
  /\ lost' = FALSE
  /\ UNCHANGED <<ipForward, cut>>

DnsOnlyFlush ==
  /\ pc = "dnsFlush"
  /\ FlushNftables
  /\ pc' = "dnsForward"
  /\ UNCHANGED <<world, pass, result, stopping, processes, script, health, budget>>

\* sysctl runs with check=True: a non-zero exit raises out of apply.
DnsOnlyForwardingOff ==
  /\ pc = "dnsForward"
  /\ \/ /\ ipForward' = FALSE
        /\ Return("ok")
        /\ UNCHANGED budget
     \/ /\ Spend
        /\ Return("failed")
        /\ UNCHANGED ipForward
  /\ UNCHANGED <<world, pass, stopping, processes, memo, nft, cut, lost, script, health>>

PreflightPasses(c) == c.targets # {} /\ c.targets \cap local = {}

Preflight ==
  /\ pc = "preflight"
  /\ IF PreflightPasses(cfg)
       THEN pc' = "nft" /\ UNCHANGED processes
       ELSE pc' = "unready" /\ StopArpAssisted
  /\ UNCHANGED <<world, pass, result, stopping, memo, kernel, script, health, budget>>

\* A failed preflight removes the rules but leaves ip_forward as it is.
UnreadyFlush ==
  /\ pc = "unready"
  /\ FlushNftables
  /\ Return("bad")
  /\ UNCHANGED <<world, pass, stopping, processes, script, health, budget>>

\* Mutant of CompareRuleset: the memo of any loaded ruleset counts as current.
CompareModeOnly ==
  /\ pc = "nft"
  /\ IF memo.mode = cfg.mode
       THEN pc' = "forward" /\ UNCHANGED nft
       ELSE nft' = NoRules /\ pc' = "nftLoad"
  /\ UNCHANGED <<world, pass, result, stopping, processes, memo, ipForward, cut, lost, script, health, budget>>

\* The comparison sees the ruleset last loaded, not the kernel.  In ARP mode
\* the text can also differ because the DoH addresses were resolved again.
CompareRuleset ==
  /\ pc = "nft"
  /\ \/ /\ memo = Ruleset(cfg, blocked)
        /\ pc' = "forward"
        /\ UNCHANGED nft
     \/ /\ memo # Ruleset(cfg, blocked) \/ cfg.mode = "arp_assisted"
        /\ nft' = NoRules
        /\ pc' = "nftLoad"
  /\ UNCHANGED <<world, pass, result, stopping, processes, memo, ipForward, cut, lost, script, health, budget>>

\* Mutant of LoadRuleset: the memo is not brought up to date.
LoadWithoutMemo ==
  /\ nft' = Ruleset(cfg, blocked)
  /\ lost' = FALSE
  /\ memo' = IF memo = NoRules THEN Ruleset(cfg, blocked) ELSE memo

LoadRuleset ==
  /\ nft' = Ruleset(cfg, blocked)
  /\ lost' = FALSE
  /\ memo' = Ruleset(cfg, blocked)

\* nft -f: loaded; or refused, with the old table already deleted and the memo
\* kept; or loaded, and a later conntrack call times out (ARP mode only).
LoadNftables ==
  /\ pc = "nftLoad"
  /\ \/ /\ LoadRuleset
        /\ pc' = "forward"
        /\ UNCHANGED <<result, budget>>
     \/ /\ Spend
        /\ Return("failed")
        /\ \/ /\ lost' = (memo # NoRules)
              /\ UNCHANGED <<nft, memo>>
           \/ cfg.mode = "arp_assisted" /\ LoadRuleset
  /\ UNCHANGED <<world, pass, stopping, processes, ipForward, cut, script, health>>

\* Mutant of NeedsForwarding: ARP mode is left out.
NeedsForwardingInline(c) == c.mode = "inline_gateway"

NeedsForwarding(c) == c.forward \/ c.mode \in {"inline_gateway", "arp_assisted"}

AfterForwarding(c) == IF c.mode = "arp_assisted" THEN "recheck" ELSE "stopOther"

ConfigureForwarding ==
  /\ pc = "forward"
  /\ \/ /\ NeedsForwarding(cfg)
        /\ ipForward' = TRUE
        /\ cut' = FALSE
        /\ pc' = AfterForwarding(cfg)
        /\ UNCHANGED <<result, budget>>
     \/ /\ NeedsForwarding(cfg)
        /\ Spend
        /\ Return("failed")
        /\ UNCHANGED <<ipForward, cut>>
     \/ /\ ~NeedsForwarding(cfg)
        /\ pc' = AfterForwarding(cfg)
        /\ UNCHANGED <<ipForward, cut, result, budget>>
  /\ UNCHANGED <<world, pass, stopping, processes, memo, nft, lost, script, health>>

\* apply_arp_assisted repeats the preflight; failing here stops the processes
\* and leaves the rules loaded.
Recheck ==
  /\ pc = "recheck"
  /\ IF PreflightPasses(cfg)
       THEN /\ todo' = KeysOf(cfg.targets)
            /\ pc' = "ensure"
            /\ UNCHANGED <<processes, result>>
       ELSE /\ StopArpAssisted
            /\ Return("bad")
            /\ UNCHANGED todo
  /\ UNCHANGED <<world, cfg, blocked, stopping, memo, kernel, script, health, budget>>

\* Mutant of EnsureArpspoof: poll() is not asked, an exited process is kept.
EnsureUnpolled(k) ==
  /\ pc = "ensure"
  /\ k \in todo
  /\ procs' = IF procs[k] = "none" THEN [procs EXCEPT ![k] = "alive"] ELSE procs
  /\ exited' = exited \ {k}
  /\ todo' = todo \ {k}
  /\ UNCHANGED <<world, pc, cfg, blocked, result, stopping, memo, kernel, script, health, budget>>

\* A running process is kept; an absent or exited one is started, and one that
\* exits at once is forgotten and raises.  The code walks the targets in order.
EnsureArpspoof(k) ==
  /\ pc = "ensure"
  /\ k \in todo
  /\ exited' = exited \ {k}
  /\ \/ /\ procs' = [procs EXCEPT ![k] = "alive"]
        /\ todo' = todo \ {k}
        /\ UNCHANGED <<pc, result, budget>>
     \/ /\ procs[k] # "alive"
        /\ Spend
        /\ procs' = [procs EXCEPT ![k] = "none"]
        /\ todo' = {}
        /\ Return("failed")
  /\ UNCHANGED <<world, cfg, blocked, stopping, memo, kernel, script, health>>

StopStale ==
  /\ procs' = [k \in Keys |-> IF k \in KeysOf(cfg.targets) THEN procs[k] ELSE "none"]
  /\ exited' = exited \cap KeysOf(cfg.targets)

FinishArpAssisted ==
  /\ pc = "ensure"
  /\ todo = {}
  /\ StopStale
  /\ Return("ok")
  /\ UNCHANGED <<world, pass, stopping, memo, kernel, script, health, budget>>

\* Modes other than ARP end by stopping what a former ARP mode left.
StopOther ==
  /\ pc = "stopOther"
  /\ StopArpAssisted
  /\ Return("ok")
  /\ UNCHANGED <<world, pass, stopping, memo, kernel, script, health, budget>>

Unknown == [mode |-> "unknown", ok |-> FALSE]

\* The loop writes the outcome to the store, "unknown" after an exception; the
\* bandwidth and alert steps that follow may raise one too.
RecordHealth ==
  /\ pc = "report"
  /\ \/ /\ health' = IF result = "failed" THEN Unknown
                                          ELSE [mode |-> cfg.mode, ok |-> result = "ok"]
        /\ UNCHANGED budget
     \/ /\ Spend
        /\ health' = Unknown
  /\ pc' = "idle"
  /\ UNCHANGED <<world, pass, result, stopping, processes, memo, kernel, script>>

\* After SIGTERM the loop ends and only the ARP processes are torn down.
StopAgent ==
  /\ pc = "idle" /\ stopping
  /\ StopArpAssisted
  /\ memo' = NoRules
  /\ lost' = FALSE
  /\ stopping' = FALSE
  /\ pc' = "stopped"
  /\ UNCHANGED <<world, pass, result, nft, ipForward, cut, script, health, budget>>

\* systemd starts a crashed agent again; an unreadable file ends the start.
Restart ==
  /\ pc = "crashed" /\ want.valid
  /\ pc' = "idle"
  /\ UNCHANGED <<world, pass, result, stopping, processes, memo, kernel, script, health, budget>>

AgentStep ==
  \/ LoadSettings \/ EvaluatePolicies
  \/ DnsOnlyStop \/ DnsOnlyFlush \/ DnsOnlyForwardingOff
  \/ Preflight \/ UnreadyFlush
  \/ CompareRuleset \/ LoadNftables \/ ConfigureForwarding
  \/ Recheck \/ (\E k \in Keys : EnsureArpspoof(k)) \/ FinishArpAssisted
  \/ StopOther \/ RecordHealth \/ StopAgent \/ Restart

-----------------------------------------------------------------------------
(* Everybody else.                                                         *)

\* A helper or an administrator replaces the configuration file.
Reconfigure ==
  /\ Spend
  /\ want' \in Wants \ {want}
  /\ UNCHANGED <<paused, local, pc, pass, result, stopping, processes, memo, kernel, script, health>>

\* A device starts or stops wanting a block: pause, bedtime, daily limit.
ChangePolicy ==
  /\ Spend
  /\ \E a \in Addr : paused' = IF a \in paused THEN paused \ {a} ELSE paused \cup {a}
  /\ UNCHANGED <<want, local, pc, pass, result, stopping, processes, memo, kernel, script, health>>

\* DHCP gives the Pi's interface another address, possibly a target's.
AddressChange ==
  /\ Spend
  /\ local' \in {{}} \cup {{a} : a \in Addr} /\ local' # local
  /\ UNCHANGED <<want, paused, pc, pass, result, stopping, processes, memo, kernel, script, health>>

ProcessExits ==
  /\ Spend
  /\ \E k \in Alive :
       /\ procs' = [procs EXCEPT ![k] = "dead"]
       /\ exited' = exited \cup {k}
  /\ UNCHANGED <<world, pc, pass, result, stopping, memo, kernel, script, health>>

\* The whole control group dies; the kernel keeps the table and the sysctl.
Crash ==
  /\ Spend
  /\ ~Down
  /\ procs' = NoProcs
  /\ exited' = {}
  /\ memo' = NoRules
  /\ lost' = FALSE
  /\ todo' = {}
  /\ pc' = IF stopping THEN "stopped" ELSE "crashed"
  /\ stopping' = FALSE
  /\ UNCHANGED <<world, cfg, blocked, result, nft, ipForward, cut, script, health>>

AllExit ==
  /\ procs' = [k \in Keys |-> IF procs[k] = "alive" THEN "dead" ELSE procs[k]]
  /\ exited' = exited \cup Alive

\* systemctl stop: SIGTERM to the agent and, as systemd does, to its children.
RequestStop ==
  /\ Spend
  /\ ~Down /\ ~stopping
  /\ stopping' = TRUE
  /\ AllExit \/ UNCHANGED processes
  /\ UNCHANGED <<world, pc, pass, result, memo, kernel, script, health>>

StartAgent ==
  /\ Spend
  /\ pc = "stopped" /\ want.valid
  /\ pc' = "idle"
  /\ UNCHANGED <<world, pass, result, stopping, processes, memo, kernel, script, health>>

\* rollback-network.sh once the agent has stopped: a controller of its own,
\* which knows no process and no memo, deletes the table.
Rollback ==
  /\ Spend
  /\ pc = "stopped"
  /\ nft' = NoRules
  /\ health' = IF want.valid THEN [mode |-> "dns_only", ok |-> TRUE] ELSE health
  /\ UNCHANGED <<world, pc, pass, result, stopping, processes, memo, ipForward, cut, lost, script>>

\* emergency-dns-only.sh runs beside the agent: file, table, sysctl, processes.
\* Started by the dashboard, it is followed by a health record.
EmergencyConfig ==
  /\ Spend
  /\ script = 0
  /\ want' = [cfg |-> DnsOnly, valid |-> TRUE]
  /\ script' = 1
  /\ UNCHANGED <<paused, local, pc, pass, result, stopping, processes, memo, kernel, health>>

EmergencyKernel ==
  /\ \/ /\ script = 1
        /\ nft' = NoRules
        /\ lost' = (memo # NoRules)
        /\ script' = 2
        /\ UNCHANGED <<ipForward, cut, processes, health>>
     \/ /\ script = 2
        /\ ipForward' = FALSE
        /\ cut' = TRUE
        /\ script' = 3
        /\ UNCHANGED <<nft, lost, processes, health>>
     \/ /\ script = 3
        /\ AllExit
        /\ script' = 0
        /\ health' \in {health, [mode |-> "dns_only", ok |-> TRUE]}
        /\ UNCHANGED kernel
  /\ UNCHANGED <<world, pc, pass, result, stopping, memo, budget>>

EnvironmentStep ==
  \/ Reconfigure \/ ChangePolicy \/ AddressChange \/ ProcessExits
  \/ Crash \/ RequestStop \/ StartAgent \/ Rollback
  \/ EmergencyConfig \/ EmergencyKernel

Next == AgentStep \/ EnvironmentStep

\* The loop runs for ever and systemd restarts a crashed agent; a root script
\* that was started runs to its end.  Nothing is assumed of the other actors.
Fairness == WF_vars(AgentStep) /\ WF_vars(EmergencyKernel)

Spec == Init /\ [][Next]_vars
FairSpec == Spec /\ Fairness

-----------------------------------------------------------------------------
(* What the controller must get right.                                     *)

Intercepting == Alive # {}

\* The kernel never holds another ruleset than the one the running agent
\* remembers: nobody but apply_nftables loads one, and it remembers each.
InstalledIsMemo == memo # NoRules /\ nft # NoRules => nft = memo

\* A linked device is intercepted without the Pi-Circle table (no redirect, no
\* block, no masquerade) only while the table is being replaced, or after it
\* was refused or deleted behind the memo: every other path of apply stops the
\* processes before it deletes the table and loads it before it starts them.
InterceptionFiltered == Intercepting /\ nft = NoRules => lost \/ pc = "nftLoad"

\* A linked device is intercepted by a Pi that does not forward only after the
\* emergency script cut forwarding under a pass in progress.
InterceptionForwards == Intercepting /\ ~ipForward => cut

\* After a healthy pass no ruleset of an earlier pass is in force: a resumed
\* device is not dropped, an unlinked one not redirected.
HealthyRulesAreCurrent ==
  pc = "report" /\ result = "ok" /\ nft # NoRules => nft = Ruleset(cfg, blocked)

\* A healthy pass leaves one process per direction of each target and no other,
\* each running or exited since this pass asked for it; an unhealthy one (failed
\* preflight) leaves none.
ReportedProcesses ==
  pc = "report" =>
    /\ result = "ok" =>
         /\ Known = IF cfg.mode = "arp_assisted" THEN KeysOf(cfg.targets) ELSE {}
         /\ Known \subseteq Alive \cup exited
    /\ result = "bad" => Known = {}

-----------------------------------------------------------------------------
(* Why the five hold: what is true at each step of a pass, as far as it     *)
(* takes to carry them from one step to the next (NetControllerProofs).      *)

\* The steps before a table is deleted for good run with no process left.
TeardownOrder ==
  /\ pc \in {"dnsFlush", "dnsForward", "unready"} => Known = {}
  /\ pc = "dnsForward" => nft = NoRules

\* Processes exist only in an agent that remembers a ruleset.
ProcessesImplyMemo == (Down \/ memo = NoRules => Known = {}) /\ (Down => memo = NoRules)

\* A remembered table that is not in the kernel is accounted for.
MissingTable == memo # NoRules /\ nft = NoRules => lost \/ pc = "nftLoad"

\* Past the load, the memo is this pass's ruleset; past the sysctl, the Pi
\* forwards or was cut; in the ensure loop, what was ensured is known and has
\* run since it was.
PassOrder ==
  /\ pc \in {"forward", "recheck", "ensure", "stopOther"} => memo = Ruleset(cfg, blocked)
  /\ pc \in {"preflight", "unready", "recheck", "ensure"} => cfg.mode = "arp_assisted"
  /\ pc \in {"dnsStop", "dnsFlush", "dnsForward"} => cfg.mode = "dns_only"
  /\ pc = "stopOther" => cfg.mode # "arp_assisted"
  /\ pc \in {"recheck", "ensure"} => ipForward \/ cut
  /\ pc = "ensure" =>
       /\ todo \subseteq KeysOf(cfg.targets)
       /\ KeysOf(cfg.targets) \ todo \subseteq Known
       /\ KeysOf(cfg.targets) \ todo \subseteq Alive \cup exited

Inductive ==
  /\ TypeOK
  /\ InstalledIsMemo /\ InterceptionFiltered /\ InterceptionForwards
  /\ HealthyRulesAreCurrent /\ ReportedProcesses
  /\ TeardownOrder /\ ProcessesImplyMemo /\ MissingTable /\ PassOrder

Running == ~stopping /\ pc # "stopped"
DnsOnlyWanted == Running /\ want.valid /\ want.cfg.mode = "dns_only"
LinkWanted == Running /\ want.valid /\ want.cfg.mode = "arp_assisted" /\ PreflightPasses(want.cfg)

\* Once the file asks for DNS-only mode for good, whatever was in progress
\* (a pass with the old settings, a crash, the emergency script) ends with no
\* interception, no table and no forwarding.
DnsOnlyRestores ==
  (<>[]DnsOnlyWanted) => <>[](Known = {} /\ nft = NoRules /\ ~ipForward)

\* Once the file names targets for good, they and only they are intercepted in
\* both directions through a forwarding Pi, whichever process died on the way,
\* and no ruleset but the wanted one is in force.
LinkedConverges ==
  (<>[]LinkWanted) =>
    <>[](/\ Alive = KeysOf(want.cfg.targets)
         /\ ipForward
         /\ nft \in {NoRules, Ruleset(want.cfg, paused)})
=============================================================================
