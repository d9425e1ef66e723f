----------------------------- MODULE PiholeSync -----------------------------
(***************************************************************************)
(* What Pi-Circle keeps in Pi-hole: the privacy shield's deny list, which  *)
(* the agent writes into gravity.db once an hour, and the two network      *)
(* settings Force IPv4 and Force Pi DNS, which it applies when its memo    *)
(* differs from config.toml.  A helper run by the dashboard writes and     *)
(* applies the same two settings, and the deny lists share domains.        *)
(* Commands of the agent and of the helpers interleave one by one.         *)
(***************************************************************************)
EXTENDS Naturals, FiniteSets

CONSTANTS
  Safe,       \* SAFE_EXACT_DOMAINS and TELEMETRY_REGEXES
  Strict,     \* STRICT_EXTRA_DOMAINS
  Bootstrap,  \* DOH_BOOTSTRAP_DOMAINS
  Requests,   \* runs of the flags helper that may be under way at once
  Files,      \* what config.toml says: shield, strict, ipv4, piDns
  Hour,       \* passes until the shield is written again
  MaxEvents   \* bound on requests, edits, crashes and failures

Domains == Safe \cup Strict \cup Bootstrap
Names == {"ipv4", "piDns"}

ASSUME PiholeAssumption ==
  /\ Files \subseteq [shield : BOOLEAN, strict : BOOLEAN, ipv4 : BOOLEAN, piDns : BOOLEAN]
  /\ \A f \in Files, v4, dns \in BOOLEAN :
       [shield |-> f.shield, strict |-> f.strict, ipv4 |-> v4, piDns |-> dns] \in Files
  /\ Hour \in Nat \ {0} /\ MaxEvents \in Nat

VARIABLES
  file,        \* config.toml
  rows,        \* domainlist: enabled with our comment ("tagged") or without ("on")
  active,      \* the domains FTL denies
  filterLine, noV6, suppressed,  \* filter-AAAA configured, resolveIPv6 off, AAAA filtered
  pc, cfg,     \* the agent: its step, the settings of the pass
  memo,        \* _force_ipv4_dns_applied, _force_pi_dns_applied: {} is None
  age,         \* passes since _last_privacy_sync
  helper,      \* set-network-flags.sh: its step and arguments
  behind,      \* settings that something other than the memo's owner upset
  owed,        \* has a reload of the lists been missed?
  budget

vars == <<file, rows, active, filterLine, noV6, suppressed, pc, cfg, memo, age,
          helper, behind, owed, budget>>
lists == <<rows, active, owed>>
filter == <<filterLine, noV6, suppressed>>
agent == <<pc, cfg, memo, age>>

Steps == {"load", "shield", "lists", "filter", "resolver", "reload", "deny"}
HelperSteps == {"idle", "filter", "resolver", "reload", "deny"}

TypeOK ==
  /\ file \in Files /\ cfg \in Files
  /\ rows \in [Domains -> {"absent", "off", "on", "tagged"}]
  /\ active \in SUBSET Domains
  /\ filterLine \in BOOLEAN /\ noV6 \in BOOLEAN /\ suppressed \in BOOLEAN
  /\ pc \in Steps
  /\ memo \in [Names -> {{}, {TRUE}, {FALSE}}]
  /\ age \in 0..Hour
  /\ helper \in [Requests -> [at : HelperSteps, ipv4 : BOOLEAN, piDns : BOOLEAN]]
  /\ behind \in SUBSET Names
  /\ owed \in BOOLEAN
  /\ budget \in 0..MaxEvents

Enabled(r) == {d \in Domains : r[d] \in {"on", "tagged"}}
NoRun == [at |-> "idle", ipv4 |-> FALSE, piDns |-> FALSE]
Idle == \A r \in Requests : helper[r].at = "idle"

Init ==
  /\ file \in Files /\ cfg = file
  /\ rows = [d \in Domains |-> "absent"] /\ active = {}
  /\ filterLine = FALSE /\ noV6 = FALSE /\ suppressed = FALSE
  /\ pc = "load" /\ age = Hour
  /\ memo = [n \in Names |-> {}]
  /\ helper = [r \in Requests |-> NoRun]
  /\ behind = {} /\ owed = FALSE
  /\ budget = MaxEvents

Spend == budget > 0 /\ budget' = budget - 1

(***************************************************************************)
(* What the commands do.                                                   *)
(***************************************************************************)
\* FTL reads the lists: on a reload, and with pihole deny.
ListsRead(r) == active' = Enabled(r) /\ owed' = FALSE

\* pihole deny adds what is not listed; pihole deny remove deletes, whoever listed it.
PiholeDeny(enabled) ==
  [d \in Domains |-> IF d \notin Bootstrap THEN rows[d]
                     ELSE IF ~enabled THEN "absent"
                     ELSE IF rows[d] = "absent" THEN "on" ELSE rows[d]]

\* systemctl reload pihole-FTL: the dnsmasq lines and the lists.
FtlReloaded == suppressed' = filterLine /\ ListsRead(rows)

\* A command that failed or timed out may have had its effect.
MayDeny(enabled) ==
  \/ UNCHANGED lists
  \/ rows' = PiholeDeny(enabled) /\ owed' = TRUE /\ UNCHANGED active

(***************************************************************************)
(* The agent's pass.                                                       *)
(***************************************************************************)
\* A start writes the shield at once: its age begins at Hour.
Due(settings) == settings.shield /\ age = Hour

Aged == IF age < Hour THEN age + 1 ELSE age

Load ==
  /\ pc = "load"
  /\ cfg' = file
  /\ pc' = IF Due(file) THEN "shield" ELSE "filter"
  /\ age' = Aged
  /\ UNCHANGED <<file, lists, filter, memo, helper, behind, budget>>

Wanted(settings) == Safe \cup (IF settings.strict THEN Strict ELSE {})
InsertedOnly(settings) ==  \* mutant: what is enabled again does not count
  {d \in Wanted(settings) : rows[d] = "absent"}
Upserted(settings) == {d \in Wanted(settings) : rows[d] # "tagged"}

\* One transaction; without a change nothing is reloaded.
SyncPiholeDenylist ==
  /\ pc = "shield"
  /\ rows' = [d \in Domains |-> IF d \in Wanted(cfg) THEN "tagged" ELSE rows[d]]
  /\ IF Upserted(cfg) = {}
     THEN pc' = "filter" /\ age' = 0
     ELSE pc' = "lists" /\ UNCHANGED age
  /\ UNCHANGED <<file, active, owed, filter, cfg, memo, helper, behind, budget>>

\* A failed reload is noted in the result and not tried again.
ReloadPiholeLists ==
  /\ pc = "lists" /\ pc' = "filter"
  /\ age' = 0
  /\ \/ ListsRead(rows) /\ UNCHANGED budget
     \/ Spend /\ owed' = TRUE /\ UNCHANGED active
  /\ UNCHANGED <<file, rows, filter, cfg, memo, helper, behind>>

\* gravity.db is locked, or the inventory fails.
PassFails ==
  /\ pc \in {"shield", "filter"} /\ pc' = "load"
  /\ Spend
  /\ UNCHANGED <<file, lists, filter, cfg, memo, age, helper, behind>>

AppliedOnce(name) == memo[name] # {}  \* mutant: a change is not applied
Applied(name) == memo[name] = {cfg[name]}
RememberAdditions(name) ==  \* mutant: a removal is repeated in every pass
  memo' = [memo EXCEPT ![name] = IF cfg[name] THEN {TRUE} ELSE {}]
Remember(name) == memo' = [memo EXCEPT ![name] = {cfg[name]}]

SyncForceIpv4Dns ==
  /\ pc = "filter"
  /\ IF Applied("ipv4") THEN pc' = "deny" /\ UNCHANGED filterLine
     ELSE pc' = "resolver" /\ filterLine' = cfg.ipv4
  /\ UNCHANGED <<file, lists, noV6, suppressed, cfg, memo, age, helper, behind, budget>>

ResolveIpv6Off ==  \* mutant: never switched back
  /\ pc = "resolver" /\ pc' = "reload"
  /\ noV6' = (noV6 \/ cfg.ipv4)
  /\ UNCHANGED <<file, lists, filterLine, suppressed, cfg, memo, age, helper, behind, budget>>
ResolveIpv6 ==
  /\ pc = "resolver" /\ pc' = "reload"
  /\ noV6' = cfg.ipv4
  /\ UNCHANGED <<file, lists, filterLine, suppressed, cfg, memo, age, helper, behind, budget>>

\* Both keys hold the value when the agent remembers it.
ReloadFtl ==
  /\ pc = "reload" /\ pc' = "deny"
  /\ FtlReloaded
  /\ Remember("ipv4")
  /\ behind' = IF Idle /\ filterLine = cfg.ipv4 /\ noV6 = cfg.ipv4
               THEN behind \ {"ipv4"} ELSE behind
  /\ UNCHANGED <<file, rows, filterLine, noV6, cfg, age, helper, budget>>

\* pihole-FTL --config fails: the next pass tries again while the memo differs.
\* A reload that is refused goes unnoticed, one that times out twice does not.
Ipv4CommandFails ==
  /\ \/ pc = "filter" /\ ~Applied("ipv4")
     \/ pc \in {"resolver", "reload"}
  /\ pc' = "deny"
  /\ filterLine' \in IF pc = "filter" THEN {filterLine, cfg.ipv4} ELSE {filterLine}
  /\ noV6' \in IF pc = "resolver" THEN {noV6, cfg.ipv4} ELSE {noV6}
  /\ UNCHANGED memo \/ (pc = "reload" /\ Remember("ipv4"))
  /\ behind' = behind \cup {"ipv4"}
  /\ Spend
  /\ UNCHANGED <<file, lists, suppressed, cfg, age, helper>>

SyncForcePiDns ==
  /\ pc = "deny" /\ pc' = "load"
  /\ IF Applied("piDns")
     THEN UNCHANGED <<lists, memo, behind>>
     ELSE /\ rows' = PiholeDeny(cfg.piDns) /\ ListsRead(rows')
          /\ Remember("piDns")
          /\ behind' = IF Idle THEN behind \ {"piDns"} ELSE behind
  /\ UNCHANGED <<file, filter, cfg, age, helper, budget>>

\* A removal that fails counts as done unless it timed out.
PiholeDenyFails ==
  /\ pc = "deny" /\ pc' = "load"
  /\ ~Applied("piDns")
  /\ MayDeny(cfg.piDns)
  /\ UNCHANGED memo \/ (~cfg.piDns /\ Remember("piDns"))
  /\ behind' = behind \cup {"piDns"}
  /\ Spend
  /\ UNCHANGED <<file, filter, cfg, age, helper>>

\* systemd starts the agent again; a reload it had not come to is missed.
Crash ==
  /\ pc' = "load" /\ age' = Hour
  /\ memo' = [n \in Names |-> {}]
  /\ owed' = (owed \/ pc = "lists")
  /\ Spend
  /\ UNCHANGED <<file, rows, active, filter, cfg, helper, behind>>

AgentStep ==
  \/ Load \/ SyncPiholeDenylist \/ ReloadPiholeLists \/ SyncForceIpv4Dns
  \/ ResolveIpv6 \/ ReloadFtl \/ SyncForcePiDns
AgentFault == PassFails \/ Ipv4CommandFails \/ PiholeDenyFails \/ Crash

(***************************************************************************)
(* The helper: it writes both settings, then applies them in turn.         *)
(***************************************************************************)
At(r, step) == helper' = [helper EXCEPT ![r].at = step]
Ends(r) == helper' = [helper EXCEPT ![r] = NoRun]

UpdateNetworkSettings(r, v4, dns) ==
  /\ helper[r].at = "idle"
  /\ helper' = [helper EXCEPT ![r] = [at |-> "filter", ipv4 |-> v4, piDns |-> dns]]
  /\ file' = [shield |-> file.shield, strict |-> file.strict, ipv4 |-> v4, piDns |-> dns]
  /\ behind' = IF Idle THEN behind ELSE Names
  /\ Spend
  /\ UNCHANGED <<lists, filter, agent>>

HelperFilter(r) ==
  /\ helper[r].at = "filter" /\ At(r, "resolver")
  /\ filterLine' = helper[r].ipv4
  /\ UNCHANGED <<file, lists, noV6, suppressed, agent, behind, budget>>

HelperResolver(r) ==
  /\ helper[r].at = "resolver" /\ At(r, "reload")
  /\ noV6' = helper[r].ipv4
  /\ UNCHANGED <<file, lists, filterLine, suppressed, agent, behind, budget>>

HelperReload(r) ==
  /\ helper[r].at = "reload" /\ At(r, "deny")
  /\ FtlReloaded
  /\ UNCHANGED <<file, rows, filterLine, noV6, agent, behind, budget>>

HelperDenyAdds(r) ==  \* mutant: the removal is forgotten
  /\ helper[r].at = "deny" /\ Ends(r)
  /\ rows' = (IF helper[r].piDns THEN PiholeDeny(TRUE) ELSE rows) /\ ListsRead(rows')
  /\ UNCHANGED <<file, filter, agent, behind, budget>>
HelperDeny(r) ==
  /\ helper[r].at = "deny" /\ Ends(r)
  /\ rows' = PiholeDeny(helper[r].piDns) /\ ListsRead(rows')
  /\ UNCHANGED <<file, filter, agent, behind, budget>>

\* A command of the first setting fails and ends the script, which times out anywhere.
HelperAborts(r) ==
  /\ helper[r].at # "idle" /\ Ends(r)
  /\ filterLine' \in IF helper[r].at = "filter" THEN {filterLine, helper[r].ipv4} ELSE {filterLine}
  /\ noV6' \in IF helper[r].at = "resolver" THEN {noV6, helper[r].ipv4} ELSE {noV6}
  /\ IF helper[r].at = "deny" THEN MayDeny(helper[r].piDns) ELSE UNCHANGED lists
  /\ behind' = behind \cup (IF helper[r].at = "deny" THEN {"piDns"} ELSE Names)
  /\ Spend
  /\ UNCHANGED <<file, suppressed, agent>>

HelperStep(r) == HelperFilter(r) \/ HelperResolver(r) \/ HelperReload(r) \/ HelperDeny(r)

(***************************************************************************)
(* Everybody else.                                                         *)
(***************************************************************************)
\* An operator edits config.toml.  A setting edited back to what the agent last
\* applied before it saw a change by the helper is not applied any more.
Unseen(f) ==
  IF Idle /\ pc \notin {"resolver", "reload"} THEN {n \in Names : memo[n] = {f[n]} /\ f[n] # file[n]}
  ELSE Names
EditFile(f) ==
  /\ f # file /\ file' = f
  /\ behind' = behind \cup Unseen(f)
  /\ Spend
  /\ UNCHANGED <<lists, filter, agent, helper>>

\* Somebody deletes or disables an entry in Pi-hole's own interface.
EditPihole(d, state) ==
  /\ rows[d] # state
  /\ rows' = [rows EXCEPT ![d] = state] /\ ListsRead(rows')
  /\ behind' = IF d \in Bootstrap THEN behind \cup {"piDns"} ELSE behind
  /\ Spend
  /\ UNCHANGED <<file, filter, agent, helper>>

Next ==
  \/ AgentStep \/ AgentFault
  \/ \E r \in Requests :
       \/ \E v4, dns \in BOOLEAN : UpdateNetworkSettings(r, v4, dns)
       \/ HelperStep(r) \/ HelperAborts(r)
  \/ \E f \in Files : EditFile(f)
  \/ \E d \in Domains, state \in {"absent", "off"} : EditPihole(d, state)

Spec == Init /\ [][Next]_vars /\ WF_vars(AgentStep) /\ \A r \in Requests : WF_vars(HelperStep(r))

(***************************************************************************)
(* Properties.                                                             *)
(***************************************************************************)
\* Where the agent takes Force IPv4 for applied and it is what config.toml asks
\* for (network.py, the test of the memo in _sync_force_ipv4_dns), Pi-hole
\* filters accordingly, unless a command failed, two writers of the setting
\* overlapped, or the agent is in the middle of applying what it read before.
Ipv4Follows ==
  (/\ memo.ipv4 = {file.ipv4} /\ Idle
   /\ "ipv4" \notin behind /\ pc \notin {"resolver", "reload"})
  => filterLine = file.ipv4 /\ noV6 = file.ipv4 /\ suppressed = file.ipv4

\* The same for Force Pi DNS and the deny list (_sync_force_pi_dns): the bootstrap
\* names are all listed, or none is that the shield does not want.
Listed(on) ==
  IF on THEN \A d \in Bootstrap : rows[d] # "absent"
  ELSE \A d \in Bootstrap \ (Safe \cup Strict) : rows[d] = "absent"
PiDnsFollows ==
  memo.piDns = {file.piDns} /\ Idle /\ "piDns" \notin behind => Listed(file.piDns)

\* FTL denies exactly what the list says, unless a reload failed or the agent
\* died before it (privacy_shield.py, sync_pihole_denylist: commit, then reload
\* if something was changed).
InForce == pc = "lists" \/ owed \/ active = Enabled(rows)

\* What carries the three from step to step.  A helper that nobody disturbed is
\* alone and applies what config.toml says; where the agent is applying that as
\* well, or has, each command either has passed leaves its part so.
Undisturbed ==
  \A r \in Requests : helper[r].at # "idle" =>
    /\ "ipv4" \in behind \/ helper[r].ipv4 = file.ipv4
    /\ "piDns" \in behind \/ helper[r].piDns = file.piDns
    /\ behind # Names => \A q \in Requests \ {r} : helper[q].at = "idle"

Past(steps) == \A r \in Requests : helper[r].at \in steps \cup {"idle"}
Agreed ==
  IF pc \in {"resolver", "reload"} THEN cfg.ipv4 = file.ipv4 ELSE memo.ipv4 = {file.ipv4}
Ipv4Progress ==
  "ipv4" \notin behind /\ Agreed =>
    /\ Past({"resolver", "reload", "deny"}) => filterLine = file.ipv4
    /\ Past({"reload", "deny"}) /\ pc # "resolver" => noV6 = file.ipv4
    /\ Past({"deny"}) /\ pc \notin {"resolver", "reload"} => suppressed = file.ipv4

\* Once things calm down the two settings are those of config.toml for good,
\* whatever the memo was left with (network.py, apply calls both in every pass).
EventuallyForced ==
  /\ <>[]("ipv4" \in behind \/ (filterLine = file.ipv4 /\ noV6 = file.ipv4 /\ suppressed = file.ipv4))
  /\ <>[]("piDns" \in behind \/ Listed(file.piDns))

\* The shield's domains end up denied for good, though a removal of the bootstrap
\* names takes some of them out (agent.py, _sync_privacy_shield repeats; network.py,
\* the removal does not).
EventuallyShielded ==
  <>[](file.shield => \A d \in Wanted(file) : rows[d] = "tagged")
=============================================================================
