# Pi-Circle in TLA+

Pi-Circle turns a Raspberry Pi that runs Pi-hole into a parental-control
appliance: linked devices are intercepted by ARP spoofing, their DNS is
redirected to Pi-hole, and they can be paused, put to bed or limited. This
directory holds TLA+ modules that model its control logic, the configurations
TLC checks, and the theorems TLAPS proves. Paths are relative to the root of
the repository.

## 1. The system

Two Python processes and a few root scripts share one SQLite database, one
`config.toml`, the kernel and Pi-hole. Nothing locks them against each other.

| part | source | state it keeps | operations |
| --- | --- | --- | --- |
| agent loop | `src/pi_circle/agent.py` | settings of the pass, `_previous_present`, timers | one pass every 5 s: load, privacy sync, inventory, nmap, auto-link, reconcile, usage, policies, apply, health, bandwidth, alerts |
| network controller | `network.py`, `system.py` | `_arp_processes`, `_active_nft_ruleset`, force-flag memos; in the kernel the table `inet pi_circle` and `ip_forward` | `apply`, `flush_nftables`, `stop_arp_assisted` |
| enrollment | `enrollment.py` | none (devices table, `config.toml`) | auto-enroll, reconcile, call the target helper |
| inventory and presence | `inventory.py`, `presence.py`, `discovery.py`, `discovery_service.py` | devices table | probe the LAN, upsert, prune |
| store | `storage.py` | SQLite tables: devices, profiles, usage, access requests, alerts, bandwidth, health | one transaction per method, mostly |
| policy and usage | `policy.py`, `agent.py:168` | usage per address and day | bedtime, pause, budget |
| dashboard | `dashboard.py` | a cache with a time to live | about 60 HTTP handlers in a thread pool |
| live feed | `dashboard.py:892`, `web/static/app.js:1709` | the browser's events, newest id, filter | poll, join, change the filter |
| root helpers | `scripts/*.sh` | `config.toml`, kernel, devices table | set targets, set flags, emergency, rollback |
| access requests | `dashboard.py:617`, `storage.py:1041` | access_requests table, Pi-hole allow list | create, decide |
| alerts | `alerts.py`, `storage.py:932` | alerts table (capped) | evaluate, store, webhook, acknowledge |
| identity and nmap | `identity.py`, `nmap_identify.py`, `discovery_service.py`, `storage.py:344` | name, type and confidence of a row; when each device was scanned | label, relabel, choose targets, scan, apply |
| privacy shield | `privacy_shield.py` | Pi-hole gravity database | upsert deny entries, reload lists |
| bandwidth | `bandwidth.py`, `storage.py:806` | samples | read nft counters and conntrack, store, prune, rate |
| analytics, history, reports | `analytics.py`, `history.py`, `reports.py` | none (Pi-hole's query log) | totals, series, rankings, evidence |
| configuration loader | `config.py` | none | read and check `config.toml` |
| Pi-hole control and readers | `pihole_control.py`, `pihole.py`, `protection_db.py` | Pi-hole's | allow, deny, groups; queries |
| health and setup views, audit log, rest of the web UI, installer | the rest | nothing the control logic depends on | display |

How they interact:

* the dashboard changes enrollment in the devices table, then calls a root
  helper with the target list it computed; the helper rewrites `config.toml`;
* the agent reads the file, the table and the LAN at different moments of a
  pass, may call the same helper, and drives the kernel from what it read;
* the emergency script changes file, table, kernel and processes beside the
  running agent; the rollback script does so after stopping it;
* the access-request desk writes to Pi-hole through a helper, then to its row;
* all helpers write `config.toml` through one temporary file;
* agent and dashboard label the same rows, each with reads outside the lock;
* alerts, feed and analytics read the query log that Pi-hole's FTL writes.

What is hard about it: a pass works with copies (settings, observed addresses,
the ruleset memo) that the other parties invalidate; commands fail halfway;
the agent crashes with its rules in the kernel; a request's steps interleave
with those of another request and of the pass. Correctness, per component:

* controller: no interception without filter table and forwarding; no ruleset
  of an earlier pass in force; what is reported is so; DNS-only restores;
* enrollment: file, table and interception agree once things calm down; a
  rollback or emergency stop is final; an enrolled device that returns is linked;
* access requests: decided once, told consistently, approvals in force;
* store: a device's settings follow it, and only named writes take them away;
* policy: block exactly when paused, in bedtime or over budget;
* alerts and shield: nothing lost, nothing repeated, retried until in force;
* identity: what the administrator says stands; every device is scanned;
* `config.toml`: whoever dies or overlaps, the loader finds what it spells;
* feed, cache, rates, analytics: what is shown is what was there.

The file PROJECT.json lists the hazards line by line.

## 2. Modules

| module | models | composed with |
| --- | --- | --- |
| `NetController` | agent loop x network controller x kernel x root scripts | - |
| `NetControllerProofs` | its theorems | EXTENDS NetController |
| `ControlPlane` | agent pass x dashboard requests x helpers over table and file | the controller is one step |
| `AccessRequests` | the decision handlers | implements `DecisionRegister` |
| `DecisionRegister` | what the desk promises | - |
| `DeviceStore` | devices table x overlapping inventory synchronizations x administrator x LAN | - |
| `DeviceStoreProofs` | its theorems | EXTENDS DeviceStore |
| `Policy` | usage tick and evaluation x administrators x the clock | the controller is one step |
| `PolicyProofs` | its theorems | EXTENDS Policy |
| `PiholeSync` | privacy shield x the two force settings x flags helper over Pi-hole | Pi-hole's commands are external |
| `PiholeSyncProofs` | its theorems | EXTENDS PiholeSync |
| `ControlPlaneProofs` | its theorems | EXTENDS ControlPlane |
| `Identity` | labels and types x inventory, scans, administrator | - |
| `IdentityProofs` | its theorems | EXTENDS Identity |
| `ConfigFile` | helpers x operator over `config.toml` and its temporary file, the loader | in `MCDashboard` |
| `PayloadCache` | the dashboard's cache x its handlers | in `MCDashboard` |
| `LiveFeed` | query log x dashboard x browser | in `MCDashboard` |
| `DashboardProofs` | theorems of AccessRequests, ConfigFile, PayloadCache and LiveFeed | EXTENDS the four |
| `QueryLog` | Pi-hole's query log and its readers | - |
| `Alerts` | alerts of a pass x inbox x acknowledgements x reports | EXTENDS QueryLog |
| `Bandwidth` | counters, samples, rates | - |
| `Monitoring` | log and its readers, alerts, samples side by side | EXTENDS Alerts, Bandwidth |
| `MonitoringProofs` | its theorems and those of the three | EXTENDS Monitoring |
| `MC*` | constants for TLC | EXTENDS the module of that name |

### NetController

`pc` is the next step of the agent; each action is one command the controller
issues (a `nft`, a `sysctl`, an `arpspoof`) or one decision between two. `cfg`
and `blocked` are the locals of the pass, `procs` is `_arp_processes` with what
`poll()` would say, `exited` the processes that have ended since the pass
asked for their state, `memo` is `_active_nft_ruleset`. A ruleset is abstracted to
what distinguishes two texts of it: mode, targets, blocked targets. In ARP mode
the text also contains the resolved DoH addresses, which can change at any
time, so `CompareRuleset` may find it different without a reason in the model.
Two ghosts say why a state is excusable: `lost` (the table was refused or
deleted behind the memo) and `cut` (the emergency script switched forwarding
off under the agent). Everybody else, and every failing command, spends from
`budget`.

Left out: the two force-flag syncs at the head of `apply` (they share no
variable with the rest and are in `PiholeSync`), the `rp_filter` and
`send_redirects` keys (written with `check=False` and never read), the checks
for root and for the arpspoof binary (constant in a running installation).

### ControlPlane

The devices table is `rows` and `enrolled` (`managed = transparent_control`,
which every writer sets together), `config.toml` is `file`. A pass and a
request are cut at each access to one of them; a method of the store is one
step except `prune_absent_devices`, whose SELECT and DELETEs are not one
transaction. An inventory synchronization upserts device after device, and
auto-link reads a list and then writes device after device; in between anybody
may come. An identify request uses the settings its handler loaded at the
start. The dashboard runs up to `Workers` requests at once. The controller is
one step: `linked' = Interception(settings)`.

`settled` tells how the current pass relates to the last disturbance: 0 not
begun after it, 1 begun after it, 2 such a pass has ended. `cleared` holds
after a successful rollback or emergency stop until the next request starts.

Devices are addresses; a device that changes its address is `DeviceStore`'s
subject. The API accepts target lists that name devices nobody enrolled;
the reconciler takes them out, which `Converged` allows for.

### AccessRequests

Per worker one handler record; the steps are the existence check, the helper
call, the conditional UPDATE and the re-read. `confirmed` and `refused` record
what was answered. `Register` maps the row's decision to the abstract register.

### DeviceStore

A row keeps id, address, MAC, `enrolled` (both columns, as above) and
`configured`: paused, named or given a profile, which travel together. `sync`
holds the locals of each synchronization under way. An upsert is cut where
sqlite3 lets others in: each SELECT of `_migrate_device_ip` runs before the
transaction, which begins at the first DELETE, UPDATE or INSERT. `linked` and
`marked` are ghosts: what the administrator last asked for, by hardware.

The LAN gives each device addresses of its pool. `Lingering` lets an entry of
the neighbor table survive a change of address, so a device answers twice.
Which unused id comes next, and which of several rows of one MAC was seen last,
is left open. Left out: host names, automatic labels and device types, which
nothing here depends on. An entry without a MAC is left out as well (a neighbor
that has not resolved): its upsert leaves the row as it is.

Addresses are reused and synchronizations overlap, and then the code does lose
settings. `SettingsStay` says in which ways only: by one of three writes that rest
on a read which no longer holds (`Harms`: a row inserted for hardware that has
one elsewhere, a row given to other hardware, a row deleted that had no hardware
when it was read), or because it was linked when it had several rows or when a
prune was about to delete its row.

### Policy

The unit of time is the agent's interval, so a minute is several ticks and the
clock is the ticks since midnight. A pass reads profiles, then charges, reads
profiles again, then evaluates; requests come in between. `Wait(k)` is the sleep
and the time the pass takes. `Short` names the sums of floats that fall short of
their minute (with the default interval that is so for 621 of the 1440 minutes
of a day). The reference in `ShouldBlock` is written apart from the code's
comparisons: a bedtime is a window on a circular clock (`Since`). A pass that an
exception cuts short may leave the rules of the pass before, its own verdict's
or none in force (`CutShort`): the commands of `apply` that fail come before and
after the load. Ghosts: `settled`, whether a request or failure came in since
the pass began; `covered`, whom the last pass controls; `free`, how long a
covered device was online today.

Left out: the fields for display, descriptions, and usage of other days, which
nothing reads. A device is its address here.

### PiholeSync

`rows` is Pi-hole's domainlist, of which four states of an entry matter: absent,
disabled, enabled, and enabled with the shield's comment. `active` is what FTL
denies, which follows only when it reads the lists. `filterLine` and `noV6` are
the two keys of Force IPv4, `suppressed` the lines FTL runs with. `memo` holds
the agent's two `_applied` fields as a set: empty for `None`. Agent and helper
are cut at each command. Ghosts: `behind`, the settings for which a command
failed, two writers overlapped, or a value was changed to and fro before the
agent could see it; `owed`, whether a reload of the lists was missed.

Time is counted in passes, an hour being `Hour` of them. Left out: a gravity
database that does not exist, and a clock that is set back, which puts the next
sync off. The start's own sync is that of the first pass, which is due.

### Identity

Three threads run `Work`: the agent's scan and the dashboard's refresh and
identify handlers; `SetIdentity` is the administrator. An upsert begins with a
statement that writes, so it is one step; a label or an applied scan reads its
row in a SELECT that holds no lock, so each is a read step (`ReadLabel`,
`ReadRow`; `held` is the row read) and a write step. A row keeps its type, its
hostname, where its name comes from (nobody, the program, a scan, the
administrator) and its confidence. The heuristics that guess a type or a name
from vendor and hostname are constants (`Inferred`, `Suggested`, `Plain`), any
functions that agree where both name a type, except for the gateway, which
`suggest_identity` calls a router whatever its hostname tells. A scan finds
anything or nothing. Ghosts: `hand`, the label the administrator last gave;
`raced`, the addresses labelled while a writer held their old row. Rows that
follow a MAC address are `DeviceStore`'s.

### ConfigFile

The file is an inode, and so is the temporary one: a helper reads the file,
opens (and truncates) `config.toml.tmp`, writes and renames, each a step, so
that two helpers may hold the same inode. A text is the settings it spells and
the tail of a longer text below it. `LoadOutcome` is the loader: what it
accepts, the defaults it makes of an empty file, and that it refuses a torn
one. A helper reads the file twice: for its checks, and for its edit. `taint`
follows a run that shared the temporary file, found a file already unsound or
saw other unmanaged addresses in its second reading; `excused` says that the
file at hand came from such a run.

### PayloadCache, LiveFeed

`PayloadCache` has one entry and any number of handlers that look it up, produce
and store; an answer is the time at which it was read. `LiveFeed` has two
requests in flight, each answered from the log of some moment and received in
any order or lost; when the log cannot be read the answer is a success without
events (`ServeNothing`); `latest` and `shown` are the browser's. Ghosts: `overlap`,
whether two polls or a poll and a change of the filter overlapped; `missed`,
the rows a fetch limit cut off.

### QueryLog, Alerts, Bandwidth

`QueryLog` translates each query of `analytics.py` and `history.py` into an
operator over the rows of FTL's log; the log grows and is pruned under it. The
order of equally frequent names is left open. `Alerts` is the tail of a pass:
drafts are computed at one time, added and posted one by one, and the pass may
fail or die between them. A tick is the shorter window of the DNS alerts.
`ever` keeps what was added, `due` what the pass found worth telling.
`Bandwidth` keeps beside each sample what the address had really moved
(`real`); nft counters start at zero with each load of the ruleset, conntrack's
flows end, and either reading may fail. A series is what the store makes of it:
it looks one bucket back from its window, takes the delta of each pair of
samples, and averages the rates of a bucket into a bar.

Left out: the wording of alerts, reports (which choose among these figures by
privacy level), CSV, and the counting of connections with its averages. Windows
and limits are constants.

## 3. Runs

Bounds: two addresses suffice for "another device's entry survives or is
lost"; two workers for any overlap of two requests; `MaxEvents` counts events
outside the modelled code, three of them being the longest chain any known
failure needs (change the file, run the script, fail a command), and the
theorems of section 5 remove the bound where they apply.

| run | bound | shows |
| --- | --- | --- |
| network | 2 addresses, files of all modes, 3 events | interception, rules and reports are consistent; DNS-only restores; linked targets converge |
| control_overlap | 2 devices, 2 workers, 3 events | convergence, finality of clearing |
| control_convergence | 2 devices, 1 worker, all requests and faults, 3 events | eventual agreement |
| control_reconnect | 2 devices, 1 worker, link only, no faults, 3 events | **violated**: an enrolled device that stays is linked in the end |
| access_refused | 1 request | **violated**: a refused decision has no effect |
| store_serial | 2 devices, 3 addresses, stale neighbors, 2 syncs in turn, 5 events | settings follow a device |
| store_overlap | 2 devices sharing 2 addresses, 2 overlapping syncs, 3 events | unique keys, settings lost by named writes only, nothing made up, the table converges |
| policy | 1 device, 1 profile, 11 ticks a day, gaps of 1 or 2, 3 events | blocked exactly when asked for; budgets hold and renew |
| pihole_sync | 2 domains, 2 helper runs, 2 events | memos are true, the list is in force, settings and shield converge |
| identity | 2 devices, one the gateway, scans of 1 host, 1 handler, 2 starts | hand labels stand, known types stay, every device is scanned |
| dashboard | access desk: 2 requests, 2 handlers, 5 events; feed: 3 rows, limit 1; file: 2 helpers, 4 edits; cache: 2 handlers, 5 seconds | approvals in force and the register refined; the feed is the log and catches up through empty answers; the file stays loadable; answers are fresh |
| monitoring | log: 3 ticks; alerts: 3, of which 2 kept; bandwidth: 2 addresses, 4 passes, 3 samples kept, bars of 2 ticks | nothing told twice or forgotten; readers agree; rates and bars are real |

In policy's run a day of eleven ticks holds a bedtime within the day and one over
midnight, and is longer than any budget with its grace, that of the limit whose
sum of floats falls short included; a second device would share nothing but the
profile. In store_serial three addresses let one device
move while the other stays, and four ids leave a free one whenever every
address has a row; the LAN is populated from the start, so five events are
enough to link, configure, move, abort and move back. In store_overlap two ids
do (a free address leaves one of them free), which makes ids of deleted rows
come back soon, as they do in SQLite, and three events are a change of the LAN,
a handler's synchronization and a failure or request beside it.

In pihole_sync one domain is named by shield and bootstrap list, one by the
latter only; two events are two helper runs, overlapping or in turn, or one and
a failure, crash or edit beside it.

The runs dashboard, monitoring and identity each hold parts that share no
variable; `part` picks one at the start, so that a run explores the parts' sum
and not their product. In dashboard, three rows exceed the limit of a fetch (1,
with filtering 2) and of the feed (2); four edits are two overlapping helpers
with one before and one after, or an operator's edit between a helper's two
readings; the cache's clock passes its time to live of 2 twice. In monitoring
the batches of lookups pass every threshold and hit limit, three alerts push
one out of an inbox of two, the log's three ticks exceed its windows, and one
address begins with the text of the other (as 192.168.1.20 with 192.168.1.2).
Each address moves one byte at a time; `Unit` is a multiple of every distance
between two samples, which keeps rates whole, and a bar is kept as the sum and
the number of the rates it is the mean of. Four passes let samples fall out of
the store and out of the window of a series.
In identity part "scans" has two devices of which a scan takes one at a time;
in the others a handler, the agent and the administrator meet at one device.

Two runs are violated, each by a disagreement of the code with what is written
beside it:

* control_reconnect: the comment at `enrollment.py:102-103` says "Enrolled devices
  must auto-reconnect when they reappear, including promoting dns_only ->
  arp_assisted". The agent, the only caller, passes `allow_promote` true only in
  ARP mode (`agent.py:86`): a device that was the last to leave finds DNS-only
  mode when it returns, and stays unlinked though enrolled (`EnrolledReconnect`).
* access_refused: `tests/test_storage.py:127-128` says that the second decision on
  a request is refused, and so it is; but the handler has added the allow rule by
  then (`RefusedHasNoEffect`). The test says nothing of the rule.

More divergences show in the models without a run of their own. First those
of control:

* the memo says that a table which was lost is in force, so it is never loaded
  again (`CompareRuleset`), though `docs/architecture.md:121` wants unhealthy
  forwarding to end in DNS-only mode; `InterceptionFiltered` has to except
  `lost`;
* two helpers at once share `config.toml.tmp`: one may rename the empty file the
  other has just opened, which loads as the defaults without a word, or leave a
  torn file, which neither agent nor dashboard can load and which makes the
  emergency helper fail as well (`Taints`, `LoadOutcome`);
* the target helper checks its list against one reading of the file and edits
  another: an address made unmanaged in between leaves a file the loader refuses;
* one refused address refuses the whole list (`CheckTargets`): while an enrolled
  device is unmanaged or the gateway, no pass updates the targets of the others;
* an exception out of a pass leaves the processes of the pass before running
  (`Unknown` leaves `procs` alone), though `docs/architecture.md:119` wants
  interception stopped when a health check fails;
* the rollback deletes the table and leaves `ip_forward` on (`Rollback` leaves
  `ipForward` alone); `docs/network-control-design.md:129` says otherwise;
* an `always_allow` is stored with status `denied` (`StatusOf`), since the
  status is derived from the decision's spelling; `web/static/app.js:865` shows
  the status `approved` for it;
* a device that gets the address of an absent one takes over that device's row
  with its enrollment and settings (`Insert`), though `storage.py:320` says that
  an address of other hardware is left alone: set `Pool <- SharedPools` in
  `DeviceStoreSerial.cfg` and TLC shows it;
* of two overlapping synchronizations one can prune or migrate away a row that
  was linked after it had been read: set `Overlap = TRUE` there;
* a pass that read `auto_link_android` before a rollback enrolls the device
  again after it (`ListAndroids` uses the settings of the pass), though
  `enrollment.py:103` says that a rollback stops this;
* a force setting that was applied by half, or whose removal failed, and two
  helpers that overlapped leave Pi-hole at odds with `config.toml` until the
  setting is changed or the agent restarts (`behind` stays): the memo is equal
  to the file, so `Applied` holds;
* a reload of the lists that failed is not tried again (`owed` stays), since the
  next sync finds nothing to change; the alerts of `alerts.py:82` then name
  destinations as denied that are not;
* a bedtime or limit that an administrator cleared in Kids or Guests comes back
  whenever a process starts (`Seeded`); the comment at `storage.py:222` speaks
  of older databases only.

Then those of what is shown:

* a label given by hand is overwritten by a scan or relabel that read the row
  before it (`storage.py:643`, `:347`): `HandLabelsStand` excepts `raced`;
* the type "unknown", given by hand, is replaced by the next upsert that infers
  one (`Upserted`, `storage.py:272`);
* what `apply_nmap_identities` persists (`nmap_identify.py:203`) does not stay:
  the next upsert writes its own confidence over it, and the next label its
  name, unless a type was found;
* more devices that stay unknown than scans fit into their two minutes keep the
  scanner from all known ones (`Candidates`); `ScansReachAll` has fewer;
* only twelve privacy hits are looked at, before those told lately are left out
  (`alerts.py:62`): a device with many catalogued domains hides another's;
* the comment "One alert per device+class every 2h" (`alerts.py:69`) holds across
  passes; one pass tells one alert for each domain (`PrivacyAlerts`);
* the browser's polls do not wait for each other: two that overlap show events
  twice, and an answer to the old filter, received after the feed was emptied,
  makes the feed skip rows of the new one (`Receive`, `overlap`);
* two samples of one address from different sources give a rate nobody moved,
  and with conntrack alone an address counts the flows of those that begin with
  its text (`Delta`, `Takers`);
* a device that left shows its last rate until its samples are pruned;
* a restarted agent takes all devices present for known and never tells those
  that came while it was down (`previous` is empty).

What the exceptions leave out. Several properties except the very states in which
a hazard strikes, since there the code does go wrong (the lists above say how).
They show that nothing else goes wrong, and that the damage is confined; of the
hazard itself they show nothing:

| exception | in | leaves out |
| --- | --- | --- |
| `lost` | `InterceptionFiltered` | a table deleted or refused behind the memo |
| `excused` | `ConfigIsSound` | two helpers on one temporary file; a list checked against another reading |
| `overlap`, `missed` | `FeedIsTheLog`, `FeedCatchesUp` | polls that overlap; rows cut off by a fetch limit |
| `raced` | `HandLabelsStand` | a label given while a writer holds the row of before |
| `behind` | `Ipv4Follows`, `PiDnsFollows`, `EventuallyForced` | settings applied by half, helpers that overlapped |
| `owed` | `InForce` | a reload of the lists that failed or was not reached |
| `settled` | `Converged`, `Exact` | passes in whose course something changed |
| hits beyond the limit | `KnownOnlyWhenTold` | what the limit on privacy hits hides |
| same pass | `NoRepeat` | several alerts of one class in one pass |
| same source | `RatesAreHonest` | rates between samples of different sources |
| `Harms` | `SettingsStay` | takeover of an address, duplicates of an overlap, late deletions |

`ApprovalInForce` is bounded by what is modelled: an administrator may take an
approved domain off the allow list again through `POST /api/pihole/allow` with
`action=remove` (`dashboard.py:851-864`), which is not an action of
AccessRequests.

Every passing property has a mutant, kept in the module beside the definition
it replaces: a plausible bug in that code under which TLC finds the property
violated.

Deadlock is checked in ControlPlane, DeviceStore, Policy, PiholeSync and
Identity. NetController really may stop, since an operator stops the agent for
good; so may the access desk, once every request is decided, and the other
parts of dashboard and monitoring, where rows, edits, lookups and the clock are
bounded and nothing else moves of itself.

## 4. Fairness

* `WF_vars(AgentStep)`: the loop has no exit but SIGTERM and catches every
  exception, and systemd restarts a crashed agent (`Restart=on-failure`). It
  covers the restart as well; systemd's start-rate limit is not modelled.
* `WF_vars(EmergencyKernel)`: a script that was started runs to its end.
* `WF_vars(ServeRequest(w))`: a request under way is answered; helper calls
  have timeouts.
* `WF_vars(SyncStep(s))`: the agent synchronizes in every pass, and a handler
  that has begun ends. The handlers' synchronizations spend from the budget:
  two that went on for ever could each undo the other's merge.

* `WF_vars(AgentStep)` of Policy and PiholeSync: as above; time passes with the
  pass. `WF_vars(HelperStep(r))`: a script that was started runs to its end.

* `IdFairness` of Identity: the agent works on, a scan having a timeout, and
  minutes pass. Nothing is assumed of handlers and administrator.

* `FeedFairness` of LiveFeed: the timer polls (weak); who could again and again
  answer a request from the log, receive an answer, or receive one with news,
  does so at some time. These are strong conditions, since the log may be locked
  and any answer may be lost at any one time, but not for ever.

Nothing is assumed of operators, devices, faults or file edits. Since those are
bounded by the budget, "for good" in the liveness properties is reached.

## 5. Proofs

`NetControllerProofs` proves, for every set of addresses, every set of files and
any number of events: `Spec => []TypeOK`, and the five safety invariants of
network. The one on the report (`TruthfulReport`) says that a process the report
counts on was running when the pass asked, and runs unless it has exited since.
None of the five is inductive: that processes are gone before the table is
deleted, that they exist only in an agent that remembers a ruleset, that past
the load the memo is this pass's ruleset, and that a missing table is accounted
for are what carries them from step to step. `Inductive` joins these facts; the
proof has one case per action.

`DashboardProofs` proves the inductive invariant of the desk (a row is
undecided exactly while its status says so; an approving handler reaches the
row only after the rule; a handler that re-reads finds a decision), that
approvals are in force, and that the desk implements `DecisionRegister`, for
any number of requests, domains and handlers.

`DeviceStoreProofs` proves, for any numbers of devices, addresses and
synchronizations, with any overlap and any reuse of addresses, that keys and
addresses stay unique, that a synchronization makes up no settings, and that a
linked device loses its settings by a named write only (`SettingsLossIsBounded`).
That settings follow a device while nothing overlaps and no address is reused
(`SettingsFollow`) is model-checked; DHCP does reuse addresses, so a theorem under
that hypothesis would say little of the code. To see that the hypothesis is
needed set `Pool <- SharedPools`, or `Overlap = TRUE`, in `DeviceStoreSerial.cfg`.

`PolicyProofs` proves that the code's comparison of clock times is membership
in the circular window, that no bedtime is ever half set, and that an
undisturbed pass is exact. The invariant behind it (`ReadHolds`) says that in a
pass nothing has disturbed the profiles read are those in force, and the
verdict is the reference's.

`PiholeSyncProofs` proves, for any lists of domains and any number of helper
runs, that what the agent remembers of a setting, and `config.toml` still asks
for, is so in Pi-hole, and that FTL denies what the list says, each short of the
failures the ghosts record. Two invariants carry this: a helper nobody disturbed
is alone and applies what the file says (`Undisturbed`); and where agent and
file agree, each command that the helper and the agent have both passed has
left its part so (`Ipv4Progress`).

`ControlPlaneProofs` proves, for any sets of devices and handlers, any requests
and any number of faults: types; `Converged`; and, where auto-link stays off,
`ClearingIsFinal`. Convergence needs what a pass that nothing disturbed knows at
each of its steps (`Known`: its settings are the file's, what it saw is what is
there, it dooms no enrolled row, it writes the enrolled devices that are
present) and what it leaves (`Agreed`), both under `settled`; a file with
targets is in ARP mode (`FileOK`). The finality of clearing needs that no
request outlives the one that cleared (`solo`) and that a pass with auto-link
off enrolls nobody (`ClearInv`). Without that hypothesis it is false, which a
divergence of section 3 records; control_overlap leaves the request that
switches auto-link on out (`DefaultOps`), control_convergence has it.

`IdentityProofs` proves, for any heuristics, hints and numbers of devices, that
a label that stands is in its row, because no thread holds a row of before it
(`NobodyHolds`), and that known types stay. `DashboardProofs` proves, for any
number of helpers and editors, that the file is sound short of what `excused`
records: a helper about to write or rename that is not tainted owns the
temporary file alone, and it holds a sound text, or an empty file it is about to
fill (`Untainted`, `Vouched`); that there is always a free inode is a matter of
counting. It proves as well, for any time to live, that answers are fresh: an
entry was read no earlier than the time it is stored under.

`PolicyProofs` proves the budget, too: since the last request or failure a
device is online no longer than its budget, in gaps, plus a gap where sums of
floats fall short. Each gap in which the device is free follows a pass that
charged it a tick, except the one before the next charge (`BudgetInv`).

`DashboardProofs` proves of the live feed, for any filters, limits and length of
the log, that a feed whose requests did not overlap is the log
(`FeedIsTheLog`). The invariant (`FeedInv`) says what an answer under way holds
while it is in step with the browser -- every matching row between where the
feed ends and the answer's newest, short of those a fetch limit cut off -- and
that a row once cut off has at least a fetch's worth of newer rows of its client
(`Gone`), so that no later answer holds it and the feed never has to go back for
it. Lemmas about lists in order carry the joining and trimming: a set has one
such list, joining newer ids and trimming commute with taking the newest k.
The proof showed that `SetFilter` had a CASE with two true arms, which TLC reads
in order and TLA+ does not; it is disjoint now.

`MonitoringProofs` proves every safety property of the run monitoring, for any
clients, domains, thresholds, capacities and numbers of passes, first of
Alerts, Bandwidth and QueryLog and then of Monitoring's `Spec`:

* `NoRepeat` and `KnownOnlyWhenTold`, from `AlertsInv`: ids number what was ever
  told, the inbox is the newest of it up to acknowledgements, a pass under way
  has looked at an inbox that only grew since, and what was due when it looked
  is told or still among its drafts;
* `RatesAreHonest` and `LatestSurvive`, from `BandInv`: samples are in order of
  time, what had been moved at one is no more than at the next, and no source shows
  more than one of its samples and what was moved since; a bar is a mean of such
  rates. A conntrack reading is a sum over the flows that an order of the
  addresses assigns to one of them, compared with the traffic of the address and
  its namesakes; a series is summed by induction over the samples of its window;
* `AnalyticsHold`: the timeline's buckets and the clients' shares partition the
  window, so their sums add up to the totals; the services are a sum over some
  of the domains; `EvidenceHolds`: a blocked domain is ranked above every one
  never blocked, since no domain has more lookups than there are. They need of
  the log that its rows lie in the past and count something (`Past`,
  `IsLookups`).

Sums and folds over finite sets need induction over the size of a set, and the
library's induction theorems have an operator as parameter, which the provers
cannot instantiate. The proofs use a first-order form (`SetInduction`): a
collection of subsets that has the empty set, and every set all of whose parts
short of one element it has, has the whole; it follows from the library's
well-founded ordering of finite subsets and `WFMin`. From it come the existence
of folds and sums, their independence of the order in which CHOOSE takes the
elements, and the lemmas on parts, unions, groups and bounds that the rest cites.

Assumptions used, each as weak as the code justifies and evaluated by TLC:
`WantsAssumption`, `AddrAssumption`, `OpsAssumption`, `BoundAssumption`,
`DomainAssumption`, `DeviceAssumption`, `PolicyAssumption` (the tables of
limits and times are of the right types), `PiholeAssumption`,
`IdentityConstants` (the heuristics are functions that agree but for the gateway),
`NoRow`,
`ConfigConstants` (finitely many helpers), `CacheConstants`, `FeedConstants` (an
answer fits into the feed: 100 events of 200), `LogConstants` (finitely many
clients and domains, lookups that count something), `AlertConstants` (an inbox
that holds something, catalogued domains of the privacy kinds), `BandConstants`
(finitely many addresses and flows, at least two samples kept; the code keeps
2200).

The type invariants, and the inductive invariants of NetController and
AccessRequests, are proved and, but for those of DeviceStore and Monitoring
(keys that stay unique under overlap; an inbox that is the newest of what was
told), not listed in a cfg; add `TypeOK` or `Inductive` to one to see TLC agree.

Every invariant and action property that a passing run checks is proved, except
`SettingsFollow`. Model-checked only, besides: the liveness properties
(`DnsOnlyRestores`, `LinkedConverges`, `EventuallyConverged`,
`EventuallyListed`, `BudgetRenews`, `EventuallyForced`, `EventuallyShielded`,
`ScansReachAll`, `FeedCatchesUp`), as fairness and ENABLED are outside the
provers' reach.

## 6. Not modelled

* Probing (`presence.py`, `discovery.py`) and parsing of what commands print:
  its results are inputs. The heuristics of `identity.py` and `nmap_identify.py`
  are tables; as constants they may be any function.
* The loader's checks of ports, paths and minutes: they refuse a file as a whole,
  as the check of targets does, which is modelled.
* Pi-hole control's other commands and Pi-hole's lists: each passes one request
  to Pi-hole and its answer back, and keeps nothing.
* The audit log, which nothing reads back; health and setup views, which probe
  and display; the wording of alerts, reports, insights and CSV.
* The web interface but for the live feed: it keeps nothing across requests.
* Installer, packaging and container: one-off set-up; the container's helpers
  mirror the scripts.
* A helper that goes on running after its caller timed out, in ControlPlane and
  PiholeSync: there it is one that finished before the answer. ConfigFile's
  helpers run beside each other without regard to callers.
* An overview's several SELECTs: they are one reading of the log.

Three of the hazards in PROJECT.json have no property: that usage is kept by
address (`storage.py:500`), which would need the rows of DeviceStore in Policy;
that privacy hits beyond the limit are never told (`alerts.py:62`); and that the
browser's polls overlap (`app.js:1709`). In the last two the code goes wrong as
section 3 says, and the properties nearby except them. If the program changes,
the places to extend first are a lock on the temporary file (which makes `taint`
and `excused` superfluous), a read inside the transaction of a label (`raced`),
and a memo that is compared with the kernel (`lost`): each turns an exception in
a property into a stronger property.
