------------------------------- MODULE Policy -------------------------------
(***************************************************************************)
(* Pause, bedtime and daily budget.  In every pass the agent charges a     *)
(* tick to each linked device it saw, evaluates the policy of every device *)
(* and hands the blocked ones to the controller.  It reads profiles and    *)
(* devices in two transactions, twice, while administrators change both.   *)
(* Time is counted in ticks, the agent's interval; bedtimes and budgets    *)
(* are given in ticks too.                                                 *)
(***************************************************************************)
EXTENDS Naturals, FiniteSets

CONSTANTS
  Devices,    \* rows of the devices table, by address
  Profiles,
  None,       \* NULL
  DayTicks,   \* ticks of a day
  Times,      \* ticks since midnight at which bedtimes begin and end
  Budgets,    \* daily budgets: a minute is more than a tick
  Defaults,   \* what initialize() writes where a profile has NULL
  Short,      \* numbers of ticks whose sum as floats falls short of the minute
  MaxGap,     \* ticks from pass to pass: the interval, and what the pass takes
  MaxEvents   \* bound on requests, comings and goings, and failures

Setting == [start : Times \cup {None}, end : Times \cup {None}, limit : Budgets \cup {None}]
Unlimited == [start |-> None, end |-> None, limit |-> None]

ASSUME PolicyAssumption ==
  /\ DayTicks \in Nat /\ MaxGap \in 1..DayTicks
  /\ Times \subseteq 0..(DayTicks - 1) /\ Budgets \subseteq Nat \ {0, 1}
  /\ None \notin Profiles /\ None \notin Times /\ None \notin Budgets
  /\ Defaults \in [Profiles -> Setting]
  /\ \A p \in Profiles : Defaults[p].start = None <=> Defaults[p].end = None
  /\ MaxEvents \in Nat

VARIABLES
  tick,       \* the clock: ticks since midnight
  profile, assigned, paused, enrolled,  \* the tables
  usage,      \* device_usage has a row per day and address; only today's is read
  online,     \* who uses the network
  pc, observed, targets, copy, verdict,  \* the agent: its step and locals
  inforce,    \* whom the controller blocks
  settled,    \* has nothing changed since the pass began?
  covered,    \* whom the last pass, a successful one, controls
  free,       \* ticks of today a controlled device was online and not blocked
  budget

vars == <<tick, profile, assigned, paused, enrolled, usage, online, pc, observed,
          targets, copy, verdict, inforce, settled, covered, free, budget>>
tables == <<profile, assigned, paused, enrolled>>
locals == <<observed, targets, copy, verdict>>
ghosts == <<settled, covered, free>>

Steps == {"wait", "begin", "profiles", "charge", "policies", "evaluate", "apply"}

TypeOK ==
  /\ tick \in 0..(DayTicks - 1)
  /\ profile \in [Profiles -> Setting]
  /\ \A p \in Profiles : profile[p].start = None <=> profile[p].end = None
  /\ assigned \in [Devices -> Profiles \cup {None}]
  /\ paused \in [Devices -> BOOLEAN]
  /\ enrolled \in SUBSET Devices /\ online \in SUBSET Devices
  /\ usage \in [Devices -> Nat]
  /\ pc \in Steps
  /\ observed \in SUBSET Devices /\ targets \in SUBSET Devices
  /\ copy \in [Profiles -> Setting]
  /\ verdict \in SUBSET Devices /\ inforce \in SUBSET Devices /\ covered \in SUBSET Devices
  /\ settled \in BOOLEAN
  /\ free \in [Devices -> Nat]
  /\ budget \in 0..MaxEvents

Zero == [d \in Devices |-> 0]
NoCopy == [p \in Profiles |-> Unlimited]

\* The agent starts over tables of an earlier life.
Init ==
  /\ tick = 0
  /\ profile = Defaults
  /\ assigned \in [Devices -> Profiles \cup {None}]
  /\ paused = [d \in Devices |-> FALSE]
  /\ enrolled \in SUBSET Devices /\ online \in SUBSET Devices
  /\ usage = Zero
  /\ pc = "begin" /\ observed = {} /\ targets = {}
  /\ copy = NoCopy
  /\ verdict = {} /\ inforce = {} /\ covered = {}
  /\ settled = FALSE
  /\ free = Zero
  /\ budget = MaxEvents

Spend == budget > 0 /\ budget' = budget - 1

(***************************************************************************)
(* The policy of one device.                                               *)
(***************************************************************************)
IsBedtimeActiveSameDay(start, end, now) ==  \* mutant: no overnight window
  start # None /\ end # None /\ start <= now /\ now < end
IsBedtimeActive(start, end, now) ==
  /\ start # None /\ end # None
  /\ start # end
  /\ IF start < end THEN start <= now /\ now < end ELSE now >= start \/ now < end

\* used_minutes >= daily_minutes, where used_minutes is the floor of a sum of
\* floats that may fall short of the minute it should have reached.
OverBudgetLate(limit, used) == limit # None /\ used > limit + 1  \* mutant: off by one
OverBudget(limit, used) ==
  limit # None /\ (used > limit \/ (used = limit /\ used \notin Short))

SettingOf(settings, d) == IF assigned[d] = None THEN Unlimited ELSE settings[assigned[d]]

WantsBlock(settings, d) ==
  LET s == SettingOf(settings, d) IN
  \/ paused[d]
  \/ IsBedtimeActive(s.start, s.end, tick)
  \/ OverBudget(s.limit, usage[d])

(***************************************************************************)
(* The agent's pass.                                                       *)
(***************************************************************************)
\* Sleeping and probing take their time; free counts it for today.
PastMidnight(k) == tick + k >= DayTicks
Online(d, k) == IF d \in covered \cap online /\ d \notin inforce THEN k ELSE 0
Wait(k) ==
  /\ pc = "wait" /\ pc' = "begin"
  /\ IF PastMidnight(k)
     THEN /\ tick' = tick + k - DayTicks
          /\ usage' = Zero
          /\ free' = [d \in Devices |-> Online(d, tick + k - DayTicks)]
     ELSE /\ tick' = tick + k
          /\ free' = [d \in Devices |-> free[d] + Online(d, k)]
          /\ UNCHANGED usage
  /\ UNCHANGED <<tables, online, locals, inforce, settled, covered, budget>>

\* The inventory and the reconciled targets (ControlPlane), and now.
Begin ==
  /\ pc = "begin" /\ pc' = "profiles"
  /\ observed' = online
  /\ targets' = enrolled \cap online
  /\ settled' = TRUE
  /\ UNCHANGED <<tick, tables, usage, online, copy, verdict, inforce, covered, free, budget>>

ReadProfiles ==
  /\ \/ pc = "profiles" /\ pc' = "charge"
     \/ pc = "policies" /\ pc' = "evaluate"
  /\ copy' = profile
  /\ UNCHANGED <<tick, tables, usage, online, observed, targets, verdict, inforce, ghosts, budget>>

\* _tick_usage: linked devices that are on the clock.  A blocked device is
\* charged as well.
Charged(d) ==
  LET s == SettingOf(copy, d) IN
  /\ d \in observed /\ d \in targets \cup enrolled
  /\ ~paused[d]
  /\ s.limit # None
  /\ ~IsBedtimeActive(s.start, s.end, tick)
AddUsageMinutes == [d \in Devices |-> usage[d] + (IF Charged(d) THEN 1 ELSE 0)]
TickUsage ==
  /\ pc = "charge" /\ pc' = "policies"
  /\ usage' = AddUsageMinutes
  /\ UNCHANGED <<tick, tables, online, locals, inforce, ghosts, budget>>

EvaluateAllPolicies ==
  /\ pc = "evaluate" /\ pc' = "apply"
  /\ verdict' = {d \in Devices : WantsBlock(copy, d) /\ d \in targets}
  /\ UNCHANGED <<tick, tables, usage, online, observed, targets, copy, inforce, ghosts, budget>>

EndPass == observed' = {} /\ targets' = {} /\ copy' = NoCopy /\ verdict' = {}
ApplyAdding ==  \* mutant: blocks are added, never lifted
  /\ pc = "apply" /\ pc' = "wait"
  /\ inforce' = inforce \cup verdict
  /\ covered' = targets
  /\ EndPass
  /\ UNCHANGED <<tick, tables, usage, online, settled, free, budget>>
Apply ==
  /\ pc = "apply" /\ pc' = "wait"
  /\ inforce' = verdict
  /\ covered' = targets
  /\ EndPass
  /\ UNCHANGED <<tick, tables, usage, online, settled, free, budget>>

\* An apply that is cut short has loaded its rules, or not, or has unloaded
\* the table.
CutShort == {inforce} \cup IF pc = "apply" THEN {verdict, {}} ELSE {}

\* An exception ends the pass.
Fail ==
  /\ Spend
  /\ pc \notin {"wait", "begin"} /\ pc' = "wait"
  /\ inforce' \in CutShort
  /\ EndPass
  /\ settled' = FALSE /\ covered' = {} /\ free' = Zero
  /\ UNCHANGED <<tick, tables, usage, online>>

\* initialize() fills in what an administrator has cleared.
Coalesce(value, default) == IF value = None THEN default ELSE value
Seeded == [p \in Profiles |->
  [start |-> Coalesce(profile[p].start, Defaults[p].start),
   end   |-> Coalesce(profile[p].end, Defaults[p].end),
   limit |-> Coalesce(profile[p].limit, Defaults[p].limit)]]

\* A crash, or an operator's restart: no interval passes before the next pass.
Restart ==
  /\ Spend
  /\ pc' = "begin"
  /\ profile' = Seeded
  /\ inforce' \in CutShort \cup {{}}
  /\ EndPass
  /\ settled' = FALSE /\ covered' = {} /\ free' = Zero
  /\ UNCHANGED <<tick, assigned, paused, enrolled, usage, online>>

(***************************************************************************)
(* Administrators and devices.                                             *)
(***************************************************************************)
Request ==
  /\ Spend
  /\ settled' = FALSE /\ free' = Zero
  /\ UNCHANGED <<tick, usage, online, pc, locals, inforce, covered>>

SetDevicePaused(d, on) ==
  /\ Request
  /\ paused' = [paused EXCEPT ![d] = on]
  /\ UNCHANGED <<profile, assigned, enrolled>>

AssignDeviceProfile(d, p) ==
  /\ Request
  /\ assigned' = [assigned EXCEPT ![d] = p]
  /\ UNCHANGED <<profile, paused, enrolled>>

SetDeviceEnrollment(d, on) ==
  /\ Request
  /\ enrolled' = IF on THEN enrolled \cup {d} ELSE enrolled \ {d}
  /\ UNCHANGED <<profile, assigned, paused>>

WithBedtime(p, start, end) == [start |-> start, end |-> end, limit |-> profile[p].limit]

\* Absent start or end keep what there is; a bedtime has both or neither.
UpdateBedtime(p, start, end) ==
  LET first == Coalesce(start, profile[p].start)
      last == Coalesce(end, profile[p].end) IN
  /\ Request
  /\ first = None <=> last = None
  /\ profile' = [profile EXCEPT ![p] = WithBedtime(p, first, last)]
  /\ UNCHANGED <<assigned, paused, enrolled>>
ClearBedtime(p) ==
  /\ Request
  /\ profile' = [profile EXCEPT ![p] = WithBedtime(p, None, None)]
  /\ UNCHANGED <<assigned, paused, enrolled>>
\* Zero minutes mean no limit, like clearing it.
UpdateDailyMinutes(p, limit) ==
  /\ Request
  /\ profile' = [profile EXCEPT ![p].limit = limit]
  /\ UNCHANGED <<assigned, paused, enrolled>>

\* The dashboard and the command-line tool initialize the store as well.
Initialize ==
  /\ Request
  /\ profile' = Seeded
  /\ UNCHANGED <<assigned, paused, enrolled>>

Presence ==
  /\ Spend
  /\ pc = "wait"
  /\ online' \in SUBSET Devices
  /\ UNCHANGED <<tick, tables, usage, pc, locals, inforce, ghosts>>

AgentStep ==
  \/ \E k \in 1..MaxGap : Wait(k)
  \/ Begin \/ ReadProfiles \/ TickUsage \/ EvaluateAllPolicies \/ Apply

DeviceRequest(d) ==
  \/ \E on \in BOOLEAN : SetDevicePaused(d, on) \/ SetDeviceEnrollment(d, on)
  \/ \E p \in Profiles \cup {None} : AssignDeviceProfile(d, p)

ProfileRequest(p) ==
  \/ \E start, end \in Times \cup {None} : UpdateBedtime(p, start, end)
  \/ ClearBedtime(p)
  \/ \E limit \in Budgets \cup {None} : UpdateDailyMinutes(p, limit)

Next ==
  \/ AgentStep \/ Fail \/ Restart \/ Presence \/ Initialize
  \/ \E d \in Devices : DeviceRequest(d)
  \/ \E p \in Profiles : ProfileRequest(p)

Spec == Init /\ [][Next]_vars /\ WF_vars(AgentStep)

(***************************************************************************)
(* Properties.                                                             *)
(***************************************************************************)
\* Ticks from start to now, going forward around the clock.
Since(start, now) == IF now >= start THEN now - start ELSE now + DayTicks - start
InWindow(start, end, now) ==
  start # None /\ end # None /\ Since(start, now) < Since(start, end)

ShouldBlock(d) ==
  \/ paused[d]
  \/ /\ assigned[d] # None
     /\ LET s == profile[assigned[d]] IN
        \/ InWindow(s.start, s.end, tick)
        \/ s.limit # None /\ usage[d] >= s.limit /\ (usage[d] \in Short => usage[d] > s.limit)

\* What carries Exact through the pass: what it has read still holds.
ReadHolds ==
  settled =>
    /\ pc \in {"charge", "evaluate"} => copy = profile
    /\ pc = "apply" => verdict = {d \in targets : ShouldBlock(d)}

\* A pass that nothing disturbed leaves exactly those linked devices blocked
\* whose pause, bedtime or budget asks for it at that time, whatever was
\* changed while earlier passes were under way (policy.py, agent.py:99).
Exact == pc = "wait" /\ settled => inforce = {d \in covered : ShouldBlock(d)}

\* Since the last request or failure, no device the agent controls was online
\* today for longer than its budget: as many ticks as the budget has, each of
\* them as long as the gap between two passes, and one more if the sum of
\* floats falls short.
Grace(s) == IF s.limit \in Short THEN 1 ELSE 0
BudgetHolds ==
  \A d \in Devices :
    LET s == SettingOf(profile, d) IN
    s.limit # None /\ ~paused[d] => free[d] <= MaxGap * (s.limit + Grace(s))

\* A spent budget is a day's: a device that nothing else blocks is let go
\* again and again.
OnlyBudget(d) == ~paused[d] /\ SettingOf(profile, d).start = None
BudgetRenews == \A d \in Devices : <>[]OnlyBudget(d) => []<>(d \notin inforce)
=============================================================================
