---------------------------- MODULE PolicyProofs ----------------------------
(***************************************************************************)
(* Proofs about Policy, for any devices, profiles, length of the day and   *)
(* number of events: the bedtime test is the circular window it stands     *)
(* for, types, and what an undisturbed pass leaves blocked.                *)
(***************************************************************************)
EXTENDS Policy, TLAPS

\* The comparison of clock times with its overnight case (policy.py,
\* is_bedtime_active) says that less time has passed since the bedtime began
\* than the bedtime lasts.
THEOREM BedtimeIsCircular ==
  ASSUME NEW start \in Times \cup {None}, NEW end \in Times \cup {None},
         NEW now \in 0..(DayTicks - 1)
  PROVE  IsBedtimeActive(start, end, now) <=> InWindow(start, end, now)
<1>1. CASE start = None \/ end = None
  BY <1>1 DEF IsBedtimeActive, InWindow
<1>2. CASE start # None /\ end # None
  <2>1. start \in 0..(DayTicks - 1) /\ end \in 0..(DayTicks - 1) /\ DayTicks \in Nat
    BY <1>2, PolicyAssumption
  <2>2. QED
    BY <1>2, <2>1 DEF IsBedtimeActive, InWindow, Since
<1>3. QED
  BY <1>1, <1>2

-----------------------------------------------------------------------------
(* Types.                                                                  *)

LEMMA SpendType == ASSUME budget \in 0..MaxEvents, Spend PROVE budget' \in 0..MaxEvents
BY PolicyAssumption DEF Spend

LEMMA UnlimitedType == Unlimited \in Setting
BY DEF Unlimited, Setting

\* A bedtime has a start if and only if it has an end.
Whole(settings) ==
  /\ settings \in [Profiles -> Setting]
  /\ \A p \in Profiles : settings[p].start = None <=> settings[p].end = None

LEMMA SeededType == ASSUME Whole(profile) PROVE Whole(Seeded)
BY PolicyAssumption DEF Whole, Seeded, Coalesce, Setting

LEMMA InitType == Init => TypeOK
<1> SUFFICES ASSUME Init PROVE TypeOK
  OBVIOUS
<1>1. NoCopy \in [Profiles -> Setting]
  BY UnlimitedType DEF NoCopy
<1>2. 0 \in 0..(DayTicks - 1) /\ MaxEvents \in 0..MaxEvents
  BY PolicyAssumption
<1>3. QED
  BY <1>1, <1>2, PolicyAssumption DEF Init, TypeOK, Zero, Steps

LEMMA OnlineType == ASSUME NEW d, NEW k \in Nat PROVE Online(d, k) \in Nat
BY DEF Online

LEMMA WaitType == ASSUME TypeOK, NEW k \in 1..MaxGap, Wait(k) PROVE TypeOK'
<1> USE PolicyAssumption
<1>1. tick' \in 0..(DayTicks - 1)
  BY DEF TypeOK, Wait, PastMidnight
<1>2. free' \in [Devices -> Nat]
  <2>1. CASE PastMidnight(k)
    <3>1. tick + k - DayTicks \in Nat
      BY <2>1 DEF TypeOK, PastMidnight
    <3>2. QED
      BY <2>1, <3>1, OnlineType DEF Wait
  <2>2. CASE ~PastMidnight(k)
    <3>1. \A d \in Devices : free[d] + Online(d, k) \in Nat
      BY OnlineType DEF TypeOK
    <3>2. QED
      BY <2>2, <3>1 DEF Wait
  <2>3. QED
    BY <2>1, <2>2
<1>3. usage' \in [Devices -> Nat]
  BY DEF TypeOK, Wait, Zero
<1>4. QED
  BY <1>1, <1>2, <1>3 DEF TypeOK, Wait, tables, locals, Steps

LEMMA AgentType ==
  ASSUME TypeOK, Begin \/ ReadProfiles \/ TickUsage \/ EvaluateAllPolicies \/ Apply
  PROVE  TypeOK'
<1>1. CASE Begin
  BY <1>1 DEF TypeOK, Begin, tables, Steps
<1>2. CASE ReadProfiles
  BY <1>2 DEF TypeOK, ReadProfiles, tables, ghosts, Steps
<1>3. CASE TickUsage
  <2>1. AddUsageMinutes \in [Devices -> Nat]
    BY DEF TypeOK, AddUsageMinutes
  <2>2. QED
    BY <1>3, <2>1 DEF TypeOK, TickUsage, tables, locals, ghosts, Steps
<1>4. CASE EvaluateAllPolicies
  BY <1>4 DEF TypeOK, EvaluateAllPolicies, tables, ghosts, Steps
<1>5. CASE Apply
  BY <1>5, UnlimitedType DEF TypeOK, Apply, EndPass, NoCopy, tables, Steps
<1>6. QED
  BY <1>1, <1>2, <1>3, <1>4, <1>5

LEMMA FailType == ASSUME TypeOK, Fail PROVE TypeOK'
<1>1. budget' \in 0..MaxEvents
  BY SpendType DEF TypeOK, Fail
<1>2. QED
  BY <1>1, UnlimitedType DEF TypeOK, Fail, CutShort, EndPass, NoCopy, Zero, tables, Steps

LEMMA RestartType == ASSUME TypeOK, Restart PROVE TypeOK'
<1>1. budget' \in 0..MaxEvents
  BY SpendType DEF TypeOK, Restart
<1>2. Whole(profile')
  BY SeededType DEF TypeOK, Whole, Restart
<1>3. QED
  BY <1>1, <1>2, UnlimitedType DEF TypeOK, Whole, Restart, CutShort, EndPass, NoCopy, Zero, Steps

\* What every request does to the types, whatever it changes in the tables.
LEMMA RequestType ==
  ASSUME TypeOK, Request,
         Whole(profile'), assigned' \in [Devices -> Profiles \cup {None}],
         paused' \in [Devices -> BOOLEAN], enrolled' \in SUBSET Devices
  PROVE  TypeOK'
<1>1. budget' \in 0..MaxEvents
  BY SpendType DEF TypeOK, Request
<1>2. QED
  BY <1>1 DEF TypeOK, Whole, Request, Zero, locals

LEMMA DeviceRequestType == ASSUME TypeOK, NEW d \in Devices, DeviceRequest(d) PROVE TypeOK'
<1>1. CASE \E on \in BOOLEAN : SetDevicePaused(d, on)
  BY <1>1, RequestType DEF TypeOK, Whole, SetDevicePaused
<1>2. CASE \E on \in BOOLEAN : SetDeviceEnrollment(d, on)
  BY <1>2, RequestType DEF TypeOK, Whole, SetDeviceEnrollment
<1>3. CASE \E p \in Profiles \cup {None} : AssignDeviceProfile(d, p)
  BY <1>3, RequestType DEF TypeOK, Whole, AssignDeviceProfile
<1>4. QED
  BY <1>1, <1>2, <1>3 DEF DeviceRequest

LEMMA WithBedtimeWhole ==
  ASSUME Whole(profile), NEW p \in Profiles, NEW start, NEW end,
         start \in Times \cup {None}, end \in Times \cup {None}, start = None <=> end = None
  PROVE  Whole([profile EXCEPT ![p] = WithBedtime(p, start, end)])
<1>1. profile[p] \in Setting
  BY DEF Whole
<1>2. /\ WithBedtime(p, start, end) \in Setting
      /\ WithBedtime(p, start, end).start = start /\ WithBedtime(p, start, end).end = end
  BY <1>1 DEF WithBedtime, Setting
<1>3. QED
  BY <1>2 DEF Whole

LEMMA ProfileRequestType == ASSUME TypeOK, NEW p \in Profiles, ProfileRequest(p) PROVE TypeOK'
<1>a. Whole(profile)
  BY DEF TypeOK, Whole
<1>1. ASSUME NEW start \in Times \cup {None}, NEW end \in Times \cup {None},
             UpdateBedtime(p, start, end)
      PROVE  TypeOK'
  <2> DEFINE first == Coalesce(start, profile[p].start)
             last == Coalesce(end, profile[p].end)
  <2>1. profile[p] \in Setting
    BY <1>a DEF Whole
  <2>2. first \in Times \cup {None} /\ last \in Times \cup {None}
    BY <2>1 DEF Coalesce, Setting
  <2>3. /\ first = None <=> last = None
        /\ profile' = [profile EXCEPT ![p] = WithBedtime(p, first, last)]
    BY <1>1 DEF UpdateBedtime
  <2> HIDE DEF first, last
  <2>4. Whole(profile')
    BY <1>a, <2>2, <2>3, WithBedtimeWhole
  <2>5. QED
    BY <1>1, <2>4, RequestType DEF TypeOK, UpdateBedtime
<1>2. CASE ClearBedtime(p)
  <2>1. Whole(profile')
    BY <1>2, <1>a, WithBedtimeWhole DEF ClearBedtime
  <2>2. QED
    BY <1>2, <2>1, RequestType DEF TypeOK, ClearBedtime
<1>3. ASSUME NEW limit \in Budgets \cup {None}, UpdateDailyMinutes(p, limit) PROVE TypeOK'
  <2>1. Whole(profile')
    BY <1>3 DEF TypeOK, Whole, UpdateDailyMinutes, Setting
  <2>2. QED
    BY <1>3, <2>1, RequestType DEF TypeOK, UpdateDailyMinutes
<1>4. QED
  BY <1>1, <1>2, <1>3 DEF ProfileRequest

LEMMA NextType == ASSUME TypeOK, [Next]_vars PROVE TypeOK'
<1>1. CASE AgentStep
  BY <1>1, WaitType, AgentType DEF AgentStep
<1>2. CASE Fail
  BY <1>2, FailType
<1>3. CASE Restart
  BY <1>3, RestartType
<1>4. CASE Presence
  <2>1. budget' \in 0..MaxEvents
    BY <1>4, SpendType DEF TypeOK, Presence
  <2>2. QED
    BY <1>4, <2>1 DEF TypeOK, Presence, tables, locals, ghosts
<1>5. CASE Initialize
  BY <1>5, SeededType, RequestType DEF TypeOK, Whole, Initialize
<1>6. CASE \E d \in Devices : DeviceRequest(d)
  BY <1>6, DeviceRequestType
<1>7. CASE \E p \in Profiles : ProfileRequest(p)
  BY <1>7, ProfileRequestType
<1>8. CASE UNCHANGED vars
  BY <1>8 DEF TypeOK, vars
<1>9. QED
  BY <1>1, <1>2, <1>3, <1>4, <1>5, <1>6, <1>7, <1>8 DEF Next

\* Every variable keeps its type, and no bedtime is ever half set
\* (storage.py, update_profile and initialize).
THEOREM TypeCorrect == Spec => []TypeOK
<1>1. Init => TypeOK
  BY InitType
<1>2. TypeOK /\ [Next]_vars => TypeOK'
  BY NextType
<1>3. QED
  BY <1>1, <1>2, PTL DEF Spec

-----------------------------------------------------------------------------
(* What an undisturbed pass leaves blocked.                                *)

\* The evaluation agrees with the reference, where it has read the profiles
\* that are in force.
LEMMA EvaluationIsReference ==
  ASSUME TypeOK, NEW d \in Devices
  PROVE  WantsBlock(profile, d) <=> ShouldBlock(d)
<1> USE PolicyAssumption
<1>1. CASE assigned[d] = None
  <2>1. SettingOf(profile, d) = Unlimited
    BY <1>1 DEF SettingOf
  <2>2. ~IsBedtimeActive(None, None, tick) /\ ~OverBudget(None, usage[d])
    BY DEF IsBedtimeActive, OverBudget
  <2>3. Unlimited.start = None /\ Unlimited.end = None /\ Unlimited.limit = None
    BY DEF Unlimited
  <2>4. QED
    BY <1>1, <2>1, <2>2, <2>3 DEF WantsBlock, ShouldBlock
<1>2. CASE assigned[d] # None
  <2> DEFINE s == profile[assigned[d]]
  <2>1. SettingOf(profile, d) = s
    BY <1>2 DEF SettingOf
  <2>2. s \in Setting
    BY <1>2 DEF TypeOK
  <2>3. s.start \in Times \cup {None} /\ s.end \in Times \cup {None} /\ s.limit \in Budgets \cup {None}
    BY <2>2 DEF Setting
  <2> HIDE DEF s
  <2>4. IsBedtimeActive(s.start, s.end, tick) <=> InWindow(s.start, s.end, tick)
    BY <2>3, BedtimeIsCircular DEF TypeOK
  <2>5. usage[d] \in Nat
    BY DEF TypeOK
  <2>6. OverBudget(s.limit, usage[d]) <=>
          s.limit # None /\ usage[d] >= s.limit /\ (usage[d] \in Short => usage[d] > s.limit)
    <3>1. CASE s.limit = None
      BY <3>1 DEF OverBudget
    <3>2. CASE s.limit # None
      <4>1. s.limit \in Nat
        BY <2>3, <3>2
      <4>2. QED
        BY <2>5, <3>2, <4>1 DEF OverBudget
    <3>3. QED
      BY <3>1, <3>2
  <2>7. WantsBlock(profile, d) <=>
          paused[d] \/ IsBedtimeActive(s.start, s.end, tick) \/ OverBudget(s.limit, usage[d])
    BY <2>1 DEF WantsBlock
  <2>8. ShouldBlock(d) <=>
          \/ paused[d] \/ InWindow(s.start, s.end, tick)
          \/ s.limit # None /\ usage[d] >= s.limit /\ (usage[d] \in Short => usage[d] > s.limit)
    BY <1>2 DEF ShouldBlock, s
  <2>9. QED
    BY <2>4, <2>6, <2>7, <2>8
<1>3. QED
  BY <1>1, <1>2

\* What ShouldBlock depends on.
LEMMA SameReference ==
  ASSUME UNCHANGED <<tick, profile, assigned, paused, usage>>, NEW d
  PROVE  ShouldBlock(d)' = ShouldBlock(d)
BY DEF ShouldBlock

LEMMA InitReads == Init => ReadHolds /\ Exact
BY DEF Init, ReadHolds, Exact

LEMMA Unsettled == ASSUME settled' = FALSE PROVE ReadHolds' /\ Exact'
BY DEF ReadHolds, Exact

LEMMA EvaluateReads == ASSUME TypeOK, ReadHolds, EvaluateAllPolicies PROVE ReadHolds' /\ Exact'
<1>1. pc' = "apply"
  BY DEF EvaluateAllPolicies
<1>2. ASSUME settled' PROVE verdict' = {d \in targets' : ShouldBlock(d)'}
  <2>1. settled /\ copy = profile
    BY <1>2 DEF EvaluateAllPolicies, ghosts, ReadHolds
  <2>2. verdict' = {d \in Devices : WantsBlock(profile, d) /\ d \in targets}
    BY <2>1 DEF EvaluateAllPolicies
  <2>3. \A d \in Devices : WantsBlock(profile, d) <=> ShouldBlock(d)
    BY EvaluationIsReference
  <2>4. \A d : ShouldBlock(d)' = ShouldBlock(d)
    BY SameReference DEF EvaluateAllPolicies, tables
  <2>5. targets' = targets /\ targets \subseteq Devices
    BY DEF EvaluateAllPolicies, TypeOK
  <2>6. QED
    BY <2>2, <2>3, <2>4, <2>5
<1>3. QED
  BY <1>1, <1>2 DEF ReadHolds, Exact

LEMMA ApplyReads == ASSUME ReadHolds, Apply PROVE ReadHolds' /\ Exact'
<1>1. pc = "apply" /\ pc' = "wait"
  BY DEF Apply
<1>2. ASSUME settled' PROVE inforce' = {d \in covered' : ShouldBlock(d)'}
  <2>1. verdict = {d \in targets : ShouldBlock(d)}
    BY <1>1, <1>2 DEF Apply, ReadHolds
  <2>2. \A d : ShouldBlock(d)' = ShouldBlock(d)
    BY SameReference DEF Apply, tables
  <2>3. QED
    BY <2>1, <2>2 DEF Apply
<1>3. QED
  BY <1>1, <1>2 DEF ReadHolds, Exact

LEMMA NextReads == ASSUME TypeOK, ReadHolds, Exact, [Next]_vars PROVE ReadHolds' /\ Exact'
<1>1. ASSUME NEW k \in 1..MaxGap, Wait(k) PROVE ReadHolds' /\ Exact'
  BY <1>1 DEF Wait, ReadHolds, Exact
<1>2. CASE Begin
  BY <1>2 DEF Begin, ReadHolds, Exact
<1>3. CASE ReadProfiles
  BY <1>3 DEF ReadProfiles, tables, ReadHolds, Exact
<1>4. CASE TickUsage
  BY <1>4 DEF TickUsage, ReadHolds, Exact
<1>5. CASE EvaluateAllPolicies
  BY <1>5, EvaluateReads
<1>6. CASE Apply
  BY <1>6, ApplyReads
<1>7. CASE Fail \/ Restart \/ Initialize
  BY <1>7, Unsettled DEF Fail, Restart, Initialize, Request
<1>8. CASE Presence
  <2>1. \A d : ShouldBlock(d)' = ShouldBlock(d)
    BY <1>8, SameReference DEF Presence, tables
  <2>2. QED
    BY <1>8, <2>1 DEF Presence, locals, ghosts, ReadHolds, Exact
<1>9. CASE \E d \in Devices : DeviceRequest(d)
  BY <1>9, Unsettled
  DEF DeviceRequest, SetDevicePaused, SetDeviceEnrollment, AssignDeviceProfile, Request
<1>10. CASE \E p \in Profiles : ProfileRequest(p)
  BY <1>10, Unsettled
  DEF ProfileRequest, UpdateBedtime, ClearBedtime, UpdateDailyMinutes, Request
<1>11. CASE UNCHANGED vars
  <2>1. \A d : ShouldBlock(d)' = ShouldBlock(d)
    BY <1>11, SameReference DEF vars
  <2>2. QED
    BY <1>11, <2>1 DEF vars, ReadHolds, Exact
<1>12. QED
  BY <1>1, <1>2, <1>3, <1>4, <1>5, <1>6, <1>7, <1>8, <1>9, <1>10, <1>11 DEF Next, AgentStep

\* Whatever administrators change while a pass reads profiles and devices
\* twice, one that nothing disturbed leaves exactly the devices blocked whose
\* pause, bedtime or budget asks for it (agent.py:99, policy.py).
THEOREM ExactHolds == Spec => []Exact
<1>1. Init => ReadHolds /\ Exact
  BY InitReads
<1>2. TypeOK /\ ReadHolds /\ Exact /\ [Next]_vars => ReadHolds' /\ Exact'
  BY NextReads
<1>3. QED
  BY <1>1, <1>2, TypeCorrect, PTL DEF Spec

-----------------------------------------------------------------------------
(* Budgets.  Every gap a device is free in follows a pass that charged it,  *)
(* but for one: that of a pass a request disturbed, or of midnight, which   *)
(* clears the charge.                                                       *)

Limited(d) == SettingOf(profile, d).limit # None /\ ~paused[d]
InBed(d) == IsBedtimeActive(SettingOf(profile, d).start, SettingOf(profile, d).end, tick)
Bound(d) == SettingOf(profile, d).limit + Grace(SettingOf(profile, d))

\* A limited device that the pass in progress, or the last one, has charged.
OnClock(d) ==
  /\ settled /\ Limited(d) /\ ~InBed(d)
  /\ \/ pc \in {"policies", "evaluate", "apply"} /\ d \in targets
     \/ pc = "wait" /\ d \in covered

Within(d) ==
  /\ Limited(d) => free[d] <= MaxGap * (usage[d] + 1) /\ free[d] <= MaxGap * Bound(d)
  /\ OnClock(d) => free[d] <= MaxGap * usage[d]

Fresh == ~settled => (pc # "begin" => free = Zero)

BudgetInv ==
  /\ pc \in {"profiles", "charge"} => targets \subseteq observed
  /\ Fresh
  /\ \A d \in Devices : Within(d)

LEMMA Gaps ==
  /\ MaxGap \in Nat
  /\ \A a \in Nat : MaxGap * a \in Nat /\ MaxGap * (a + 1) = MaxGap * a + MaxGap
  /\ \A a, b \in Nat : a <= b => MaxGap * a <= MaxGap * b
<1>1. MaxGap \in Nat
  BY PolicyAssumption
<1>2. \A a \in Nat : MaxGap * a \in Nat /\ MaxGap * (a + 1) = MaxGap * a + MaxGap
  BY <1>1
<1>3. ASSUME NEW a \in Nat, NEW b \in Nat, a <= b PROVE MaxGap * a <= MaxGap * b
  <2>1. PICK c \in Nat : b = a + c
    <3>1. b - a \in Nat /\ b = a + (b - a)
      BY <1>3
    <3> QED
      BY <3>1
  <2>2. MaxGap * b = MaxGap * a + MaxGap * c
    BY <1>1, <2>1
  <2> QED
    BY <1>2, <2>2
<1> QED
  BY <1>1, <1>2, <1>3

LEMMA GapsNotNegative == \A a \in Nat : 0 <= MaxGap * a
<1>1. ASSUME NEW a \in Nat PROVE 0 <= MaxGap * a
  <2>1. MaxGap * a \in Nat
    BY <1>1, Gaps, Zenon
  <2> QED
    BY <2>1
<1> QED
  BY <1>1

LEMMA LimitType ==
  ASSUME NEW s \in Setting, s.limit # None
  PROVE  /\ s.limit \in Nat /\ s.limit >= 2
         /\ s.limit + Grace(s) \in Nat /\ s.limit + Grace(s) >= 2
<1>1. s.limit \in Budgets
  BY DEF Setting
<1>2. \A n \in Budgets : n \in Nat /\ n >= 2
  BY PolicyAssumption
<1> QED
  BY <1>1, <1>2 DEF Grace

LEMMA BoundType ==
  ASSUME TypeOK, NEW d \in Devices, Limited(d)
  PROVE  SettingOf(profile, d).limit \in Nat /\ Bound(d) \in Nat /\ Bound(d) >= 2
<1>1. SettingOf(profile, d) \in Setting
  BY UnlimitedType DEF SettingOf, TypeOK
<1> QED
  BY <1>1, LimitType DEF Limited, Bound

\* A step that sets nothing free that it has not zeroed.
LEMMA ZeroWithin ==
  ASSUME TypeOK', free' = Zero
  PROVE  (\A d \in Devices : Within(d))' /\ Fresh'
<1> SUFFICES ASSUME NEW d \in Devices' PROVE Within(d)'
  BY DEF Fresh
<1>1. free'[d] = 0 /\ usage'[d] \in Nat
  BY DEF Zero, TypeOK
<1>2. Limited(d)' => Bound(d)' \in Nat
  <2>1. SettingOf(profile, d)' \in Setting
    BY UnlimitedType DEF SettingOf, TypeOK
  <2> QED
    BY <2>1, LimitType DEF Limited, Bound
<1>3. /\ 0 <= MaxGap * (usage'[d] + 1) /\ 0 <= MaxGap * usage'[d]
      /\ Limited(d)' => 0 <= MaxGap * Bound(d)'
  <2>1. usage'[d] + 1 \in Nat
    BY <1>1
  <2> QED
    BY <1>1, <1>2, <2>1, GapsNotNegative, Zenon
<1> QED
  BY <1>1, <1>3 DEF Within

\* What a device that is not blocked has left.
LEMMA NotOver ==
  ASSUME TypeOK, NEW d \in Devices, Limited(d), ~ShouldBlock(d)
  PROVE  usage[d] + 1 <= Bound(d) /\ ~InBed(d)
<1>1. ~WantsBlock(profile, d)
  BY EvaluationIsReference
<1>2. usage[d] \in Nat /\ SettingOf(profile, d).limit \in Nat
  BY BoundType DEF TypeOK
<1>3. ~OverBudget(SettingOf(profile, d).limit, usage[d]) /\ ~InBed(d)
  BY <1>1 DEF WantsBlock, InBed
<1>4. \/ usage[d] < SettingOf(profile, d).limit
      \/ usage[d] = SettingOf(profile, d).limit /\ usage[d] \in Short
  BY <1>2, <1>3 DEF OverBudget, Limited
<1> QED
  BY <1>2, <1>3, <1>4 DEF Bound, Grace

LEMMA OnlineBound ==
  ASSUME NEW d, NEW k \in Nat, k <= MaxGap
  PROVE  Online(d, k) \in Nat /\ Online(d, k) <= MaxGap
BY Gaps DEF Online

LEMMA WaitWithin ==
  ASSUME TypeOK, Exact, BudgetInv, NEW k \in 1..MaxGap, Wait(k)
  PROVE  BudgetInv'
<1>1. pc = "wait" /\ pc' = "begin" /\ UNCHANGED <<profile, assigned, paused, settled, covered, inforce>>
  BY DEF Wait, tables
<1>2. k \in Nat /\ k <= MaxGap /\ MaxGap \in Nat
  BY Gaps
<1>3. ASSUME NEW d \in Devices PROVE Within(d)'
  <2> SUFFICES ASSUME Limited(d)
               PROVE  free'[d] <= MaxGap * (usage'[d] + 1) /\ free'[d] <= MaxGap * Bound(d)
    BY <1>1 DEF Within, OnClock, Limited, Bound, SettingOf, Grace
  <2>1. Bound(d) \in Nat /\ Bound(d) >= 2 /\ usage[d] \in Nat /\ free[d] \in Nat
    BY BoundType DEF TypeOK
  <2>2. /\ MaxGap * (usage[d] + 1) = MaxGap * usage[d] + MaxGap
        /\ MaxGap * usage[d] \in Nat /\ MaxGap * Bound(d) \in Nat
        /\ MaxGap <= MaxGap * Bound(d)
    <3>1. MaxGap * 1 <= MaxGap * Bound(d) /\ MaxGap * 1 = MaxGap
      <4>1. 1 \in Nat /\ 1 <= Bound(d)
        BY <2>1
      <4>2. MaxGap * 1 <= MaxGap * Bound(d)
        BY <2>1, <4>1, Gaps, Zenon
      <4> QED
        BY <1>2, <4>2
    <3> QED
      BY <2>1, <3>1, Gaps, Zenon
  <2>3. CASE PastMidnight(k)
    <3>1. tick + k - DayTicks \in Nat /\ tick + k - DayTicks <= MaxGap
      BY <1>2, <2>3, PolicyAssumption DEF TypeOK, PastMidnight
    <3>2. usage'[d] = 0 /\ free'[d] = Online(d, tick + k - DayTicks)
      BY <2>3 DEF Wait, Zero
    <3>3. free'[d] <= MaxGap /\ free'[d] \in Nat
      BY <3>1, <3>2, OnlineBound
    <3>4. MaxGap * (usage'[d] + 1) = MaxGap
      BY <1>2, <3>2
    <3> QED
      BY <1>2, <2>2, <3>3, <3>4
  <2>4. CASE ~PastMidnight(k)
    <3>1. usage'[d] = usage[d] /\ free'[d] = free[d] + Online(d, k)
      BY <2>4 DEF Wait
    <3>2. Online(d, k) \in Nat /\ Online(d, k) <= MaxGap
      BY <1>2, OnlineBound
    <3>3. CASE ~settled
      <4>1. free[d] = 0
        BY <1>1, <3>3 DEF BudgetInv, Fresh, Zero
      <4> QED
        BY <1>2, <2>1, <2>2, <3>1, <3>2, <4>1
    <3>4. CASE Online(d, k) = 0
      BY <2>1, <3>1, <3>4 DEF BudgetInv, Within
    <3>5. CASE settled /\ Online(d, k) # 0
      <4>1. d \in covered /\ d \notin inforce
        BY <3>5 DEF Online
      <4>2. ~ShouldBlock(d)
        BY <1>1, <3>5, <4>1 DEF Exact
      <4>3. usage[d] + 1 <= Bound(d) /\ ~InBed(d)
        BY <4>2, NotOver
      <4>4. free[d] <= MaxGap * usage[d]
        BY <1>1, <3>5, <4>1, <4>3 DEF BudgetInv, Within, OnClock
      <4>5. MaxGap * (usage[d] + 1) <= MaxGap * Bound(d)
        <5>1. usage[d] + 1 \in Nat
          BY <2>1
        <5> QED
          BY <2>1, <4>3, <5>1, Gaps, Zenon
      <4> QED
        BY <1>2, <2>1, <2>2, <3>1, <3>2, <4>4, <4>5
    <3> QED
      BY <3>3, <3>4, <3>5
  <2> QED
    BY <2>3, <2>4
<1> QED
  BY <1>1, <1>3 DEF BudgetInv, Fresh

LEMMA ChargeWithin ==
  ASSUME TypeOK, ReadHolds, BudgetInv, TickUsage
  PROVE  BudgetInv'
<1>1. /\ pc = "charge" /\ pc' = "policies" /\ usage' = AddUsageMinutes
      /\ UNCHANGED <<tick, profile, assigned, paused, observed, targets, settled, free>>
  BY DEF TickUsage, tables, locals, ghosts
<1>2. ASSUME NEW d \in Devices PROVE Within(d)'
  <2>1. usage[d] \in Nat /\ free[d] \in Nat
    BY DEF TypeOK
  <2>2. usage'[d] = usage[d] + (IF Charged(d) THEN 1 ELSE 0)
    BY <1>1 DEF AddUsageMinutes
  <2>3. usage'[d] \in Nat /\ usage'[d] >= usage[d]
    BY <2>1, <2>2
  <2>4. UNCHANGED <<Limited(d), Bound(d), InBed(d)>>
    BY <1>1 DEF Limited, Bound, InBed, SettingOf, Grace
  <2>5. Limited(d) => free'[d] <= MaxGap * (usage'[d] + 1) /\ free'[d] <= MaxGap * Bound(d)
    <3>1. MaxGap * (usage[d] + 1) <= MaxGap * (usage'[d] + 1)
      <4>1. usage[d] + 1 \in Nat /\ usage'[d] + 1 \in Nat /\ usage[d] + 1 <= usage'[d] + 1
        BY <2>1, <2>3
      <4> QED
        BY <4>1, Gaps, Zenon
    <3>2. MaxGap * (usage[d] + 1) \in Nat /\ MaxGap * (usage'[d] + 1) \in Nat
      <4>1. usage[d] + 1 \in Nat /\ usage'[d] + 1 \in Nat
        BY <2>1, <2>3
      <4> QED
        BY <4>1, Gaps, Zenon
    <3> QED
      BY <1>1, <2>1, <3>1, <3>2 DEF BudgetInv, Within
  <2>6. ASSUME settled, Limited(d), ~InBed(d), d \in targets
        PROVE  free'[d] <= MaxGap * usage'[d]
    <3>1. copy = profile /\ d \in observed
      BY <1>1, <2>6 DEF ReadHolds, BudgetInv
    <3>2. Charged(d)
      BY <2>6, <3>1 DEF Charged, Limited, InBed
    <3>3. usage'[d] = usage[d] + 1
      BY <2>2, <3>2
    <3> QED
      BY <1>1, <2>6, <3>3 DEF BudgetInv, Within
  <2> QED
    BY <1>1, <2>4, <2>5, <2>6 DEF Within, OnClock
<1> QED
  BY <1>1, <1>2 DEF BudgetInv, Fresh

\* A step that changes neither settings nor the account, and puts nobody on the
\* clock.
LEMMA SameWithin ==
  ASSUME BudgetInv, UNCHANGED <<tick, profile, assigned, paused, usage, free>>,
         \A d \in Devices : OnClock(d)' => OnClock(d)
  PROVE  \A d \in Devices : Within(d)'
<1>1. \A d \in Devices : UNCHANGED <<Limited(d), Bound(d)>>
  BY DEF Limited, Bound, SettingOf, Grace
<1> QED
  BY <1>1 DEF BudgetInv, Within

LEMMA BudgetStep ==
  ASSUME TypeOK, TypeOK', ReadHolds, Exact, BudgetInv, [Next]_vars
  PROVE  BudgetInv'
<1>1. ASSUME NEW k \in 1..MaxGap, Wait(k) PROVE BudgetInv'
  BY <1>1, WaitWithin
<1>2. CASE TickUsage
  BY <1>2, ChargeWithin
<1>3. CASE Begin \/ ReadProfiles \/ EvaluateAllPolicies \/ Apply \/ Presence \/ UNCHANGED vars
  <2>1. /\ UNCHANGED <<tick, profile, assigned, paused, usage, free>>
        /\ \A d : InBed(d)' = InBed(d) /\ Limited(d)' = Limited(d)
    BY <1>3 DEF Begin, ReadProfiles, EvaluateAllPolicies, Apply, Presence, vars, tables, ghosts,
                InBed, Limited, SettingOf
  <2>2. ASSUME NEW d \in Devices, OnClock(d)' PROVE OnClock(d)
    <3>1. Limited(d) /\ ~InBed(d)
      BY <2>1, <2>2 DEF OnClock
    <3> QED
      BY <1>3, <2>2, <3>1
      DEF OnClock, Begin, ReadProfiles, EvaluateAllPolicies, Apply, Presence, vars, locals, ghosts, EndPass
  <2>3. (pc \in {"profiles", "charge"} => targets \subseteq observed)' /\ Fresh'
    BY <1>3 DEF BudgetInv, Fresh, Begin, ReadProfiles, EvaluateAllPolicies, Apply, Presence, vars,
                locals, ghosts
  <2> QED
    BY <2>1, <2>2, <2>3, SameWithin DEF BudgetInv
<1>4. ASSUME free' = Zero, targets' = {} \/ UNCHANGED <<pc, targets, observed>>
      PROVE  BudgetInv'
  <2>1. (pc \in {"profiles", "charge"} => targets \subseteq observed)'
    BY <1>4 DEF BudgetInv
  <2> QED
    BY <1>4, <2>1, ZeroWithin DEF BudgetInv
<1>5. CASE Fail \/ Restart \/ Initialize
  BY <1>4, <1>5 DEF Fail, Restart, Initialize, Request, EndPass, locals
<1>6. CASE \E d \in Devices : DeviceRequest(d)
  BY <1>4, <1>6
  DEF DeviceRequest, SetDevicePaused, SetDeviceEnrollment, AssignDeviceProfile, Request, locals
<1>7. CASE \E p \in Profiles : ProfileRequest(p)
  BY <1>4, <1>7
  DEF ProfileRequest, UpdateBedtime, ClearBedtime, UpdateDailyMinutes, Request, locals
<1> QED
  BY <1>1, <1>2, <1>3, <1>5, <1>6, <1>7 DEF Next, AgentStep

(* No device the agent controls is online for longer than its budget: what  *)
(* it used and what it was charged differ by one gap at most, whatever      *)
(* requests, failures, restarts and midnights come in between (agent.py:173,*)
(* policy.py:102).                                                          *)
THEOREM BudgetsHold == Spec => []BudgetHolds
<1>1. ASSUME Init PROVE BudgetInv
  <2>1. TypeOK
    BY <1>1, InitType
  <2>2. ASSUME NEW d \in Devices PROVE Within(d)
    <3>1. free[d] = 0 /\ usage[d] = 0 /\ ~settled
      BY <1>1, <2>2 DEF Init, Zero
    <3>2. Limited(d) => Bound(d) \in Nat
      BY <2>1, BoundType
    <3>3. 0 <= MaxGap * (usage[d] + 1) /\ (Limited(d) => 0 <= MaxGap * Bound(d))
      <4>1. usage[d] + 1 \in Nat
        BY <3>1
      <4> QED
        BY <3>2, <4>1, GapsNotNegative, Zenon
    <3> QED
      BY <3>1, <3>3 DEF Within, OnClock
  <2> QED
    BY <1>1, <2>2 DEF Init, BudgetInv, Fresh
<1>2. TypeOK /\ TypeOK' /\ ReadHolds /\ Exact /\ BudgetInv /\ [Next]_vars => BudgetInv'
  BY BudgetStep
<1>3. Init => ReadHolds /\ Exact
  BY InitReads
<1>4. TypeOK /\ ReadHolds /\ Exact /\ [Next]_vars => ReadHolds' /\ Exact'
  BY NextReads
<1>5. BudgetInv => BudgetHolds
  BY DEF BudgetInv, Within, Limited, Bound, BudgetHolds
<1> QED
  BY <1>1, <1>2, <1>3, <1>4, <1>5, TypeCorrect, PTL DEF Spec
=============================================================================
