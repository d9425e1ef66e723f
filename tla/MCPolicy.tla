------------------------------ MODULE MCPolicy ------------------------------
(***************************************************************************)
(* Small instances of Policy: a day of eleven ticks, longer than any budget *)
(* with its grace, the seeded profile, bedtimes within a day and over it.   *)
(***************************************************************************)
EXTENDS Policy

CONSTANTS d1, kids

MCDevices == {d1}
MCProfiles == {kids}
MCTimes == {1, 5}
MCBudgets == {2, 3}
MCShort == {3}
MCDefaults == [p \in MCProfiles |-> [start |-> 5, end |-> 1, limit |-> 2]]
=============================================================================
