----------------------------- MODULE Monitoring -----------------------------
(***************************************************************************)
(* The monitoring side together: the query log's readers, the alerts and    *)
(* the bandwidth samples.  The first and the last of these share no state;  *)
(* the alerts read the log, which their own lookups fill.  A behaviour      *)
(* takes one of them: part says which one moves.                            *)
(***************************************************************************)
EXTENDS Alerts, Bandwidth

VARIABLE part

allVars == <<part, alertVars, bandVars>>

Init ==
  /\ part \in {"log", "alerts", "bandwidth"}
  /\ AlertsInit /\ BandInit

Next ==
  \/ part = "log" /\ LogNext /\ UNCHANGED <<part, agentVars, bandVars>>
  \/ part = "alerts" /\ AlertsNext /\ UNCHANGED <<part, bandVars>>
  \/ part = "bandwidth" /\ BandNext /\ UNCHANGED <<part, alertVars>>

Spec == Init /\ [][Next]_allVars

-----------------------------------------------------------------------------
(* Properties.                                                              *)

(* Every variable of the three parts has its type, and the inbox is what    *)
(* was told last.                                                           *)
TypeOK == AlertsTypeOK /\ InboxIsNewest /\ BandTypeOK

(* The readers of the log are compared on the logs of their own part:       *)
(* totals, series, rankings and roll-ups of one log agree.                  *)
AnalyticsHold == part = "log" => AnalyticsAddUp

(* The evidence of blocked lookups names the blocked domains first.         *)
EvidenceHolds == part = "log" => EvidencePutsBlockedFirst
=============================================================================
