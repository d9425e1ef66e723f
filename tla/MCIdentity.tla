----------------------------- MODULE MCIdentity -----------------------------
(***************************************************************************)
(* Small instances of Identity.  In part "scans" the agent serves two       *)
(* devices, one scan at a time, for as long as it runs; d2 is the gateway,  *)
(* whose hostname tells of a PC.  In the other two, one of the dashboard's  *)
(* handlers, the administrator and the agent (with one scan) meet at one    *)
(* device.                                                                  *)
(***************************************************************************)
EXTENDS Identity, TLC

CONSTANTS d1, d2, host

VARIABLE part

MCRank == d1 :> 1 @@ d2 :> 2
MCInferred == d1 :> (NoHost :> "unknown" @@ host :> "unknown")
                @@ d2 :> (NoHost :> "unknown" @@ host :> "pc")
MCSuggested == d1 :> (NoHost :> "unknown" @@ host :> "unknown")
                @@ d2 :> (NoHost :> "router" @@ host :> "router")
MCPlain == d1 :> {[by |-> "auto", of |-> NoHost]} @@ d2 :> {}
MCHandLabels == {[name |-> "mine", type |-> "tv"], [name |-> "mine", type |-> "unknown"]}
MCHints == {[type |-> "unknown", host |-> NoHost, os |-> TRUE],
            [type |-> "android", host |-> host, os |-> TRUE]}

Init ==
  /\ part \in {"scans", "refresh", "identify"}
  /\ IdInit

Next ==
  /\ UNCHANGED part
  /\ IF part = "scans"
     THEN Work("agent") \/ LanChanges \/ Minute \/ AgentStarts
     ELSE /\ Work("agent") \/ Work(part) \/ SetIdentity \/ LanChanges
          /\ DOMAIN lan' \subseteq {d1}

Spec == Init /\ [][Next]_<<part, idVars>> /\ IdFairness
=============================================================================
