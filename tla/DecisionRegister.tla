-------------------------- MODULE DecisionRegister --------------------------
(***************************************************************************)
(* What the access-request desk promises, without handlers, workers or     *)
(* Pi-hole: a request that was filed is decided at most once, and whatever *)
(* a parent was told about it is that decision.                            *)
(***************************************************************************)
CONSTANTS Ids,        \* requests
          Decisions   \* what can be decided about one

Undecided == "none"

VARIABLES
  decided,    \* the decision on each request
  confirmed   \* pairs of a request and a decision somebody was told

Init ==
  /\ decided = [i \in Ids |-> Undecided]
  /\ confirmed = {}

Decide(i, d) ==
  /\ decided[i] = Undecided
  /\ decided' = [decided EXCEPT ![i] = d]
  /\ UNCHANGED confirmed

Confirm(i) ==
  /\ decided[i] # Undecided
  /\ confirmed' = confirmed \cup {<<i, decided[i]>>}
  /\ UNCHANGED decided

Next == \E i \in Ids : Confirm(i) \/ \E d \in Decisions : Decide(i, d)

Spec == Init /\ [][Next]_<<decided, confirmed>>
=============================================================================
