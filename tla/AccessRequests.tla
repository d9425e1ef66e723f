--------------------------- MODULE AccessRequests ---------------------------
(***************************************************************************)
(* Access requests: a child's device asks for a blocked domain, a parent   *)
(* decides.  The decision handler runs in the dashboard's thread pool, so  *)
(* two parents (or one double click) can be in it at once, and it writes   *)
(* to two places: Pi-hole's allow list through the root helper, then the   *)
(* access_requests row.                                                    *)
(***************************************************************************)
EXTENDS Naturals, FiniteSets

CONSTANTS Ids,        \* access requests
          Domains,    \* domains they ask for
          DomainOf,   \* which request asks for which
          Workers,    \* decision handlers at a time
          MaxEvents   \* bound on creations, decisions and faults

ASSUME DomainAssumption == DomainOf \in [Ids -> Domains]
ASSUME BoundAssumption == MaxEvents \in Nat

\* Temporary decisions are refused (501) before anything is read.
Decisions == {"always_allow", "deny"}

\* status and decision of a row; "absent" before it is created.
Undecided == "none"
Row == [status : {"absent", "pending", "approved", "denied"}, decision : Decisions \cup {Undecided}]
Absent == [status |-> "absent", decision |-> Undecided]
Pending == [status |-> "pending", decision |-> Undecided]

VARIABLES
  row,        \* access_requests
  allowed,    \* exact allow list of Pi-hole
  req,        \* decision handlers under way
  confirmed,  \* pairs of a request and a decision answered 200
  refused,    \* pairs answered "has already been decided"
  budget

vars == <<row, allowed, req, confirmed, refused, budget>>

Steps == {"fetch", "allow", "record", "read"}
Handler == [step : Steps, id : Ids, decision : Decisions]
Free == [step |-> "free"]

TypeOK ==
  /\ row \in [Ids -> Row]
  /\ allowed \in SUBSET Domains
  /\ req \in [Workers -> Handler \cup {Free}]
  /\ confirmed \in SUBSET (Ids \X Decisions)
  /\ refused \in SUBSET (Ids \X Decisions)
  /\ budget \in 0..MaxEvents

Init ==
  /\ row = [i \in Ids |-> Absent]
  /\ allowed = {}
  /\ req = [w \in Workers |-> Free]
  /\ confirmed = {}
  /\ refused = {}
  /\ budget = MaxEvents

Spend == budget > 0 /\ budget' = budget - 1

CreateRequest(i) ==
  /\ Spend
  /\ row[i].status = "absent"
  /\ row' = [row EXCEPT ![i] = Pending]
  /\ UNCHANGED <<allowed, req, confirmed, refused>>

StartDecision(w) ==
  /\ Spend
  /\ req[w] = Free
  /\ \E i \in Ids, d \in Decisions :
       req' = [req EXCEPT ![w] = [step |-> "fetch", id |-> i, decision |-> d]]
  /\ UNCHANGED <<row, allowed, confirmed, refused>>

At(w, step) == req[w].step = step
Goto(w, step) == req' = [req EXCEPT ![w].step = step]
Respond(w) == req' = [req EXCEPT ![w] = Free]

\* The handler asks whether the request exists, not whether it is pending.
FetchRequest(w) ==
  /\ At(w, "fetch")
  /\ IF row[req[w].id].status = "absent"
       THEN Respond(w)
       ELSE Goto(w, IF req[w].decision = "always_allow" THEN "allow" ELSE "record")
  /\ UNCHANGED <<row, allowed, confirmed, refused, budget>>

\* Mutant of AllowDomain: a failing helper is not noticed.
AllowUnchecked(w) ==
  /\ At(w, "allow")
  /\ allowed' \in {allowed, allowed \cup {DomainOf[req[w].id]}}
  /\ Goto(w, "record")
  /\ UNCHANGED <<row, confirmed, refused, budget>>

\* pi-circle-pihole-ctl allow; a failure may come before or after the rule.
AllowDomain(w) ==
  /\ At(w, "allow")
  /\ \/ /\ allowed' = allowed \cup {DomainOf[req[w].id]}
        /\ Goto(w, "record")
        /\ UNCHANGED budget
     \/ /\ Spend
        /\ allowed' \in {allowed, allowed \cup {DomainOf[req[w].id]}}
        /\ Respond(w)
  /\ UNCHANGED <<row, confirmed, refused>>

\* decision.startswith("allow"), which "always_allow" does not.
StatusOf(d) == IF d \in {"allow_once", "allow_15m", "allow_1h"} THEN "approved" ELSE "denied"

\* Mutant of RecordDecision: the UPDATE without its status = 'pending'.
RecordAlways(w) ==
  /\ At(w, "record")
  /\ row' = [row EXCEPT ![req[w].id] = [status |-> StatusOf(req[w].decision),
                                        decision |-> req[w].decision]]
  /\ Goto(w, "read")
  /\ UNCHANGED <<allowed, confirmed, refused, budget>>

\* The conditional UPDATE; no row changed means somebody else decided.
RecordDecision(w) ==
  /\ At(w, "record")
  /\ IF row[req[w].id].status = "pending"
       THEN /\ row' = [row EXCEPT ![req[w].id] = [status |-> StatusOf(req[w].decision),
                                                  decision |-> req[w].decision]]
            /\ Goto(w, "read")
            /\ UNCHANGED refused
       ELSE /\ Respond(w)
            /\ refused' = refused \cup {<<req[w].id, req[w].decision>>}
            /\ UNCHANGED row
  /\ UNCHANGED <<allowed, confirmed, budget>>

\* The row is read again for the response.
ReadDecided(w) ==
  /\ At(w, "read")
  /\ confirmed' = confirmed \cup {<<req[w].id, row[req[w].id].decision>>}
  /\ Respond(w)
  /\ UNCHANGED <<row, allowed, refused, budget>>

\* The dashboard dies and systemd starts it again.
Crash ==
  /\ Spend
  /\ req' = [w \in Workers |-> Free]
  /\ UNCHANGED <<row, allowed, confirmed, refused>>

Next ==
  \/ \E i \in Ids : CreateRequest(i)
  \/ \E w \in Workers :
       \/ StartDecision(w) \/ FetchRequest(w) \/ AllowDomain(w)
       \/ RecordDecision(w) \/ ReadDecided(w)
  \/ Crash

Spec == Init /\ [][Next]_vars

-----------------------------------------------------------------------------
(* Properties.                                                             *)

\* An approval on record is in force: the rule precedes the row, whatever
\* fails or dies between the two.
ApprovalInForce ==
  \A i \in Ids : row[i].decision = "always_allow" => DomainOf[i] \in allowed

\* Handlers, crashes and double decisions together implement the register that
\* decides once and tells everybody the same.
Register == INSTANCE DecisionRegister WITH decided <- [i \in Ids |-> row[i].decision]
ImplementsRegister == Register!Spec

\* Why both hold: a row is undecided exactly while its status says so, an
\* approving handler reaches the row only after the rule, and a handler that
\* reads back finds a decision.
RowsConsistent ==
  \A i \in Ids : row[i].decision = Undecided <=> row[i].status \in {"absent", "pending"}

HandlerOrder ==
  \A w \in Workers :
    /\ At(w, "record") /\ req[w].decision = "always_allow" => DomainOf[req[w].id] \in allowed
    /\ At(w, "read") => row[req[w].id].decision # Undecided

Inductive == TypeOK /\ ApprovalInForce /\ RowsConsistent /\ HandlerOrder

-----------------------------------------------------------------------------
(* What a test says and the code does not do.                               *)

\* tests/test_storage.py:128: a second decision is refused.  The handler has by
\* then put the domain on the allow list.
RefusedHasNoEffect ==
  \A i \in Ids : <<i, "always_allow">> \in refused /\ row[i].decision = "deny"
                 => DomainOf[i] \notin allowed
=============================================================================
