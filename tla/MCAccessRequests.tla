-------------------------- MODULE MCAccessRequests --------------------------
(***************************************************************************)
(* Two requests and two handlers; the requests may ask for the same domain.*)
(***************************************************************************)
EXTENDS AccessRequests

CONSTANTS r1, r2, dom, w1, w2

MCIds == {r1, r2}
OneId == {r1}
MCDomains == {dom}
MCDomainOf == [i \in Ids |-> dom]
MCWorkers == {w1, w2}
=============================================================================
