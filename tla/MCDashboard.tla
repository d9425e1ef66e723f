---------------------------- MODULE MCDashboard ----------------------------
(***************************************************************************)
(* Small instances of what overlapping requests do to the dashboard: two    *)
(* access requests with two decision handlers, two polls of the live feed,  *)
(* two helpers that write config.toml, two handlers that share the cache.   *)
(* These share no state, so a run takes each in turn: part says which one   *)
(* moves.                                                                   *)
(***************************************************************************)
EXTENDS AccessRequests, LiveFeed, ConfigFile, PayloadCache

CONSTANTS r1, r2, dom, w1, w2, c1, c2, a1, gw

VARIABLE part

MCIds == {r1, r2}
MCDomains == {dom}
MCDomainOf == [i \in Ids |-> dom]
MCWorkers == {w1, w2}

MCRowKinds == {[client |-> c1, blocked |-> TRUE], [client |-> c2, blocked |-> FALSE]}
MCFilters == {[client |-> AnyClient, blockedOnly |-> FALSE],
              [client |-> c1, blockedOnly |-> TRUE]}

MCHosts == {a1, gw}
MCOffLimits == {gw}

DashboardInit ==
  /\ part \in {"access", "feed", "config", "cache"}
  /\ Init /\ ConfigInit /\ CacheInit
  /\ FeedInit /\ (part # "feed" => filter = CHOOSE f \in Filters : TRUE)

DashboardNext ==
  \/ part = "access" /\ Next /\ UNCHANGED <<part, feedVars, configVars, cacheVars>>
  \/ part = "feed" /\ FeedNext /\ UNCHANGED <<part, vars, configVars, cacheVars>>
  \/ part = "config" /\ ConfigNext /\ UNCHANGED <<part, vars, feedVars, cacheVars>>
  \/ part = "cache" /\ CacheNext /\ UNCHANGED <<part, vars, feedVars, configVars>>

DashboardSpec ==
  /\ DashboardInit
  /\ [][DashboardNext]_<<part, vars, feedVars, configVars, cacheVars>>
  /\ part = "feed" => FeedFairness
=============================================================================
