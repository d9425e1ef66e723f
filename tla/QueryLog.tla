------------------------------ MODULE QueryLog ------------------------------
(***************************************************************************)
(* What the program reads from Pi-hole's query log (pihole-FTL.db): the     *)
(* totals, series, rankings and evidence of analytics.py and history.py, as *)
(* operators on a set of rows, and the log itself as FTL writes it: lookups *)
(* arrive, time passes, old rows go.  Every reader opens it read-only.      *)
(*                                                                          *)
(* A row [time, client, domain, blocked, n] stands for the n lookups of one *)
(* domain by one client at one time with one outcome.  The rows whose       *)
(* domain is NoDomain have a blank domain.                                  *)
(***************************************************************************)
EXTENDS Integers, FiniteSets, FiniteSetsExt, Functions

CONSTANTS
  Clients,    \* addresses that query Pi-hole
  Domains,    \* names they look up
  NoDomain,   \* a blank domain, which some listings leave out
  Service,    \* [Domains -> service name]: infer_service
  TopLimit,   \* LIMIT of the rankings (8 and 12 in the code)
  LogBatches, \* the sets of lookups that may arrive at one time
  LogTicks,   \* how far back FTL keeps its log
  LogTime     \* bound of the model: ticks

\* Finite sets of lookups by known clients.
IsLookups(batches) ==
  \A batch \in batches :
    /\ IsFiniteSet(batch)
    /\ \A b \in batch : /\ b.client \in Clients /\ b.domain \in Domains \union {NoDomain}
                       /\ b.blocked \in BOOLEAN /\ b.n \in Nat \ {0}

ASSUME LogConstants ==
  /\ IsFiniteSet(Clients) /\ IsFiniteSet(Domains)
  /\ NoDomain \notin Domains
  /\ TopLimit \in Nat /\ LogTicks \in Nat /\ LogTime \in Nat
  /\ IsLookups(LogBatches)

VARIABLES
  now,        \* the clock
  log         \* the rows

logVars == <<now, log>>

LogInit == now = 0 /\ log = {}

(* Time passes, and the log is cut to the rows of the last keep ticks.      *)
TimePasses(keep) ==
  /\ now' = now + 1
  /\ log' = {r \in log : r.time >= now + 1 - keep}

(* The lookups of a tick.                                                   *)
LookupsArrive(batches) ==
  /\ \A r \in log : r.time # now
  /\ \E batch \in batches :
       log' = log \union {[time |-> now, client |-> b.client, domain |-> b.domain,
                           blocked |-> b.blocked, n |-> b.n] : b \in batch}
  /\ UNCHANGED now

LogNext ==
  \/ now < LogTime /\ TimePasses(LogTicks)
  \/ LookupsArrive(LogBatches)
-----------------------------------------------------------------------------

Queries(rows) == SumFunction([r \in rows |-> r.n])

Since(rows, start) == {r \in rows : r.time >= start}

By(rows, client) == {r \in rows : r.client = client}

Blocked(rows) == {r \in rows : r.blocked}

Naming(rows, domain) == {r \in rows : r.domain = domain}

NamesIn(rows) == {r.domain : r \in rows}

(* SELECT COUNT, SUM(blocked), COUNT(DISTINCT domain), COUNT(DISTINCT client) *)
Totals(rows) ==
  [queries |-> Queries(rows),
   blocked |-> Queries(Blocked(rows)),
   allowed |-> Queries(rows) - Queries(Blocked(rows)),
   domains |-> Cardinality(NamesIn(rows)),
   devices |-> Cardinality({r.client : r \in rows})]

(* (timestamp / bucket) * bucket, and the start of every bucket from the    *)
(* one the window begins in to the one it ends in.                          *)
Bucket(time, width) == (time \div width) * width

\* Mutant of Buckets: the first one starts with the window.
BucketsInside(until, window, width) ==
  {b \in until - window .. Bucket(until, width) : b % width = 0}

Buckets(until, window, width) ==
  {b \in Bucket(until - window, width) .. Bucket(until, width) : b % width = 0}

TrafficSeries(rows, until, window, width) ==
  [b \in Buckets(until, window, width) |->
     LET inBucket == {r \in Since(rows, until - window) : Bucket(r.time, width) = b}
     IN [queries |-> Queries(inBucket), blocked |-> Queries(Blocked(inBucket)),
         devices |-> Cardinality({r.client : r \in inBucket})]]

(* The timeline's totals: sums over the buckets, but the largest bucket     *)
(* for the devices.                                                         *)
Timeline(rows, until, window, width) ==
  LET series == TrafficSeries(rows, until, window, width)
  IN [queries |-> SumFunction([b \in DOMAIN series |-> series[b].queries]),
      blocked |-> SumFunction([b \in DOMAIN series |-> series[b].blocked]),
      devices |-> Max({0} \union {series[b].devices : b \in DOMAIN series})]

(* GROUP BY ... ORDER BY count DESC LIMIT k: SQLite orders equal counts as  *)
(* it likes, so any set of k names no other name outnumbers.                *)
Tops(names, Count(_), k) ==
  {top \in SUBSET names :
     /\ Cardinality(top) = IF Cardinality(names) < k THEN Cardinality(names) ELSE k
     /\ \A a \in top, b \in names \ top : Count(a) >= Count(b)}

TopDomains(rows, k) == Tops(NamesIn(rows), LAMBDA d : Queries(Naming(rows, d)), k)

(* The services of the listed domains, with the lookups they sum to.        *)
ServiceCounts(rows, listed) ==
  [s \in {Service[d] : d \in listed \ {NoDomain}} |->
     Queries({r \in rows : r.domain \in listed \ {NoDomain} /\ Service[r.domain] = s})]

(* domain_evidence: a client's domains in the window up to until, the       *)
(* blocked ones first.                                                      *)
EvidenceRows(rows, client, until, window) ==
  {r \in By(rows, client) : r.time >= until - window /\ r.time <= until}

\* Mutant of EvidenceRank: hits only.
EvidenceHits(rows, d) == Queries(Naming(rows, d))

EvidenceRank(rows, d) ==
  Queries(Naming(rows, d))
    + IF Blocked(Naming(rows, d)) = {} THEN 0 ELSE Queries(rows)

DomainEvidence(rows, client, until, window, focus) ==
  LET inWindow == EvidenceRows(rows, client, until, window)
      Hits(d)  == Naming(inWindow, d)
      listed   == {d \in NamesIn(inWindow) \ {NoDomain} :
                     CASE focus = "blocked" -> Blocked(Hits(d)) # {}
                       [] focus = "allowed" -> Hits(d) \ Blocked(Hits(d)) # {}
                       [] OTHER             -> TRUE}
  IN [totals |-> Totals(inWindow), listed |-> listed,
      shown  |-> Tops(listed, LAMBDA d : EvidenceRank(inWindow, d), TopLimit)]

-----------------------------------------------------------------------------
(* Properties.                                                              *)

LogRow == [time : Nat, client : Clients, domain : Domains \union {NoDomain},
           blocked : BOOLEAN, n : Nat \ {0}]

LogTypeOK == now \in Nat /\ log \subseteq LogRow /\ IsFiniteSet(log)

(* The series, the timeline and the roll-up of services of one log agree    *)
(* with its totals: no lookup of the window is dropped at the edge of a     *)
(* bucket or counted twice, a device is never over-counted, and a client's  *)
(* own totals add up to the household's.                                    *)
AnalyticsAddUp ==
  \A window \in 0..LogTicks, width \in 1..3 :
    LET rows == Since(log, now - window)
        all  == Totals(rows)
        line == Timeline(log, now, window, width)
    IN /\ line.queries = all.queries /\ line.blocked = all.blocked
       /\ line.devices <= all.devices
       /\ all.queries = SumFunction([c \in Clients |-> Queries(By(rows, c))])
       /\ \A top \in TopDomains(rows, TopLimit) :
            LET counts == ServiceCounts(rows, top)
            IN SumFunction(counts) <= all.queries

(* The evidence of an alert about blocked lookups lists a blocked domain    *)
(* for every blocked lookup it counts, unless the domain is blank or as     *)
(* many blocked domains as fit are listed; the limit never cuts a blocked   *)
(* domain in favour of one that was only allowed.                           *)
EvidencePutsBlockedFirst ==
  \A c \in Clients, focus \in {"blocked", "all"}, until \in {now - 1, now} :
    LET evidence == DomainEvidence(log, c, until, LogTicks - 1, focus)
        blocked  == NamesIn(Blocked(EvidenceRows(log, c, until, LogTicks - 1))) \ {NoDomain}
    IN \A shown \in evidence.shown :
         \/ blocked \subseteq shown
         \/ shown \subseteq blocked /\ Cardinality(shown) = TopLimit
=============================================================================
