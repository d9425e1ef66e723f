------------------------------ MODULE Bandwidth ------------------------------
(***************************************************************************)
(* Bandwidth of linked devices: bandwidth.py reads the counters of the      *)
(* table pi_circle and the kernel's connection table, the agent stores one  *)
(* sample per linked device and pass, and the dashboard turns the latest    *)
(* two samples into a rate (storage.py).                                    *)
(*                                                                          *)
(* What the kernel really carried is kept beside the counters, so that a    *)
(* rate can be compared with it.  A tick is the time between two passes.    *)
(***************************************************************************)
EXTENDS Integers, FiniteSets, FiniteSetsExt, Functions

CONSTANTS
  Addresses,    \* LAN addresses that carry traffic
  Linked,       \* those the agent samples: network.arp_assisted_targets
  Extends,      \* {<<a, b>> : the text of a begins with the text of b}
  Flows,        \* connections
  Owner,        \* [Flows -> Addresses]
  Keeps,        \* samples kept of one address (2200)
  Horizon,      \* ticks a sample is kept (24 hours)
  BarWidth,       \* ticks of a bar of the series
  Unit,         \* rates are told in bytes per Unit ticks, to stay whole
  MaxMoved,     \* bounds of the model: [Addresses -> bytes it moves],
  MaxPasses     \* and ticks

ASSUME BandConstants ==
  /\ IsFiniteSet(Addresses) /\ IsFiniteSet(Flows)
  /\ Linked \subseteq Addresses /\ Extends \subseteq Addresses \X Addresses
  /\ Owner \in [Flows -> Addresses] /\ MaxMoved \in [Addresses -> Nat]
  /\ Keeps \in Nat /\ Keeps >= 2 /\ Horizon \in Nat /\ MaxPasses \in Nat
  /\ BarWidth \in Nat \ {0} /\ Unit \in Nat \ {0}
  /\ \A elapsed \in 1..Horizon : Unit % elapsed = 0

VARIABLES
  clock,        \* passes of the agent so far
  moved,        \* [address -> bytes it really moved] (a history variable)
  counted,      \* [linked address -> bytes of its nft counters]
  flows,        \* [flow -> bytes conntrack has accounted; 0: no such flow]
  samples       \* bandwidth_samples: a set of rows

bandVars == <<clock, moved, counted, flows, samples>>

BandInit ==
  /\ clock = 0 /\ moved = [a \in Addresses |-> 0]
  /\ counted = [a \in Linked |-> 0] /\ flows = [f \in Flows |-> 0]
  /\ samples = {}

-----------------------------------------------------------------------------
(* A flow carries a byte.  The counters see what a linked device sends, and *)
(* of what it receives only what comes from the LAN.                        *)
Traffic ==
  \E f \in Flows, seen \in BOOLEAN :
    LET a == Owner[f]
    IN /\ moved[a] < MaxMoved[a]
       /\ moved' = [moved EXCEPT ![a] = @ + 1]
       /\ flows' = [flows EXCEPT ![f] = @ + 1]
       /\ seen => a \in Linked
       /\ counted' = IF seen THEN [counted EXCEPT ![a] = @ + 1] ELSE counted
       /\ UNCHANGED <<clock, samples>>

FlowEnds ==
  \E f \in Flows :
    /\ flows[f] > 0
    /\ flows' = [flows EXCEPT ![f] = 0]
    /\ UNCHANGED <<clock, moved, counted, samples>>

(* The controller loads a new ruleset: every counter starts at zero.        *)
RulesReloaded ==
  /\ \E a \in Linked : counted[a] > 0
  /\ counted' = [a \in Linked |-> 0]
  /\ UNCHANGED <<clock, moved, flows, samples>>

-----------------------------------------------------------------------------
(* _sample_nft_counters: nothing when nft cannot be read, and no row for an *)
(* address with nothing counted.                                            *)
NftBytes(readable) ==
  [a \in {x \in Linked : readable /\ counted[x] > 0} |-> counted[a]]

(* _sample_conntrack: a line counts for the first linked address that its   *)
(* text contains after "src=" or "dst=", which it also does when its own    *)
(* address only begins with the linked one.  Which is the first, the order  *)
(* of a set of strings decides, which is drawn when the process starts.     *)
Takers(b) == {a \in Linked : a = b \/ <<b, a>> \in Extends}

Orders == LET heard == {b \in Addresses : Takers(b) # {}}
          IN {t \in [heard -> Linked] : \A b \in heard : t[b] \in Takers(b)}

AnyOrder == CHOOSE order \in Orders : TRUE   \* for rows no order decides

ConntrackRows(readable, order) ==
  LET live(a) == {f \in Flows : /\ flows[f] > 0 /\ Owner[f] \in DOMAIN order
                                /\ order[Owner[f]] = a}
  IN [a \in {x \in Linked : readable /\ live(x) # {}} |->
        SumFunctionOnSet(flows, live(a))]

(* sample_device_bandwidth: the counters' volume where there is one, else   *)
(* the connections'.  (How many connections there are, and whether they     *)
(* could be counted beside the counters, is left out.)                      *)
SampleDeviceBandwidth(nft, ct, order) ==
  [a \in DOMAIN nft \union DOMAIN ct |->
     IF a \in DOMAIN nft
     THEN [bytes |-> nft[a], source |-> "nftables", order |-> AnyOrder]
     ELSE [bytes |-> ct[a], source |-> "conntrack", order |-> order]]

(* record_bandwidth_sample: the row is added; rows past the horizon go, of  *)
(* whatever address, and this address's rows beyond the newest Keeps.       *)
NewestOf(rows, a) ==
  {r \in rows : r.ip = a /\ Cardinality({q \in rows : q.ip = a /\ q.at > r.at}) < Keeps}

\* Mutant of Record: the newest Keeps of the whole table.
RecordAny(rows, row) ==
  LET all == {r \in rows \union {row} : r.at >= row.at - Horizon}
  IN {r \in all : Cardinality({q \in all : q.at > r.at}) < Keeps}

Record(rows, row) ==
  LET all == {r \in rows \union {row} : r.at >= row.at - Horizon}
  IN {r \in all : r.ip # row.ip} \union NewestOf(all, row.ip)

RecordAll(rows, taken, at) ==
  FoldSet(LAMBDA a, acc : Record(acc, [ip |-> a, at |-> at, bytes |-> taken[a].bytes,
                                       source |-> taken[a].source, order |-> taken[a].order,
                                       real |-> moved]),
          rows, DOMAIN taken)

(* The end of an agent pass: sample and store.  Either reading may fail,    *)
(* and the agent may have started again since the last pass.                *)
Sample ==
  /\ clock < MaxPasses
  /\ \E nftOk \in BOOLEAN, ctOk \in BOOLEAN, order \in Orders :
       LET taken == SampleDeviceBandwidth(NftBytes(nftOk), ConntrackRows(ctOk, order), order)
       IN samples' = RecordAll(samples, taken, clock + 1)
  /\ clock' = clock + 1
  /\ UNCHANGED <<moved, counted, flows>>

BandNext == Traffic \/ FlowEnds \/ RulesReloaded \/ Sample

BandSpec == BandInit /\ [][BandNext]_bandVars

-----------------------------------------------------------------------------
(* bandwidth_rates: the latest two samples of an address, and no rate when  *)
(* there is only one or the counter fell between them.                      *)
SamplesOf(a) == {r \in samples : r.ip = a}
Current(a) == CHOOSE r \in SamplesOf(a) : \A q \in SamplesOf(a) : q.at <= r.at
Before(a, r) == CHOOSE q \in SamplesOf(a) : q.at < r.at /\ \A p \in SamplesOf(a) : p.at < r.at => p.at <= q.at

\* Mutant of Delta: a counter that started again is not noticed.
RawDelta(q, r) == r.bytes - q.bytes

(* Bytes between two consecutive samples as both readers see them.          *)
Delta(q, r) == IF r.bytes >= q.bytes THEN r.bytes - q.bytes ELSE 0

BandwidthRate(a) ==
  IF Cardinality(SamplesOf(a)) < 2 THEN [bytes |-> 0, elapsed |-> 1]
  ELSE LET r == Current(a)
           q == Before(a, r)
       IN [bytes |-> Delta(q, r), elapsed |-> r.at - q.at]

(* bandwidth_series: the samples of the window and of one bucket before it;  *)
(* between two of them a rate, unless the counter fell; and a bar per bucket  *)
(* for the mean of the rates whose later sample lies in it and in the window, *)
(* zero where there is none.                                                  *)
Recent(a, window) == {r \in SamplesOf(a) : r.at >= clock - window - BarWidth}

Rated(a, window) ==
  {r \in Recent(a, window) : /\ \E q \in Recent(a, window) : q.at < r.at
                             /\ r.bytes >= Before(a, r).bytes}

\* Samples lie at most Horizon ticks apart: Unit is a multiple of the distance.
PerUnit(q, r) == Unit \div (r.at - q.at)
Rate(a, r) == Delta(Before(a, r), r) * PerUnit(Before(a, r), r)

InBar(a, window, b) ==
  {r \in Rated(a, window) : r.at >= clock - window /\ r.at \div BarWidth = b}

BandwidthSeries(a, window) ==
  IF Rated(a, window) = {} THEN <<>>
  ELSE [b \in ((clock - window) \div BarWidth)..(clock \div BarWidth) |->
          [sum |-> SumFunctionOnSet([r \in Rated(a, window) |-> Rate(a, r)], InBar(a, window, b)),
           count |-> Cardinality(InBar(a, window, b))]]

-----------------------------------------------------------------------------
(* Properties.                                                              *)

SampleRow == [ip : Linked, at : 1..MaxPasses, bytes : Nat,
              source : {"nftables", "conntrack"}, order : Orders,
              real : [Addresses -> Nat]]

BandTypeOK ==
  /\ clock \in 0..MaxPasses /\ moved \in [Addresses -> Nat]
  /\ counted \in [Linked -> Nat] /\ flows \in [Flows -> Nat]
  /\ samples \subseteq SampleRow
  /\ \A a \in Linked : counted[a] <= moved[a]

SameSource(q, r) == q.source = r.source /\ q.order = r.order

(* What an address and those its text is the beginning of moved between two *)
(* samples.                                                                 *)
MovedBetween(a, q, r) ==
  SumFunctionOnSet([b \in Addresses |-> r.real[b] - q.real[b]],
                   {b \in Addresses : b = a \/ <<b, a>> \in Extends})

(* A rate is never more than what the address -- with those whose text      *)
(* begins with its own -- moved between the two samples, whatever counters  *)
(* were reset, flows ended or readings failed in between, as long as both   *)
(* samples read the same source and, of the connections, in one order.      *)
RateIsHonest ==
  \A a \in Linked :
    Cardinality(SamplesOf(a)) >= 2 =>
      LET r == Current(a)
          q == Before(a, r)
      IN SameSource(q, r) =>
           /\ BandwidthRate(a).elapsed > 0
           /\ 0 <= BandwidthRate(a).bytes /\ BandwidthRate(a).bytes <= MovedBetween(a, q, r)

(* No bar of a device's series is higher than the mean of the rates at which *)
(* bytes really moved between the samples it is made of, where those read one *)
(* source, and a bar without a rate is zero.                                  *)
RealRate(a, r) == MovedBetween(a, Before(a, r), r) * PerUnit(Before(a, r), r)

SeriesIsHonest ==
  \A a \in Linked, window \in 0..Horizon :
    LET series == BandwidthSeries(a, window)
    IN \A b \in DOMAIN series :
         LET bar == InBar(a, window, b)
         IN (\A r \in bar : SameSource(Before(a, r), r)) =>
              /\ series[b].sum <= SumFunctionOnSet([r \in bar |-> RealRate(a, r)], bar)
              /\ series[b].count = 0 => series[b].sum = 0

(* What the dashboard shows of a device's traffic, as a figure and as a     *)
(* series.                                                                  *)
RatesAreHonest == RateIsHonest /\ SeriesIsHonest

(* Pruning, which each device's sample does for all of them, leaves every   *)
(* address its latest sample and the one before unless time took them.      *)
LatestSurvive ==
  [][\A a \in Linked : \A r \in SamplesOf(a) :
       (/\ r.at >= clock' - Horizon
        /\ Cardinality({q \in SamplesOf(a)' : q.at > r.at}) < 2) => r \in samples']_bandVars
=============================================================================
