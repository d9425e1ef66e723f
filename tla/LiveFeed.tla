------------------------------ MODULE LiveFeed ------------------------------
(***************************************************************************)
(* The live activity feed: rows FTL appends to its query log                *)
(* (PiholeQueryReader.recent_queries), the dashboard's answers to polls     *)
(* (/api/activity/live) and the browser that joins the answers              *)
(* (reloadActivity of app.js).                                              *)
(*                                                                          *)
(* The browser polls on a timer and does not wait for the last answer; a    *)
(* changed filter empties the feed and asks anew.  Two requests may be in   *)
(* flight, be served in either order and come back in either order or not   *)
(* at all.  A row's id is its place in rows.                                *)
(***************************************************************************)
EXTENDS Integers, Sequences, FiniteSets, FiniteSetsExt

CONSTANTS
  RowKinds,      \* what tells rows apart: records [client, blocked]
  Filters,       \* the filters a user sets: records [client, blockedOnly]
  AnyClient,     \* no client chosen
  Limit,         \* events the browser asks for (100)
  FetchCap,      \* rows the reader returns at most (250)
  FeedKeeps,     \* events the browser keeps (200)
  MaxRows        \* bound of the model

ASSUME FeedConstants ==
  /\ Limit \in Nat /\ FetchCap \in Nat /\ FeedKeeps \in Nat
  /\ Limit <= FeedKeeps   \* the first answer is shown as it comes

VARIABLES
  rows,      \* FTL's log
  filter,    \* the filter chosen in the browser
  shown,     \* state.activityEvents: the ids of the events
  latest,    \* state.activityLatestId
  requests,  \* [slot -> request in flight]
  overlap,   \* "none", "polls" or "reset": what overlapped since the feed was last clean
  missed     \* rows a limit kept from this feed (both history variables)

feedVars == <<rows, filter, shown, latest, requests, overlap, missed>>

Slots == 1..2
NoRequest == [kind |-> "none"]

FeedInit ==
  /\ rows = <<>> /\ filter \in Filters
  /\ shown = <<>> /\ latest = 0
  /\ requests = [s \in Slots |-> NoRequest]
  /\ overlap = "none" /\ missed = {}

InFlight == {s \in Slots : requests[s] # NoRequest}

-----------------------------------------------------------------------------
OfClient(f, i) == f.client \in {AnyClient, rows[i].client}
Matches(f, i)  == OfClient(f, i) /\ (f.blockedOnly => rows[i].blocked)

(* The newest k of a set of ids.                                            *)
Latest(ids, k) == {i \in ids : Cardinality({j \in ids : j > i}) < k}
(* Its first k.                                                             *)
First(ids, k) == {i \in ids : Cardinality({j \in ids : j < i}) < k}

(* A list that never goes back, and that of a set of ids.                   *)
Rises(list) == \A i, j \in DOMAIN list : i < j => list[i] < list[j]
InOrder(ids) == CHOOSE list \in [1..Cardinality(ids) -> ids] : Rises(list)

(* live_activity over-fetches when it filters itself; the client is a       *)
(* condition of the SELECT.                                                 *)
FetchLimit(f) ==
  LET wanted == IF f.blockedOnly THEN 4 * Limit ELSE Limit
  IN IF wanted < FetchCap THEN wanted ELSE FetchCap

RecentQueries(f, since) ==
  Latest({i \in DOMAIN rows : i > since /\ OfClient(f, i)}, FetchLimit(f))

\* Mutant of Payload: the newest of what was fetched.
PayloadNewest(f, since) ==
  Latest({i \in RecentQueries(f, since) : Matches(f, i)}, Limit)

Payload(f, since) ==
  First({i \in RecentQueries(f, since) : Matches(f, i)}, Limit)

LatestId(ids, since) == IF ids = {} THEN since ELSE Max(ids)

-----------------------------------------------------------------------------
FtlAppends ==
  /\ Len(rows) < MaxRows
  /\ \E row \in RowKinds : rows' = Append(rows, row)
  /\ UNCHANGED <<filter, shown, latest, requests, overlap, missed>>

(* A request leaves with what the browser's state is then; a reset makes    *)
(* those before it stale, which only the history knows.                     *)
Outgoing(f, reset) ==
  [kind |-> "sent", reset |-> reset, filter |-> f, stale |-> FALSE,
   since |-> IF reset THEN 0 ELSE latest]

\* Mutant of Poll: only a feed that shows something asks for more.
PollShown(s) ==
  /\ requests[s] = NoRequest /\ latest > 0
  /\ requests' = [requests EXCEPT ![s] = Outgoing(filter, FALSE)]
  /\ overlap' = IF InFlight = {} \/ overlap = "reset" THEN overlap
                ELSE IF \E t \in InFlight : requests[t].reset THEN "reset"
                ELSE "polls"
  /\ UNCHANGED <<rows, filter, shown, latest, missed>>

(* reloadActivity(false), by the timer: nothing asks whether a poll is out. *)
Poll(s) ==
  /\ requests[s] = NoRequest
  /\ requests' = [requests EXCEPT ![s] = Outgoing(filter, FALSE)]
  /\ overlap' = IF InFlight = {} \/ overlap = "reset" THEN overlap
                ELSE IF \E t \in InFlight : requests[t].reset THEN "reset"
                ELSE "polls"
  /\ UNCHANGED <<rows, filter, shown, latest, missed>>

(* reloadActivity(true): a filter was set, or the tab opened.               *)
SetFilter(s) ==
  /\ requests[s] = NoRequest
  /\ \E f \in Filters :
       /\ filter' = f
       /\ requests' = [t \in Slots |->
            CASE t = s           -> Outgoing(f, TRUE)
              [] t \in InFlight  -> [requests[t] EXCEPT !.stale = TRUE]
              [] OTHER           -> NoRequest]
  /\ shown' = <<>> /\ latest' = 0 /\ missed' = {}
  /\ overlap' = IF InFlight = {} THEN "none" ELSE "reset"
  /\ UNCHANGED rows

Answered(s, events, lost) ==
  LET r == requests[s]
  IN requests' = [requests EXCEPT ![s] =
       [kind |-> "served", reset |-> r.reset, stale |-> r.stale, events |-> events,
        latest |-> LatestId(events, r.since), lost |-> lost]]

(* The dashboard answers from the log as it is then.                        *)
Serve(s) ==
  /\ requests[s].kind = "sent"
  /\ LET r == requests[s]
         fetched == RecentQueries(r.filter, r.since)
     IN Answered(s, Payload(r.filter, r.since),
                 {i \in DOMAIN rows : i > r.since /\ Matches(r.filter, i) /\ i \notin fetched})
  /\ UNCHANGED <<rows, filter, shown, latest, overlap, missed>>

(* The log is locked or broken: the reader swallows the error and the       *)
(* answer is a successful one without events.                               *)
ServeNothing(s) ==
  /\ requests[s].kind = "sent"
  /\ Answered(s, {}, {})
  /\ UNCHANGED <<rows, filter, shown, latest, overlap, missed>>

\* The last events of a joined feed.
Trimmed(joined) ==
  LET keep == IF Len(joined) < FeedKeeps THEN Len(joined) ELSE FeedKeeps
  IN SubSeq(joined, Len(joined) - keep + 1, Len(joined))

(* The answer arrives: it replaces the feed or is added to its end.         *)
Receive(s) ==
  /\ requests[s].kind = "served"
  /\ LET r      == requests[s]
         events == InOrder(r.events)
         clean  == /\ r.reset /\ ~r.stale /\ InFlight = {s}
                   /\ r.latest # 0 \/ latest = 0
     IN /\ shown' = IF r.reset THEN events
                    ELSE Trimmed(shown \o events)
        /\ latest' = IF r.latest # 0 THEN r.latest ELSE latest
        /\ missed' = IF r.reset THEN r.lost ELSE missed \union r.lost
        /\ overlap' = IF clean THEN "none" ELSE overlap
  /\ requests' = [requests EXCEPT ![s] = NoRequest]
  /\ UNCHANGED <<rows, filter>>

(* It does not: the browser shows the error and keeps the feed.  A request  *)
(* that gets lost on its way changes as little as a lost answer.            *)
RequestFails(s) ==
  /\ requests[s].kind = "served"
  /\ requests' = [requests EXCEPT ![s] = NoRequest]
  /\ UNCHANGED <<rows, filter, shown, latest, overlap, missed>>

FeedNext ==
  \/ FtlAppends
  \/ \E s \in Slots : \/ Poll(s) \/ SetFilter(s) \/ Serve(s) \/ ServeNothing(s)
                     \/ Receive(s) \/ RequestFails(s)

(* The timer goes on; again and again the log can be read, answers get      *)
(* through, and so do those with news.                                      *)
ReceiveNews(s) == Receive(s) /\ requests[s].latest > latest

FeedFairness ==
  /\ WF_feedVars(\E s \in Slots : Poll(s))
  /\ SF_feedVars(\E s \in Slots : Serve(s))
  /\ SF_feedVars(\E s \in Slots : Receive(s))
  /\ SF_feedVars(\E s \in Slots : ReceiveNews(s))

FeedSpec == FeedInit /\ [][FeedNext]_feedVars /\ FeedFairness

-----------------------------------------------------------------------------
(* Properties.                                                              *)

FeedTypeOK ==
  /\ rows \in Seq(RowKinds) /\ filter \in Filters
  /\ shown \in Seq(DOMAIN rows) /\ Len(shown) <= FeedKeeps
  /\ latest \in 0..Len(rows) /\ missed \subseteq DOMAIN rows
  /\ overlap \in {"none", "polls", "reset"}
  /\ \A s \in Slots : requests[s].kind \in {"none", "sent", "served"}

(* The browser keeps at most FeedKeeps events, all of them rows of the log, *)
(* whatever overlapped.  While no request of a feed was sent before the     *)
(* answer of another, the feed is the log: the last FeedKeeps rows that     *)
(* match the filter, in order, none twice, none missing up to the newest    *)
(* shown, but those a fetch limit cut off.                                  *)
FeedIsTheLog ==
  /\ FeedTypeOK
  /\ overlap = "none" =>
       LET matching == {i \in 1..latest : Matches(filter, i)} \ missed
       IN shown = InOrder(Latest(matching, FeedKeeps))

(* A feed whose requests did not overlap catches up with the log again and  *)
(* again, however many answers get lost on the way and though each carries  *)
(* at most Limit events -- unless the user starts it anew for ever.         *)
FeedCatchesUp ==
  \/ []<><<\E s \in Slots : SetFilter(s)>>_feedVars
  \/ []<>(\/ overlap # "none"
          \/ \A i \in DOMAIN rows : Matches(filter, i) => i \in missed \/ i <= latest)
=============================================================================
