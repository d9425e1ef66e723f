---------------------------- MODULE PayloadCache ----------------------------
(***************************************************************************)
(* The dashboard's cache of slow answers (_cached): health, capabilities,   *)
(* Pi-hole's lists and reports.  Handlers run in a thread pool and take no  *)
(* lock: a handler looks, works out the answer, and stores it under the     *)
(* time it began.  One key; what an answer says is when it was read.        *)
(***************************************************************************)
EXTENDS Integers

CONSTANTS
  Askers,    \* handlers at a time
  Ttl,       \* ttl_seconds
  MaxClock   \* bound of the model

ASSUME CacheConstants == Ttl \in Nat \ {0}

VARIABLES
  clock,     \* time.monotonic
  entry,     \* the cache's entry, or NoEntry
  asked,     \* [handler -> the call under way]
  answers    \* [handler -> its last answer], for the property

cacheVars == <<clock, entry, asked, answers>>

NoEntry == [storedAt |-> -1, readAt |-> -1]
Idle == [step |-> "idle"]
NoAnswer == [began |-> -1, readAt |-> -1]

CacheInit ==
  /\ clock = 0 /\ entry = NoEntry
  /\ asked = [w \in Askers |-> Idle]
  /\ answers = [w \in Askers |-> NoAnswer]

Second ==
  /\ clock < MaxClock
  /\ clock' = clock + 1
  /\ UNCHANGED <<entry, asked, answers>>

Ask(w) ==
  /\ asked[w] = Idle
  /\ asked' = [asked EXCEPT ![w] = [step |-> "look", now |-> clock]]
  /\ UNCHANGED <<clock, entry, answers>>

Answer(w, readAt) ==
  /\ answers' = [answers EXCEPT ![w] = [began |-> asked[w].now, readAt |-> readAt]]
  /\ asked' = [asked EXCEPT ![w] = Idle]

(* now was taken before the look, so another handler's entry may be younger *)
(* than it.                                                                 *)
Valid(now) == entry # NoEntry /\ now - entry.storedAt < Ttl

LookUp(w) ==
  /\ asked[w].step = "look"
  /\ IF Valid(asked[w].now) THEN Answer(w, entry.readAt)
     ELSE asked' = [asked EXCEPT ![w].step = "produce"] /\ UNCHANGED answers
  /\ UNCHANGED <<clock, entry>>

(* The producer reads what it reports; storing takes place later.           *)
Produce(w) ==
  /\ asked[w].step = "produce"
  /\ asked' = [asked EXCEPT ![w] = [step |-> "store", now |-> @.now, readAt |-> clock]]
  /\ UNCHANGED <<clock, entry, answers>>

\* Mutant of StoreEntry: an entry's time is that of its storing.
StoreEntryNow(w) ==
  /\ asked[w].step = "store"
  /\ entry' = [storedAt |-> clock, readAt |-> asked[w].readAt]
  /\ Answer(w, asked[w].readAt)
  /\ UNCHANGED clock

(* A slow handler replaces an entry younger than its own.                   *)
StoreEntry(w) ==
  /\ asked[w].step = "store"
  /\ entry' = [storedAt |-> asked[w].now, readAt |-> asked[w].readAt]
  /\ Answer(w, asked[w].readAt)
  /\ UNCHANGED clock

(* A database is locked or a command missing: nothing is stored.            *)
ProducerFails(w) ==
  /\ asked[w].step = "produce"
  /\ asked' = [asked EXCEPT ![w] = Idle]
  /\ UNCHANGED <<clock, entry, answers>>

CacheNext ==
  \/ Second
  \/ \E w \in Askers :
       Ask(w) \/ LookUp(w) \/ Produce(w) \/ StoreEntry(w) \/ ProducerFails(w)

CacheSpec == CacheInit /\ [][CacheNext]_cacheVars

-----------------------------------------------------------------------------
(* However slow producers are, and whichever handler stores last, an answer *)
(* tells how things were less than Ttl before it was asked for, or later.   *)
AnswersAreFresh ==
  \A w \in Askers :
    answers[w] # NoAnswer => answers[w].readAt > answers[w].began - Ttl
=============================================================================
