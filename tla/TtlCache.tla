------------------------------ MODULE TtlCache -------------------------------
(***************************************************************************)
(* The read-through cache in front of Checkmarx One: class TtlCache of     *)
(* src/src/ttl-cache.js, with the people who read through it.              *)
(*                                                                         *)
(* A load is one run of a loader, from wrap() until its promise settles.   *)
(* Time is the Expire action: an entry stops being fresh at any moment     *)
(* after its set.  The values are left out: a load of a key can only       *)
(* store, under that key, what it read.                                    *)
(***************************************************************************)
EXTENDS Naturals, Sequences

CONSTANTS Keys,        \* cache keys
          Readers,     \* people waiting for an answer (wrap without background)
          Loads,       \* identities for loads in flight
          Max,         \* this.#max
          NoLoad

ASSUME CacheAssumption ==
  /\ Max \in Nat \ {0}
  /\ Keys # {}
  /\ NoLoad \notin Loads

VARIABLES entries,   \* #entries in Map order, least recently used first
          inFlight,  \* #inFlight
          load,      \* per load: whether it runs, its key and background flag
          awaits     \* per reader: the load it awaits

vars == <<entries, inFlight, load, awaits>>

TypeOK ==
  /\ entries \in Seq([key : Keys, fresh : BOOLEAN])
  /\ Len(entries) <= Max
  /\ inFlight \in [Keys -> Loads \cup {NoLoad}]
  /\ load \in [Loads -> [runs : BOOLEAN, key : Keys, background : BOOLEAN]]
  /\ awaits \in [Readers -> Loads \cup {NoLoad}]

Init ==
  /\ entries = <<>>
  /\ inFlight = [k \in Keys |-> NoLoad]
  /\ load \in [Loads -> [runs : {FALSE}, key : {CHOOSE k \in Keys : TRUE}, background : {FALSE}]]
  /\ awaits = [r \in Readers |-> NoLoad]

Has(k) == \E i \in DOMAIN entries : entries[i].key = k
Fresh(k) == \E i \in DOMAIN entries : entries[i].key = k /\ entries[i].fresh

(* The entry of a key, and the entries without it: there is one at most.   *)
Place(k) == CHOOSE i \in DOMAIN entries : entries[i].key = k
EntryOf(k) == entries[Place(k)]
Without(k) ==
  IF Has(k)
  THEN SubSeq(entries, 1, Place(k) - 1) \o SubSeq(entries, Place(k) + 1, Len(entries))
  ELSE entries
Running(l) == load[l].runs

(* set(): the key becomes the most recently used, the oldest is evicted. *)
Kept(k) ==
  LET all == Append(Without(k), [key |-> k, fresh |-> TRUE])
  IN  IF Len(all) > Max THEN Tail(all) ELSE all

Expire(i) ==
  /\ i \in DOMAIN entries
  /\ entries[i].fresh
  /\ entries' = [entries EXCEPT ![i].fresh = FALSE]
  /\ UNCHANGED <<inFlight, load, awaits>>

Await(r, l) ==
  /\ awaits[r] = NoLoad
  /\ awaits' = [awaits EXCEPT ![r] = l]

(* wrap() by a reader, a fresh entry known: answered at once. *)
Hit(r, k) ==
  /\ Fresh(k)
  /\ awaits[r] = NoLoad
  /\ entries' = Append(Without(k), EntryOf(k))
  /\ UNCHANGED <<inFlight, load, awaits>>

(* Fault: a reader joins whatever load is running. *)
FaultJoin(r, k) ==
  /\ ~Fresh(k)
  /\ inFlight[k] # NoLoad
  /\ Await(r, inFlight[k])
  /\ UNCHANGED <<entries, inFlight, load>>

(* wrap() by a reader while another reader's load runs: both await it. *)
Join(r, k) ==
  /\ ~Fresh(k)
  /\ inFlight[k] # NoLoad
  /\ ~load[inFlight[k]].background
  /\ Await(r, inFlight[k])
  /\ UNCHANGED <<entries, inFlight, load>>

Start(l, k, background) ==
  /\ ~Running(l)
  /\ load' = [load EXCEPT ![l] = [runs |-> TRUE, key |-> k, background |-> background]]
  /\ inFlight' = [inFlight EXCEPT ![k] = l]

(* wrap() by a reader with no load, or only a background one, running. *)
Read(r, k, l) ==
  /\ ~Fresh(k)
  /\ inFlight[k] # NoLoad => load[inFlight[k]].background
  /\ Start(l, k, FALSE)
  /\ Await(r, l)
  /\ UNCHANGED entries

(* peek() of a missing or stale key: loaded behind, unless being loaded. *)
Refresh(k, l) ==
  /\ ~Fresh(k)
  /\ inFlight[k] = NoLoad
  /\ Start(l, k, TRUE)
  /\ UNCHANGED <<entries, awaits>>

(* delete(): called when this server has just acted on the finding. *)
Forget(k) ==
  /\ entries' = Without(k)
  /\ UNCHANGED <<inFlight, load, awaits>>

(* Fault: the finishing load clears the key whoever is loading it now. *)
FaultSettled(l) ==
  /\ inFlight' = [inFlight EXCEPT ![load[l].key] = NoLoad]
  /\ load' = [load EXCEPT ![l].runs = FALSE]

(* finally: the key is no longer in flight, if this load is the one there. *)
Settled(l) ==
  /\ inFlight' = [k \in Keys |-> IF inFlight[k] = l THEN NoLoad ELSE inFlight[k]]
  /\ load' = [load EXCEPT ![l].runs = FALSE]

(* Everybody awaiting the load is answered, or told that it failed. *)
Told(l) ==
  awaits' = [r \in Readers |-> IF awaits[r] = l THEN NoLoad ELSE awaits[r]]

(* The loader resolves; an answer whose ttl is not positive is not kept. *)
Succeed(l, keep) ==
  /\ Running(l)
  /\ entries' = IF keep THEN Kept(load[l].key) ELSE entries
  /\ Told(l)
  /\ Settled(l)

(* Fault: the key is only cleared when the load succeeded. *)
FaultFail(l) ==
  /\ Running(l)
  /\ Told(l)
  /\ load' = [load EXCEPT ![l].runs = FALSE]
  /\ UNCHANGED <<entries, inFlight>>

(* The loader rejects, and with it everybody awaiting it. *)
Fail(l) ==
  /\ Running(l)
  /\ Told(l)
  /\ Settled(l)
  /\ UNCHANGED entries

Next ==
  \/ \E k \in Keys :
       \/ Forget(k)
       \/ \E r \in Readers : Hit(r, k) \/ Join(r, k)
       \/ \E l \in Loads : Refresh(k, l) \/ \E r \in Readers : Read(r, k, l)
  \/ \E i \in 1..Max : Expire(i)
  \/ \E l \in Loads :
       \/ Fail(l)
       \/ \E keep \in BOOLEAN : Succeed(l, keep)

Spec == Init /\ [][Next]_vars

-----------------------------------------------------------------------------
(* "A person waiting never joins such a load": nobody ever waits on a      *)
(* background refresh, which may be queued behind everything else, nor on  *)
(* a load that has already ended.                                          *)
ReaderNeverBehindRefresh ==
  \A r \in Readers : awaits[r] # NoLoad =>
    Running(awaits[r]) /\ ~load[awaits[r]].background

(* "A thousand reports polling the same finding cost one upstream call":   *)
(* however refreshes, failures and forgetting interleave, one key has at   *)
(* most one reader's load running.                                         *)
OneReaderLoadPerKey ==
  \A l, m \in Loads :
    (Running(l) /\ Running(m) /\ load[l].key = load[m].key
      /\ ~load[l].background /\ ~load[m].background) => l = m

(* A key is never left in flight by a load that is over: every later       *)
(* background refresh of it would be coalesced with nothing, for ever.     *)
NoPoisonedKey ==
  \A k \in Keys : inFlight[k] # NoLoad =>
    Running(inFlight[k]) /\ load[inFlight[k]].key = k

(* Both of what holds of the loads of a key, however refreshes, failures,  *)
(* forgetting and evictions meet: no second upstream call for its readers, *)
(* and none that is over left in flight.                                   *)
LoadsInOrder == OneReaderLoadPerKey /\ NoPoisonedKey

(* The recency order holds one entry per key, whatever mixture of reads,   *)
(* late loads, forgetting and evictions has moved it about: a second one   *)
(* would be served after delete() had removed the first.                   *)
OneEntryPerKey ==
  \A i, j \in DOMAIN entries : entries[i].key = entries[j].key => i = j
==============================================================================
