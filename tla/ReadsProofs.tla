------------------------------ MODULE ReadsProofs ------------------------------
(***************************************************************************)
(* What holds of what is read while Checkmarx One changes, for any keys,   *)
(* readers, loads and findings, any size of the cache, and any budgets,    *)
(* targets and months.  None of it is inductive:                           *)
(*                                                                         *)
(*   - A key's slot in #inFlight can be taken over (by a reader, from a    *)
(*     background refresh), so a load may run that is in no slot.          *)
(*     CacheInv says which: only background ones.  StateInv adds that a    *)
(*     key has one entry, and that what a load was answered is as new as   *)
(*     the last forgetting of its key, unless it ran at that moment.       *)
(*   - An Undo of FAE Flush puts back what it read before, and ends with   *)
(*     nothing known as marked; a step ends by what the project was when   *)
(*     it began.  FlushInv says what an Undo has read still covers, and    *)
(*     which step may be under way while the project is at another.        *)
(*   - A grace that Govern gives is honoured by evaluations which know     *)
(*     only the state of the month.  GovernInv says that the state knows   *)
(*     every grace that lasts, and that whatever is restricted this month  *)
(*     is so on the figure that the index has.                             *)
(***************************************************************************)
EXTENDS Reads, SequenceTheorems, TLAPS

-----------------------------------------------------------------------------
(* The loads of the cache (TtlCache.tla); the entries play no part yet.     *)
LoadsOK ==
  /\ inFlight \in [Keys -> Loads \cup {NoLoad}]
  /\ load \in [Loads -> [runs : BOOLEAN, key : Keys, background : BOOLEAN]]
  /\ awaits \in [Readers -> Loads \cup {NoLoad}]

(* A reader's load holds its key's slot for as long as it runs. *)
ReaderLoadsInFlight ==
  \A l \in Loads : Running(l) /\ ~load[l].background => inFlight[load[l].key] = l

CacheInv ==
  /\ LoadsOK
  /\ NoPoisonedKey
  /\ ReaderLoadsInFlight
  /\ ReaderNeverBehindRefresh

-----------------------------------------------------------------------------
(* Nothing is in flight at first. *)
LEMMA CacheInit == Init => CacheInv
  <1>. SUFFICES ASSUME Init PROVE CacheInv
    OBVIOUS
  <1>1. (CHOOSE k \in Keys : TRUE) \in Keys
    BY CacheAssumption
  <1>2. LoadsOK
    BY <1>1 DEF Init, LoadsOK
  <1>3. \A l \in Loads : ~Running(l)
    BY DEF Init, Running
  <1>. QED
    BY <1>2, <1>3, CacheAssumption
    DEF Init, CacheInv, NoPoisonedKey, ReaderLoadsInFlight, ReaderNeverBehindRefresh

(* A new load takes the slot of its key, held by no reader's load. *)
LEMMA StartKeepsLoads ==
  ASSUME CacheInv, NEW l \in Loads, NEW k \in Keys, NEW background \in BOOLEAN,
         Start(l, k, background),
         inFlight[k] # NoLoad => load[inFlight[k]].background
  PROVE  /\ inFlight' \in [Keys -> Loads \cup {NoLoad}]
         /\ load' \in [Loads -> [runs : BOOLEAN, key : Keys, background : BOOLEAN]]
         /\ load'[l] = [runs |-> TRUE, key |-> k, background |-> background]
         /\ \A m \in Loads : m # l => load'[m] = load[m]
         /\ NoPoisonedKey'
         /\ ReaderLoadsInFlight'
  <1>. USE DEF CacheInv
  <1>1. /\ inFlight' \in [Keys -> Loads \cup {NoLoad}]
        /\ load' \in [Loads -> [runs : BOOLEAN, key : Keys, background : BOOLEAN]]
        /\ load'[l] = [runs |-> TRUE, key |-> k, background |-> background]
        /\ \A m \in Loads : m # l => load'[m] = load[m]
    BY DEF LoadsOK, Start
  <1>2. NoPoisonedKey'
    BY <1>1 DEF NoPoisonedKey, Start, Running, LoadsOK
  <1>3. ReaderLoadsInFlight'
    BY <1>1, CacheAssumption DEF ReaderLoadsInFlight, Start, Running, LoadsOK
  <1>. QED
    BY <1>1, <1>2, <1>3

(* A reader's load: it is the only one of its key, and running. *)
LEMMA ReadKeepsCache ==
  ASSUME CacheInv, NEW r \in Readers, NEW k \in Keys, NEW l \in Loads,
         inFlight[k] # NoLoad => load[inFlight[k]].background,
         Start(l, k, FALSE), Await(r, l)
  PROVE  CacheInv'
  <1>. USE DEF CacheInv
  <1>. DEFINE same == /\ inFlight' \in [Keys -> Loads \cup {NoLoad}]
                      /\ load' \in [Loads -> [runs : BOOLEAN, key : Keys, background : BOOLEAN]]
                      /\ load'[l] = [runs |-> TRUE, key |-> k, background |-> FALSE]
                      /\ \A m \in Loads : m # l => load'[m] = load[m]
                      /\ NoPoisonedKey'
                      /\ ReaderLoadsInFlight'
  <1>1. same
    BY StartKeepsLoads
  <1>2. LoadsOK'
    BY <1>1 DEF LoadsOK, Await
  <1>3. ReaderNeverBehindRefresh'
    BY <1>1 DEF ReaderNeverBehindRefresh, Await, Start, Running, LoadsOK
  <1>. QED
    BY <1>1, <1>2, <1>3

(* A refresh behind the reader's back: nobody awaits its load, which was   *)
(* not running.                                                            *)
LEMMA RefreshKeepsCache ==
  ASSUME CacheInv, NEW k \in Keys, NEW l \in Loads, Refresh(k, l)
  PROVE  CacheInv'
  <1>. USE DEF CacheInv
  <1>. DEFINE same == /\ inFlight' \in [Keys -> Loads \cup {NoLoad}]
                      /\ load' \in [Loads -> [runs : BOOLEAN, key : Keys, background : BOOLEAN]]
                      /\ load'[l] = [runs |-> TRUE, key |-> k, background |-> TRUE]
                      /\ \A m \in Loads : m # l => load'[m] = load[m]
                      /\ NoPoisonedKey'
                      /\ ReaderLoadsInFlight'
  <1>1. same
    BY StartKeepsLoads DEF Refresh
  <1>2. LoadsOK'
    BY <1>1 DEF LoadsOK, Refresh
  <1>3. ReaderNeverBehindRefresh'
    BY <1>1 DEF ReaderNeverBehindRefresh, Refresh, Start, Running, LoadsOK
  <1>. QED
    BY <1>1, <1>2, <1>3

(* A reader joins another reader's load, which is in flight. *)
LEMMA JoinKeepsCache ==
  ASSUME CacheInv, NEW r \in Readers, NEW k \in Keys,
         inFlight[k] # NoLoad, ~load[inFlight[k]].background,
         Await(r, inFlight[k]), UNCHANGED <<inFlight, load>>
  PROVE  CacheInv'
  <1>. USE DEF CacheInv
  <1>1. inFlight[k] \in Loads /\ Running(inFlight[k]) /\ ~load[inFlight[k]].background
    BY DEF LoadsOK, NoPoisonedKey
  <1>2. LoadsOK'
    BY DEF LoadsOK, Await
  <1>3. NoPoisonedKey' /\ ReaderLoadsInFlight'
    BY DEF NoPoisonedKey, ReaderLoadsInFlight, Running
  <1>4. ReaderNeverBehindRefresh'
    BY <1>1 DEF ReaderNeverBehindRefresh, Running, Await, LoadsOK
  <1>. QED
    BY <1>2, <1>3, <1>4

(* A load ends, well or not: it leaves its slot if it still holds it, and  *)
(* everybody awaiting it.                                                  *)
LEMMA EndKeepsCache ==
  ASSUME CacheInv, NEW l \in Loads, Settled(l), Told(l)
  PROVE  CacheInv'
  <1>. USE DEF CacheInv
  <1>1. LoadsOK'
    BY DEF LoadsOK, Settled, Told
  <1>2. NoPoisonedKey'
    BY DEF NoPoisonedKey, Settled, Running, LoadsOK
  <1>3. ReaderLoadsInFlight'
    BY DEF ReaderLoadsInFlight, Settled, Running, LoadsOK
  <1>4. ReaderNeverBehindRefresh'
    BY DEF ReaderNeverBehindRefresh, Settled, Told, Running, LoadsOK
  <1>. QED
    BY <1>1, <1>2, <1>3, <1>4

(* Every step keeps the inductive invariant. *)
LEMMA CacheStep == CacheInv /\ [Next]_vars => CacheInv'
  <1>. SUFFICES ASSUME CacheInv, [Next]_vars PROVE CacheInv'
    OBVIOUS
  <1>1. CASE UNCHANGED <<inFlight, load, awaits>>
    BY <1>1 DEF CacheInv, LoadsOK, NoPoisonedKey, ReaderLoadsInFlight, ReaderNeverBehindRefresh, Running
  <1>2. ASSUME NEW k \in Keys, Forget(k) \/ \E r \in Readers : Hit(r, k) PROVE CacheInv'
    BY <1>1, <1>2 DEF Forget, Hit
  <1>3. ASSUME NEW k \in Keys, NEW r \in Readers, Join(r, k) PROVE CacheInv'
    BY <1>3, JoinKeepsCache DEF Join
  <1>4. ASSUME NEW k \in Keys, NEW l \in Loads, Refresh(k, l) PROVE CacheInv'
    BY <1>4, RefreshKeepsCache
  <1>5. ASSUME NEW k \in Keys, NEW l \in Loads, NEW r \in Readers, Read(r, k, l) PROVE CacheInv'
    BY <1>5, ReadKeepsCache DEF Read
  <1>6. ASSUME NEW i \in 1..Max, Expire(i) PROVE CacheInv'
    BY <1>1, <1>6 DEF Expire
  <1>7. ASSUME NEW l \in Loads, Fail(l) \/ \E keep \in BOOLEAN : Succeed(l, keep) PROVE CacheInv'
    BY <1>7, EndKeepsCache DEF Fail, Succeed
  <1>8. CASE UNCHANGED vars
    BY <1>1, <1>8 DEF vars
  <1>. QED
    BY <1>2, <1>3, <1>4, <1>5, <1>6, <1>7, <1>8 DEF Next

(* Every behaviour of the cache keeps the inductive invariant.             *)
THEOREM CacheIsSound == Spec => []CacheInv
  BY CacheInit, CacheStep, PTL DEF Spec

-----------------------------------------------------------------------------
(* The comment of TtlCache.wrap(): a person waiting never joins a load     *)
(* that a background refresh started, nor one that has ended.              *)
THEOREM ReadersNeverBehindRefreshes == Spec => []ReaderNeverBehindRefresh
  <1>1. CacheInv => ReaderNeverBehindRefresh
    BY DEF CacheInv
  <1>. QED
    BY <1>1, CacheIsSound, PTL

(* The header of ttl-cache.js: however many reports poll a finding, one    *)
(* upstream call is made for them.                                         *)
THEOREM OneUpstreamCall == Spec => []OneReaderLoadPerKey
  <1>1. CacheInv => OneReaderLoadPerKey
    BY DEF CacheInv, ReaderLoadsInFlight, OneReaderLoadPerKey
  <1>. QED
    BY <1>1, CacheIsSound, PTL

(* No load that is over stays in flight, so a key is always read again.    *)
THEOREM KeysStayReadable == Spec => []NoPoisonedKey
  <1>1. CacheInv => NoPoisonedKey
    BY DEF CacheInv
  <1>. QED
    BY <1>1, CacheIsSound, PTL

(* Both together, which is what is checked of the cache in use.            *)
THEOREM LoadsStayInOrder == Spec => []LoadsInOrder
  <1>. QED
    BY OneUpstreamCall, KeysStayReadable, PTL DEF LoadsInOrder

-----------------------------------------------------------------------------
(* The entries: a sequence with at most one entry of a key, and no more     *)
(* than the cache may hold.                                                 *)
Entry == [key : Keys, fresh : BOOLEAN]
KeysOnce(s) == \A i, j \in 1..Len(s) : s[i].key = s[j].key => i = j

EntriesOK ==
  /\ entries \in Seq(Entry)
  /\ KeysOnce(entries)
  /\ Len(entries) <= Max

(* A sequence without its n-th element.                                     *)
LEMMA OneTakenOut ==
  ASSUME NEW S, NEW s \in Seq(S), NEW n \in 1..Len(s)
  PROVE  LET t == SubSeq(s, 1, n - 1) \o SubSeq(s, n + 1, Len(s))
         IN  /\ t \in Seq(S) /\ Len(t) = Len(s) - 1
             /\ \A j \in 1..Len(t) : t[j] = IF j < n THEN s[j] ELSE s[j + 1]
  <1>. DEFINE a == SubSeq(s, 1, n - 1)
              c == SubSeq(s, n + 1, Len(s))
  <1>1. a \in Seq(S) /\ Len(a) = n - 1 /\ \A j \in 1..(n - 1) : a[j] = s[j]
    OBVIOUS
  <1>2. c \in Seq(S) /\ Len(c) = Len(s) - n /\ \A j \in 1..(Len(s) - n) : c[j] = s[n + j]
    OBVIOUS
  <1>. HIDE DEF a, c
  <1>0. Len(s) \in Nat /\ n \in Nat
    OBVIOUS
  <1>3. a \o c \in Seq(S) /\ Len(a \o c) = Len(s) - 1
    <2>1. a \o c \in Seq(S) /\ Len(a \o c) = Len(a) + Len(c)
      BY <1>1, <1>2, ConcatProperties
    <2>. QED
      BY <2>1, <1>0, <1>1, <1>2
  <1>4. ASSUME NEW j \in 1..Len(a \o c) PROVE (a \o c)[j] = IF j < n THEN s[j] ELSE s[j + 1]
    <2>1. CASE j < n
      BY <1>1, <1>2, <1>3, <2>1
    <2>2. CASE j >= n
      <3>1. (a \o c)[j] = c[j - (n - 1)]
        BY <1>1, <1>2, <1>3, <2>2
      <3>2. j - (n - 1) \in 1..(Len(s) - n) /\ n + (j - (n - 1)) = j + 1
        BY <1>1, <1>2, <1>3, <2>2
      <3>. QED
        BY <3>1, <3>2, <1>2, <2>2
    <2>. QED
      BY <2>1, <2>2
  <1>. QED
    BY <1>3, <1>4 DEF a, c

(* delete(): what is left has no entry of the key, and nothing new.         *)
LEMMA WithoutIs ==
  ASSUME EntriesOK, NEW k
  PROVE  /\ Without(k) \in Seq(Entry) /\ KeysOnce(Without(k)) /\ Len(Without(k)) <= Len(entries)
         /\ \A i \in 1..Len(Without(k)) : /\ Without(k)[i].key # k
                                         /\ \E j \in 1..Len(entries) : entries[j] = Without(k)[i]
  <1>. USE DEF EntriesOK
  <1>1. CASE ~Has(k)
    BY <1>1 DEF Without, Has
  <1>2. CASE Has(k)
    <2>. DEFINE n == Place(k)
                t == SubSeq(entries, 1, n - 1) \o SubSeq(entries, n + 1, Len(entries))
    <2>1. n \in 1..Len(entries) /\ entries[n].key = k
      BY <1>2 DEF Has, Place
    <2>2. Without(k) = t
      BY <1>2 DEF Without
    <2>. HIDE DEF n
    <2>3. /\ t \in Seq(Entry) /\ Len(t) = Len(entries) - 1
          /\ \A j \in 1..Len(t) : t[j] = IF j < n THEN entries[j] ELSE entries[j + 1]
      BY <2>1, OneTakenOut
    <2>. HIDE DEF t
    <2>4. \A j \in 1..Len(t) : (t[j] = entries[j] /\ j < n) \/ (t[j] = entries[j + 1] /\ j >= n)
      BY <2>1, <2>3
    <2>5. KeysOnce(t)
      BY <2>1, <2>3, <2>4 DEF KeysOnce
    <2>6. \A i \in 1..Len(t) : t[i].key # k /\ \E j \in 1..Len(entries) : entries[j] = t[i]
      BY <2>1, <2>3, <2>4 DEF KeysOnce
    <2>. QED
      BY <2>2, <2>3, <2>5, <2>6
  <1>. QED
    BY <1>1, <1>2

(* An entry put last, of a key that has none.                               *)
LEMMA PutLast ==
  ASSUME NEW s \in Seq(Entry), KeysOnce(s), NEW e \in Entry, \A i \in 1..Len(s) : s[i].key # e.key
  PROVE  /\ Append(s, e) \in Seq(Entry) /\ KeysOnce(Append(s, e)) /\ Len(Append(s, e)) = Len(s) + 1
         /\ \A i \in 1..Len(Append(s, e)) : Append(s, e)[i] = e \/ \E j \in 1..Len(s) : Append(s, e)[i] = s[j]
  <1>. DEFINE t == Append(s, e)
  <1>1. t \in Seq(Entry) /\ Len(t) = Len(s) + 1 /\ t[Len(s) + 1] = e /\ \A i \in 1..Len(s) : t[i] = s[i]
    OBVIOUS
  <1>. HIDE DEF t
  <1>2. \A i \in 1..Len(t) : i \in 1..Len(s) \/ i = Len(s) + 1
    BY <1>1
  <1>3. KeysOnce(t)
    BY <1>1, <1>2 DEF KeysOnce
  <1>. QED
    BY <1>1, <1>2, <1>3 DEF t

(* set(): it is the one entry of its key, and no other becomes fresh.       *)
LEMMA KeptIs ==
  ASSUME EntriesOK, NEW k \in Keys, entries' = Kept(k)
  PROVE  EntriesOK' /\ \A x : x # k /\ Fresh(x)' => Fresh(x)
  <1>. DEFINE e == [key |-> k, fresh |-> TRUE]
              t == Append(Without(k), e)
  <1>1. e \in Entry /\ e.key = k
    BY DEF Entry
  <1>. HIDE DEF e
  <1>2. /\ t \in Seq(Entry) /\ KeysOnce(t) /\ Len(t) <= Len(entries) + 1 /\ Len(t) > 0
        /\ \A i \in 1..Len(t) : t[i] = e \/ \E j \in 1..Len(Without(k)) : t[i] = Without(k)[j]
    BY <1>1, WithoutIs, PutLast
  <1>3. \A i \in 1..Len(t) : t[i] = e \/ \E j \in 1..Len(entries) : t[i] = entries[j]
    BY <1>2, WithoutIs
  <1>4. entries' = IF Len(t) > Max THEN Tail(t) ELSE t
    BY DEF Kept, e
  <1>. HIDE DEF t
  <1>5. /\ EntriesOK'
        /\ \A i \in 1..Len(entries') :
             entries'[i] = e \/ \E j \in 1..Len(entries) : entries'[i] = entries[j]
    <2>1. CASE Len(t) > Max
      <3>1. /\ Tail(t) \in Seq(Entry) /\ Len(Tail(t)) = Len(t) - 1
            /\ \A i \in 1..Len(Tail(t)) : Tail(t)[i] = t[i + 1] /\ i + 1 \in 1..Len(t)
        BY <1>2
      <3>2. entries' = Tail(t)
        BY <1>4, <2>1
      <3>3. KeysOnce(Tail(t))
        BY <1>2, <3>1 DEF KeysOnce
      <3>4. Len(Tail(t)) <= Max
        BY <1>2, <3>1, CacheAssumption DEF EntriesOK
      <3>. QED
        BY <3>1, <3>2, <3>3, <3>4, <1>3 DEF EntriesOK
    <2>2. CASE ~(Len(t) > Max)
      BY <2>2, <1>2, <1>3, <1>4, CacheAssumption DEF EntriesOK
    <2>. QED
      BY <2>1, <2>2
  <1>. QED
    BY <1>1, <1>5 DEF Fresh, EntriesOK

(* get(): the entry becomes the last, as it was.                            *)
LEMMA HitIs ==
  ASSUME EntriesOK, NEW k \in Keys, Fresh(k), entries' = Append(Without(k), EntryOf(k))
  PROVE  EntriesOK' /\ \A x : Fresh(x)' => Fresh(x)
  <1>. DEFINE e == EntryOf(k)
              t == Append(Without(k), e)
  <1>1. Place(k) \in 1..Len(entries) /\ e = entries[Place(k)] /\ e.key = k /\ e \in Entry
    BY DEF EntriesOK, Fresh, Place, EntryOf
  <1>. HIDE DEF e
  <1>2. /\ t \in Seq(Entry) /\ KeysOnce(t) /\ Len(t) = Len(Without(k)) + 1
        /\ \A i \in 1..Len(t) : t[i] = e \/ \E j \in 1..Len(Without(k)) : t[i] = Without(k)[j]
    BY <1>1, WithoutIs, PutLast
  <1>3. \A i \in 1..Len(t) : \E j \in 1..Len(entries) : t[i] = entries[j]
    BY <1>1, <1>2, WithoutIs
  <1>4. Len(Without(k)) < Len(entries)
    <2>1. Has(k)
      BY DEF Has, Fresh
    <2>. QED
      BY <2>1, <1>1, OneTakenOut DEF Without, EntriesOK
  <1>5. entries' = t
    BY DEF e
  <1>. HIDE DEF t
  <1>. QED
    BY <1>2, <1>3, <1>4, <1>5, CacheAssumption DEF EntriesOK, Fresh

(* delete(): nothing becomes fresh, and the key's entry is gone.            *)
LEMMA ForgetIs ==
  ASSUME EntriesOK, NEW k, entries' = Without(k)
  PROVE  EntriesOK' /\ ~Fresh(k)' /\ \A x : Fresh(x)' => Fresh(x)
  BY WithoutIs, CacheAssumption DEF EntriesOK, Fresh

(* Time passes.                                                             *)
LEMMA ExpireIs ==
  ASSUME EntriesOK, NEW i, Expire(i)
  PROVE  EntriesOK' /\ \A x : Fresh(x)' => Fresh(x)
  <1>1. /\ i \in 1..Len(entries) /\ entries' = [entries EXCEPT ![i].fresh = FALSE]
        /\ entries \in Seq(Entry) /\ Len(entries) <= Max
    BY DEF Expire, EntriesOK
  <1>2. entries' \in Seq(Entry) /\ Len(entries') = Len(entries)
    <2>1. entries[i] \in Entry
      BY <1>1
    <2>2. [entries[i] EXCEPT !.fresh = FALSE] \in Entry
      BY <2>1 DEF Entry
    <2>. QED
      BY <1>1, <2>2
  <1>3. \A j \in 1..Len(entries) : /\ entries'[j].key = entries[j].key
                                   /\ entries'[j].fresh => entries[j].fresh
    BY <1>1 DEF Entry
  <1>. QED
    BY <1>1, <1>2, <1>3 DEF EntriesOK, KeysOnce, Fresh

-----------------------------------------------------------------------------
(* Finding states (FindingState.tla): what a load was answered is as new as *)
(* the last forgetting of its key, unless it ran then.                      *)
StatesOK ==
  /\ {state, kept, gone} \subseteq [Keys -> {0, 1}]
  /\ got \in [Loads -> {0, 1, Nothing}]
  /\ raced \in [Keys -> SUBSET Loads]
  /\ ask \in [Readers -> [step : Steps, key : Keys]]
  /\ \A k \in Keys : gone[k] <= state[k]

AnswersOK ==
  \A l \in Loads :
    Running(l) /\ got[l] # Nothing /\ l \notin raced[load[l].key] => got[l] >= gone[load[l].key]

StateInv == CacheInv /\ EntriesOK /\ StatesOK /\ AnswersOK /\ OlderOnlyIfRaced

(* At first the cache is empty. *)
LEMMA StateInitInv == StateInit => StateInv
  <1>. SUFFICES ASSUME StateInit PROVE StateInv
    OBVIOUS
  <1>1. CacheInv
    BY CacheInit DEF StateInit
  <1>2. entries = <<>> /\ \A l \in Loads : ~Running(l)
    BY DEF StateInit, Init, Running
  <1>3. EntriesOK /\ OlderOnlyIfRaced
    BY <1>2, CacheAssumption DEF EntriesOK, KeysOnce, OlderOnlyIfRaced, Fresh
  <1>. DEFINE some == CHOOSE k \in Keys : TRUE
  <1>4. some \in Keys /\ ask = [r \in Readers |-> [step |-> "no", key |-> some]]
    BY CacheAssumption DEF StateInit
  <1>. HIDE DEF some
  <1>5. StatesOK
    <2>1. ask \in [Readers -> [step : Steps, key : Keys]]
      BY <1>4 DEF Steps
    <2>2. /\ state = [k \in Keys |-> 0] /\ kept = [k \in Keys |-> 0] /\ gone = [k \in Keys |-> 0]
          /\ got = [l \in Loads |-> Nothing] /\ raced = [k \in Keys |-> {}]
      BY DEF StateInit
    <2>. QED
      BY <2>1, <2>2 DEF StatesOK
  <1>. QED
    BY <1>1, <1>2, <1>3, <1>5 DEF StateInv, AnswersOK

(* A load begins, without an answer yet.                                    *)
LEMMA NewLoadKeepsAnswers ==
  ASSUME StateInv, NEW l \in Loads, NEW k \in Keys, NEW background \in BOOLEAN,
         Start(l, k, background), got' = [got EXCEPT ![l] = Nothing]
  PROVE  /\ got' \in [Loads -> {0, 1, Nothing}] /\ got'[l] = Nothing
         /\ \A m \in Loads : m # l => load'[m] = load[m] /\ got'[m] = got[m]
  BY DEF StateInv, StatesOK, CacheInv, LoadsOK, Start

(* The key of a finding is forgotten: what is being read raced with that.   *)
LEMMA ForgottenKeepsStates ==
  ASSUME StateInv, NEW k \in Keys, Forgotten(k), UNCHANGED state
  PROVE  /\ gone' \in [Keys -> {0, 1}] /\ raced' \in [Keys -> SUBSET Loads]
         /\ \A x \in Keys : gone'[x] <= state[x]
         /\ \A x \in Keys : x # k => gone'[x] = gone[x] /\ raced'[x] = raced[x]
         /\ \A l \in Loads : Running(l) /\ load[l].key = k => l \in raced'[k]
  BY DEF StateInv, StatesOK, Forgotten, LoadsOf

(* What changes neither answers nor what was forgotten.                     *)
LEMMA QuietStep ==
  ASSUME StateInv, CacheInv', EntriesOK', StatesOK',
         UNCHANGED <<kept, gone, raced>>,
         \A x : Fresh(x)' => Fresh(x),
         \A l \in Loads : Running(l)' /\ got'[l] # Nothing =>
                           Running(l) /\ got'[l] = got[l] /\ load'[l].key = load[l].key
  PROVE  StateInv'
  BY DEF StateInv, AnswersOK, OlderOnlyIfRaced

(* Checkmarx One changes or answers; a reader asks; a report polls.         *)
LEMMA WorldKeepsStateInv ==
  ASSUME StateInv,
         \/ \E k \in Keys : Verdict(k)
         \/ \E l \in Loads : Reads(l)
         \/ \E r \in Readers, k \in Keys : Asks(r, k)
         \/ TimePasses
         \/ \E k \in Keys, l \in Loads : Poll(k, l)
  PROVE  StateInv'
  <1>. USE DEF StateInv
  <1>0. ASSUME UNCHANGED <<inFlight, load, awaits>> PROVE CacheInv'
    BY <1>0 DEF CacheInv, LoadsOK, NoPoisonedKey, ReaderLoadsInFlight, ReaderNeverBehindRefresh, Running
  <1>1. ASSUME NEW k \in Keys, Verdict(k) PROVE StateInv'
    <2>1. UNCHANGED <<vars, got, kept, ask, gone, raced>> /\ state' = [state EXCEPT ![k] = 1]
      BY <1>1 DEF Verdict
    <2>2. StatesOK'
      BY <2>1 DEF StatesOK
    <2>3. EntriesOK' /\ CacheInv' /\ \A x : Fresh(x)' => Fresh(x)
      BY <2>1, <1>0 DEF vars, EntriesOK, Fresh
    <2>. QED
      BY <2>1, <2>2, <2>3, QuietStep DEF vars, Running
  <1>2. ASSUME NEW l \in Loads, Reads(l) PROVE StateInv'
    <2>1. /\ UNCHANGED <<vars, state, kept, ask, gone, raced>>
          /\ Running(l) /\ got' = [got EXCEPT ![l] = state[load[l].key]]
      BY <1>2 DEF Reads
    <2>2. load[l].key \in Keys
      BY DEF CacheInv, LoadsOK
    <2>3. StatesOK'
      BY <2>1, <2>2 DEF StatesOK
    <2>4. EntriesOK' /\ CacheInv' /\ OlderOnlyIfRaced'
      BY <2>1, <1>0 DEF vars, EntriesOK, OlderOnlyIfRaced, Fresh
    <2>5. AnswersOK'
      BY <2>1, <2>2 DEF AnswersOK, StatesOK, vars, Running
    <2>. QED
      BY <2>3, <2>4, <2>5
  <1>3. ASSUME NEW r \in Readers, NEW k \in Keys, Asks(r, k) PROVE StateInv'
    <2>1. /\ UNCHANGED <<vars, state, got, kept, gone, raced>>
          /\ ask' = [ask EXCEPT ![r] = [step |-> "first", key |-> k]]
      BY <1>3 DEF Asks
    <2>2. StatesOK'
      BY <2>1 DEF StatesOK, Steps
    <2>3. EntriesOK' /\ CacheInv' /\ \A x : Fresh(x)' => Fresh(x)
      BY <2>1, <1>0 DEF vars, EntriesOK, Fresh
    <2>. QED
      BY <2>1, <2>2, <2>3, QuietStep DEF vars, Running
  <1>4. ASSUME NEW i \in 1..Max, Expire(i), UNCHANGED own PROVE StateInv'
    <2>1. UNCHANGED <<inFlight, load, awaits, state, got, kept, ask, gone, raced>>
      BY <1>4 DEF Expire, own
    <2>2. EntriesOK' /\ \A x : Fresh(x)' => Fresh(x)
      BY <1>4, ExpireIs
    <2>3. StatesOK'
      BY <2>1 DEF StatesOK
    <2>. QED
      BY <2>1, <2>2, <2>3, <1>0, QuietStep DEF Running
  <1>5. ASSUME NEW k \in Keys, NEW l \in Loads, Poll(k, l) PROVE StateInv'
    <2>1. /\ Refresh(k, l) /\ got' = [got EXCEPT ![l] = Nothing]
          /\ UNCHANGED <<entries, state, kept, ask, gone, raced>>
      BY <1>5 DEF Poll, Refresh
    <2>2. CacheInv'
      BY <2>1, RefreshKeepsCache
    <2>3. /\ got' \in [Loads -> {0, 1, Nothing}] /\ got'[l] = Nothing
          /\ \A m \in Loads : m # l => load'[m] = load[m] /\ got'[m] = got[m]
      BY <2>1, NewLoadKeepsAnswers DEF Refresh
    <2>4. EntriesOK' /\ StatesOK' /\ \A x : Fresh(x)' => Fresh(x)
      BY <2>1, <2>3 DEF EntriesOK, StatesOK, Fresh
    <2>. QED
      BY <2>1, <2>2, <2>3, <2>4, QuietStep DEF Running
  <1>. QED
    BY <1>1, <1>2, <1>3, <1>4, <1>5 DEF TimePasses

(* actedOn(): what was cached is gone. *)
LEMMA ActedOnKeepsStateInv ==
  ASSUME StateInv, NEW k \in Keys, ActedOn(k)
  PROVE  StateInv'
  <1>. USE DEF StateInv
  <1>1. /\ entries' = Without(k) /\ Forgotten(k)
        /\ UNCHANGED <<inFlight, load, awaits, state, got, kept, ask>>
    BY DEF ActedOn, Forget
  <1>2. CacheInv'
    BY <1>1 DEF CacheInv, LoadsOK, NoPoisonedKey, ReaderLoadsInFlight, ReaderNeverBehindRefresh, Running
  <1>3. EntriesOK' /\ ~Fresh(k)' /\ \A x : Fresh(x)' => Fresh(x)
    BY <1>1, ForgetIs
  <1>4. StatesOK'
    BY <1>1, ForgottenKeepsStates DEF StatesOK
  <1>5. AnswersOK'
    BY <1>1, ForgottenKeepsStates DEF AnswersOK, Running, CacheInv, LoadsOK
  <1>6. OlderOnlyIfRaced'
    BY <1>1, <1>3, ForgottenKeepsStates DEF OlderOnlyIfRaced
  <1>. QED
    BY <1>2, <1>3, <1>4, <1>5, <1>6

(* liveState() asks, and asks again: the load it awaits is another reader's *)
(* or its own.                                                              *)
LEMMA ReaderKeepsStateInv ==
  ASSUME StateInv, NEW r \in Readers,
         FirstHit(r) \/ \E l \in Loads : FirstAwaits(r, l) \/ Again(r, l)
  PROVE  StateInv'
  <1>. USE DEF StateInv
  <1>. DEFINE k == ask[r].key
  <1>0. k \in Keys
    BY DEF StatesOK
  <1>1. CASE FirstHit(r)
    <2>1. /\ Fresh(k) /\ entries' = Append(Without(k), EntryOf(k))
          /\ UNCHANGED <<inFlight, load, awaits, state, got, kept, gone, raced>>
          /\ \E s \in Steps : ask' = [ask EXCEPT ![r].step = s]
      BY <1>1 DEF FirstHit, Hit, MovesTo, Steps
    <2>2. CacheInv'
      BY <2>1 DEF CacheInv, LoadsOK, NoPoisonedKey, ReaderLoadsInFlight, ReaderNeverBehindRefresh, Running
    <2>3. EntriesOK' /\ \A x : Fresh(x)' => Fresh(x)
      BY <2>1, <1>0, HitIs
    <2>4. StatesOK'
      BY <2>1 DEF StatesOK
    <2>. QED
      BY <2>1, <2>2, <2>3, <2>4, QuietStep DEF Running
  <1>2. ASSUME NEW l \in Loads, FirstAwaits(r, l) PROVE StateInv'
    <2>1. /\ UNCHANGED <<entries, state, kept, gone, raced>>
          /\ ask' = [ask EXCEPT ![r].step = "reading"]
      BY <1>2 DEF FirstAwaits, Join, Read, MovesTo
    <2>2. EntriesOK' /\ \A x : Fresh(x)' => Fresh(x)
      BY <2>1 DEF EntriesOK, Fresh
    <2>3. CASE Join(r, k) /\ UNCHANGED got
      <3>1. CacheInv' /\ UNCHANGED <<inFlight, load, got>>
        BY <2>3, <1>0, JoinKeepsCache DEF Join
      <3>2. StatesOK'
        BY <2>1, <3>1 DEF StatesOK, Steps
      <3>. QED
        BY <2>1, <2>2, <3>1, <3>2, QuietStep DEF Running
    <2>4. CASE Read(r, k, l) /\ got' = [got EXCEPT ![l] = Nothing]
      <3>1. CacheInv'
        BY <2>4, <1>0, ReadKeepsCache DEF Read
      <3>2. /\ got' \in [Loads -> {0, 1, Nothing}] /\ got'[l] = Nothing
            /\ \A m \in Loads : m # l => load'[m] = load[m] /\ got'[m] = got[m]
        BY <2>4, <1>0, NewLoadKeepsAnswers DEF Read
      <3>3. StatesOK'
        BY <2>1, <3>2 DEF StatesOK, Steps
      <3>. QED
        BY <2>1, <2>2, <3>1, <3>2, <3>3, QuietStep DEF Running
    <2>. QED
      BY <2>3, <2>4, <1>2 DEF FirstAwaits
  <1>3. ASSUME NEW l \in Loads, Again(r, l) PROVE StateInv'
    <2>1. /\ entries' = Without(k) /\ Forgotten(k) /\ UNCHANGED <<state, kept>>
          /\ ask' = [ask EXCEPT ![r].step = "rereading"]
      BY <1>3 DEF Again, MovesTo
    <2>2. EntriesOK' /\ ~Fresh(k)' /\ \A x : Fresh(x)' => Fresh(x)
      BY <2>1, ForgetIs
    <2>3. OlderOnlyIfRaced'
      BY <1>0, <2>1, <2>2, ForgottenKeepsStates DEF OlderOnlyIfRaced
    <2>4. CASE /\ inFlight[k] # NoLoad /\ ~load[inFlight[k]].background
               /\ Await(r, inFlight[k]) /\ UNCHANGED <<inFlight, load, got>>
      <3>1. CacheInv'
        BY <2>4, <1>0, JoinKeepsCache
      <3>2. StatesOK'
        BY <1>0, <2>1, <2>4, ForgottenKeepsStates DEF StatesOK, Steps
      <3>3. AnswersOK'
        BY <1>0, <2>1, <2>4, ForgottenKeepsStates DEF AnswersOK, Running, CacheInv, LoadsOK
      <3>. QED
        BY <2>2, <2>3, <3>1, <3>2, <3>3
    <2>5. CASE /\ inFlight[k] # NoLoad => load[inFlight[k]].background
               /\ Start(l, k, FALSE) /\ Await(r, l) /\ got' = [got EXCEPT ![l] = Nothing]
      <3>1. CacheInv'
        BY <2>5, <1>0, ReadKeepsCache
      <3>2. /\ got' \in [Loads -> {0, 1, Nothing}] /\ got'[l] = Nothing
            /\ \A m \in Loads : m # l => load'[m] = load[m] /\ got'[m] = got[m]
        BY <2>5, <1>0, NewLoadKeepsAnswers
      <3>3. StatesOK'
        BY <1>0, <2>1, <3>2, ForgottenKeepsStates DEF StatesOK, Steps
      <3>4. AnswersOK'
        BY <1>0, <2>1, <3>2, ForgottenKeepsStates DEF AnswersOK, Running, CacheInv, LoadsOK
      <3>. QED
        BY <2>2, <2>3, <3>1, <3>3, <3>4
    <2>. QED
      BY <2>4, <2>5, <1>3 DEF Again
  <1>. QED
    BY <1>1, <1>2, <1>3

(* A load ends: what it was answered is kept, and is as new as the last     *)
(* forgetting, unless it raced with it; or it fails.                        *)
LEMMA LoadKeepsStateInv ==
  ASSUME StateInv, NEW l \in Loads, Loaded(l) \/ LoadFails(l)
  PROVE  StateInv'
  <1>. USE DEF StateInv
  <1>. DEFINE k == load[l].key
  <1>0. Running(l) /\ Settled(l) /\ Told(l) /\ UNCHANGED <<state, got, gone, raced>> /\ k \in Keys
    BY DEF Loaded, LoadFails, Succeed, Fail, CacheInv, LoadsOK
  <1>1. CacheInv'
    BY <1>0, EndKeepsCache
  <1>2. \A m \in Loads : load'[m].key = load[m].key /\ (Running(m)' => Running(m))
    BY <1>0 DEF Settled, Running, CacheInv, LoadsOK
  <1>3. AnswersOK'
    BY <1>0, <1>2 DEF AnswersOK
  <1>4. ask' \in [Readers -> [step : Steps, key : Keys]]
    <2>1. \A x \in Readers : /\ ask[x] \in [step : Steps, key : Keys]
                             /\ \E s \in Steps : ask'[x] = [ask[x] EXCEPT !.step = s] \/ ask'[x] = ask[x]
      BY DEF Loaded, LoadFails, NextStep, Steps, StatesOK
    <2>2. ask' = [x \in Readers |-> ask'[x]]
      BY DEF Loaded, LoadFails
    <2>3. \A x \in Readers : ask'[x] \in [step : Steps, key : Keys]
      BY <2>1
    <2>. QED
      BY <2>2, <2>3
  <1>5. CASE LoadFails(l)
    <2>1. UNCHANGED <<entries, kept>>
      BY <1>5 DEF LoadFails, Fail
    <2>2. EntriesOK' /\ StatesOK' /\ OlderOnlyIfRaced'
      BY <2>1, <1>0, <1>4 DEF EntriesOK, StatesOK, OlderOnlyIfRaced, Fresh
    <2>. QED
      BY <1>1, <1>3, <2>2
  <1>6. CASE Loaded(l)
    <2>1. got[l] # Nothing /\ entries' = Kept(k) /\ kept' = [kept EXCEPT ![k] = got[l]]
      BY <1>6 DEF Loaded, Succeed
    <2>2. EntriesOK' /\ \A x : x # k /\ Fresh(x)' => Fresh(x)
      BY <1>0, <2>1, KeptIs
    <2>3. StatesOK'
      BY <2>1, <1>0, <1>4 DEF StatesOK
    <2>4. l \in raced[k] \/ got[l] >= gone[k]
      BY <1>0, <2>1 DEF AnswersOK
    <2>5. OlderOnlyIfRaced'
      BY <1>0, <2>1, <2>2, <2>4 DEF OlderOnlyIfRaced, StatesOK
    <2>. QED
      BY <1>1, <1>3, <2>2, <2>3, <2>5
  <1>. QED
    BY <1>5, <1>6

(* Every step of the cache with the states of findings keeps it.            *)
LEMMA StateStep == StateInv /\ [StateNext]_all => StateInv'
  <1>. SUFFICES ASSUME StateInv, [StateNext]_all PROVE StateInv'
    OBVIOUS
  <1>1. CASE UNCHANGED all
    BY <1>1 DEF all, own, vars, StateInv, CacheInv, LoadsOK, NoPoisonedKey, ReaderLoadsInFlight,
                ReaderNeverBehindRefresh, Running, EntriesOK, StatesOK, AnswersOK, OlderOnlyIfRaced, Fresh
  <1>2. CASE StateNext
    BY <1>2, WorldKeepsStateInv, ActedOnKeepsStateInv, ReaderKeepsStateInv, LoadKeepsStateInv DEF StateNext
  <1>. QED
    BY <1>1, <1>2

(* The cache, its entries and what they say agree throughout.               *)
THEOREM StatesAreSound == StateSpec => []StateInv
  BY StateInitInv, StateStep, PTL DEF StateSpec

(* "Forget cached answers for findings just acted on" (server.js): what the *)
(* cache says afterwards is older than the action only when it was being    *)
(* read at that very moment.                                                *)
THEOREM WhatIsOlderRaced == StateSpec => []OlderOnlyIfRaced
  <1>1. StateInv => OlderOnlyIfRaced
    BY DEF StateInv
  <1>. QED
    BY <1>1, StatesAreSound, PTL

(* Nor do people wait behind refreshes, or loads get out of order, while    *)
(* findings are acted on and read again.                                    *)
THEOREM ReadersAndLoadsInUse == StateSpec => [](ReaderNeverBehindRefresh /\ LoadsInOrder)
  <1>1. StateInv => ReaderNeverBehindRefresh /\ LoadsInOrder
    BY DEF StateInv, CacheInv, ReaderLoadsInFlight, LoadsInOrder, OneReaderLoadPerKey
  <1>. QED
    BY <1>1, StatesAreSound, PTL

(* The Map has one entry of a key, so that delete() leaves nothing of it to *)
(* be served (ttl-cache.js).                                                *)
THEOREM OneEntryOfEachKey == StateSpec => []OneEntryPerKey
  <1>1. StateInv => OneEntryPerKey
    BY DEF StateInv, EntriesOK, KeysOnce, OneEntryPerKey
  <1>. QED
    BY <1>1, StatesAreSound, PTL

-----------------------------------------------------------------------------
(* A run of FAE Flush (FaeFlush.tla).                                       *)
FlushSteps   == Flush!Working \cup Flush!Finished \cup {"waiting", "needs-ok"}
Project == [step : FlushSteps, code : Flush!Codes \cup {"none"}, skipping : BOOLEAN,
            fae : {"none", "made", "gone"}, ways : 0..2, compared : BOOLEAN,
            pending : SUBSET Findings, marked : SUBSET Findings]

FlushTypes ==
  /\ verdict \in [Findings -> {"toVerify", "marked", "confirmed", "judged"}]
  /\ report \in SUBSET Findings
  /\ p \in Project
  /\ option \in [delete : BOOLEAN, mode : {"mark", "report"}]
  /\ turn \in [pc : Flush!Working \cup {"no"}, todo : SUBSET Findings]
  /\ undo \in [pc : {"no", "reading", "posting"}, back : SUBSET Findings]
  /\ ours \in SUBSET Findings

(* What is the run's own is as it marked it, known to it, and about to be  *)
(* put back by an Undo that has read it.                                   *)
Known ==
  /\ \A f \in ours : verdict[f] = "marked"
  /\ Flush!MarksAreKept
  /\ undo.pc = "posting" => ours \subseteq undo.back \cup lost

(* The step under way is the project's, unless it was undone meanwhile.    *)
UnderWay == turn.pc # "no" => p.step \in {turn.pc, "undone"}

(* From the comparison on the FAE scan has completed, so that what it      *)
(* reports stays, unless an answer went ahead of it.                       *)
Scanned == {"comparing", "marking", "revalidating", "reported"}

Awaited == p.step \in Scanned \/ turn.pc \in Scanned => early \/ faeScan = "completed"

(* What follows the revalidation. *)
Revalidated ==
  \/ p.step = "done"
  \/ (p.step = "cleaning" \/ turn.pc = "cleaning") /\ p.skipping = FALSE
  => accepted \/ early \/ (faeScan = "completed" /\ p.marked \cap report = {})

FlushInv == FlushTypes /\ Known /\ UnderWay /\ Awaited /\ Revalidated

-----------------------------------------------------------------------------
(* A run begins with nothing marked. *)
LEMMA FlushInit == Flush!Init => FlushInv
  BY DEF Flush!Init, FlushInv, FlushTypes, Known, UnderWay, Awaited, Scanned, Revalidated,
         Flush!MarksAreKept, Flush!Fresh, Flush!NoTurn, Flush!NoUndo,
         Project, FlushSteps, Flush!Working, Flush!Finished, Flush!Codes

(* A step ends, with the project at another, and goes on or waits.         *)
LEMMA OverKeepsFlush ==
  ASSUME FlushInv, NEW q \in Project, Flush!Over(q), q.marked = p.marked,
         UNCHANGED <<verdict, option, undo, ours, lost>>, report' \in SUBSET Findings,
         q.step \in Scanned => early' \/ faeScan' = "completed",
         q.step = "done" \/ (q.step = "cleaning" /\ q.skipping = FALSE) =>
           accepted' \/ early' \/ (faeScan' = "completed" /\ p.marked \cap report' = {})
  PROVE  FlushInv'
  <1>1. /\ p' = q
        /\ turn' \in [pc : Flush!Working \cup {"no"}, todo : SUBSET Findings]
        /\ turn'.pc \in {"no", q.step}
    BY DEF Flush!Over, Flush!Chained, Flush!Working, Flush!NoTurn, Flush!Todo, Project
  <1>2. FlushTypes'
    BY <1>1 DEF FlushInv, FlushTypes
  <1>3. Known'
    BY <1>1 DEF FlushInv, Known, Flush!MarksAreKept
  <1>4. UnderWay' /\ Awaited' /\ Revalidated'
    BY <1>1 DEF UnderWay, Awaited, Scanned, Revalidated
  <1>. QED
    BY <1>2, <1>3, <1>4 DEF FlushInv

(* It stops, to ask. *)
LEMMA AsksKeepsFlush ==
  ASSUME FlushInv, NEW q \in Project, NEW code \in Flush!Codes, Flush!Asks(q, code), q.marked = p.marked,
         UNCHANGED <<verdict, option, undo, ours, lost>>, report' \in SUBSET Findings
  PROVE  FlushInv'
  <1>. DEFINE r == [q EXCEPT !.step = "needs-ok", !.code = code]
  <1>1. r \in Project /\ r.step = "needs-ok" /\ r.marked = q.marked
    BY DEF Project, FlushSteps
  <1>2. Flush!Over(r)
    BY DEF Flush!Asks
  <1>. HIDE DEF r
  <1>. QED
    BY <1>1, <1>2, OverKeepsFlush DEF Scanned

(* A person answers a project that stopped, or brings it back: no step of  *)
(* it is under way.                                                        *)
LEMMA ResumedKeepsFlush ==
  ASSUME FlushInv, NEW q \in Project, p.step \in {"needs-ok", "skipped", "reported"}, p' = q,
         q.marked = p.marked, UNCHANGED <<verdict, turn, undo, ours, lost>>,
         option' \in [delete : BOOLEAN, mode : {"mark", "report"}], report' \in SUBSET Findings,
         q.step \in Scanned => early' \/ faeScan' = "completed",
         (q.step # "done" /\ (q.step = "cleaning" => q.skipping = TRUE)) \/ accepted'
  PROVE  FlushInv'
  <1>1. turn.pc = "no"
    BY DEF FlushInv, FlushTypes, UnderWay, Flush!Working
  <1>2. FlushTypes' /\ Known'
    BY DEF FlushInv, FlushTypes, Known, Flush!MarksAreKept
  <1>3. UnderWay' /\ Awaited' /\ Revalidated'
    BY <1>1 DEF UnderWay, Awaited, Scanned, Revalidated
  <1>. QED
    BY <1>2, <1>3 DEF FlushInv

(* People triage: what they changed is not the run's any more. *)
LEMMA PersonKeepsFlush ==
  ASSUME FlushInv, NEW f \in Findings, NEW v \in {"confirmed", "judged"}, Flush!Person(f, v)
  PROVE  FlushInv'
  <1>. USE DEF Flush!Person, Flush!scans
  <1>1. FlushTypes'
    BY DEF FlushInv, FlushTypes
  <1>2. Known'
    BY DEF FlushInv, FlushTypes, Known, Flush!MarksAreKept
  <1>3. UnderWay' /\ Awaited' /\ Revalidated'
    BY DEF FlushInv, UnderWay, Awaited, Revalidated
  <1>. QED
    BY <1>1, <1>2, <1>3 DEF FlushInv

(* The FAE scan ends in Checkmarx One: nothing waited for it to report     *)
(* what it did.                                                            *)
LEMMA ScanEndKeepsFlush ==
  ASSUME FlushInv, (\E reported \in SUBSET Findings : Flush!ScanEnds(reported)) \/ Flush!ScanBreaks
  PROVE  FlushInv'
  <1>1. /\ faeScan = "running" /\ report' \in SUBSET Findings
        /\ UNCHANGED <<verdict, p, option, turn, undo, ours, lost, accepted, early>>
    <2>1. CASE \E reported \in SUBSET Findings : Flush!ScanEnds(reported)
      BY <2>1 DEF Flush!ScanEnds, Flush!history
    <2>2. CASE Flush!ScanBreaks
      BY <2>2 DEF Flush!ScanBreaks, Flush!history, FlushInv, FlushTypes
    <2>. QED
      BY <2>1, <2>2
  <1>2. FlushTypes' /\ Known' /\ UnderWay'
    BY <1>1 DEF FlushInv, FlushTypes, Known, Flush!MarksAreKept, UnderWay
  <1>3. Awaited' /\ Revalidated'
    BY <1>1 DEF FlushInv, Awaited, Revalidated
  <1>. QED
    BY <1>2, <1>3 DEF FlushInv

(* A step begins. *)
LEMMA BeginKeepsFlush ==
  ASSUME FlushInv, Flush!Begin
  PROVE  FlushInv'
  <1>1. /\ turn.pc = "no" /\ p.step \in Flush!Working \cup {"waiting"}
        /\ p' = [p EXCEPT !.step = IF p.step = "waiting" THEN "copying" ELSE p.step]
        /\ turn' = [pc |-> p'.step, todo |-> Flush!Todo(p)]
        /\ UNCHANGED <<verdict, faeScan, report, option, undo, ours, lost, accepted, early>>
    BY DEF Flush!Begin, Flush!checkmarx, Flush!scans, Flush!history, FlushInv, FlushTypes, Project
  <1>2. /\ p' \in Project /\ p'.step \in Flush!Working /\ p'.marked = p.marked /\ p'.skipping = p.skipping
        /\ p'.step = p.step \/ p'.step = "copying"
    BY <1>1 DEF FlushInv, FlushTypes, Project, FlushSteps, Flush!Working
  <1>3. turn' \in [pc : Flush!Working \cup {"no"}, todo : SUBSET Findings] /\ turn'.pc = p'.step
    BY <1>1, <1>2 DEF Flush!Todo, FlushInv, FlushTypes, Project
  <1>4. FlushTypes'
    BY <1>1, <1>2, <1>3 DEF FlushInv, FlushTypes
  <1>5. Known'
    BY <1>1, <1>2 DEF FlushInv, Known, Flush!MarksAreKept
  <1>6. UnderWay' /\ Awaited' /\ Revalidated'
    BY <1>1, <1>2, <1>3 DEF FlushInv, UnderWay, Awaited, Scanned, Revalidated, Flush!Working
  <1>. QED
    BY <1>4, <1>5, <1>6 DEF FlushInv

(* The code is copied, and scanned. *)
LEMMA CopyKeepsFlush ==
  ASSUME FlushInv,
         \/ \E left \in 1..2 : Flush!Copied(left)
         \/ \E code \in {"copy", "settings"} : Flush!NotCopied(code)
  PROVE  FlushInv'
  <1>. DEFINE q == Flush!Kept
  <1>1. q \in Project /\ q.marked = p.marked
    <2>1. p \in Project /\ 2 \in 0..2
      BY DEF FlushInv, FlushTypes
    <2>2. Flush!Removed(p) \in Project /\ Flush!Removed(p).marked = p.marked
      BY <2>1 DEF Flush!Removed, Project
    <2>. QED
      BY <2>1, <2>2 DEF Flush!Kept
  <1>2. report \in SUBSET Findings
    BY DEF FlushInv, FlushTypes
  <1>3. ASSUME NEW left \in 1..2, Flush!Copied(left) PROVE FlushInv'
    <2>. DEFINE r == [q EXCEPT !.fae = "made", !.ways = left, !.step = "scanning"]
    <2>1. Flush!Over(r) /\ report' \in SUBSET Findings /\ UNCHANGED <<verdict, option, undo, ours, lost>>
      BY <1>3 DEF Flush!Copied
    <2>. HIDE DEF q
    <2>2. left \in 0..2 /\ "scanning" \in FlushSteps
      BY DEF FlushSteps, Flush!Working
    <2>3. r \in Project /\ r.marked = p.marked /\ r.step = "scanning"
      BY <1>1, <2>2 DEF Project
    <2>. HIDE DEF r
    <2>. QED
      BY <2>1, <2>3, OverKeepsFlush DEF Scanned
  <1>4. ASSUME NEW code \in {"copy", "settings"}, Flush!NotCopied(code) PROVE FlushInv'
    <2>. DEFINE r == [q EXCEPT !.fae = "made", !.ways = IF code = "copy" THEN 0 ELSE q.ways]
    <2>1. Flush!Asks(r, code) /\ report' \in SUBSET Findings /\ UNCHANGED <<verdict, option, undo, ours, lost>>
      BY <1>1, <1>2, <1>4 DEF Flush!NotCopied, Flush!NoScan, Flush!scans, Flush!history
    <2>. HIDE DEF q
    <2>2. (IF code = "copy" THEN 0 ELSE q.ways) \in 0..2 /\ code \in Flush!Codes
      BY <1>1 DEF Project, Flush!Codes
    <2>3. r \in Project /\ r.marked = p.marked
      BY <1>1, <2>2 DEF Project
    <2>. HIDE DEF r
    <2>. QED
      BY <2>1, <2>2, <2>3, AsksKeepsFlush
  <1>. QED
    BY <1>3, <1>4

(* The scan is looked at: it completed, runs still, or did not complete.   *)
LEMMA ScanKeepsFlush ==
  ASSUME FlushInv,
         \/ Flush!Scanned \/ Flush!StillRuns \/ Flush!NextWay \/ Flush!TooLong
         \/ \E canceled \in BOOLEAN : Flush!ScanFails(canceled)
  PROVE  FlushInv'
  <1>. USE DEF Flush!history, Flush!checkmarx, Flush!scans
  <1>1. p \in Project /\ report \in SUBSET Findings /\ "scan" \in Flush!Codes
    BY DEF FlushInv, FlushTypes, Flush!Codes
  <1>2. CASE Flush!Scanned
    <2>. DEFINE r == [p EXCEPT !.step = "comparing"]
    <2>1. Flush!Over(r) /\ faeScan' = "completed" /\ UNCHANGED <<verdict, report, option, undo, ours, lost>>
      BY <1>2 DEF Flush!Scanned
    <2>2. r \in Project /\ r.marked = p.marked /\ r.step = "comparing"
      BY <1>1 DEF Project, FlushSteps, Flush!Working
    <2>. HIDE DEF r
    <2>. QED
      BY <1>1, <2>1, <2>2, OverKeepsFlush
  <1>3. CASE Flush!StillRuns
    <2>1. turn.pc = "scanning" /\ Flush!Over(p)
          /\ UNCHANGED <<verdict, faeScan, report, option, undo, ours, lost, early>>
      BY <1>3 DEF Flush!StillRuns
    <2>2. p.step \in {"scanning", "undone"}
      BY <2>1 DEF FlushInv, UnderWay
    <2>. QED
      BY <1>1, <2>1, <2>2, OverKeepsFlush DEF Scanned
  <1>4. CASE Flush!NextWay
    <2>. DEFINE r == [p EXCEPT !.ways = p.ways - 1, !.step = "waiting"]
    <2>1. Flush!Over(r) /\ report' \in SUBSET Findings /\ UNCHANGED <<verdict, option, undo, ours, lost>>
      BY <1>1, <1>4 DEF Flush!NextWay, Flush!NoScan, Project
    <2>2. p.ways - 1 \in 0..2
      BY <1>1, <1>4 DEF Project, Flush!NextWay
    <2>3. r \in Project /\ r.marked = p.marked /\ r.step = "waiting"
      BY <1>1, <2>2 DEF Project, FlushSteps
    <2>. HIDE DEF r
    <2>. QED
      BY <2>1, <2>3, OverKeepsFlush DEF Scanned
  <1>5. ASSUME NEW canceled \in BOOLEAN, Flush!ScanFails(canceled) PROVE FlushInv'
    <2>. DEFINE r == [p EXCEPT !.ways = IF canceled THEN p.ways ELSE 0]
    <2>1. Flush!Asks(r, "scan") /\ UNCHANGED <<verdict, report, option, undo, ours, lost>>
      BY <1>1, <1>5 DEF Flush!ScanFails, Project
    <2>2. r \in Project /\ r.marked = p.marked
      BY <1>1 DEF Project
    <2>. HIDE DEF r
    <2>. QED
      BY <1>1, <2>1, <2>2, AsksKeepsFlush
  <1>6. CASE Flush!TooLong
    BY <1>1, <1>6, AsksKeepsFlush DEF Flush!TooLong
  <1>. QED
    BY <1>2, <1>3, <1>4, <1>5, <1>6

(* The comparison leaves what is marked alone. *)
LEMMA CompareKeepsFlush ==
  ASSUME FlushInv, NEW odd \in BOOLEAN, Flush!Compare(odd)
  PROVE  FlushInv'
  <1>1. p \in Project /\ report \in SUBSET Findings
    BY DEF FlushInv, FlushTypes
  <1>. DEFINE q == [p EXCEPT !.compared = TRUE, !.pending = Flush!Unreported]
              r == [q EXCEPT !.step = IF option.mode = "report" THEN "reported" ELSE "marking"]
  <1>2. q \in Project /\ q.marked = p.marked
    BY <1>1 DEF Project, Flush!Unreported
  <1>3. /\ IF odd THEN Flush!Asks(q, "limits") ELSE Flush!Over(r)
        /\ turn.pc = "comparing"
        /\ UNCHANGED <<verdict, faeScan, report, option, undo, ours, lost, early>>
    BY DEF Flush!Compare, Flush!history, Flush!checkmarx, Flush!scans
  <1>. HIDE DEF q
  <1>4. r \in Project /\ r.marked = p.marked /\ r.step \in {"reported", "marking"}
    BY <1>2 DEF Project, FlushSteps, Flush!Working, Flush!Finished
  <1>. HIDE DEF r
  <1>5. "limits" \in Flush!Codes /\ (early \/ faeScan = "completed")
    BY <1>3 DEF Flush!Codes, FlushInv, Awaited, Scanned
  <1>. QED
    BY <1>1, <1>2, <1>3, <1>4, <1>5, AsksKeepsFlush, OverKeepsFlush

(* A mark is posted, and known: if an Undo is under way, it may not be.    *)
LEMMA MarkKeepsFlush ==
  ASSUME FlushInv, NEW f \in Findings, Flush!Mark(f)
  PROVE  FlushInv'
  <1>1. /\ turn.pc = "marking" /\ verdict' = [g \in Findings |-> IF g \in {f} THEN "marked" ELSE verdict[g]]
        /\ ours' = ours \cup {f} /\ lost' = (IF undo.pc = "no" THEN lost ELSE lost \cup {f})
        /\ p' = [p EXCEPT !.marked = p.marked \cup {f}] /\ turn' = [turn EXCEPT !.todo = turn.todo \ {f}]
        /\ UNCHANGED <<faeScan, report, option, undo, accepted, early>>
    BY DEF Flush!Mark, Flush!Posts, Flush!Took, Flush!scans, FlushInv, FlushTypes, Project
  <1>2. /\ p' \in Project /\ p'.marked = p.marked \cup {f} /\ p'.step = p.step
        /\ turn' \in [pc : Flush!Working \cup {"no"}, todo : SUBSET Findings] /\ turn'.pc = "marking"
    BY <1>1 DEF FlushInv, FlushTypes, Project
  <1>3. FlushTypes'
    BY <1>1, <1>2 DEF FlushInv, FlushTypes
  <1>4. Known'
    BY <1>1, <1>2 DEF FlushInv, FlushTypes, Known, Flush!MarksAreKept
  <1>5. UnderWay' /\ Awaited' /\ Revalidated'
    BY <1>1, <1>2 DEF FlushInv, UnderWay, Awaited, Revalidated
  <1>. QED
    BY <1>3, <1>4, <1>5 DEF FlushInv

(* It is posted, and not known. *)
LEMMA MarkLostKeepsFlush ==
  ASSUME FlushInv, NEW f \in Findings, Flush!MarkLost(f)
  PROVE  FlushInv'
  <1>. DEFINE q == [p EXCEPT !.step = "needs-ok", !.code = "error"]
  <1>1. /\ Flush!Over(q) /\ verdict' = [g \in Findings |-> IF g \in {f} THEN "marked" ELSE verdict[g]]
        /\ ours' = ours \cup {f} /\ lost' = lost \cup {f}
        /\ UNCHANGED <<faeScan, report, option, undo, accepted, early>>
    BY DEF Flush!MarkLost, Flush!Asks, Flush!Posts, Flush!scans
  <1>2. q \in Project /\ q.marked = p.marked /\ q.step = "needs-ok"
    BY DEF FlushInv, FlushTypes, Project, FlushSteps, Flush!Codes
  <1>. HIDE DEF q
  <1>3. p' = q /\ turn' = Flush!NoTurn
    BY <1>1, <1>2 DEF Flush!Over, Flush!Chained
  <1>4. FlushTypes'
    BY <1>1, <1>2, <1>3 DEF FlushInv, FlushTypes, Flush!NoTurn
  <1>5. Known'
    BY <1>1, <1>2, <1>3 DEF FlushInv, FlushTypes, Known, Flush!MarksAreKept
  <1>6. UnderWay' /\ Awaited' /\ Revalidated'
    BY <1>2, <1>3 DEF UnderWay, Awaited, Scanned, Revalidated, Flush!NoTurn
  <1>. QED
    BY <1>4, <1>5, <1>6 DEF FlushInv

(* A mark Checkmarx One does not take changes nothing. *)
LEMMA NotTakenKeepsFlush ==
  ASSUME FlushInv, NEW f \in Findings, Flush!NotTaken(f)
  PROVE  FlushInv'
  <1>1. /\ turn' = [turn EXCEPT !.todo = turn.todo \ {f}]
        /\ UNCHANGED <<verdict, faeScan, report, p, option, undo, ours, lost, accepted, early>>
    BY DEF Flush!NotTaken, Flush!checkmarx, Flush!scans, Flush!history, FlushInv, FlushTypes
  <1>2. turn' \in [pc : Flush!Working \cup {"no"}, todo : SUBSET Findings] /\ turn'.pc = turn.pc
    BY <1>1 DEF FlushInv, FlushTypes
  <1>. QED
    BY <1>1, <1>2 DEF FlushInv, FlushTypes, Known, Flush!MarksAreKept, UnderWay, Awaited, Revalidated

(* The marking is over; or nothing was taken; or any step failed.          *)
LEMMA StepEndsKeepsFlush ==
  ASSUME FlushInv, Flush!StepFails \/ Flush!NoneTaken \/ Flush!Marked
  PROVE  FlushInv'
  <1>1. p \in Project /\ report \in SUBSET Findings /\ "error" \in Flush!Codes /\ "rescan" \in Flush!Codes
    BY DEF FlushInv, FlushTypes, Flush!Codes
  <1>2. CASE Flush!StepFails
    BY <1>1, <1>2, AsksKeepsFlush DEF Flush!StepFails, Flush!checkmarx, Flush!scans, Flush!history
  <1>3. CASE Flush!NoneTaken
    BY <1>1, <1>3, AsksKeepsFlush DEF Flush!NoneTaken, Flush!checkmarx, Flush!scans, Flush!history
  <1>4. CASE Flush!Marked
    <2>. DEFINE r == [p EXCEPT !.step = "revalidating"]
    <2>1. Flush!Over(r) /\ UNCHANGED <<verdict, faeScan, report, option, undo, ours, lost, early>>
      BY <1>4 DEF Flush!Marked, Flush!checkmarx, Flush!scans, Flush!history
    <2>2. r \in Project /\ r.marked = p.marked /\ r.step = "revalidating" /\ (early \/ faeScan = "completed")
      BY <1>1, <1>4 DEF Project, FlushSteps, Flush!Working, Flush!Marked, FlushInv, Awaited, Scanned
    <2>. HIDE DEF r
    <2>. QED
      BY <1>1, <2>1, <2>2, OverKeepsFlush
  <1>. QED
    BY <1>2, <1>3, <1>4

(* All that is marked is, and is not reported; or it asks. *)
LEMMA RevalidateKeepsFlush ==
  ASSUME FlushInv, Flush!Revalidate
  PROVE  FlushInv'
  <1>1. p \in Project /\ report \in SUBSET Findings /\ "revalidation" \in Flush!Codes
    BY DEF FlushInv, FlushTypes, Flush!Codes
  <1>2. CASE Flush!AsMarked # p.marked
    <2>1. Flush!Asks(p, "revalidation") /\ UNCHANGED <<verdict, report, option, undo, ours, lost>>
      BY <1>2 DEF Flush!Revalidate, Flush!checkmarx, Flush!scans
    <2>. QED
      BY <1>1, <2>1, AsksKeepsFlush
  <1>3. CASE Flush!AsMarked = p.marked
    <2>. DEFINE q == [p EXCEPT !.compared = FALSE, !.pending = {}]
                r == [q EXCEPT !.step = IF option.delete THEN "cleaning" ELSE "done"]
    <2>1. /\ Flush!Over(r) /\ UNCHANGED <<verdict, faeScan, report, option, undo, ours, lost>>
          /\ turn.pc = "revalidating" /\ early' = (early /\ faeScan # "completed")
      BY <1>3 DEF Flush!Revalidate, Flush!Then, Flush!checkmarx, Flush!scans
    <2>2. q \in Project /\ q.marked = p.marked
      BY <1>1 DEF Project
    <2>. HIDE DEF q
    <2>3. r \in Project /\ r.marked = p.marked /\ r.step \notin Scanned
      BY <2>2 DEF Project, FlushSteps, Flush!Working, Flush!Finished, Scanned
    <2>. HIDE DEF r
    <2>4. early' \/ (faeScan' = "completed" /\ p.marked \cap report' = {})
      <3>1. early \/ faeScan = "completed"
        BY <2>1 DEF FlushInv, Awaited, Scanned
      <3>2. p.marked \cap report = {}
        BY <1>3 DEF Flush!AsMarked
      <3>. QED
        BY <2>1, <3>1, <3>2
    <2>. QED
      BY <1>1, <2>1, <2>3, <2>4, OverKeepsFlush
  <1>. QED
    BY <1>2, <1>3

(* It is removed, and the project done: it was revalidated, or is skipped. *)
LEMMA CleanKeepsFlush ==
  ASSUME FlushInv, Flush!Clean
  PROVE  FlushInv'
  <1>1. p \in Project /\ report \in SUBSET Findings
    BY DEF FlushInv, FlushTypes
  <1>. DEFINE r == [p EXCEPT !.fae = IF p.fae = "none" THEN p.fae ELSE "gone",
                             !.step = IF p.skipping THEN "skipped" ELSE "done"]
  <1>2. Flush!Over(r) /\ turn.pc = "cleaning"
        /\ UNCHANGED <<verdict, faeScan, report, option, undo, ours, lost, accepted, early>>
    BY <1>1 DEF Flush!Clean, Flush!checkmarx, Flush!scans, Flush!history, Project
  <1>3. /\ r \in Project /\ r.marked = p.marked /\ r.step \in {"skipped", "done"}
        /\ r.step = "done" => p.skipping = FALSE
    BY <1>1 DEF Project, FlushSteps, Flush!Finished
  <1>4. r.step = "done" => accepted \/ early \/ (faeScan = "completed" /\ p.marked \cap report = {})
    BY <1>2, <1>3 DEF FlushInv, Revalidated
  <1>. HIDE DEF r
  <1>. QED
    BY <1>1, <1>2, <1>3, <1>4, OverKeepsFlush DEF Scanned

(* A person answers: the project goes on, or back.  An answer that goes on *)
(* with a scan that has not completed is noted.                            *)
LEMMA AnswerKeepsFlush ==
  ASSUME FlushInv, NEW q \in Project, Flush!Answer(q), q.marked = p.marked, report' \in SUBSET Findings,
         faeScan' = faeScan \/ q.step \notin Scanned,
         (q.step # "done" /\ (q.step = "cleaning" => q.skipping = TRUE)) \/ accepted',
         q.step # "revalidating"
  PROVE  FlushInv'
  <1>. DEFINE r == [q EXCEPT !.code = "none"]
  <1>1. /\ p.step = "needs-ok" /\ p' = r /\ UNCHANGED <<verdict, option, turn, undo, ours, lost>>
        /\ early' = (early \/ (q.step \in {"comparing", "marking", "reported"} /\ faeScan # "completed"))
    BY DEF Flush!Answer
  <1>2. r \in Project /\ r.marked = p.marked /\ r.step = q.step /\ r.skipping = q.skipping
    BY DEF Project
  <1>3. option' \in [delete : BOOLEAN, mode : {"mark", "report"}]
    BY <1>1 DEF FlushInv, FlushTypes
  <1>4. q.step \in Scanned => early' \/ faeScan' = "completed"
    BY <1>1 DEF Scanned
  <1>. HIDE DEF r
  <1>. QED
    BY <1>1, <1>2, <1>3, <1>4, ResumedKeepsFlush

(* A person lets the project carry on in spite of what it asked. *)
LEMMA AnywayKeepsFlush ==
  ASSUME FlushInv, Flush!MarkAnyway \/ Flush!Continue
  PROVE  FlushInv'
  <1>1. p \in Project /\ option \in [delete : BOOLEAN, mode : {"mark", "report"}]
    BY DEF FlushInv, FlushTypes
  <1>2. ASSUME NEW step \in {"marking", "reported", "waiting", "cleaning", "done"},
               Flush!Answer([p EXCEPT !.step = step]), UNCHANGED Flush!scans,
               step \in {"cleaning", "done"} => accepted'
        PROVE  FlushInv'
    <2>. DEFINE q == [p EXCEPT !.step = step]
    <2>1. q \in Project /\ q.marked = p.marked /\ q.step = step
      BY <1>1 DEF Project, FlushSteps, Flush!Working, Flush!Finished
    <2>2. report' \in SUBSET Findings /\ faeScan' = faeScan /\ Flush!Answer(q)
      BY <1>2 DEF FlushInv, FlushTypes, Flush!scans
    <2>3. /\ (q.step # "done" /\ (q.step = "cleaning" => q.skipping = TRUE)) \/ accepted'
          /\ q.step # "revalidating"
      BY <1>2, <2>1
    <2>. HIDE DEF q
    <2>. QED
      BY <2>1, <2>2, <2>3, AnswerKeepsFlush
  <1>3. CASE Flush!Continue
    BY <1>2, <1>3 DEF Flush!Continue
  <1>4. CASE Flush!MarkAnyway /\ p.code = "revalidation"
    <2>1. accepted' = TRUE
      BY <1>4 DEF Flush!MarkAnyway
    <2>2. Flush!Answer([p EXCEPT !.step = IF option.delete THEN "cleaning" ELSE "done"])
      BY <1>4 DEF Flush!MarkAnyway, Flush!Then
    <2>3. UNCHANGED Flush!scans
      BY <1>4 DEF Flush!MarkAnyway
    <2>. QED
      BY <1>2, <2>1, <2>2, <2>3
  <1>5. CASE Flush!MarkAnyway /\ p.code # "revalidation"
    <2>1. Flush!Answer([p EXCEPT !.step = IF option.mode = "report" THEN "reported" ELSE "marking"]) /\ UNCHANGED Flush!scans
      BY <1>5 DEF Flush!MarkAnyway
    <2>. QED
      BY <1>2, <2>1
  <1>. QED
    BY <1>3, <1>4, <1>5

(* It is tried again, from the start or from the comparison. *)
LEMMA RetryKeepsFlush ==
  ASSUME FlushInv, Flush!Retry
  PROVE  FlushInv'
  <1>. DEFINE keeps == faeScan # "none" /\ p.fae # "gone" /\ p.code # "rescan"
              ways == IF p.code \in {"scan", "copy", "settings"} THEN 2 ELSE p.ways
              q == IF p.fae = "gone" THEN Flush!Removed(p) ELSE [p EXCEPT !.ways = ways]
              step == IF keeps /\ p.code \notin {"scan", "settings"} THEN "comparing" ELSE "waiting"
              r == [q EXCEPT !.step = step]
  <1>1. p \in Project /\ report \in SUBSET Findings /\ 2 \in 0..2
    BY DEF FlushInv, FlushTypes
  <1>2. Flush!Answer(r) /\ IF keeps THEN UNCHANGED Flush!scans ELSE Flush!NoScan
    BY <1>1 DEF Flush!Retry, Project
  <1>3. q \in Project /\ q.marked = p.marked
    <2>1. Flush!Removed(p) \in Project /\ Flush!Removed(p).marked = p.marked
      BY <1>1 DEF Flush!Removed, Project
    <2>2. ways \in 0..2
      BY <1>1 DEF Project
    <2>. HIDE DEF ways
    <2>3. [p EXCEPT !.ways = ways] \in Project /\ [p EXCEPT !.ways = ways].marked = p.marked
      BY <1>1, <2>2 DEF Project
    <2>. QED
      BY <2>1, <2>3
  <1>4. step \in {"comparing", "waiting"} /\ (step = "comparing" => keeps)
    OBVIOUS
  <1>5. report' \in SUBSET Findings /\ (keeps => faeScan' = faeScan)
    BY <1>1, <1>2 DEF Flush!NoScan, Flush!scans
  <1>. HIDE DEF q, step, keeps
  <1>6. r \in Project /\ r.marked = p.marked /\ r.step = step
    BY <1>3, <1>4 DEF Project, FlushSteps, Flush!Working
  <1>. HIDE DEF r
  <1>. QED
    BY <1>2, <1>4, <1>5, <1>6, AnswerKeepsFlush DEF Scanned

(* It is skipped; or put back in line, with what is marked. *)
LEMMA SkipKeepsFlush ==
  ASSUME FlushInv, Flush!Skip \/ Flush!BringBack
  PROVE  FlushInv'
  <1>1. /\ p \in Project /\ report \in SUBSET Findings
        /\ option \in [delete : BOOLEAN, mode : {"mark", "report"}]
    BY DEF FlushInv, FlushTypes
  <1>2. CASE Flush!Skip
    <2>. DEFINE step == IF option.delete /\ p.fae # "none" /\ p.code # "scan" THEN "cleaning" ELSE "skipped"
                r == [p EXCEPT !.skipping = TRUE, !.step = step]
    <2>1. Flush!Answer(r) /\ UNCHANGED <<faeScan, report>>
      BY <1>2 DEF Flush!Skip, Flush!scans
    <2>2. step \in {"cleaning", "skipped"}
      OBVIOUS
    <2>. HIDE DEF step
    <2>3. r \in Project /\ r.marked = p.marked /\ r.step = step /\ r.skipping = TRUE
      BY <1>1, <2>2 DEF Project, FlushSteps, Flush!Working, Flush!Finished
    <2>. HIDE DEF r
    <2>. QED
      BY <1>1, <2>1, <2>2, <2>3, AnswerKeepsFlush
  <1>3. CASE Flush!BringBack
    <2>1. /\ p.step = "skipped" /\ p' = Flush!BackInLine /\ report' = {}
          /\ UNCHANGED <<verdict, option, turn, undo, ours, lost>>
      BY <1>3 DEF Flush!BringBack, Flush!NoScan, Flush!history
    <2>2. Flush!Fresh \in Project /\ Flush!Fresh.step = "waiting"
      BY DEF Flush!Fresh, Project, FlushSteps
    <2>3. /\ Flush!BackInLine \in Project /\ Flush!BackInLine.marked = p.marked
          /\ Flush!BackInLine.step = "waiting"
      BY <1>1, <2>2 DEF Flush!BackInLine, Project
    <2>. QED
      BY <1>1, <2>1, <2>3, ResumedKeepsFlush DEF Scanned
  <1>. QED
    BY <1>2, <1>3

(* A report is marked now. *)
LEMMA MarkReportedKeepsFlush ==
  ASSUME FlushInv, Flush!MarkReported
  PROVE  FlushInv'
  <1>. DEFINE r == [p EXCEPT !.step = "marking"]
  <1>1. p \in Project /\ option \in [delete : BOOLEAN, mode : {"mark", "report"}]
    BY DEF FlushInv, FlushTypes
  <1>2. /\ p.step = "reported" /\ p' = r
        /\ UNCHANGED <<verdict, faeScan, report, turn, undo, ours, lost, early>>
        /\ option' = [option EXCEPT !.mode = "mark"]
    BY DEF Flush!MarkReported, Flush!checkmarx, Flush!scans, Flush!history
  <1>3. r \in Project /\ r.marked = p.marked /\ r.step = "marking"
    BY <1>1 DEF Project, FlushSteps, Flush!Working
  <1>4. option' \in [delete : BOOLEAN, mode : {"mark", "report"}]
    BY <1>1, <1>2
  <1>5. report' \in SUBSET Findings /\ (early' \/ faeScan' = "completed")
    BY <1>2 DEF FlushInv, FlushTypes, Awaited, Scanned
  <1>. HIDE DEF r
  <1>. QED
    BY <1>2, <1>3, <1>4, <1>5, ResumedKeepsFlush

(* The run is paused, carries on or is done; its _FAE project is removed;  *)
(* an Undo begins, or fails; the server starts again.                      *)
LEMMA OthersKeepFlush ==
  ASSUME FlushInv,
         \/ \E s \in {"running", "paused"} : Flush!SetState(s)
         \/ Flush!RunDone
         \/ Flush!DeleteFae
         \/ Flush!Undo
         \/ Flush!UndoFails
         \/ Flush!Restart
  PROVE  FlushInv'
  <1>1. /\ UNCHANGED <<verdict, faeScan, report, option, ours, lost, accepted, early>>
        /\ p' \in {p, [p EXCEPT !.fae = "gone"]}
        /\ turn' \in {turn, Flush!NoTurn}
        /\ undo' = undo \/ undo' = Flush!NoUndo \/ undo' = [Flush!NoUndo EXCEPT !.pc = "reading"]
    <2>1. CASE \E s \in {"running", "paused"} : Flush!SetState(s)
      BY <2>1 DEF Flush!SetState, Flush!checkmarx, Flush!scans, Flush!history
    <2>2. CASE Flush!RunDone
      BY <2>2 DEF Flush!RunDone, Flush!checkmarx, Flush!scans, Flush!history
    <2>3. CASE Flush!DeleteFae
      BY <2>3 DEF Flush!DeleteFae, Flush!checkmarx, Flush!scans, Flush!history
    <2>4. CASE Flush!Undo
      BY <2>4 DEF Flush!Undo, Flush!NoUndo, Flush!checkmarx, Flush!scans, Flush!history
    <2>5. CASE Flush!UndoFails
      BY <2>5 DEF Flush!UndoFails, Flush!checkmarx, Flush!scans, Flush!history
    <2>6. CASE Flush!Restart
      BY <2>6 DEF Flush!Restart, Flush!checkmarx, Flush!scans, Flush!history
    <2>. QED
      BY <2>1, <2>2, <2>3, <2>4, <2>5, <2>6
  <1>2. p' \in Project /\ p'.step = p.step /\ p'.marked = p.marked /\ p'.skipping = p.skipping
    BY <1>1 DEF FlushInv, FlushTypes, Project
  <1>3. /\ turn' \in [pc : Flush!Working \cup {"no"}, todo : SUBSET Findings]
        /\ turn'.pc \in {"no", turn.pc}
    BY <1>1 DEF FlushInv, FlushTypes, Flush!NoTurn
  <1>4. /\ undo' \in [pc : {"no", "reading", "posting"}, back : SUBSET Findings]
        /\ undo'.pc = "posting" => undo' = undo
    BY <1>1 DEF FlushInv, FlushTypes, Flush!NoUndo
  <1>5. FlushTypes'
    BY <1>1, <1>2, <1>3, <1>4 DEF FlushInv, FlushTypes
  <1>6. Known'
    BY <1>1, <1>2, <1>4 DEF FlushInv, Known, Flush!MarksAreKept
  <1>7. UnderWay' /\ Awaited' /\ Revalidated'
    BY <1>1, <1>2, <1>3 DEF FlushInv, UnderWay, Awaited, Scanned, Revalidated
  <1>. QED
    BY <1>5, <1>6, <1>7 DEF FlushInv

(* What an Undo reads as the run's covers all that is. *)
LEMMA UndoReadKeepsFlush ==
  ASSUME FlushInv, Flush!UndoRead
  PROVE  FlushInv'
  <1>1. /\ undo' = [pc |-> "posting", back |-> {f \in p.marked : verdict[f] = "marked"}]
        /\ UNCHANGED <<verdict, faeScan, report, p, option, turn, ours, lost, accepted, early>>
    BY DEF Flush!UndoRead, Flush!checkmarx, Flush!scans, Flush!history
  <1>2. /\ undo' \in [pc : {"no", "reading", "posting"}, back : SUBSET Findings]
        /\ ours \subseteq undo'.back \cup lost
    BY <1>1 DEF FlushInv, FlushTypes, Project, Known, Flush!MarksAreKept
  <1>. QED
    BY <1>1, <1>2 DEF FlushInv, FlushTypes, Known, Flush!MarksAreKept, UnderWay, Awaited, Revalidated

(* It puts that back, and nothing is known as marked. *)
LEMMA UndoPostsKeepsFlush ==
  ASSUME FlushInv, Flush!UndoPosts
  PROVE  FlushInv'
  <1>1. /\ undo.pc = "posting" /\ undo' = Flush!NoUndo
        /\ verdict' = [f \in Findings |-> IF f \in undo.back THEN "toVerify" ELSE verdict[f]]
        /\ ours' = ours \ undo.back /\ lost' = lost \ undo.back
        /\ p' = [p EXCEPT !.marked = {}, !.step = "undone"]
        /\ UNCHANGED <<faeScan, report, option, turn, accepted, early>>
    BY DEF Flush!UndoPosts, Flush!Posts, Flush!scans
  <1>2. p' \in Project /\ p'.marked = {} /\ p'.step = "undone"
    BY <1>1 DEF FlushInv, FlushTypes, Project, FlushSteps, Flush!Finished
  <1>3. FlushTypes'
    BY <1>1, <1>2 DEF FlushInv, FlushTypes, Flush!NoUndo
  <1>4. Known'
    BY <1>1, <1>2 DEF FlushInv, FlushTypes, Known, Flush!MarksAreKept, Flush!NoUndo
  <1>5. UnderWay' /\ Awaited' /\ Revalidated'
    BY <1>1, <1>2 DEF FlushInv, UnderWay, Awaited, Scanned, Revalidated
  <1>. QED
    BY <1>3, <1>4, <1>5 DEF FlushInv

(* No step breaks it. *)
LEMMA FlushStep == FlushInv /\ [Flush!Next]_(Flush!vars) => FlushInv'
  <1>. SUFFICES ASSUME FlushInv, [Flush!Next]_(Flush!vars) PROVE FlushInv'
    OBVIOUS
  <1>1. ASSUME NEW f \in Findings, NEW v \in {"confirmed", "judged"}, Flush!Person(f, v) PROVE FlushInv'
    BY <1>1, PersonKeepsFlush
  <1>2. ASSUME NEW f \in Findings, Flush!Mark(f) \/ Flush!MarkLost(f) \/ Flush!NotTaken(f) PROVE FlushInv'
    BY <1>2, MarkKeepsFlush, MarkLostKeepsFlush, NotTakenKeepsFlush
  <1>3. CASE (\E left \in 1..2 : Flush!Copied(left)) \/ (\E code \in {"copy", "settings"} : Flush!NotCopied(code))
    BY <1>3, CopyKeepsFlush
  <1>4. CASE (\E reported \in SUBSET Findings : Flush!ScanEnds(reported)) \/ Flush!ScanBreaks
             \/ Flush!Scanned \/ Flush!StillRuns \/ Flush!NextWay \/ Flush!TooLong
    BY <1>4, ScanEndKeepsFlush, ScanKeepsFlush
  <1>5. CASE \E yes \in BOOLEAN : Flush!ScanFails(yes) \/ Flush!Compare(yes)
    BY <1>5, ScanKeepsFlush, CompareKeepsFlush
  <1>6. CASE Flush!Begin \/ Flush!StepFails \/ Flush!NoneTaken \/ Flush!Marked \/ Flush!Revalidate \/ Flush!Clean
    BY <1>6, BeginKeepsFlush, StepEndsKeepsFlush, RevalidateKeepsFlush, CleanKeepsFlush
  <1>7. CASE Flush!MarkAnyway \/ Flush!Continue \/ Flush!Retry \/ Flush!Skip \/ Flush!BringBack \/ Flush!MarkReported
    BY <1>7, AnywayKeepsFlush, RetryKeepsFlush, SkipKeepsFlush, MarkReportedKeepsFlush
  <1>8. CASE (\E s \in {"running", "paused"} : Flush!SetState(s)) \/ Flush!RunDone \/ Flush!DeleteFae
             \/ Flush!Undo \/ Flush!UndoFails \/ Flush!Restart
    BY <1>8, OthersKeepFlush
  <1>9. CASE Flush!UndoRead \/ Flush!UndoPosts
    BY <1>9, UndoReadKeepsFlush, UndoPostsKeepsFlush
  <1>10. CASE UNCHANGED Flush!vars
    BY <1>10 DEF Flush!vars, FlushInv, FlushTypes, Known, Flush!MarksAreKept, UnderWay, Awaited, Revalidated
  <1>. QED
    BY <1>1, <1>2, <1>3, <1>4, <1>5, <1>6, <1>7, <1>8, <1>9, <1>10 DEF Flush!Next

(* What the run knows, what an Undo read and which step is under way agree *)
(* in every behaviour.                                                     *)
THEOREM RunKnowsItsMarks == Flush!Spec => []FlushInv
  BY FlushInit, FlushStep, PTL DEF Flush!Spec

(* "Each result marked is kept, so Undo can put it back" (fae-flush.js):   *)
(* through retries, skips, restarts and Undos.                             *)
THEOREM EveryMarkIsKept == Flush!Spec => []MarksAreKept
  <1>1. FlushInv => MarksAreKept
    BY DEF FlushInv, Known, MarksAreKept
  <1>. QED
    BY <1>1, RunKnowsItsMarks, PTL

(* A project is done when all it marked is not reported by its last FAE    *)
(* scan, which has completed, unless a person accepted that it was, or had *)
(* it go on before the scan completed (fae-flush.js).                      *)
THEOREM DoneWasRevalidated == Flush!Spec => []DoneIsRevalidated
  <1>1. FlushInv => DoneIsRevalidated
    BY DEF FlushInv, Revalidated, DoneIsRevalidated, Flush!DoneIsRevalidated
  <1>. QED
    BY <1>1, RunKnowsItsMarks, PTL

-----------------------------------------------------------------------------
(* Govern's budgets (GovernBudgets.tla): what is restricted, and lifted.    *)
Graces == [at : Nat, over : BOOLEAN]
PeriodStates == [used : Nat, over : BOOLEAN, seq : Nat, grace : Graces]
Figures == [used : Nat, known : {"fresh", "stale", "none"}]

FiguresOK ==
  /\ month \in Nat
  /\ budget \in [Budgets -> Govern!Configured \cup {Govern!Gone}]
  /\ index \in [Budgets -> Figures]
  /\ periods \in [Budgets -> PeriodStates]
  /\ given \in [Budgets -> Graces]

(* A reference is of a month that came, and what is restricted this month   *)
(* was so on the figure the index has.                                      *)
RefsOK ==
  \A r \in refs :
    /\ r.budget \in Budgets /\ r.month \in Nat /\ r.month <= month
    /\ r.month = month => periods[r.budget].used = index[r.budget].used

(* A grace that lasts is known to the state of the month. *)
GraceKnown ==
  \A b \in Budgets :
    Govern!There(b) /\ Govern!InGrace(given[b], index[b].used) => periods[b].grace = given[b]

GovernInv == FiguresOK /\ RefsOK /\ GraceKnown

-----------------------------------------------------------------------------
(* At first nothing is restricted. *)
LEMMA GovernInit == Govern!Init => GovernInv
  <1>. SUFFICES ASSUME Govern!Init PROVE GovernInv
    OBVIOUS
  <1>1. Govern!NoGrace \in Graces
    BY DEF Govern!NoGrace, Graces
  <1>2. Govern!NoState \in PeriodStates
    BY <1>1 DEF Govern!NoState, PeriodStates
  <1>3. FiguresOK
    BY <1>1, <1>2 DEF Govern!Init, FiguresOK, Figures
  <1>4. RefsOK /\ GraceKnown
    BY DEF Govern!Init, RefsOK, GraceKnown, Govern!InGrace, Govern!NoGrace
  <1>. QED
    BY <1>3, <1>4 DEF GovernInv

(* evaluate(): an unknown figure leaves the targets as they are, and a       *)
(* grace that lasts keeps them free and is kept.                             *)
LEMMA EvaluatedIs ==
  ASSUME NEW x \in Govern!Configured, NEW i \in Figures, NEW s \in PeriodStates
  PROVE  LET e == Govern!Evaluated(x, i, s)
         IN  /\ e.state \in PeriodStates
             /\ x.active /\ i.known # "fresh" => e.hold = "leave"
             /\ e.hold = "leave" => e.state.used = IF i.known = "none" THEN s.used ELSE i.used
             /\ e.hold = "yes" => e.state.used = i.used /\ ~Govern!InGrace(s.grace, i.used)
             /\ Govern!InGrace(s.grace, i.used) => e.state.grace = s.grace
  <1>. DEFINE e == Govern!Evaluated(x, i, s)
              over == i.used >= Govern!Limit(x)
              grace == IF Govern!InGrace(s.grace, i.used) THEN s.grace ELSE Govern!NoGrace
  <1>1. x.active \in BOOLEAN /\ i.used \in Nat /\ s.used \in Nat /\ s.seq \in Nat /\ s.grace \in Graces
    BY DEF Govern!Configured, Figures, PeriodStates
  <1>2. CASE ~x.active
    <2>1. e = [hold |-> "no", state |-> s]
      BY <1>1, <1>2 DEF Govern!Evaluated
    <2>. QED
      BY <2>1, <1>2
  <1>3. CASE x.active /\ i.known # "fresh"
    <2>1. e = [hold |-> "leave", state |-> [s EXCEPT !.used = IF i.known = "none" THEN @ ELSE i.used]]
      BY <1>1, <1>3 DEF Govern!Evaluated, Govern!Unknown
    <2>2. e.hold = "leave" /\ e.state = [s EXCEPT !.used = IF i.known = "none" THEN s.used ELSE i.used]
      BY <2>1
    <2>. QED
      BY <2>2, <1>1 DEF PeriodStates
  <1>4. CASE x.active /\ i.known = "fresh"
    <2>1. e = [hold |-> IF over /\ Govern!Enforcing(x) /\ grace.over THEN "yes" ELSE "no",
               state |-> [used |-> i.used, over |-> over, grace |-> grace,
                          seq |-> s.seq + IF over /\ ~s.over THEN 1 ELSE 0]]
      BY <1>1, <1>4 DEF Govern!Evaluated, Govern!Unknown
    <2>2. grace \in Graces /\ (Govern!InGrace(s.grace, i.used) => grace = s.grace /\ ~grace.over)
      BY <1>1 DEF Govern!NoGrace, Graces, Govern!InGrace
    <2>3. over \in BOOLEAN /\ s.seq + (IF over /\ ~s.over THEN 1 ELSE 0) \in Nat
      BY <1>1
    <2>. HIDE DEF over, grace
    <2>4. /\ e.state.used = i.used /\ e.state.grace = grace
          /\ e.state \in PeriodStates
          /\ e.hold = IF over /\ Govern!Enforcing(x) /\ grace.over THEN "yes" ELSE "no"
      BY <2>1, <2>2, <2>3, <1>1 DEF PeriodStates
    <2>. QED
      BY <2>2, <2>4, <1>4
  <1>. QED
    BY <1>1, <1>2, <1>3, <1>4

(* #evaluate(): the references a budget gets are this month's, when it is to *)
(* hold; the others are those it had.                                        *)
LEMMA WantedIs ==
  ASSUME NEW b, NEW x, NEW e, NEW old
  PROVE  /\ \A r \in Govern!Wanted(b, x, e, old) :
              /\ r.budget = b
              /\ r \in old \/ (e.hold = "yes" /\ r.month = month)
              /\ r.month = month => e.hold \in {"yes", "leave"}
              /\ e.hold = "leave" => r \in old
         /\ \A r \in old :
              /\ r.budget = b
              /\ \/ e.hold = "leave"
                 \/ /\ r.month # month /\ x.untilReleased /\ x.active /\ Govern!Enforcing(x)
                    /\ ~(b \in TooMany /\ ~x.confirmed)
              => r \in Govern!Wanted(b, x, e, old)
  BY DEF Govern!Wanted, Govern!Ref

(* changed(): the references and states are those of the budgets there are. *)
LEMMA EvaluateIs ==
  ASSUME NEW old, NEW states, Govern!Evaluate(old, states)
  PROVE  /\ \A r : r \in refs' <=>
               \E b \in Budgets :
                 /\ budget'[b] # Govern!Gone
                 /\ r \in Govern!Wanted(b, budget'[b],
                                        Govern!Evaluated(budget'[b], index'[b], states[b]), old)
         /\ periods' = [b \in Budgets |->
                          IF budget'[b] # Govern!Gone
                          THEN Govern!Evaluated(budget'[b], index'[b], states[b]).state
                          ELSE Govern!NoState]
  <1>. DEFINE e == [b \in Budgets |-> Govern!Evaluated(budget'[b], index'[b], states[b])]
              there == {b \in Budgets : budget'[b] # Govern!Gone}
  <1>1. /\ refs' = UNION {Govern!Wanted(b, budget'[b], e[b], old) : b \in there}
        /\ periods' = [b \in Budgets |-> IF b \in there THEN e[b].state ELSE Govern!NoState]
    BY Zenon DEF Govern!Evaluate
  <1>2. \A b \in Budgets : e[b] = Govern!Evaluated(budget'[b], index'[b], states[b])
    OBVIOUS
  <1>3. ASSUME NEW r
        PROVE  r \in refs' <=> \E b \in there : r \in Govern!Wanted(b, budget'[b], e[b], old)
    BY <1>1
  <1>. QED
    BY <1>1, <1>2, <1>3

(* What an evaluation may be given: some of the references, and states of   *)
(* the month that know the graces that last.                                *)
EvaluatedFrom(old, states) ==
  /\ old \subseteq refs
  /\ states \in [Budgets -> PeriodStates]
  /\ \A b \in Budgets :
       /\ states[b].used = periods[b].used
       /\ index'[b].known = "none" => index'[b].used = index[b].used
       /\ budget'[b] # Govern!Gone /\ Govern!InGrace(given'[b], index'[b].used)
            => states[b].grace = given'[b]
  /\ month' = month
  /\ budget' \in [Budgets -> Govern!Configured \cup {Govern!Gone}]
  /\ index' \in [Budgets -> Figures]
  /\ given' \in [Budgets -> Graces]

(* What it does with them has its reasons. *)
Reasoned(old) ==
  /\ \A r \in refs' : r \in old \/ ~Govern!InGrace(given'[r.budget], index'[r.budget].used)
  /\ \A r \in (old \cup refs') \ (old \cap refs') :
       budget'[r.budget] # Govern!Gone /\ budget'[r.budget].active => index'[r.budget].known = "fresh"
  /\ \A r \in old \ refs' :
       LET x == budget'[r.budget]
       IN  budget'[r.budget] # Govern!Gone /\ x.untilReleased /\ x.active /\ Govern!Enforcing(x)
             /\ r.month # month => r.budget \in TooMany /\ ~x.confirmed

(* An evaluation keeps what holds, and has its reasons.                     *)
LEMMA EvaluationKeeps ==
  ASSUME GovernInv, NEW old, NEW states, EvaluatedFrom(old, states), Govern!Evaluate(old, states)
  PROVE  GovernInv' /\ Reasoned(old)
  <1>. DEFINE e(b) == Govern!Evaluated(budget'[b], index'[b], states[b])
              new(b) == Govern!Wanted(b, budget'[b], e(b), old)
              There(b) == budget'[b] # Govern!Gone
  <1>1. /\ \A r : r \in refs' <=> \E b \in Budgets : There(b) /\ r \in new(b)
        /\ periods' = [b \in Budgets |-> IF There(b) THEN e(b).state ELSE Govern!NoState]
    BY EvaluateIs
  <1>2. ASSUME NEW b \in Budgets, There(b)
        PROVE  /\ e(b).state \in PeriodStates
               /\ budget'[b].active /\ index'[b].known # "fresh" => e(b).hold = "leave"
               /\ e(b).hold = "leave" =>
                    e(b).state.used = IF index'[b].known = "none" THEN states[b].used ELSE index'[b].used
               /\ e(b).hold = "yes" => /\ e(b).state.used = index'[b].used
                                      /\ ~Govern!InGrace(states[b].grace, index'[b].used)
               /\ Govern!InGrace(states[b].grace, index'[b].used) => e(b).state.grace = states[b].grace
    <2>1. budget'[b] \in Govern!Configured /\ index'[b] \in Figures /\ states[b] \in PeriodStates
      BY <1>2 DEF EvaluatedFrom
    <2>. QED
      BY <2>1, EvaluatedIs
  <1>. HIDE DEF e
  <1>3. ASSUME NEW b \in Budgets
        PROVE  /\ \A r \in new(b) :
                    /\ r.budget = b
                    /\ r \in old \/ (e(b).hold = "yes" /\ r.month = month)
                    /\ r.month = month => e(b).hold \in {"yes", "leave"}
                    /\ e(b).hold = "leave" => r \in old
               /\ \A r \in old :
                    /\ r.budget = b
                    /\ \/ e(b).hold = "leave"
                       \/ /\ r.month # month /\ budget'[b].untilReleased /\ budget'[b].active
                          /\ Govern!Enforcing(budget'[b])
                          /\ ~(b \in TooMany /\ ~budget'[b].confirmed)
                    => r \in new(b)
    BY WantedIs
  <1>. HIDE DEF new
  <1>4. FiguresOK'
    <2>1. Govern!NoState \in PeriodStates
      BY DEF Govern!NoState, Govern!NoGrace, PeriodStates, Graces
    <2>2. periods' \in [Budgets -> PeriodStates]
      BY <1>1, <1>2, <2>1
    <2>. QED
      BY <2>2 DEF FiguresOK, EvaluatedFrom, GovernInv
  <1>5. \A r \in refs' : r.budget \in Budgets /\ There(r.budget) /\ r \in new(r.budget)
    BY <1>1, <1>3
  <1>6. \A r \in old : /\ r.budget \in Budgets /\ r.month \in Nat /\ r.month <= month
                       /\ r.month = month => periods[r.budget].used = index[r.budget].used
    BY DEF GovernInv, RefsOK, EvaluatedFrom
  <1>7. RefsOK'
    <2>. SUFFICES ASSUME NEW r \in refs'
                  PROVE  /\ r.month \in Nat /\ r.month <= month'
                         /\ r.month = month' => periods'[r.budget].used = index'[r.budget].used
      BY <1>5 DEF RefsOK
    <2>. DEFINE b == r.budget
    <2>1. b \in Budgets /\ There(b) /\ r \in new(b) /\ periods'[b] = e(b).state
      BY <1>1, <1>5
    <2>2. month' = month /\ month \in Nat
      BY DEF EvaluatedFrom, GovernInv, FiguresOK
    <2>3. r.month \in Nat /\ r.month <= month
      BY <2>1, <2>2, <1>3, <1>6
    <2>4. ASSUME r.month = month PROVE e(b).state.used = index'[b].used
      <3>1. CASE e(b).hold = "yes"
        BY <3>1, <2>1, <1>2
      <3>2. CASE e(b).hold = "leave"
        <4>1. r \in old
          BY <3>2, <2>1, <1>3
        <4>2. states[b].used = index[b].used
          BY <4>1, <1>6, <2>1, <2>4 DEF EvaluatedFrom
        <4>3. index'[b].known = "none" => index'[b].used = index[b].used
          BY <2>1 DEF EvaluatedFrom
        <4>. QED
          BY <3>2, <4>2, <4>3, <2>1, <1>2
      <3>. QED
        BY <3>1, <3>2, <2>1, <2>4, <1>3
    <2>. QED
      BY <2>1, <2>2, <2>3, <2>4
  <1>8. GraceKnown'
    <2>. SUFFICES ASSUME NEW b \in Budgets, There(b), Govern!InGrace(given'[b], index'[b].used)
                  PROVE  periods'[b].grace = given'[b]
      BY DEF GraceKnown, Govern!There, Govern!InGrace
    <2>1. states[b].grace = given'[b]
      BY DEF EvaluatedFrom
    <2>. QED
      BY <2>1, <1>1, <1>2
  <1>9. Reasoned(old)
    <2>1. ASSUME NEW r \in refs', r \notin old PROVE ~Govern!InGrace(given'[r.budget], index'[r.budget].used)
      <3>. DEFINE b == r.budget
      <3>1. b \in Budgets /\ There(b) /\ e(b).hold = "yes"
        BY <2>1, <1>5, <1>3
      <3>2. ~Govern!InGrace(states[b].grace, index'[b].used)
        BY <3>1, <1>2
      <3>. QED
        BY <3>1, <3>2 DEF EvaluatedFrom
    <2>2. ASSUME NEW r \in (old \cup refs') \ (old \cap refs'), There(r.budget), budget'[r.budget].active
          PROVE  index'[r.budget].known = "fresh"
      <3>. SUFFICES ASSUME index'[r.budget].known # "fresh" PROVE FALSE
        OBVIOUS
      <3>1. r.budget \in Budgets
        BY <1>5, <1>6
      <3>2. e(r.budget).hold = "leave"
        BY <3>1, <2>2, <1>2
      <3>3. r \in new(r.budget) <=> r \in old
        BY <3>1, <3>2, <1>3
      <3>. QED
        BY <3>1, <3>3, <2>2, <1>1, <1>5
    <2>3. ASSUME NEW r \in old \ refs', There(r.budget), r.month # month,
                 budget'[r.budget].untilReleased, budget'[r.budget].active,
                 Govern!Enforcing(budget'[r.budget])
          PROVE  r.budget \in TooMany /\ ~budget'[r.budget].confirmed
      <3>1. r.budget \in Budgets /\ r \notin new(r.budget)
        BY <2>3, <1>1, <1>6
      <3>. QED
        BY <3>1, <2>3, <1>3
    <2>. QED
      BY <2>1, <2>2, <2>3 DEF Reasoned
  <1>. QED
    BY <1>4, <1>7, <1>8, <1>9 DEF GovernInv

Reasons == Govern!NothingOnUnknown /\ Govern!GraceIsHonoured /\ Govern!LastMonthStays

(* A step that evaluates what there is, or what a restore of t leaves.      *)
LEMMA EvaluationHasReasons ==
  ASSUME NEW old, NEW states, GovernInv, EvaluatedFrom(old, states), Govern!Evaluate(old, states),
         \A r \in refs \ old : Govern!Restored(r.target)
  PROVE  GovernInv' /\ Reasons
  <1>1. GovernInv' /\ Reasoned(old)
    BY EvaluationKeeps
  <1>2. old \subseteq refs /\ month' = month
    BY DEF EvaluatedFrom
  <1>3. Govern!NothingOnUnknown
    BY <1>1, <1>2 DEF Reasoned, Govern!NothingOnUnknown, Govern!There
  <1>4. Govern!GraceIsHonoured
    BY <1>1, <1>2 DEF Reasoned, Govern!GraceIsHonoured
  <1>5. Govern!LastMonthStays
    BY <1>1, <1>2 DEF Reasoned, Govern!LastMonthStays, Govern!There
  <1>. QED
    BY <1>1, <1>3, <1>4, <1>5 DEF Reasons

(* A cycle's figures only grow, and are kept when none is reported.         *)
LEMMA CycleStep ==
  ASSUME GovernInv,
         NEW polled \in [Budgets -> [used : 0..MaxUsed, known : {"fresh", "stale", "none"}]],
         Govern!Cycle(polled)
  PROVE  GovernInv' /\ Reasons
  <1>1. /\ index' = polled /\ month' = month /\ budget' = budget /\ given' = given
        /\ Govern!Evaluate(refs, periods)
    BY DEF Govern!Cycle
  <1>2. \A b \in Budgets :
          /\ polled[b] \in Figures
          /\ polled[b].used >= index[b].used
          /\ polled[b].known = "none" => polled[b].used = index[b].used
    <2>. SUFFICES ASSUME NEW b \in Budgets
                  PROVE  /\ polled[b] \in Figures
                         /\ polled[b].used >= index[b].used
                         /\ polled[b].known = "none" => polled[b].used = index[b].used
      OBVIOUS
    <2>1. polled[b] \in [used : 0..MaxUsed, known : {"fresh", "stale", "none"}] /\ index[b] \in Figures
      BY DEF GovernInv, FiguresOK
    <2>2. CASE polled[b].known = "fresh"
      BY <2>1, <2>2 DEF Govern!Cycle, Figures
    <2>3. CASE polled[b].known = "stale"
      BY <2>1, <2>3 DEF Govern!Cycle, Figures
    <2>4. CASE polled[b].known = "none"
      BY <2>1, <2>4 DEF Govern!Cycle, Figures
    <2>. QED
      BY <2>1, <2>2, <2>3, <2>4
  <1>3. EvaluatedFrom(refs, periods)
    <2>1. \A b \in Budgets :
            Govern!InGrace(given[b], polled[b].used) => Govern!InGrace(given[b], index[b].used)
      <3>. SUFFICES ASSUME NEW b \in Budgets, Govern!InGrace(given[b], polled[b].used)
                    PROVE  Govern!InGrace(given[b], index[b].used)
        OBVIOUS
      <3>1. index[b] \in Figures /\ given[b] \in Graces
        BY DEF GovernInv, FiguresOK
      <3>2. index[b].used \in Nat /\ polled[b].used \in Nat /\ given[b].at \in Nat
        BY <3>1, <1>2 DEF Figures, Graces
      <3>. QED
        BY <3>2, <1>2 DEF Govern!InGrace, Govern!GrowBy
    <2>2. index' \in [Budgets -> Figures]
      <3>. HIDE DEF Figures
      <3>. QED
        BY <1>1, <1>2, Zenon
    <2>. QED
      BY <1>1, <1>2, <2>1, <2>2 DEF EvaluatedFrom, GovernInv, FiguresOK, GraceKnown, Govern!There
  <1>. QED
    BY <1>1, <1>3, EvaluationHasReasons

(* A budget is edited, or deleted with its grace.                           *)
LEMMA EditStep ==
  ASSUME GovernInv, NEW b \in Budgets,
         Govern!Delete(b) \/ (Govern!There(b) /\ \E x \in Govern!Edits(budget[b]) : Govern!Edit(b, x))
  PROVE  GovernInv' /\ Reasons
  <1>. USE DEF GovernInv, FiguresOK
  <1>1. CASE Govern!Delete(b)
    <2>1. /\ index' = index /\ month' = month
          /\ budget' = [budget EXCEPT ![b] = Govern!Gone]
          /\ given' = [given EXCEPT ![b] = Govern!NoGrace]
          /\ Govern!Evaluate(refs, periods)
      BY <1>1 DEF Govern!Delete, Govern!Change
    <2>2. Govern!NoGrace \in Graces
      BY DEF Govern!NoGrace, Graces
    <2>3. EvaluatedFrom(refs, periods)
      BY <2>1, <2>2 DEF EvaluatedFrom, GraceKnown, Govern!There
    <2>. QED
      BY <2>1, <2>3, EvaluationHasReasons
  <1>2. ASSUME Govern!There(b), NEW x \in Govern!Edits(budget[b]), Govern!Edit(b, x)
        PROVE  GovernInv' /\ Reasons
    <2>1. /\ index' = index /\ month' = month /\ given' = given
          /\ budget' = [budget EXCEPT ![b] = x]
          /\ Govern!Evaluate(refs, periods)
      BY <1>2 DEF Govern!Edit, Govern!Change
    <2>2. budget[b] \in Govern!Configured
      BY <1>2 DEF Govern!There
    <2>3. x \in Govern!Configured
      <3>1. CASE \E n \in 1..MaxUsed : x = [budget[b] EXCEPT !.limit = n]
        BY <3>1, <2>2 DEF Govern!Configured
      <3>2. CASE x = [budget[b] EXCEPT !.topUp = TRUE]
        BY <3>2, <2>2 DEF Govern!Configured
      <3>3. CASE x = [budget[b] EXCEPT !.enforce = ~@]
        BY <3>3, <2>2 DEF Govern!Configured
      <3>4. CASE x = [budget[b] EXCEPT !.active = ~@]
        BY <3>4, <2>2 DEF Govern!Configured
      <3>5. CASE x = [budget[b] EXCEPT !.exempt = ~@]
        BY <3>5, <2>2 DEF Govern!Configured
      <3>6. CASE x = [budget[b] EXCEPT !.untilReleased = ~@]
        BY <3>6, <2>2 DEF Govern!Configured
      <3>7. CASE x = [budget[b] EXCEPT !.confirmed = ~@]
        BY <3>7, <2>2 DEF Govern!Configured
      <3>. QED
        BY <1>2, <3>1, <3>2, <3>3, <3>4, <3>5, <3>6, <3>7 DEF Govern!Edits
    <2>4. EvaluatedFrom(refs, periods)
      BY <2>1, <2>3, <1>2 DEF EvaluatedFrom, GraceKnown, Govern!There
    <2>. QED
      BY <2>1, <2>4, EvaluationHasReasons
  <1>. QED
    BY <1>1, <1>2

(* Somebody restores a target: the graces given are those the states get,   *)
(* as the states of what was restricted this month have the index's figure. *)
LEMMA RestoreStep ==
  ASSUME GovernInv, NEW t, Govern!Restored(t)
  PROVE  GovernInv' /\ Reasons
  <1>. USE DEF GovernInv, FiguresOK
  <1>0. \A r \in refs \ (refs \ Govern!Of(t)) : Govern!Restored(r.target)
    BY DEF Govern!Of
  <1>1. CASE Govern!RestoreCut(t)
    <2>1. /\ index' = index /\ month' = month /\ budget' = budget /\ given' = given
          /\ Govern!Evaluate(refs \ Govern!Of(t), periods)
      BY <1>1 DEF Govern!RestoreCut, Govern!Change
    <2>2. EvaluatedFrom(refs \ Govern!Of(t), periods)
      BY <2>1 DEF EvaluatedFrom, GraceKnown, Govern!There
    <2>. QED
      BY <2>1, <2>2, <1>0, EvaluationHasReasons
  <1>2. CASE Govern!Restore(t)
    <2>. DEFINE grace(n) == [at |-> n, over |-> FALSE]
                states == Govern!Graced(t)
    <2>1. /\ index' = index /\ month' = month /\ budget' = budget
          /\ given' = [b \in Budgets |-> IF b \in Govern!Behind(t) THEN grace(index[b].used) ELSE given[b]]
          /\ Govern!Evaluate(refs \ Govern!Of(t), states)
      BY <1>2 DEF Govern!Restore, Govern!Change
    <2>2. \A b \in Govern!Behind(t) : periods[b].used = index[b].used
      BY DEF Govern!Behind, Govern!Of, RefsOK
    <2>3. states = [b \in Budgets |-> IF b \in Govern!Behind(t)
                                     THEN [periods[b] EXCEPT !.grace = grace(periods[b].used)]
                                     ELSE periods[b]]
      BY DEF Govern!Graced
    <2>4. \A n \in Nat : grace(n) \in Graces
      BY DEF Graces
    <2>. HIDE DEF states, grace
    <2>5. ASSUME NEW b \in Budgets
          PROVE  /\ states[b] \in PeriodStates /\ states[b].used = periods[b].used
                 /\ given'[b] \in Graces
                 /\ b \in Govern!Behind(t) => states[b].grace = given'[b]
                 /\ b \notin Govern!Behind(t) => states[b] = periods[b] /\ given'[b] = given[b]
      <3>1. periods[b] \in PeriodStates /\ index[b].used \in Nat /\ periods[b].used \in Nat
        BY DEF PeriodStates, Figures
      <3>2. CASE b \in Govern!Behind(t)
        <4>1. /\ states[b] = [periods[b] EXCEPT !.grace = grace(periods[b].used)]
              /\ given'[b] = grace(periods[b].used)
          BY <2>1, <2>2, <2>3, <3>2
        <4>. QED
          BY <4>1, <3>1, <3>2, <2>4 DEF PeriodStates
      <3>3. CASE b \notin Govern!Behind(t)
        BY <2>1, <2>3, <3>1, <3>3
      <3>. QED
        BY <3>2, <3>3
    <2>6. states \in [Budgets -> PeriodStates] /\ given' \in [Budgets -> Graces]
      BY <2>1, <2>3, <2>5
    <2>7. \A b \in Budgets : budget[b] # Govern!Gone /\ Govern!InGrace(given'[b], index[b].used)
                              => states[b].grace = given'[b]
      BY <2>5 DEF GraceKnown, Govern!There
    <2>8. EvaluatedFrom(refs \ Govern!Of(t), states)
      BY <2>1, <2>5, <2>6, <2>7 DEF EvaluatedFrom
    <2>. QED
      BY <2>1, <2>8, <1>0, EvaluationHasReasons
  <1>. QED
    BY <1>1, <1>2 DEF Govern!Restored

(* What evaluates nothing: a month begins, the time of a grace passes.      *)
LEMMA UnevaluatedStep ==
  ASSUME GovernInv,
         \/ Govern!NewMonth \/ UNCHANGED Govern!vars
         \/ \E b \in Budgets : Govern!GraceTimesOut(b)
  PROVE  GovernInv' /\ refs' = refs
  <1>. USE DEF GovernInv, FiguresOK
  <1>1. CASE Govern!NewMonth
    <2>. USE <1>1 DEF Govern!NewMonth
    <2>1. Govern!NoGrace \in Graces /\ Govern!NoState \in PeriodStates
      BY DEF Govern!NoGrace, Graces, Govern!NoState, PeriodStates
    <2>2. budget' \in [Budgets -> Govern!Configured \cup {Govern!Gone}]
      <3>1. ASSUME NEW b \in Budgets, Govern!There(b)
            PROVE  [budget[b] EXCEPT !.topUp = FALSE] \in Govern!Configured
        <4>1. budget[b] \in Govern!Configured
          BY <3>1 DEF Govern!There
        <4>. QED
          BY <4>1 DEF Govern!Configured
      <3>. QED
        BY <3>1
    <2>3. index' \in [Budgets -> Figures]
      BY DEF Figures
    <2>4. FiguresOK'
      BY <2>1, <2>2, <2>3
    <2>5. RefsOK'
      BY DEF RefsOK
    <2>6. GraceKnown'
      BY DEF GraceKnown, Govern!InGrace, Govern!NoGrace
    <2>. QED
      BY <2>4, <2>5, <2>6
  <1>2. CASE UNCHANGED Govern!vars
    BY <1>2 DEF Govern!vars, RefsOK, GraceKnown, Govern!There, Govern!InGrace
  <1>3. ASSUME NEW b \in Budgets, Govern!GraceTimesOut(b) PROVE GovernInv' /\ refs' = refs
    <2>1. /\ UNCHANGED <<month, budget, index, refs>>
          /\ given' = [given EXCEPT ![b].over = TRUE]
          /\ periods' = [periods EXCEPT ![b].grace.over = TRUE]
      BY <1>3 DEF Govern!GraceTimesOut
    <2>2. \A c \in Budgets : /\ c # b => given'[c] = given[c] /\ periods'[c] = periods[c]
                            /\ periods'[c].used = periods[c].used
                            /\ given'[c] \in Graces /\ periods'[c] \in PeriodStates
      BY <2>1 DEF Graces, PeriodStates
    <2>3. given'[b].over
      BY <2>1 DEF Graces
    <2>4. FiguresOK'
      BY <2>1, <2>2
    <2>5. RefsOK'
      BY <2>1, <2>2 DEF RefsOK
    <2>6. GraceKnown'
      BY <2>1, <2>2, <2>3 DEF GraceKnown, Govern!There, Govern!InGrace
    <2>. QED
      BY <2>1, <2>4, <2>5, <2>6
  <1>. QED
    BY <1>1, <1>2, <1>3

(* Every step keeps it, and has its reasons.                                *)
LEMMA GovernStep == GovernInv /\ [Govern!Next]_(Govern!vars) => GovernInv' /\ [Reasons]_(Govern!vars)
  <1>. SUFFICES ASSUME GovernInv, [Govern!Next]_(Govern!vars) PROVE GovernInv' /\ Reasons
    OBVIOUS
  <1>1. ASSUME refs' = refs PROVE Reasons
    BY <1>1 DEF Reasons, Govern!NothingOnUnknown, Govern!GraceIsHonoured, Govern!LastMonthStays
  <1>2. ASSUME NEW b \in Budgets,
               Govern!Delete(b) \/ (Govern!There(b) /\ \E x \in Govern!Edits(budget[b]) : Govern!Edit(b, x))
        PROVE  GovernInv' /\ Reasons
    BY <1>2, EditStep
  <1>3. ASSUME NEW b \in Budgets, Govern!GraceTimesOut(b) PROVE GovernInv' /\ Reasons
    BY <1>1, <1>3, UnevaluatedStep
  <1>4. ASSUME Govern!NewMonth \/ UNCHANGED Govern!vars PROVE GovernInv' /\ Reasons
    BY <1>1, <1>4, UnevaluatedStep
  <1>5. ASSUME NEW t \in Targets, Govern!Restore(t) \/ Govern!RestoreCut(t) PROVE GovernInv' /\ Reasons
    BY <1>5, RestoreStep DEF Govern!Restored
  <1>6. ASSUME NEW polled \in [Budgets -> [used : 0..MaxUsed, known : {"fresh", "stale", "none"}]],
               Govern!Cycle(polled)
        PROVE  GovernInv' /\ Reasons
    BY <1>6, CycleStep
  <1>. QED
    BY <1>2, <1>3, <1>4, <1>5, <1>6 DEF Govern!Next

(* Restrictions come and go for a reason only (evaluate.js, cycle.js), for   *)
(* any number of budgets, targets and months.                               *)
THEOREM RestrictionsHaveReasons == Govern!Spec => OnlyForAReason
  <1>1. Govern!Init => GovernInv
    BY GovernInit
  <1>. QED
    BY <1>1, GovernStep, PTL DEF Govern!Spec, OnlyForAReason, Govern!OnlyForAReason, Reasons

-----------------------------------------------------------------------------
(* Side by side (Reads.tla) each part takes the steps it takes by itself.   *)
THEOREM ReadingPartsAreThemselves == PartsSpec => StateSpec /\ Flush!Spec /\ Govern!Spec
  <1>1. PartsInit => StateInit /\ Flush!Init /\ Govern!Init
    BY DEF PartsInit
  <1>2. [PartsNext]_<<part, all, flushVars, governVars>>
          => [StateNext]_all /\ [Flush!Next]_(Flush!vars) /\ [Govern!Next]_(Govern!vars)
    BY DEF PartsNext, flushVars, governVars, Flush!vars, Govern!vars
  <1>. QED
    BY <1>1, <1>2, PTL DEF PartsSpec, StateSpec, Flush!Spec, Govern!Spec
================================================================================
