---------------------------- MODULE FindingState -----------------------------
(***************************************************************************)
(* The states of findings, read through the cache of TtlCache.tla while    *)
(* they change in Checkmarx One: projectRiskInfo, actedOn and liveState of *)
(* src/src/server.js.                                                      *)
(*                                                                         *)
(* A key is the project of a finding ("risks|<project>").  Its state in    *)
(* Checkmarx One is 0 until the verdict arrives and 1, confirmed, from     *)
(* then on; a load reads it at one moment of its run.  A reader is a       *)
(* request for remediation that asks liveState, which reads again when     *)
(* what it is answered is not confirmed.                                   *)
(***************************************************************************)
EXTENDS TtlCache

CONSTANT Nothing   \* what a load has before Checkmarx One answered it

VARIABLES state,   \* Checkmarx One: per key, 0 or 1
          got,     \* per load: what Checkmarx One answered it
          kept,    \* per key: what its cache entry says
          ask,     \* per reader: the key, and how far liveState is
          since,   \* per reader: the state of the key when it asked
          late,    \* per reader: answered with a state older than its question
          gone,    \* per key: the state when the entry was last forgotten
          raced    \* per key: loads that were in flight then

own  == <<state, got, kept, ask, since, late, gone, raced>>
all == <<vars, own>>

Steps == {"no", "first", "reading", "again", "rereading"}

StateTypeOK ==
  /\ TypeOK
  /\ state \in [Keys -> {0, 1}]
  /\ got \in [Loads -> {0, 1, Nothing}]
  /\ kept \in [Keys -> {0, 1}]
  /\ ask \in [Readers -> [step : Steps, key : Keys]]
  /\ since \in [Readers -> {0, 1}]
  /\ late \in [Readers -> BOOLEAN]
  /\ gone \in [Keys -> {0, 1}]
  /\ raced \in [Keys -> SUBSET Loads]

StateInit ==
  /\ Init
  /\ state = [k \in Keys |-> 0]
  /\ got = [l \in Loads |-> Nothing]
  /\ kept = [k \in Keys |-> 0]
  /\ ask = [r \in Readers |-> [step |-> "no", key |-> CHOOSE k \in Keys : TRUE]]
  /\ since = [r \in Readers |-> 0]
  /\ late = [r \in Readers |-> FALSE]
  /\ gone = [k \in Keys |-> 0]
  /\ raced = [k \in Keys |-> {}]

LoadsOf(k) == {l \in Loads : Running(l) /\ load[l].key = k}

-----------------------------------------------------------------------------
(* Checkmarx One confirms the finding. *)
Verdict(k) ==
  /\ state[k] = 0
  /\ state' = [state EXCEPT ![k] = 1]
  /\ UNCHANGED <<vars, got, kept, ask, since, late, gone, raced>>

(* Checkmarx One answers a load. *)
Reads(l) ==
  /\ Running(l)
  /\ got[l] = Nothing
  /\ got' = [got EXCEPT ![l] = state[load[l].key]]
  /\ UNCHANGED <<vars, state, kept, ask, since, late, gone, raced>>

(* actedOn(): the project's states are forgotten. *)
Forgotten(k) ==
  /\ gone' = [gone EXCEPT ![k] = state[k]]
  /\ raced' = [raced EXCEPT ![k] = LoadsOf(k)]

(* Fault: what was just acted on is not forgotten. *)
FaultActedOn(k) ==
  /\ Forgotten(k)
  /\ UNCHANGED <<vars, state, got, kept, ask, since, late>>

ActedOn(k) ==
  /\ Forget(k)
  /\ Forgotten(k)
  /\ UNCHANGED <<state, got, kept, ask, since, late>>

(* A report's poll: peek(), which loads behind what it shows. *)
Poll(k, l) ==
  /\ Refresh(k, l)
  /\ got' = [got EXCEPT ![l] = Nothing]
  /\ UNCHANGED <<state, kept, ask, since, late, gone, raced>>

-----------------------------------------------------------------------------
At(r, step) == ask[r].step = step
MovesTo(r, step) == ask' = [ask EXCEPT ![r].step = step]

(* liveState() is called. *)
Asks(r, k) ==
  /\ At(r, "no")
  /\ ask' = [ask EXCEPT ![r] = [step |-> "first", key |-> k]]
  /\ since' = [since EXCEPT ![r] = state[k]]
  /\ late' = [late EXCEPT ![r] = FALSE]
  /\ UNCHANGED <<vars, state, got, kept, gone, raced>>

(* What a reader that is told v does: once more, if it is not confirmed. *)
NextStep(r, v) == IF At(r, "reading") /\ v = 0 THEN "again" ELSE "no"
IsLate(r, v) == At(r, "rereading") /\ v < since[r]

(* Its first wrap(): a fresh entry answers it, or it awaits a load. *)
FirstHit(r) ==
  LET k == ask[r].key
      v == kept[k]
  IN  /\ At(r, "first")
      /\ Hit(r, k)
      /\ MovesTo(r, IF v = 0 THEN "again" ELSE "no")
      /\ UNCHANGED <<state, got, kept, since, late, gone, raced>>

FirstAwaits(r, l) ==
  /\ At(r, "first")
  /\ \/ Join(r, ask[r].key) /\ UNCHANGED got
     \/ Read(r, ask[r].key, l) /\ got' = [got EXCEPT ![l] = Nothing]
  /\ MovesTo(r, "reading")
  /\ UNCHANGED <<state, kept, since, late, gone, raced>>

(* Not confirmed: the entry is forgotten and read again, in one go; a load *)
(* of another reader that runs is joined all the same.                     *)
Again(r, l) ==
  LET k == ask[r].key
      joins == inFlight[k] # NoLoad /\ ~load[inFlight[k]].background
  IN  /\ At(r, "again")
      /\ entries' = Without(k)
      /\ \/ /\ joins
            /\ Await(r, inFlight[k])
            /\ UNCHANGED <<inFlight, load, got>>
         \/ /\ ~joins
            /\ Start(l, k, FALSE)
            /\ Await(r, l)
            /\ got' = [got EXCEPT ![l] = Nothing]
      /\ Forgotten(k)
      /\ MovesTo(r, "rereading")
      /\ UNCHANGED <<state, kept, since, late>>

(* A load is answered; its entry is kept for STATE_CACHE_MS. *)
Loaded(l) ==
  LET v == got[l]
      k == load[l].key
      told == {r \in Readers : awaits[r] = l}
  IN  /\ v # Nothing
      /\ Succeed(l, TRUE)
      /\ kept' = [kept EXCEPT ![k] = v]
      /\ ask' = [r \in Readers |-> IF r \in told THEN [ask[r] EXCEPT !.step = NextStep(r, v)] ELSE ask[r]]
      /\ late' = [r \in Readers |-> late[r] \/ (r \in told /\ IsLate(r, v))]
      /\ UNCHANGED <<state, got, since, gone, raced>>

(* It fails: the state is "" for everybody who awaits it. *)
LoadFails(l) ==
  /\ Fail(l)
  /\ ask' = [r \in Readers |-> IF awaits[r] = l THEN [ask[r] EXCEPT !.step = "no"] ELSE ask[r]]
  /\ UNCHANGED <<state, got, kept, since, late, gone, raced>>

TimePasses == \E i \in 1..Max : Expire(i) /\ UNCHANGED own

StateNext ==
  \/ TimePasses
  \/ \E k \in Keys : Verdict(k) \/ ActedOn(k) \/ \E l \in Loads : Poll(k, l)
  \/ \E r \in Readers :
       \/ \E k \in Keys : Asks(r, k)
       \/ FirstHit(r)
       \/ \E l \in Loads : FirstAwaits(r, l) \/ Again(r, l)
  \/ \E l \in Loads : Reads(l) \/ Loaded(l) \/ LoadFails(l)

StateSpec == StateInit /\ [][StateNext]_all

-----------------------------------------------------------------------------
(* "Forget cached answers for findings just acted on": what the cache says *)
(* of a project afterwards is at least as new as the action, except for    *)
(* what was being read at that very moment.                                *)
OlderOnlyIfRaced ==
  \A k \in Keys : Fresh(k) /\ kept[k] < gone[k] => raced[k] # {}

(* "A cached answer other than confirmed is read again, so a verdict that  *)
(* just arrived counts": a reader that asks after the verdict is told so.  *)
VerdictCounts == \A r \in Readers : ~late[r]
==============================================================================
