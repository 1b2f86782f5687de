------------------------------ MODULE Semaphore ------------------------------
(***************************************************************************)
(* The upstream concurrency gate: class Semaphore of src/src/ttl-cache.js. *)
(*                                                                         *)
(* At most Limit calls to Checkmarx One run at once.  A call that finds no *)
(* free slot queues in one of two lines; a finished call hands its slot    *)
(* over to the first of the interactive line, or else of the background    *)
(* line, and only gives the slot back when both are empty.  The promise of *)
(* the next call is resolved by the finishing one but its body resumes in  *)
(* a later microtask: a call is "granted" in between.                      *)
(***************************************************************************)
EXTENDS Naturals, Sequences, FiniteSets

CONSTANTS Calls,   \* the calls that may pass through the gate
          Limit    \* this.limit

ASSUME LimitAssumption == Limit \in Nat \ {0}

VARIABLES pc,      \* per call: "idle", "waiting", "granted", "running"
          low,     \* per call: it was made with { low: true }
          active,  \* #active
          highQ,   \* #high
          lowQ     \* #low

vars == <<pc, low, active, highQ, lowQ>>

Holding == {c \in Calls : pc[c] \in {"granted", "running"}}

TypeOK ==
  /\ pc \in [Calls -> {"idle", "waiting", "granted", "running"}]
  /\ low \in [Calls -> BOOLEAN]
  /\ active \in Nat
  /\ highQ \in Seq(Calls)
  /\ lowQ \in Seq(Calls)

Init ==
  /\ pc = [c \in Calls |-> "idle"]
  /\ low = [c \in Calls |-> FALSE]
  /\ active = 0
  /\ highQ = <<>>
  /\ lowQ = <<>>

(* run(), a slot being free: counted and started without an await. *)
Enter(c, isLow) ==
  /\ pc[c] = "idle"
  /\ active < Limit
  /\ active' = active + 1
  /\ pc' = [pc EXCEPT ![c] = "running"]
  /\ low' = [low EXCEPT ![c] = isLow]
  /\ UNCHANGED <<highQ, lowQ>>

(* run(), every slot taken: the call waits in the line of its priority. *)
Enqueue(c, isLow) ==
  /\ pc[c] = "idle"
  /\ active >= Limit
  /\ pc' = [pc EXCEPT ![c] = "waiting"]
  /\ low' = [low EXCEPT ![c] = isLow]
  /\ highQ' = IF isLow THEN highQ ELSE Append(highQ, c)
  /\ lowQ' = IF isLow THEN Append(lowQ, c) ELSE lowQ
  /\ UNCHANGED active

(* The awaited promise of a granted call resumes its body. *)
Resume(c) ==
  /\ pc[c] = "granted"
  /\ pc' = [pc EXCEPT ![c] = "running"]
  /\ UNCHANGED <<low, active, highQ, lowQ>>

(* Fault: the finishing call frees its slot and only then wakes the next. *)
FaultFreeAndWake(c) ==
  /\ pc[c] = "running"
  /\ highQ # <<>>
  /\ pc' = [pc EXCEPT ![c] = "idle", ![Head(highQ)] = "granted"]
  /\ highQ' = Tail(highQ)
  /\ active' = active - 1
  /\ UNCHANGED <<low, lowQ>>

(* Fault: the woken call leaves the line from its tail. *)
FaultLastInLine(c) ==
  /\ pc[c] = "running"
  /\ highQ # <<>>
  /\ pc' = [pc EXCEPT ![c] = "idle", ![highQ[Len(highQ)]] = "granted"]
  /\ highQ' = SubSeq(highQ, 1, Len(highQ) - 1)
  /\ UNCHANGED <<low, active, lowQ>>

(* finally, with an interactive call waiting: it takes the slot over. *)
HandToHigh(c) ==
  /\ pc[c] = "running"
  /\ highQ # <<>>
  /\ pc' = [pc EXCEPT ![c] = "idle", ![Head(highQ)] = "granted"]
  /\ highQ' = Tail(highQ)
  /\ UNCHANGED <<low, active, lowQ>>

(* Fault: the background line is looked at first. *)
FaultLowFirst(c) ==
  /\ pc[c] = "running"
  /\ lowQ # <<>>
  /\ pc' = [pc EXCEPT ![c] = "idle", ![Head(lowQ)] = "granted"]
  /\ lowQ' = Tail(lowQ)
  /\ UNCHANGED <<low, active, highQ>>

(* finally, with only background calls waiting. *)
HandToLow(c) ==
  /\ pc[c] = "running"
  /\ highQ = <<>>
  /\ lowQ # <<>>
  /\ pc' = [pc EXCEPT ![c] = "idle", ![Head(lowQ)] = "granted"]
  /\ lowQ' = Tail(lowQ)
  /\ UNCHANGED <<low, active, highQ>>

(* Fault: the slot is given back without looking at the background line. *)
FaultForgetLow(c) ==
  /\ pc[c] = "running"
  /\ highQ = <<>>
  /\ active' = active - 1
  /\ pc' = [pc EXCEPT ![c] = "idle"]
  /\ UNCHANGED <<low, highQ, lowQ>>

(* finally, nobody waiting: the slot becomes free. *)
GiveBack(c) ==
  /\ pc[c] = "running"
  /\ highQ = <<>>
  /\ lowQ = <<>>
  /\ active' = active - 1
  /\ pc' = [pc EXCEPT ![c] = "idle"]
  /\ UNCHANGED <<low, highQ, lowQ>>

Finish(c) == HandToHigh(c) \/ HandToLow(c) \/ GiveBack(c)

Next ==
  \E c \in Calls :
    \/ \E isLow \in BOOLEAN : Enter(c, isLow) \/ Enqueue(c, isLow)
    \/ Resume(c)
    \/ Finish(c)

Spec == Init /\ [][Next]_vars

(* Every upstream call ends (src/src/cxone/client.js gives each a timeout) *)
(* and the event loop runs every resolved promise.                         *)
FairSpec == Spec /\ \A c \in Calls : WF_vars(Resume(c)) /\ WF_vars(Finish(c))

-----------------------------------------------------------------------------
(* "A new caller can never slip in between and exceed the limit": however  *)
(* calls arrive while a slot is changing hands, #active counts the calls   *)
(* that hold a slot, started or about to start, and never passes the       *)
(* limit.                                                                  *)
NeverOverLimit ==
  /\ active = Cardinality(Holding)
  /\ Cardinality(Holding) <= Limit

(* A slot is never left idle while somebody waits for one: a lost handoff  *)
(* would leave the gate narrower for ever, and a few of them would close   *)
(* it.                                                                     *)
NoIdleSlotWhileWaiting == (highQ # <<>> \/ lowQ # <<>>) => active = Limit

(* A background refresh gets a slot only when no reader is waiting for     *)
(* one, so a backlog of refreshes never delays a reader's request.         *)
ReaderFirst ==
  [][\A c \in Calls : pc[c] = "waiting" /\ pc'[c] = "granted" /\ low[c]
       => \A d \in Calls : pc[d] = "waiting" => low[d]]_vars

(* A reader's call that has to wait is started in the end, however many    *)
(* refreshes and other readers keep arriving.                              *)
ReaderServed ==
  \A c \in Calls : (pc[c] = "waiting" /\ ~low[c]) ~> (pc[c] = "running")
==============================================================================
