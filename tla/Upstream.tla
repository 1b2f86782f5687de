------------------------------- MODULE Upstream -------------------------------
(***************************************************************************)
(* Checkmarx One's callers: the gate by itself (Semaphore.tla), and a      *)
(* connection whose requests pass a gate of its own (UpstreamClient.tla).  *)
(* They stand side by side, "part" saying which of them moves.             *)
(***************************************************************************)
EXTENDS Semaphore

CONSTANTS Readers, Refreshes,           \* the requests of the connection
          Slots, Retries, MaxFetches    \* its gate's Limit, and UpstreamClient's

VARIABLES part,
  step, attempt, with, refused, token, fresh, inFlight, fetching, fetches,
  slot, slotLow, taken, readersQ, refreshesQ

Requests == Readers \cup Refreshes

Client == INSTANCE UpstreamClient WITH
  Background <- Refreshes, Limit <- Slots,
  pc <- step, low <- slotLow, active <- taken, highQ <- readersQ, lowQ <- refreshesQ

clientVars == <<step, attempt, with, refused, token, fresh, inFlight, fetching, fetches,
                slot, slotLow, taken, readersQ, refreshesQ>>
all == <<part, vars, clientVars>>

AllInit == part \in {"gate", "client"} /\ Init /\ Client!Init

AllNext ==
  /\ UNCHANGED part
  /\ \/ part = "gate" /\ Next /\ UNCHANGED clientVars
     \/ part = "client" /\ Client!Next /\ UNCHANGED vars

ClientOnly == part = "client" /\ UNCHANGED <<part, vars>>

(* The fairness of the connection, while it is the part that moves.        *)
AllSpec ==
  /\ AllInit /\ [][AllNext]_all
  /\ \A f \in 1..MaxFetches : WF_all((Client!Fetched(f) \/ Client!FetchFails(f)) /\ ClientOnly)
  /\ \A r \in Requests :
       /\ WF_all(Client!Send(r) /\ ClientOnly)
       /\ WF_all(Client!Granted(r) /\ ClientOnly)
       /\ WF_all((Client!Done(r) \/ Client!RetryLater(r) \/ Client!Refused(r)) /\ ClientOnly)
       /\ WF_all(Client!BackoffEnds(r) /\ ClientOnly)

-----------------------------------------------------------------------------
(* The requests of a connection pass the gate as Semaphore.tla says, fairly *)
(* too, whatever tokens and retries do (UpstreamClient.tla).               *)
PassesTheGate == Client!PassesTheGate

(* A request refused with a token is never sent with it again              *)
(* (UpstreamClient.tla).                                                   *)
NeverTheRefusedToken == Client!NeverTheRefusedToken

(* A reader's request comes to an end (UpstreamClient.tla).                *)
RequestEnds == Client!RequestEnds
==============================================================================
