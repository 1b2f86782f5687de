---------------------------- MODULE UpstreamProofs ----------------------------
(***************************************************************************)
(* What holds of a connection to Checkmarx One for any number of requests, *)
(* retries and token requests: no request is sent again with a token it    *)
(* was refused with, and whatever tokens and retries do, requests pass the *)
(* gate as Semaphore.tla says.                                             *)
(*                                                                         *)
(* The first is not inductive.  reset() forgets a token request that is in *)
(* flight, whose answer is stored all the same; that it is none of the     *)
(* refused tokens is because a token that was held had arrived, and none   *)
(* arrives twice.  That is what IInv adds.                                 *)
(***************************************************************************)
EXTENDS Upstream, TLAPS

(* A token request in flight is still running, and what is stored came. *)
TokensOK ==
  /\ fetches \in Nat
  /\ fetching \subseteq 1..fetches
  /\ inFlight \in fetching \cup {0}
  /\ token \in ((1..fetches) \ fetching) \cup {0}

(* A request awaits a running token request, or has a token that came and  *)
(* that it was not refused with; what it was refused with came, and is not *)
(* stored any more.                                                        *)
RequestOK(r) ==
  /\ step[r] = "token" => with[r] \in fetching
  /\ step[r] \in {"ready", "gate"} => with[r] \in ((1..fetches) \ fetching) \ refused[r]
  /\ refused[r] \subseteq ((1..fetches) \ fetching) \ {token}

IInv ==
  /\ step \in [Requests -> {"idle", "token", "ready", "gate", "backoff"}]
  /\ with \in [Requests -> Nat]
  /\ refused \in [Requests -> SUBSET Nat]
  /\ TokensOK
  /\ \A r \in Requests : RequestOK(r)

-----------------------------------------------------------------------------
(* At first there is no token, and no request. *)
LEMMA InitIInv == Client!Init => IInv
  BY DEF Client!Init, IInv, TokensOK, RequestOK

(* getToken(): none of the tokens the request was refused with before, as  *)
(* none of them is stored or on its way.                                   *)
LEMMA GetTokenKeepsIInv ==
  ASSUME IInv, NEW r \in Requests, Client!GetToken(r),
         refused' \in [Requests -> SUBSET Nat],
         \A x \in Requests : refused'[x] \subseteq refused[x]
  PROVE  IInv'
  <1>1. CASE Client!Cached(r)
    BY <1>1 DEF IInv, TokensOK, RequestOK, Client!Cached, Client!Known, Client!tokenVars
  <1>2. CASE Client!JoinFetch(r)
    BY <1>2 DEF IInv, TokensOK, RequestOK, Client!JoinFetch, Client!Known, Client!tokenVars
  <1>3. CASE Client!StartFetch(r)
    BY <1>3 DEF IInv, TokensOK, RequestOK, Client!StartFetch, Client!Known
  <1>. QED
    BY <1>1, <1>2, <1>3 DEF Client!GetToken

(* An answer stores a token nobody was refused with. *)
LEMMA FetchedKeepsIInv ==
  ASSUME IInv, NEW f, Client!Fetched(f) \/ Client!FetchFails(f)
  PROVE  IInv'
  BY DEF IInv, TokensOK, RequestOK, Client!Fetched, Client!FetchFails, Client!AwaitingToken

(* A refused token came before, and the one asked for next is new. *)
LEMMA RefusedKeepsIInv ==
  ASSUME IInv, NEW r \in Requests, Client!Refused(r)
  PROVE  IInv'
  BY DEF IInv, TokensOK, RequestOK, Client!Refused, Client!Answered

(* So does every other step. *)
LEMMA StepKeepsIInv == IInv /\ [Client!Next]_(Client!vars) => IInv'
  <1>. SUFFICES ASSUME IInv, [Client!Next]_(Client!vars) PROVE IInv'
    OBVIOUS
  <1>1. CASE Client!Expire
    BY <1>1 DEF IInv, TokensOK, RequestOK, Client!Expire
  <1>2. ASSUME NEW f \in 1..MaxFetches, Client!Fetched(f) \/ Client!FetchFails(f) PROVE IInv'
    BY <1>2, FetchedKeepsIInv
  <1>3. ASSUME NEW r \in Requests, Client!Ask(r) PROVE IInv'
    <2>1. Client!GetToken(r) /\ refused' = [refused EXCEPT ![r] = {}]
      BY <1>3 DEF Client!Ask
    <2>2. /\ refused' \in [Requests -> SUBSET Nat]
          /\ \A x \in Requests : refused'[x] \subseteq refused[x]
      BY <2>1 DEF IInv
    <2>. QED
      BY <2>1, <2>2, GetTokenKeepsIInv
  <1>4. ASSUME NEW r \in Requests, Client!BackoffEnds(r) PROVE IInv'
    BY <1>4, GetTokenKeepsIInv DEF Client!BackoffEnds, Client!NextAttempt, IInv
  <1>5. ASSUME NEW r \in Requests, Client!Send(r) PROVE IInv'
    BY <1>5 DEF IInv, TokensOK, RequestOK, Client!Send, Client!tokenVars
  <1>6. ASSUME NEW r \in Requests, Client!Granted(r) PROVE IInv'
    BY <1>6 DEF IInv, TokensOK, RequestOK, Client!Granted, Client!tokenVars
  <1>7. ASSUME NEW r \in Requests, Client!Done(r) \/ Client!RetryLater(r) PROVE IInv'
    BY <1>7 DEF IInv, TokensOK, RequestOK, Client!Done, Client!RetryLater, Client!tokenVars
  <1>8. ASSUME NEW r \in Requests, Client!Refused(r) PROVE IInv'
    BY <1>8, RefusedKeepsIInv
  <1>9. CASE UNCHANGED Client!vars
    BY <1>9 DEF Client!vars, Client!tokenVars, IInv, TokensOK, RequestOK
  <1>. QED
    BY <1>1, <1>2, <1>3, <1>4, <1>5, <1>6, <1>7, <1>8, <1>9 DEF Client!Next

(* Tokens and requests agree throughout. *)
THEOREM TokensAgree == Client!Spec => []IInv
  BY InitIInv, StepKeepsIInv, PTL DEF Client!Spec

(* A request is never sent again with a token it was refused with, however *)
(* often tokens expire, token requests fail or their answers come late.    *)
THEOREM RefusedTokenIsNotSentAgain == Client!Spec => []NeverTheRefusedToken
  <1>1. IInv => NeverTheRefusedToken
    BY DEF IInv, RequestOK, NeverTheRefusedToken, Client!NeverTheRefusedToken
  <1>. QED
    BY <1>1, TokensAgree, PTL

-----------------------------------------------------------------------------
(* A step of the connection is one of the gate, or leaves it alone. *)
LEMMA StepPassesTheGate == [Client!Next]_(Client!vars) => [Client!Gate!Next]_(Client!Gate!vars)
  <1>. SUFFICES ASSUME [Client!Next]_(Client!vars)
                PROVE  Client!Gate!Next \/ UNCHANGED Client!Gate!vars
    OBVIOUS
  <1>1. ASSUME UNCHANGED Client!gateVars PROVE UNCHANGED Client!Gate!vars
    BY <1>1 DEF Client!gateVars, Client!Gate!vars
  <1>2. ASSUME NEW r \in Requests, Client!Gate!Finish(r) \/ Client!Gate!Resume(r)
        PROVE  Client!Gate!Next
    BY <1>2 DEF Client!Gate!Next
  <1>3. ASSUME NEW r \in Requests, Client!Send(r) PROVE Client!Gate!Next
    <2>1. (r \in Refreshes) \in BOOLEAN
      OBVIOUS
    <2>. QED
      BY <1>3, <2>1 DEF Client!Send, Client!Gate!Next
  <1>4. CASE Client!Expire \/ \E f \in 1..MaxFetches : Client!Fetched(f) \/ Client!FetchFails(f)
    BY <1>1, <1>4 DEF Client!Expire, Client!Fetched, Client!FetchFails
  <1>5. ASSUME NEW r \in Requests, Client!Ask(r) \/ Client!BackoffEnds(r)
        PROVE  UNCHANGED Client!Gate!vars
    BY <1>1, <1>5 DEF Client!Ask, Client!BackoffEnds
  <1>6. ASSUME NEW r \in Requests,
               \/ Client!Granted(r) \/ Client!Done(r)
               \/ Client!RetryLater(r) \/ Client!Refused(r)
        PROVE  Client!Gate!Next
    BY <1>2, <1>6 DEF Client!Granted, Client!Done, Client!RetryLater, Client!Refused,
                      Client!Answered
  <1>7. CASE UNCHANGED Client!vars
    BY <1>1, <1>7 DEF Client!vars
  <1>. QED
    BY <1>3, <1>4, <1>5, <1>6, <1>7 DEF Client!Next

(* Requests pass the gate as its own specification says: each answer gives *)
(* back or hands over the slot its request took, and none passes unseen.   *)
THEOREM ConnectionImplementsGate == Client!Spec => Client!Gate!Spec
  <1>1. Client!Init => Client!Gate!Init
    BY DEF Client!Init
  <1>. QED
    BY <1>1, StepPassesTheGate, PTL DEF Client!Spec, Client!Gate!Spec

(* The gate with what SemaphoreProofs.tla proves of it. *)
GateProofs == INSTANCE SemaphoreProofs WITH
  Calls <- Requests, Limit <- Slots,
  pc <- slot, low <- slotLow, active <- taken, highQ <- readersQ, lowQ <- refreshesQ

(* So no more than Limit of them are ever on their way at once, and no     *)
(* slot is left idle while one waits for it.                               *)
THEOREM ConnectionIsWithinLimit ==
  ASSUME Slots \in Nat \ {0}
  PROVE  Client!Spec => [](GateProofs!NeverOverLimit /\ GateProofs!NoIdleSlotWhileWaiting)
  <1>1. /\ GateProofs!Spec => []GateProofs!NeverOverLimit
        /\ GateProofs!Spec => []GateProofs!NoIdleSlotWhileWaiting
    BY GateProofs!LimitHolds, GateProofs!SlotsAreUsed
  <1>2. Client!Gate!Init => GateProofs!Init
    BY DEF Client!Gate!Init, GateProofs!Init
  <1>3. [Client!Gate!Next]_(Client!Gate!vars) => [GateProofs!Next]_(GateProofs!vars)
    BY DEF Client!Gate!vars, Client!Gate!Next, Client!Gate!Enter, Client!Gate!Enqueue,
           Client!Gate!Resume, Client!Gate!Finish, Client!Gate!HandToHigh,
           Client!Gate!HandToLow, Client!Gate!GiveBack,
           GateProofs!vars, GateProofs!Next, GateProofs!Enter, GateProofs!Enqueue,
           GateProofs!Resume, GateProofs!Finish, GateProofs!HandToHigh, GateProofs!HandToLow,
           GateProofs!GiveBack
  <1>. QED
    BY <1>1, <1>2, <1>3, ConnectionImplementsGate, PTL DEF Client!Gate!Spec, GateProofs!Spec

-----------------------------------------------------------------------------
(* Side by side (Upstream.tla), the gate and the connection take the steps  *)
(* they take by themselves.                                                 *)
THEOREM PartsAreThemselves ==
  AllSpec => Spec /\ Client!Spec
  <1>1. AllInit => Init /\ Client!Init
    BY DEF AllInit
  <1>2. [AllNext]_all => [Next]_vars /\ [Client!Next]_(Client!vars)
    <2>1. ASSUME UNCHANGED clientVars PROVE UNCHANGED Client!vars
      BY <2>1 DEF clientVars, Client!vars, Client!tokenVars, Client!gateVars
    <2>. QED
      BY <2>1 DEF AllNext, all
  <1>. QED
    BY <1>1, <1>2, PTL DEF AllSpec, Spec, Client!Spec
===============================================================================
