--------------------------- MODULE UpstreamClient ----------------------------
(***************************************************************************)
(* One connection to Checkmarx One: CxClient.request of                    *)
(* src/src/cxone/client.js, its access token (TokenProvider of             *)
(* src/src/cxone/auth.js) and the gate of Semaphore.tla it passes.         *)
(*                                                                         *)
(* A request is a loop of attempts.  Each gets a token (the cached one, or *)
(* the one being fetched), passes the gate, and is answered; a slot is     *)
(* held for the round trip alone.  Tokens are numbered by the token        *)
(* request that brings them.                                               *)
(***************************************************************************)
EXTENDS Naturals, Sequences, FiniteSets

CONSTANTS Requests,     \* requests of this server
          Background,   \* those of background refreshes: { background: true }
          Limit,        \* slots of the gate
          Retries,      \* the "retries" option
          MaxFetches    \* bound: token requests ever sent

VARIABLES pc,        \* per request: "idle", "token", "ready", "gate", "backoff"
          attempt,   \* per request: the attempt it is at
          with,      \* per request: the token it holds or awaits (0: none)
          refused,   \* per request: history, the tokens it was refused with
          token,     \* #token (0: none)
          fresh,     \* Date.now() < #expiresAt
          inFlight,  \* #inFlight (0: none)
          fetching,  \* token requests running
          fetches,   \* how many were ever sent
          slot, low, active, highQ, lowQ   \* the gate

tokenVars == <<token, fresh, inFlight, fetching, fetches>>
gateVars  == <<slot, low, active, highQ, lowQ>>
vars      == <<pc, attempt, with, refused, tokenVars, gateVars>>

Gate == INSTANCE Semaphore WITH Calls <- Requests, pc <- slot

TypeOK ==
  /\ pc \in [Requests -> {"idle", "token", "ready", "gate", "backoff"}]
  /\ attempt \in [Requests -> 0..Retries]
  /\ with \in [Requests -> 0..MaxFetches]
  /\ refused \in [Requests -> SUBSET (1..MaxFetches)]
  /\ {token, inFlight} \subseteq 0..fetches
  /\ fetching \subseteq 1..fetches
  /\ fetches \in 0..MaxFetches
  /\ fresh \in BOOLEAN
  /\ Gate!TypeOK

Init ==
  /\ pc = [r \in Requests |-> "idle"]
  /\ attempt = [r \in Requests |-> 0]
  /\ with = [r \in Requests |-> 0]
  /\ refused = [r \in Requests |-> {}]
  /\ token = 0 /\ fresh = FALSE /\ inFlight = 0
  /\ fetching = {} /\ fetches = 0
  /\ Gate!Init

-----------------------------------------------------------------------------
(* getToken(): what is cached while it is fresh, else the token request in *)
(* flight, else a new one.                                                 *)
Known == token # 0 /\ fresh

Cached(r) ==
  /\ Known
  /\ pc' = [pc EXCEPT ![r] = "ready"]
  /\ with' = [with EXCEPT ![r] = token]
  /\ UNCHANGED tokenVars

JoinFetch(r) ==
  /\ ~Known
  /\ inFlight # 0
  /\ pc' = [pc EXCEPT ![r] = "token"]
  /\ with' = [with EXCEPT ![r] = inFlight]
  /\ UNCHANGED tokenVars

StartFetch(r) ==
  /\ ~Known
  /\ inFlight = 0
  /\ fetches < MaxFetches
  /\ fetches' = fetches + 1
  /\ fetching' = fetching \cup {fetches'}
  /\ inFlight' = fetches'
  /\ pc' = [pc EXCEPT ![r] = "token"]
  /\ with' = [with EXCEPT ![r] = fetches']
  /\ UNCHANGED <<token, fresh>>

GetToken(r) == Cached(r) \/ JoinFetch(r) \/ StartFetch(r)

(* The time of the cached token is up. *)
Expire ==
  /\ fresh
  /\ fresh' = FALSE
  /\ UNCHANGED <<pc, attempt, with, refused, token, inFlight, fetching, fetches, gateVars>>

AwaitingToken(f) == {r \in Requests : pc[r] = "token" /\ with[r] = f}

(* #fetchToken() answers.  Its finally() empties #inFlight, whichever      *)
(* token request is there by then.                                         *)
Fetched(f) ==
  /\ f \in fetching
  /\ fetching' = fetching \ {f}
  /\ token' = f
  /\ fresh' = TRUE
  /\ inFlight' = 0
  /\ pc' = [r \in Requests |-> IF r \in AwaitingToken(f) THEN "ready" ELSE pc[r]]
  /\ UNCHANGED <<attempt, with, refused, fetches, gateVars>>

(* Fault: a request that awaits a failed token request is not told. *)
FaultFetchFails(f) ==
  /\ f \in fetching
  /\ fetching' = fetching \ {f}
  /\ inFlight' = 0
  /\ UNCHANGED <<pc, attempt, with, refused, token, fresh, fetches, gateVars>>

(* It fails: so does every request that awaits it, at once. *)
FetchFails(f) ==
  /\ f \in fetching
  /\ fetching' = fetching \ {f}
  /\ inFlight' = 0
  /\ pc' = [r \in Requests |-> IF r \in AwaitingToken(f) THEN "idle" ELSE pc[r]]
  /\ UNCHANGED <<attempt, with, refused, token, fresh, fetches, gateVars>>

-----------------------------------------------------------------------------
(* request() is called. *)
Ask(r) ==
  /\ pc[r] = "idle"
  /\ attempt' = [attempt EXCEPT ![r] = 0]
  /\ refused' = [refused EXCEPT ![r] = {}]
  /\ GetToken(r)
  /\ UNCHANGED gateVars

(* With its token it goes to the gate, background requests to its low line. *)
Send(r) ==
  /\ pc[r] = "ready"
  /\ Gate!Enter(r, r \in Background) \/ Gate!Enqueue(r, r \in Background)
  /\ pc' = [pc EXCEPT ![r] = "gate"]
  /\ UNCHANGED <<attempt, with, refused, tokenVars>>

(* It is its turn: the request is sent. *)
Granted(r) ==
  /\ Gate!Resume(r)
  /\ UNCHANGED <<pc, attempt, with, refused, tokenVars>>

(* The round trip ends, and with it the slot. *)
Answered(r) == pc[r] = "gate" /\ Gate!Finish(r)

(* An answer that ends it: 2xx, an error that is not retried, a last one. *)
Done(r) ==
  /\ Answered(r)
  /\ pc' = [pc EXCEPT ![r] = "idle"]
  /\ UNCHANGED <<attempt, with, refused, tokenVars>>

(* Fault: the back-off is slept with the slot. *)
FaultRetryLater(r) ==
  /\ pc[r] = "gate"
  /\ slot[r] = "running"
  /\ attempt[r] < Retries
  /\ pc' = [pc EXCEPT ![r] = "backoff"]
  /\ UNCHANGED <<attempt, with, refused, tokenVars, gateVars>>

(* 429, 502, 503, 504, or no answer, before the last attempt. *)
RetryLater(r) ==
  /\ Answered(r)
  /\ attempt[r] < Retries
  /\ pc' = [pc EXCEPT ![r] = "backoff"]
  /\ UNCHANGED <<attempt, with, refused, tokenVars>>

NextAttempt(r) ==
  /\ attempt' = [attempt EXCEPT ![r] = @ + 1]
  /\ GetToken(r)

BackoffEnds(r) ==
  /\ pc[r] = "backoff"
  /\ NextAttempt(r)
  /\ UNCHANGED <<refused, gateVars>>

(* Fault: the refused token is not dropped. *)
FaultRefused(r) ==
  /\ Answered(r)
  /\ attempt[r] < Retries
  /\ refused' = [refused EXCEPT ![r] = @ \cup {with[r]}]
  /\ NextAttempt(r)

(* 401: reset() drops the token, and forgets a token request in flight;    *)
(* the next attempt asks for another one at once.                          *)
Refused(r) ==
  /\ Answered(r)
  /\ attempt[r] < Retries
  /\ fetches < MaxFetches
  /\ attempt' = [attempt EXCEPT ![r] = @ + 1]
  /\ refused' = [refused EXCEPT ![r] = @ \cup {with[r]}]
  /\ token' = 0
  /\ fresh' = FALSE
  /\ fetches' = fetches + 1
  /\ fetching' = fetching \cup {fetches'}
  /\ inFlight' = fetches'
  /\ pc' = [pc EXCEPT ![r] = "token"]
  /\ with' = [with EXCEPT ![r] = fetches']

Next ==
  \/ Expire
  \/ \E f \in 1..MaxFetches : Fetched(f) \/ FetchFails(f)
  \/ \E r \in Requests :
       \/ Ask(r)
       \/ Send(r)
       \/ Granted(r)
       \/ Done(r) \/ RetryLater(r) \/ Refused(r)
       \/ BackoffEnds(r)

Spec == Init /\ [][Next]_vars

(* Every round trip and every token request has a timeout, sleep() ends,   *)
(* and the event loop runs every resolved promise.                         *)
FairSpec ==
  /\ Spec
  /\ \A f \in 1..MaxFetches : WF_vars(Fetched(f) \/ FetchFails(f))
  /\ \A r \in Requests :
       /\ WF_vars(Send(r))
       /\ WF_vars(Granted(r))
       /\ WF_vars(Done(r) \/ RetryLater(r) \/ Refused(r))
       /\ WF_vars(BackoffEnds(r))

-----------------------------------------------------------------------------
(* What the gate is promised, whatever tokens and retries do: a request    *)
(* passes it as Semaphore.tla says, and every slot taken is given back.    *)
PassesTheGate == Gate!FairSpec

(* "retry once with a fresh one": a request refused with a token is never  *)
(* sent with it again, whatever is stored by late answers and other        *)
(* requests in between.                                                    *)
NeverTheRefusedToken ==
  \A r \in Requests : pc[r] \in {"ready", "gate"} => with[r] \notin refused[r]

(* A reader's request comes to an end: none waits for ever for a token     *)
(* request that reset() forgot, for a slot, or for another request.  (At   *)
(* the bound of token requests an attempt cannot start.)                   *)
RequestEnds ==
  \A r \in Requests \ Background :
    (pc[r] # "idle") ~> (pc[r] = "idle" \/ (fetches = MaxFetches /\ ~Known))

(* "Collapse concurrent refreshes into a single token request."            *)
OneTokenRequest == Cardinality(fetching) <= 1
==============================================================================
