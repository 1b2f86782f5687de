------------------------------ MODULE FullUpdate ------------------------------
(***************************************************************************)
(* A full image update: the companion (companion/main.js, full-update.js)  *)
(* replaces the server's container through the container engine            *)
(* (companion/engine.js), asked by the server through files in the shared  *)
(* volume (updates/companion.js).                                          *)
(*                                                                         *)
(* Every call to the engine may be refused, or time out after it took      *)
(* effect; the companion may die between two calls, and is started again.  *)
(***************************************************************************)
EXTENDS Naturals, FiniteSets

CONSTANTS
  Containers,  \* container ids, given out once each
  MayFail,     \* the calls that may be refused
  MayTimeOut,  \* the calls that may be given up after they took effect
  MayDie,      \* the calls before which the companion may die
  MaxFaults    \* bound: failures and deaths

VARIABLES
  main, parked,  \* the container of each name, or None
  running,       \* the containers that run
  used,          \* the ids given out
  acked,         \* containers whose server wrote ack.json
  request,       \* request.json is there
  status,        \* state in status.json
  pc,            \* the companion's next call
  old, created,  \* what fullUpdate() remembers
  faults

vars == <<main, parked, running, used, acked, request, status, pc, old, created, faults>>
engineVars == <<main, parked, running, used>>

None == "none"
Finished == {"none", "done", "unchanged", "rolled-back", "failed"}
Calls == {"inspect", "pull", "unpark", "stop", "park", "create", "start", "settle",
          "stopNew", "removeNew", "unparkOld", "startOld"}

Init ==
  \E c \in Containers :
    /\ main = c /\ running = {c} /\ used = {c} /\ acked = {c}
    /\ parked = None /\ request = FALSE /\ status = "none"
    /\ pc = "idle" /\ old = None /\ created = None /\ faults = 0

-----------------------------------------------------------------------------
(* The engine: what each call does, when the engine does it. *)

Without(c) ==
  /\ main' = IF main = c THEN None ELSE main
  /\ parked' = IF parked = c THEN None ELSE parked
  /\ running' = running \ {c}

EngineStop(c) == running' = running \ {c} /\ UNCHANGED <<main, parked, used>>
EngineStart(c) == c \in {main, parked} /\ running' = running \union {c} /\ UNCHANGED <<main, parked, used>>
EngineRemove(c) == c \in {main, parked} /\ Without(c) /\ UNCHANGED used

\* Fault: the old container is removed, not parked.
FaultPark == main' = None /\ UNCHANGED <<parked, running, used>>

EnginePark == parked = None /\ parked' = old /\ main' = None /\ UNCHANGED <<running, used>>

\* Fault: the old container is started before it got its name back.
FaultUnpark == UNCHANGED engineVars

EngineUnpark == main = None /\ main' = old /\ parked' = None /\ UNCHANGED <<running, used>>
EngineCreate(c) == main = None /\ main' = c /\ used' = used \union {c} /\ UNCHANGED <<parked, running>>

\* What the companion's next call asks of the engine.
Effect ==
  CASE pc \in {"inspect", "pull", "settle"} -> UNCHANGED engineVars
    [] pc = "unpark" -> EngineRemove(parked)
    [] pc = "stop" -> EngineStop(old)
    [] pc = "park" -> EnginePark
    [] pc = "create" -> \E c \in Containers \ used : EngineCreate(c)
    [] pc = "start" -> EngineStart(created)
    [] pc = "stopNew" -> EngineStop(created)
    [] pc = "removeNew" -> EngineRemove(created)
    [] pc = "unparkOld" -> EngineUnpark
    [] pc = "startOld" -> EngineStart(old)

-----------------------------------------------------------------------------
(* The companion. *)

\* tick(): the request is taken, and fullUpdate() begins.
Take ==
  /\ pc = "idle" /\ request
  /\ request' = FALSE /\ status' = "running" /\ pc' = "inspect"
  /\ old' = None /\ created' = None
  /\ UNCHANGED <<engineVars, acked, faults>>

End(state) == pc' = "idle" /\ status' = state

\* The call was answered: which one follows.
After ==
  CASE pc = "inspect" -> /\ main # None /\ old' = main /\ pc' = "pull" /\ UNCHANGED <<created, status>>
    [] pc = "pull" -> /\ (pc' = "unpark" /\ UNCHANGED status) \/ End("unchanged")
                      /\ UNCHANGED <<old, created>>
    [] pc = "create" -> /\ created' = main' /\ pc' = "start" /\ UNCHANGED <<old, status>>
    [] pc = "settle" -> /\ created \in running /\ End("done") /\ UNCHANGED <<old, created>>
    [] pc = "startOld" -> /\ End("rolled-back") /\ UNCHANGED <<old, created>>
    [] OTHER -> /\ pc' = CASE pc = "unpark" -> "stop" [] pc = "stop" -> "park" [] pc = "park" -> "create"
                           [] pc = "start" -> "wait" [] pc = "stopNew" -> "removeNew"
                           [] pc = "removeNew" -> "unparkOld" [] pc = "unparkOld" -> "startOld"
                /\ UNCHANGED <<old, created, status>>

Answered ==
  /\ pc \in Calls /\ Effect /\ After
  /\ UNCHANGED <<acked, request, faults>>

\* Fault: an error after the new container was created ends the update.
FaultAfterError ==
  /\ UNCHANGED <<old, created>>
  /\ IF pc \in {"unpark", "stopNew", "removeNew"}
       THEN pc' = (IF pc = "unpark" THEN "stop" ELSE IF pc = "stopNew" THEN "removeNew" ELSE "unparkOld") /\ UNCHANGED status
       ELSE End("failed")

\* Where an error takes it: swallowed, back to the old container, or out.
AfterError ==
  /\ UNCHANGED <<old, created>>
  /\ CASE pc = "unpark" -> pc' = "stop" /\ UNCHANGED status
       [] pc = "create" -> pc' = "unparkOld" /\ UNCHANGED status
       [] pc \in {"start", "wait", "settle"} -> pc' = "stopNew" /\ UNCHANGED status
       [] pc = "stopNew" -> pc' = "removeNew" /\ UNCHANGED status
       [] pc = "removeNew" -> pc' = "unparkOld" /\ UNCHANGED status
       [] OTHER -> End("failed")

\* The engine refuses, since what is asked cannot be done.
Refused ==
  /\ pc \in Calls /\ ~ENABLED Effect
  /\ AfterError
  /\ UNCHANGED <<engineVars, acked, request, faults>>

\* The engine fails, before it did what was asked or after.
CallFails ==
  /\ pc \in Calls /\ faults < MaxFaults /\ faults' = faults + 1
  /\ \/ pc \in MayFail /\ UNCHANGED engineVars
     \/ pc \in MayTimeOut /\ Effect
  /\ AfterError
  /\ UNCHANGED <<acked, request>>

\* waitForAck() saw ack.json of the new server, or gave up; or the container
\* is found stopped once it should have settled.
Acked ==
  /\ pc = "wait" /\ created \in acked /\ pc' = "settle"
  /\ UNCHANGED <<engineVars, acked, request, status, old, created, faults>>
NotUp ==
  /\ pc = "wait" \/ (pc = "settle" /\ created \notin running)
  /\ AfterError
  /\ UNCHANGED <<engineVars, acked, request, faults>>

Dies ==
  /\ pc \in MayDie /\ faults < MaxFaults /\ faults' = faults + 1
  /\ pc' = "idle" /\ old' = None /\ created' = None
  /\ UNCHANGED <<engineVars, acked, request, status>>

-----------------------------------------------------------------------------
(* The servers. *)

\* acknowledgeStart(), by a server that comes up.
ServerUp ==
  /\ \E c \in running \ acked : acked' = acked \union {c}
  /\ UNCHANGED <<engineVars, request, status, pc, old, created, faults>>

\* A new container whose server does not come up stops; while the companion
\* watches it, it may stop after it came up.
ServerFails ==
  /\ \E c \in running : /\ c \notin acked \/ (c = created /\ pc \in {"wait", "settle"})
                        /\ running' = running \ {c}
  /\ UNCHANGED <<main, parked, used, acked, request, status, pc, old, created, faults>>

\* requestFullUpdate(): one at a time.
Ask ==
  /\ running \intersect acked # {} /\ used # Containers
  /\ ~request /\ status \in Finished
  /\ request' = TRUE
  /\ UNCHANGED <<engineVars, acked, status, pc, old, created, faults>>

-----------------------------------------------------------------------------
Next ==
  \/ Take \/ Answered \/ Refused \/ CallFails \/ Acked \/ NotUp \/ Dies
  \/ ServerUp \/ ServerFails \/ Ask

Companion == Take \/ Answered \/ Refused \/ Acked \/ NotUp
Spec == Init /\ [][Next]_vars /\ WF_vars(Companion)

-----------------------------------------------------------------------------
TypeOK ==
  /\ {main, parked, old, created} \subseteq Containers \union {None}
  /\ running \subseteq used /\ acked \subseteq used /\ used \subseteq Containers
  /\ request \in BOOLEAN /\ status \in Finished \union {"running"}
  /\ pc \in Calls \union {"idle", "wait"}

\* One state folder, one server: the old container and the new one never run
\* at once, however the engine fails and wherever the companion dies
\* (full-update.js: the old one is stopped first and the new one removed
\* before the old one gets its name back).
OneContainerRuns == Cardinality(running) <= 1

\* A container whose server came up is kept until the one replacing it came up
\* (full-update.js: parked as "<name>-previous").
GoodOneIsKept == acked \intersect {main, parked} # {}

\* Unless the engine fails or the companion dies, a server that was stopped for
\* an update is followed by one that runs
\* (full-update.js: "go back to the old one if the new one does not come up").
RunsAgain == <>(faults > 0) \/ []<>(running # {})

\* "throws only when nothing was changed" (full-update.js).
FailedChangesNothing == status = "failed" => running # {}
=============================================================================
