----------------------------- MODULE ServingProofs ----------------------------
(***************************************************************************)
(* A full update never has two containers run at once and never loses the  *)
(* one whose server came up, for any number of containers, of failures and *)
(* of deaths of the companion, at whichever calls they may come.  However  *)
(* many servers start on one directory, one serves, until one removes the  *)
(* lock of another without having read it; a supervisor has one child at a *)
(* time, and versions that are on the disk.                                *)
(*                                                                         *)
(* None is inductive: which container a call is about to stop, park,       *)
(* remove or start is what the companion remembers, so IInv says where     *)
(* that container is at every call, and that only the container with the   *)
(* name may run.  LockInv says in the same way whose lock a server has     *)
(* read, and that it was removed only once that server had gone; LaunchInv *)
(* says what the supervisor awaits.                                        *)
(***************************************************************************)
EXTENDS Serving, FiniteSetTheorems, TLAPS

(* Container ids are given out by the engine; what runs and came up was.   *)
IdsOK ==
  /\ Full!None \notin used
  /\ running \subseteq used /\ acked \subseteq used
  /\ {main, parked} \subseteq used \union {Full!None}
  /\ main # Full!None => parked # main

(* At most one update: asked for by a server that came up, or under way.   *)
AskedOK ==
  /\ call # "idle" => status = "running"
  /\ request => call = "idle" /\ main \in acked

(* The server's container has the name, until it is parked...              *)
BeforePark == {"pull", "unpark", "stop", "park"}
(* ...then it is kept beside, while the new one has the name...            *)
Replaced == {"start", "wait", "settle", "stopNew", "removeNew"}
(* ...and until it has its name back.                                      *)
Parked == Replaced \union {"create", "unparkOld"}

AtCall ==
  /\ call \in Full!Calls \union {"idle", "wait"}
  /\ call = "inspect" => main \in acked
  /\ call \in BeforePark => old = main /\ old \in acked
  /\ call = "park" => running = {}
  /\ call = "create" => main = Full!None
  /\ call \in Replaced => created = main /\ main # Full!None
  /\ call \in Parked => parked = old /\ old \in acked
  /\ call = "startOld" => main = old /\ old \in acked

IInv ==
  /\ IdsOK
  /\ AskedOK
  /\ AtCall
  /\ running \subseteq {main}
  /\ Full!GoodOneIsKept

-----------------------------------------------------------------------------
(* The first container is the server's. *)
LEMMA InitIInv ==
  ASSUME Full!None \notin Containers, Full!Init
  PROVE  IInv
  BY DEF Full!Init, IInv, IdsOK, AskedOK, AtCall, BeforePark, Replaced, Parked,
         Full!GoodOneIsKept, Full!Calls

(* What a call leaves of the containers, whether it was done or not. *)
Kept ==
  /\ Full!None \notin used' /\ used \subseteq used' /\ running' \subseteq used'
  /\ {main', parked'} \subseteq used' \union {Full!None}
  /\ main' # Full!None => parked' # main'
  /\ running' \subseteq {main'}
  /\ acked \intersect {main', parked'} # {}
  /\ call \in (Full!Calls \union {"wait"}) \ {"park", "create", "removeNew", "unparkOld"} => main' = main
  /\ call \in Parked \ {"unparkOld"} => parked' = old

(* And when it was done. *)
Effected ==
  /\ call = "stop" => running' = {}
  /\ call = "park" => main' = Full!None /\ parked' = old
  /\ call = "create" => main' # Full!None
  /\ call = "removeNew" => main' = Full!None
  /\ call = "unparkOld" => main' = old

(* A call that was not done changes nothing. *)
LEMMA NotDone ==
  ASSUME IInv, UNCHANGED Full!engineVars
  PROVE  Kept
  BY DEF IInv, IdsOK, AtCall, Full!GoodOneIsKept, Kept, Parked, Replaced, Full!engineVars

(* One that was done does what it was asked, to the container it was asked *)
(* to do it to.                                                            *)
LEMMA CallDone ==
  ASSUME Full!None \notin Containers, IInv, call \in Full!Calls, Full!Effect
  PROVE  Kept /\ Effected
  <1>. USE DEF IInv, IdsOK, AtCall, Full!GoodOneIsKept, Kept, Effected, Parked, Replaced, BeforePark
  <1>1. CASE call \in {"inspect", "pull", "settle"}
    BY <1>1, NotDone DEF Full!Effect
  <1>2. CASE call = "unpark"
    <2>1. Full!Without(parked) /\ used' = used
      BY <1>2 DEF Full!Effect, Full!EngineRemove
    <2>2. main # Full!None /\ main # parked
      BY <1>2
    <2>3. main' = main /\ parked' = Full!None /\ running' = running \ {parked}
      BY <2>1, <2>2 DEF Full!Without
    <2>. QED
      BY <1>2, <2>1, <2>2, <2>3
  <1>3. CASE call = "stop"
    BY <1>3 DEF Full!Effect, Full!EngineStop
  <1>4. CASE call = "park"
    BY <1>4 DEF Full!Effect, Full!EnginePark
  <1>5. CASE call = "create"
    BY <1>5 DEF Full!Effect, Full!EngineCreate
  <1>6. CASE call = "start"
    BY <1>6 DEF Full!Effect, Full!EngineStart
  <1>7. CASE call = "stopNew"
    BY <1>7 DEF Full!Effect, Full!EngineStop
  <1>8. CASE call = "removeNew"
    <2>1. Full!Without(created) /\ used' = used
      BY <1>8 DEF Full!Effect, Full!EngineRemove
    <2>2. main # Full!None /\ main # parked /\ created = main
      BY <1>8
    <2>3. main' = Full!None /\ parked' = parked /\ running' = running \ {main}
      BY <2>1, <2>2 DEF Full!Without
    <2>. QED
      BY <1>8, <2>1, <2>2, <2>3
  <1>9. CASE call = "unparkOld"
    BY <1>9 DEF Full!Effect, Full!EngineUnpark
  <1>10. CASE call = "startOld"
    BY <1>10 DEF Full!Effect, Full!EngineStart
  <1>. QED
    BY <1>1, <1>2, <1>3, <1>4, <1>5, <1>6, <1>7, <1>8, <1>9, <1>10 DEF Full!Calls

(* The next call finds its container where it is to be. *)
LEMMA AnsweredKeepsIInv ==
  ASSUME Full!None \notin Containers, IInv, Full!Answered
  PROVE  IInv'
  <1>1. /\ call \in Full!Calls /\ Kept /\ Effected /\ Full!After
        /\ UNCHANGED <<acked, request>>
    BY CallDone DEF Full!Answered
  <1>2. call # "idle" /\ status = "running" /\ ~request
    BY <1>1 DEF Full!Calls, IInv, AskedOK
  <1>3. IdsOK' /\ running' \subseteq {main'} /\ Full!GoodOneIsKept'
    BY <1>1 DEF IInv, IdsOK, Kept, Full!GoodOneIsKept
  <1>4. AskedOK'
    BY <1>1, <1>2 DEF AskedOK, Full!After, Full!End
  <1>5. AtCall'
    <2>. USE <1>1, <1>3 DEF IInv, IdsOK, AtCall, Kept, Effected, Parked, Replaced, BeforePark,
                            Full!After, Full!Calls, Full!End
    <2>1. CASE call = "inspect"
      BY <2>1
    <2>2. CASE call = "pull"
      BY <2>2
    <2>3. CASE call = "settle"
      BY <2>3
    <2>4. CASE call = "unpark"
      BY <2>4
    <2>5. CASE call = "stop"
      BY <2>5
    <2>6. CASE call = "park"
      BY <2>6
    <2>7. CASE call = "create"
      BY <2>7
    <2>8. CASE call = "start"
      BY <2>8
    <2>9. CASE call = "stopNew"
      BY <2>9
    <2>10. CASE call = "removeNew"
      BY <2>10
    <2>11. CASE call = "unparkOld"
      BY <2>11
    <2>12. CASE call = "startOld"
      BY <2>12
    <2>. QED
      BY <2>1, <2>2, <2>3, <2>4, <2>5, <2>6, <2>7, <2>8, <2>9, <2>10, <2>11, <2>12 DEF Full!Calls
  <1>. QED
    BY <1>3, <1>4, <1>5 DEF IInv

(* An error takes the update back to the old container, or out of it: both *)
(* find it whether or not the call was done.                               *)
LEMMA ErrorKeepsIInv ==
  ASSUME IInv, call \in Full!Calls \union {"wait"}, Kept, Full!AfterError, UNCHANGED <<acked, request>>
  PROVE  IInv'
  <1>1. call # "idle" /\ status = "running" /\ ~request
    BY DEF Full!Calls, IInv, AskedOK
  <1>2. IdsOK' /\ running' \subseteq {main'} /\ Full!GoodOneIsKept'
    BY DEF IInv, IdsOK, Kept, Full!GoodOneIsKept
  <1>3. AskedOK'
    BY <1>1 DEF AskedOK, Full!AfterError, Full!End
  <1>4. AtCall'
    <2>. USE <1>2 DEF IInv, IdsOK, AtCall, Kept, Parked, Replaced, BeforePark,
                      Full!AfterError, Full!Calls, Full!End
    <2>1. CASE call = "unpark"
      BY <2>1
    <2>2. CASE call = "create"
      BY <2>2
    <2>3. CASE call \in {"start", "wait", "settle"}
      BY <2>3
    <2>4. CASE call = "stopNew"
      BY <2>4
    <2>5. CASE call = "removeNew"
      BY <2>5
    <2>6. CASE call \notin {"unpark", "create", "start", "wait", "settle", "stopNew", "removeNew"}
      BY <2>6
    <2>. QED
      BY <2>1, <2>2, <2>3, <2>4, <2>5, <2>6
  <1>. QED
    BY <1>2, <1>3, <1>4 DEF IInv

(* A call fails, before it was done or after; the engine refuses it; or    *)
(* the new server does not come up.                                        *)
LEMMA FailureKeepsIInv ==
  ASSUME Full!None \notin Containers, IInv, Full!CallFails \/ Full!Refused \/ Full!NotUp
  PROVE  IInv'
  <1>1. CASE Full!CallFails
    <2>1. call \in Full!Calls /\ Full!AfterError /\ UNCHANGED <<acked, request>>
      BY <1>1 DEF Full!CallFails
    <2>2. Kept
      BY <1>1, <2>1, NotDone, CallDone DEF Full!CallFails
    <2>. QED
      BY <2>1, <2>2, ErrorKeepsIInv
  <1>2. CASE Full!Refused
    <2>1. /\ call \in Full!Calls /\ Full!AfterError
          /\ UNCHANGED Full!engineVars /\ UNCHANGED <<acked, request>>
      BY <1>2 DEF Full!Refused
    <2>. QED
      BY <2>1, NotDone, ErrorKeepsIInv
  <1>3. CASE Full!NotUp
    <2>1. /\ call \in Full!Calls \union {"wait"} /\ Full!AfterError
          /\ UNCHANGED Full!engineVars /\ UNCHANGED <<acked, request>>
      BY <1>3 DEF Full!NotUp, Full!Calls
    <2>. QED
      BY <2>1, NotDone, ErrorKeepsIInv
  <1>. QED
    BY <1>1, <1>2, <1>3

(* The companion takes a request, sees the new server up, or dies. *)
LEMMA CompanionKeepsIInv ==
  ASSUME IInv, Full!Take \/ Full!Acked \/ Full!Dies
  PROVE  IInv'
  <1>. USE DEF IInv, IdsOK, AskedOK, AtCall, BeforePark, Replaced, Parked, Full!GoodOneIsKept,
               Full!engineVars, Full!Calls
  <1>1. CASE Full!Take
    BY <1>1 DEF Full!Take
  <1>2. CASE Full!Acked
    BY <1>2 DEF Full!Acked
  <1>3. CASE Full!Dies
    BY <1>3 DEF Full!Dies
  <1>. QED
    BY <1>1, <1>2, <1>3

(* A server comes up, does not come up, or asks for an update. *)
LEMMA ServerKeepsIInv ==
  ASSUME IInv, Full!ServerUp \/ Full!ServerFails \/ Full!Ask
  PROVE  IInv'
  <1>. USE DEF IInv, IdsOK, AskedOK, AtCall, BeforePark, Replaced, Parked, Full!GoodOneIsKept,
               Full!engineVars, Full!Calls
  <1>1. CASE Full!ServerUp
    BY <1>1 DEF Full!ServerUp
  <1>2. CASE Full!ServerFails
    BY <1>2 DEF Full!ServerFails
  <1>3. CASE Full!Ask
    BY <1>3 DEF Full!Ask, Full!Finished
  <1>. QED
    BY <1>1, <1>2, <1>3

(* No step breaks it. *)
LEMMA StepKeepsIInv ==
  ASSUME Full!None \notin Containers, IInv, [Full!Next]_(Full!vars)
  PROVE  IInv'
  <1>1. CASE UNCHANGED Full!vars
    BY <1>1 DEF Full!vars, Full!engineVars, IInv, IdsOK, AskedOK, AtCall, Full!GoodOneIsKept
  <1>2. CASE Full!Next
    BY <1>2, AnsweredKeepsIInv, FailureKeepsIInv, CompanionKeepsIInv, ServerKeepsIInv DEF Full!Next
  <1>. QED
    BY <1>1, <1>2

(* At every call its container is where the companion remembers it. *)
THEOREM ContainersAreWhereRemembered ==
  ASSUME Full!None \notin Containers
  PROVE  Full!Spec => []IInv
  <1>1. Full!Init => IInv
    BY InitIInv
  <1>2. IInv /\ [Full!Next]_(Full!vars) => IInv'
    BY StepKeepsIInv
  <1>. QED
    BY <1>1, <1>2, PTL DEF Full!Spec

(* Whatever fails and wherever the companion dies, a container whose       *)
(* server came up has the name or is kept beside it (full-update.js).      *)
THEOREM AGoodOneIsKept ==
  ASSUME Full!None \notin Containers
  PROVE  Full!Spec => []GoodOneIsKept
  <1>1. IInv => GoodOneIsKept
    BY DEF IInv, GoodOneIsKept
  <1>. QED
    BY <1>1, ContainersAreWhereRemembered, PTL

(* Only the container with the name runs. *)
LEMMA OneRuns == IInv => Full!OneContainerRuns
  <1>. SUFFICES ASSUME IInv PROVE Full!Cardinality(running) <= 1
    BY DEF Full!OneContainerRuns
  <1>1. running = {} \/ running = {main}
    BY DEF IInv
  <1>2. Cardinality({}) = 0 /\ Cardinality({main}) = 1
    BY FS_EmptySet, FS_Singleton
  <1>3. Full!Cardinality(running) = Cardinality(running)
    BY DEF Full!Cardinality, Cardinality
  <1>. QED
    BY <1>1, <1>2, <1>3

(* The state folder has one server at a time: the old container and the    *)
(* new one never run at once (full-update.js).                             *)
THEOREM OneContainerAtATime ==
  ASSUME Full!None \notin Containers
  PROVE  Full!Spec => []Full!OneContainerRuns
  BY OneRuns, ContainersAreWhereRemembered, PTL

-----------------------------------------------------------------------------
(* The lock (InstanceLock.tla), of any number of servers. *)
LockConstants == LockAssumption /\ NoFile \notin Locks /\ NoFile \notin Servers

Gone == {"stopped", "dead"}
Places == Holding \cup Gone \cup {"off", "create", "read", "remove", "sleep", "refused"}

(* A lock is of one who runs, or did. *)
FileOK == file # NoFile => file \in Locks /\ pc[file.id] \in Holding \cup Gone

(* Who holds the lock owns the file, with a beat of this interval or the   *)
(* one before.                                                             *)
HolderOwns ==
  \A s \in Servers : pc[s] \in Holding =>
    /\ file # NoFile /\ file.id = s /\ file.age \in 0..1
    /\ pc[s] \in {"write", "beat"} \/ s \in beaten => file.age = 0

(* Whose lock is about to be removed has gone for good. *)
StarterOK ==
  \A s \in Servers : pc[s] = "remove" /\ seen[s] # NoFile => pc[seen[s]] \in Gone

LockInv ==
  /\ pc \in [Servers -> Places]
  /\ seen \in [Servers -> Servers \cup {NoFile}]
  /\ FileOK
  /\ robbed \/ (HolderOwns /\ StarterOK)

(* One server goes on, the others stay where they are. *)
LEMMA OneGoes ==
  ASSUME LockInv, NEW s \in Servers, NEW from, NEW to \in Places, Go(s, from, to)
  PROVE  /\ pc' \in [Servers -> Places]
         /\ pc[s] = from /\ pc'[s] = to /\ \A t \in Servers \ {s} : pc'[t] = pc[t]
  BY DEF LockInv, Go

(* A start, or a step of acquire() that leaves the file alone: who goes on  *)
(* holds nothing, and has found the lock it will remove too old to be of    *)
(* one who holds it.                                                        *)
LEMMA LookingKeepsLock ==
  ASSUME LockConstants, LockInv, NEW s \in Servers,
         Start(s) \/ Exists(s) \/ ReadDead(s) \/ GiveUp(s) \/ ReadLive(s)
  PROVE  LockInv'
  <1>1. PICK from \in {"off", "create", "read"}, to \in {"create", "read", "remove", "refused", "sleep"} :
          /\ Go(s, from, to) /\ UNCHANGED <<file, beaten, robbed>>
          /\ seen' = seen \/ (seen' = [seen EXCEPT ![s] = Lock] /\ Dead)
          /\ to = "remove" => seen' = [seen EXCEPT ![s] = Lock] /\ Dead
    BY DEF Start, Exists, ReadDead, GiveUp, ReadLive, files
  <1>2. /\ pc' \in [Servers -> Places]
        /\ pc[s] = from /\ pc'[s] = to /\ \A t \in Servers \ {s} : pc'[t] = pc[t]
    BY <1>1, OneGoes DEF Places
  <1>3. from \notin Holding \cup Gone /\ to \notin Holding \cup Gone
    BY DEF Holding, Running, Gone
  <1>4. FileOK'
    BY <1>1, <1>2, <1>3 DEF LockInv, FileOK, Locks
  <1>5. HolderOwns => HolderOwns'
    BY <1>1, <1>2, <1>3 DEF HolderOwns
  <1>6. Lock \in Servers \cup {NoFile}
    BY DEF LockInv, FileOK, Lock, Locks
  <1>7. ASSUME HolderOwns, Dead, Lock # NoFile PROVE pc[Lock] \in Gone
    <2>1. file # NoFile /\ Lock = file.id /\ file \in Locks /\ file.age > Stale
      BY <1>7 DEF Lock, Dead, LockInv, FileOK
    <2>2. Stale >= 1 /\ Stale \in Nat
      BY DEF LockConstants, LockAssumption
    <2>3. file.age \notin 0..1
      BY <2>1, <2>2
    <2>. QED
      BY <1>7, <2>1, <2>3 DEF HolderOwns, LockInv, FileOK, Locks
  <1>8. seen' \in [Servers -> Servers \cup {NoFile}]
    BY <1>1, <1>6 DEF LockInv
  <1>9. ASSUME HolderOwns, StarterOK PROVE StarterOK'
    <2>. SUFFICES ASSUME NEW t \in Servers, pc'[t] = "remove", seen'[t] # NoFile
                  PROVE  pc'[seen'[t]] \in Gone
      BY DEF StarterOK
    <2>1. CASE t = s
      <3>1. seen'[s] = Lock /\ Dead
        BY <1>1, <1>2, <2>1 DEF LockInv
      <3>2. Lock \in Servers /\ pc[Lock] \in Gone
        BY <1>6, <1>7, <1>9, <2>1, <3>1
      <3>. QED
        BY <1>2, <1>3, <2>1, <3>1, <3>2
    <2>2. CASE t # s
      <3>1. seen'[t] = seen[t] /\ pc[t] = "remove" /\ seen[t] \in Servers
        BY <1>1, <1>2, <1>8, <2>2 DEF LockInv
      <3>2. pc[seen[t]] \in Gone
        BY <1>9, <3>1 DEF StarterOK
      <3>. QED
        BY <1>2, <1>3, <3>1, <3>2
    <2>. QED
      BY <2>1, <2>2
  <1>. QED
    BY <1>1, <1>2, <1>4, <1>5, <1>8, <1>9 DEF LockInv

(* Who gets on with its own lock, or leaves it behind: nobody returns. *)
LEMMA OwnStepKeepsStarters ==
  ASSUME LockConstants, LockInv, NEW s \in Servers, NEW from, NEW to \in Holding \cup Gone, Go(s, from, to),
         from \notin Gone \cup {"remove"}, seen' = seen, StarterOK
  PROVE  StarterOK'
  <1>1. /\ pc[s] = from /\ pc'[s] = to /\ \A t \in Servers \ {s} : pc'[t] = pc[t]
    BY OneGoes DEF Places
  <1>2. to # "remove"
    BY DEF Holding, Running, Gone
  <1>. QED
    BY <1>1, <1>2 DEF StarterOK, LockInv

(* The lock is created, written, kept fresh, released or left behind. *)
LEMMA OwnStepKeepsLock ==
  ASSUME LockConstants, LockInv, NEW s \in Servers,
         Create(s) \/ Write(s) \/ Beat(s) \/ Release(s) \/ Leave(s) \/ Crash(s)
  PROVE  LockInv'
  <1>1. \A w \in BOOLEAN : /\ LockOf(s, w) \in Locks /\ LockOf(s, w) # NoFile
                           /\ LockOf(s, w).id = s /\ LockOf(s, w).age = 0
    BY DEF LockOf, Locks, LockConstants, LockAssumption
  <1>2. ASSUME NEW from \in Holding \cup {"create"}, NEW to \in Holding \cup Gone, Go(s, from, to),
               UNCHANGED <<seen, robbed>>,
               file' = file \/ file' = NoFile \/ \E w \in BOOLEAN : file' = LockOf(s, w),
               HolderOwns => HolderOwns'
        PROVE  LockInv'
    <2>1. /\ pc' \in [Servers -> Places]
          /\ pc[s] = from /\ pc'[s] = to /\ \A t \in Servers \ {s} : pc'[t] = pc[t]
      BY <1>2, OneGoes DEF Places
    <2>2. FileOK'
      BY <1>1, <1>2, <2>1 DEF LockInv, FileOK, Locks
    <2>3. StarterOK => StarterOK'
      <3>1. from \notin Gone \cup {"remove"}
        BY DEF Holding, Running, Gone
      <3>. QED
        BY <1>2, <3>1, OwnStepKeepsStarters
    <2>. QED
      BY <1>2, <2>1, <2>2, <2>3 DEF LockInv
  <1>3. ASSUME NEW from, NEW to \in Holding \cup Gone, Go(s, from, to)
        PROVE  pc[s] = from /\ pc'[s] = to /\ \A t \in Servers \ {s} : pc'[t] = pc[t]
    BY <1>3, OneGoes DEF Places
  <1>4. ASSUME HolderOwns, pc[s] \in Holding PROVE \A t \in Servers : pc[t] \in Holding => t = s
    BY <1>4 DEF HolderOwns
  <1>5. CASE Create(s)
    <2>1. Go(s, "create", "write") /\ file = NoFile /\ file' = LockOf(s, FALSE) /\ UNCHANGED <<seen, robbed>>
      BY <1>5 DEF Create
    <2>2. HolderOwns => HolderOwns'
      <3>1. HolderOwns => \A t \in Servers : pc[t] \notin Holding
        BY <2>1 DEF HolderOwns
      <3>2. pc'[s] = "write" /\ \A t \in Servers \ {s} : pc'[t] = pc[t]
        BY <1>3, <2>1 DEF Holding
      <3>3. file' # NoFile /\ file'.id = s /\ file'.age = 0
        BY <1>1, <2>1
      <3>. QED
        BY <3>1, <3>2, <3>3 DEF HolderOwns
    <2>3. "write" \in Holding
      BY DEF Holding
    <2>. QED
      BY <1>1, <1>2, <2>1, <2>2, <2>3
  <1>6. CASE Write(s)
    <2>1. PICK from \in {"write", "beat"} : Go(s, from, "held")
      BY <1>6 DEF Write
    <2>2. (file' = file \/ file' = LockOf(s, TRUE)) /\ UNCHANGED <<seen, robbed>>
          /\ beaten' = beaten \cup {s}
      BY <1>6 DEF Write
    <2>3. from \in Holding /\ "held" \in Holding /\ "held" \notin {"write", "beat"} /\ from # "create"
      BY DEF Holding, Running
    <2>4. pc[s] = from /\ pc'[s] = "held" /\ \A t \in Servers \ {s} : pc'[t] = pc[t]
      BY <1>3, <2>1, <2>3
    <2>5. ASSUME HolderOwns PROVE HolderOwns'
      <3>1. \A t \in Servers : pc'[t] \in Holding => t = s
        BY <1>4, <2>3, <2>4, <2>5
      <3>2. file # NoFile /\ file.id = s /\ file.age = 0
        BY <2>3, <2>4, <2>5 DEF HolderOwns
      <3>3. file' # NoFile /\ file'.id = s /\ file'.age = 0
        BY <1>1, <2>2, <3>2
      <3>. QED
        BY <3>1, <3>3 DEF HolderOwns
    <2>. QED
      BY <1>2, <2>1, <2>2, <2>3, <2>5
  <1>7. CASE Beat(s)
    <2>1. Go(s, "held", "beat") /\ file' = LockOf(s, FALSE) /\ UNCHANGED <<seen, beaten, robbed>>
      BY <1>7 DEF Beat
    <2>2. "held" \in Holding /\ "beat" \in Holding
      BY DEF Holding, Running
    <2>3. pc[s] = "held" /\ pc'[s] = "beat" /\ \A t \in Servers \ {s} : pc'[t] = pc[t]
      BY <1>3, <2>1, <2>2
    <2>4. ASSUME HolderOwns PROVE HolderOwns'
      <3>1. \A t \in Servers : pc'[t] \in Holding => t = s
        BY <1>4, <2>2, <2>3, <2>4
      <3>2. file' # NoFile /\ file'.id = s /\ file'.age = 0
        BY <1>1, <2>1
      <3>. QED
        BY <3>1, <3>2 DEF HolderOwns
    <2>. QED
      BY <1>2, <2>1, <2>2, <2>4
  <1>8. CASE Release(s) \/ Leave(s) \/ Crash(s)
    <2>1. PICK from \in Holding, to \in {"leave", "stopped", "dead"} :
            /\ Go(s, from, to) /\ UNCHANGED <<seen, robbed>>
            /\ file' = file \/ (file' = NoFile /\ to # "leave")
            /\ beaten' \subseteq beaten
      BY <1>8 DEF Release, Leave, Crash, Holding, Running
    <2>2. to \in Holding \cup Gone /\ from # "create" /\ "leave" \notin {"write", "beat"}
          /\ (to \in Holding => to = "leave")
      BY DEF Holding, Running, Gone
    <2>3. pc[s] = from /\ pc'[s] = to /\ \A t \in Servers \ {s} : pc'[t] = pc[t]
      BY <1>3, <2>1, <2>2
    <2>4. ASSUME HolderOwns PROVE HolderOwns'
      <3>1. \A t \in Servers : pc'[t] \in Holding => t = s /\ to = "leave"
        BY <1>4, <2>1, <2>2, <2>3, <2>4
      <3>2. file # NoFile /\ file.id = s /\ file.age \in 0..1 /\ (s \in beaten => file.age = 0)
        BY <2>1, <2>3, <2>4 DEF HolderOwns
      <3>. QED
        BY <2>1, <2>2, <2>3, <3>1, <3>2 DEF HolderOwns
    <2>. QED
      BY <1>2, <2>1, <2>2, <2>4
  <1>. QED
    BY <1>5, <1>6, <1>7, <1>8

(* A lock is removed: that of one who went, or this is a robbery. *)
LEMMA RemoveKeepsLock ==
  ASSUME LockConstants, LockInv, NEW s \in Servers, Remove(s)
  PROVE  LockInv'
  <1>1. /\ Go(s, "remove", "create") /\ file' = NoFile /\ seen' = [seen EXCEPT ![s] = NoFile]
        /\ robbed' = (robbed \/ (file # NoFile /\ file.id # seen[s] /\ pc[file.id] \in Holding))
    BY DEF Remove
  <1>2. /\ pc' \in [Servers -> Places]
        /\ pc[s] = "remove" /\ pc'[s] = "create" /\ \A t \in Servers \ {s} : pc'[t] = pc[t]
    BY <1>1, OneGoes DEF Places
  <1>3. "create" \notin Holding \cup Gone /\ "remove" \notin Gone /\ Holding \cap Gone = {}
    BY DEF Holding, Running, Gone
  <1>4. seen' \in [Servers -> Servers \cup {NoFile}] /\ FileOK'
    BY <1>1 DEF LockInv, FileOK
  <1>5. ASSUME HolderOwns, StarterOK, ~robbed' PROVE HolderOwns' /\ StarterOK'
    <2>1. \A t \in Servers : pc[t] \notin Holding
      <3>. SUFFICES ASSUME NEW t \in Servers, pc[t] \in Holding PROVE FALSE
        OBVIOUS
      <3>1. file # NoFile /\ file.id = t
        BY <1>5 DEF HolderOwns
      <3>2. seen[s] = t
        BY <1>1, <1>5, <3>1
      <3>3. pc[t] \in Gone
        BY <1>2, <1>5, <3>2 DEF StarterOK, LockConstants
      <3>. QED
        BY <1>3, <3>3
    <2>2. HolderOwns'
      BY <1>2, <1>3, <2>1 DEF HolderOwns
    <2>3. StarterOK'
      BY <1>1, <1>2, <1>3, <1>4, <1>5 DEF StarterOK, LockInv
    <2>. QED
      BY <2>2, <2>3
  <1>. QED
    BY <1>1, <1>2, <1>4, <1>5 DEF LockInv

(* An interval passes, in which every holder has beaten. *)
LEMMA TickKeepsLock ==
  ASSUME LockConstants, LockInv, Tick
  PROVE  LockInv'
  <1>1. /\ \A s \in Servers : pc'[s] = pc[s] \/ (pc[s] = "sleep" /\ pc'[s] = "create")
        /\ pc' \in [Servers -> Places]
    BY DEF Tick, LockInv, Places
  <1>2. \A s \in Servers : pc[s] \in Holding => pc[s] = "held" /\ s \in beaten
    BY DEF Tick, Holding, Running
  <1>3. {"sleep", "create"} \cap (Holding \cup Gone \cup {"remove"}) = {}
    BY DEF Holding, Running, Gone
  <1>4. beaten' = {} /\ seen' = seen /\ robbed' = robbed
    BY DEF Tick
  <1>5. \/ file' = file
        \/ file # NoFile /\ file.age <= Stale /\ file' = [file EXCEPT !.age = @ + 1]
    BY DEF Tick
  <1>6. /\ file # NoFile => file' \in Locks /\ file'.id = file.id /\ file' # NoFile
                            /\ (file.age = 0 => file'.age \in 0..1)
        /\ file = NoFile => file' = NoFile
    <2>1. CASE file' = file
      BY <2>1 DEF LockInv, FileOK
    <2>2. CASE file # NoFile /\ file.age <= Stale /\ file' = [file EXCEPT !.age = @ + 1]
      <3>1. file \in Locks /\ Stale \in Nat
        BY <2>2 DEF LockInv, FileOK, LockConstants, LockAssumption
      <3>2. file' \in Locks /\ file'.id = file.id /\ file'.age = file.age + 1
        BY <2>2, <3>1 DEF Locks
      <3>. QED
        BY <2>2, <3>2 DEF LockConstants
    <2>. QED
      BY <1>5, <2>1, <2>2
  <1>7. FileOK'
    BY <1>1, <1>3, <1>6 DEF LockInv, FileOK, Locks
  <1>8. ASSUME HolderOwns PROVE HolderOwns'
    <2>. SUFFICES ASSUME NEW s \in Servers, pc'[s] \in Holding
                  PROVE  /\ file' # NoFile /\ file'.id = s /\ file'.age \in 0..1
                         /\ pc'[s] \notin {"write", "beat"} /\ s \notin beaten'
      BY DEF HolderOwns
    <2>1. pc[s] = "held" /\ s \in beaten /\ pc'[s] = "held" /\ pc[s] \in Holding
      BY <1>1, <1>2, <1>3
    <2>2. file # NoFile /\ file.id = s /\ file.age = 0
      BY <1>8, <2>1 DEF HolderOwns
    <2>. QED
      BY <1>4, <1>6, <2>1, <2>2
  <1>9. StarterOK => StarterOK'
    BY <1>1, <1>3, <1>4 DEF StarterOK, LockInv
  <1>. QED
    BY <1>1, <1>4, <1>7, <1>8, <1>9 DEF LockInv

(* "One server per state folder" (instance-lock.js), however many start,    *)
(* stop, die or wait, until a starter removes the lock of a running server  *)
(* without having read it.                                                  *)
THEOREM OneServerUnlessRobbed ==
  ASSUME LockConstants
  PROVE  Spec => []OneServer
  <1>1. Init => LockInv
    <2>. SUFFICES ASSUME Init PROVE LockInv
      OBVIOUS
    <2>1. /\ pc = [s \in Servers |-> "off"] /\ file = NoFile
          /\ seen = [s \in Servers |-> NoFile]
      BY DEF Init
    <2>2. "off" \in Places /\ "off" \notin Holding
      BY DEF Places, Holding, Running
    <2>. QED
      BY <2>1, <2>2 DEF LockInv, HolderOwns, FileOK, StarterOK
  <1>2. LockInv /\ [Next]_vars => LockInv'
    <2>. SUFFICES ASSUME LockInv, [Next]_vars PROVE LockInv'
      OBVIOUS
    <2>1. ASSUME NEW s \in Servers,
                 Start(s) \/ Acquiring(s) \/ Beat(s) \/ Release(s) \/ Leave(s) \/ Crash(s)
          PROVE  LockInv'
      BY <2>1, LookingKeepsLock, OwnStepKeepsLock, RemoveKeepsLock DEF Acquiring
    <2>2. CASE Tick
      BY <2>2, TickKeepsLock
    <2>3. CASE UNCHANGED vars
      BY <2>3 DEF vars, files, LockInv, HolderOwns, FileOK, StarterOK
    <2>. QED
      BY <2>1, <2>2, <2>3 DEF Next
  <1>3. LockInv => OneServer
    <2>1. Running \subseteq Holding
      BY DEF Holding
    <2>. QED
      BY <2>1 DEF LockInv, HolderOwns, OneServer
  <1>. QED
    BY <1>1, <1>2, <1>3, PTL DEF Spec

-----------------------------------------------------------------------------
(* The launcher (Updates.tla).  A server that takes too long is put back    *)
(* only while there is one, and what runs, or is chosen, was not pruned.    *)
LaunchInv ==
  /\ timer \in BOOLEAN /\ failing \in BOOLEAN /\ paused \in BOOLEAN
  /\ Launch!OneServerStarted
  /\ timer => child # "none"

OnDisk ==
  /\ current \in installed \union {Launch!Image}
  /\ choice \in installed \union {Launch!Image}

(* A server starts only where none is. *)
LEMMA LaunchStep == LaunchInv /\ [Launch!Next]_(Launch!vars) => LaunchInv'
  <1>. SUFFICES ASSUME LaunchInv, [Launch!Next]_(Launch!vars) PROVE LaunchInv'
    OBVIOUS
  <1>0. UNCHANGED <<child, timer, failing, paused>> => LaunchInv'
    BY DEF LaunchInv, Launch!OneServerStarted
  <1>1. ASSUME child' # "none", failing' = FALSE, paused' = FALSE, timer' \in BOOLEAN PROVE LaunchInv'
    BY <1>1 DEF LaunchInv, Launch!OneServerStarted
  <1>2. child # "none" => failing = FALSE /\ paused = FALSE
    BY Zenon DEF LaunchInv, Launch!OneServerStarted
  <1>3. failing => paused = FALSE /\ timer = FALSE
    BY Zenon DEF LaunchInv, Launch!OneServerStarted
  <1>. USE DEF Launch!Start, Launch!Gone, Launch!recordVars, Launch!serverVars, Launch!startVars,
               Launch!launcherVars
  <1>4. ASSUME NEW back, NEW trial, Launch!Start(back, trial), failing' = FALSE, paused' = FALSE
        PROVE  LaunchInv'
    BY <1>1, <1>4
  <1>5. ASSUME child' = "none", timer' = FALSE, failing' \in BOOLEAN, paused' \in BOOLEAN,
               ~(failing' /\ paused')
        PROVE  LaunchInv'
    BY <1>5 DEF LaunchInv, Launch!OneServerStarted
  <1>6. CASE Launch!Stopped \/ Launch!Crash
    <2>1. Launch!Exited /\ failing = FALSE /\ paused = FALSE
      BY <1>2, <1>6 DEF Launch!Stopped, Launch!Crash
    <2>. QED
      BY <2>1, <1>4, <1>5 DEF Launch!Exited, Launch!RollBack
  <1>7. CASE Launch!TimeOut
    <2>1. child # "none" /\ timer
      BY <1>7 DEF Launch!TimeOut, Launch!Due, LaunchInv
    <2>2. failing = FALSE /\ paused = FALSE /\ paused' = paused
      BY <2>1, <1>2, <1>7 DEF Launch!TimeOut
    <2>3. CASE onTrial /\ previous # Launch!None
      BY <2>2, <2>3, <1>5, <1>7 DEF Launch!TimeOut, Launch!RollBack
    <2>4. CASE ~(onTrial /\ previous # Launch!None)
      BY <2>2, <2>4, <1>1, <1>7 DEF Launch!TimeOut
    <2>. QED
      BY <2>3, <2>4
  <1>8. CASE Launch!Ready \/ Launch!Tick \/ Launch!SwitchTo
    <2>1. /\ child # "none" /\ child' # "none" /\ failing' = failing /\ paused' = paused
          /\ timer' \in {FALSE, timer}
      BY <1>8 DEF Launch!Ready, Launch!Tick, Launch!SwitchTo
    <2>2. timer' \in BOOLEAN
      BY <2>1 DEF LaunchInv
    <2>. QED
      BY <2>1, <2>2, <1>1, <1>2
  <1>9. CASE Launch!FailingStops
    BY <1>3, <1>4, <1>9 DEF Launch!FailingStops
  <1>10. CASE Launch!PauseEnds
    <2>1. paused /\ paused' = FALSE /\ failing' = failing /\ Launch!Start(current, FALSE)
      BY <1>10 DEF Launch!PauseEnds
    <2>2. failing = FALSE
      BY <2>1 DEF LaunchInv, Launch!OneServerStarted
    <2>. QED
      BY <2>1, <2>2, <1>4
  <1>11. CASE Launch!ContainerStarts
    BY <1>4, <1>11 DEF Launch!ContainerStarts
  <1>12. CASE Launch!StopAll
    <2>1. CASE child # "none"
      <3>1. child' # "none" /\ failing' = failing /\ paused' = paused /\ timer' = timer
        BY <1>12, <2>1 DEF Launch!StopAll
      <3>2. timer' \in BOOLEAN
        BY <3>1 DEF LaunchInv
      <3>. QED
        BY <3>1, <3>2, <2>1, <1>1, <1>2
    <2>2. CASE child = "none"
      BY <1>5, <1>12, <2>2 DEF Launch!StopAll
    <2>. QED
      BY <2>1, <2>2
  <1>13. CASE UNCHANGED Launch!launcherVars
    BY <1>0, <1>13
  <1>. QED
    BY <1>6, <1>7, <1>8, <1>9, <1>10, <1>11, <1>12, <1>13
       DEF Launch!Next, Launch!vars, Launch!InstallAsked, Launch!AutoUpdate, Launch!Install,
           Launch!Downloaded, Launch!SwitchAsked, Launch!SwitchNow, Launch!RestartAsked,
           Launch!CheckHealthy, Launch!CheckGoesBack

(* The launcher starts no server while another it started still runs, is   *)
(* stopping or is about to be started again (launch.js).                    *)
THEOREM OneChildAtATime ==
  Launch!Init /\ [][Launch!Next]_(Launch!vars) => []Launch!OneServerStarted
  <1>1. Launch!Init => LaunchInv
    BY DEF Launch!Init, LaunchInv, Launch!OneServerStarted
  <1>2. LaunchInv => Launch!OneServerStarted
    BY DEF LaunchInv
  <1>. QED
    BY <1>1, <1>2, LaunchStep, PTL

(* What was chosen and what runs are kept when others are pruned. *)
LEMMA DiskStep == OnDisk /\ [Launch!Next]_(Launch!vars) => OnDisk'
  <1>. SUFFICES ASSUME OnDisk, [Launch!Next]_(Launch!vars) PROVE OnDisk'
    OBVIOUS
  <1>. USE DEF OnDisk
  <1>1. /\ Launch!Active \in installed \union {Launch!Image}
        /\ Launch!ActiveOf(previous, installed) \in installed \union {Launch!Image}
    BY DEF Launch!Active, Launch!ActiveOf
  <1>2. CASE Launch!Stopped \/ Launch!Crash
    <2>1. Launch!Exited /\ installed' = installed
      BY <1>2 DEF Launch!Stopped, Launch!Crash
    <2>. QED
      BY <2>1, <1>1 DEF Launch!Exited, Launch!RollBack, Launch!Start
  <1>3. CASE Launch!TimeOut
    BY <1>1, <1>3 DEF Launch!TimeOut, Launch!RollBack, Launch!Gone, Launch!Start
  <1>4. CASE Launch!FailingStops \/ Launch!PauseEnds \/ Launch!ContainerStarts
    BY <1>1, <1>4 DEF Launch!FailingStops, Launch!PauseEnds, Launch!ContainerStarts, Launch!Start
  <1>5. CASE Launch!Downloaded
    BY <1>5 DEF Launch!Downloaded, Launch!launcherVars, Launch!startVars
  <1>6. CASE Launch!SwitchNow
    <2>1. ASSUME NEW v, Launch!Chosen(v), current' = current PROVE OnDisk'
      BY <2>1 DEF Launch!Chosen, Launch!Pruned
    <2>2. current' = current
      BY <1>6 DEF Launch!SwitchNow, Launch!launcherVars, Launch!startVars
    <2>. QED
      BY <1>6, <2>1, <2>2 DEF Launch!SwitchNow
  <1>7. CASE UNCHANGED <<current, choice, installed>>
    BY <1>7
  <1>. QED
    BY <1>2, <1>3, <1>4, <1>5, <1>6, <1>7
       DEF Launch!Next, Launch!vars, Launch!launcherVars, Launch!startVars, Launch!Ready, Launch!Tick,
           Launch!SwitchTo, Launch!StopAll, Launch!Gone, Launch!InstallAsked, Launch!AutoUpdate,
           Launch!Install, Launch!SwitchAsked, Launch!RestartAsked, Launch!CheckHealthy,
           Launch!CheckGoesBack

(* The version that runs, and the one chosen to run next, are installed or  *)
(* the image's own, however many are pruned and put back (store.js).        *)
THEOREM VersionsAreOnDisk == Launch!Init /\ [][Launch!Next]_(Launch!vars) => []OnDisk
  <1>1. Launch!Init => OnDisk
    BY DEF Launch!Init, OnDisk
  <1>. QED
    BY <1>1, DiskStep, PTL

-----------------------------------------------------------------------------
(* The parts of Serving.tla side by side: each takes only its own steps.    *)
THEOREM ServingPartsAreThemselves ==
  AllSpec => /\ Spec
             /\ Launch!Init /\ [][Launch!Next]_(Launch!vars)
             /\ Full!Init /\ [][Full!Next]_(Full!vars)
  <1>1. AllInit => Init /\ Launch!Init /\ Full!Init
    BY DEF AllInit
  <1>2. UNCHANGED fullVars => UNCHANGED Full!vars
    BY DEF fullVars, Full!vars, Full!engineVars
  <1>3. UNCHANGED versionVars => UNCHANGED Launch!vars
    BY DEF versionVars, Launch!vars, Launch!launcherVars, Launch!startVars, Launch!recordVars, Launch!serverVars
  <1>4. [AllNext]_all => [Next]_vars /\ [Launch!Next]_(Launch!vars) /\ [Full!Next]_(Full!vars)
    BY <1>2, <1>3 DEF AllNext, all
  <1>. QED
    BY <1>1, <1>4, PTL DEF AllSpec, Spec

(* On one state folder there is one server, unless a starter removed the    *)
(* lock of another without having read it, one child of a launcher and one  *)
(* container of the two an update may leave.                                *)
THEOREM OneServesAtATime ==
  ASSUME LockConstants, Full!None \notin Containers
  PROVE  AllSpec => []OneOfEach
  <1>1. Spec => []OneServer
    BY OneServerUnlessRobbed
  <1>2. Full!Init => IInv
    BY InitIInv
  <1>3. IInv /\ [Full!Next]_(Full!vars) => IInv'
    BY StepKeepsIInv
  <1>4. OneServer /\ Launch!OneServerStarted /\ Full!OneContainerRuns => OneOfEach
    BY DEF OneOfEach
  <1>. QED
    BY <1>1, <1>2, <1>3, <1>4, OneRuns, OneChildAtATime, ServingPartsAreThemselves, PTL
===============================================================================
