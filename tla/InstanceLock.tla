---------------------------- MODULE InstanceLock -----------------------------
(***************************************************************************)
(* One server per state folder: class InstanceLock of                      *)
(* src/src/instance-lock.js.  A server is one process (its id is drawn     *)
(* when it starts, so a restart is another server).  Each file system call *)
(* is a step, and writing the lock is two: writeFileSync() opens the file, *)
(* which creates or empties it, and then writes.  Servers run side by side *)
(* and meet only in the folder.                                            *)
(*                                                                         *)
(* Time is counted in heartbeats: a lock is stale once its last beat is    *)
(* older than Stale of them, and a starter gives up after Wait.            *)
(***************************************************************************)
EXTENDS Naturals

CONSTANTS Servers,
          Stale,     \* staleMs, in heartbeats: at least 3
          Wait,      \* waitMs, in heartbeats
          Crashes,   \* a server may die without releasing
          NoFile

ASSUME LockAssumption ==
  /\ Stale \in Nat \ {0}
  /\ Wait \in Nat
  /\ Crashes \in BOOLEAN

VARIABLES pc,      \* per server, where acquire(), its timer or release() stands
          waited,  \* per server: how long acquire() has waited
          seen,    \* per server: whose lock acquire() read; NoFile when it read none
          file,    \* the lock file: who opened it last, the age of that beat, and
                   \* whether it is written; NoFile when there is none
          open,    \* who is about to write to the file that is there
          beaten,  \* who has beaten in this interval
          robbed   \* history: a starter removed the lock of a server that runs,
                   \* not having read that lock

vars == <<pc, waited, seen, file, open, beaten, robbed>>
files == <<file, open, beaten, robbed>>

Locks == [id : Servers, age : 0..Stale + 1, written : BOOLEAN]
LockOf(s, written) == [id |-> s, age |-> 0, written |-> written]

Running == {"held", "beat", "leave"}   \* acquire() returned, and release() has not
Holding == Running \cup {"write"}      \* with a lock of its own in the folder

TypeOK ==
  /\ pc \in [Servers -> Holding \cup {"off", "create", "read", "remove", "sleep",
                                      "refused", "stopped", "dead"}]
  /\ waited \in [Servers -> 0..Wait + 1]
  /\ seen \in [Servers -> Servers \cup {NoFile}]
  /\ file \in Locks \cup {NoFile}
  /\ open \in SUBSET Servers /\ beaten \in SUBSET Servers
  /\ robbed \in BOOLEAN

Init ==
  /\ pc = [s \in Servers |-> "off"]
  /\ waited = [s \in Servers |-> 0]
  /\ seen = [s \in Servers |-> NoFile]
  /\ file = NoFile /\ open = {} /\ beaten = {}
  /\ robbed = FALSE

Go(s, from, to) ==
  /\ pc[s] = from
  /\ pc' = [pc EXCEPT ![s] = to]

Start(s) == Go(s, "off", "create") /\ UNCHANGED <<waited, seen, files>>

(* writeFileSync with "wx": only if there is no file, it is there, empty... *)
Create(s) ==
  /\ file = NoFile
  /\ Go(s, "create", "write")
  /\ file' = LockOf(s, FALSE)
  /\ open' = {s}
  /\ UNCHANGED <<waited, seen, beaten, robbed>>

(* EEXIST: somebody's lock is there. *)
Exists(s) == file # NoFile /\ Go(s, "create", "read") /\ UNCHANGED <<waited, seen, files>>

(* ...and then written, if it is still the file that is there. *)
Write(s) ==
  /\ \E from \in {"write", "beat"} : Go(s, from, "held")
  /\ file' = IF s \in open THEN LockOf(s, TRUE) ELSE file
  /\ open' = open \ {s}
  /\ beaten' = beaten \cup {s}
  /\ waited' = [waited EXCEPT ![s] = 0]
  /\ UNCHANGED <<seen, robbed>>

(* #read(): whose lock it is; none when it is missing, or not written yet. *)
Lock == IF file = NoFile THEN NoFile ELSE IF file.written THEN file.id ELSE NoFile

(* Fault: any lock that is not fresh this very beat is taken over. *)
FaultDead == IF Lock = NoFile THEN TRUE ELSE file.age > 0

(* No lock, or one with an old beat, is of a server that died. *)
Dead == IF Lock = NoFile THEN TRUE ELSE file.age > Stale

ReadDead(s) ==
  /\ Dead
  /\ Go(s, "read", "remove")
  /\ seen' = [seen EXCEPT ![s] = Lock]
  /\ UNCHANGED <<waited, files>>

(* Fault: the deadline is never looked at. *)
FaultGiveUp(s) == FALSE /\ UNCHANGED vars

GiveUp(s) ==
  /\ ~Dead
  /\ waited[s] > Wait
  /\ Go(s, "read", "refused")
  /\ waited' = [waited EXCEPT ![s] = 0]
  /\ UNCHANGED <<seen, files>>

ReadLive(s) ==
  /\ ~Dead
  /\ waited[s] <= Wait
  /\ Go(s, "read", "sleep")
  /\ UNCHANGED <<waited, seen, files>>

(* rmSync with force: whatever is there now. *)
Remove(s) ==
  /\ Go(s, "remove", "create")
  /\ file' = NoFile /\ open' = {}
  /\ seen' = [seen EXCEPT ![s] = NoFile]
  /\ robbed' = (robbed \/ (file # NoFile /\ file.id # seen[s] /\ pc[file.id] \in Holding))
  /\ UNCHANGED <<waited, beaten>>

(* The heartbeat of a running server, whoever's lock is in the file: it is *)
(* emptied, or created again.                                              *)
Beat(s) ==
  /\ s \notin beaten
  /\ Go(s, "held", "beat")
  /\ file' = LockOf(s, FALSE)
  /\ open' = open \cup {s}
  /\ UNCHANGED <<waited, seen, beaten, robbed>>

(* Fault: a server that stops leaves its lock to go stale. *)
FaultRelease(s) ==
  Go(s, "held", "stopped") /\ beaten' = beaten \ {s} /\ UNCHANGED <<waited, seen, file, open, robbed>>

(* release(): removed only if it is still ours. *)
Release(s) ==
  /\ Go(s, "held", IF Lock = s THEN "leave" ELSE "stopped")
  /\ beaten' = beaten \ {s}
  /\ UNCHANGED <<waited, seen, file, open, robbed>>

Leave(s) ==
  /\ Go(s, "leave", "stopped")
  /\ file' = NoFile /\ open' = {}
  /\ UNCHANGED <<waited, seen, beaten, robbed>>

(* A process dies, between any two of its calls. *)
Crash(s) ==
  /\ Crashes
  /\ \E from \in Holding : Go(s, from, "dead")
  /\ open' = open \ {s} /\ beaten' = beaten \ {s}
  /\ UNCHANGED <<waited, seen, file, robbed>>

(* One heartbeat interval passes.  A running server has beaten in it, and   *)
(* a starter has looked (it does every second, but a look that finds a live *)
(* lock changes nothing, so one does): no process is suspended.             *)
Tick ==
  /\ \A s \in Servers :
       /\ pc[s] = "held" => s \in beaten
       /\ pc[s] \in {"off", "sleep", "held", "refused", "stopped", "dead"}
  /\ pc' = [s \in Servers |-> IF pc[s] = "sleep" THEN "create" ELSE pc[s]]
  /\ file' = IF file # NoFile /\ file.age <= Stale THEN [file EXCEPT !.age = @ + 1] ELSE file
  /\ waited' = [s \in Servers |->
       IF pc[s] = "sleep" /\ waited[s] <= Wait THEN waited[s] + 1 ELSE waited[s]]
  /\ beaten' = {}
  /\ UNCHANGED <<seen, open, robbed>>

Acquiring(s) ==
  \/ Create(s) \/ Exists(s) \/ Write(s) \/ ReadDead(s) \/ GiveUp(s) \/ ReadLive(s) \/ Remove(s)

Next ==
  \/ \E s \in Servers : \/ Start(s) \/ Acquiring(s) \/ Beat(s)
                        \/ Release(s) \/ Leave(s) \/ Crash(s)
  \/ Tick

Spec == Init /\ [][Next]_vars

(* A process is scheduled, its timers fire and time passes. *)
FairSpec ==
  /\ Spec
  /\ \A s \in Servers : WF_vars(Acquiring(s)) /\ WF_vars(Beat(s)) /\ WF_vars(Leave(s))
  /\ WF_vars(Tick)

-----------------------------------------------------------------------------
(* "One server per state folder": the ledger, the audit chain and the send *)
(* guard all assume it.  It fails only once a starter has removed a lock   *)
(* of a running server that it did not read: the file was empty, being     *)
(* written, or was not the one it had found stale any more.                *)
OneServer ==
  \/ robbed
  \/ \A s, t \in Servers : pc[s] \in Running /\ pc[t] \in Running => s = t

(* A starting server ends up running or refused, and never waits for ever. *)
StarterDecides ==
  \A s \in Servers : pc[s] = "create" ~> pc[s] \in Running \cup {"refused", "stopped", "dead"}
==============================================================================
