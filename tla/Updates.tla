------------------------------- MODULE Updates -------------------------------
(***************************************************************************)
(* Switching versions: the launcher (launch.js) that keeps one server      *)
(* running and puts a failed version back, the installed versions and the  *)
(* Admin's choice in the data volume (updates/store.js), the update        *)
(* service of the running server (updates/service.js) and the part of its  *)
(* self-check that goes back a version (watchdog.js).                      *)
(*                                                                         *)
(* The launcher's memory dies with the container; what is on disk stays.   *)
(* A version is a number, newer ones larger; the image's own is 0.  Time   *)
(* is the age of the running server, counted up to the later of the two    *)
(* periods the launcher compares it with.                                  *)
(***************************************************************************)
EXTENDS Integers, FiniteSets

CONSTANTS
  Versions,      \* the published versions
  Broken,        \* those of them that never come up
  Faulty,        \* those that come up and break what worked before
  Keep,          \* installed versions kept by prune(): 4 in the code
  StartTimeout,  \* START_TIMEOUT_MS, 150 s: until when a server must be up
  TrialTime,     \* TRIAL_MS, 120 s: how long a crash puts a new version back
  MaxTasks,      \* bound: installations and switches under way at once
  MaxStops       \* bound: crashes of servers and starts of the container

Image == 0
None == -1
Targets == Versions \union {Image}

VARIABLES
  launcher,   \* "running", "stopping" (told to stop) or "exited"
  child,      \* the server it looks after: "none", "starting", "up" or "stopping"
  current,    \* the version started last
  previous,   \* the version before it, to go back to
  onTrial,    \* that server was started as a new version
  inTrial,    \* ... and its trial has not passed
  age,        \* how long it has been running
  timer,      \* readyTimer is set
  switching,  \* it was asked to stop for another version
  failing,    \* a failed server is still stopping, no longer the child
  paused,     \* waiting to start after a crash
  choice,     \* active.json
  installed,  \* app/versions
  rolledBack, \* versions the launcher put back (events.jsonl)
  cameFrom,   \* where each faulty one was last switched to from (events.jsonl)
  healthy,    \* versions that passed a whole self-check (watchdog.json)
  putBack,    \* versions the self-check went back from (watchdog.json)
  job,        \* the installation under way in the running server
  swaps,      \* versions it is backing up for before it switches
  asked,      \* it is about to ask the launcher: "", "switch" or "restart"
  stops

startVars == <<child, current, onTrial, inTrial, age, timer>>
launcherVars == <<startVars, launcher, previous, switching, failing, paused>>
recordVars == <<rolledBack, cameFrom, healthy, putBack>>
serverVars == <<job, swaps, asked>>
vars == <<launcherVars, choice, installed, recordVars, serverVars, stops>>

NoJob == [v |-> None, by |-> "", step |-> ""]
Serving == child \in {"up", "stopping"}

Init ==
  /\ launcher = "running" /\ child = "starting" /\ current = Image
  /\ previous = None /\ onTrial = FALSE /\ inTrial = FALSE /\ age = 0 /\ timer = TRUE
  /\ switching = FALSE /\ failing = FALSE /\ paused = FALSE
  /\ choice = Image /\ installed = {}
  /\ rolledBack = {} /\ cameFrom = [v \in Faulty |-> None]
  /\ healthy = {} /\ putBack = {}
  /\ job = NoJob /\ swaps = {} /\ asked = ""
  /\ stops = 0

-----------------------------------------------------------------------------
(* The launcher. *)

\* What runs under choice c with the versions in s installed.
ActiveOf(c, s) == IF c \in s THEN c ELSE Image
Active == ActiveOf(choice, installed)

\* A server starts; the one before it took its memory along.
Start(v, trial) ==
  /\ child' = "starting" /\ current' = v
  /\ onTrial' = trial /\ inTrial' = trial /\ age' = 0 /\ timer' = TRUE
  /\ job' = NoJob /\ swaps' = {} /\ asked' = ""

\* No server runs for now.
Gone ==
  /\ child' = "none" /\ timer' = FALSE
  /\ job' = NoJob /\ swaps' = {} /\ asked' = ""

\* Fault: rollBack() starts the previous version while the failed one is stopping.
FaultRollBack(alive) ==
  LET back == ActiveOf(previous, installed) IN
  /\ rolledBack' = rolledBack \union {current}
  /\ previous' = None /\ choice' = back
  /\ failing' = alive /\ Start(back, FALSE)
  /\ UNCHANGED switching

\* The version on trial failed: what ran before it is chosen and started, at
\* once or when the failed server has stopped.
RollBack(alive) ==
  LET back == ActiveOf(previous, installed) IN
  /\ rolledBack' = rolledBack \union {current}
  /\ previous' = None
  /\ choice' = back
  /\ IF alive
       THEN /\ Gone /\ failing' = TRUE /\ switching' = FALSE
            /\ inTrial' = FALSE /\ UNCHANGED <<current, onTrial, age>>
       ELSE Start(back, FALSE) /\ UNCHANGED <<failing, switching>>

\* child.on('exit').
Exited ==
  \/ /\ launcher = "stopping"
     /\ launcher' = "exited" /\ Gone
     /\ UNCHANGED <<current, onTrial, inTrial, age, previous, switching, failing, paused, choice, rolledBack>>
  \/ /\ launcher = "running" /\ switching
     /\ switching' = FALSE
     /\ previous' = IF Active # current THEN current ELSE previous
     /\ Start(Active, Active # current)
     /\ UNCHANGED <<launcher, failing, paused, choice, rolledBack>>
  \/ /\ launcher = "running" /\ ~switching /\ inTrial /\ previous # None
     /\ RollBack(FALSE)
     /\ UNCHANGED <<launcher, paused>>
  \/ /\ launcher = "running" /\ ~switching /\ ~(inTrial /\ previous # None)
     /\ paused' = TRUE /\ Gone
     /\ UNCHANGED <<launcher, current, onTrial, inTrial, age, previous, switching, failing, choice, rolledBack>>

\* readyTimer is due: it goes off before anything else that takes time.
Due == timer /\ age = StartTimeout /\ launcher = "running"

\* A server that was told to stop has drained, saved and exited.
Stopped ==
  /\ child = "stopping" /\ Exited
  /\ UNCHANGED <<installed, cameFrom, healthy, putBack, stops>>

Crash ==
  /\ child # "none" /\ ~Due /\ stops < MaxStops /\ stops' = stops + 1
  /\ Exited
  /\ UNCHANGED <<installed, cameFrom, healthy, putBack>>

\* The server says it is ready.
Ready ==
  /\ child = "starting" /\ current \notin Broken
  /\ child' = "up" /\ timer' = FALSE
  /\ UNCHANGED <<current, onTrial, inTrial, age, launcher, previous, switching, failing, paused,
                 choice, installed, recordVars, serverVars, stops>>

\* Fault: a new version that did not come up is stopped and started like any other.
FaultTimeOut ==
  /\ Due
  /\ child' = "stopping" /\ timer' = FALSE /\ inTrial' = FALSE
  /\ UNCHANGED <<current, onTrial, age, previous, switching, failing, choice, rolledBack, serverVars>>
  /\ UNCHANGED <<launcher, paused, installed, cameFrom, healthy, putBack, stops>>

\* readyTimer: it did not come up in time.
TimeOut ==
  /\ Due
  /\ IF onTrial /\ previous # None
       THEN RollBack(TRUE)
       ELSE /\ child' = "stopping" /\ timer' = FALSE
            /\ UNCHANGED <<current, onTrial, inTrial, age, previous, switching, failing, choice, rolledBack, serverVars>>
  /\ UNCHANGED <<launcher, paused, installed, cameFrom, healthy, putBack, stops>>

\* The failed server has stopped (or was killed): what is chosen now starts.
FailingStops ==
  /\ failing /\ failing' = FALSE
  /\ Start(Active, FALSE)
  /\ UNCHANGED <<launcher, previous, switching, paused, choice, installed, recordVars, stops>>

\* The pause after a crash is over.
PauseEnds ==
  /\ paused /\ paused' = FALSE
  /\ Start(current, FALSE)
  /\ UNCHANGED <<launcher, previous, switching, failing, choice, installed, recordVars, stops>>

\* Time passes.
Tick ==
  /\ child # "none" /\ ~Due
  /\ age < (IF StartTimeout > TrialTime THEN StartTimeout ELSE TrialTime)
  /\ age' = age + 1
  /\ inTrial' = (inTrial /\ age' < TrialTime)
  /\ UNCHANGED <<child, current, onTrial, timer, launcher, previous, switching, failing, paused,
                 choice, installed, recordVars, serverVars, stops>>

\* switchTo(): the running server asked for what is chosen now.
SwitchTo ==
  /\ asked # "" /\ child \in {"up", "stopping"} /\ asked' = ""
  /\ IF switching \/ launcher # "running"
       THEN UNCHANGED <<child, switching, cameFrom>>
       ELSE /\ switching' = TRUE /\ child' = "stopping"
            /\ cameFrom' = [v \in Faulty |->
                 IF v = Active /\ v # current /\ asked = "switch" THEN current ELSE cameFrom[v]]
  /\ UNCHANGED <<current, onTrial, inTrial, age, timer, launcher, previous, failing, paused,
                 choice, installed, rolledBack, healthy, putBack, job, swaps, stops>>

\* SIGTERM or SIGINT to the launcher.
StopAll ==
  /\ launcher = "running"
  /\ IF child # "none"
       THEN launcher' = "stopping" /\ child' = "stopping" /\ UNCHANGED <<timer, serverVars, failing, paused>>
       ELSE launcher' = "exited" /\ failing' = FALSE /\ paused' = FALSE /\ Gone
  /\ UNCHANGED <<current, onTrial, inTrial, age, previous, switching, choice, installed, recordVars, stops>>

\* The container is started again, with nothing but the disk.
ContainerStarts ==
  /\ launcher = "exited" /\ stops < MaxStops /\ stops' = stops + 1
  /\ launcher' = "running" /\ previous' = None
  /\ switching' = FALSE /\ failing' = FALSE /\ paused' = FALSE
  /\ Start(Active, FALSE)
  /\ UNCHANGED <<choice, installed, recordVars>>

-----------------------------------------------------------------------------
(* The update service and the self-check of the running server. *)

\* failedVersions() are never installed by themselves.
Candidates == {v \in Versions : v > current /\ v \notin rolledBack}
Newest(S) == {v \in S : \A w \in S : w <= v}

Tasks == Cardinality(swaps) + (IF job = NoJob THEN 0 ELSE 1)

Install(v, by) ==
  /\ child = "up" /\ job = NoJob /\ Tasks < MaxTasks
  /\ job' = [v |-> v, by |-> by, step |-> "download"]
  /\ UNCHANGED <<launcherVars, choice, installed, recordVars, swaps, asked, stops>>

InstallAsked == \E v \in Versions : Install(v, "admin")
AutoUpdate == \E v \in Newest(Candidates) : Install(v, "auto")

\* Downloaded, found genuine and written in place; or refused at any of these.
Downloaded ==
  /\ Serving /\ job.step = "download"
  /\ \/ job' = [job EXCEPT !.step = "backup"] /\ installed' = installed \union {job.v}
     \/ job' = NoJob /\ UNCHANGED installed
  /\ UNCHANGED <<launcherVars, choice, recordVars, swaps, asked, stops>>

\* POST /api/system/update/switch, checked; the backup is under way.
SwitchAsked ==
  /\ child = "up" /\ Tasks < MaxTasks
  /\ \E v \in installed \union {Image} : swaps' = swaps \union {v}
  /\ UNCHANGED <<launcherVars, choice, installed, recordVars, job, asked, stops>>

\* prune(): the newest ones stay, and the one switched to and the running one.
Pruned(v) ==
  {w \in installed : w \in {v, current} \/ Cardinality({u \in installed : u > w}) < Keep}

\* The backup is done: choose, prune, and tell the launcher in a moment.
Chosen(v) ==
  IF v \in installed \union {Image}
    THEN choice' = v /\ installed' = Pruned(v) /\ asked' = "switch"
    ELSE UNCHANGED <<choice, installed, asked>>

SwitchNow ==
  /\ Serving
  /\ \/ \E v \in swaps : Chosen(v) /\ swaps' = swaps \ {v} /\ UNCHANGED job
     \/ job.step = "backup" /\ Chosen(job.v) /\ job' = NoJob /\ UNCHANGED swaps
  /\ UNCHANGED <<launcherVars, recordVars, stops>>

RestartAsked ==
  /\ child = "up" /\ asked = "" /\ asked' = "restart"
  /\ UNCHANGED <<launcherVars, choice, installed, recordVars, job, swaps, stops>>

\* A self-check that finds nothing.
CheckHealthy ==
  /\ child = "up" /\ current \notin Faulty
  /\ healthy' = healthy \union {current}
  /\ UNCHANGED <<launcherVars, choice, installed, rolledBack, cameFrom, putBack, serverVars, stops>>

\* A self-check that blames this version: back to the one it came from, which
\* must be installed (the image's own, named by its number, is not).
CheckGoesBack ==
  /\ child = "up" /\ current \in Faulty
  /\ cameFrom[current] \in healthy /\ current \notin putBack /\ Tasks < MaxTasks
  /\ putBack' = putBack \union {current}
  /\ swaps' = swaps \union ({cameFrom[current]} \intersect installed)
  /\ UNCHANGED <<launcherVars, choice, installed, rolledBack, cameFrom, healthy, job, asked, stops>>

-----------------------------------------------------------------------------
Next ==
  \/ Stopped \/ Crash \/ Ready \/ TimeOut \/ FailingStops \/ PauseEnds \/ Tick
  \/ SwitchTo \/ StopAll \/ ContainerStarts
  \/ InstallAsked \/ AutoUpdate \/ Downloaded \/ SwitchAsked \/ SwitchNow
  \/ RestartAsked \/ CheckHealthy \/ CheckGoesBack

\* A server told to stop does (its shutdown has a deadline, and the launcher
\* kills one it rolled back), timers go off, and time passes.
Fairness == WF_vars(Stopped) /\ WF_vars(TimeOut) /\ WF_vars(FailingStops) /\ WF_vars(PauseEnds) /\ WF_vars(Tick)
Spec == Init /\ [][Next]_vars /\ Fairness

-----------------------------------------------------------------------------
TypeOK ==
  /\ launcher \in {"running", "stopping", "exited"}
  /\ child \in {"none", "starting", "up", "stopping"}
  /\ current \in Targets /\ choice \in Targets
  /\ previous \in Targets \union {None} /\ cameFrom \in [Faulty -> Targets \union {None}]
  /\ {onTrial, inTrial, timer, switching, failing, paused} \subseteq BOOLEAN
  /\ installed \subseteq Versions /\ rolledBack \subseteq Targets
  /\ healthy \subseteq Targets /\ putBack \subseteq Targets /\ swaps \subseteq Targets
  /\ job = NoJob \/ job \in [v : Versions, by : {"admin", "auto"}, step : {"download", "backup"}]
  /\ asked \in {"", "switch", "restart"}

\* The launcher looks after one server at a time: it starts none while another
\* it started still runs, is stopping, or is about to be started again
\* (launch.js: start() from the exit handler, rollBack() and the pause).
OneServerStarted ==
  /\ ~(child # "none" /\ failing)
  /\ ~(child # "none" /\ paused)
  /\ ~(failing /\ paused)

\* A server exited when its trial was over and its start timeout was not.
LeftBetween == paused /\ ~inTrial /\ age < StartTimeout

\* A new version that does not come up is replaced by the one before it
\* (launch.js: "a newly switched-to version that does not come up within
\* START_TIMEOUT, or crashes repeatedly at first, is put back"), unless it
\* exits between the two: it is then started again, no longer on trial.
BrokenIsReplaced ==
  \A v \in Broken : (launcher = "running" /\ current = v /\ onTrial)
                     ~> (launcher = "exited" \/ current # v \/ LeftBetween)

\* "It will not install MZ-... again by itself" (server.js, selfCheck(), in the
\* mail that says the self-check went back a version).
PutBackStaysOut ==
  [][job = NoJob /\ job' # job /\ job'.by = "auto" => job'.v \notin putBack]_vars
=============================================================================
