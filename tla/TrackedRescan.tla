---------------------------- MODULE TrackedRescan ----------------------------
(***************************************************************************)
(* Verifying one tracked report with rescans: the rounds, the developers'  *)
(* window (src/src/rescan-window.js) and the verifications of              *)
(* src/src/server.js (startVerification(), advanceVerification(),          *)
(* verificationStep(), rescanByDeveloper() and POST .../next-round).       *)
(*                                                                         *)
(* Several tasks work on the report: the step of every minute, a person's  *)
(* Refresh, developers and administrators who start the rescan, and the    *)
(* analyst who starts the next round.  A task gives way whenever it awaits *)
(* Checkmarx One; pc says what it awaits:                                  *)
(*   polling    the status of the verification's scans                     *)
(*   reading    the findings after the scans                               *)
(*   telling    the developers being told the result                       *)
(*   opening    who the developers are, before their window opens          *)
(*   asking     the server's own connection, for a developer's rescan      *)
(*   starting   the scans being started                                    *)
(*   moving     the findings of the next round                             *)
(* Who is told what, and why a scan waits, is left out.                    *)
(***************************************************************************)
EXTENDS Naturals, Sequences, FiniteSets

CONSTANTS Projects,
          Tasks,       \* what may be under way at once
          MaxRound,    \* bound: rounds of the report
          MaxStarted,  \* bound: verifications started
          MaxWindows   \* bound: windows opened

ASSUME RescanAssumption ==
  {MaxRound, MaxStarted, MaxWindows} \subseteq Nat \ {0}

VARIABLES round,     \* report.round
          closed,    \* report.latest.closure.closed
          window,    \* report.verifyWindow
          late,      \* the window has ended
          verifs,    \* every verification ever started
          current,   \* report.verification: its place in verifs, 0 for null
          task

vars == <<round, closed, window, late, verifs, current, task>>

Terminal == {"Completed", "Failed"}
Statuses == {"waiting", "Running"} \cup Terminal
NoWindow == [open |-> FALSE, nr |-> 0, round |-> 0, started |-> FALSE]
Idle == [pc |-> "idle", verif |-> 0, window |-> 0, turn |-> FALSE,
         changed |-> FALSE,  \* advanceVerification() noted something new
         still |-> FALSE,    \* ... and a project still waits for a scan
         stale |-> {}]       \* history: which of its guards were passed before another
                             \* task noted its rescan, or the next round

Guards == {"turn",  \* this round has no rescan yet (rescanByDeveloper(), windowAction())
           "free"}  \* no verification is running

TypeOK ==
  /\ round \in 1..MaxRound
  /\ closed \in BOOLEAN
  /\ window \in [open : BOOLEAN, nr : 0..MaxWindows, round : 0..round, started : BOOLEAN]
  /\ late \in BOOLEAN
  /\ verifs \in Seq([round : 1..round, turn : BOOLEAN, entry : [Projects -> Statuses],
                     finished : BOOLEAN, result : BOOLEAN,
                     stale : BOOLEAN,      \* history: its turn was guarded too early
                     overtaken : BOOLEAN]) \* history: replaced by one guarded too early
  /\ current \in 0..Len(verifs)
  /\ task \in [Tasks ->
       [pc : {"idle", "polling", "reading", "telling", "opening", "asking", "starting", "moving"},
        verif : 0..Len(verifs), window : 0..MaxWindows, turn : BOOLEAN,
        changed : BOOLEAN, still : BOOLEAN, stale : SUBSET Guards]]

Init ==
  /\ round = 1
  /\ closed = FALSE
  /\ window = NoWindow
  /\ late = FALSE
  /\ verifs = <<>>
  /\ current = 0
  /\ task = [t \in Tasks |-> Idle]

-----------------------------------------------------------------------------
(* currentWindow(), and whether this round is being (or was) verified.     *)
InWindow == window.open /\ window.round = round
RoundVerified == current # 0 /\ verifs[current].round = round
Unfinished == current # 0 /\ ~verifs[current].finished
Scanning(v) == \E p \in Projects : verifs[v].entry[p] = "Running"

(* Fault: the window ends for a developer, not for the rescan on behalf. *)
FaultWindowAction ==
  IF RoundVerified THEN "none"
  ELSE IF ~closed THEN (IF InWindow /\ ~window.started THEN "cancel" ELSE "none")
  ELSE IF ~InWindow THEN "open"
  ELSE "none"

(* windowAction(), with automatic verification switched on. *)
WindowAction ==
  IF RoundVerified THEN "none"
  ELSE IF ~closed THEN (IF InWindow /\ ~window.started THEN "cancel" ELSE "none")
  ELSE IF ~InWindow THEN "open"
  ELSE IF ~window.started /\ late THEN "start" ELSE "none"

Free(t) == task[t] = Idle
Become(t, state) == task' = [task EXCEPT ![t] = state]

(* The first thing startVerification() does. *)
MayStart == ~Unfinished

-----------------------------------------------------------------------------
(* The report is read again: whether its scope is closed follows.          *)
Refresh == closed' \in BOOLEAN /\ UNCHANGED <<round, window, late, verifs, current, task>>

(* The window ends, or its end is moved by PUT .../verify-settings. *)
TimePasses == InWindow /\ late' = ~late /\ UNCHANGED <<round, closed, window, verifs, current, task>>

(* verificationStep(), with a verification to follow first. *)
Follow(t) ==
  /\ Free(t)
  /\ Unfinished
  /\ Become(t, [Idle EXCEPT !.pc = "polling", !.verif = current])
  /\ UNCHANGED <<round, closed, window, late, verifs, current>>

(* The rest of the step: what the window needs now. *)
Step(t) ==
  /\ WindowAction = "open" => window.nr < MaxWindows
  /\ WindowAction = "start" => Len(verifs) < MaxStarted
  /\ window' = [window EXCEPT !.open = @ /\ WindowAction # "cancel"]
  /\ Become(t, CASE WindowAction = "open" -> [Idle EXCEPT !.pc = "opening"]
                 [] WindowAction = "start" /\ MayStart ->
                      [Idle EXCEPT !.pc = "starting", !.window = window.nr, !.turn = TRUE]
                 [] OTHER -> Idle)
  /\ UNCHANGED <<round, closed, late, current>>

StepOnly(t) ==
  /\ Free(t)
  /\ ~Unfinished
  /\ WindowAction # "none"
  /\ Step(t)
  /\ UNCHANGED verifs

(* The status of a scan is read: it ended; or a waiting project was scanned *)
(* from elsewhere.                                                          *)
Note(t, p, status) ==
  LET was == verifs[task[t].verif].entry[p]
  IN  /\ task[t].pc = "polling"
      /\ \/ was = "Running" /\ status \in Terminal
         \/ was = "waiting" /\ status = "Completed"
      /\ verifs' = [verifs EXCEPT ![task[t].verif].entry[p] = status]
      /\ Become(t, [task[t] EXCEPT !.changed = TRUE])
      /\ UNCHANGED <<round, closed, window, late, current>>

(* The verification ends once nothing is scanned, and nothing waits for a  *)
(* scan from elsewhere or that wait has lasted too long.                   *)
FinishedIf(v, over) == [verifs EXCEPT ![v].finished = @ \/ over]

(* All statuses were read.  Something new, nothing left to scan and        *)
(* something verified: the findings are read; otherwise the verification   *)
(* may end.                                                                *)
Poll(t, expired) ==
  LET v == task[t].verif
      Some(status) == \E p \in Projects : verifs[v].entry[p] = status
  IN  /\ task[t].pc = "polling"
      /\ IF task[t].changed /\ ~Some("Running") /\ Some("Completed")
           THEN /\ Become(t, [task[t] EXCEPT !.pc = "reading", !.still = Some("waiting")])
                /\ UNCHANGED <<round, closed, window, late, verifs, current>>
           ELSE /\ verifs' = FinishedIf(v, ~Some("Running") /\ (~Some("waiting") \/ expired))
                /\ Step(t)

(* The findings are read, and what the rescan proved is noted. *)
Conclude(t) ==
  /\ task[t].pc = "reading"
  /\ closed' \in BOOLEAN
  /\ verifs' = [verifs EXCEPT ![task[t].verif].result = TRUE]
  /\ Become(t, [task[t] EXCEPT !.pc = "telling"])
  /\ UNCHANGED <<round, window, late, current>>

Told(t, expired) ==
  /\ task[t].pc = "telling"
  /\ verifs' = FinishedIf(task[t].verif, ~task[t].still \/ expired)
  /\ Step(t)

(* The developers are known: their window opens, and they are told. *)
Opened(t) ==
  /\ task[t].pc = "opening"
  /\ window.nr < MaxWindows
  /\ closed' \in BOOLEAN
  /\ window' = [open |-> TRUE, nr |-> window.nr + 1, round |-> round, started |-> FALSE]
  /\ late' = FALSE
  /\ Become(t, Idle)
  /\ UNCHANGED <<round, verifs, current>>

-----------------------------------------------------------------------------
(* Fault: only whether the window is open is looked at. *)
FaultByDeveloper(t) ==
  /\ Free(t)
  /\ InWindow
  /\ Become(t, [Idle EXCEPT !.pc = "asking", !.window = window.nr, !.turn = TRUE])
  /\ UNCHANGED <<round, closed, window, late, verifs, current>>

(* rescanByDeveloper(): the link is for this round. *)
ByDeveloper(t) ==
  /\ Free(t)
  /\ InWindow
  /\ ~window.started
  /\ ~RoundVerified
  /\ Len(verifs) < MaxStarted
  /\ Become(t, [Idle EXCEPT !.pc = "asking", !.window = window.nr, !.turn = TRUE])
  /\ UNCHANGED <<round, closed, window, late, verifs, current>>

DeveloperStarts(t) ==
  /\ task[t].pc = "asking"
  /\ Become(t, IF MayStart THEN [task[t] EXCEPT !.pc = "starting", !.stale = @ \ {"free"}]
                           ELSE Idle)
  /\ UNCHANGED <<round, closed, window, late, verifs, current>>

(* POST .../verify: an administrator, whatever the window says. *)
ByAdministrator(t) ==
  /\ Free(t)
  /\ MayStart
  /\ Len(verifs) < MaxStarted
  /\ Become(t, [Idle EXCEPT !.pc = "starting"])
  /\ UNCHANGED <<round, closed, window, late, verifs, current>>

(* What the task awaits fails: the task is given up, and nothing is noted. *)
(* A scan's status that cannot be read is only left out.                   *)
Fails(t) ==
  /\ task[t].pc \in {"polling", "reading", "asking", "starting", "moving"}
  /\ ~(task[t].pc = "polling" /\ task[t].changed)
  /\ Become(t, Idle)
  /\ UNCHANGED <<round, closed, window, late, verifs, current>>

(* This task is done.  What the others found before, and still act on, may *)
(* not be so any more.                                                      *)
DoneBefore(t) ==
  task' = [s \in Tasks |->
    IF s = t THEN Idle
    ELSE IF task[s].pc \in {"asking", "starting", "moving"} THEN [task[s] EXCEPT !.stale = Guards]
    ELSE task[s]]

(* The report's verification is another, or none, from now on.             *)
Replaced(t) ==
  [v \in DOMAIN verifs |->
     [verifs[v] EXCEPT !.overtaken = @ \/ (v = current /\ "free" \in task[t].stale)]]

(* The scans were asked for; the projects of `waits` were not started.     *)
(* Only then is the verification the report's, and its window used.        *)
Started(t, waits) ==
  /\ task[t].pc = "starting"
  /\ Len(verifs) < MaxStarted
  /\ verifs' = Append(Replaced(t),
       [round |-> round, turn |-> task[t].turn, finished |-> FALSE, result |-> FALSE,
        stale |-> "turn" \in task[t].stale, overtaken |-> FALSE,
        entry |-> [p \in Projects |-> IF p \in waits THEN "waiting" ELSE "Running"]])
  /\ current' = Len(verifs) + 1
  /\ window' = [window EXCEPT !.started = @ \/ (task[t].window = window.nr /\ window.open)]
  /\ DoneBefore(t)
  /\ UNCHANGED <<round, closed, late>>

(* POST .../next-round. *)
NextRound(t) ==
  /\ Free(t)
  /\ round < MaxRound
  /\ ~(Unfinished /\ Scanning(current))
  /\ Become(t, [Idle EXCEPT !.pc = "moving"])
  /\ UNCHANGED <<round, closed, window, late, verifs, current>>

Moved(t) ==
  /\ task[t].pc = "moving"
  /\ round < MaxRound
  /\ round' = round + 1
  /\ current' = 0
  /\ closed' \in BOOLEAN
  /\ verifs' = Replaced(t)
  /\ DoneBefore(t)
  /\ UNCHANGED <<window, late>>

-----------------------------------------------------------------------------
Noted(t) == \E p \in Projects, status \in Terminal : Note(t, p, status)
Polled(t) == \E expired \in BOOLEAN : Poll(t, expired)
Concluded(t) == \E expired \in BOOLEAN : Told(t, expired)
Launched(t) == \E waits \in SUBSET Projects : Started(t, waits)

(* What the task awaits is answered, one way or the other. *)
Answered(t) ==
  \/ Noted(t) \/ Polled(t) \/ Conclude(t) \/ Concluded(t) \/ Opened(t) \/ DeveloperStarts(t)
  \/ Fails(t) \/ Launched(t) \/ Moved(t)

Next ==
  \/ Refresh \/ TimePasses
  \/ \E t \in Tasks :
       \/ Follow(t) \/ StepOnly(t) \/ Answered(t)
       \/ ByDeveloper(t) \/ ByAdministrator(t) \/ NextRound(t)

Spec == Init /\ [][Next]_vars

(* The report's step is taken every minute, every call is answered in the  *)
(* end (the client has timeouts), and asking for the scans does not fail   *)
(* for ever: each project that cannot be scanned only waits.               *)
FairSpec ==
  /\ Spec
  /\ \A t \in Tasks :
       SF_vars(Follow(t) \/ StepOnly(t)) /\ WF_vars(Answered(t)) /\ SF_vars(Launched(t))

-----------------------------------------------------------------------------
(* "This round is already being rescanned": the developers' turn of a      *)
(* round, taken by one of them or on their behalf, is taken once, unless   *)
(* another rescan (or the next round) was noted between what the later one *)
(* found and what it did.                                                  *)
OneTurnPerRound ==
  \A i, j \in DOMAIN verifs :
    i < j /\ verifs[i].turn /\ verifs[j].turn /\ verifs[i].round = verifs[j].round
      => verifs[j].stale

(* "A verification is already running for this report": one whose scans    *)
(* run has not ended, and is the report's, unless another was put in its   *)
(* place (or the round moved on) that was guarded before it was noted.     *)
ScansAreFollowed ==
  \A i \in DOMAIN verifs :
    Scanning(i) => ~verifs[i].finished /\ (i = current \/ verifs[i].overtaken)

(* A window counts as used only in a round that has its verification: a    *)
(* used window without one would leave the round without a rescan.         *)
UsedWindowIsVerified == InWindow /\ window.started => RoundVerified

(* Together: each round has its verification followed to the end, and     *)
(* its developers one turn, however the steps, the people and the failures *)
(* come between each other; what two rescans asked for at once break is    *)
(* named above, and only that.                                             *)
RoundsKeepTheirRescan == OneTurnPerRound /\ ScansAreFollowed /\ UsedWindowIsVerified

(* "The result comes back to them": a verification that ended with a scan  *)
(* done has its result, read from the findings after that scan.            *)
EndsWithResult ==
  \A i \in DOMAIN verifs :
    verifs[i].finished /\ (\E p \in Projects : verifs[i].entry[p] = "Completed")
      => verifs[i].result

(* When nobody rescans in time, the round is rescanned on the developers'  *)
(* behalf, unless the scope reopens, the window is prolonged or the round  *)
(* moves on.                                                               *)
TurnIsTaken ==
  \A r \in 1..MaxRound :
    (closed /\ late /\ InWindow /\ round = r /\ Len(verifs) < MaxStarted)
      ~> (RoundVerified \/ ~closed \/ ~late \/ round # r)
==============================================================================
