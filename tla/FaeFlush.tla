------------------------------- MODULE FaeFlush -------------------------------
(***************************************************************************)
(* FAE Flush (src/src/fae-flush.js): one project of a run, from the copy   *)
(* of its code to the marks in Checkmarx One, the answers of the people it *)
(* asks, and Undo, with whatever people triage meanwhile.                  *)
(*                                                                         *)
(* A finding is a similarity id; one mark is one batch.  How a project's   *)
(* code is copied is one step that succeeds or fails; how many projects    *)
(* are scanned at once, the figures and the history of what it was worth   *)
(* are left out.  The FAE scan runs and ends in Checkmarx One by itself,   *)
(* and the run learns of it when it polls.                                 *)
(***************************************************************************)
EXTENDS Naturals

CONSTANTS Findings,      \* its SAST results, by similarity id
          MaxVerdicts,   \* bound: verdicts people give
          MaxFailures,   \* bound: calls that fail or whose answer is lost
          MaxAgain       \* bound: projects brought back, and answers

Working  == {"copying", "scanning", "comparing", "marking", "revalidating", "cleaning"}
Finished == {"done", "skipped", "undone", "reported"}
Chained  == {"comparing", "marking", "cleaning"}
Codes    == {"copy", "settings", "scan", "limits", "error", "rescan", "revalidation"}

VARIABLES verdict,  \* in Checkmarx One, of each finding
          faeScan,  \* in Checkmarx One, the FAE scan the run goes by, if any
          report,   \* and what its results say so far
          p,        \* the project in the run
          job,      \* the run's state
          option,   \* deleteFae, and mode
          turn,     \* the step under way: its name, and the marks still to post
          undo,     \* an Undo under way, and what it puts back
          used,     \* verdicts given, calls failed, answers given
          ours,     \* history: findings as the run marked them, nobody's since
          lost,     \* history: marked, and not known to the run
          accepted, \* history: a revalidation that did not match was accepted
          early     \* history: an answer went on with a scan that had not completed

vars == <<verdict, faeScan, report, p, job, option, turn, undo, used, ours, lost, accepted, early>>

NoTurn == [pc |-> "no", todo |-> {}]
NoUndo == [pc |-> "no", back |-> {}]
Fresh  == [step |-> "waiting", code |-> "none", skipping |-> FALSE, fae |-> "none",
           ways |-> 2, compared |-> FALSE, pending |-> {}, marked |-> {}]

TypeOK ==
  /\ verdict \in [Findings -> {"toVerify", "marked", "confirmed", "judged"}]
  /\ faeScan \in {"none", "running", "completed", "failed"}
  /\ {report, p.pending, p.marked, turn.todo, undo.back, ours, lost} \subseteq SUBSET Findings
  /\ p.step \in Working \cup Finished \cup {"waiting", "needs-ok"}
  /\ p.code \in Codes \cup {"none"} /\ p.fae \in {"none", "made", "gone"} /\ p.ways \in 0..2
  /\ job \in {"running", "paused", "done"}
  /\ option \in [delete : BOOLEAN, mode : {"mark", "report"}]
  /\ turn.pc \in Working \cup {"no"} /\ undo.pc \in {"no", "reading", "posting"}

Init ==
  /\ verdict = [f \in Findings |-> "toVerify"]
  /\ faeScan = "none" /\ report = {}
  /\ p = Fresh
  /\ job = "running"
  /\ option \in [delete : BOOLEAN, mode : {"mark", "report"}]
  /\ turn = NoTurn /\ undo = NoUndo
  /\ used = [verdicts |-> 0, failures |-> 0, answers |-> 0]
  /\ ours = {} /\ lost = {} /\ accepted = FALSE /\ early = FALSE

May(what, max) == used[what] < max /\ used' = [used EXCEPT ![what] = @ + 1]

scans     == <<faeScan, report>>
checkmarx == <<verdict, scans>>
history   == <<ours, lost, accepted, early>>

-----------------------------------------------------------------------------
(* People triage in Checkmarx One: "confirmed" agrees with a mark, which   *)
(* only proposed it, "judged" does not.                                    *)
Person(f, v) ==
  /\ May("verdicts", MaxVerdicts)
  /\ verdict[f] # v
  /\ verdict' = [verdict EXCEPT ![f] = v]
  /\ ours' = ours \ {f} /\ lost' = lost \ {f}
  /\ UNCHANGED <<scans, p, job, option, turn, undo, accepted, early>>

(* Checkmarx One ends the scan, whatever the run does by then: completed,  *)
(* with what it reports, or failed.                                        *)
ScanEnds(reported) ==
  /\ faeScan = "running"
  /\ faeScan' = "completed" /\ report' = reported
  /\ UNCHANGED <<verdict, p, job, option, turn, undo, used, history>>

ScanBreaks ==
  /\ faeScan = "running"
  /\ May("failures", MaxFailures)
  /\ faeScan' = "failed"
  /\ UNCHANGED <<verdict, report, p, job, option, turn, undo, history>>

(* What the run posts replaces whatever is there by then. *)
Posts(fs, v) == verdict' = [f \in Findings |-> IF f \in fs THEN v ELSE verdict[f]]

-----------------------------------------------------------------------------
(* A turn of the run: the project's next step begins.  A finished run with *)
(* a project put back to work carries on.                                  *)
Todo(q) == IF q.step = "marking" THEN q.pending \ q.marked ELSE {}

Begin ==
  /\ turn.pc = "no"
  /\ job = "running" \/ (job = "done" /\ p.step \notin Finished)
  /\ p.step \in Working \cup {"waiting"}
  /\ p' = [p EXCEPT !.step = IF @ = "waiting" THEN "copying" ELSE @]
  /\ job' = "running"
  /\ turn' = [pc |-> p'.step, todo |-> Todo(p)]
  /\ UNCHANGED <<checkmarx, option, undo, used, history>>

(* advance(): a step over, straight on to one that waits for nothing,      *)
(* unless the run was paused; and a run whose projects are finished is     *)
(* done, paused or not.                                                    *)
Over(q) ==
  /\ p' = q
  /\ IF q.step \in Chained /\ job = "running"
     THEN turn' = [pc |-> q.step, todo |-> Todo(q)] /\ job' = job
     ELSE turn' = NoTurn /\ job' = IF q.step \in Finished THEN "done" ELSE job

Asks(q, code) == Over([q EXCEPT !.step = "needs-ok", !.code = code])

(* Any step may fail, for which the person is asked. *)
StepFails ==
  /\ turn.pc # "no"
  /\ May("failures", MaxFailures)
  /\ Asks(p, "error")
  /\ UNCHANGED <<checkmarx, option, undo, history>>

NoScan == faeScan' = "none" /\ report' = {}

Removed(q) == [q EXCEPT !.fae = "none", !.ways = 2]

Kept == IF p.fae = "gone" THEN Removed(p) ELSE p

(* Steps 1 and 2, copy(): on the _FAE project there is, or a new one, with *)
(* one of the ways left to get the code; or none works, or a setting that  *)
(* matters is refused.                                                     *)
Copied(left) ==
  /\ turn.pc = "copying"
  /\ left \in 1..Kept.ways
  /\ Over([Kept EXCEPT !.fae = "made", !.ways = left, !.step = "scanning"])
  /\ faeScan' = "running" /\ report' = {} /\ early' = FALSE
  /\ UNCHANGED <<verdict, option, undo, used, ours, lost, accepted>>

NotCopied(code) ==
  /\ turn.pc = "copying"
  /\ IF code = "copy" /\ Kept.ways = 0 THEN UNCHANGED used ELSE May("failures", MaxFailures)
  /\ Asks([Kept EXCEPT !.fae = "made", !.ways = IF code = "copy" THEN 0 ELSE @], code)
  /\ IF p.fae = "gone" THEN NoScan ELSE UNCHANGED scans
  /\ UNCHANGED <<verdict, option, undo, history>>

(* Fault: whatever has not failed counts as completed. *)
FaultScanned ==
  /\ turn.pc = "scanning" /\ faeScan # "failed"
  /\ Over([p EXCEPT !.step = "comparing"])
  /\ UNCHANGED <<checkmarx, option, undo, used, history>>

(* poll(): the FAE scan is seen to have completed ... *)
Scanned ==
  /\ turn.pc = "scanning" /\ faeScan = "completed"
  /\ Over([p EXCEPT !.step = "comparing"])
  /\ UNCHANGED <<checkmarx, option, undo, used, history>>

(* ... or to run still: the next turn looks again ... *)
StillRuns ==
  /\ turn.pc = "scanning" /\ faeScan = "running"
  /\ Over(p)
  /\ UNCHANGED <<checkmarx, option, undo, used, history>>

(* ... or it failed, and the next way to get the code is tried; or it was  *)
(* canceled or only partly completed ...                                   *)
NextWay ==
  /\ turn.pc = "scanning" /\ faeScan = "failed" /\ p.ways > 1
  /\ Over([p EXCEPT !.ways = @ - 1, !.step = "waiting"])
  /\ NoScan
  /\ UNCHANGED <<verdict, option, undo, used, history>>

ScanFails(canceled) ==
  /\ turn.pc = "scanning" /\ faeScan = "failed"
  /\ canceled \/ p.ways <= 1
  /\ Asks([p EXCEPT !.ways = IF canceled THEN @ ELSE 0], "scan")
  /\ UNCHANGED <<checkmarx, option, undo, used, history>>

(* ... or it runs for too long, and goes on running. *)
TooLong ==
  /\ turn.pc = "scanning" /\ faeScan = "running"
  /\ May("failures", MaxFailures)
  /\ Asks(p, "scan")
  /\ UNCHANGED <<checkmarx, option, undo, history>>

(* Step 3, compare(): what is To verify and the FAE scan, completed or not, *)
(* does not report.                                                        *)
Unreported == {f \in Findings \ report : verdict[f] = "toVerify"}

Compare(odd) ==
  LET q == [p EXCEPT !.compared = TRUE, !.pending = Unreported]
  IN  /\ turn.pc = "comparing"
      /\ odd => Unreported # {}
      /\ IF odd THEN Asks(q, "limits")
                ELSE Over([q EXCEPT !.step = IF option.mode = "report" THEN "reported" ELSE "marking"])
      /\ UNCHANGED <<checkmarx, option, undo, used, history>>

(* Fault: what was marked is kept when all of it is. *)
FaultTook(f) == [p EXCEPT !.marked = IF turn.todo = {f} THEN p.pending ELSE @]

Took(f) == [p EXCEPT !.marked = @ \cup {f}]

(* Step 4, mark(): a batch is posted, taken, and kept. *)
Mark(f) ==
  /\ turn.pc = "marking" /\ f \in turn.todo
  /\ Posts({f}, "marked")
  /\ ours' = ours \cup {f}
  /\ lost' = IF undo.pc = "no" THEN lost ELSE lost \cup {f}
  /\ p' = Took(f)
  /\ turn' = [turn EXCEPT !.todo = @ \ {f}]
  /\ UNCHANGED <<scans, job, option, undo, used, accepted, early>>

(* It is taken, and the answer to it and to each retry is lost. *)
MarkLost(f) ==
  /\ turn.pc = "marking" /\ f \in turn.todo
  /\ May("failures", MaxFailures)
  /\ Posts({f}, "marked")
  /\ ours' = ours \cup {f} /\ lost' = lost \cup {f}
  /\ Asks(p, "error")
  /\ UNCHANGED <<scans, option, undo, accepted, early>>

(* One Checkmarx One will not take does not hold back the rest. *)
NotTaken(f) ==
  /\ turn.pc = "marking" /\ f \in turn.todo
  /\ May("failures", MaxFailures)
  /\ turn' = [turn EXCEPT !.todo = @ \ {f}]
  /\ UNCHANGED <<checkmarx, p, job, option, undo, history>>

(* None is taken, for want of attack vectors: it has to be scanned again.  *)
NoneTaken ==
  /\ turn.pc = "marking" /\ turn.todo # {} /\ turn.todo = Todo(p)
  /\ May("failures", MaxFailures)
  /\ Asks(p, "rescan")
  /\ UNCHANGED <<checkmarx, option, undo, history>>

Marked ==
  /\ turn.pc = "marking" /\ turn.todo = {}
  /\ Over([p EXCEPT !.step = "revalidating"])
  /\ UNCHANGED <<checkmarx, option, undo, used, history>>

AsMarked == {f \in p.marked : verdict[f] \in {"marked", "confirmed"} /\ f \notin report}

(* Step 5, revalidate(): everything marked is, and is still not reported. *)
Then(q) == [q EXCEPT !.step = IF option.delete THEN "cleaning" ELSE "done"]

Revalidate ==
  /\ turn.pc = "revalidating"
  /\ IF AsMarked = p.marked
     THEN Over(Then([p EXCEPT !.compared = FALSE, !.pending = {}])) /\ accepted' = FALSE
     ELSE Asks(p, "revalidation") /\ UNCHANGED accepted
  /\ early' = (early /\ faeScan # "completed")
  /\ UNCHANGED <<checkmarx, option, undo, used, ours, lost>>

(* Step 6, clean(). *)
Clean ==
  /\ turn.pc = "cleaning"
  /\ Over([p EXCEPT !.fae = IF @ = "none" THEN @ ELSE "gone",
                    !.step = IF p.skipping THEN "skipped" ELSE "done"])
  /\ UNCHANGED <<checkmarx, option, undo, used, history>>

-----------------------------------------------------------------------------
(* decide(): a person's answer to a project that stopped to ask; what it   *)
(* asked is still shown, and not looked at any more.                       *)
Answer(q) ==
  /\ p.step = "needs-ok"
  /\ May("answers", MaxAgain)
  /\ p' = [q EXCEPT !.code = "none"]
  /\ job' = IF job = "done" THEN "running" ELSE job
  /\ early' = (early \/ (q.step \in {"comparing", "marking", "reported"} /\ faeScan # "completed"))
  /\ UNCHANGED <<verdict, option, turn, undo, ours, lost>>

(* "Mark anyway" once compared, "Accept" after a revalidation. *)
MarkAnyway ==
  /\ p.code \notin {"scan", "error", "settings", "rescan"} /\ p.compared
  /\ Answer(IF p.code = "revalidation" THEN Then(p)
            ELSE [p EXCEPT !.step = IF option.mode = "report" THEN "reported" ELSE "marking"])
  /\ accepted' = (accepted \/ p.code = "revalidation")
  /\ UNCHANGED scans

(* Carry on without a setting. *)
Continue ==
  /\ p.code = "settings"
  /\ Answer([p EXCEPT !.step = "waiting"])
  /\ UNCHANGED <<scans, accepted>>

(* It is compared again if there is a scan to compare with, in whatever    *)
(* state that is.                                                          *)
Retry ==
  LET keeps == faeScan # "none" /\ p.fae # "gone" /\ p.code # "rescan"
      q == IF p.fae = "gone" THEN Removed(p)
           ELSE [p EXCEPT !.ways = IF p.code \in {"scan", "copy", "settings"} THEN 2 ELSE @]
  IN  /\ Answer([q EXCEPT !.step = IF keeps /\ p.code \notin {"scan", "settings"} THEN "comparing" ELSE "waiting"])
      /\ IF keeps THEN UNCHANGED scans ELSE NoScan
      /\ UNCHANGED accepted

Skip ==
  /\ Answer([p EXCEPT !.skipping = TRUE,
                      !.step = IF option.delete /\ p.fae # "none" /\ p.code # "scan" THEN "cleaning" ELSE "skipped"])
  /\ UNCHANGED <<scans, accepted>>

(* bringBack(): from its first step; what was marked stays known. *)
BackInLine ==
  [Fresh EXCEPT !.marked = p.marked, !.fae = IF p.fae = "made" THEN "made" ELSE "none"]

BringBack ==
  /\ p.step = "skipped"
  /\ May("answers", MaxAgain)
  /\ p' = BackInLine /\ NoScan
  /\ job' = IF job = "done" THEN "running" ELSE job
  /\ UNCHANGED <<verdict, option, turn, undo, history>>

(* markReported(): a report-only run, marked now, paused or not. *)
MarkReported ==
  /\ p.step = "reported"
  /\ p' = [p EXCEPT !.step = "marking"]
  /\ option' = [option EXCEPT !.mode = "mark"]
  /\ job' = "running"
  /\ UNCHANGED <<checkmarx, turn, undo, used, history>>

SetState(state) ==
  /\ <<job, state>> \in {<<"running", "paused">>, <<"paused", "running">>}
  /\ job' = state
  /\ UNCHANGED <<checkmarx, p, option, turn, undo, used, history>>

(* The run is done once its project is finished. *)
RunDone ==
  /\ turn.pc = "no" /\ job = "running"
  /\ p.step \in Finished
  /\ job' = "done"
  /\ UNCHANGED <<checkmarx, p, option, turn, undo, used, history>>

(* deleteAll(): the _FAE project removed, unless it is at work or a report *)
(* needs it.                                                               *)
DeleteFae ==
  /\ p.fae = "made" /\ p.step \notin Working \cup {"reported"}
  /\ p' = [p EXCEPT !.fae = "gone"]
  /\ UNCHANGED <<checkmarx, job, option, turn, undo, used, history>>

-----------------------------------------------------------------------------
(* undo(): the run pauses, the project's results are read, those still as  *)
(* it left them are put back, and the project is undone, whatever it has   *)
(* come to meanwhile.  One Undo at a time.                                 *)
Undo ==
  /\ undo.pc = "no"
  /\ undo' = [NoUndo EXCEPT !.pc = IF p.marked = {} THEN "no" ELSE "reading"]
  /\ job' = IF p.step \in Working THEN "paused" ELSE job
  /\ UNCHANGED <<checkmarx, p, option, turn, used, history>>

UndoRead ==
  /\ undo.pc = "reading"
  /\ undo' = [pc |-> "posting", back |-> {f \in p.marked : verdict[f] = "marked"}]
  /\ UNCHANGED <<checkmarx, p, job, option, turn, used, history>>

UndoPosts ==
  /\ undo.pc = "posting"
  /\ Posts(undo.back, "toVerify")
  /\ ours' = ours \ undo.back /\ lost' = lost \ undo.back
  /\ p' = [p EXCEPT !.marked = {}, !.step = "undone"]
  /\ undo' = NoUndo
  /\ UNCHANGED <<scans, job, option, turn, used, accepted, early>>

(* It cannot be read, or put back: nothing of it is kept. *)
UndoFails ==
  /\ undo.pc # "no"
  /\ May("failures", MaxFailures)
  /\ undo' = NoUndo
  /\ UNCHANGED <<checkmarx, p, job, option, turn, history>>

(* The server stops and starts again: the run is as it was saved, at each  *)
(* step and each batch.  An Undo's pause is not.                           *)
Restart ==
  /\ turn' = NoTurn /\ undo' = NoUndo
  /\ job' \in IF undo.pc # "no" /\ job = "paused" THEN {job, "running"} ELSE {job}
  /\ UNCHANGED <<checkmarx, p, option, used, history>>

Next ==
  \/ \E f \in Findings :
       \/ \E v \in {"confirmed", "judged"} : Person(f, v)
       \/ Mark(f) \/ MarkLost(f) \/ NotTaken(f)
  \/ \E left \in 1..2 : Copied(left)
  \/ \E code \in {"copy", "settings"} : NotCopied(code)
  \/ \E reported \in SUBSET Findings : ScanEnds(reported)
  \/ \E yes \in BOOLEAN : ScanFails(yes) \/ Compare(yes)
  \/ ScanBreaks \/ Scanned \/ StillRuns \/ NextWay \/ TooLong
  \/ Begin \/ StepFails \/ NoneTaken \/ Marked \/ Revalidate \/ Clean \/ RunDone
  \/ MarkAnyway \/ Continue \/ Retry \/ Skip \/ BringBack \/ MarkReported \/ DeleteFae
  \/ \E state \in {"running", "paused"} : SetState(state)
  \/ Undo \/ UndoRead \/ UndoPosts \/ UndoFails \/ Restart

Spec == Init /\ [][Next]_vars

-----------------------------------------------------------------------------
(* "Each result marked is kept, so Undo can put it back": through retries, *)
(* skips, projects brought back and restarts, what the run marked and      *)
(* nobody changed is known to it.  Known to be lost are marks whose answer *)
(* was, and those posted while an Undo was under way.                      *)
MarksAreKept == ours \subseteq p.marked \cup lost

(* A project is done when everything it has marked, now or before it was   *)
(* brought back, is not reported by its last FAE scan, whose results can   *)
(* change until it has completed, or a person accepted what did not match. *)
(* Left out is what an answer took ahead of the scan: a Retry after a poll *)
(* that failed compares what the scan reports so far, and "Mark anyway"    *)
(* after a new copy that failed marks what an earlier scan left.           *)
DoneIsRevalidated == p.step = "done" => accepted \/ early \/ p.marked \cap report = {}

(* mark(): "only what is still To verify", when the marking begins. *)
OnlyStillToVerify ==
  [][turn.pc # "marking" /\ turn'.pc = "marking" => \A f \in turn'.todo : verdict[f] = "toVerify"]_vars
===============================================================================
