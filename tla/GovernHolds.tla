----------------------------- MODULE GovernHolds ------------------------------
(***************************************************************************)
(* The restrictions Govern keeps in Checkmarx One: src/src/govern/         *)
(* enforce.js, and the part of src/src/govern/cycle.js that runs it.       *)
(*                                                                         *)
(* A target is one setting of Checkmarx One, of one of three kinds; what   *)
(* is switched on in it is a set of parts (the AI roles of a user, the     *)
(* severities of a project).  Budgets hold references on a target, which   *)
(* is restricted while one does and is then put back as it was.            *)
(*                                                                         *)
(* HoldStore.put() is synchronous and durable, so rec is both the map in   *)
(* memory and holds.jsonl; a crash loses the tasks and nothing else.  An   *)
(* action ends where a task awaits Checkmarx One:                          *)
(*   queued      before the task is started                                *)
(*   looking     drift: the setting being read                             *)
(*   reading     the setting being read before it is restricted            *)
(*   writing     the restriction being written                             *)
(*   checking    the setting being read again                              *)
(*   restoring   what was there before being written back                  *)
(*   rechecking  the roles being read after that                           *)
(* prDisableUnreadable is off.  A call that failed takes no effect later.  *)
(***************************************************************************)

CONSTANTS Targets,
          Budgets,
          UntilReleased,  \* budgets that hold until an administrator releases
          Parts,          \* what can be switched on in a setting
          Inherited,      \* parts a user has otherwise: Govern cannot remove them
          NoPre           \* preState: null

ASSUME HoldsAssumption ==
  /\ UntilReleased \subseteq Budgets
  /\ Inherited \subseteq Parts
  /\ \A parts \in SUBSET Parts : parts # NoPre

Kinds == {"user_roles", "auto_triage", "pr_remediation"}

VARIABLES kind,     \* per target
          setting,  \* Checkmarx One: the parts switched on
          writer,   \* who changed the setting last
          theirs,   \* what people had switched on before Govern's first hold, and
                    \* have not switched off themselves since
          rec,      \* the hold records
          grace,    \* budgets with a grace after an administrator's restore
          run,      \* what the tenant's one run is doing
          again,    \* #again
          task      \* per target: the worker of mapWithConcurrency

vars == <<kind, setting, writer, theirs, rec, grace, run, again, task>>
external == <<setting, writer, theirs>>

(* A setting: Auto Triage is on or off, the others may be on in part. *)
Settings(t) == IF kind[t] = "auto_triage" THEN {{}, Parts} ELSE SUBSET Parts
Removable(t) == IF kind[t] = "user_roles" THEN Parts \ Inherited ELSE Parts

ACTIVE == {"pending", "writing", "applied", "partial", "failed", "skipped"}
Records ==
  [refs : SUBSET Budgets, pre : {NoPre} \cup SUBSET Parts,
   state : ACTIVE \cup {"none", "releasing", "release_failed"}]
NoRecord == [refs |-> {}, pre |-> NoPre, state |-> "none"]
Ops == {"none", "apply", "verify", "release"}
Idle == [pc |-> "idle", op |-> "none", r |-> NoRecord]

TypeOK ==
  /\ kind \in [Targets -> Kinds]
  /\ setting \in [Targets -> SUBSET Parts]
  /\ writer \in [Targets -> {"people", "govern"}]
  /\ theirs \in [Targets -> SUBSET Parts]
  /\ rec \in [Targets -> Records]
  /\ \A t \in Targets :
       /\ rec[t].state = "none" => rec[t] = NoRecord
       /\ rec[t].state \in {"writing", "applied", "partial"} => rec[t].pre # NoPre
  /\ grace \subseteq Budgets
  /\ run \in {"idle", "reading", "enforcing"}
  /\ again \in BOOLEAN
  /\ task \in [Targets ->
       [pc : {"idle", "queued", "looking", "reading", "writing", "checking",
              "restoring", "rechecking"}, op : Ops, r : Records]]

Init ==
  /\ kind \in [Targets -> Kinds]
  /\ setting \in [Targets -> SUBSET Parts]
  /\ \A t \in Targets : setting[t] \in Settings(t)
  /\ writer = [t \in Targets |-> "people"]
  /\ theirs = setting
  /\ rec = [t \in Targets |-> NoRecord]
  /\ grace = {}
  /\ run = "idle"
  /\ again = FALSE
  /\ task = [t \in Targets |-> Idle]

-----------------------------------------------------------------------------
(* What should be held.                                                    *)

(* What an evaluation may want: nothing of a budget it leaves as it is,    *)
(* nor of one with a grace, except what that one holds until released.     *)
MayWant(recs, gr, leave, want) ==
  \A t \in Targets : \A b \in want[t] :
    /\ b \notin leave
    /\ b \in gr => b \in UntilReleased \cap recs[t].refs

(* reconcileRefs(). *)
Reconciled(recs, leave, want) ==
  [t \in Targets |->
    LET refs == want[t] \cup (recs[t].refs \cap leave)
        added == refs \ recs[t].refs # {}
    IN  [recs[t] EXCEPT
          !.refs = refs,
          !.state = IF added /\ @ \notin ACTIVE THEN "pending" ELSE @]]

(* Fault: only what was restricted to the end is put back. *)
FaultWork(r, due) ==
  LET held == r.refs # {}
  IN  CASE held /\ r.state \in {"pending", "writing", "failed"} -> "apply"
        [] ~held /\ r.state \in {"applied", "partial", "failed", "writing"} -> "release"
        [] OTHER -> "none"

(* Fault: a restriction a crash interrupted is taken for done. *)
FaultForgets(r, due) ==
  LET held == r.refs # {}
  IN  CASE held /\ r.state \in {"pending", "failed"} -> "apply"
        [] ~held /\ r.state # "none" -> "release"
        [] OTHER -> "none"

(* What enforce() has to do for a target; `due`: an hour has passed. *)
Work(r, due) ==
  LET held == r.refs # {}
  IN  CASE held /\ r.state \in {"pending", "writing", "failed"} -> "apply"
        [] held /\ r.state = "skipped" /\ due -> "apply"
        [] held /\ r.state \in {"applied", "partial"} /\ due -> "verify"
        [] ~held /\ r.state # "none" -> "release"
        [] OTHER -> "none"

Enforce(recs) ==
  /\ run' = "enforcing"
  /\ \E due \in SUBSET Targets :
       task' = [t \in Targets |->
         LET op == Work(recs[t], t \in due)
         IN  IF op = "none" THEN Idle ELSE [pc |-> "queued", op |-> op, r |-> NoRecord]]

(* kick(): a run of its own, or once more when the present one ends. *)
Kick(recs) ==
  IF run = "idle" THEN Enforce(recs) /\ UNCHANGED again
                  ELSE again' = TRUE /\ UNCHANGED <<run, task>>

(* A request changed what should be held. *)
Changed(leave, want) ==
  /\ MayWant(rec, grace, leave, want)
  /\ rec' = Reconciled(rec, leave, want)
  /\ Kick(rec')
  /\ UNCHANGED <<kind, external, grace>>

(* restore(): an administrator releases every hold on a target. *)
Restore(t, leave, want) ==
  LET recs == [rec EXCEPT ![t].refs = {}]  \* releaseAll()
  IN  /\ rec[t].state # "none"
      /\ grace' = grace \cup rec[t].refs
      /\ MayWant(recs, grace', leave, want)
      /\ rec' = Reconciled(recs, leave, want)
      /\ Kick(rec')
      /\ UNCHANGED <<kind, external>>

GraceEnds(b) ==
  /\ b \in grace
  /\ grace' = grace \ {b}
  /\ UNCHANGED <<kind, external, rec, run, again, task>>

-----------------------------------------------------------------------------
(* The cycle, and the end of a run.                                        *)

CycleStarts ==
  /\ run = "idle"
  /\ run' = "reading"
  /\ UNCHANGED <<kind, external, rec, grace, again, task>>

CycleEvaluates(leave, want) ==
  /\ run = "reading"
  /\ MayWant(rec, grace, leave, want)
  /\ rec' = Reconciled(rec, leave, want)
  /\ Enforce(rec')
  /\ UNCHANGED <<kind, external, grace, again>>

(* Every target was worked on, or the cycle could not read what it needs. *)
RunEnds ==
  /\ run # "idle"
  /\ task = [t \in Targets |-> Idle]
  /\ IF again THEN Enforce(rec) ELSE run' = "idle" /\ UNCHANGED task
  /\ again' = FALSE
  /\ UNCHANGED <<kind, external, rec, grace>>

-----------------------------------------------------------------------------
(* One target.                                                             *)

Put(t, r) == rec' = [rec EXCEPT ![t] = r]
Become(t, state) == task' = [task EXCEPT ![t] = state]
At(t, pc) == task[t].pc = pc /\ UNCHANGED <<kind, grace, run, again>>

SetTo(t, parts) ==
  /\ setting' = [setting EXCEPT ![t] = parts]
  /\ writer' = [writer EXCEPT ![t] = IF parts = setting[t] THEN @ ELSE "govern"]

(* The record is closed: what people switched on meanwhile is theirs.      *)
Closed(t) ==
  /\ Put(t, NoRecord)
  /\ Become(t, Idle)
  /\ theirs' = [theirs EXCEPT ![t] = IF writer'[t] = "people" THEN setting'[t] ELSE @]

(* Nothing to put back. *)
NothingToRestore(t, r) == r.pre = NoPre \/ (r.pre = {} /\ kind[t] # "user_roles")

(* releaseOne(), from the record r, until it awaits Checkmarx One. *)
ReleaseOne(t, r) ==
  LET releasing == [r EXCEPT !.state = "releasing"]
  IN  IF NothingToRestore(t, r)
        THEN UNCHANGED <<setting, writer>> /\ Closed(t)
        ELSE /\ Put(t, releasing)
             /\ Become(t, [pc |-> "restoring", op |-> "release", r |-> releasing])
             /\ UNCHANGED external

Writing(r) == [r EXCEPT !.state = "writing"]

(* The worker looks at the record as it is now; it may have changed since  *)
(* the run listed its work. *)
Begin(t) ==
  /\ At(t, "queued")
  /\ IF (task[t].op = "release") = (rec[t].refs = {})
       THEN CASE task[t].op = "release" -> ReleaseOne(t, rec[t])
              [] task[t].op = "apply" ->
                   /\ Become(t, [pc |-> "reading", op |-> "apply", r |-> Writing(rec[t])])
                   /\ UNCHANGED <<rec, external>>
              [] task[t].op = "verify" ->
                   /\ Become(t, [pc |-> "looking", op |-> "verify", r |-> rec[t]])
                   /\ UNCHANGED <<rec, external>>
       ELSE Become(t, Idle) /\ UNCHANGED <<rec, external>>

(* The run's deadline has passed. *)
Skip(t) == At(t, "queued") /\ Become(t, Idle) /\ UNCHANGED <<rec, external>>

(* An error of Checkmarx One, while the task was not putting back. *)
Fails(t) ==
  /\ Put(t, [rec[t] EXCEPT !.state = IF @ \in {"writing", "pending"} THEN "failed" ELSE @])
  /\ Become(t, Idle)

(* applyTarget() is done, with this result.  A target released by an       *)
(* administrator while it was being written is put back at once.           *)
Applied(t, r, state) ==
  LET done == [refs |-> IF task[t].op = "verify" THEN r.refs ELSE rec[t].refs,
               pre |-> r.pre, state |-> state]
  IN  IF task[t].op = "apply" /\ done.refs = {}
        THEN ReleaseOne(t, done)
        ELSE Put(t, done) /\ Become(t, Idle) /\ UNCHANGED external

(* Drift: has the restriction been undone in Checkmarx One? *)
Look(t) ==
  LET undone == setting[t] # {} /\ (kind[t] = "user_roles" => task[t].r.state = "applied")
  IN  /\ At(t, "looking")
      /\ IF undone
           THEN /\ Become(t, [pc |-> "reading", op |-> "verify", r |-> Writing(task[t].r)])
                /\ UNCHANGED rec
           ELSE Put(t, task[t].r) /\ Become(t, Idle)
      /\ UNCHANGED external

(* Fault: what is there now is taken for what was there before. *)
FaultBefore(t) == [task[t].r EXCEPT !.pre = setting[t] \cap Removable(t)]

(* The record to write ahead: what was there before is read once. *)
Before(t) ==
  [task[t].r EXCEPT !.pre = IF @ = NoPre THEN setting[t] \cap Removable(t) ELSE @]

(* Fault: the record says that it is being written, but not over what. *)
FaultWriteAhead(t, r) == Put(t, [r EXCEPT !.pre = task[t].r.pre])

WriteAhead(t, r) == Put(t, r)

(* The setting is known: it is off already, or is recorded and written.    *)
Read(t) ==
  LET r == Before(t)
  IN  /\ At(t, "reading")
      /\ IF kind[t] # "user_roles" /\ setting[t] = {}
           THEN Put(t, [r EXCEPT !.state = "applied"]) /\ Become(t, Idle)
           ELSE /\ WriteAhead(t, r)
                /\ Become(t, [pc |-> "writing", op |-> task[t].op, r |-> r])
      /\ UNCHANGED external

(* The setting cannot be read.  One of PR remediation is then left on, or, *)
(* when what was there before is known, is written all the same.           *)
ReadFails(t) ==
  /\ At(t, "reading")
  /\ CASE kind[t] # "pr_remediation" -> Fails(t) /\ UNCHANGED external
       [] kind[t] = "pr_remediation" /\ task[t].r.pre = NoPre -> Applied(t, task[t].r, "skipped")
       [] OTHER -> /\ WriteAhead(t, task[t].r)
                   /\ Become(t, [task[t] EXCEPT !.pc = "writing"])
                   /\ UNCHANGED external

LookFails(t) == At(t, "looking") /\ Fails(t) /\ UNCHANGED external

(* The restriction is written: of a user, only the roles recorded. *)
Write(t) ==
  /\ At(t, "writing")
  /\ SetTo(t, IF kind[t] = "user_roles" THEN setting[t] \ task[t].r.pre ELSE {})
  /\ Become(t, [task[t] EXCEPT !.pc = "checking"])
  /\ UNCHANGED <<theirs, rec>>

(* A write fails, before or after it took effect, or one of a user's did. *)
WriteFails(t) ==
  /\ At(t, "writing")
  /\ \E kept \in SUBSET setting[t] :
       /\ kept \in Settings(t)
       /\ kind[t] = "pr_remediation" => kept \in {{}, setting[t]}
       /\ kind[t] = "user_roles" => setting[t] \ task[t].r.pre \subseteq kept
       /\ SetTo(t, kept)
  /\ Fails(t)
  /\ UNCHANGED theirs

(* Fault: the write is taken for its effect. *)
FaultCheck(t) == At(t, "checking") /\ Applied(t, task[t].r, "applied")

(* The setting is read again. *)
Check(t) ==
  /\ At(t, "checking")
  /\ CASE setting[t] = {} -> Applied(t, task[t].r, "applied")
       [] kind[t] = "user_roles" /\ setting[t] # {} -> Applied(t, task[t].r, "partial")
       [] OTHER -> Fails(t) /\ UNCHANGED external

CheckFails(t) ==
  /\ At(t, "checking")
  /\ IF kind[t] = "pr_remediation" THEN Applied(t, task[t].r, "applied")
                                   ELSE Fails(t) /\ UNCHANGED external

(* releaseTarget() writes back what was there before.  A user's roles are  *)
(* read again; otherwise the record is closed.                             *)
PutBack(t) ==
  LET r == task[t].r
  IN  /\ At(t, "restoring")
      /\ SetTo(t, CASE kind[t] = "user_roles" -> setting[t] \cup r.pre
                    [] kind[t] = "auto_triage" -> Parts
                    [] OTHER -> r.pre)
      /\ IF kind[t] = "user_roles"
           THEN Become(t, [task[t] EXCEPT !.pc = "rechecking"]) /\ UNCHANGED <<theirs, rec>>
           ELSE Closed(t)

(* Putting back fails, to be tried again by the next run. *)
ReleaseFailed(t) == Put(t, [task[t].r EXCEPT !.state = "release_failed"]) /\ Become(t, Idle)

PutBackFails(t) ==
  /\ At(t, "restoring")
  /\ \E back \in SUBSET task[t].r.pre :
       /\ kind[t] # "user_roles" => back \in {{}, task[t].r.pre}
       /\ SetTo(t, CASE back = {} -> setting[t]
                     [] kind[t] = "pr_remediation" -> back
                     [] OTHER -> setting[t] \cup back)
  /\ ReleaseFailed(t)
  /\ UNCHANGED theirs

Recheck(t) ==
  /\ At(t, "rechecking")
  /\ UNCHANGED <<setting, writer>>
  /\ IF task[t].r.pre \subseteq setting[t]
       THEN Closed(t)
       ELSE ReleaseFailed(t) /\ UNCHANGED theirs

RecheckFails(t) == At(t, "rechecking") /\ ReleaseFailed(t) /\ UNCHANGED external

Enforcement(t) ==
  \/ Begin(t) \/ Skip(t) \/ Look(t) \/ LookFails(t) \/ Read(t) \/ ReadFails(t)
  \/ Write(t) \/ WriteFails(t) \/ Check(t) \/ CheckFails(t)
  \/ PutBack(t) \/ PutBackFails(t) \/ Recheck(t) \/ RecheckFails(t)

-----------------------------------------------------------------------------
(* Somebody changes the setting in Checkmarx One. *)
People(t) ==
  /\ \E parts \in Settings(t) \ {setting[t]} :
       /\ setting' = [setting EXCEPT ![t] = parts]
       /\ theirs' = [theirs EXCEPT ![t] =
            IF rec[t].pre = NoPre THEN parts ELSE @ \ (setting[t] \ parts)]
  /\ writer' = [writer EXCEPT ![t] = "people"]
  /\ UNCHANGED <<kind, rec, grace, run, again, task>>

(* The server dies, and starts again from holds.jsonl. *)
Restart(leave, want) ==
  /\ MayWant(rec, grace, leave, want)
  /\ rec' = Reconciled(rec, leave, want)
  /\ run' = "idle"
  /\ again' = FALSE
  /\ task' = [t \in Targets |-> Idle]
  /\ UNCHANGED <<kind, external, grace>>

Next ==
  \/ \E leave \in SUBSET Budgets, want \in [Targets -> SUBSET Budgets] :
       \/ Changed(leave, want) \/ CycleEvaluates(leave, want) \/ Restart(leave, want)
       \/ \E t \in Targets : Restore(t, leave, want)
  \/ \E b \in Budgets : GraceEnds(b)
  \/ CycleStarts \/ RunEnds
  \/ \E t \in Targets : Enforcement(t) \/ People(t)

Spec == Init /\ [][Next]_vars

(* The scheduler starts cycles and reads what they need in the end, every  *)
(* call is answered (the client has timeouts), and Checkmarx One does not  *)
(* fail, or a run pass its deadline, every time.                           *)
FairSpec ==
  /\ Spec
  /\ WF_vars(CycleStarts)
  /\ WF_vars(RunEnds)
  /\ SF_vars(\E leave \in SUBSET Budgets, want \in [Targets -> SUBSET Budgets] :
               CycleEvaluates(leave, want))
  /\ \A t \in Targets :
       /\ SF_vars(Begin(t)) /\ SF_vars(Read(t)) /\ SF_vars(Write(t))
       /\ SF_vars(Check(t) /\ rec'[t].state # "failed")
       /\ SF_vars(PutBack(t))
       /\ SF_vars(Recheck(t) /\ rec'[t] = NoRecord)
       /\ WF_vars(Enforcement(t))

-----------------------------------------------------------------------------
(* "A crash in the middle leaves the undo record behind": whatever Govern  *)
(* has switched off in Checkmarx One, and not yet put back, is in the      *)
(* durable record of the target, across failed and half-done writes,       *)
(* restarts, budgets that come and go and drift.                           *)
Undoable ==
  \A t \in Targets :
    theirs[t] \ setting[t] \subseteq (IF rec[t].pre = NoPre THEN {} ELSE rec[t].pre)

(* "Never 'restricted' while an AI role remains": a record says applied    *)
(* only while everything is off, unless people changed it since.           *)
AppliedIsOff ==
  \A t \in Targets : rec[t].state = "applied" => setting[t] = {} \/ writer[t] = "people"

(* "A failed one is tried again next cycle": a target that stays held is   *)
(* restricted in the end, whatever failed or crashed on the way.           *)
HeldIsRestricted ==
  \A t \in Targets :
    rec[t].refs # {} ~> rec[t].refs = {} \/ rec[t].state \in {"applied", "partial", "skipped"}

(* "The last release puts it back": a target that nobody holds any more is *)
(* put back in the end, and its record closed.                             *)
FreedIsPutBack ==
  \A t \in Targets :
    rec[t].refs = {} /\ rec[t].state # "none" ~> rec[t].refs # {} \/ rec[t].state = "none"

(* "Released by an admin while it was being written: put back at once":    *)
(* only an evaluation adds holds, so what an administrator released does   *)
(* not come back by the enforcement that was under way.                    *)
NoHoldComesBack ==
  [][\A t \in Targets : Enforcement(t) => rec'[t].refs \subseteq rec[t].refs]_vars
==============================================================================
