-------------------------- MODULE GovernHoldsProofs ---------------------------
(***************************************************************************)
(* The holds of Govern, for every set of targets, budgets and parts: what  *)
(* was switched off can always be put back, and a record says applied only *)
(* of what is off.                                                         *)
(*                                                                         *)
(* Neither is inductive: a worker writes back, after an await, a record it *)
(* read before.  IInv adds that it carries what the record has of the      *)
(* setting before, and that the record's state is the worker's own until   *)
(* it is done; reconcileRefs() in between leaves both alone.               *)
(***************************************************************************)
EXTENDS GovernHolds, TLAPS

States == ACTIVE \cup {"none", "releasing", "release_failed"}
PCs == {"idle", "queued", "looking", "reading", "writing", "checking",
        "restoring", "rechecking"}
TaskType == [pc : PCs, op : Ops, r : Records]
Working == {"looking", "reading", "writing", "checking", "restoring", "rechecking"}

Pre(r) == IF r.pre = NoPre THEN {} ELSE r.pre

(* One target: its kind, its setting, who wrote it, what was people's, its *)
(* record and its task.                                                    *)
RecordOK(kd, s, w, th, r) ==
  /\ th \ s \subseteq Pre(r)
  /\ kd # "user_roles" /\ r.pre # NoPre => th \subseteq r.pre
  /\ r.state = "none" => r = NoRecord
  /\ r.state \in {"writing", "applied", "partial"} => r.pre # NoPre
  /\ r.state = "applied" => s = {} \/ w = "people"

TaskOK(kd, s, w, r, k) ==
  /\ k.pc = "queued" => k.op # "none"
  /\ k.pc = "queued" /\ k.op = "verify" => r.state \in {"applied", "partial"}
  /\ k.pc \in Working => k.r.pre = r.pre /\ r.state # "none"
  /\ k.pc = "looking" =>
       /\ k.op = "verify"
       /\ k.r.state \in {"applied", "partial"}
       /\ k.r.pre # NoPre
  /\ k.pc = "reading" => k.op \in {"apply", "verify"} /\ k.r.state = "writing"
  /\ k.pc \in {"writing", "checking"} => k.op \in {"apply", "verify"} /\ r.state = "writing"
  /\ k.pc = "checking" /\ kd # "user_roles" => s = {} \/ w = "people"
  /\ k.pc \in {"restoring", "rechecking"} =>
       /\ r.pre # NoPre
       /\ r.state \in {"releasing", "pending"}

TargetOK(kd, s, w, th, r, k) ==
  /\ kd \in Kinds
  /\ s \in SUBSET Parts
  /\ w \in {"people", "govern"}
  /\ th \in SUBSET Parts
  /\ r \in Records
  /\ k \in TaskType
  /\ RecordOK(kd, s, w, th, r)
  /\ TaskOK(kd, s, w, r, k)

Functions ==
  /\ kind = [t \in Targets |-> kind[t]]
  /\ setting = [t \in Targets |-> setting[t]]
  /\ writer = [t \in Targets |-> writer[t]]
  /\ theirs = [t \in Targets |-> theirs[t]]
  /\ rec = [t \in Targets |-> rec[t]]
  /\ task = [t \in Targets |-> task[t]]

RunType ==
  /\ grace \subseteq Budgets
  /\ run \in {"idle", "reading", "enforcing"}
  /\ again \in BOOLEAN

IInv ==
  /\ Functions
  /\ RunType
  /\ \A t \in Targets : TargetOK(kind[t], setting[t], writer[t], theirs[t], rec[t], task[t])

-----------------------------------------------------------------------------
(* Holds come and go: reconcileRefs() keeps what a record says of the      *)
(* setting, and what the task that is at work relies on.                   *)

(* One record, with other references. *)
LEMMA ReconcileOne ==
  ASSUME NEW kd, NEW s, NEW w, NEW th, NEW r \in Records, NEW refs \in SUBSET Budgets,
         NEW new,
         new = [r EXCEPT !.refs = refs,
                         !.state = IF refs \ r.refs # {} /\ @ \notin ACTIVE
                                     THEN "pending" ELSE @],
         RecordOK(kd, s, w, th, r)
  PROVE  /\ new \in Records
         /\ RecordOK(kd, s, w, th, new)
         /\ \A k : TaskOK(kd, s, w, r, k) => TaskOK(kd, s, w, new, k)
<1>1. /\ r.pre \in {NoPre} \cup SUBSET Parts
      /\ r.state \in ACTIVE \cup {"none", "releasing", "release_failed"}
      /\ r = [refs |-> r.refs, pre |-> r.pre, state |-> r.state]
  BY DEF Records
<1>2. /\ new = [refs |-> refs, pre |-> r.pre,
                state |-> IF refs \ r.refs # {} /\ r.state \notin ACTIVE
                            THEN "pending" ELSE r.state]
      /\ new.refs = refs
      /\ new.pre = r.pre
      /\ new.state = IF refs \ r.refs # {} /\ r.state \notin ACTIVE THEN "pending" ELSE r.state
  BY <1>1
<1>3. new.state \in ACTIVE \cup {"none", "releasing", "release_failed"}
  BY <1>1, <1>2 DEF ACTIVE
<1>4. new \in Records
  BY <1>1, <1>2, <1>3 DEF Records
<1>5. new.state = "none" => new = NoRecord
  <2> SUFFICES ASSUME new.state = "none" PROVE new = NoRecord
    OBVIOUS
  <2>1. r.state = "none" /\ refs \ r.refs = {}
    BY <1>2 DEF ACTIVE
  <2>2. r.refs = {} /\ r.pre = NoPre
    BY <2>1 DEF RecordOK, NoRecord
  <2>3. refs = {}
    BY <2>1, <2>2
  <2> QED BY <1>2, <2>1, <2>2, <2>3 DEF NoRecord
<1>6. RecordOK(kd, s, w, th, new)
  BY <1>2, <1>5 DEF RecordOK, Pre, ACTIVE
<1>7. \A k : TaskOK(kd, s, w, r, k) => TaskOK(kd, s, w, new, k)
  BY <1>1, <1>2 DEF TaskOK, ACTIVE
<1> QED BY <1>4, <1>6, <1>7

(* All of them. *)
LEMMA ReconcileAll ==
  ASSUME NEW leave, NEW want \in [Targets -> SUBSET Budgets], NEW recs,
         UNCHANGED <<kind, external>>,
         rec' = Reconciled(recs, leave, want),
         \A t \in Targets : /\ recs[t] \in Records
                            /\ RecordOK(kind[t], setting[t], writer[t], theirs[t], recs[t])
  PROVE  /\ rec' = [t \in Targets |-> rec'[t]]
         /\ \A t \in Targets :
              /\ rec'[t] \in Records
              /\ RecordOK(kind'[t], setting'[t], writer'[t], theirs'[t], rec'[t])
              /\ \A k : TaskOK(kind[t], setting[t], writer[t], recs[t], k)
                          => TaskOK(kind'[t], setting'[t], writer'[t], rec'[t], k)
<1>1. rec' = [t \in Targets |-> rec'[t]]
  BY DEF Reconciled
<1>2. ASSUME NEW t \in Targets
      PROVE  /\ rec'[t] \in Records
             /\ RecordOK(kind'[t], setting'[t], writer'[t], theirs'[t], rec'[t])
             /\ \A k : TaskOK(kind[t], setting[t], writer[t], recs[t], k)
                         => TaskOK(kind'[t], setting'[t], writer'[t], rec'[t], k)
  <2> DEFINE refs == want[t] \cup (recs[t].refs \cap leave)
  <2>1. refs \in SUBSET Budgets
    BY DEF Records
  <2>2. rec'[t] = [recs[t] EXCEPT !.refs = refs,
                                  !.state = IF refs \ recs[t].refs # {} /\ @ \notin ACTIVE
                                              THEN "pending" ELSE @]
    BY DEF Reconciled
  <2>3. /\ kind'[t] = kind[t] /\ setting'[t] = setting[t]
        /\ writer'[t] = writer[t] /\ theirs'[t] = theirs[t]
    BY DEF external
  <2> HIDE DEF refs
  <2> QED BY ONLY <1>2, <2>1, <2>2, <2>3, ReconcileOne,
          recs[t] \in Records, RecordOK(kind[t], setting[t], writer[t], theirs[t], recs[t])
<1> QED BY <1>1, <1>2

(* A run lists its work. *)
LEMMA EnforceOK ==
  ASSUME Enforce(rec')
  PROVE  /\ run' = "enforcing"
         /\ task' = [t \in Targets |-> task'[t]]
         /\ \A t \in Targets : /\ task'[t] \in TaskType
                               /\ TaskOK(kind'[t], setting'[t], writer'[t], rec'[t], task'[t])
<1>1. PICK due \in SUBSET Targets :
        task' = [t \in Targets |->
          LET op == Work(rec'[t], t \in due)
          IN  IF op = "none" THEN Idle ELSE [pc |-> "queued", op |-> op, r |-> NoRecord]]
  BY DEF Enforce
<1>2. ASSUME NEW t \in Targets
      PROVE  /\ task'[t] \in TaskType
             /\ TaskOK(kind'[t], setting'[t], writer'[t], rec'[t], task'[t])
  <2> DEFINE op == Work(rec'[t], t \in due)
  <2>1. op \in Ops /\ (op = "verify" => rec'[t].state \in {"applied", "partial"})
    BY DEF Work, Ops
  <2>2. task'[t] = IF op = "none" THEN Idle ELSE [pc |-> "queued", op |-> op, r |-> NoRecord]
    BY <1>1
  <2>3. NoRecord \in Records
    BY DEF NoRecord, Records
  <2> HIDE DEF op
  <2>4. /\ task'[t].pc \in {"idle", "queued"} /\ task'[t].op \in {"none", op}
        /\ task'[t] \in TaskType
        /\ task'[t].pc = "queued" => task'[t].op = op /\ op # "none"
    BY <2>1, <2>2, <2>3 DEF Idle, TaskType, PCs, Ops
  <2> QED BY <2>1, <2>4 DEF TaskOK, Working
<1> QED BY <1>1, <1>2 DEF Enforce

-----------------------------------------------------------------------------
(* A task changes its own target only.                                     *)
OnlyAt(t) ==
  /\ UNCHANGED <<kind, grace, run, again>>
  /\ setting' = [u \in Targets |-> IF u = t THEN setting'[t] ELSE setting[u]]
  /\ writer' = [u \in Targets |-> IF u = t THEN writer'[t] ELSE writer[u]]
  /\ theirs' = [u \in Targets |-> IF u = t THEN theirs'[t] ELSE theirs[u]]
  /\ rec' = [u \in Targets |-> IF u = t THEN rec'[t] ELSE rec[u]]
  /\ task' = [u \in Targets |-> IF u = t THEN task'[t] ELSE task[u]]

TargetNow(t) == TargetOK(kind[t], setting[t], writer[t], theirs[t], rec[t], task[t])

(* It suffices to look at that one. *)
LEMMA OneTarget ==
  ASSUME IInv, NEW t \in Targets, OnlyAt(t), TargetNow(t)'
  PROVE  IInv'
<1>1. Functions'
  BY DEF IInv, Functions, OnlyAt
<1>2. RunType'
  BY DEF IInv, RunType, OnlyAt
<1>3. ASSUME NEW u \in Targets
      PROVE  TargetOK(kind[u], setting[u], writer[u], theirs[u], rec[u], task[u])'
  <2>1. CASE u = t
    BY <2>1 DEF TargetNow
  <2>2. CASE u # t
    <3>1. /\ kind'[u] = kind[u] /\ setting'[u] = setting[u] /\ writer'[u] = writer[u]
          /\ theirs'[u] = theirs[u] /\ rec'[u] = rec[u] /\ task'[u] = task[u]
      BY <2>2 DEF OnlyAt
    <3>2. TargetOK(kind[u], setting[u], writer[u], theirs[u], rec[u], task[u])
      BY DEF IInv
    <3> QED BY ONLY <3>1, <3>2
  <2> QED BY <2>1, <2>2
<1> QED BY <1>1, <1>2, <1>3 DEF IInv

(* What Closed(), ReleaseOne() and Applied() leave of a target. *)
LEMMA ClosedOK ==
  ASSUME IInv, NEW t \in Targets, Closed(t), kind' = kind,
         setting'[t] \in SUBSET Parts, writer'[t] \in {"people", "govern"},
         theirs[t] \subseteq setting'[t]
  PROVE  TargetNow(t)'
<1>1. rec'[t] = NoRecord /\ task'[t] = Idle
  BY DEF Closed, Put, Become, IInv, Functions
<1>2. theirs'[t] = IF writer'[t] = "people" THEN setting'[t] ELSE theirs[t]
  BY DEF Closed, IInv, Functions
<1>3. kind[t] \in Kinds /\ theirs[t] \in SUBSET Parts
  BY DEF IInv, TargetOK
<1>4. NoRecord \in Records /\ Idle \in TaskType
  BY DEF NoRecord, Records, Idle, TaskType, PCs, Ops
<1>5. RecordOK(kind[t], setting'[t], writer'[t], theirs'[t], rec'[t])
  BY <1>1, <1>2 DEF RecordOK, Pre, NoRecord
<1>6. TaskOK(kind[t], setting'[t], writer'[t], rec'[t], task'[t])
  BY <1>1 DEF TaskOK, Idle, Working
<1> QED BY <1>1, <1>2, <1>3, <1>4, <1>5, <1>6 DEF TargetNow, TargetOK

(* Putting back begins, if there is anything to put back. *)
LEMMA ReleaseOneOK ==
  ASSUME IInv, NEW t \in Targets, NEW r \in Records, ReleaseOne(t, r), kind' = kind,
         RecordOK(kind[t], setting[t], writer[t], theirs[t], r)
  PROVE  TargetNow(t)' /\ UNCHANGED <<setting, writer>>
<1>1. /\ kind[t] \in Kinds /\ setting[t] \in SUBSET Parts
      /\ writer[t] \in {"people", "govern"} /\ theirs[t] \in SUBSET Parts
  BY DEF IInv, TargetOK
<1>2. CASE NothingToRestore(t, r)
  <2>1. UNCHANGED <<setting, writer>> /\ Closed(t)
    BY <1>2 DEF ReleaseOne
  <2>2. theirs[t] \subseteq setting[t]
    BY <1>2 DEF NothingToRestore, RecordOK, Pre
  <2> QED BY <1>1, <2>1, <2>2, ClosedOK
<1>3. CASE ~NothingToRestore(t, r)
  <2> DEFINE new == [refs |-> r.refs, pre |-> r.pre, state |-> "releasing"]
             doing == [pc |-> "restoring", op |-> "release", r |-> new]
  <2>1. new \in Records /\ new = [r EXCEPT !.state = "releasing"]
    BY DEF Records
  <2>2. doing \in TaskType
    BY <2>1 DEF TaskType, PCs, Ops
  <2>3. /\ UNCHANGED <<setting, writer, theirs>>
        /\ rec'[t] = new /\ task'[t] = doing
    BY <1>3, <2>1 DEF ReleaseOne, Put, Become, IInv, Functions, external
  <2>4. r.pre # NoPre
    BY <1>3 DEF NothingToRestore
  <2>5. RecordOK(kind[t], setting[t], writer[t], theirs[t], new)
    BY DEF RecordOK, Pre
  <2>6. TaskOK(kind[t], setting[t], writer[t], new, doing)
    BY <2>4 DEF TaskOK, Working
  <2> QED BY <1>1, <2>1, <2>2, <2>3, <2>5, <2>6 DEF TargetNow, TargetOK
<1> QED BY <1>2, <1>3

(* The restriction is in place, or left out: a target that nobody holds    *)
(* any more is then put back.                                              *)
LEMMA AppliedOK ==
  ASSUME IInv, NEW t \in Targets, NEW r \in Records, kind' = kind,
         NEW state \in {"applied", "partial", "skipped"}, Applied(t, r, state),
         state = "skipped" \/ r.pre # NoPre,
         state = "applied" => setting[t] = {} \/ writer[t] = "people",
         theirs[t] \ setting[t] \subseteq Pre(r),
         kind[t] # "user_roles" /\ r.pre # NoPre => theirs[t] \subseteq r.pre
  PROVE  TargetNow(t)' /\ UNCHANGED <<setting, writer>>
<1>1. /\ kind[t] \in Kinds /\ setting[t] \in SUBSET Parts
      /\ writer[t] \in {"people", "govern"} /\ theirs[t] \in SUBSET Parts
      /\ rec[t] \in Records
  BY DEF IInv, TargetOK
<1> DEFINE done == [refs |-> IF task[t].op = "verify" THEN r.refs ELSE rec[t].refs,
                    pre |-> r.pre, state |-> state]
<1>2. done \in Records
  BY <1>1 DEF Records, ACTIVE
<1>3. RecordOK(kind[t], setting[t], writer[t], theirs[t], done)
  BY DEF RecordOK, Pre
<1>4. CASE task[t].op = "apply" /\ done.refs = {}
  <2>1. ReleaseOne(t, done)
    BY <1>4 DEF Applied
  <2> HIDE DEF done
  <2> QED BY <1>2, <1>3, <2>1, ReleaseOneOK
<1>5. CASE ~(task[t].op = "apply" /\ done.refs = {})
  <2>1. Put(t, done) /\ Become(t, Idle) /\ UNCHANGED external
    BY <1>5 DEF Applied
  <2> HIDE DEF done
  <2>2. rec'[t] = done /\ task'[t] = Idle /\ UNCHANGED <<setting, writer, theirs>>
    BY <2>1 DEF Put, Become, external, IInv, Functions
  <2>3. Idle \in TaskType /\ TaskOK(kind[t], setting[t], writer[t], done, Idle)
    BY DEF Idle, TaskType, PCs, Ops, NoRecord, Records, TaskOK, Working
  <2> QED BY <1>1, <1>2, <1>3, <2>2, <2>3 DEF TargetNow, TargetOK
<1> QED BY <1>4, <1>5

-----------------------------------------------------------------------------
(* Every step of a task keeps its target as it should be.                  *)
LEMMA EnforcementStep ==
  ASSUME IInv, NEW t \in Targets, Enforcement(t)
  PROVE  IInv'
<1> DEFINE r == task[t].r
<1>1. OnlyAt(t)
  <2> USE DEF IInv, Functions, At, OnlyAt, external, Put, Become, SetTo, Closed, ReleaseOne, Applied, Fails,
              ReleaseFailed, WriteAhead
  <2>1. CASE Begin(t)
    <3>1. /\ task[t].pc = "queued" /\ task[t].op \in {"apply", "verify", "release"}
          /\ UNCHANGED <<kind, grace, run, again>>
      BY <2>1 DEF Begin, TargetOK, TaskOK, TaskType, Ops
    <3>2. CASE task[t].op = "release" /\ rec[t].refs = {}
      BY <2>1, <3>1, <3>2 DEF Begin
    <3>3. CASE ~(task[t].op = "release" /\ rec[t].refs = {})
      BY <2>1, <3>1, <3>3 DEF Begin
    <3> QED BY <3>2, <3>3
  <2>2. CASE Skip(t)
    BY <2>2 DEF Skip
  <2>3. CASE Look(t)
    BY <2>3 DEF Look
  <2>4. CASE LookFails(t)
    BY <2>4 DEF LookFails
  <2>5. CASE Read(t)
    BY <2>5 DEF Read
  <2>6. CASE ReadFails(t)
    BY <2>6 DEF ReadFails
  <2>7. CASE Write(t)
    BY <2>7 DEF Write
  <2>8. CASE WriteFails(t)
    BY <2>8 DEF WriteFails
  <2>9. CASE Check(t)
    BY <2>9 DEF Check
  <2>10. CASE CheckFails(t)
    BY <2>10 DEF CheckFails
  <2>11. CASE PutBack(t)
    BY <2>11 DEF PutBack
  <2>12. CASE PutBackFails(t)
    BY <2>12 DEF PutBackFails
  <2>13. CASE Recheck(t)
    BY <2>13 DEF Recheck
  <2>14. CASE RecheckFails(t)
    BY <2>14 DEF RecheckFails
  <2> QED BY <2>1, <2>2, <2>3, <2>4, <2>5, <2>6, <2>7, <2>8, <2>9, <2>10, <2>11, <2>12,
             <2>13, <2>14 DEF Enforcement
<1>2. /\ kind[t] \in Kinds /\ setting[t] \in SUBSET Parts
      /\ writer[t] \in {"people", "govern"} /\ theirs[t] \in SUBSET Parts
      /\ rec[t] \in Records /\ task[t] \in TaskType /\ r \in Records
      /\ RecordOK(kind[t], setting[t], writer[t], theirs[t], rec[t])
      /\ TaskOK(kind[t], setting[t], writer[t], rec[t], task[t])
      /\ kind' = kind
  BY <1>1 DEF IInv, TargetOK, TaskType, OnlyAt
<1>3. Idle \in TaskType /\ \A kd, s, w, rr : TaskOK(kd, s, w, rr, Idle)
  BY DEF Idle, TaskType, PCs, Ops, NoRecord, Records, TaskOK, Working
<1>e. \A x : /\ Put(t, x) => rec'[t] = x
             /\ Become(t, x) => task'[t] = x
             /\ SetTo(t, x) => /\ setting'[t] = x
                               /\ writer'[t] = IF x = setting[t] THEN writer[t] ELSE "govern"
  BY DEF IInv, Functions, Put, Become, SetTo
<1> HIDE DEF r
<1> SUFFICES TargetNow(t)'
  BY <1>1, OneTarget
<1>4. CASE Begin(t)
  <2> DEFINE old == rec[t]
  <2>1. /\ task[t].pc = "queued" /\ task[t].op \in {"apply", "verify", "release"}
        /\ task[t].op = "verify" => old.state \in {"applied", "partial"} /\ old.pre # NoPre
    BY <1>2, <1>4 DEF Begin, At, TaskOK, TaskType, Ops, RecordOK
  <2>2. old.refs # {} => old.state # "none"
    BY <1>2 DEF RecordOK, NoRecord
  <2>3. CASE task[t].op = "release" /\ old.refs = {}
    <3>1. ReleaseOne(t, rec[t])
      BY <1>4, <2>3 DEF Begin
    <3> QED BY <1>2, <3>1, ReleaseOneOK
  <2>4. CASE task[t].op = "apply" /\ old.refs # {}
    <3> DEFINE new == [old EXCEPT !.state = "writing"]
               doing == [pc |-> "reading", op |-> "apply", r |-> new]
    <3>1. Become(t, doing) /\ UNCHANGED <<rec, external>>
      BY <1>4, <2>4 DEF Begin, Writing
    <3>2. new \in Records /\ new.pre = old.pre /\ new.state = "writing"
      BY <1>2 DEF Records, ACTIVE
    <3> HIDE DEF new
    <3>3. doing \in TaskType /\ TaskOK(kind[t], setting[t], writer[t], old, doing)
      BY <2>2, <2>4, <3>2 DEF TaskType, PCs, Ops, TaskOK, Working
    <3> HIDE DEF doing
    <3>4. task'[t] = doing /\ UNCHANGED <<setting, writer, theirs, rec>>
      BY <1>e, <3>1 DEF external
    <3> QED BY <1>2, <3>3, <3>4 DEF TargetNow, TargetOK
  <2>5. CASE task[t].op = "verify" /\ old.refs # {}
    <3> DEFINE doing == [pc |-> "looking", op |-> "verify", r |-> old]
    <3>1. Become(t, doing) /\ UNCHANGED <<rec, external>>
      BY <1>4, <2>5 DEF Begin
    <3>2. doing \in TaskType /\ TaskOK(kind[t], setting[t], writer[t], old, doing)
      BY <1>2, <2>1, <2>2, <2>5 DEF TaskType, PCs, Ops, TaskOK, Working
    <3> HIDE DEF doing
    <3>3. task'[t] = doing /\ UNCHANGED <<setting, writer, theirs, rec>>
      BY <1>e, <3>1 DEF external
    <3> QED BY <1>2, <3>2, <3>3 DEF TargetNow, TargetOK
  <2>6. CASE (task[t].op = "release") # (old.refs = {})
    <3>1. UNCHANGED <<setting, writer, theirs, rec>> /\ task'[t] = Idle
      BY <1>4, <1>e, <2>6 DEF Begin, external
    <3> QED BY <1>2, <1>3, <3>1 DEF TargetNow, TargetOK
  <2> QED BY <2>1, <2>3, <2>4, <2>5, <2>6
<1>5. CASE Skip(t)
  <2>1. UNCHANGED <<setting, writer, theirs, rec>> /\ task'[t] = Idle
    BY <1>5, <1>e DEF Skip, external
  <2> QED BY <1>2, <1>3, <2>1 DEF TargetNow, TargetOK
<1>6. ASSUME Fails(t), UNCHANGED theirs, 
             task[t].pc \in Working,
             setting'[t] \in SUBSET Parts, writer'[t] \in {"people", "govern"},
             theirs[t] \ setting'[t] \subseteq Pre(rec[t]),
             rec[t].state = "applied" => setting'[t] = {} \/ writer'[t] = "people"
      PROVE  TargetNow(t)'
  <2> DEFINE new == [rec[t] EXCEPT !.state = IF @ \in {"writing", "pending"} THEN "failed" ELSE @]
  <2>1. rec'[t] = new /\ task'[t] = Idle
    BY <1>6, <1>e DEF Fails
  <2>2. /\ new \in Records /\ new.pre = rec[t].pre
        /\ new.state = IF rec[t].state \in {"writing", "pending"} THEN "failed" ELSE rec[t].state
    BY <1>2 DEF Records, ACTIVE
  <2>3. rec[t].state # "none"
    BY <1>2, <1>6 DEF TaskOK
  <2> HIDE DEF new
  <2>4. RecordOK(kind[t], setting'[t], writer'[t], theirs[t], new)
    BY <1>2, <1>6, <2>2, <2>3 DEF RecordOK, Pre
  <2> QED BY <1>2, <1>3, <1>6, <2>1, <2>2, <2>4 DEF TargetNow, TargetOK
<1>7. ASSUME ReleaseFailed(t), UNCHANGED theirs,
             task[t].pc \in Working,
             setting'[t] \in SUBSET Parts, writer'[t] \in {"people", "govern"},
             theirs[t] \ setting'[t] \subseteq Pre(rec[t])
      PROVE  TargetNow(t)'
  <2> DEFINE new == [r EXCEPT !.state = "release_failed"]
  <2>1. rec'[t] = new /\ task'[t] = Idle
    BY <1>7, <1>e DEF ReleaseFailed, r
  <2>2. new \in Records /\ new.pre = r.pre /\ new.state = "release_failed"
    BY <1>2 DEF Records
  <2>3. r.pre = rec[t].pre
    BY <1>2, <1>7 DEF TaskOK, r
  <2> HIDE DEF new
  <2>4. RecordOK(kind[t], setting'[t], writer'[t], theirs[t], new)
    BY <1>2, <1>7, <2>2, <2>3 DEF RecordOK, Pre
  <2> QED BY <1>2, <1>3, <1>7, <2>1, <2>2, <2>4 DEF TargetNow, TargetOK
<1>8. CASE Look(t)
  <2>1. /\ task[t].pc = "looking" /\ task[t].op = "verify" /\ UNCHANGED <<setting, writer, theirs>>
        /\ r.state \in {"applied", "partial"} /\ r.pre = rec[t].pre /\ r.pre # NoPre
        /\ rec[t].state # "none"
    BY <1>2, <1>8 DEF Look, At, TaskOK, Working, external, r
  <2> DEFINE undone == setting[t] # {} /\ (kind[t] = "user_roles" => r.state = "applied")
  <2>2. CASE undone
    <3> DEFINE new == [r EXCEPT !.state = "writing"]
               doing == [pc |-> "reading", op |-> "verify", r |-> new]
    <3>1. new \in Records /\ new.pre = r.pre /\ new.state = "writing"
      BY <1>2 DEF Records, ACTIVE
    <3>2. Become(t, doing) /\ UNCHANGED rec
      BY <1>8, <2>2 DEF Look, Writing, r
    <3> HIDE DEF new
    <3>3. doing \in TaskType /\ TaskOK(kind[t], setting[t], writer[t], rec[t], doing)
      BY <2>1, <3>1 DEF TaskType, PCs, Ops, TaskOK, Working
    <3> HIDE DEF doing
    <3>4. task'[t] = doing
      BY <1>e, <3>2
    <3> QED BY <1>2, <2>1, <3>2, <3>3, <3>4 DEF TargetNow, TargetOK
  <2>3. CASE ~undone
    <3>1. rec'[t] = r /\ task'[t] = Idle
      BY <1>8, <1>e, <2>3 DEF Look, r
    <3>2. RecordOK(kind[t], setting[t], writer[t], theirs[t], r)
      BY <1>2, <2>1, <2>3 DEF RecordOK, Pre
    <3> QED BY <1>2, <1>3, <2>1, <3>1, <3>2 DEF TargetNow, TargetOK
  <2> QED BY <2>2, <2>3
<1>9. CASE LookFails(t)
  <2>1. /\ task[t].pc = "looking" /\ Fails(t) /\ UNCHANGED <<setting, writer, theirs>>
    BY <1>9 DEF LookFails, At, external
  <2> QED BY <1>2, <1>6, <2>1 DEF Working, RecordOK
<1>10. CASE Read(t)
  <2> DEFINE new == Before(t)
  <2>1. /\ task[t].pc = "reading" /\ UNCHANGED <<setting, writer, theirs>>
        /\ task[t].op \in {"apply", "verify"} /\ r.state = "writing" /\ r.pre = rec[t].pre
    BY <1>2, <1>10 DEF Read, At, TaskOK, Working, external, r
  <2>2. /\ new \in Records /\ new.state = "writing"
        /\ new.pre = IF r.pre = NoPre THEN setting[t] \cap Removable(t) ELSE r.pre
    BY <1>2, <2>1 DEF Before, Records, r
  <2>3. new.pre # NoPre
    BY <1>2, <2>2, HoldsAssumption
  <2>4. kind[t] # "user_roles" => Removable(t) = Parts
    BY DEF Removable
  <2> HIDE DEF new
  <2>5. RecordOK(kind[t], setting[t], writer[t], theirs[t], new)
    BY <1>2, <2>1, <2>2, <2>3, <2>4 DEF RecordOK, Pre
  <2>6. CASE kind[t] # "user_roles" /\ setting[t] = {}
    <3> DEFINE done == [new EXCEPT !.state = "applied"]
    <3>1. rec'[t] = done /\ task'[t] = Idle
      BY <1>10, <1>e, <2>6 DEF Read, new
    <3>2. done \in Records /\ done.pre = new.pre /\ done.state = "applied"
      BY <2>2 DEF Records, ACTIVE
    <3> HIDE DEF done
    <3>3. RecordOK(kind[t], setting[t], writer[t], theirs[t], done)
      BY <2>3, <2>5, <2>6, <3>2 DEF RecordOK, Pre
    <3> QED BY <1>2, <1>3, <2>1, <3>1, <3>2, <3>3 DEF TargetNow, TargetOK
  <2>7. CASE ~(kind[t] # "user_roles" /\ setting[t] = {})
    <3> DEFINE doing == [pc |-> "writing", op |-> task[t].op, r |-> new]
    <3>1. rec'[t] = new /\ task'[t] = doing
      BY <1>10, <1>e, <2>7 DEF Read, WriteAhead, new
    <3>2. doing \in TaskType /\ TaskOK(kind[t], setting[t], writer[t], new, doing)
      BY <2>1, <2>2 DEF TaskType, PCs, Ops, TaskOK, Working
    <3> HIDE DEF doing
    <3> QED BY <1>2, <2>1, <2>2, <2>5, <3>1, <3>2 DEF TargetNow, TargetOK
  <2> QED BY <2>6, <2>7
<1>11. CASE ReadFails(t)
  <2>1. /\ task[t].pc = "reading" /\ task[t].op \in {"apply", "verify"}
        /\ r.state = "writing" /\ r.pre = rec[t].pre
        /\ theirs[t] \ setting[t] \subseteq Pre(r)
        /\ kind[t] # "user_roles" /\ r.pre # NoPre => theirs[t] \subseteq r.pre
    BY <1>2, <1>11 DEF ReadFails, At, TaskOK, Working, RecordOK, Pre, r
  <2>2. CASE kind[t] # "pr_remediation"
    <3>1. Fails(t) /\ UNCHANGED <<setting, writer, theirs>>
      BY <1>11, <2>2 DEF ReadFails, external
    <3> QED BY <1>2, <1>6, <2>1, <3>1 DEF Working, RecordOK
  <2>3. CASE kind[t] = "pr_remediation" /\ r.pre = NoPre
    <3>1. Applied(t, r, "skipped")
      BY <1>11, <2>3 DEF ReadFails, r
    <3> QED BY <1>2, <2>1, <2>3, <3>1, AppliedOK
  <2>4. CASE kind[t] = "pr_remediation" /\ r.pre # NoPre
    <3> DEFINE doing == [pc |-> "writing", op |-> task[t].op, r |-> r]
    <3>1. [task[t] EXCEPT !.pc = "writing"] = doing
      BY <1>2 DEF TaskType, r
    <3>2. /\ rec'[t] = r /\ task'[t] = doing
          /\ UNCHANGED <<setting, writer, theirs>>
      BY <1>11, <1>e, <2>4, <3>1 DEF ReadFails, WriteAhead, external, r
    <3>3. doing \in TaskType /\ TaskOK(kind[t], setting[t], writer[t], r, doing)
      BY <1>2, <2>1 DEF TaskType, PCs, Ops, TaskOK, Working
    <3> HIDE DEF doing
    <3>4. RecordOK(kind[t], setting[t], writer[t], theirs[t], r)
      BY <2>1, <2>4 DEF RecordOK
    <3> QED BY <1>2, <3>2, <3>3, <3>4 DEF TargetNow, TargetOK
  <2> QED BY <2>2, <2>3, <2>4
<1>12. CASE Write(t)
  <2> DEFINE off == IF kind[t] = "user_roles" THEN setting[t] \ r.pre ELSE {}
             doing == [pc |-> "checking", op |-> task[t].op, r |-> r]
  <2>1. /\ task[t].pc = "writing" /\ task[t].op \in {"apply", "verify"} /\ rec[t].state = "writing"
        /\ r.pre = rec[t].pre /\ rec[t].pre # NoPre
        /\ theirs[t] \ setting[t] \subseteq r.pre
        /\ kind[t] # "user_roles" => theirs[t] \subseteq r.pre
    BY <1>2, <1>12 DEF Write, At, TaskOK, Working, RecordOK, Pre, r
  <2>2. [task[t] EXCEPT !.pc = "checking"] = doing
    BY <1>2 DEF TaskType, r
  <2>3. /\ task'[t] = doing /\ UNCHANGED <<theirs, rec>>
        /\ setting'[t] = off /\ writer'[t] = IF off = setting[t] THEN writer[t] ELSE "govern"
    BY <1>12, <1>e, <2>2 DEF Write, r
  <2>4. off \in SUBSET Parts /\ writer'[t] \in {"people", "govern"}
    BY <1>2, <2>3
  <2>5. RecordOK(kind[t], off, writer'[t], theirs[t], rec[t])
    BY <1>2, <2>1 DEF RecordOK, Pre
  <2>6. doing \in TaskType /\ TaskOK(kind[t], off, writer'[t], rec[t], doing)
    BY <1>2, <2>1 DEF TaskType, PCs, TaskOK, Working
  <2> HIDE DEF off, doing
  <2> QED BY <1>2, <2>3, <2>4, <2>5, <2>6 DEF TargetNow, TargetOK
<1>13. CASE WriteFails(t)
  <2>1. /\ task[t].pc = "writing" /\ rec[t].state = "writing"
        /\ r.pre = rec[t].pre /\ rec[t].pre # NoPre
        /\ theirs[t] \ setting[t] \subseteq r.pre
        /\ kind[t] # "user_roles" => theirs[t] \subseteq r.pre
    BY <1>2, <1>13 DEF WriteFails, At, TaskOK, Working, RecordOK, Pre, r
  <2>2. PICK kept \in SUBSET setting[t] :
          /\ kind[t] = "user_roles" => setting[t] \ r.pre \subseteq kept
          /\ SetTo(t, kept)
    BY <1>13 DEF WriteFails, r
  <2>3. /\ setting'[t] = kept /\ kept \in SUBSET Parts
        /\ writer'[t] \in {"people", "govern"}
    BY <1>2, <1>e, <2>2
  <2>4. theirs[t] \ kept \subseteq Pre(rec[t])
    BY <1>2, <2>1, <2>2 DEF Pre
  <2>5. Fails(t) /\ UNCHANGED theirs
    BY <1>13 DEF WriteFails
  <2> QED BY <1>6, <2>1, <2>3, <2>4, <2>5 DEF Working
<1>14. CASE Check(t)
  <2>1. /\ task[t].pc = "checking" /\ rec[t].state = "writing"
        /\ r.pre = rec[t].pre /\ r.pre # NoPre
        /\ theirs[t] \ setting[t] \subseteq Pre(r)
        /\ theirs[t] \ setting[t] \subseteq Pre(rec[t])
        /\ kind[t] # "user_roles" => theirs[t] \subseteq r.pre
        /\ kind[t] # "user_roles" => setting[t] = {} \/ writer[t] = "people"
    BY <1>2, <1>14 DEF Check, At, TaskOK, Working, RecordOK, Pre, r
  <2>2. ASSUME Fails(t), UNCHANGED external
        PROVE  TargetNow(t)'
    BY <1>2, <1>6, <2>1, <2>2 DEF Working, external
  <2>3. CASE setting[t] = {}
    BY <1>2, <1>14, <2>1, <2>3, AppliedOK DEF Check, r
  <2>4. CASE kind[t] = "user_roles" /\ setting[t] # {}
    <3>1. Applied(t, r, "partial")
      BY <1>14, <2>4 DEF Check, r
    <3> QED BY <1>2, <2>1, <2>4, <3>1, AppliedOK
  <2>5. CASE kind[t] # "user_roles" /\ setting[t] # {}
    BY <1>14, <2>2, <2>5 DEF Check
  <2> QED BY <2>3, <2>4, <2>5
<1>15. CASE CheckFails(t)
  <2>1. /\ task[t].pc = "checking" /\ rec[t].state = "writing"
        /\ r.pre = rec[t].pre /\ r.pre # NoPre
        /\ theirs[t] \ setting[t] \subseteq Pre(r)
        /\ theirs[t] \ setting[t] \subseteq Pre(rec[t])
        /\ kind[t] # "user_roles" => theirs[t] \subseteq r.pre
        /\ kind[t] # "user_roles" => setting[t] = {} \/ writer[t] = "people"
    BY <1>2, <1>15 DEF CheckFails, At, TaskOK, Working, RecordOK, Pre, r
  <2>2. ASSUME Fails(t), UNCHANGED external
        PROVE  TargetNow(t)'
    BY <1>2, <1>6, <2>1, <2>2 DEF Working, external
  <2>3. CASE kind[t] = "pr_remediation"
    <3>1. Applied(t, r, "applied")
      BY <1>15, <2>3 DEF CheckFails, r
    <3> QED BY <1>2, <2>1, <2>3, <3>1, AppliedOK
  <2>4. CASE kind[t] # "pr_remediation"
    BY <1>15, <2>2, <2>4 DEF CheckFails
  <2> QED BY <2>3, <2>4
<1>16. CASE PutBack(t)
  <2> DEFINE back == CASE kind[t] = "user_roles" -> setting[t] \cup r.pre
                       [] kind[t] = "auto_triage" -> Parts
                       [] OTHER -> r.pre
  <2>1. /\ task[t].pc = "restoring" /\ rec[t].state \in {"releasing", "pending"}
        /\ r.pre = rec[t].pre /\ r.pre # NoPre /\ r.pre \in SUBSET Parts
        /\ theirs[t] \ setting[t] \subseteq r.pre
        /\ kind[t] # "user_roles" => theirs[t] \subseteq r.pre
    BY <1>2, <1>16 DEF PutBack, At, TaskOK, Working, RecordOK, Pre, Records, r
  <2>2. setting'[t] = back /\ writer'[t] \in {"people", "govern"}
    BY <1>2, <1>16, <1>e DEF PutBack, r
  <2>3. back \in SUBSET Parts /\ theirs[t] \subseteq back
    BY <1>2, <2>1
  <2> HIDE DEF back
  <2>4. CASE kind[t] = "user_roles"
    <3> DEFINE doing == [pc |-> "rechecking", op |-> task[t].op, r |-> r]
    <3>1. [task[t] EXCEPT !.pc = "rechecking"] = doing
      BY <1>2 DEF TaskType, r
    <3>2. task'[t] = doing /\ UNCHANGED <<theirs, rec>>
      BY <1>16, <1>e, <2>4, <3>1 DEF PutBack
    <3>3. RecordOK(kind[t], back, writer'[t], theirs[t], rec[t])
      BY <1>2, <2>1, <2>3, <2>4 DEF RecordOK, Pre
    <3>4. doing \in TaskType /\ TaskOK(kind[t], back, writer'[t], rec[t], doing)
      BY <1>2, <2>1 DEF TaskType, PCs, TaskOK, Working
    <3> HIDE DEF doing
    <3> QED BY <1>2, <2>2, <2>3, <3>2, <3>3, <3>4 DEF TargetNow, TargetOK
  <2>5. CASE kind[t] # "user_roles"
    BY <1>2, <1>16, <2>2, <2>3, <2>5, ClosedOK DEF PutBack
  <2> QED BY <2>4, <2>5
<1>17. CASE PutBackFails(t)
  <2>1. /\ task[t].pc = "restoring" /\ r.pre = rec[t].pre /\ r.pre \in SUBSET Parts
        /\ theirs[t] \ setting[t] \subseteq r.pre /\ Pre(rec[t]) = r.pre
        /\ kind[t] # "user_roles" => theirs[t] \subseteq r.pre
    BY <1>2, <1>17 DEF PutBackFails, At, TaskOK, Working, RecordOK, Pre, Records, r
  <2>2. PICK back \in SUBSET r.pre :
          SetTo(t, CASE back = {} -> setting[t]
                     [] kind[t] = "pr_remediation" -> back
                     [] OTHER -> setting[t] \cup back)
    BY <1>17 DEF PutBackFails, r
  <2> DEFINE now == CASE back = {} -> setting[t]
                      [] kind[t] = "pr_remediation" -> back
                      [] OTHER -> setting[t] \cup back
  <2>3. setting'[t] = now /\ writer'[t] \in {"people", "govern"}
    BY <1>2, <1>e, <2>2
  <2>4. now \in SUBSET Parts /\ theirs[t] \ now \subseteq r.pre
    BY <1>2, <2>1
  <2>5. ReleaseFailed(t) /\ UNCHANGED theirs
    BY <1>17 DEF PutBackFails
  <2> HIDE DEF now
  <2> QED BY <1>7, <2>1, <2>3, <2>4, <2>5 DEF Working
<1>18. CASE Recheck(t)
  <2>1. /\ task[t].pc = "rechecking" /\ UNCHANGED <<setting, writer>>
        /\ r.pre = rec[t].pre /\ theirs[t] \ setting[t] \subseteq r.pre
        /\ theirs[t] \ setting[t] \subseteq Pre(rec[t])
    BY <1>2, <1>18 DEF Recheck, At, TaskOK, Working, RecordOK, Pre, Records, r
  <2>2. CASE r.pre \subseteq setting[t]
    <3>1. Closed(t) /\ theirs[t] \subseteq setting[t]
      BY <1>18, <2>1, <2>2 DEF Recheck, r
    <3> QED BY <1>2, <2>1, <3>1, ClosedOK
  <2>3. CASE ~(r.pre \subseteq setting[t])
    <3>1. ReleaseFailed(t) /\ UNCHANGED theirs
      BY <1>18, <2>3 DEF Recheck, r
    <3> QED BY <1>2, <1>7, <2>1, <3>1 DEF Working
  <2> QED BY <2>2, <2>3
<1>19. CASE RecheckFails(t)
  <2>1. /\ task[t].pc = "rechecking" /\ ReleaseFailed(t) /\ UNCHANGED <<setting, writer, theirs>>
    BY <1>19 DEF RecheckFails, At, external
  <2> QED BY <1>2, <1>7, <2>1 DEF Working, RecordOK
<1> QED BY <1>4, <1>5, <1>8, <1>9, <1>10, <1>11, <1>12, <1>13, <1>14, <1>15, <1>16, <1>17,
           <1>18, <1>19 DEF Enforcement

(* Somebody changes a setting. *)
LEMMA PeopleStep ==
  ASSUME IInv, NEW t \in Targets, People(t)
  PROVE  IInv'
<1>1. PICK parts \in Settings(t) \ {setting[t]} :
        /\ setting' = [setting EXCEPT ![t] = parts]
        /\ theirs' = [theirs EXCEPT ![t] =
             IF rec[t].pre = NoPre THEN parts ELSE @ \ (setting[t] \ parts)]
  BY DEF People
<1>2. writer' = [writer EXCEPT ![t] = "people"] /\ UNCHANGED <<kind, rec, grace, run, again, task>>
  BY DEF People
<1>3. OnlyAt(t)
  BY <1>1, <1>2 DEF OnlyAt, IInv, Functions
<1>4. /\ setting'[t] = parts /\ writer'[t] = "people" /\ rec'[t] = rec[t] /\ task'[t] = task[t]
      /\ theirs'[t] = IF rec[t].pre = NoPre THEN parts ELSE theirs[t] \ (setting[t] \ parts)
  BY <1>1, <1>2 DEF IInv, Functions
<1>5. TargetNow(t)
  BY DEF IInv, TargetNow
<1>6. parts \in SUBSET Parts
  BY DEF Settings
<1>7. RecordOK(kind[t], parts, "people", theirs'[t], rec[t])
  BY <1>4, <1>5 DEF TargetNow, TargetOK, RecordOK, Pre
<1>8. TaskOK(kind[t], parts, "people", rec[t], task[t])
  BY <1>5 DEF TargetNow, TargetOK, TaskOK
<1>9. TargetNow(t)'
  BY <1>2, <1>4, <1>5, <1>6, <1>7, <1>8 DEF TargetNow, TargetOK
<1> QED BY <1>3, <1>9, OneTarget

(* Holds come and go while a task may be at work, or the server restarts,  *)
(* or a run begins.                                                        *)
LEMMA HoldsStep ==
  ASSUME IInv, NEW leave \in SUBSET Budgets, NEW want \in [Targets -> SUBSET Budgets],
         NEW recs, UNCHANGED <<kind, external>>, rec' = Reconciled(recs, leave, want),
         \A t \in Targets :
           /\ recs[t] \in Records
           /\ RecordOK(kind[t], setting[t], writer[t], theirs[t], recs[t])
           /\ TaskOK(kind[t], setting[t], writer[t], recs[t], task[t]),
         RunType',
         \/ UNCHANGED task
         \/ Enforce(rec')
         \/ task' = [t \in Targets |-> Idle]
  PROVE  IInv'
<1>1. /\ rec' = [t \in Targets |-> rec'[t]]
      /\ \A t \in Targets :
           /\ rec'[t] \in Records
           /\ RecordOK(kind'[t], setting'[t], writer'[t], theirs'[t], rec'[t])
           /\ TaskOK(kind'[t], setting'[t], writer'[t], rec'[t], task[t])
  BY ReconcileAll
<1>2. /\ task' = [t \in Targets |-> task'[t]]
      /\ \A t \in Targets : /\ task'[t] \in TaskType
                            /\ TaskOK(kind'[t], setting'[t], writer'[t], rec'[t], task'[t])
  <2>1. CASE UNCHANGED task
    BY <1>1, <2>1 DEF IInv, Functions, TargetOK
  <2>2. CASE Enforce(rec')
    BY <2>2, EnforceOK
  <2>3. CASE task' = [t \in Targets |-> Idle]
    <3>1. Idle \in TaskType /\ \A kd, s, w, r : TaskOK(kd, s, w, r, Idle)
      BY DEF Idle, TaskType, PCs, Ops, NoRecord, Records, TaskOK, Working
    <3> QED BY <2>3, <3>1
  <2> QED BY <2>1, <2>2, <2>3
<1>3. Functions'
  BY <1>1, <1>2 DEF IInv, Functions, external
<1>4. ASSUME NEW t \in Targets
      PROVE  TargetOK(kind[t], setting[t], writer[t], theirs[t], rec[t], task[t])'
  <2>1. /\ kind'[t] = kind[t] /\ setting'[t] = setting[t]
        /\ writer'[t] = writer[t] /\ theirs'[t] = theirs[t]
    BY DEF external
  <2>2. /\ kind[t] \in Kinds /\ setting[t] \in SUBSET Parts
        /\ writer[t] \in {"people", "govern"} /\ theirs[t] \in SUBSET Parts
    BY DEF IInv, TargetOK
  <2> QED BY <1>1, <1>2, <2>1, <2>2 DEF TargetOK
<1> QED BY <1>3, <1>4 DEF IInv

-----------------------------------------------------------------------------
(* At first nothing is held, and nothing done. *)
LEMMA InitOK == Init => IInv
<1> SUFFICES ASSUME Init PROVE IInv
  OBVIOUS
<1>1. Functions /\ RunType
  BY DEF Init, Functions, RunType
<1>2. ASSUME NEW t \in Targets
      PROVE  TargetOK(kind[t], setting[t], writer[t], theirs[t], rec[t], task[t])
  <2>1. /\ kind[t] \in Kinds /\ setting[t] \in SUBSET Parts /\ theirs[t] = setting[t]
        /\ writer[t] = "people" /\ rec[t] = NoRecord /\ task[t] = Idle
    BY DEF Init
  <2>2. NoRecord \in Records /\ Idle \in TaskType
    BY DEF NoRecord, Records, Idle, TaskType, PCs, Ops
  <2>3. RecordOK(kind[t], setting[t], writer[t], theirs[t], NoRecord)
    BY <2>1 DEF RecordOK, NoRecord, Pre
  <2>4. TaskOK(kind[t], setting[t], writer[t], NoRecord, Idle)
    BY DEF TaskOK, Idle, Working
  <2> QED BY <2>1, <2>2, <2>3, <2>4 DEF TargetOK
<1> QED BY <1>1, <1>2 DEF IInv

(* A request, a restore or the end of a run makes the run go on, or not. *)
LEMMA KickOK ==
  ASSUME RunType, Kick(rec'), grace' \subseteq Budgets
  PROVE  RunType' /\ (UNCHANGED task \/ Enforce(rec'))
BY DEF RunType, Kick, Enforce

(* Every step of the system. *)
LEMMA Step == IInv /\ [Next]_vars => IInv'
<1> SUFFICES ASSUME IInv, [Next]_vars PROVE IInv'
  OBVIOUS
<1>1. RunType /\ \A t \in Targets : /\ rec[t] \in Records
                                    /\ RecordOK(kind[t], setting[t], writer[t], theirs[t], rec[t])
                                    /\ TaskOK(kind[t], setting[t], writer[t], rec[t], task[t])
  BY DEF IInv, TargetOK
<1>2. ASSUME NEW leave \in SUBSET Budgets, NEW want \in [Targets -> SUBSET Budgets],
             Changed(leave, want)
      PROVE  IInv'
  <2>1. /\ UNCHANGED <<kind, external, grace>> /\ rec' = Reconciled(rec, leave, want)
        /\ Kick(rec')
    BY <1>2 DEF Changed
  <2>2. RunType' /\ (UNCHANGED task \/ Enforce(rec'))
    BY <1>1, <2>1, KickOK DEF RunType
  <2> QED BY <1>1, <2>1, <2>2, HoldsStep
<1>3. ASSUME NEW leave \in SUBSET Budgets, NEW want \in [Targets -> SUBSET Budgets],
             CycleEvaluates(leave, want)
      PROVE  IInv'
  <2>1. /\ UNCHANGED <<kind, external, grace, again>> /\ rec' = Reconciled(rec, leave, want)
        /\ Enforce(rec') /\ RunType'
    BY <1>1, <1>3 DEF CycleEvaluates, RunType, Enforce
  <2> QED BY <1>1, <2>1, HoldsStep
<1>4. ASSUME NEW leave \in SUBSET Budgets, NEW want \in [Targets -> SUBSET Budgets],
             Restart(leave, want)
      PROVE  IInv'
  <2>1. /\ UNCHANGED <<kind, external, grace>> /\ rec' = Reconciled(rec, leave, want)
        /\ task' = [t \in Targets |-> Idle] /\ RunType'
    BY <1>1, <1>4 DEF Restart, RunType
  <2> QED BY <1>1, <2>1, HoldsStep
<1>5. ASSUME NEW leave \in SUBSET Budgets, NEW want \in [Targets -> SUBSET Budgets],
             NEW u \in Targets, Restore(u, leave, want)
      PROVE  IInv'
  <2> DEFINE recs == [rec EXCEPT ![u].refs = {}]
  <2>1. /\ UNCHANGED <<kind, external>> /\ rec' = Reconciled(recs, leave, want)
        /\ rec[u].state # "none" /\ grace' = grace \cup rec[u].refs /\ Kick(rec')
    BY <1>5 DEF Restore
  <2>2. grace' \subseteq Budgets
    BY <1>1, <2>1 DEF RunType, Records
  <2>3. RunType' /\ (UNCHANGED task \/ Enforce(rec'))
    BY <1>1, <2>1, <2>2, KickOK
  <2>4. ASSUME NEW t \in Targets
        PROVE  /\ recs[t] \in Records
               /\ RecordOK(kind[t], setting[t], writer[t], theirs[t], recs[t])
               /\ TaskOK(kind[t], setting[t], writer[t], recs[t], task[t])
    <3>1. /\ recs[t] \in Records /\ recs[t].pre = rec[t].pre /\ recs[t].state = rec[t].state
          /\ t # u => recs[t] = rec[t]
      BY <1>1 DEF IInv, Functions, Records
    <3> HIDE DEF recs
    <3>2. recs[t].state = "none" => recs[t] = NoRecord
      BY <1>1, <2>1, <3>1 DEF RecordOK
    <3> QED BY <1>1, <3>1, <3>2 DEF RecordOK, TaskOK, Pre
  <2> HIDE DEF recs
  <2> QED BY <2>1, <2>3, <2>4, HoldsStep
<1>6. ASSUME NEW b \in Budgets, GraceEnds(b)
      PROVE  IInv'
  BY <1>6 DEF GraceEnds, IInv, Functions, RunType, external
<1>7. CASE CycleStarts
  BY <1>7 DEF CycleStarts, IInv, Functions, RunType, external
<1>8. CASE RunEnds
  <2>1. /\ UNCHANGED <<kind, setting, writer, theirs, rec, grace>>
        /\ RunType' /\ (UNCHANGED task \/ Enforce(rec'))
    BY <1>1, <1>8 DEF RunEnds, Enforce, RunType, external
  <2>2. /\ task' = [t \in Targets |-> task'[t]]
        /\ \A t \in Targets :
             /\ task'[t] \in TaskType
             /\ TaskOK(kind'[t], setting'[t], writer'[t], rec'[t], task'[t])
    BY <2>1, EnforceOK DEF IInv, Functions, TargetOK
  <2>3. Functions'
    BY <2>1, <2>2 DEF IInv, Functions
  <2> QED BY <2>1, <2>2, <2>3 DEF IInv, TargetOK
<1>9. ASSUME NEW t \in Targets, Enforcement(t) \/ People(t)
      PROVE  IInv'
  BY <1>9, EnforcementStep, PeopleStep
<1>10. CASE UNCHANGED vars
  BY <1>10 DEF vars, IInv, Functions, RunType
<1> QED BY <1>2, <1>3, <1>4, <1>5, <1>6, <1>7, <1>8, <1>9, <1>10 DEF Next

(* What the records say of Checkmarx One, and of the task at work on each  *)
(* target, holds whatever budgets, people, failures and crashes do.        *)
THEOREM Inductive == Spec => []IInv
<1> QED BY InitOK, Step, PTL DEF Spec

(* Every value has its type: no record of a restriction that is in place   *)
(* or being written is without what there was before.                      *)
THEOREM TypeCorrect == Spec => []TypeOK
<1>1. IInv => TypeOK
  <2> SUFFICES ASSUME IInv PROVE TypeOK
    OBVIOUS
  <2>1. \A t \in Targets :
          /\ kind[t] \in Kinds /\ setting[t] \in SUBSET Parts
          /\ writer[t] \in {"people", "govern"} /\ theirs[t] \in SUBSET Parts
          /\ rec[t] \in Records /\ task[t] \in TaskType
          /\ rec[t].state = "none" => rec[t] = NoRecord
          /\ rec[t].state \in {"writing", "applied", "partial"} => rec[t].pre # NoPre
    BY DEF IInv, TargetOK, RecordOK
  <2> QED BY <2>1 DEF IInv, Functions, RunType, TypeOK, TaskType, PCs
<1> QED BY <1>1, Inductive, PTL

(* "A crash in the middle leaves the undo record behind": what Govern has  *)
(* switched off and not put back is in the record, for any number of       *)
(* targets, budgets, crashes, failed writes and changes by people.         *)
THEOREM UndoRecorded == Spec => []Undoable
<1>1. IInv => Undoable
  BY DEF IInv, TargetOK, RecordOK, Undoable, Pre
<1> QED BY <1>1, Inductive, PTL

(* "Never 'restricted' while an AI role remains": a record says applied of *)
(* a setting only while all of it is off, or people changed it since.      *)
THEOREM AppliedMeansOff == Spec => []AppliedIsOff
<1>1. IInv => AppliedIsOff
  BY DEF IInv, TargetOK, RecordOK, AppliedIsOff
<1> QED BY <1>1, Inductive, PTL
==============================================================================
