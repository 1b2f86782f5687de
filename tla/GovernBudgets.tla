---------------------------- MODULE GovernBudgets ----------------------------
(* Govern's budgets: what each evaluation wants restricted                   *)
(* (src/src/govern/evaluate.js, cycle.js), over cycles whose figures are     *)
(* read, not read or not reported, edits, approved requests, restores and    *)
(* the turn of the month.                                                    *)
(*                                                                           *)
(* A restriction wanted is a reference of a target's record: its budget, the *)
(* month and breach it is for, and the target.  GovernHolds models how the   *)
(* references are carried out; here an evaluation and the reconciliation     *)
(* after it are one step, as they are in the code.  Budgets are monthly.     *)
(* Usage counts from the month's start and only grows in it.  Alerts, the    *)
(* warning threshold and exempt projects of a group are left out.            *)
EXTENDS Naturals

CONSTANTS
  Budgets, Targets,
  Plan,         \* planTargets(): what a breach of each restricts
  TooMany,      \* budgets whose plan is larger than their maxTargets
  Months,       \* bound: months
  MaxUsed,      \* bound: credits used in a month
  MaxChanges    \* bound: edits, approvals and restores

GrowBy == 1     \* settings.graceGrowBy

VARIABLES
  month,
  budget,       \* store.budgets; Gone once deleted
  index,        \* the usage each has in the index, and how well it is known
  state,        \* store.periods: each budget's state of this month
  refs,         \* the references of all records
  changes,
  given         \* history: graces given by restores this month

vars == <<month, budget, index, state, refs, changes, given>>

Gone == [limit |-> 0]
NoGrace == [at |-> 0, over |-> TRUE]
NoState == [used |-> 0, over |-> FALSE, seq |-> 0, grace |-> NoGrace]

Configured == [limit : 1..MaxUsed, topUp : BOOLEAN, enforce : BOOLEAN, active : BOOLEAN,
               exempt : BOOLEAN, untilReleased : BOOLEAN, confirmed : BOOLEAN]

There(b) == budget[b] # Gone

Ref(b, s, t) == [budget |-> b, month |-> month, seq |-> s, target |-> t]

Init ==
  /\ month = 1
  /\ budget \in [Budgets -> {x \in Configured : x.limit = 1 /\ x.enforce /\ x.active
                                                /\ ~x.topUp /\ ~x.exempt /\ ~x.confirmed}]
  /\ index = [b \in Budgets |-> [used |-> 0, known |-> "none"]]
  /\ state = [b \in Budgets |-> NoState]
  /\ refs = {} /\ changes = 0
  /\ given = [b \in Budgets |-> NoGrace]

-----------------------------------------------------------------------------
(* effectiveAmount(): with what was granted until the month's end.           *)
Limit(x) == x.limit + IF x.topUp THEN 1 ELSE 0

(* A grace ends when usage has grown past the figure at the restore, or its  *)
(* time is over.                                                             *)
InGrace(grace, used) == ~grace.over /\ used < grace.at + GrowBy

Unknown(i) == i.known # "fresh"

Enforcing(x) == x.enforce /\ ~x.exempt

(* evaluate(): whether the targets are to be held, released or left as they  *)
(* are, and the state of the month.                                          *)
Evaluated(x, i, s) ==
  LET over == i.used >= Limit(x)
      grace == IF InGrace(s.grace, i.used) THEN s.grace ELSE NoGrace
  IN  CASE ~x.active -> [hold |-> "no", state |-> s]
        [] x.active /\ Unknown(i) ->
             [hold |-> "leave", state |-> [s EXCEPT !.used = IF i.known = "none" THEN @ ELSE i.used]]
        [] OTHER ->
             [hold |-> IF over /\ Enforcing(x) /\ grace.over THEN "yes" ELSE "no",
              state |-> [used |-> i.used, over |-> over, grace |-> grace,
                         seq |-> s.seq + IF over /\ ~s.over THEN 1 ELSE 0]]

(* #evaluate() and reconcileRefs(): the references each budget is to have.   *)
(* One whose plan is too large waits for a confirmation, and what it held    *)
(* until released is not asked for meanwhile.                                *)
Wanted(b, x, e, old) ==
  LET its == {r \in old : r.budget = b}
      asks == e.hold = "yes" /\ b \in TooMany /\ ~x.confirmed
      kept == x.untilReleased /\ x.active /\ Enforcing(x)
  IN  IF e.hold = "leave" THEN its
      ELSE {Ref(b, e.state.seq, t) : t \in IF e.hold = "yes" /\ ~asks THEN Plan[b] ELSE {}}
             \cup {r \in its : kept /\ ~asks /\ r.month # month}

(* changed(): every budget is evaluated, from these references and states.   *)
Evaluate(old, states) ==
  LET e == [b \in Budgets |-> Evaluated(budget'[b], index'[b], states[b])]
      there == {b \in Budgets : budget'[b] # Gone}
  IN  /\ refs' = UNION {Wanted(b, budget'[b], e[b], old) : b \in there}
      /\ state' = [b \in Budgets |-> IF b \in there THEN e[b].state ELSE NoState]

-----------------------------------------------------------------------------
(* A cycle has read what it could: each budget's figure is new, could not be *)
(* read this time, or is not reported.  Until then it changed nothing.       *)
Cycle(polled) ==
  /\ index' = polled
  /\ \A b \in Budgets :
       CASE polled[b].known = "fresh" -> polled[b].used >= index[b].used
         [] polled[b].known = "stale" -> polled[b].used = index[b].used /\ index[b].known # "none"
         [] OTHER -> polled[b].used = index[b].used
  /\ UNCHANGED <<month, budget, changes, given>>
  /\ Evaluate(refs, state)

Change ==
  /\ changes < MaxChanges
  /\ changes' = changes + 1
  /\ UNCHANGED <<month, index>>

(* A budget is edited, one setting of it; or a request for it is approved.   *)
Edits(x) ==
  {[x EXCEPT !.limit = n] : n \in 1..MaxUsed}
    \cup {[x EXCEPT !.topUp = TRUE], [x EXCEPT !.enforce = ~@], [x EXCEPT !.active = ~@],
          [x EXCEPT !.exempt = ~@], [x EXCEPT !.untilReleased = ~@], [x EXCEPT !.confirmed = ~@]}

Edit(b, x) ==
  /\ Change
  /\ There(b) /\ x # budget[b]
  /\ budget' = [budget EXCEPT ![b] = x]
  /\ UNCHANGED given
  /\ Evaluate(refs, state)

Delete(b) ==
  /\ Change
  /\ There(b)
  /\ budget' = [budget EXCEPT ![b] = Gone]
  /\ given' = [given EXCEPT ![b] = NoGrace]
  /\ Evaluate(refs, state)

(* restore(): every reference of a target goes, and each budget that had one *)
(* gets a grace for the month the reference was of.                          *)
Of(t) == {r \in refs : r.target = t}
Behind(t) == {r.budget : r \in {x \in Of(t) : x.month = month}}

(* Fault: the evaluation that follows starts from the states before it. *)
FaultGraced(t) == state

Graced(t) ==
  [b \in Budgets |->
     IF b \in Behind(t) THEN [state[b] EXCEPT !.grace = [at |-> state[b].used, over |-> FALSE]] ELSE state[b]]

Restore(t) ==
  /\ Change
  /\ Of(t) # {}
  /\ given' = [b \in Budgets |-> IF b \in Behind(t) THEN [at |-> index[b].used, over |-> FALSE] ELSE given[b]]
  /\ UNCHANGED budget
  /\ Evaluate(refs \ Of(t), Graced(t))

(* The server stops between writing the records and the periods: nothing is  *)
(* answered, and no grace is given.  It evaluates as it starts again.        *)
RestoreCut(t) ==
  /\ Change
  /\ Of(t) # {}
  /\ UNCHANGED <<budget, given>>
  /\ Evaluate(refs \ Of(t), state)

(* The time chosen for a grace passes; the next evaluation sees it.          *)
GraceTimesOut(b) ==
  /\ ~given[b].over
  /\ given' = [given EXCEPT ![b].over = TRUE]
  /\ state' = [state EXCEPT ![b].grace.over = TRUE]
  /\ UNCHANGED <<month, budget, index, refs, changes>>

(* A month begins: there is no state of it yet, nothing was used in it, what *)
(* was granted until its end is over.  Nothing is evaluated.                 *)
NewMonth ==
  /\ month < Months
  /\ month' = month + 1
  /\ budget' = [b \in Budgets |-> IF There(b) THEN [budget[b] EXCEPT !.topUp = FALSE] ELSE Gone]
  /\ index' = [b \in Budgets |-> [index[b] EXCEPT !.used = 0]]
  /\ state' = [b \in Budgets |-> NoState]
  /\ given' = [b \in Budgets |-> NoGrace]
  /\ UNCHANGED <<refs, changes>>

Next ==
  \/ \E polled \in [Budgets -> [used : 0..MaxUsed, known : {"fresh", "stale", "none"}]] : Cycle(polled)
  \/ \E b \in Budgets : Delete(b) \/ GraceTimesOut(b) \/ (There(b) /\ \E x \in Edits(budget[b]) : Edit(b, x))
  \/ \E t \in Targets : Restore(t) \/ RestoreCut(t)
  \/ NewMonth

Spec == Init /\ [][Next]_vars

-----------------------------------------------------------------------------
Restored(t) == Restore(t) \/ RestoreCut(t)

(* Restrictions come and go for a reason only.  "Never a release or a hold   *)
(* on unknown data", unless somebody restores, pauses or deletes.  After a   *)
(* restore, "no new restriction until usage grows past the figure at the     *)
(* restore", whatever is edited, approved or read meanwhile, this month.     *)
(* "Hold until released keeps last period's restrictions through the new     *)
(* period", except while this month's wait for a confirmation.               *)
NothingOnUnknown ==
  \A r \in (refs \cup refs') \ (refs \cap refs') :
    There(r.budget)' /\ budget'[r.budget].active /\ index'[r.budget].known # "fresh" =>
      r \in refs /\ Restored(r.target)

GraceIsHonoured == \A r \in refs' \ refs : ~InGrace(given'[r.budget], index'[r.budget].used)

LastMonthStays ==
  \A r \in refs \ refs' :
    LET x == budget'[r.budget]
    IN  There(r.budget)' /\ x.untilReleased /\ x.active /\ Enforcing(x) /\ r.month # month' =>
          Restored(r.target) \/ (r.budget \in TooMany /\ ~x.confirmed)

OnlyForAReason == [][NothingOnUnknown /\ GraceIsHonoured /\ LastMonthStays]_vars
==============================================================================
