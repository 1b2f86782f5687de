----------------------------- MODULE CreditGive ------------------------------
(***************************************************************************)
(* Administrators giving credits to projects out of the credit pool, while *)
(* reports spend them: POST /api/credits/give, POST /api/credits/allocate, *)
(* allocateNeeded() and adminTriage() of src/src/server.js, over the       *)
(* credit books.                                                           *)
(*                                                                         *)
(* Giving computes what to give and checks it against the pool, then       *)
(* awaits tenantRefusal(), which may read the tenant's credits from        *)
(* Checkmarx One, and then gives what it computed.  An administrator's     *)
(* triage reserves in the pool, awaits Checkmarx One, and then raises the  *)
(* project's allocation to what it used, whatever is promised to others.   *)
(***************************************************************************)
EXTENDS CreditBook, Functions

CONSTANTS Admins,
          Limit,    \* the credit pool's size, if it has one
          Needs,    \* what the findings of a project may need
          Amounts,  \* what people type as extra credits; results of one run
          MaxUsed   \* bound: credits spent per account when a request starts

VARIABLES book,
          need,  \* per account: what the project's findings need
          plan   \* per administrator: what it is about to give, or is triaging

vars == <<book, need, plan>>

(* "stale" is history: what has moved, through others, since a plan to     *)
(* give was checked: what is left of the "pool", the project's "need".     *)
Plans == [kind : {"none", "give", "run"}, account : Accounts, needed : Nat, extra : Nat,
          stale : SUBSET {"pool", "need"}]

NoPlan == [kind |-> "none", account |-> CHOOSE a \in Accounts : TRUE, needed |-> 0, extra |-> 0,
           stale |-> {}]

TypeOK ==
  /\ book \in Books
  /\ need \in [Accounts -> Nat]
  /\ plan \in [Admins -> Plans]

Init ==
  /\ book = EmptyBook
  /\ need = [a \in Accounts |-> 0]
  /\ plan = [d \in Admins |-> NoPlan]

(* poolSummary(): what projects hold and have not used, and what the pool  *)
(* has left to give.                                                       *)
Outstanding(b) == SumFunction([a \in Accounts |-> Remaining(b, a)])

(* Fault: credits given and not used yet count as free. *)
FaultUnallocated(b) == AtLeast0(Limit - b.period - b.reserved)

Unallocated(b) == AtLeast0(AtLeast0(Limit - b.period - b.reserved) - Outstanding(b))

(* Fault: what the project holds already is not looked at. *)
FaultShortfall(b, a) == need[a]

(* need(): what is needed and cannot be spent yet. *)
Shortfall(b, a) == AtLeast0(need[a] - (b.allocated[a] - b.used[a] - b.reservedBy[a]))

(* The plans in which what moved counts as stale: those to give. *)
Marked(p, moved) == IF p.kind = "give" THEN [p EXCEPT !.stale = @ \cup moved] ELSE p

NeedMoved(a) == [d \in Admins |-> Marked(plan[d], IF plan[d].account = a THEN {"need"} ELSE {})]

(* The plan is made and checked against the pool; refused, nothing is. *)
Plan(d, a, needed, extra) ==
  /\ plan[d].kind = "none"
  /\ needed + extra > 0
  /\ needed + extra <= Unallocated(book)
  /\ plan' = [plan EXCEPT ![d] =
       [kind |-> "give", account |-> a, needed |-> needed, extra |-> extra, stale |-> {}]]
  /\ UNCHANGED <<book, need>>

GiveExtra(d, a) == \E n \in Amounts : Plan(d, a, 0, n)
GiveNeeded(d, a) == \E n \in Amounts \cup {0} : Shortfall(book, a) > 0 /\ Plan(d, a, Shortfall(book, a), n)

(* tenantRefusal() has answered: the plan is carried out, or dropped. *)
Give(d) ==
  LET p == plan[d]
  IN  /\ p.kind = "give"
      /\ book' = Add(Grant(book, p.account, p.needed), p.account, p.extra)
      /\ plan' = [e \in Admins |->
           IF e = d THEN NoPlan
           ELSE Marked(plan[e], {"pool"} \cup (IF plan[e].account = p.account THEN {"need"} ELSE {}))]
      /\ UNCHANGED need

Refuse(d) ==
  /\ plan[d].kind = "give"
  /\ plan' = [plan EXCEPT ![d] = NoPlan]
  /\ UNCHANGED <<book, need>>

(* adminTriage() for n results of one scan: reserved in the pool alone.     *)
AdminTriage(d, a, n) ==
  /\ plan[d].kind = "none"
  /\ a[2] = "triage"
  /\ n > 0 /\ book.used[a] + book.reservedBy[a] + n <= MaxUsed
  /\ MayReserve(book, Limit, a, n, FALSE)
  /\ book' = Reserve(book, a, n, FALSE)
  /\ plan' = [e \in Admins |->
       IF e = d THEN [kind |-> "run", account |-> a, needed |-> n, extra |-> 0, stale |-> {}]
       ELSE Marked(plan[e], {"pool"})]
  /\ UNCHANGED need

(* Checkmarx One took it: the allocation is raised to what it used, and     *)
(* the credits are no longer held but spent.                                *)
Triaged(d) ==
  LET p == plan[d]
      raised == AtLeast0(p.needed - Remaining(book, p.account))
      granted == Grant(book, p.account, raised)
  IN  /\ p.kind = "run"
      /\ book' = Record(Release(granted, p.account, p.needed, FALSE), p.account, p.needed, {})
      /\ plan' = [plan EXCEPT ![d] = NoPlan]
      /\ UNCHANGED need

(* It failed, or Checkmarx One had that job already: nothing is charged.    *)
NotTriaged(d) ==
  LET p == plan[d]
  IN  /\ p.kind = "run"
      /\ book' = Release(book, p.account, p.needed, FALSE)
      /\ plan' = [plan EXCEPT ![d] = NoPlan]
      /\ UNCHANGED need

(* A report's request reserves within the allocation, and later records    *)
(* what it was charged, or was not charged at all.                         *)
Hold(a) ==
  /\ MayReserve(book, Limit, a, 1, TRUE)
  /\ book.used[a] + book.reservedBy[a] < MaxUsed
  /\ book' = Reserve(book, a, 1, TRUE)
  /\ UNCHANGED <<need, plan>>

Spend(a) ==
  /\ book.reservedBy[a] > 0
  /\ book' = Record(Release(book, a, 1, TRUE), a, 1, {})
  /\ UNCHANGED <<need, plan>>

Fail(a) ==
  /\ book.reservedBy[a] > 0
  /\ book' = Release(book, a, 1, TRUE)
  /\ plan' = NeedMoved(a)
  /\ UNCHANGED need

Reclaim(a) == book' = ReclaimUnused(book, a) /\ UNCHANGED <<need, plan>>

(* Findings come, go and are confirmed; severities are chosen. *)
NeedChanges(a) ==
  /\ \E n \in Needs \ {need[a]} : need' = [need EXCEPT ![a] = n]
  /\ plan' = NeedMoved(a)
  /\ UNCHANGED book

NewMonth == book' = [book EXCEPT !.period = 0] /\ UNCHANGED <<need, plan>>

Next ==
  \/ \E d \in Admins :
       \/ \E a \in Accounts : GiveExtra(d, a) \/ GiveNeeded(d, a)
       \/ \E a \in Accounts, n \in Amounts : AdminTriage(d, a, n)
       \/ Give(d) \/ Refuse(d) \/ Triaged(d) \/ NotTriaged(d)
  \/ \E a \in Accounts : Hold(a) \/ Spend(a) \/ Fail(a) \/ Reclaim(a) \/ NeedChanges(a)
  \/ NewMonth

Spec == Init /\ [][Next]_vars

-----------------------------------------------------------------------------
(* What is spent, held and still promised to projects. *)
Taken(b) == b.period + b.reserved + Outstanding(b)

Runs(d) == plan[d].kind # "run" /\ plan'[d].kind = "run"
Gives(d) == plan[d].kind = "give" /\ plan'[d].kind = "none" /\ book' # book

(* "Everything given comes out of the credit pool, and never more than it  *)
(* has free": what is spent, held and promised goes beyond the pool only   *)
(* by an administrator's triage, which is reserved without looking at what *)
(* is promised, or by a gift decided before another gift or such a triage. *)
PoolOvercommits ==
  /\ book' # book
  /\ Taken(book') > Limit /\ Taken(book') > Taken(book)
  /\ \A d \in Admins : ~Runs(d) /\ ~(Gives(d) /\ "pool" \in plan[d].stale)

(* "Give each project what its findings need and it does not have": beside *)
(* extra credits given with it, what is needed never leaves a project with *)
(* more than its findings need, unless they need something else since it   *)
(* was computed, or others gave to the project, or a request of its failed. *)
GivesTooMuch(d) ==
  LET p == plan[d]
  IN  /\ Gives(d) /\ p.needed > 0 /\ "need" \notin p.stale
      /\ Remaining(book', p.account) > need[p.account] + p.extra
==============================================================================
