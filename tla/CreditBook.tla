----------------------------- MODULE CreditBook ------------------------------
(***************************************************************************)
(* The credit books: the spending ledger (class CreditLedger of            *)
(* src/src/credits.js) and the allocations given to projects (class        *)
(* CreditAllocations of src/src/credit-allocations.js), as operators on    *)
(* one record.  Each method is synchronous in the code, so a handler that  *)
(* calls several between two awaits composes these operators in one step.  *)
(*                                                                         *)
(* A finding is a record [project, scan, alternateId, groupId, riskId]     *)
(* whose identities may be empty: "".  The ledger keeps running totals and *)
(* indexes instead of entries, as the code does; what an entry says beside *)
(* them (names, covered, audit id) is left out.                            *)
(***************************************************************************)
EXTENDS Integers, FiniteSets

CONSTANTS Projects, Findings

Kinds == {"triage", "remediation"}
Accounts == Projects \X Kinds       \* the key `${projectId}|${kind}`

(* CREDIT_COST. *)
CreditCost == [k \in Kinds |-> IF k = "triage" THEN 1 ELSE 3]

Results(fs) == {f.alternateId : f \in fs}
RiskIds(fs) == {f.riskId : f \in fs}

(* The identities a finding is indexed and claimed under. *)
Identities(f) ==
  {i \in {<<"a", f.alternateId>>, <<"g", f.groupId>>, <<"r", f.riskId>>} : i[2] # ""}
AllIdentities == UNION {Identities(f) : f \in Findings}

(* What a request for these findings costs: one charge per result. *)
Credits(kind, fs) == CreditCost[kind] * Cardinality(Results(fs))

Books == [used       : [Accounts -> Nat],  \* usedBy(), all time
          period     : Nat,                \* usedInPeriod(): the pool's period
          reserved   : Nat,                \* #reserved
          reservedBy : [Accounts -> Nat],  \* #reservedBy
          allocated  : [Accounts -> Nat],
          extra      : [Accounts -> Nat],
          triaged    : [Projects -> SUBSET AllIdentities],   \* #triaged
          remediated : [Projects -> SUBSET RiskIds(Findings)]] \* #remediated

EmptyBook ==
  LET zero == [a \in Accounts |-> 0]
  IN  [used |-> zero, period |-> 0, reserved |-> 0, reservedBy |-> zero,
       allocated |-> zero, extra |-> zero,
       triaged |-> [p \in Projects |-> {}], remediated |-> [p \in Projects |-> {}]]

AtLeast0(n) == IF n < 0 THEN 0 ELSE n
Larger(m, n) == IF m < n THEN n ELSE m

-----------------------------------------------------------------------------
(* The ledger.                                                             *)

AlreadySent(b, f) == Identities(f) \cap b.triaged[f.project] # {}

(* The pool of `limit` credits (0: no limit) has room for n more. *)
PoolHas(b, limit, n) == limit = 0 \/ n <= limit - b.period - b.reserved

(* A project's balance: what it can still spend of one kind. *)
Remaining(b, a) == AtLeast0(b.allocated[a] - b.used[a] - b.reservedBy[a])

(* Fault: what other requests hold right now is not looked at. *)
FaultMayReserve(b, limit, a, n, scoped) ==
  /\ limit = 0 \/ n <= limit - b.period
  /\ scoped => n <= b.allocated[a] - b.used[a]

(* The conditions of reserve(): scoped when an allowance was given.  The   *)
(* tenant's cap and Govern's spend guard are judged by the caller.         *)
MayReserve(b, limit, a, n, scoped) ==
  /\ PoolHas(b, limit, n)
  /\ scoped => n <= b.allocated[a] - b.used[a] - b.reservedBy[a]

(* reserve(), and release(), which a reservation lets through only once. *)
Reserve(b, a, n, scoped) ==
  [b EXCEPT !.reserved = @ + n, !.reservedBy[a] = @ + (IF scoped THEN n ELSE 0)]

(* Fault: a reservation released twice is counted twice. *)
FaultRelease(b, a, n, scoped) ==
  [b EXCEPT !.reserved = @ - n - n, !.reservedBy[a] = @ - (IF scoped THEN n ELSE 0)]

Release(b, a, n, scoped) ==
  [b EXCEPT !.reserved = @ - n, !.reservedBy[a] = @ - (IF scoped THEN n ELSE 0)]

(* record(): an entry counted, and its findings indexed: for triage under  *)
(* every identity, for remediation under their risk ids only.              *)
Record(b, a, n, fs) ==
  LET counted == [b EXCEPT !.used[a] = @ + n, !.period = @ + n]
  IN  IF a[2] = "triage"
        THEN [counted EXCEPT !.triaged[a[1]] = @ \cup UNION {Identities(f) : f \in fs}]
        ELSE [counted EXCEPT !.remediated[a[1]] = @ \cup RiskIds(fs)]

-----------------------------------------------------------------------------
(* The allocations.                                                        *)

(* grant(): n may be negative, through setExtra. *)
Grant(b, a, n) == [b EXCEPT !.allocated[a] = AtLeast0(@ + n)]

(* add(): extra credits, allocated on top and shown as such. *)
Add(b, a, n) == [Grant(b, a, n) EXCEPT !.extra[a] = AtLeast0(@ + n)]

(* clearExtras() of one project. *)
ClearExtras(b, p) ==
  [b EXCEPT
     !.allocated = [a \in Accounts |->
       IF a[1] = p THEN Larger(b.used[a], b.allocated[a] - b.extra[a]) ELSE @[a]],
     !.extra = [a \in Accounts |-> IF a[1] = p THEN 0 ELSE @[a]]]

(* Fault: credits held for a request in flight count as unused. *)
FaultReclaimUnused(b, a) ==
  [b EXCEPT !.allocated[a] = IF @ > b.used[a] THEN b.used[a] ELSE @, !.extra[a] = 0]

(* reclaimUnused() for one kind: down to what is spent or in flight. *)
ReclaimUnused(b, a) ==
  LET floor == b.used[a] + b.reservedBy[a]
  IN  [b EXCEPT !.allocated[a] = IF @ > floor THEN floor ELSE @, !.extra[a] = 0]
==============================================================================
