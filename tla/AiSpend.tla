------------------------------- MODULE AiSpend -------------------------------
(***************************************************************************)
(* Requests that spend Checkmarx One credits, any number at once: the      *)
(* report relay's AI Triage and AI Remediation, and the administrator's    *)
(* (POST /api/relay/triage, POST /api/relay/remediate, adminTriage() and   *)
(* adminRemediate() of src/src/server.js), with the send guard, the credit *)
(* books and Checkmarx One's side of each request.                         *)
(*                                                                         *)
(* JavaScript runs a handler without interruption between two awaits: one  *)
(* action is one such stretch.  pc of a request:                           *)
(*   idle      no request                                                  *)
(*   asked     before its claim: reading states, resolving result ids      *)
(*   checking  relay remediation, claimed: reading the finding's state and *)
(*             where its remediation stands                                *)
(*   posting   credits reserved, its POST sent                             *)
(*   covering  relay, the POST accepted: reading what the rule covers      *)
(* The tenant's cap and Govern's spend guard may refuse any reservation.   *)
(***************************************************************************)
EXTENDS CreditBook, Functions

CONSTANTS Requests,
          Modes,         \* the kinds of request that arrive
          Limit,         \* the credit pool's size (0: no limit)
          AllowAgain,    \* allowRetriage and allowReremediation
          ReadsFail,     \* remediationState() may throw
          AdminOps,      \* what administrators do to allocations meanwhile
          Amounts,       \* the numbers of credits they type
          MaxAllocated,  \* bound: credits allocated to one account
          MaxLost,       \* bound: answers that never arrive
          MaxJobs,       \* bound: jobs Checkmarx One starts for one result
          MaxFailures,   \* bound: remediation jobs that fail, per result
          NoRequest

AllModes == {"relayTriage", "relayRemediate", "adminTriage", "adminRemediate"}

ASSUME SpendAssumption ==
  /\ Modes \subseteq AllModes
  /\ Limit \in Nat
  /\ Amounts \subseteq Nat
  /\ {AllowAgain, ReadsFail} \subseteq BOOLEAN
  /\ NoRequest \notin Requests
  /\ IsFiniteSet(Requests) /\ IsFiniteSet(Findings)
  /\ \A f \in Findings : f.project \in Projects
  /\ \A f, g \in Findings : f.scan = g.scan => f.project = g.project

VARIABLES book,      \* the ledger and the allocations
          req,       \* per request: where it stands
          guard,     \* SendGuard #inFlight: who claimed <<kind, project, identity>>
          jobs,      \* Checkmarx One: per kind and result, jobs it charged for
          failures,  \* Checkmarx One: per result, remediation jobs that failed
          recorded,  \* per kind and result: ledger entries that name it
          lost       \* answers lost so far, with the charges they told of

vars == <<book, req, guard, jobs, failures, recorded, lost>>

Kind(mode) == IF mode \in {"relayTriage", "adminTriage"} THEN "triage" ELSE "remediation"
Scoped(mode) == mode # "adminTriage"
Charged == Kinds \X Results(Findings)

ClaimKeys(kind, fs) == UNION {{<<kind, f.project, i>> : i \in Identities(f)} : f \in fs}
AllKeys == UNION {ClaimKeys(k, Findings) : k \in Kinds}

(* The buckets of a request: one POST per scan. *)
Buckets(fs) == {{f \in fs : f.scan = s} : s \in {g.scan : g \in fs}}
ProjectOf(fs) == (CHOOSE f \in fs : TRUE).project
Account(mode, fs) == <<ProjectOf(fs), Kind(mode)>>
Cost(q) == Credits(Kind(q.mode), q.current)

Idle == [pc |-> "idle", mode |-> "relayTriage", todo |-> {}, claimed |-> {},
         current |-> {}, tries |-> 0, sent |-> "no"]

TypeOK ==
  /\ book \in Books
  /\ req \in [Requests ->
       [pc : {"idle", "asked", "checking", "posting", "covering"}, mode : AllModes,
        todo : SUBSET SUBSET Findings, claimed : SUBSET Findings,
        current : SUBSET Findings, tries : 0..1, sent : {"no", "published", "duplicate"}]]
  /\ guard \in [AllKeys -> Requests \cup {NoRequest}]
  /\ jobs \in [Charged -> Nat]
  /\ failures \in [Results(Findings) -> Nat]
  /\ recorded \in [Charged -> Nat]
  /\ lost \in [answers : Nat, charges : Nat]

Init ==
  /\ book = EmptyBook
  /\ req = [r \in Requests |-> Idle]
  /\ guard = [k \in AllKeys |-> NoRequest]
  /\ jobs = [c \in Charged |-> 0]
  /\ failures = [x \in Results(Findings) |-> 0]
  /\ recorded = [c \in Charged |-> 0]
  /\ lost = [answers |-> 0, charges |-> 0]

-----------------------------------------------------------------------------
(* SendGuard.                                                              *)

(* Fault: only the result id is looked up, not the group and the risk. *)
FaultClaimable(kind, f) ==
  \A k \in ClaimKeys(kind, {f}) : k[3][1] = "a" => guard[k] = NoRequest

Claimable(kind, f) == \A k \in ClaimKeys(kind, {f}) : guard[k] = NoRequest

Claimed(r, kind, fs) ==
  [k \in AllKeys |-> IF k \in ClaimKeys(kind, fs) THEN r ELSE guard[k]]

(* Fault: only the result ids are released. *)
FaultReleased(r, g) ==
  [k \in AllKeys |-> IF g[k] = r /\ k[3][1] = "a" THEN NoRequest ELSE g[k]]

Released(r, g) == [k \in AllKeys |-> IF g[k] = r THEN NoRequest ELSE g[k]]

-----------------------------------------------------------------------------
(* The stretch that ends most others: with the books at b and the claims   *)
(* at g, the loop over the buckets still to send goes on to the next one   *)
(* that is not refused, reserves its credits and posts it; when none is    *)
(* left, the request ends and its claim is released.                       *)

Post(r, q, b, group) ==
  /\ book' = Reserve(b, Account(q.mode, group), Credits(Kind(q.mode), group), Scoped(q.mode))
  /\ req' = [req EXCEPT ![r] = [q EXCEPT !.pc = "posting", !.current = group,
                                         !.tries = 0, !.sent = "no"]]

Fits(q, b, group) ==
  MayReserve(b, Limit, Account(q.mode, group), Credits(Kind(q.mode), group), Scoped(q.mode))

GoOn(r, q, b, g) ==
  \/ \E group \in q.todo : \E refused \in SUBSET (q.todo \ {group}) :
       /\ Fits(q, b, group)
       /\ Post(r, [q EXCEPT !.todo = @ \ (refused \cup {group})], b, group)
       /\ guard' = g
  \/ /\ book' = b
     /\ req' = [req EXCEPT ![r] = Idle]
     /\ guard' = Released(r, g)

-----------------------------------------------------------------------------
(* A request arrives, and reads what it needs before claiming. *)
Ask(r, mode, fs) ==
  /\ req[r].pc = "idle"
  /\ fs # {}
  /\ mode = "relayRemediate" => Cardinality(fs) = 1
  /\ req' = [req EXCEPT ![r] = [Idle EXCEPT !.pc = "asked", !.mode = mode, !.todo = {fs}]]
  /\ UNCHANGED <<book, guard, jobs, failures, recorded, lost>>

(* Fault: the ledger is not asked. *)
FaultUnsent(kind, fs) == fs

(* What of fs was not sent before, by the ledger's index of its kind,      *)
(* unless sending again is allowed.                                        *)
Unsent(kind, fs) ==
  {f \in fs : AllowAgain \/ CASE kind = "triage" -> ~AlreadySent(book, f)
                              [] OTHER -> f.riskId \notin book.remediated[f.project]}

(* Triage, and the administrator's remediation.  `open` is what may still  *)
(* be acted on by the states read.  What another request is sending is not *)
(* claimed; what was sent before is not sent again (triage looks at that   *)
(* before it claims, remediation after).                                   *)
Begin(r, open) ==
  LET q == req[r]
      kind == Kind(q.mode)
      wanted == IF kind = "triage" THEN Unsent(kind, open) ELSE open
      mine == {f \in wanted : Claimable(kind, f)}
  IN  /\ q.pc = "asked"
      /\ q.mode # "relayRemediate"
      /\ open \subseteq UNION q.todo
      /\ GoOn(r, [q EXCEPT !.todo = Buckets(Unsent(kind, mine)), !.claimed = mine],
              book, Claimed(r, kind, mine))
      /\ UNCHANGED <<jobs, failures, recorded, lost>>

(* Relay remediation: the finding is claimed, or the request is refused. *)
BeginRemediate(r) ==
  LET q == req[r]
      fs == UNION q.todo
  IN  /\ q.pc = "asked"
      /\ q.mode = "relayRemediate"
      /\ IF \A f \in fs : Claimable("remediation", f)
           THEN /\ guard' = Claimed(r, "remediation", fs)
                /\ req' = [req EXCEPT ![r].pc = "checking", ![r].claimed = fs]
           ELSE /\ req' = [req EXCEPT ![r] = Idle]
                /\ UNCHANGED guard
      /\ UNCHANGED <<book, jobs, failures, recorded, lost>>

(* What remediationStatusOf() makes of what Checkmarx One returned: its    *)
(* own record of the last job, which it may no longer return, or else what *)
(* the ledger says.  An answer that cannot be read counts as "none".       *)
Statuses(f) ==
  LET started == jobs[<<"remediation", f.alternateId>>]
  IN  (CASE started = 0 -> {}
         [] started > failures[f.alternateId] -> {"running", "done"}
         [] OTHER -> {"failed"})
      \cup {IF f.riskId \in book.remediated[f.project] THEN "done" ELSE "none"}
      \cup (IF ReadsFail THEN {"none"} ELSE {})

(* Relay remediation: the finding is not confirmed, is being remediated or *)
(* was, or is sent.                                                        *)
Check(r, confirmed) ==
  LET q == req[r]
  IN  /\ q.pc = "checking"
      /\ \E f \in q.claimed : \E status \in Statuses(f) :
           GoOn(r, IF confirmed /\ status # "running" /\ (status = "done" => AllowAgain)
                     THEN q ELSE [q EXCEPT !.todo = {}],
                book, guard)
      /\ UNCHANGED <<jobs, failures, recorded, lost>>

-----------------------------------------------------------------------------
(* Checkmarx One.                                                          *)

(* It starts, and charges for, a new job for every result of the POST. *)
Accept(r) ==
  LET q == req[r]
  IN  /\ q.pc = "posting"
      /\ q.sent = "no"
      /\ \A x \in Results(q.current) : jobs[<<Kind(q.mode), x>>] < MaxJobs
      /\ jobs' = [c \in Charged |->
           jobs[c] + IF c[1] = Kind(q.mode) /\ c[2] \in Results(q.current) THEN 1 ELSE 0]
      /\ req' = [req EXCEPT ![r].sent = "published"]
      /\ UNCHANGED <<book, guard, failures, recorded, lost>>

(* It has a job for every result of the POST already: nothing is charged. *)
Deduplicate(r) ==
  LET q == req[r]
  IN  /\ q.pc = "posting"
      /\ q.sent = "no"
      /\ \A x \in Results(q.current) : jobs[<<Kind(q.mode), x>>] > 0
      /\ req' = [req EXCEPT ![r].sent = "duplicate"]
      /\ UNCHANGED <<book, guard, jobs, failures, recorded, lost>>

(* A remediation job of its own fails. *)
JobFails(x) ==
  /\ failures[x] < jobs[<<"remediation", x>>]
  /\ failures[x] < MaxFailures
  /\ failures' = [failures EXCEPT ![x] = @ + 1]
  /\ UNCHANGED <<book, req, guard, jobs, recorded, lost>>

-----------------------------------------------------------------------------
(* The answer.                                                             *)

ReleaseOf(q) == Release(book, Account(q.mode, q.current), Cost(q), Scoped(q.mode))

(* Fault: any answer that is not an error counts as a charge. *)
FaultReadsPublished(q) == q.sent # "no"

(* published, as the handler reads it. *)
ReadsPublished(q) == q.sent = "published"

(* The relay reads what the rule covers before it records the charge. *)
Accepted(r) ==
  LET q == req[r]
  IN  /\ q.pc = "posting"
      /\ q.mode \in {"relayTriage", "relayRemediate"}
      /\ ReadsPublished(q)
      /\ req' = [req EXCEPT ![r].pc = "covering"]
      /\ UNCHANGED <<book, guard, jobs, failures, recorded, lost>>

RecordedNow(q) ==
  [c \in Charged |->
    recorded[c] + IF c[1] = Kind(q.mode) /\ c[2] \in Results(q.current) THEN 1 ELSE 0]

(* Release, then record, then the next bucket: no await between them. *)
Settle(r) ==
  LET q == req[r]
  IN  /\ q.pc = "covering"
      /\ recorded' = RecordedNow(q)
      /\ GoOn(r, q, Record(ReleaseOf(q), Account(q.mode, q.current), Cost(q), q.current), guard)
      /\ UNCHANGED <<jobs, failures, lost>>

(* What an accepted triage of the administrator's raises the project's     *)
(* allocation by, so that it covers the run.                               *)
Raised(q) ==
  IF q.mode = "adminTriage"
    THEN AtLeast0(Cost(q) - Remaining(book, Account(q.mode, q.current)))
    ELSE 0

(* The administrator's requests record as soon as they are answered. *)
SettleAdmin(r) ==
  LET q == req[r]
      a == Account(q.mode, q.current)
  IN  /\ q.pc = "posting"
      /\ q.mode \in {"adminTriage", "adminRemediate"}
      /\ ReadsPublished(q)
      /\ recorded' = RecordedNow(q)
      /\ GoOn(r, q, Record(Release(Grant(book, a, Raised(q)), a, Cost(q), Scoped(q.mode)),
                           a, Cost(q), q.current), guard)
      /\ UNCHANGED <<jobs, failures, lost>>

(* published: false.  Nothing is charged, and the next bucket follows. *)
NotCharged(r) ==
  LET q == req[r]
  IN  /\ q.pc = "posting"
      /\ q.sent = "duplicate"
      /\ GoOn(r, q, ReleaseOf(q), guard)
      /\ UNCHANGED <<jobs, failures, recorded, lost>>

(* Fault: a failed request keeps its reservation. *)
FaultFail(r, stopped) ==
  LET q == req[r]
  IN  /\ q.pc = "posting"
      /\ q.sent = "no"
      /\ stopped => Kind(q.mode) = "triage"
      /\ GoOn(r, IF stopped THEN [q EXCEPT !.todo = {}] ELSE q, book, guard)
      /\ UNCHANGED <<jobs, failures, recorded, lost>>

(* Checkmarx One refuses the POST; a 402 or 403 stops a triage's others. *)
Fail(r, stopped) ==
  LET q == req[r]
  IN  /\ q.pc = "posting"
      /\ q.sent = "no"
      /\ stopped => Kind(q.mode) = "triage"
      /\ GoOn(r, IF stopped THEN [q EXCEPT !.todo = {}] ELSE q, ReleaseOf(q), guard)
      /\ UNCHANGED <<jobs, failures, recorded, lost>>

(* The answer never arrives (or a 5xx does).  The client posts once more,  *)
(* and then reports a failure, whatever Checkmarx One did with the POSTs.  *)
Lose(r) ==
  LET q == req[r]
  IN  /\ q.pc = "posting"
      /\ lost.answers < MaxLost
      /\ lost' = [answers |-> lost.answers + 1,
                  charges |-> lost.charges + IF q.sent = "published" THEN Cost(q) ELSE 0]
      /\ \/ /\ q.tries = 0
            /\ req' = [req EXCEPT ![r].tries = 1, ![r].sent = "no"]
            /\ UNCHANGED <<book, guard>>
         \/ /\ q.tries = 1
            /\ GoOn(r, q, ReleaseOf(q), guard)
      /\ UNCHANGED <<jobs, failures, recorded>>

-----------------------------------------------------------------------------
(* Meanwhile.                                                              *)

(* An administrator changes a project's allocation. *)
Administer(a, n) ==
  /\ \/ "add" \in AdminOps /\ book' = Add(book, a, n)
     \/ "setExtra" \in AdminOps /\ book' = Add(book, a, n - book.extra[a])
     \/ "clearExtras" \in AdminOps /\ book' = ClearExtras(book, a[1])
     \/ "reclaim" \in AdminOps /\ book' = ReclaimUnused(book, a)
  /\ book'.allocated[a] <= MaxAllocated
  /\ UNCHANGED <<req, guard, jobs, failures, recorded, lost>>

(* A monthly pool starts again; what is in flight stays reserved. *)
NewMonth ==
  /\ book' = [book EXCEPT !.period = 0]
  /\ UNCHANGED <<req, guard, jobs, failures, recorded, lost>>

Answered(r) ==
  \/ Accepted(r) \/ Settle(r) \/ SettleAdmin(r) \/ NotCharged(r)
  \/ \E stopped \in BOOLEAN : Fail(r, stopped)

Next ==
  \/ \E r \in Requests :
       \/ \E mode \in Modes, fs \in SUBSET Findings : Ask(r, mode, fs)
       \/ \E open \in SUBSET Findings : Begin(r, open)
       \/ BeginRemediate(r)
       \/ \E confirmed \in BOOLEAN : Check(r, confirmed)
       \/ Accept(r) \/ Deduplicate(r) \/ Answered(r) \/ Lose(r)
  \/ \E a \in Accounts, n \in Amounts : Administer(a, n)
  \/ \E x \in Results(Findings) : JobFails(x)
  \/ NewMonth

Spec == Init /\ [][Next]_vars

-----------------------------------------------------------------------------
(* "Concurrent requests cannot jointly overrun the monthly limit": what    *)
(* was spent in the pool's period and what is held for requests in flight  *)
(* never pass the pool together, across retries, failures and month ends.  *)
PoolNeverOverrun == Limit > 0 => book.period + book.reserved <= Limit

(* A result is recorded as triaged at most once while triaging again is    *)
(* switched off, whoever asks for it and through how many identities.      *)
TriagedOnce ==
  ~AllowAgain => \A x \in Results(Findings) : recorded[<<"triage", x>>] <= 1

(* The same for remediation, which costs three times as much and may open  *)
(* a pull request; only a job that failed makes room for another.          *)
RemediatedOnce ==
  ~AllowAgain =>
    \A x \in Results(Findings) : recorded[<<"remediation", x>>] <= 1 + failures[x]

(* Two requests never send the same finding at the same time, under any of *)
(* its identities, and a finding being sent is always claimed.             *)
OneSenderPerFinding ==
  \A r \in Requests : req[r].pc \in {"posting", "covering"} =>
    \A k \in ClaimKeys(Kind(req[r].mode), req[r].current) : guard[k] = r

(* Nothing stays claimed once its request is over: a finding left claimed  *)
(* could never be sent again until the server restarts.                    *)
NoClaimLeftBehind ==
  \A k \in AllKeys : guard[k] # NoRequest =>
    /\ req[guard[k]].pc \in {"checking", "posting", "covering"}
    /\ k \in ClaimKeys(Kind(req[guard[k]].mode), req[guard[k]].claimed)

(* Requests and claims agree: who sends has claimed, and who is over has   *)
(* nothing claimed.                                                        *)
ClaimsMatchRequests == OneSenderPerFinding /\ NoClaimLeftBehind

InFlight == {r \in Requests : req[r].pc \in {"posting", "covering"}}
HeldBy(rs) == SumFunction([r \in rs |-> Cost(req[r])])

(* Every credit held belongs to a request in flight: a leaked reservation  *)
(* would shrink the pool until the server restarts, and a doubly released  *)
(* one would let others overrun it.                                        *)
HeldForInFlight ==
  /\ book.reserved = HeldBy(InFlight)
  /\ \A a \in Accounts : book.reservedBy[a] =
       HeldBy({r \in InFlight : Scoped(req[r].mode) /\ Account(req[r].mode, req[r].current) = a})

(* A project never spends, nor is promised, more than it was allocated.    *)
WithinAllocation ==
  \A a \in Accounts : book.used[a] + book.reservedBy[a] <= book.allocated[a]

TotalOf(counts) == SumFunction([c \in Charged |-> counts[c] * CreditCost[c[1]]])

(* The ledger counts what Checkmarx One charged for and nothing else: they *)
(* differ by exactly the charges whose answer is on its way or was lost,   *)
(* and a request that was de-duplicated is not counted.                    *)
LedgerMatchesCharges ==
  /\ TotalOf(jobs) = TotalOf(recorded) + lost.charges
                     + HeldBy({r \in InFlight : req[r].sent = "published"})
  /\ \A c \in Charged : recorded[c] <= jobs[c]
==============================================================================
