# CxMissionZero in TLA+

CxMissionZero is one Node.js server (`src/src/server.js` and its modules) beside
Checkmarx One. It reads findings, mails developers the ones that are theirs,
lets them spend Checkmarx One AI credits on triage and remediation from a
report, follows tracked reports until a rescan proves them closed, restricts
people and projects whose credit budget is used up (Govern), marks what a second
scan does not report (FAE Flush), and replaces itself with newer versions.

JavaScript runs one stretch of code at a time, so nothing in this server is
interrupted between two `await`s. What can go wrong lies across them: a value
checked before Checkmarx One is asked and used after, a slot handed over in
one microtask and taken in another, an answer that is lost while the charge
stands, a crash between a write and its record. The models therefore take **one
action per stretch between two awaits**, and let every other request, timer,
administrator, crash or person act in between.

Contents: [the system](#the-system) ·
[modules and code](#modules-and-code) ·
[runs](#runs) ·
[fairness](#fairness) ·
[refinement](#refinement) ·
[what is proved](#what-is-proved) ·
[only model-checked](#only-model-checked) ·
[where the code does otherwise](#where-the-code-does-otherwise) ·
[not modelled](#not-modelled) ·
[plan](#plan)

Run a check with `tlc -config <run>.cfg <module>.tla` and a proof with
`tlapm <module>.tla`; PROJECT.json lists which module goes with which `.cfg`,
maps each definition to the lines it models, and names for each property a
plausible bug (the `Fault...` definitions) that the run would find.

## The system

| Part | State it keeps | Operations | Talks to |
| --- | --- | --- | --- |
| Upstream gate (`ttl-cache.js`, `Semaphore`) | calls running, two lines of waiting calls | `run` | every call to Checkmarx One passes it |
| Connection (`cxone/client.js`, `cxone/auth.js`) | one token, one request for it | `request`, `getToken`, `reset` | gate, Checkmarx One |
| Read-through cache (`ttl-cache.js`, `TtlCache`) | entries in order of use, loads in flight per key | `wrap`, `peek`, `set`, `delete` | its loaders queue in the gate |
| States of findings (`server.js`) | cache entries per project | act, poll, ask before remediating | cache |
| AI spending (`server.js`, `send-guard.js`) | findings being sent, by any of their identities | triage and remediate, from a report or by the administrator | ledger, allocations, guard, cache, Checkmarx One |
| Credit books (`credits.js`, `credit-allocations.js`) | entries, what is held for requests in flight, credits per project and kind | reserve, release, record, grant, add, reclaim, clear, set | AI spending, administrators |
| Giving credits (`server.js`, `credit-usage.js`) | none: a plan across an await | allocate needed, give, reclaim | books, tenant credits |
| Tenant credits (`server.js`) | the figure Checkmarx One last gave, what was spent since | read, refuse | administrators, AI spending |
| Audit log (`audit-log.js`) | hash chain in month files, entries the disk refused | record, flush, resume, verify | everything that spends or changes |
| Instance lock (`instance-lock.js`) | one file per state folder | acquire, beat, release | other server processes |
| Launcher and versions (`launch.js`, `updates/`, `watchdog.js`) | running child, versions on disk, version on trial | install, switch, roll back, prune, restart | server, lock |
| Full update (`companion/`) | request and status files, containers | inspect, park, create, start, go back | container engine, server |
| Sign-ins (`session.js`, `handover.js`, `server.js`) | sessions, an index and files of fetched data | sign in, come back, end, save, drain | server start and stop |
| Accounts (`iam.js`, `scripts/reset-admin.mjs`) | one file of users and roles | create, change, delete, reset an administrator | everybody signed in |
| Password links (`password-reset.js`, `server.js`) | links by account | send, confirm, revoke | accounts, mail |
| Reminders (`automation.js`, `sla-issues.js`, `server.js`) | timer, ledger of who was told, escalations, issues | pass, escalate, open issues, reset | mail, Checkmarx One |
| Tracked reports (`rescan-window.js`, `tracked-reports.js`, `verification.js`, `server.js`) | rounds, developers' window, the verification in progress | minute step, refresh, rescan by developer or administrator, next round | Checkmarx One scans, mail |
| Govern, budgets (`govern/evaluate.js`, `cycle.js`, `routes.js`) | budgets, a state per month, figures of the last poll | evaluate, edit, approve, delete, restore | holds |
| Govern, holds (`govern/enforce.js`, `govern/cycle.js`) | `holds.jsonl`: per target, the budgets that hold it and what was there before | reconcile, enforce, verify, release, restore | Checkmarx One settings, IAM |
| FAE Flush (`fae-flush.js`) | a run: per project its step, what is pending and marked | copy, scan, compare, mark, revalidate, clean, answer, undo | Checkmarx One |
| Settings, reports, figures, source hosts, integrity, pages | | | |

What is hard, and what must hold:

- **Gate and connection.** A slot changes hands in two microtasks while calls of
  two priorities arrive; a token is fetched once for many requests, refused,
  forgotten while fetched. The limit holds, no slot is lost, readers pass
  refreshes, no request is stuck or sent again with a refused token.
- **Cache and states.** A reader takes a key over from a background refresh, and
  loads end in any order and in any way, while people act on what was read.
- **AI spending.** Overlapping requests for one vulnerability under different
  identities, several POSTs per request, answers lost after the charge, month
  ends, and administrators moving credits. No double send, no overrun of the
  pool or an allocation, no leaked reservation or claim, and a ledger that says
  what Checkmarx One charged.
- **Audit log.** A disk that refuses, half a line, a command beside the server,
  crashes. The chain holds, but for what a command wrote unnoticed, and agrees
  with the ledger.
- **Lock, launcher, full update.** Two servers during an update, a version that
  does not come up, an engine that fails in any call. One server per folder, and
  one that runs in the end.
- **Sign-ins, accounts, links.** Requests that overlap an await, a file written
  by another process, timers that had not fired when the server died.
- **Reminders.** Messages that fail one by one, passes that overlap settings and
  restarts. Nobody is nagged, nothing unsent is noted, the timer stays armed.
- **Tracked reports.** The minute's step, people and failures race for one
  verification per round. No scan forgotten, no round left without its rescan.
- **Govern.** Figures that are not known, edits, restores and a new month decide
  who is restricted; several awaited calls per target carry it out, each of
  which can fail or be the last before a crash, while people change the same
  target. Restrictions come and go for a reason; whatever was switched off is
  known and goes back; what is recorded as applied is off.
- **FAE Flush.** People judge findings while a run stops to ask, retries, is
  undone or brought back. What it marked can be undone, and is revalidated.

PROJECT.json lists these hazards at their lines, with the properties that answer
them or the reason why none does.

## Modules and code

**Semaphore** — `class Semaphore`. `pc` of a call is `idle`, `waiting` (in
`highQ` or `lowQ`), `granted` (its promise is resolved, its body not resumed) or
`running`. `Enter` and `Enqueue` are the two ways into `run()`, `Resume` the
microtask after the handoff, `HandToHigh`, `HandToLow` and `GiveBack` the
`finally`.

**UpstreamClient** — `CxOneClient.request()` with `TokenProvider`. A request
gets a token (`GetToken`: cached, joined or fetched), passes the gate
(`Send`, `Granted`), and is `Done`, backs off (`RetryLater`, `BackoffEnds`) or is
`Refused` and resets the token. Token requests are numbered and several may run,
since `reset()` forgets one in flight.

**TtlCache** — `class TtlCache`. `entries` is the Map in its order, `inFlight`
the map of promises, `load` the loader runs, `awaits` what each reader waits
for. `Read` (by `Hit`, `Join` or `Start`) is `wrap()` of a person, `Refresh` that
of the background, `Succeed` and `Fail` its settling, `Forget` is `delete()`,
`Expire` the passing of the ttl. A Map keeps one entry of a key, so `delete()`
removes the entry at its `Place` (`Without`); that there is never a second one is
proved (`OneEntryOfEachKey`). Written with `SubSeq` and not `SelectSeq`, whose
definition the provers cannot unfold.

**FindingState** extends it with what the entries say: `Verdict` changes a state
in Checkmarx One, a load `Reads` it at one moment of its run, `ActedOn` forgets
it, and `FirstHit` to `Again` are the two readings of `liveState()`.

**CreditBook** — the ledger and the allocations as operators on one record;
each method of the code is synchronous, so a handler composes operators in one
step. The ledger keeps the indexes and totals the code keeps, not the entries.

**AiSpend** — four handlers: `POST /api/relay/triage`, `POST
/api/relay/remediate`, `adminTriage()` and `adminRemediate()`. `Ask` is a
request up to its first await, `Begin` and `BeginRemediate` the claim, `Check`
the state read before a remediation, `Post`, `Accepted`, `Settle`,
`SettleAdmin` and `Fail` one POST from reservation to settlement, `GoOn` the
next scan's. `Accept`, `Deduplicate` and `JobFails` are Checkmarx One's side,
`Lose` an answer that never arrives (the client sends some again),
`Administer` allocations changing meanwhile, `NewMonth` the pool's period. The
tenant's cap and Govern's guard may refuse any reservation. `verify.auto` is on.

**CreditGive** — `Plan` is what an administrator's request computes and checks,
`Give` what it does after `tenantRefusal()`, over CreditBook, while reports
`Hold`, `Spend` or `Fail`, unused credits are reclaimed, months end and what the
findings need changes (`NeedChanges`). `AdminTriage`, `Triaged` and `NotTriaged`
are `adminTriage()` up to its POST and after it: it reserves in the pool alone, and
raises the project's allocation to what it used. What moved through others since a
gift was decided is kept as history (`stale`).

**AuditTrail** — the month files as sequences of lines (entries, unreadable
lines), each ending in half a line or not; `Record` is `record()` with `Resumed`
(`#resumeChain()`), `Seen` (what `#remember()` keeps) and `Flush`, `Settle` is
`settled()`, which with nothing held only remembers (`FlushOnly`), `Command`
another process that records, `Stop`, `Ended`, `Exit` the shutdown, `Crash` and
`Restart`. Beside it, `Charge` and `SaveLedger` write the ledger. What verify()
reads are `Entries`, the places of entries over all months.

**InstanceLock** — `acquire()`, the heartbeat and `release()`, one file system call
per step. `writeFileSync` is two: `Create` or `Beat` opens the file, which creates
or empties it, and `Write` fills it, if it is still the file that is there (`open`);
between them a starter reads no lock (`Lock`). `Exists`, `ReadDead`, `ReadLive`,
`GiveUp` and `Remove` are the turns of a starter's loop, `Release` reads and `Leave`
removes, `Crash` comes between any two calls. Time is counted in heartbeats
(`Tick`); no process is suspended. `robbed` is history: a starter removed the lock
of a running server that it had not read.

**Updates** — the launcher's child and its memory (`current`, `previous`, the
trial), the versions and the choice on disk, the update service (`Install`,
`Downloaded`, `SwitchNow`, `AutoUpdate`) and the self-check that goes back a
version. Versions in `Faulty` come up and fail, those in `Broken` never come up.
The trial is shorter than the start timer, as in the code (120 s and 150 s,
`launch.js:32-33`): a version may also exit unready between the two.

**FullUpdate** — the companion: one call of the engine per step, each of which
may be refused, time out before or after its effect, or be the last before the
companion dies. A server may stop before it acknowledges and after it, while the
companion watches it.

**SignIns** — the sessions of people, `SaveSoon` the 200 ms timer, `Minute` that
of every minute, `Fetch` the saving of what a request fetched, whose session may
have ended meanwhile (`asking`), `DrainTakes` and `DrainEnds` the writing of one
file, `Close` to `Start` a stop, a crash and the next server.

**Accounts** — one action per request of `iam.js` after it was admitted (`Admit`,
then `Acts`), `Create` and `Created` around the hash, `CliStarts`, `CliWrites`
and `CliEnables` the command that reads the same file and writes it once or twice.

**PasswordReset** — `Issue`, the mail, `Compare`, `Confirm` and `Hashed` of a
browser with a link open, other ways the password and the address change.

**Automation** — `runOnce()` from `Read` to `Note`, one `Send` per message,
`Issue` and `Escalate` of what is past its SLA, the timer (`Sync`, `TimerFires`,
`PassEnds`), `Restart` with what `#load()` reads.

**TrackedRescan** — one report. `verifs` keeps every verification ever started,
also those the report forgets. A `task` is a piece of work (the minute's step, a
rescan by developer or administrator, the next round), of which several are under
way at once, and its `pc` what it awaits. `Note` is one scan's status, `Poll` what
follows from all of them, `Conclude` and `Told` the findings and those told of them.
History says which guards a task passed before another's rescan, or the next round,
was noted (`stale`), and which verification such a task replaced (`overtaken`).

**GovernBudgets** — `evaluateBudget()` (`Evaluated`) and `#evaluate()` with
`reconcileRefs()` (`Wanted`, `Evaluate`): what is restricted is a set of
references (budget, month, breach, target). `Cycle` brings figures that are
fresh, stale or not reported; `Edit`, `Delete`, `Restore`, `RestoreCut` (a crash
inside), `GraceTimesOut` and `NewMonth` are what happens between cycles.

**GovernHolds** — how references are carried out: `reconcileRefs()`
(`Reconciled`), `enforce()` with its workers, and the runs of `cycle.js`. Per
target: the `setting` in Checkmarx One, who wrote it last, `theirs` (what people
had on before Govern's first hold and have not switched off since: a history
variable), the hold record `rec`, and the worker `task` with what it awaits.
Here references are abstracted to the budgets behind them, and which budgets
want what to every choice that respects graces, budgets left as they are and
budgets held until released. A failed call takes effect at once or never, and of
several writes for one user any part may have taken effect.

**FaeFlush** — one project of a run, its `step` as in the code. `turn` is the
work of a step across its awaits, `undo` an Undo across its own; `verdict` is
what Checkmarx One says of each finding and `Person` changes it; `ours` (a
history variable) is what the run marked and nobody changed since. The FAE scan is
Checkmarx One's: `ScanEnds` and `ScanBreaks` come at any time, and `poll()` is
`Scanned`, `StillRuns`, `NextWay`, `ScanFails` or `TooLong` by what it finds, or
fails with the scan still running. `early` (history) says that an answer went on
with a scan that had not completed.

**Upstream, Reads, Spending, Serving, Office, People** put components that share no state
side by side: a variable (`part`) chosen in the initial state says which of them
moves, so that one run asks its questions of each of them without their product.
They keep every constant as a parameter, and restate the properties of their
parts, so that what TLC checks on a small instance and what TLAPS proves for
every one is the same definition. Spending has AiSpend twice: of one tenant, and of
another where results share groups. **MC...** modules give the constants small
values. **...Proofs** hold the theorems. Semaphore and CreditBook are each used by
two components: the gate is both checked by itself and what a connection
implements, the books are one model with two kinds of users.

## Runs

States are distinct states; each run takes one to four minutes.

| Run | What it shows | Bounds, and why they are enough | States |
| --- | --- | --- | --- |
| Upstream | limit, no lost slot, readers first; a request ends, is not sent again with a refused token, and passes the gate as promised | the gate: 5 calls, limit 2 (three wait, in one line or both, while two hold slots, and a former holder arrives during a handoff). The connection: 2 readers and a refresh through 1 slot, one retry each, 3 token requests (one forgotten in flight, its successor, and one more) | 217,812 |
| Reads | shared loads, no reader behind a refresh; what an action forgot is not served again unless it was being read; marks are kept, and revalidated unless somebody went on with an unfinished scan; restrictions for a reason | 1 key, 2 readers, 3 loads (a reader's, another's and a poll's overlap); 2 findings, 1 change of mind of a person each, 1 failure (a poll while the scan runs, a batch of marks), 2 answers or times brought back (a Retry, and what it is asked next); 2 budgets with a target in common, 1 of them over its `maxTargets`, 2 months, usage up to 2, 2 changes (an edit and a restore, two restores) | 1,104,932 |
| Spend | no double triage or remediation, pool, allocations, holds, ledger against charges; gifts fit pool and need as decided; the audit chain and the books | 2 requests of all four kinds, pool of 3 (one remediation or three triages), one lost answer, one failed job, two jobs per result; 2 triage requests over 3 findings, 2 of a group in different scans; 2 administrators who give or triage at once, a pool of 2 (a need and an extra fill it, a triage beside them overfills it), needs of 0 or 1 that change, extras and triages of 1; 3 entries, 3 faults, 2 months of the log (one entry before a command's, the command's, one after it) | 947,908 |
| Serving | one server unless a lock was robbed, one child, one container; a starter decides; a broken version is replaced; a good container is kept and something runs again | 3 servers (two that start beside one that runs), stale after 3 heartbeats (the least the code allows); 2 versions, the trial ending before the start timer, the first breaks what worked and the second never comes up, 1 stop; 3 containers, 3 engine faults | 452,509 |
| Office | the developers' turn is taken; ended sign-ins stay ended, their data goes | 2 projects, 2 rounds, 2 verifications, 2 windows, one piece of work at a time (two are in People); 1 person with 2 sessions, 2 stops | 279,574 |
| People | an administrator is left, accounts agree, a link sets one password; nobody nagged, nothing unsent noted, the timer armed; a round keeps its rescan and its one turn, no scan is forgotten, but for guards passed too early | 3 accounts, 2 addresses, 1 role, 1 command; 2 browsers, 2 links, 3 passwords; 2 projects of one developer, 1 limit; 1 scanned project, 2 pieces of work at once, 2 rounds, 2 verifications, 2 windows | 1,116,078 |
| GovernHolds | undo record, applied is off, holds and releases carried out | 1 target of any kind, 2 budgets of which 1 holds until released, 2 parts of which a user inherits 1: a partial restriction, half-done writes, overlapping budgets | 85,389 |
| AuditForks, RescanLost, HoldsComeBack, IssuedAgain, PutBackAgain | *violated*, see [below](#where-the-code-does-otherwise) | the same components, smaller | |

Requests and targets do not know each other except through the state named
above, so a second one of each is enough for every pairwise race; targets of
Govern's holds share only the run, and one suffices. `SYMMETRY` is used for
requests, readers, loads and accounts, in runs without liveness. Deadlock is not
checked where something really stops: a report at its last round (Office,
RescanLost), an update that ended (Serving), requests at their bound (Upstream).
Max..., Months, Keep, StartTimeout and TrialTime bound counters in guards or
stand for constants of the code; a bound named Max... is not in the code.

Where two actors at once break what a document promises, both are in the run, and the
property leaves out by name what they break, and only that (`OneOfEach`,
`GivesWhatItMay`, `RoundsKeepTheirRescan`; [below](#where-the-code-does-otherwise)).
Spend limits the administrator of its first tenant to adding and reclaiming:
setting or clearing extra credits (`credit-allocations.js:290`, `:297`) can take an
allocation below what is spent or held.

## Fairness

- *UpstreamClient*: every round trip and token request has a timeout, `sleep()`
  ends, the event loop resumes what is resolved. Arrivals are not fair. The gate
  it is shown to implement has the fairness of Semaphore.
- *InstanceLock*: a process is scheduled, its timers fire, and its calls return; time
  passes.
- *Updates*: a server told to stop stops, the start timer fires, a failing child
  is killed, the pause ends, the server's age grows. *FullUpdate*: the companion
  takes its next step (it is restarted by the engine).
- *SignIns*: the minute's timer runs, writes do not fail for ever (strong), the
  queue of files is a Map written in order, so each of its sessions has its turn
  (strong, per session), a server that went down is started again.
- *TrackedRescan*: the minute's step is taken again and again, though other work
  may hold the report (strong); a call is answered in the end; starting the
  scans does not fail for ever, since a project that cannot be scanned only
  waits. That polling succeeds is not assumed of the scans themselves.
- *GovernHolds*: the scheduler starts cycles and each reaches its evaluation
  infinitely often; a worker at work takes a step (timeouts again); reading,
  writing and checking do not fail every time, and a run does not pass its
  deadline every time (strong fairness of `Begin`, `Read`, `Write`, a `Check`
  that finds the restriction in place, `PutBack`, a `Recheck` that finds it
  back). Without the last, a Checkmarx One that refuses for ever keeps a target
  failed for ever, as the code intends. Requests, people, restores and crashes
  are not fair.

In Upstream, Serving and Office each is stated while its part is the one that
moves. The other components have no liveness property: what they promise for the
end depends on people or on Checkmarx One.

## Refinement

The gate of Semaphore is an abstract specification too: what any caller may rely
on. `UpstreamClient` carries the gate's variables beside its own, and
`Gate == INSTANCE Semaphore WITH Calls <- Requests, pc <- slot` maps a request to
a call: idle before the gate and after it, waiting in a line, granted, or running
during its round trip. `PassesTheGate == Gate!FairSpec` is a property of the run
Upstream: whatever tokens, refusals and back-offs do, every step is one of the
gate or leaves it alone, and the fairness the gate assumes of its callers (every
call ends) follows from the timeouts of the connection. A back-off slept with the
slot breaks it. The safety part (`Gate!Spec`) is also a theorem,
`ConnectionImplementsGate`, for any requests, limit and tokens; what TLAPS proves
of Semaphore therefore holds of the requests, and `ConnectionIsWithinLimit` takes
two of its theorems over through an instance of SemaphoreProofs.

GovernHolds leaves open what budgets want, and GovernBudgets says what they do
want: the first is the wider, so what is shown of it does not depend on the
second.

## What is proved

TLAPS checks these for every value of the constants that the assumptions allow:
any finite or infinite sets unless finiteness is named, any bounds, and so any
number of requests, readers, findings, people, restarts and failures.

| Module | Theorem | Property of a run | Beside the assumptions on constants |
| --- | --- | --- | --- |
| SemaphoreProofs | LimitHolds | NeverOverLimit | `Limit` is positive |
| | SlotsAreUsed | NoIdleSlotWhileWaiting | |
| | ReadersComeFirst | ReaderFirst | |
| | Inductive, TypeCorrect | | |
| UpstreamProofs | RefusedTokenIsNotSentAgain | NeverTheRefusedToken | none |
| | ConnectionImplementsGate | safety part of PassesTheGate | none |
| | ConnectionIsWithinLimit | | `Slots` is positive |
| | TokensAgree, PartsAreThemselves | | |
| ReadsProofs | ReadersNeverBehindRefreshes | ReaderNeverBehindRefresh | a cache that holds an entry, keys |
| | LoadsStayInOrder | LoadsInOrder | |
| | WhatIsOlderRaced | OlderOnlyIfRaced | |
| | EveryMarkIsKept | MarksAreKept | |
| | DoneWasRevalidated | DoneIsRevalidated | |
| | RestrictionsHaveReasons | OnlyForAReason | |
| | OneEntryOfEachKey, OneUpstreamCall, KeysStayReadable, ReadersAndLoadsInUse, ReadingPartsAreThemselves, and the invariants CacheIsSound, StatesAreSound, RunKnowsItsMarks | | |
| SpendingProofs | PoolIsKept | PoolNeverOverrun | finitely many requests and findings, each of a project; a scan is of one project |
| | HeldCreditsAreInFlight | HeldForInFlight | |
| | LedgerIsWhatWasCharged | LedgerMatchesCharges | |
| | AllocationIsKept | WithinAllocation | administrators only add and reclaim |
| | ChainIsKept | ChainHolds | the log has a month |
| | BooksAreKept | BooksAgree | |
| | ClaimsAndRequestsAgree, NoResultTriagedTwice | the two parts of GroupTriagedOnce | for the second, every result has an identity of its own |
| | NoResultRemediatedTwice | RemediatedOnce | the same, and details can be read |
| | GivenIsFreeAndNeeded | GivesWhatItMay | finitely many projects; the pool, extras and needs are numbers |
| | Inductive, TrailInductive, SpendingPartsAreThemselves | | |
| GovernHoldsProofs | UndoRecorded | Undoable | `NoPre` is no set of parts, `Inherited` are parts |
| | AppliedMeansOff | AppliedIsOff | |
| | Inductive, TypeCorrect | | |
| ServingProofs | AGoodOneIsKept | GoodOneIsKept | "none" is no container |
| | OneServesAtATime | OneOfEach | the same; "no file" is neither a lock nor a server |
| | OneServerUnlessRobbed, OneChildAtATime, OneContainerAtATime | the three parts of OneOfEach | of these, each its own |
| | VersionsAreOnDisk, ContainersAreWhereRemembered, ServingPartsAreThemselves | | |
| OfficeProofs | EndedSessionsStayEnded | EndedStaysEnded | none |
| | RoundsAreRescannedOnce | | none |
| | OfficePartsAreThemselves | | |
| PeopleProofs | AnAdminRemains | AlwaysAnAdmin | `None` is no account |
| | AddressesAndRolesAgree | AccountsAgree | |
| | ALinkSetsOnce | LinksDoTheirWork | none |
| | NothingToldTwice | NotNagged | `MaxAge` is a number, a project has a developer with a mailbox or none, and the marker of the recipients' list is no mailbox |
| | WhatIsNotedWentOut | NotedWentOut | |
| | RemindersGoOn | SchedulerAlive | |
| | ReportsKeepTheirRescans | RoundsKeepTheirRescan | none |
| | AccountsAreSound, EachPartIsItself | | |

Each theorem is of its component's own specification, but for `OneServesAtATime`.
`PartsAreThemselves`, `ReadingPartsAreThemselves`, `SpendingPartsAreThemselves`,
`ServingPartsAreThemselves`, `OfficePartsAreThemselves` and `EachPartIsItself` add
that the module the run checks has no other behaviours: each of its steps is one of
the component or leaves it alone.

The hypotheses are limits that the code has, not conveniences. Setting or clearing
extra credits takes an allocation below what is spent; results that share an
identity are told apart by nothing the ledger keeps; and what happens when the
details cannot be read is said [below](#where-the-code-does-otherwise). The others say
no more than that what is counted is a number, and that the value standing for "none"
is not also a value. What breaks a promise with several administrators, pieces of work
or servers is not assumed away: the theorems hold of any number of them, and the
properties name it.

None of these properties is inductive as it stands. What each needs:

*The gate.* That handing a slot over leaves the number of holders alone needs
the first in line to be no holder yet. So `IInv` adds that a line holds only
waiting calls of its priority, each once, and that every waiting call is in its
line; `ReadersComeFirst` uses the latter.

*The connection.* `reset()` forgets a token request in flight whose answer is
stored all the same. That it is none of the refused tokens is because a refused
token had arrived, and none arrives twice: `IInv` ties what was refused, what is
stored and what is being fetched. The refinement has a step per action: those on
tokens leave the gate alone, `Send`, `Granted` and the three ways to end are
`Enter` or `Enqueue`, `Resume`, and `HandToHigh`, `HandToLow` or `GiveBack`.

*The cache.* A key's slot can be taken over, so a load may run that is in no
slot. `CacheInv` says which: only background ones. From that, two readers' loads
of one key are one.

*What the cache says.* `StateInv` adds that no key has two entries, that nothing
was acted on beyond the state it is in, and that a load in flight which no action
overtook was answered with something at least as new as the last action. Eviction
and `delete()` are lemmas on sequences (`KeysOnce`).

*The books.* `period + reserved <= Limit` is inductive once the books hold
numbers and every request in flight knows what it sends: a reservation looks at
both, and settling moves credits from one to the other without an await.
`ClaimsInv` says that each key of what a request sends names it, and each key
that names somebody is one of theirs. `HeldInv` and `LedgerInv` are equations
between a total of the books and a sum over the requests. That a sum changes by
what one request's share changes is proved without induction: were there a
finite set for which it fails, there would be a smallest (`StrictSubsetOrdering`
is well-founded), and it cannot be. `OnceInv` says that what is recorded is
indexed, and that what is being sent is not recorded yet; for it the POSTs of one
request must share no finding (`ApartInv`) and the claims keep others away.

*Credits given.* A plan is checked before an await and carried out after it,
whatever the books are then. `GiveInv` says what a plan that is not stale may still
count on: with it added, the pool is not overcommitted, and the account holds no more
than its findings need beside what is given as extra; and of each account what is
spent and held by reports stays within what it was allocated. Spending, holding, failing and reclaiming only
make room in the pool, since they move credits within its total or out of it, by the
same lemmas on sums; only another gift or a triage takes room, and marks the plans
that are pending.

*The holds.* `Undoable` and `AppliedIsOff` speak of records, but what writes
records are workers that remember one they read earlier. `IInv` therefore ties
the worker to the record at each of its awaits: it carries the same `pre`, the
record says `writing` while it writes and checks, `releasing` or `pending` while
it puts back, and, for the kinds that are on or off, the setting it wrote is off
until people change it. It also strengthens `Undoable`: of a project, all that is
people's lies in the record, so that putting back may overwrite. `reconcileRefs()`
keeps all of this for any worker in flight because it never leaves the active
states (`ReconcileOne`); then one lemma per kind of step, and `OneTarget` says
that looking at the worker's own target is enough.

*The budgets.* A grace is honoured by evaluations that see only the state of the
month. `GovernInv` says that this state knows every grace that still lasts, and
that what is restricted this month is restricted on the figure the index has.

*FAE Flush.* An Undo puts back what it read earlier and then knows nothing as
marked, and a step ends by what the project was when it began. `FlushInv` says
what an Undo has read still covers of what is marked, which step may be under way
while the project is at another, that what follows a scan follows one that has
completed, whose results no longer change, unless an answer went on without it, and
that what follows the revalidation follows one that found nothing or was overruled.

*The audit trail.* That the chain holds, but for what is listed, depends on what
the server takes for its end. Between two calls it knows the log by the name and
size of its last file alone. `Remembers` says what that is worth: the log has grown
to that size or further; when it has that size and nothing is held, the chain ends
with the server's last entry, or that entry or the one it follows is listed; and
when the current month ends in half a line that was not missed, the entries held
begin with the one it is half of. What is held can be written in order
(`Ready`): months do not go back, each follows the one before it, the first follows
the end of the chain, and no entry of a later month is on the disk unless a command
wrote it meanwhile. `Loop` is what `flushSync()` keeps after each write, whichever
of them land behind half a line and are lost (`Gone`), and `FlushDoes` what it
leaves when the disk refuses at any of them. `AddedKeeps` is the step of the chain:
an entry put at the end of its month comes between two others only if those are
listed. The written disks are a recursive function; that it has the values it
should for any number of entries is proved by its least counterexample
(`WrittenIs`, `WrittenLoop`). For the books, an entry is on the disk, held, or
listed as lost (`Moved`), and a stopping server has saved what it had when it began
to stop (`BookInv`).

*The lock.* `LockInv` says what a running server rests on until one was
robbed: the file is its own, with a beat of this interval or the one before, so that
no starter finds it stale; and a starter about to remove a lock that it read found its
owner gone for good. A starter that read no lock, or whose lock has been replaced
meanwhile, is exactly one that may rob.

*The launcher.* `LaunchInv` says what each await of the supervisor rules out: no
start is pending while a child lives. `OnDisk` says which versions must not be
pruned: the one that runs, the one chosen and the one to go back to.

*Rescans* (OfficeProofs; PeopleProofs takes the theorem over for the report of the run,
through an instance). A task of a report passes its guards, awaits Checkmarx One, and writes what
it computed. `RescanInv` says what a guard that is not stale is still worth when it
writes: nobody noted a rescan of this round since, and no verification whose scans
run is in progress. What is noted makes the guards of every other task stale, so two
that are not stale never write for one turn; and only the last verification can be in
progress, or was replaced by one that passed its guard too early.

*The full update.* Which container a call is about to stop, park, remove or start
is what the companion remembers. `IInv` says where that container is at every
call, and that only the container with the name may run.

*Sign-ins.* A restart brings back the index, so the index must say of ended
sessions what the property says of the signed-in ones (`SignInv`).

*Accounts.* A request whose password is being hashed will add an account to
whatever is in memory by then, and the command will write what it read. So `IInv`
says that the file, the memory and what the command holds all have an active
Admin, and each has room for the accounts being made.

*Links.* `ResetInv`: a browser that awaits something is the only one, its link has
set no password yet, and a link that is stored or not yet issued has set none.

*Reminders.* `RemindInv`: what people were told is noted, or the pass under way
still knows of it and does not have that message to send again.

## Only model-checked

- Liveness (`RequestEnds`, `StarterDecides`, `BrokenIsReplaced`, `RunsAgain`,
  `TurnIsTaken`, `DataGoes`, `HeldIsRestricted`, `FreedIsPutBack`) and the
  fairness that `PassesTheGate` promises: fairness speaks of ENABLED, which the
  provers do not reason about.
- `GroupTriagedOnce` as Spending states it, of its second tenant: both of its parts
  are theorems of AiSpend, which that tenant is an instance of.

## Where the code does otherwise

Each of these is a run that finds a line of the documentation or a comment
contradicted:

- **AuditForks**. "Another process ... may have appended since: carry on the chain
  from what is really on disk" (`audit-log.js:133`). `flushSync()` remembers the
  size of the log even when it had nothing to write (`:191`), and `settled()` calls
  it before the log is browsed, exported or verified. If a command recorded
  something before, the server then takes its entry for its own, and the next one
  it records does not follow it: verify() reports a broken chain though nothing
  failed and nobody touched the log. The proof of `ChainHolds` found it.
- **RescanLost**. "The result comes back to them as an updated report either
  way" (`rescan-window.js:8`). The statuses of the scans are stored before the
  findings are read; if that read fails, the next step sees nothing new and
  ends the verification without a result.
- **HoldsComeBack**. "Released by an admin while it was being written: put back
  at once" (`govern/enforce.js:379`). The record written ahead has the
  references read before the await, so a restore in between is undone: the
  target is restricted, and stays so until an evaluation drops the references
  (which one that leaves the budget as it is does not).
- **IssuedAgain**. "Each finding is put in an issue once" (`sla-issues.js:4`).
  What issues were opened is saved and never read back (`automation.js:134`).
- **PutBackAgain**. "It will not install MZ-... again by itself", says the mail of
  the self-check that goes back a version (`server.js:8606`). Automatic updates
  leave out what the launcher rolled back (`updates/service.js:109`); going back
  from the self-check is recorded as a switch (`launch.js:130`), and the version
  is installed again.

The properties of the passing runs leave out, by name, what the code does not
keep, each with the state it needs:

- `OlderOnlyIfRaced`: `delete()` leaves a load in flight alone (`ttl-cache.js:55`),
  so what it read before the action is stored after it and served for its ttl.
  For the same reason `VerdictCounts` of FindingState fails: `liveState()` may
  join a load that began before the verdict.
- `ChainHolds`: after the disk kept half of a line, the retry joins the half and
  the entry is lost (`audit-log.js:182`), though `test/audit-log.test.js:123` says
  held entries are written in order; and a command that writes while the server
  holds entries forks the chain (`audit-log.js:135`), as does one whose entry
  `settled()` remembered unread (AuditForks above).
- `BooksAgree`: charges of the 200 ms before a crash, or made after the shutdown
  wrote the ledger (`server.js:11463`), are in one book only.
- `OneOfEach`: a starter that reads the lock while it is being written (emptied by
  the heartbeat's `writeFileSync`, `instance-lock.js:72-74`, or just created, `:45`)
  takes the server for dead and removes its lock (`:61-62`), and one that found a
  dead lock removes whatever is there by then; either way two servers run, and two
  starters are enough, against "one server per state folder" (`:2`).
- `BrokenIsReplaced`: a version that exits unready after the trial's 120 s and before
  the start timer's 150 s is started again without a trial (`launch.js:117`, `:120`),
  and the timer then only kills it (`:65`), though `launch.js:8-10` says it is put
  back.
- `GivesWhatItMay`: `adminTriage()` reserves in the pool and raises the project's
  allocation (`server.js:6261`, `:6279-6284`) without looking at what is already
  promised to others, against "never more than it has free" (`:6085`); and two
  administrators, or one and a changed need, give on figures of before the await
  (`:7874`, `:7335`).
- `RoundsKeepTheirRescan`: two rescans of one report (two developers, or one and the
  minute's step or an administrator), or a rescan and the next round, each pass the
  guards (`server.js:6934`, `:6738`, `:7691`) before either is noted (`:6784`): a
  round's turn is taken twice, and the scans of the first are followed by nobody.
- `DoneIsRevalidated`: a project is done on the results of a scan that has not
  completed when *Retry* answers a failed poll (`fae-flush.js:875`, `:625`) or *Mark
  anyway* a failed new copy, though `fae-flush.js:611` says "never without an FAE
  scan's results".
- `EndedStaysEnded`: a sign-out not saved when the server died comes back.
- `AccountsAgree`: two accounts made at once may share an address, and a role
  removed while an account with it is made is gone (`iam.js:359`).
- `NotNagged`: what was told of a project that could not be read is forgotten
  (`cxone/risks.js:433`, `automation.js:104`), though `automation.js:29` says
  once per threshold; the same after another message to the same address failed
  or the server stopped before the pass was noted.
- `MarksAreKept`: a mark whose answer was lost, or posted while an Undo was under
  way, cannot be undone (`fae-flush.js:972`, `:1083`), though `fae-flush.js:22`
  says every result is kept.
- `OnlyForAReason`: a budget that waits for the confirmation of its targets is
  skipped (`govern/cycle.js:217`), and what it held from last month is released,
  though `docs/govern.md:192` says it stays until someone restores it; and a
  crash inside a restore loses its grace (`govern/cycle.js:507`).

Stated in the modules and violated there, without a run of their own:
`RemediatedOnce` (AiSpend with `ReadsFail`: when reading a finding's details fails,
the handler goes on as if it had never been remediated and does not ask the ledger,
`server.js:5640`, against "only remediated again when the administrator allows it",
`:5638`; Spend has it without),
`OneTokenRequest` (UpstreamClient: `reset()` lets a second one start, against
"a single token request", `auth.js:44`), `FailedChangesNothing` (FullUpdate: an
engine call that timed out after its effect) and `OnlyStillToVerify` (FaeFlush:
`mark()` posts what was compared before the run stopped to ask, over what a
person judged since, against `fae-flush.js:952-953`).

## Not modelled

Tenant credits (a figure that only refuses more); hands-off and diagnostics;
reading and matching what Checkmarx One returns; reports and figures, settings,
certificates, source hosts, integrity and the browser code: parsing, formatting,
I/O or sequential computation, each with its reason in PROJECT.json. They are
most of the lines: a quarter of the code is pages that run in a browser
(`public/`, `report.client.js`), and most of `server.js` are routes that check a
permission, call one function and answer. The map covers the lines that change
state across an await, not those.

Known behaviours that no property is about:

- *Spending*: a result listed under two risks can be remediated twice
  (`credits.js:86`); a body cut off reads as published (`cxone/client.js:195`);
  the tenant's figure is noted with what was spent when its answer arrives
  (`server.js:8724`).
- *Lock*: a server suspended for longer than the stale window goes on beating when it
  resumes (`instance-lock.js:72`).
- *Rescans*: a verification that only waits for scans from elsewhere is forgotten when
  the round moves on (`server.js:7691`).
- *Updates*: a probe of a port that outlives its version (`launch.js:77`); a
  status that stays "running" after the companion died (`updates/companion.js:53`).
- *Links and accounts*: the failed mail of an older link revokes a newer one
  (`server.js:1442`); a link revoked while a password is compared still sets it
  (`:1487`); a password written from a file read before the command changed it
  (`iam.js:526`).
- *Reminders*: with a list and the developers told, a failure of the list alone
  is not tried again (`automation.js:493`); a tenant removed while its pass runs
  (`server.js:5053`).
- *FAE Flush*: an orphaned project after a crash (`fae-flush.js:807`), results
  read in part (`:904`), a project that ends as skipped after it was marked
  (`:1035`), an Undo after a run with another mark was started (`:1072`), several
  projects at once.
- *Govern*: a line of `holds.jsonl` torn by a crash swallows the next record
  (`govern/store.js:71`); two approvals of one request at once
  (`govern/routes.js:415`).

## Plan

Written, in this order: Semaphore, TtlCache, CreditBook, AiSpend, InstanceLock,
CreditGive, TrackedRescan, GovernHolds; then UpstreamClient, FindingState,
Updates, FullUpdate, SignIns, Accounts, PasswordReset, AuditTrail, Automation,
FaeFlush, GovernBudgets; then the proofs and, for them, the parametric modules
that put components side by side.

What the proofs still leave:

1. `GroupTriagedOnce` of the second tenant of Spending, by a module of AiSpend's
   proofs alone that can be instantiated for it, as UpstreamProofs does with
   SemaphoreProofs.
2. That GovernBudgets implements what GovernHolds leaves open of budgets.
3. The parts listed under [Not modelled](#not-modelled) that change state: several
   FAE projects at once, and what the tenant's figure refuses.
