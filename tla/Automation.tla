------------------------------ MODULE Automation ------------------------------
(***************************************************************************)
(* Unattended reminders: the passes of src/src/automation.js, the ledger   *)
(* of what was reported, the escalations and issues of findings past their *)
(* SLA (src/src/sla.js, src/src/sla-issues.js), and the timer.             *)
(*                                                                         *)
(* A finding is named by its project, one each.  Its age is how many       *)
(* limits it has passed; past the last one it is past its SLA.  A pair of  *)
(* a finding and a limit is reported, and kept in the ledger, once; 0      *)
(* stands for its escalation.  What a mail says, which projects are in     *)
(* focus and the mails to code authors are left out.                       *)
(***************************************************************************)
EXTENDS Naturals

CONSTANTS Projects,
          Addresses,    \* developers' addresses
          List,         \* the fixed list's
          None,         \* no address is known
          Developer,    \* who scanned each project: an address or None
          MaxAge,       \* bound: limits passed
          ReadsFail,    \* a project's findings may be unreadable in a pass
          OpensIssues   \* settings.sla.openIssues

Limits == 1..MaxAge

VARIABLES open,       \* findings there are
          age,        \* limits each has passed
          ledger,     \* notified: pairs reported
          escalated,  \* findings escalated, in memory
          saved,      \* and in automation-state.json
          issued,     \* findings put in an issue, in memory
          pass,
          enabled,    \* automation.enabled
          timer,      \* #timer is set
          firing,     \* the pass is the timer's
          told,       \* history: pairs whose own message went out, that it should know of
          nagged,     \* history: those that were sent again
          listed,     \* history: findings in an issue, while open
          relisted    \* history: those put in another

findings == <<open, age>>
memory   == <<ledger, escalated, saved, issued>>
schedule == <<enabled, timer, firing>>
history  == <<told, nagged, listed, relisted>>
vars     == <<findings, memory, pass, schedule, history>>

Pairs    == Projects \X (0..MaxAge)
Messages == [to : Addresses \cup {List}, about : SUBSET Projects]

(* A pass: the findings it read, those past their SLA, the pairs to report *)
(* and in which messages, of which some are still to send; the addresses   *)
(* that failed, and what went out.                                         *)
NoPass   == [pc |-> "no", dry |-> FALSE, seen |-> {}, overdue |-> {}, new |-> {},
             messages |-> {}, todo |-> {}, failedTo |-> {}, out |-> {}]

AutomationTypeOK ==
  /\ {open, escalated, saved, issued, listed, relisted} \subseteq SUBSET Projects
  /\ age \in [Projects -> 0..MaxAge]
  /\ {ledger, told, nagged, pass.new, pass.out} \subseteq SUBSET Pairs
  /\ pass.pc \in {"no", "reading", "escalating", "issuing", "sending"}
  /\ {pass.seen, pass.overdue} \subseteq SUBSET Projects
  /\ pass.todo \subseteq pass.messages /\ pass.messages \subseteq Messages
  /\ {enabled, timer, firing} \subseteq BOOLEAN

AutomationInit ==
  /\ open = Projects
  /\ age = [p \in Projects |-> 0]
  /\ ledger = {} /\ escalated = {} /\ saved = {} /\ issued = {}
  /\ pass = NoPass
  /\ enabled = TRUE /\ timer = TRUE /\ firing = FALSE
  /\ told = {} /\ nagged = {} /\ listed = {} /\ relisted = {}

Of(pairs, ps) == {x \in pairs : x[1] \in ps}

-----------------------------------------------------------------------------
(* Findings grow older, are fixed, and come back. *)
Older(p) ==
  /\ p \in open
  /\ age[p] < MaxAge
  /\ age' = [age EXCEPT ![p] = @ + 1]
  /\ UNCHANGED <<open, memory, pass, schedule, history>>

Fixed(p) ==
  /\ p \in open
  /\ open' = open \ {p}
  /\ age' = [age EXCEPT ![p] = 0]
  /\ told' = told \ Of(told, {p})
  /\ listed' = listed \ {p}
  /\ UNCHANGED <<memory, pass, schedule, nagged, relisted>>

Back(p) ==
  /\ p \notin open
  /\ open' = open \cup {p}
  /\ UNCHANGED <<age, memory, pass, schedule, history>>

(* reset(): "so the next run reports from scratch". *)
Reset ==
  /\ ledger' = {}
  /\ saved' = escalated
  /\ told' = {x \in told : x[2] = 0}
  /\ UNCHANGED <<findings, escalated, issued, pass, schedule, nagged, listed, relisted>>

(* Settings are saved: sync(). *)
Sync(on) ==
  /\ enabled' = on
  /\ timer' = on
  /\ UNCHANGED <<findings, memory, pass, firing, history>>

-----------------------------------------------------------------------------
(* tick(), unless a pass is under way.  A timer that fires then, or while  *)
(* reminders are paused, is armed again at once.                           *)
Begin(dry) == pass.pc = "no" /\ pass' = [NoPass EXCEPT !.pc = "reading", !.dry = dry]

TimerFires(dry) ==
  /\ timer
  /\ Begin(dry)
  /\ timer' = FALSE
  /\ firing' = TRUE
  /\ UNCHANGED <<findings, memory, enabled, history>>

RunNow(dry) ==
  /\ Begin(dry)
  /\ UNCHANGED <<findings, memory, schedule, history>>

(* Fault: only an interval is armed again. *)
FaultPassEnds(interval) ==
  /\ pass' = NoPass
  /\ firing' = FALSE
  /\ timer' = (enabled /\ (interval \/ timer))
  /\ UNCHANGED enabled

(* The pass is over: an interval counts again from now; otherwise the      *)
(* timer is armed if this pass was the timer's and nobody armed it since.  *)
PassEnds(interval) ==
  /\ pass' = NoPass
  /\ firing' = FALSE
  /\ timer' = (enabled /\ (interval \/ timer \/ firing))
  /\ UNCHANGED enabled

(* No session, no verified mail server, or Checkmarx One cannot be read.   *)
Fails(interval) ==
  /\ pass.pc = "reading"
  /\ saved' = escalated
  /\ PassEnds(interval)
  /\ UNCHANGED <<findings, ledger, escalated, issued, history>>

(* compose(): one message per developer or per project, the list's, both.  *)
ToDevelopers(ps, perProject) ==
  LET known == {p \in ps : Developer[p] # None}
  IN  IF perProject THEN {[to |-> Developer[p], about |-> {p}] : p \in known}
      ELSE {[to |-> Developer[p], about |-> {q \in known : Developer[q] = Developer[p]}] : p \in known}

Composed(ps, audience, perProject) ==
  (IF audience = "list" THEN {} ELSE ToDevelopers(ps, perProject))
    \cup (IF audience = "initiator" \/ ps = {} THEN {} ELSE {[to |-> List, about |-> ps]})

(* A finding's own message, wasSent(): its developer's, or else the list's. *)
Own(p) ==
  LET its == {m \in pass.messages : p \in m.about}
  IN  IF \E m \in its : m.to # List THEN {m \in its : m.to # List} ELSE its

(* decide(): what is open (a project that cannot be read has nothing),     *)
(* what has passed a limit not reported yet, and the messages of it.  What *)
(* was escalated or put in an issue is forgotten when it is not there.     *)
Read(unread, audience, perProject) ==
  LET seen == open \ unread
      new  == {x \in seen \X Limits : x[2] <= age[x[1]]} \ ledger
      ms   == Composed({x[1] : x \in new}, audience, perProject)
  IN  /\ pass.pc = "reading"
      /\ escalated' = escalated \cap seen
      /\ issued' = issued \cap seen
      /\ told' = {x \in told : x[2] # 0 \/ x[1] \in seen}
      /\ pass' = [pass EXCEPT !.pc = "escalating", !.seen = seen,
                              !.overdue = {p \in seen : age[p] = MaxAge}, !.new = new,
                              !.messages = ms, !.todo = IF pass.dry THEN {} ELSE ms]
      /\ UNCHANGED <<findings, ledger, saved, schedule, nagged, listed, relisted>>

(* A message of these pairs, their own, goes out. *)
Tells(pairs) ==
  /\ told' = told \cup Of(pairs, open)
  /\ nagged' = nagged \cup (told \cap pairs)

(* Fault: what cannot be escalated counts as escalated. *)
FaultEscalate(ok) ==
  LET items == IF pass.dry THEN {} ELSE pass.overdue \ escalated
  IN  /\ pass.pc = "escalating"
      /\ escalated' = escalated \cup items
      /\ Tells(IF ok THEN items \X {0} ELSE {})
      /\ saved' = escalated'
      /\ pass' = [pass EXCEPT !.pc = "sending", !.out = IF ok THEN items \X {0} ELSE {}]
      /\ UNCHANGED <<findings, ledger, issued, schedule, listed, relisted>>

(* escalateOverdue(): one email about those not escalated yet.  It is      *)
(* saved with the issues, if any are to be opened.                         *)
Escalate(ok) ==
  LET items == IF pass.dry \/ ~ok THEN {} ELSE pass.overdue \ escalated
  IN  /\ pass.pc = "escalating"
      /\ escalated' = escalated \cup items
      /\ Tells(items \X {0})
      /\ saved' = IF OpensIssues THEN saved ELSE escalated'
      /\ pass' = [pass EXCEPT !.pc = IF OpensIssues THEN "issuing" ELSE "sending", !.out = items \X {0}]
      /\ UNCHANGED <<findings, ledger, issued, schedule, listed, relisted>>

(* openSlaIssues(): an issue in each project that lets one be opened. *)
Issue(opened) ==
  LET items == IF pass.dry THEN {} ELSE (pass.overdue \ issued) \cap opened
  IN  /\ pass.pc = "issuing"
      /\ issued' = issued \cup items
      /\ listed' = listed \cup (items \cap open)
      /\ relisted' = relisted \cup (listed \cap items)
      /\ saved' = escalated
      /\ pass' = [pass EXCEPT !.pc = "sending"]
      /\ UNCHANGED <<findings, ledger, escalated, schedule, told, nagged>>

(* A message goes out, or does not. *)
Send(m, ok) ==
  LET within == Of(pass.new, m.about)
      own    == {x \in within : m \in Own(x[1])}
  IN  /\ pass.pc = "sending"
      /\ m \in pass.todo
      /\ pass' = [pass EXCEPT !.todo = @ \ {m},
                              !.failedTo = IF ok THEN @ ELSE @ \cup {m.to},
                              !.out = IF ok THEN @ \cup within ELSE @]
      /\ Tells(IF ok THEN own ELSE {})
      /\ UNCHANGED <<findings, memory, schedule, listed, relisted>>

(* Fault: one failure, and nothing counts as sent. *)
FaultWentOut == {x \in pass.new : pass.failedTo = {} /\ Own(x[1]) # {}}

(* "Only mark what actually went out", which is told by the address.       *)
WentOut == {x \in pass.new : \E m \in Own(x[1]) : m.to \notin pass.failedTo}

(* applyLedger(): what went out is noted, and what is not there any more   *)
(* is forgotten.  Lost to it without having been fixed are those of        *)
(* projects that could not be read, and those sent to an address another   *)
(* message to which failed.                                                *)
Note(interval) ==
  /\ pass.pc = "sending"
  /\ pass.todo = {}
  /\ ledger' = Of(ledger \cup (IF pass.dry THEN {} ELSE WentOut), pass.seen)
  /\ told' = {x \in told : \/ x[2] = 0
                           \/ /\ x[1] \in pass.seen
                              /\ x \in pass.new => \A m \in Own(x[1]) : m.to \notin pass.failedTo}
  /\ saved' = escalated
  /\ PassEnds(interval)
  /\ UNCHANGED <<findings, escalated, issued, nagged, listed, relisted>>

(* The server stops and starts again: what the pass had not noted is not   *)
(* known any more, and #load() does not read what was put in issues.       *)
Restart ==
  /\ pass' = NoPass
  /\ escalated' = saved
  /\ issued' = {}
  /\ told' = {x \in told : IF x[2] = 0 THEN x[1] \in saved ELSE x \notin pass.new}
  /\ timer' = enabled
  /\ firing' = FALSE
  /\ UNCHANGED <<findings, ledger, saved, enabled, nagged, listed, relisted>>

AutomationNext ==
  \/ \E p \in Projects : Older(p) \/ Fixed(p) \/ Back(p)
  \/ Reset \/ Restart
  \/ \E on \in BOOLEAN : Sync(on)
  \/ \E dry \in BOOLEAN : TimerFires(dry) \/ RunNow(dry)
  \/ \E unread \in (IF ReadsFail THEN SUBSET Projects ELSE {{}}),
        audience \in {"initiator", "list", "both"}, perProject \in BOOLEAN :
          Read(unread, audience, perProject)
  \/ \E opened \in SUBSET Projects : Issue(opened)
  \/ \E m \in pass.todo, ok \in BOOLEAN : Send(m, ok)
  \/ \E yes \in BOOLEAN : Escalate(yes) \/ Note(yes) \/ Fails(yes)

AutomationSpec == AutomationInit /\ [][AutomationNext]_vars

-----------------------------------------------------------------------------
(* "A finding therefore produces at most one message per threshold": a     *)
(* message is repeated while its finding stays open only after the ledger  *)
(* was reset, the project could not be read, another message to the same   *)
(* address failed, or the server stopped before the pass was noted.        *)
NotNagged == nagged = {}

(* "Only mark what actually went out, so a failed send is retried": the    *)
(* ledger and the escalations grow only by what this pass sent.            *)
NotedWentOut ==
  [][/\ ledger' \subseteq ledger \cup pass.out
     /\ (escalated' \ (escalated \cup saved)) \X {0} \subseteq pass'.out]_vars

(* Switched on, reminders go on: the timer is armed, or its own pass is    *)
(* under way and will arm it, whatever was run or saved in between.        *)
SchedulerAlive == enabled => timer \/ firing

(* "Each finding is put in an issue once (a fixed finding that comes back, *)
(* again)."                                                                *)
IssuedOnce == relisted = {}
===============================================================================
