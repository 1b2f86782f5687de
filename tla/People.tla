-------------------------------- MODULE People --------------------------------
(***************************************************************************)
(* What people, and the timer, may do at once: accounts and roles changed, *)
(* a forgotten password reset, reminders sent, a report rescanned.  These  *)
(* share no state and stand side by side, "part" saying which of them      *)
(* moves.                                                                  *)
(***************************************************************************)
EXTENDS Accounts

CONSTANTS
  Tabs, MaxLinks, MaxPasswords,                 \* PasswordReset
  Projects, Mailboxes, Developer, List, MaxAge, ReadsFail, OpensIssues, \* Automation
  Scanned, Tasks, MaxRound, MaxStarted, MaxWindows \* TrackedRescan

ASSUME RoundsAssumption ==
  {MaxRound, MaxStarted, MaxWindows} \subseteq Nat \ {0}

VARIABLES part,
  password, links, stamp, expired, given, mailing, received, inUse, tab, setWith, over,
  open, age, ledger, escalated, saved, issued, pass, enabled, timer, firing,
  told, nagged, listed, relisted,
  round, closed, window, late, verifs, current, task

Reset == INSTANCE PasswordReset WITH ended <- over, issued <- given

Remind == INSTANCE Automation WITH Addresses <- Mailboxes

Rescan == INSTANCE TrackedRescan WITH Projects <- Scanned

resetVars  == <<password, links, stamp, expired, given, mailing, received, inUse, tab, setWith, over>>
remindVars == <<open, age, ledger, escalated, saved, issued, pass, enabled, timer, firing,
                told, nagged, listed, relisted>>
rescanVars == <<round, closed, window, late, verifs, current, task>>
all == <<part, vars, resetVars, remindVars, rescanVars>>

AllInit ==
  /\ part \in {"accounts", "reset", "remind", "rescan"}
  /\ Init /\ Reset!Init /\ Remind!AutomationInit /\ Rescan!Init

AllNext ==
  /\ UNCHANGED part
  /\ \/ part = "accounts" /\ Next /\ UNCHANGED <<resetVars, remindVars, rescanVars>>
     \/ part = "reset" /\ Reset!Next /\ UNCHANGED <<vars, remindVars, rescanVars>>
     \/ part = "remind" /\ Remind!AutomationNext /\ UNCHANGED <<vars, resetVars, rescanVars>>
     \/ part = "rescan" /\ Rescan!Next /\ UNCHANGED <<vars, resetVars, remindVars>>

AllSpec == AllInit /\ [][AllNext]_all

-----------------------------------------------------------------------------
(* A reset link sets one password, and only the last one issued to a person *)
(* works (PasswordReset.tla).                                               *)
LinksDoTheirWork == Reset!LinksDoTheirWork

(* No message is repeated while its finding stays open, but for the reasons *)
(* listed in Automation.tla.                                                *)
NotNagged == Remind!NotNagged

(* Switched on, the timer is armed or about to be (Automation.tla).         *)
SchedulerAlive == Remind!SchedulerAlive

(* The ledger and the escalations grow only by what was sent                *)
(* (Automation.tla).                                                        *)
NotedWentOut == Remind!NotedWentOut

(* Each round of a report has its verification followed to the end, and its *)
(* developers one turn, whatever people and the timer do at once            *)
(* (TrackedRescan.tla).                                                     *)
RoundsKeepTheirRescan == Rescan!RoundsKeepTheirRescan
==============================================================================
