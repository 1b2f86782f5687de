------------------------------ MODULE Spending -------------------------------
(***************************************************************************)
(* Credits of a tenant: the requests that spend them (AiSpend.tla), of one *)
(* tenant and of another where results share groups; the administrators    *)
(* who give them (CreditGive.tla); and the audit log and the ledger that   *)
(* tell of them (AuditTrail.tla).  They share no state and stand side by   *)
(* side, "part" saying which of them moves.                                *)
(***************************************************************************)
EXTENDS AiSpend

CONSTANTS
  GroupFindings, GroupModes, GroupLimit, GroupOps, GroupAmounts, GroupAllocated, \* AiSpend
  Admins, Pool, Needs, Extras, MaxUsed,  \* CreditGive: its Limit and Amounts
  Months, MaxEntries, MaxTrouble         \* AuditTrail: its MaxFaults

VARIABLES part,
  gBook, gReq, gGuard, gJobs, gFailures, gRecorded, gLost,
  books, need, plan,
  disk, month, server, seq, mac, held, seen, ledger, saved, timer, made, faults,
  forked, cut, blind, unlogged, forgotten, atStop

Grouped == INSTANCE AiSpend WITH
  Findings <- GroupFindings, Modes <- GroupModes, Limit <- GroupLimit, AdminOps <- GroupOps,
  Amounts <- GroupAmounts, MaxAllocated <- GroupAllocated, MaxLost <- 0, MaxFailures <- 0,
  book <- gBook, req <- gReq, guard <- gGuard, jobs <- gJobs, failures <- gFailures,
  recorded <- gRecorded, lost <- gLost

Give == INSTANCE CreditGive WITH Limit <- Pool, Amounts <- Extras, book <- books

Trail == INSTANCE AuditTrail WITH MaxFaults <- MaxTrouble

groupVars == <<gBook, gReq, gGuard, gJobs, gFailures, gRecorded, gLost>>
giveVars == <<books, need, plan>>
trailVars == <<disk, month, server, seq, mac, held, seen, ledger, saved, timer, made, faults,
               forked, cut, blind, unlogged, forgotten, atStop>>
all == <<part, vars, groupVars, giveVars, trailVars>>

AllInit ==
  /\ part \in {"one", "groups", "give", "trail"}
  /\ Init /\ Grouped!Init /\ Give!Init /\ Trail!Init

AllNext ==
  /\ UNCHANGED part
  /\ \/ part = "one" /\ Next /\ UNCHANGED <<groupVars, giveVars, trailVars>>
     \/ part = "groups" /\ Grouped!Next /\ UNCHANGED <<vars, giveVars, trailVars>>
     \/ part = "give" /\ Give!Next /\ UNCHANGED <<vars, groupVars, trailVars>>
     \/ part = "trail" /\ Trail!Next /\ UNCHANGED <<vars, groupVars, giveVars>>

AllSpec == AllInit /\ [][AllNext]_all

-----------------------------------------------------------------------------
(* Of the tenant with groups: a result is triaged once through how many     *)
(* identities it is asked for, and claims and requests agree.               *)
GroupTriagedOnce == Grouped!TriagedOnce /\ Grouped!ClaimsMatchRequests

(* Credits given fit in the pool, and in what a project's findings need,    *)
(* but for what CreditGive.tla lists.                                       *)
GivesWhatItMay ==
  [][~Give!PoolOvercommits /\ \A d \in Admins : ~Give!GivesTooMuch(d)]_giveVars

(* verify() finds an entry of the audit log out of order only for the       *)
(* reasons listed in AuditTrail.tla.                                        *)
ChainHolds == Trail!ChainHolds

(* Reconciling finds the audit log and the ledger agree, but for the        *)
(* entries listed in AuditTrail.tla.                                        *)
BooksAgree == Trail!BooksAgree
===============================================================================
