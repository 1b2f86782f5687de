--------------------------------- MODULE Reads ---------------------------------
(***************************************************************************)
(* What is read while Checkmarx One changes: the cached states of findings *)
(* (FindingState.tla), what FAE Flush compares and marks (FaeFlush.tla)    *)
(* and the usage Govern restricts on (GovernBudgets.tla).  They share no   *)
(* state and stand side by side, "part" saying which of them moves.        *)
(***************************************************************************)
EXTENDS FindingState

CONSTANTS
  Findings, MaxVerdicts, MaxFailures, MaxAgain,                  \* FaeFlush
  Budgets, Targets, TooMany, Plan, Months, MaxUsed, MaxChanges   \* GovernBudgets

VARIABLES part,
  verdict, faeScan, report, p, job, option, turn, undo, used, ours, lost, accepted, early,
  month, budget, index, periods, refs, changes, given

Flush == INSTANCE FaeFlush

Govern == INSTANCE GovernBudgets WITH state <- periods

flushVars == <<verdict, faeScan, report, p, job, option, turn, undo, used, ours, lost, accepted, early>>
governVars == <<month, budget, index, periods, refs, changes, given>>

(* What may begin in several ways does where it moves. *)
PartsInit ==
  /\ part \in {"states", "flush", "govern"}
  /\ StateInit /\ Flush!Init /\ Govern!Init
  /\ part # "flush" => option = [delete |-> TRUE, mode |-> "mark"]
  /\ part # "govern" => \A b \in Budgets : ~budget[b].untilReleased

PartsNext ==
  /\ UNCHANGED part
  /\ \/ part = "states" /\ StateNext /\ UNCHANGED <<flushVars, governVars>>
     \/ part = "flush" /\ Flush!Next /\ UNCHANGED <<all, governVars>>
     \/ part = "govern" /\ Govern!Next /\ UNCHANGED <<all, flushVars>>

PartsSpec == PartsInit /\ [][PartsNext]_<<part, all, flushVars, governVars>>

-----------------------------------------------------------------------------
(* What a run of FAE Flush marked and nobody changed is known to it, so     *)
(* that Undo can put it back (FaeFlush.tla).                                 *)
MarksAreKept == Flush!MarksAreKept

(* A project of a run is done when nothing it marked is reported by its last *)
(* FAE scan, or a person accepted what did not match, or went on with a scan *)
(* that had not completed (FaeFlush.tla).                                    *)
DoneIsRevalidated == Flush!DoneIsRevalidated

(* Govern restricts and lifts for a reason only: nothing on figures it could *)
(* not read, nothing within the grace, and what is held until released stays *)
(* when the month turns (GovernBudgets.tla).                                 *)
OnlyForAReason == Govern!OnlyForAReason
===============================================================================
