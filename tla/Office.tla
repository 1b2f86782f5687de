-------------------------------- MODULE Office --------------------------------
(***************************************************************************)
(* What must go on by itself: the rescans of a tracked report, and who is  *)
(* signed in across restarts.  They share no state and stand side by side, *)
(* "part" saying which of them moves.                                      *)
(***************************************************************************)
EXTENDS TrackedRescan

CONSTANTS People, Numbers, None, MaxStops   \* SignIns

VARIABLES part,
  server, live, adopted, fetched, asking, index, files, queued, writing, timer,
  ended, unsaved, lost, stops

Sign == INSTANCE SignIns

signVars == <<server, live, adopted, fetched, asking, index, files, queued, writing, timer,
              ended, unsaved, lost, stops>>
all == <<part, vars, signVars>>

AllInit == part \in {"rescan", "sign"} /\ Init /\ Sign!Init

AllNext ==
  /\ UNCHANGED part
  /\ \/ part = "rescan" /\ Next /\ UNCHANGED signVars
     \/ part = "sign" /\ Sign!Next /\ UNCHANGED vars

RescanOnly == part = "rescan" /\ UNCHANGED <<part, signVars>>
SignOnly   == part = "sign" /\ UNCHANGED <<part, vars>>

(* The fairness of each part, while it is the one that moves.               *)
AllSpec ==
  /\ AllInit /\ [][AllNext]_all
  /\ \A t \in Tasks : SF_all((Follow(t) \/ StepOnly(t)) /\ RescanOnly)
  /\ \A t \in Tasks : WF_all(Answered(t) /\ RescanOnly)
  /\ \A t \in Tasks : SF_all(Launched(t) /\ RescanOnly)
  /\ WF_all(Sign!Minute /\ SignOnly)
  /\ SF_all(Sign!SaveIndex /\ SignOnly)
  /\ \A s \in Sign!Sessions : SF_all(Sign!DrainTakes(s) /\ SignOnly)
  /\ WF_all(Sign!DrainEnds /\ SignOnly)
  /\ WF_all(Sign!Exit /\ SignOnly)
  /\ WF_all((\E restored \in BOOLEAN : Sign!Start(restored)) /\ SignOnly)

-----------------------------------------------------------------------------
(* A session that ended is not signed in again by a restart, unless the    *)
(* server went down before that was saved (SignIns.tla).                    *)
EndedStaysEnded == Sign!EndedStaysEnded

(* What an ended session fetched does not stay on the disk (SignIns.tla).   *)
DataGoes == Sign!DataGoes
==============================================================================
