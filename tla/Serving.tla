------------------------------- MODULE Serving --------------------------------
(***************************************************************************)
(* What keeps one server running: the lock of its state folder, the        *)
(* launcher with its versions, and the full update of its container.  They *)
(* stand side by side, "part" saying which one of them moves.              *)
(***************************************************************************)
EXTENDS InstanceLock, Integers, FiniteSets

CONSTANTS
  Versions, Faulty, Broken, Keep, StartTimeout, TrialTime, MaxTasks, MaxStops, \* Updates
  Containers, MayFail, MayTimeOut, MayDie, MaxFaults,                          \* FullUpdate
  First   \* the containers the run starts on: which one it is makes no difference

VARIABLES part,
  launcher, child, current, previous, onTrial, inTrial, age, timer, switching,
  failing, paused, choice, installed, rolledBack, cameFrom, healthy, putBack,
  job, swaps, asked, stops,
  main, parked, running, used, acked, request, status, call, old, created, faults

Launch == INSTANCE Updates

Full == INSTANCE FullUpdate WITH pc <- call

versionVars == <<launcher, child, current, previous, onTrial, inTrial, age, timer, switching,
                 failing, paused, choice, installed, rolledBack, cameFrom, healthy, putBack,
                 job, swaps, asked, stops>>
fullVars == <<main, parked, running, used, acked, request, status, call, old, created, faults>>
all == <<part, vars, versionVars, fullVars>>

AllInit ==
  /\ part \in {"lock", "versions", "full"}
  /\ Init /\ Launch!Init /\ Full!Init /\ main \in First

AllNext ==
  /\ UNCHANGED part
  /\ \/ part = "lock" /\ Next /\ UNCHANGED <<versionVars, fullVars>>
     \/ part = "versions" /\ Launch!Next /\ UNCHANGED <<vars, fullVars>>
     \/ part = "full" /\ Full!Next /\ UNCHANGED <<vars, versionVars>>

LockOnly     == part = "lock" /\ UNCHANGED <<part, versionVars, fullVars>>
VersionsOnly == part = "versions" /\ UNCHANGED <<part, vars, fullVars>>
FullOnly     == part = "full" /\ UNCHANGED <<part, vars, versionVars>>

(* The fairness of each part, while it is the one that moves.              *)
AllSpec ==
  /\ AllInit /\ [][AllNext]_all
  /\ \A s \in Servers : WF_all(Acquiring(s) /\ LockOnly) /\ WF_all(Beat(s) /\ LockOnly)
                          /\ WF_all(Leave(s) /\ LockOnly)
  /\ WF_all(Tick /\ LockOnly)
  /\ WF_all(Launch!Stopped /\ VersionsOnly)
  /\ WF_all(Launch!TimeOut /\ VersionsOnly)
  /\ WF_all(Launch!FailingStops /\ VersionsOnly)
  /\ WF_all(Launch!PauseEnds /\ VersionsOnly)
  /\ WF_all(Launch!Tick /\ VersionsOnly)
  /\ WF_all(Full!Companion /\ FullOnly)

-----------------------------------------------------------------------------
(* One server runs on a state folder, one child of a launcher and one       *)
(* container of the two an update may leave: on one folder, two servers     *)
(* would write over each other's ledger.                                    *)
OneOfEach == OneServer /\ Launch!OneServerStarted /\ Full!OneContainerRuns

(* A new version that does not come up is replaced by the one before it     *)
(* (Updates.tla).                                                           *)
BrokenIsReplaced == Launch!BrokenIsReplaced

(* A container whose server came up is kept until the one replacing it did  *)
(* (FullUpdate.tla).                                                        *)
GoodOneIsKept == Full!GoodOneIsKept

(* Unless the engine fails or the companion dies, a server stopped for an   *)
(* update is followed by one that runs (FullUpdate.tla).                    *)
RunsAgain == part = "full" => Full!RunsAgain
==============================================================================
