--------------------------- MODULE MCTrackedRescan ---------------------------
(* A report of one or two projects, two rounds, one piece of work at a     *)
(* time.                                                                   *)
EXTENDS TrackedRescan
==============================================================================
