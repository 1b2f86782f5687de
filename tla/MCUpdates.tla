------------------------------ MODULE MCUpdates -------------------------------
(* One version to install, which comes up and breaks what worked.          *)
EXTENDS Updates
===============================================================================
