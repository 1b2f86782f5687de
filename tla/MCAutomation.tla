----------------------------- MODULE MCAutomation -----------------------------
(* Two projects of one developer, and issues opened in their repositories.   *)
EXTENDS Automation

CONSTANTS P, Q, Dev

OneDeveloper == [p \in {P, Q} |-> Dev]
===============================================================================
