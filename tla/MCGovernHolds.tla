---------------------------- MODULE MCGovernHolds -----------------------------
(* One target of any kind, two budgets, and settings of two parts of which *)
(* a user has one through a composite role.                                *)
EXTENDS GovernHolds
==============================================================================
