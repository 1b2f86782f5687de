------------------------------- MODULE MCPeople -------------------------------
(* People.tla, small.  Three accounts, so that two Admins can meet while a   *)
(* third is made; two addresses, one role, two requests and one run of the   *)
(* command.  Two browsers and two links.  For the reminders two projects,    *)
(* one limit and one developer of both, so that two messages of a pass can   *)
(* go to the same address.  For the rescans two pieces of work at once.      *)
EXTENDS People, TLC

OneDeveloper == [p \in Projects |-> "dev"]

(* The model values that stand for requests also name the two projects and  *)
(* the two pieces of work.                                                   *)
Symmetry == Permutations(Ids) \cup Permutations(Addresses) \cup Permutations(Requests)
==============================================================================
