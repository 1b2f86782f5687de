------------------------------ MODULE MCAiSpend ------------------------------
(* Small tenants for AiSpend.                                              *)
EXTENDS AiSpend, TLC

Finding(p, s, a, g, r) ==
  [project |-> p, scan |-> s, alternateId |-> a, groupId |-> g, riskId |-> r]

(* One project, two scans; two results of one group, in different scans,   *)
(* and a third result with no group.                                       *)
GroupedFindings ==
  {Finding("p1", "s1", "x1", "g1", "r1"),
   Finding("p1", "s2", "x2", "g1", "r2"),
   Finding("p1", "s1", "x3", "", "r3")}

OneFinding == {Finding("p1", "s1", "x1", "", "r1")}

Symmetry == Permutations(Requests)
==============================================================================
