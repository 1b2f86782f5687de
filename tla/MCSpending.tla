------------------------------ MODULE MCSpending ------------------------------
(* Spending.tla, small.  In one tenant a single finding is sent, charged,    *)
(* lost and sent again; in the other there are three results, two of them of *)
(* one group, to triage only.  One project, to which two administrators give *)
(* out of a pool of two, and triage out of it.  Two months of the audit log. *)
EXTENDS Spending, MCAiSpend
==============================================================================
