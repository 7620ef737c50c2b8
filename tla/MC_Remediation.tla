---------------------------- MODULE MC_Remediation ----------------------------
(* Remediation for TLC: one recommendation, whose handlers do not touch
   another's, a tier without and one with verification. *)
EXTENDS Remediation, TLC

MCTiers == {"manual_only", "approval_required"}

Operators == Permutations(Reqs)
===============================================================================
