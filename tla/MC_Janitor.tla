----------------------------- MODULE MC_Janitor -----------------------------
(* Janitor for TLC: one resource, of either kind, under every race of two
   operators and a scan. *)
EXTENDS Janitor, TLC

Callers == Permutations(Ops) \cup Permutations(Reqs) \cup Permutations(Scanners)
=============================================================================
