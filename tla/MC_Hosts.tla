------------------------------ MODULE MC_Hosts ------------------------------
(* Hosts for TLC: processes are alike, and so are the places of requests. *)
EXTENDS Hosts, TLC

Peers == Permutations(Procs) \cup Permutations(Slots)
=============================================================================
