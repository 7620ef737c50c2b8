----------------------------- MODULE MC_Members -----------------------------
(* Members for TLC: a founder and a second user, who share one paid seat. *)
EXTENDS Members, TLC
=============================================================================
