----------------------------- MODULE MC_Billing -----------------------------
(* Billing for TLC: two subscriptions, so that one can be replaced, and two
   deliveries at a time. *)
EXTENDS Billing, TLC

MCPlans == {"team"}
MCTurns == {"unpaid"}

Deliveries == Permutations(Handlers)
=============================================================================
