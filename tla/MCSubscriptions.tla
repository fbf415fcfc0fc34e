---------------------------- MODULE MCSubscriptions ----------------------------
(* Small instances of Subscriptions. *)
EXTENDS Subscriptions, TLC

MCLimitOf == [p \in AnyPlan |-> IF p = Trial THEN 1 ELSE 2]
Sym == Permutations(Checkouts) \cup Permutations(Plans)
================================================================================
