---------------------------- MODULE MCTierGating ----------------------------
(* Model-checking instances of TierGating.                                 *)
EXTENDS TierGating, TLC

SmallCaps == [t \in Tier |-> CASE t = "free" -> 1 [] t = "solo" -> 2 [] OTHER -> NoLimit]
TwoMonths == [t \in 0..MaxNow |-> IF t = MaxNow THEN 1 ELSE 0]
Wishes    == {NoLimit, -5, 2}

Symmetric == Permutations(Job) \cup Permutations(Sub)
=============================================================================
