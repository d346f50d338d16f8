-------------------------- MODULE MCStripeWebhook ---------------------------
(* Model-checking instances of StripeWebhook.                              *)
EXTENDS StripeWebhook, TLC

Symmetric ==
  Permutations(Known) \cup Permutations(SubEvent) \cup Permutations(Handler)
=============================================================================
