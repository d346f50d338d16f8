------------------------------ MODULE MCRunner ------------------------------
(* Model-checking instances of Runner.                                     *)
EXTENDS Runner, TLC

SomeExits ==
  {[rc |-> "0", json |-> "PASS"], [rc |-> "0", json |-> "FAIL"],
   [rc |-> "sigkill", json |-> "none"]}

=============================================================================
