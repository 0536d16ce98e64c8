--------------------------- MODULE MCPolicyUpdate ---------------------------
(* Instances of PolicyUpdate for TLC. *)
EXTENDS PolicyUpdate, TLC

Sym == Permutations(Publisher)
=============================================================================
