--------------------------- MODULE MCResponseExec ---------------------------
(* Instances of ResponseExec for TLC. *)
EXTENDS ResponseExec, TLC

Sym == Permutations(ActionID) \cup Permutations(Operator) \cup Permutations(Conn)
=============================================================================
