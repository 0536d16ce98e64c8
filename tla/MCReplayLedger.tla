--------------------------- MODULE MCReplayLedger ---------------------------
(* Instances of ReplayLedger for TLC. *)
EXTENDS ReplayLedger, TLC

Sym == Permutations(ActionID) \cup Permutations(Digest) \cup Permutations(Result)
=============================================================================
