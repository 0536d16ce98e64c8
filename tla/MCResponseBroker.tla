-------------------------- MODULE MCResponseBroker --------------------------
(* Instances of ResponseBroker for TLC. *)
EXTENDS ResponseBroker, TLC

Sym == Permutations(ActionID) \cup Permutations(Operator)
          \cup Permutations(Agent) \cup Permutations(Conn)
=============================================================================
