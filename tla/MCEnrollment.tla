---------------------------- MODULE MCEnrollment ----------------------------
EXTENDS Enrollment, TLC

Sym == Permutations(Host) \cup Permutations(Conn) \cup Permutations(Token)

=============================================================================
