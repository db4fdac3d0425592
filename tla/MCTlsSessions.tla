--------------------------- MODULE MCTlsSessions ----------------------------
(* TlsSessions for TLC: the connections are alike.                         *)
EXTENDS TlsSessions, TLC

Symmetry == Permutations(Conns)
=============================================================================
