----------------------------- MODULE MCPairing ------------------------------
(***************************************************************************)
(* TLC instances of Pairing.                                               *)
(***************************************************************************)
EXTENDS Pairing, TLC

CONSTANTS c1, c2, u1, u2

\* Commands are alike, and so are URLs.
Symmetric == Permutations({c1, c2}) \cup Permutations({u1, u2})
=============================================================================
