--------------------------- MODULE MCLogReplicas ---------------------------
(***************************************************************************)
(* TLC instance of LogReplicas: two or three nodes, one payload, at most   *)
(* MaxEntries entries by each author.                                      *)
(***************************************************************************)
EXTENDS LogReplicas

=============================================================================
