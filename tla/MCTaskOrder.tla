---------------------------- MODULE MCTaskOrder ----------------------------
(* Three tasks and a gap that can be halved once or twice.                 *)
EXTENDS TaskOrder, TLC

Symmetric == Permutations(Requests)
=============================================================================
