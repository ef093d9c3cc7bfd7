----------------------------- MODULE MCSandbox -----------------------------
(* One thought, up to three requests; see the .cfg files.                  *)
EXTENDS Sandbox, TLC

Symmetric == Permutations(Requests)
=============================================================================
