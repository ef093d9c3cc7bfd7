---------------------------- MODULE MCHierarchy ----------------------------
(* Two of everything but one task: see the .cfg files.  A row id stands    *)
(* for any other of its kind, so all sets of ids are symmetric.            *)
EXTENDS Hierarchy, TLC

Symmetric ==
  Permutations(Scopes) \cup Permutations(Projects) \cup Permutations(Categories)
    \cup Permutations(Names) \cup Permutations(Requests)
=============================================================================
