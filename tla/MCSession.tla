----------------------------- MODULE MCSession -----------------------------
(* A small instance of Session: two people share a device.                 *)
EXTENDS Session, TLC

Symmetric == Permutations(Users)
=============================================================================
