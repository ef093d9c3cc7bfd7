----------------------------- MODULE MCHistory -----------------------------
(* A small instance of History: days of two units, three of them.          *)
EXTENDS History, TLC

CONSTANTS t1, t2, p1, p2

MCHomeOf == (t1 :> p1) @@ (t2 :> p2)
(* One task has a long life, the other is there to be compared with.       *)
MCJournal == (t1 :> 3) @@ (t2 :> 1)
MCOffsets == {-1, 0, 1}
=============================================================================
