--------------------------- MODULE MCCaptureQueue ---------------------------
(* Two lines; how much may go wrong in each run.                           *)
EXTENDS CaptureQueue

Nothing == [s \in BOOLEAN |-> 0]
TwoOrOne == [s \in BOOLEAN |-> IF s THEN 2 ELSE 1]
=============================================================================
