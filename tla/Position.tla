------------------------------ MODULE Position ------------------------------
(***************************************************************************)
(* backend/src/domain/position.ts: the ordering key of tasks and scopes.   *)
(*                                                                         *)
(* A position is a double.  Here it is a point of the grid on which the    *)
(* doubles between two neighbours lie: an integer, GAP grid points being   *)
(* the code's POSITION_GAP.  What matters survives: halving the distance   *)
(* between two points ends, after some 50 steps there and after log2(GAP)  *)
(* steps here, in a midpoint that is not strictly between them.            *)
(***************************************************************************)
EXTENDS Integers

CONSTANTS
  GAP,        \* POSITION_GAP, in grid points
  None,       \* the code's null
  Exhausted   \* a PositionExhaustedError

ASSUME GAPAssumption == GAP \in Nat \ {0}
ASSUME NoPositionAssumption == None \notin Int /\ Exhausted \notin Int

computeAppendPosition(last) == IF last = None THEN GAP ELSE last + GAP

(* before >= after, or a midpoint that is one of the two, is exhausted.     *)
Bisect(before, after) ==
  LET mid == before + (after - before) \div 2
  IN IF before < mid /\ mid < after THEN mid ELSE Exhausted

computePositionBetween(before, after) ==
  CASE before = None /\ after = None -> GAP
    [] before = None /\ after # None -> after - GAP
    [] before # None /\ after = None -> before + GAP
    [] before # None /\ after # None -> Bisect(before, after)

(* The new position of the task at place i of the ordered list.            *)
rebalancedPosition(i) == i * GAP
=============================================================================
