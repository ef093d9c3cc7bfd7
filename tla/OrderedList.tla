---------------------------- MODULE OrderedList ----------------------------
(***************************************************************************)
(* What the tasks of a project are to their user: a list.  A new task goes *)
(* to the end, a dragged one to where it was dropped, and nothing else     *)
(* moves (the header of backend/src/domain/position.ts).  TaskOrder        *)
(* implements it with positions.                                           *)
(***************************************************************************)
EXTENDS Naturals, Sequences, SequencesExt

CONSTANT Tasks

VARIABLE order

Dragged(list, i, j) == InsertAt(RemoveAt(list, i), j, list[i])

Init == order = <<>>

Add(t) == ~Contains(order, t) /\ order' = Append(order, t)
Drop(i) == order' = RemoveAt(order, i)
Drag(i, j) == order' = Dragged(order, i, j)

Next ==
  \/ \E t \in Tasks : Add(t)
  \/ \E i \in DOMAIN order : Drop(i)
  \/ \E i, j \in DOMAIN order : Drag(i, j)

Spec == Init /\ [][Next]_order
=============================================================================
