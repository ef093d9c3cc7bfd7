----------------------------- MODULE TaskOrder -----------------------------
(***************************************************************************)
(* The order of the tasks of one project: the append of POST               *)
(* /projects/:projectId/tasks, PATCH /tasks/:id/position with its          *)
(* renumbering (backend/src/routes/tasks.ts), and the client's plan of a   *)
(* drag (app/lib/domain/task_reorder.dart).  The routes of scopes are the  *)
(* same code over scopes (backend/src/routes/scopes.ts).                   *)
(*                                                                         *)
(* Only the renumbering is a transaction; every other read and write of    *)
(* the handlers is a statement of its own, and requests interleave there.  *)
(***************************************************************************)
EXTENDS Position, Sequences, FiniteSets, SequencesExt

CONSTANTS
  Tasks,
  Requests,  \* requests that may be under way at once
  Fresh,     \* does every client plan a drag on the list as it is now?
  MaxMoves   \* bound: drags

ASSUME OrderAssumption == Fresh \in BOOLEAN /\ MaxMoves \in Nat
ASSUME TasksAssumption == IsFiniteSet(Tasks) /\ None \notin Tasks

VARIABLES
  pos,     \* the position of each task, None before and after its life
  unborn,  \* tasks not created yet
  view,    \* the list some client last read
  req,     \* requests under way
  moves,   \* drags so far
  alone    \* one client, which waits for each answer and reads the list
           \* again before a drag?  Fixed at Init

vars == <<pos, unborn, view, req, moves, alone>>

Live == {t \in Tasks : pos[t] # None}

(* findMany, orderBy position asc: ties come in any order.                 *)
OrderedLists == {l \in SetToSeqs(Live) : \A i, j \in DOMAIN l : i < j => pos[l[i]] <= pos[l[j]]}

(* aggregate _max: the largest position, none of an empty project.         *)
LastPosition ==
  IF Live = {} THEN {None} ELSE {p \in {pos[t] : t \in Live} : \A t \in Live : pos[t] <= p}

PositionOf(t) == IF t = None THEN None ELSE pos[t]

Idle == [pc |-> "idle"]

Init ==
  /\ pos = [t \in Tasks |-> None]
  /\ unborn = Tasks
  /\ view = <<>>
  /\ req = [r \in Requests |-> Idle]
  /\ moves = 0
  /\ alone \in BOOLEAN

At(r, pc) == req[r].pc = pc
Free(r) == At(r, "idle") /\ (alone => \A s \in Requests : At(s, "idle"))
Goes(r, pc) == req' = [req EXCEPT ![r].pc = pc]
Ends(r) == req' = [req EXCEPT ![r] = Idle]

(* A client reads the list again.                                          *)
Refresh ==
  /\ view' \in OrderedLists
  /\ UNCHANGED <<pos, unborn, req, moves>>

-----------------------------------------------------------------------------
(* POST /projects/:projectId/tasks: the last position, then the row.       *)

BeginAppend_First(r) ==
  /\ Free(r) /\ unborn # {}
  /\ \E last \in LastPosition :
       req' = [req EXCEPT ![r] = [pc |-> "append", at |-> computePositionBetween(None, last)]]
  /\ UNCHANGED <<pos, unborn, view, moves>>

BeginAppend(r) ==
  /\ Free(r) /\ unborn # {}
  /\ \E last \in LastPosition :
       req' = [req EXCEPT ![r] = [pc |-> "append", at |-> computeAppendPosition(last)]]
  /\ UNCHANGED <<pos, unborn, view, moves>>

CommitAppend(r) ==
  /\ At(r, "append")
  /\ \E t \in unborn : pos' = [pos EXCEPT ![t] = req[r].at] /\ unborn' = unborn \ {t}
  /\ Ends(r)
  /\ UNCHANGED <<view, moves>>

(* DELETE /tasks/:id, or an unfiling.                                      *)
Delete(r, t) ==
  /\ Free(r) /\ t \in Live
  /\ pos' = [pos EXCEPT ![t] = None]
  /\ UNCHANGED <<unborn, view, req, moves>>

-----------------------------------------------------------------------------
(* PATCH /tasks/:id/position.                                              *)

(* planTaskMove: the neighbours in the list as the drag leaves it.         *)
Dragged(list, i, j) == InsertAt(RemoveAt(list, i), j, list[i])
Plan_OffByOne(list, i, j) ==
  LET new == Dragged(list, i, j)
  IN [task   |-> list[i],
      before |-> IF j = 1 THEN None ELSE list[j - 1],
      after  |-> IF j = Len(list) THEN None ELSE new[j + 1]]

Plan(list, i, j) ==
  LET new == Dragged(list, i, j)
  IN [task   |-> list[i],
      before |-> IF j = 1 THEN None ELSE new[j - 1],
      after  |-> IF j = Len(list) THEN None ELSE new[j + 1]]

(* The task and its neighbour before; a request that names a task that is  *)
(* gone is refused.                                                        *)
BeginMove(r, i, j) ==
  /\ Free(r) /\ i # j /\ moves < MaxMoves
  /\ Fresh \/ alone => view \in OrderedLists
  /\ LET plan == Plan(view, i, j)
     IN /\ plan.task \in Live /\ plan.before \in Live \cup {None}
        /\ req' = [req EXCEPT ![r] =
                     [pc |-> "after", plan |-> plan, beforeAt |-> PositionOf(plan.before)]]
  /\ moves' = moves + 1
  /\ UNCHANGED <<pos, unborn, view>>

(* Then its neighbour after, and the first attempt.                        *)
ReadAfter(r) ==
  /\ At(r, "after")
  /\ IF req[r].plan.after \notin Live \cup {None}
     THEN Ends(r)
     ELSE LET at == computePositionBetween(req[r].beforeAt, PositionOf(req[r].plan.after))
          IN req' = [req EXCEPT ![r] =
                IF at = Exhausted THEN [pc |-> "list", plan |-> req[r].plan]
                ELSE [pc |-> "place", plan |-> req[r].plan, at |-> at]]
  /\ UNCHANGED <<pos, unborn, view, moves>>

ReadAll_Unordered(r) ==
  /\ At(r, "list")
  /\ \E l \in SetToSeqs(Live) :
       req' = [req EXCEPT ![r] = [pc |-> "renumber", plan |-> req[r].plan, list |-> l]]
  /\ UNCHANGED <<pos, unborn, view, moves>>

ReadAll(r) ==
  /\ At(r, "list")
  /\ \E l \in OrderedLists :
       req' = [req EXCEPT ![r] = [pc |-> "renumber", plan |-> req[r].plan, list |-> l]]
  /\ UNCHANGED <<pos, unborn, view, moves>>

(* rebalanced.find: a neighbour missing from the list counts as none.      *)
Renumbered(l, t) ==
  IF t # None /\ Contains(l, t)
  THEN rebalancedPosition(CHOOSE i \in DOMAIN l : l[i] = t)
  ELSE None

(* The second attempt, on the new numbers: it may be exhausted as well,    *)
(* when the neighbours are not in the order the plan has them.             *)
Retry(r) ==
  LET l == req[r].list
      at == computePositionBetween(Renumbered(l, req[r].plan.before),
                                   Renumbered(l, req[r].plan.after))
  IN IF at = Exhausted THEN Goes(r, "exhausted")
     ELSE req' = [req EXCEPT ![r] = [pc |-> "place", plan |-> req[r].plan, at |-> at]]

Rewritten(l) == [t \in Tasks |-> IF Contains(l, t) THEN Renumbered(l, t) ELSE pos[t]]

Renumber_Upserting(r) ==
  /\ At(r, "renumber")
  /\ pos' = Rewritten(req[r].list) /\ Retry(r)
  /\ UNCHANGED <<unborn, view, moves>>

(* One transaction; it fails when a task of the list is gone.              *)
Renumber(r) ==
  /\ At(r, "renumber")
  /\ IF ToSet(req[r].list) \subseteq Live
     THEN pos' = Rewritten(req[r].list) /\ Retry(r)
     ELSE Goes(r, "missing") /\ UNCHANGED pos
  /\ UNCHANGED <<unborn, view, moves>>

Place(r) ==
  /\ At(r, "place")
  /\ IF req[r].plan.task \in Live
     THEN pos' = [pos EXCEPT ![req[r].plan.task] = req[r].at] /\ Ends(r)
     ELSE Goes(r, "missing") /\ UNCHANGED pos
  /\ UNCHANGED <<unborn, view, moves>>

(* The 500 of a move that failed; or the server stops in the middle.       *)
GiveUp(r) ==
  /\ ~At(r, "idle")
  /\ Ends(r)
  /\ UNCHANGED <<pos, unborn, view, moves>>

Next ==
  /\ UNCHANGED alone
  /\ \/ Refresh
     \/ \E r \in Requests :
          \/ BeginAppend(r) \/ CommitAppend(r)
          \/ \E t \in Tasks : Delete(r, t)
          \/ \E i, j \in DOMAIN view : BeginMove(r, i, j)
          \/ ReadAfter(r) \/ ReadAll(r) \/ Renumber(r) \/ Place(r) \/ GiveUp(r)

Spec == Init /\ [][Next]_vars

-----------------------------------------------------------------------------
(* What a request remembers between its statements.                        *)
Plans == [task : Tasks, before : Tasks \cup {None}, after : Tasks \cup {None}]

Req ==
  {Idle}
  \cup [pc : {"append"}, at : Int]
  \cup [pc : {"after"}, plan : Plans, beforeAt : Int \cup {None}]
  \cup [pc : {"list"}, plan : Plans]
  \cup [pc : {"renumber", "exhausted", "missing"}, plan : Plans, list : Seq(Tasks)]
  \cup [pc : {"place", "missing"}, plan : Plans, at : Int]

(* Every position written is a number: an exhausted bisection is never     *)
(* stored, and a request's plan names tasks or none.                       *)
TypeOK ==
  /\ pos \in [Tasks -> Int \cup {None}]
  /\ unborn \subseteq Tasks
  /\ view \in Seq(Tasks)
  /\ req \in [Requests -> Req]
  /\ moves \in 0 .. MaxMoves
  /\ alone \in BOOLEAN

(* A drag planned on the list as it is succeeds: after a renumbering the   *)
(* neighbours have room between them ("then retry", PositionExhaustedError *)
(* in domain/position.ts): taken at its word, and for one client.          *)
RetrySettles == \A r \in Requests : ~At(r, "exhausted")

MoveSettles == alone => RetrySettles

(* One client's task lands where it was dropped: right behind the          *)
(* neighbour before it, right ahead of the neighbour after it.             *)
Neighbours(p, t, plan) ==
  LET others == {u \in Tasks \ {t} : p[u] # None}
  IN /\ plan.before # None => /\ p[plan.before] < p[t]
                              /\ \A u \in others : p[u] <= p[plan.before] \/ p[u] > p[t]
     /\ plan.after # None => /\ p[t] < p[plan.after]
                             /\ \A u \in others : p[u] >= p[plan.after] \/ p[u] < p[t]

LandsWhereDropped ==
  [][\A r \in Requests :
       alone /\ At(r, "place") /\ pos' # pos /\ req'[r] = Idle
         => Neighbours(pos', req[r].plan.task, req[r].plan)]_vars

(* A deleted task stays deleted, whatever renumbering had read it.         *)
GoneStaysGone ==
  [][\A t \in Tasks : t \notin unborn /\ pos[t] = None => pos'[t] = None]_vars

(* The list as the server answers it.                                      *)
Order == CHOOSE l \in OrderedLists : TRUE

List == INSTANCE OrderedList WITH order <- Order

ListKept == List!Init /\ [][alone => List!Next \/ UNCHANGED Order]_vars
=============================================================================
