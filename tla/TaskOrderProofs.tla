-------------------------- MODULE TaskOrderProofs --------------------------
(***************************************************************************)
(* Proofs about Position and TaskOrder, for any gap, any tasks and any     *)
(* number of requests under way.                                           *)
(***************************************************************************)
EXTENDS TaskOrder, SequenceTheorems, FiniteSetTheorems, WellFoundedInduction, TLAPS

(* A bisection lands strictly between, or there was no grid point there.   *)
LEMMA BisectStrict ==
  ASSUME NEW before \in Int, NEW after \in Int
  PROVE  \/ /\ Bisect(before, after) \in Int
            /\ before < Bisect(before, after) /\ Bisect(before, after) < after
         \/ Bisect(before, after) = Exhausted /\ after - before <= 1
<1> DEFINE half == (after - before) \div 2
<1>1. half \in Int /\ 2 * half <= after - before /\ after - before < 2 * half + 2
  OBVIOUS
<1>2. CASE before < before + half /\ before + half < after
  BY <1>1, <1>2 DEF Bisect
<1>3. CASE ~(before < before + half /\ before + half < after)
  <2>1. Bisect(before, after) = Exhausted BY <1>3 DEF Bisect
  <2>2. after - before <= 1 BY <1>1, <1>3
  <2> QED BY <2>1, <2>2
<1> QED BY <1>2, <1>3

(* After a renumbering, neighbours in list order have room between them,   *)
(* if the gap can be halved at all.                                        *)
THEOREM RenumberingMakesRoom ==
  ASSUME NEW i \in Nat, NEW j \in Nat, i < j, GAP >= 2
  PROVE  /\ computePositionBetween(rebalancedPosition(i), rebalancedPosition(j)) \in Int
         /\ rebalancedPosition(i) < computePositionBetween(rebalancedPosition(i), rebalancedPosition(j))
         /\ computePositionBetween(rebalancedPosition(i), rebalancedPosition(j)) < rebalancedPosition(j)
<1>1. i * GAP \in Int /\ j * GAP \in Int
  BY GAPAssumption
<1>2. j * GAP - i * GAP >= 2
  <2>1. j * GAP - i * GAP = (j - i) * GAP /\ j - i \in Nat /\ j - i >= 1 BY GAPAssumption
  <2>2. \A m, n \in Nat : m >= 1 /\ n >= 2 => m * n >= 2 OBVIOUS
  <2> QED BY <2>1, <2>2, GAPAssumption
<1>3. /\ Bisect(i * GAP, j * GAP) \in Int
      /\ i * GAP < Bisect(i * GAP, j * GAP) /\ Bisect(i * GAP, j * GAP) < j * GAP
  BY <1>1, <1>2, BisectStrict
<1>4. i * GAP # None /\ j * GAP # None
  BY <1>1, NoPositionAssumption
<1>5. computePositionBetween(i * GAP, j * GAP) = Bisect(i * GAP, j * GAP)
  BY <1>4 DEF computePositionBetween
<1> QED BY <1>3, <1>5 DEF rebalancedPosition

(* A new task's position is beyond every other.                            *)
THEOREM AppendGoesLast ==
  ASSUME NEW last \in Int
  PROVE  computeAppendPosition(last) \in Int /\ computeAppendPosition(last) > last
  BY GAPAssumption, NoPositionAssumption DEF computeAppendPosition

(* The place between two neighbours is a number, or there is none.         *)
LEMMA BetweenType ==
  ASSUME NEW before \in Int \cup {None}, NEW after \in Int \cup {None}
  PROVE  computePositionBetween(before, after) \in Int \cup {Exhausted}
<1>1. CASE before # None /\ after # None
  BY <1>1, BisectStrict DEF computePositionBetween
<1>2. CASE before = None \/ after = None
  BY <1>2, GAPAssumption, NoPositionAssumption DEF computePositionBetween
<1> QED BY <1>1, <1>2

-----------------------------------------------------------------------------
(* The rows behind a removed one move up by one.                           *)
LEMMA RemoveAtIs ==
  ASSUME NEW l \in Seq(Tasks), NEW i \in DOMAIN l, NEW rest, rest = RemoveAt(l, i)
  PROVE  /\ rest \in Seq(Tasks) /\ Len(rest) = Len(l) - 1
         /\ \A k \in 1 .. Len(l) - 1 : rest[k] = IF k < i THEN l[k] ELSE l[k + 1]
<1> DEFINE l1 == SubSeq(l, 1, i - 1)
           l2 == SubSeq(l, i + 1, Len(l))
<1>1. i \in 1 .. Len(l) /\ Len(l) \in Nat /\ \A k \in 1 .. Len(l) : l[k] \in Tasks
  OBVIOUS
<1>2. l1 \in Seq(Tasks) /\ Len(l1) = i - 1 /\ \A k \in 1 .. i - 1 : l1[k] = l[k]
  BY <1>1, SubSeqProperties
<1>3. l2 \in Seq(Tasks) /\ Len(l2) = Len(l) - i /\ \A k \in 1 .. Len(l) - i : l2[k] = l[i + k]
  BY <1>1, SubSeqProperties
<1>4. rest = l1 \o l2 BY DEF RemoveAt
<1> HIDE DEF l1, l2
<1>5. rest \in Seq(Tasks) /\ Len(rest) = Len(l) - 1
  BY <1>1, <1>2, <1>3, <1>4, ConcatProperties
<1>6. ASSUME NEW k \in 1 .. Len(l) - 1
      PROVE  rest[k] = IF k < i THEN l[k] ELSE l[k + 1]
  <2>1. rest[k] = IF k <= Len(l1) THEN l1[k] ELSE l2[k - Len(l1)]
    BY <1>1, <1>2, <1>3, <1>4, ConcatProperties
  <2>2. CASE k < i
    BY <1>1, <1>2, <2>1, <2>2
  <2>3. CASE ~ (k < i)
    <3>1. PICK m : m = k - i + 1 OBVIOUS
    <3>2. m \in 1 .. Len(l) - i /\ i + m = k + 1 BY <1>1, <2>3, <3>1
    <3>3. Len(l1) = i - 1 BY <1>2
    <3>4. rest[k] = l2[m] BY <1>1, <2>1, <2>3, <3>1, <3>3
    <3>5. l2[m] = l[i + m] BY <1>3, <3>2
    <3> QED BY <2>3, <3>2, <3>4, <3>5
  <2> QED BY <2>2, <2>3
<1> QED BY <1>5, <1>6

Inserted(new, l, j, t) ==
  /\ new \in Seq(Tasks) /\ Len(new) = Len(l) + 1
  /\ \A k \in 1 .. Len(l) + 1 : new[k] = IF k < j THEN l[k] ELSE IF k = j THEN t ELSE l[k - 1]

(* The rows behind an inserted one move down by one.                       *)
LEMMA InsertAtIs ==
  ASSUME NEW l \in Seq(Tasks), NEW j \in 1 .. Len(l) + 1, NEW t \in Tasks
  PROVE  Inserted(InsertAt(l, j, t), l, j, t)
<1> DEFINE new == InsertAt(l, j, t)
<1> DEFINE l1 == SubSeq(l, 1, j - 1)
           l2 == SubSeq(l, j, Len(l))
           head == l1 \o <<t>>
<1>1. j \in Nat /\ j >= 1 /\ j <= Len(l) + 1 /\ Len(l) \in Nat /\ \A k \in 1 .. Len(l) : l[k] \in Tasks
  OBVIOUS
<1>2. l1 \in Seq(Tasks) /\ Len(l1) = j - 1 /\ \A k \in 1 .. j - 1 : l1[k] = l[k]
  BY <1>1, SubSeqProperties
<1>3. l2 \in Seq(Tasks) /\ Len(l2) = Len(l) + 1 - j /\ \A k \in 1 .. Len(l) + 1 - j : l2[k] = l[j + k - 1]
  BY <1>1, SubSeqProperties
<1>4. new = head \o l2 BY DEF InsertAt
<1> HIDE DEF l1, l2, new
<1>5. <<t>> \in Seq(Tasks) /\ Len(<<t>>) = 1 /\ <<t>>[1] = t
  OBVIOUS
<1>6. head \in Seq(Tasks) /\ Len(head) = j
  BY <1>1, <1>2, <1>5, ConcatProperties
<1>7. \A k \in 1 .. j : head[k] = IF k < j THEN l[k] ELSE t
  <2>1. ASSUME NEW k \in 1 .. j
        PROVE  head[k] = IF k < j THEN l[k] ELSE t
    <3>1. head[k] = IF k <= Len(l1) THEN l1[k] ELSE <<t>>[k - Len(l1)]
      BY <1>1, <1>2, <1>5, ConcatProperties
    <3>2. CASE k < j
      BY <1>1, <1>2, <3>1, <3>2
    <3>3. CASE ~ (k < j)
      <4>1. k - Len(l1) = 1 /\ ~ (k <= Len(l1)) BY <1>1, <1>2, <3>3
      <4> QED BY <1>5, <3>1, <3>3, <4>1
    <3> QED BY <3>2, <3>3
  <2> QED BY <2>1
<1> HIDE DEF head
<1>8. new \in Seq(Tasks) /\ Len(new) = Len(l) + 1
  BY <1>1, <1>3, <1>4, <1>6, ConcatProperties
<1>9. ASSUME NEW k \in 1 .. Len(l) + 1
      PROVE  new[k] = IF k < j THEN l[k] ELSE IF k = j THEN t ELSE l[k - 1]
  <2>1. new[k] = IF k <= Len(head) THEN head[k] ELSE l2[k - Len(head)]
    BY <1>1, <1>3, <1>4, <1>6, ConcatProperties
  <2>2. CASE k <= j
    BY <1>1, <1>6, <1>7, <2>1, <2>2
  <2>3. CASE ~ (k <= j)
    <3>1. k - Len(head) \in 1 .. Len(l) + 1 - j /\ j + (k - Len(head)) - 1 = k - 1
      BY <1>1, <1>6, <2>3
    <3> QED BY <1>1, <1>3, <1>6, <2>1, <2>3, <3>1
  <2> QED BY <2>2, <2>3
<1> QED BY <1>8, <1>9 DEF Inserted, new

DraggedTo(new, l, i, j) ==
  /\ new \in Seq(Tasks) /\ Len(new) = Len(l)
  /\ \A k \in 1 .. Len(l) :
       new[k] = IF k = j THEN l[i]
                ELSE IF k < j THEN (IF k < i THEN l[k] ELSE l[k + 1])
                ELSE (IF k - 1 < i THEN l[k - 1] ELSE l[k])

(* Where each row of the list is after a drag of row i to place j.         *)
LEMMA DraggedIs ==
  ASSUME NEW l \in Seq(Tasks), NEW i \in DOMAIN l, NEW j \in DOMAIN l
  PROVE  DraggedTo(Dragged(l, i, j), l, i, j)
<1>0. PICK new : new = Dragged(l, i, j) OBVIOUS
<1>1. PICK rest : rest = RemoveAt(l, i) OBVIOUS
<1>2. /\ rest \in Seq(Tasks) /\ Len(rest) = Len(l) - 1
      /\ \A k \in 1 .. Len(l) - 1 : rest[k] = IF k < i THEN l[k] ELSE l[k + 1]
  BY <1>1, RemoveAtIs
<1>3. Len(l) \in Nat /\ i \in 1 .. Len(l) /\ j \in 1 .. Len(rest) + 1 /\ l[i] \in Tasks
  BY <1>2
<1>4. PICK t \in Tasks : t = l[i] /\ new = InsertAt(rest, j, t)
  BY <1>0, <1>1, <1>3 DEF Dragged
<1>5. Inserted(new, rest, j, t)
  BY <1>2, <1>3, <1>4, InsertAtIs
<1>6. /\ new \in Seq(Tasks) /\ Len(new) = Len(rest) + 1
      /\ \A k \in 1 .. Len(rest) + 1 :
           new[k] = IF k < j THEN rest[k] ELSE IF k = j THEN t ELSE rest[k - 1]
  BY <1>5 DEF Inserted
<1>7. ASSUME NEW k \in 1 .. Len(l)
      PROVE  new[k] = IF k = j THEN l[i]
                      ELSE IF k < j THEN (IF k < i THEN l[k] ELSE l[k + 1])
                      ELSE (IF k - 1 < i THEN l[k - 1] ELSE l[k])
  <2>1. CASE k = j
    BY <1>2, <1>3, <1>4, <1>6, <2>1
  <2>2. CASE k < j
    <3>1. k \in 1 .. Len(rest) + 1 /\ k \in 1 .. Len(l) - 1 BY <1>2, <1>3, <2>2
    <3>2. new[k] = rest[k] BY <1>6, <2>2, <3>1
    <3> QED BY <1>2, <1>3, <2>2, <3>1, <3>2
  <2>3. CASE k > j
    <3>1. k \in 1 .. Len(rest) + 1 /\ k - 1 \in 1 .. Len(l) - 1 /\ (k - 1) + 1 = k BY <1>2, <1>3, <2>3
    <3>2. new[k] = rest[k - 1] BY <1>3, <1>6, <2>3, <3>1
    <3> QED BY <1>2, <1>3, <2>3, <3>1, <3>2
  <2> QED BY <1>3, <2>1, <2>2, <2>3
<1>8. Len(new) = Len(l) BY <1>2, <1>3, <1>6
<1> QED BY <1>0, <1>6, <1>7, <1>8 DEF DraggedTo

(* The neighbours a drag names are two rows next to each other in the list *)
(* it began with.                                                          *)
LEMMA PlanIs ==
  ASSUME NEW l \in Seq(Tasks), NEW i \in DOMAIN l, NEW j \in DOMAIN l, i # j,
         NEW plan, plan = Plan(l, i, j)
  PROVE  /\ plan.task = l[i]
         /\ plan.before = IF j = 1 THEN None ELSE IF j < i THEN l[j - 1] ELSE l[j]
         /\ plan.after = IF j = Len(l) THEN None ELSE IF j < i THEN l[j] ELSE l[j + 1]
<1>1. PICK new : new = Dragged(l, i, j) OBVIOUS
<1>2. Len(l) \in Nat /\ i \in 1 .. Len(l) /\ j \in 1 .. Len(l)
  OBVIOUS
<1>3. \A k \in 1 .. Len(l) :
              new[k] = IF k = j THEN l[i]
                       ELSE IF k < j THEN (IF k < i THEN l[k] ELSE l[k + 1])
                       ELSE (IF k - 1 < i THEN l[k - 1] ELSE l[k])
  BY <1>1, DraggedIs DEF DraggedTo
<1>4. j # 1 => new[j - 1] = IF j < i THEN l[j - 1] ELSE l[j]
  BY <1>2, <1>3
<1>5. j # Len(l) => new[j + 1] = IF j < i THEN l[j] ELSE l[j + 1]
  BY <1>2, <1>3
<1>6. /\ plan.task = l[i]
      /\ plan.before = IF j = 1 THEN None ELSE new[j - 1]
      /\ plan.after = IF j = Len(l) THEN None ELSE new[j + 1]
  BY <1>1 DEF Plan
<1> QED BY <1>4, <1>5, <1>6

(* A plan made from a list of tasks names tasks or none.                   *)
LEMMA PlanType ==
  ASSUME NEW l \in Seq(Tasks), NEW i \in DOMAIN l, NEW j \in DOMAIN l
  PROVE  Plan(l, i, j) \in Plans
<1> DEFINE new == Dragged(l, i, j)
<1>1. new \in Seq(Tasks) /\ Len(new) = Len(l) BY DraggedIs DEF DraggedTo
<1>2. i \in 1 .. Len(l) /\ j \in 1 .. Len(l) /\ l[i] \in Tasks OBVIOUS
<1> HIDE DEF new
<1>3. j # 1 => new[j - 1] \in Tasks BY <1>1, <1>2
<1>4. j # Len(l) => new[j + 1] \in Tasks BY <1>1, <1>2
<1> QED BY <1>2, <1>3, <1>4 DEF Plan, Plans, new

(* The lists the server may answer are lists of tasks.                     *)
LEMMA OrderedListsType == OrderedLists \subseteq Seq(Tasks)
<1>1. Cardinality(Live) \in Nat
  BY TasksAssumption, FS_Subset, FS_CardinalityType DEF Live
<1> QED BY <1>1 DEF OrderedLists, SetToSeqs, Live

(* The place behind the last task is a number.                             *)
LEMMA LastPositionType ==
  ASSUME TypeOK, NEW last \in LastPosition
  PROVE  computeAppendPosition(last) \in Int
<1>1. CASE Live = {}
  BY <1>1, GAPAssumption DEF LastPosition, computeAppendPosition
<1>2. CASE Live # {}
  <2>1. last \in Int BY <1>2 DEF LastPosition, Live, TypeOK
  <2> QED BY <2>1, AppendGoesLast
<1> QED BY <1>1, <1>2

(* A task's new number is a number if the task is in the list.             *)
LEMMA RenumberedType ==
  ASSUME NEW l \in Seq(Tasks), NEW t \in Tasks \cup {None}
  PROVE  Renumbered(l, t) \in Int \cup {None} /\ (t # None /\ Contains(l, t) => Renumbered(l, t) \in Int)
<1>1. CASE t # None /\ Contains(l, t)
  <2> DEFINE i == CHOOSE k \in DOMAIN l : l[k] = t
  <2>1. i \in DOMAIN l BY <1>1 DEF Contains
  <2>2. i \in Int BY <2>1
  <2> HIDE DEF i
  <2>3. i * GAP \in Int BY <2>2, GAPAssumption
  <2> QED BY <1>1, <2>3 DEF Renumbered, rebalancedPosition, i
<1>2. CASE ~(t # None /\ Contains(l, t))
  BY <1>2 DEF Renumbered
<1> QED BY <1>1, <1>2

(* What a request under way remembers, by where it is.                     *)
LEMMA ReqShape ==
  ASSUME NEW x \in Req
  PROVE  /\ x.pc = "append" => x.at \in Int
         /\ x.pc = "after" => x.plan \in Plans /\ x.beforeAt \in Int \cup {None}
         /\ x.pc = "list" => x.plan \in Plans
         /\ x.pc = "renumber" => /\ x.plan \in Plans /\ x.list \in Seq(Tasks)
                                 /\ [x EXCEPT !.pc = "exhausted"] \in Req
                                 /\ [x EXCEPT !.pc = "missing"] \in Req
         /\ x.pc = "place" => x.plan \in Plans /\ x.at \in Int /\ [x EXCEPT !.pc = "missing"] \in Req
<1>1. CASE x = Idle BY <1>1 DEF Idle
<1>2. CASE x \in [pc : {"append"}, at : Int] BY <1>2
<1>3. CASE x \in [pc : {"after"}, plan : Plans, beforeAt : Int \cup {None}] BY <1>3
<1>4. CASE x \in [pc : {"list"}, plan : Plans] BY <1>4
<1>5. CASE x \in [pc : {"renumber", "exhausted", "missing"}, plan : Plans, list : Seq(Tasks)]
  BY <1>5 DEF Req
<1>6. CASE x \in [pc : {"place", "missing"}, plan : Plans, at : Int] BY <1>6 DEF Req
<1> QED BY <1>1, <1>2, <1>3, <1>4, <1>5, <1>6 DEF Req

(* A request that knows its place is a request.                            *)
LEMMA PlaceType ==
  ASSUME NEW plan \in Plans, NEW at \in Int
  PROVE  [pc |-> "place", plan |-> plan, at |-> at] \in Req
  BY DEF Req

(* What the route reads of a neighbour is a number or nothing.             *)
LEMMA PositionOfType ==
  ASSUME TypeOK, NEW t \in Live \cup {None}
  PROVE  PositionOf(t) \in Int \cup {None}
  BY DEF TypeOK, Live, PositionOf

(* The types hold at the start.                                            *)
LEMMA InitType == Init => TypeOK
  BY OrderAssumption DEF Init, TypeOK, Req

(* Every step keeps the types.                                             *)
LEMMA StepType ==
  ASSUME TypeOK, [Next]_vars
  PROVE  TypeOK'
<1>0. alone' \in BOOLEAN
  BY DEF TypeOK, Next, vars
<1> USE <1>0 DEF TypeOK
<1>1. CASE Refresh
  BY <1>1, OrderedListsType DEF Refresh
<1>2. ASSUME NEW r \in Requests, BeginAppend(r)
      PROVE  TypeOK'
  <2>1. PICK last \in LastPosition :
          req' = [req EXCEPT ![r] = [pc |-> "append", at |-> computeAppendPosition(last)]]
    BY <1>2 DEF BeginAppend
  <2>2. [pc |-> "append", at |-> computeAppendPosition(last)] \in Req
    BY LastPositionType DEF Req
  <2> QED BY <1>2, <2>1, <2>2 DEF BeginAppend
<1>3. ASSUME NEW r \in Requests, CommitAppend(r)
      PROVE  TypeOK'
  <2>1. req[r].at \in Int BY <1>3, ReqShape DEF CommitAppend, At
  <2> QED BY <1>3, <2>1 DEF CommitAppend, Ends, Req
<1>4. ASSUME NEW r \in Requests, NEW t \in Tasks, Delete(r, t)
      PROVE  TypeOK'
  BY <1>4 DEF Delete
<1>5. ASSUME NEW r \in Requests, NEW i \in DOMAIN view, NEW j \in DOMAIN view, BeginMove(r, i, j)
      PROVE  TypeOK'
  <2> DEFINE plan == Plan(view, i, j)
  <2>1. plan \in Plans BY PlanType
  <2>2. PositionOf(plan.before) \in Int \cup {None}
    BY <1>5, PositionOfType DEF BeginMove
  <2>3. req' = [req EXCEPT ![r] =
                  [pc |-> "after", plan |-> plan, beforeAt |-> PositionOf(plan.before)]]
    BY <1>5 DEF BeginMove
  <2> HIDE DEF plan
  <2>4. req' \in [Requests -> Req] BY <2>1, <2>2, <2>3 DEF Req
  <2>5. moves' \in 0 .. MaxMoves BY <1>5, OrderAssumption DEF BeginMove
  <2> QED BY <1>5, <2>4, <2>5 DEF BeginMove
<1>6. ASSUME NEW r \in Requests, ReadAfter(r)
      PROVE  TypeOK'
  <2> DEFINE plan == req[r].plan
             at == computePositionBetween(req[r].beforeAt, PositionOf(plan.after))
  <2>1. plan \in Plans /\ req[r].beforeAt \in Int \cup {None}
    BY <1>6, ReqShape DEF ReadAfter, At
  <2>2. CASE plan.after \notin Live \cup {None}
    BY <1>6, <2>2 DEF ReadAfter, Ends, Req
  <2>3. CASE plan.after \in Live \cup {None}
    <3>1. at \in Int \cup {Exhausted} BY <2>1, <2>3, PositionOfType, BetweenType
    <3>2. req' = [req EXCEPT ![r] = IF at = Exhausted THEN [pc |-> "list", plan |-> plan]
                                    ELSE [pc |-> "place", plan |-> plan, at |-> at]]
      BY <1>6, <2>3 DEF ReadAfter
    <3> HIDE DEF plan, at
    <3>3. req' \in [Requests -> Req] BY <2>1, <3>1, <3>2 DEF Req
    <3> QED BY <1>6, <3>3 DEF ReadAfter
  <2> QED BY <2>2, <2>3
<1>7. ASSUME NEW r \in Requests, ReadAll(r)
      PROVE  TypeOK'
  <2>1. PICK l \in OrderedLists :
          req' = [req EXCEPT ![r] = [pc |-> "renumber", plan |-> req[r].plan, list |-> l]]
    BY <1>7 DEF ReadAll
  <2>2. l \in Seq(Tasks) BY OrderedListsType
  <2>3. req[r].plan \in Plans BY <1>7, ReqShape DEF ReadAll, At
  <2>4. [pc |-> "renumber", plan |-> req[r].plan, list |-> l] \in Req BY <2>2, <2>3 DEF Req
  <2> QED BY <1>7, <2>1, <2>4 DEF ReadAll
<1>8. ASSUME NEW r \in Requests, Renumber(r)
      PROVE  TypeOK'
  <2> DEFINE l == req[r].list
             plan == req[r].plan
             at == computePositionBetween(Renumbered(l, plan.before), Renumbered(l, plan.after))
  <2>1. /\ plan \in Plans /\ l \in Seq(Tasks)
        /\ [req[r] EXCEPT !.pc = "exhausted"] \in Req /\ [req[r] EXCEPT !.pc = "missing"] \in Req
    BY <1>8, ReqShape DEF Renumber, At
  <2>2. at \in Int \cup {Exhausted}
    <3>1. plan.before \in Tasks \cup {None} /\ plan.after \in Tasks \cup {None}
      BY <2>1 DEF Plans
    <3>2. Renumbered(l, plan.before) \in Int \cup {None} /\ Renumbered(l, plan.after) \in Int \cup {None}
      BY <2>1, <3>1, RenumberedType
    <3> QED BY <3>2, BetweenType
  <2>3. CASE ToSet(l) \subseteq Live
    <3>1. pos' = Rewritten(l) /\ Retry(r) BY <1>8, <2>3 DEF Renumber
    <3>2. Rewritten(l) \in [Tasks -> Int \cup {None}]
      BY <2>1, RenumberedType DEF Rewritten
    <3>3. CASE at = Exhausted
      <4>1. req' = [req EXCEPT ![r] = [req[r] EXCEPT !.pc = "exhausted"]]
        BY <3>1, <3>3 DEF Retry, Goes
      <4>2. req' \in [Requests -> Req] BY <2>1, <4>1
      <4> QED BY <1>8, <3>1, <3>2, <4>2 DEF Renumber
    <3>4. CASE at # Exhausted
      <4>1. req' = [req EXCEPT ![r] = [pc |-> "place", plan |-> plan, at |-> at]]
        BY <3>1, <3>4 DEF Retry
      <4> HIDE DEF at, plan
      <4>2. req' \in [Requests -> Req] BY <2>1, <2>2, <3>4, <4>1, PlaceType
      <4> QED BY <1>8, <3>1, <3>2, <4>2 DEF Renumber
    <3> QED BY <3>3, <3>4
  <2>4. CASE ~(ToSet(l) \subseteq Live)
    <3>1. req' = [req EXCEPT ![r] = [req[r] EXCEPT !.pc = "missing"]] /\ UNCHANGED pos
      BY <1>8, <2>4 DEF Renumber, Goes
    <3> QED BY <1>8, <2>1, <3>1 DEF Renumber
  <2> QED BY <2>3, <2>4
<1>9. ASSUME NEW r \in Requests, Place(r)
      PROVE  TypeOK'
  <2>1. req[r].plan \in Plans /\ req[r].at \in Int /\ [req[r] EXCEPT !.pc = "missing"] \in Req
    BY <1>9, ReqShape DEF Place, At
  <2>2. CASE req[r].plan.task \in Live
    BY <1>9, <2>1, <2>2 DEF Place, Ends, Req
  <2>3. CASE req[r].plan.task \notin Live
    <3>1. req' = [req EXCEPT ![r] = [req[r] EXCEPT !.pc = "missing"]] /\ UNCHANGED pos
      BY <1>9, <2>3 DEF Place, Goes
    <3> QED BY <1>9, <2>1, <3>1 DEF Place
  <2> QED BY <2>2, <2>3
<1>10. ASSUME NEW r \in Requests, GiveUp(r)
       PROVE  TypeOK'
  BY <1>10 DEF GiveUp, Ends, Req
<1>11. CASE UNCHANGED vars
  BY <1>11 DEF vars
<1> QED BY <1>1, <1>2, <1>3, <1>4, <1>5, <1>6, <1>7, <1>8, <1>9, <1>10, <1>11 DEF Next

(* Only numbers are ever stored as positions, and every plan under way     *)
(* names tasks, however requests overlap.                                  *)
THEOREM TypeCorrect == Spec => []TypeOK
<1>1. Init => TypeOK BY InitType
<1>2. TypeOK /\ [Next]_vars => TypeOK' BY StepType
<1> QED BY <1>1, <1>2, PTL DEF Spec

-----------------------------------------------------------------------------
(* No renumbering, placing or creation revives a deleted task.             *)
LEMMA StepGone ==
  ASSUME TypeOK, [Next]_vars, NEW t \in Tasks, t \notin unborn, pos[t] = None
  PROVE  pos'[t] = None
<1>1. CASE UNCHANGED pos
  BY <1>1
<1>2. ASSUME NEW r \in Requests, CommitAppend(r)
      PROVE  pos'[t] = None
  BY <1>2 DEF CommitAppend, TypeOK
<1>3. ASSUME NEW r \in Requests, NEW u \in Tasks, Delete(r, u)
      PROVE  pos'[t] = None
  BY <1>3 DEF Delete, TypeOK
<1>4. ASSUME NEW r \in Requests, Renumber(r), ToSet(req[r].list) \subseteq Live
      PROVE  pos'[t] = None
  <2>1. t \notin Live BY DEF Live
  <2>2. ~Contains(req[r].list, t)
    <3>1. req[r].list \in Seq(Tasks) BY <1>4, ReqShape DEF Renumber, At, TypeOK
    <3> QED BY <1>4, <2>1, <3>1 DEF Contains, ToSet
  <2> QED BY <1>4, <2>2 DEF Renumber, Rewritten
<1>5. ASSUME NEW r \in Requests, Place(r), req[r].plan.task \in Live
      PROVE  pos'[t] = None
  BY <1>5 DEF Place, Live, TypeOK
<1> QED BY <1>1, <1>2, <1>3, <1>4, <1>5
     DEF Next, Refresh, BeginAppend, BeginMove, ReadAfter, ReadAll, Renumber, Place, GiveUp, vars

(* A deleted task stays deleted, whatever renumbering had read it before.  *)
THEOREM GoneStaysGoneCorrect == Spec => GoneStaysGone
<1>1. TypeOK /\ [Next]_vars => [\A t \in Tasks : t \notin unborn /\ pos[t] = None => pos'[t] = None]_vars
  BY StepGone
<1> QED BY <1>1, TypeCorrect, PTL DEF Spec, GoneStaysGone

-----------------------------------------------------------------------------
Positions == [Tasks -> Int \cup {None}]

Ranked(l, p) ==
  /\ l \in Seq(Tasks)
  /\ \A k \in DOMAIN l : p[l[k]] # None
  /\ \A t \in Tasks : p[t] # None => \E k \in DOMAIN l : l[k] = t
  /\ \A i, k \in DOMAIN l : i < k => p[l[i]] < p[l[k]]

(* Every set of numbers that is not empty has a least one.                 *)
LEMMA Least ==
  ASSUME NEW T \in SUBSET Nat, T # {}
  PROVE  \E n \in T : \A m \in T : ~ (m < n)
<1>1. IsWellFoundedOn({ss \in Nat \X Nat : ss[1] < ss[2]}, Nat)
  BY NatLessThanWellFounded DEF OpToRel
<1>2. \E n \in T : \A m \in T : ~ (<<m, n>> \in {ss \in Nat \X Nat : ss[1] < ss[2]})
  BY <1>1, WFMin
<1> QED BY <1>2

Held(p) == {t \in Tasks : p[t] # None}
ListsOf(p) == {m \in SetToSeqs(Held(p)) : \A i, k \in DOMAIN m : i < k => p[m[i]] <= p[m[k]]}

(* What a ranked list is, with the types the arithmetic needs.             *)
LEMMA RankedIs ==
  ASSUME NEW p \in Positions, NEW l, Ranked(l, p)
  PROVE  /\ l \in Seq(Tasks) /\ Len(l) \in Nat /\ DOMAIN l = 1 .. Len(l)
         /\ \A k \in DOMAIN l : l[k] \in Tasks /\ l[k] \in Held(p) /\ p[l[k]] \in Int
         /\ \A t \in Held(p) : \E k \in DOMAIN l : l[k] = t
         /\ \A i, k \in DOMAIN l : i < k => p[l[i]] < p[l[k]]
<1>1. l \in Seq(Tasks) /\ Len(l) \in Nat /\ DOMAIN l = 1 .. Len(l)
  BY DEF Ranked
<1>2. \A k \in DOMAIN l : l[k] \in Tasks BY <1>1
<1> QED BY <1>1, <1>2 DEF Ranked, Held, Positions

(* Two tasks never share a position of a ranked list.                      *)
LEMMA RankedApart ==
  ASSUME NEW p \in Positions, NEW l, Ranked(l, p)
  PROVE  /\ \A i, k \in DOMAIN l : i # k => l[i] # l[k]
         /\ \A t, u \in Held(p) : t # u => p[t] # p[u]
<1>1. ASSUME NEW i \in DOMAIN l, NEW k \in DOMAIN l, i # k
      PROVE  p[l[i]] # p[l[k]]
  <2>1. i \in Int /\ k \in Int /\ p[l[i]] \in Int /\ p[l[k]] \in Int
    BY RankedIs
  <2>2. CASE i < k BY <2>1, <2>2, RankedIs
  <2>3. CASE k < i BY <2>1, <2>3, RankedIs
  <2> QED BY <1>1, <2>1, <2>2, <2>3
<1>2. ASSUME NEW t \in Held(p), NEW u \in Held(p), t # u
      PROVE  p[t] # p[u]
  <2>1. PICK i \in DOMAIN l : l[i] = t BY RankedIs
  <2>2. PICK k \in DOMAIN l : l[k] = u BY RankedIs
  <2> QED BY <1>1, <1>2, <2>1, <2>2
<1> QED BY <1>1, <1>2

(* There is one ranked list.                                               *)
LEMMA RankedOnce ==
  ASSUME NEW p \in Positions, NEW l, Ranked(l, p), NEW m, Ranked(m, p)
  PROVE  l = m
<1> DEFINE Same(n) == n \in DOMAIN l /\ n \in DOMAIN m /\ l[n] = m[n]
           Bad == {n \in DOMAIN l \cup DOMAIN m : ~ Same(n)}
<1>1. /\ l \in Seq(Tasks) /\ Len(l) \in Nat /\ DOMAIN l = 1 .. Len(l)
      /\ m \in Seq(Tasks) /\ Len(m) \in Nat /\ DOMAIN m = 1 .. Len(m)
  BY RankedIs
<1>2. CASE Bad = {}
  <2>1. DOMAIN l = DOMAIN m /\ \A n \in DOMAIN l : l[n] = m[n] BY <1>2
  <2> QED BY <1>1, <2>1
<1>3. CASE Bad # {}
  <2>1. Bad \in SUBSET Nat BY <1>1
  <2>2. PICK n \in Bad : \A k \in Bad : ~ (k < n) BY <1>3, <2>1, Least
  <2>3. \A k \in 1 .. n - 1 : Same(k)
    <3>1. \A k \in 1 .. n - 1 : k \in DOMAIN l \cup DOMAIN m /\ k < n BY <1>1, <2>1
    <3> QED BY <2>2, <3>1
  <2>4. CASE n \notin DOMAIN m
    <3>1. n \in DOMAIN l /\ \A k \in DOMAIN m : k \in 1 .. n - 1
      BY <1>1, <2>3, <2>4
    <3>2. PICK k \in DOMAIN m : m[k] = l[n] BY <3>1, RankedIs
    <3>3. k \in DOMAIN l /\ l[k] = l[n] /\ k # n BY <2>3, <3>1, <3>2
    <3> QED BY <3>1, <3>3, RankedApart
  <2>5. CASE n \notin DOMAIN l
    <3>1. n \in DOMAIN m /\ \A k \in DOMAIN l : k \in 1 .. n - 1
      BY <1>1, <2>3, <2>5
    <3>2. PICK k \in DOMAIN l : l[k] = m[n] BY <3>1, RankedIs
    <3>3. k \in DOMAIN m /\ m[k] = m[n] /\ k # n BY <2>3, <3>1, <3>2
    <3> QED BY <3>1, <3>3, RankedApart
  <2>6. CASE n \in DOMAIN l /\ n \in DOMAIN m
    <3>1. l[n] # m[n] BY <2>2, <2>6
    <3>2. PICK k \in DOMAIN m : m[k] = l[n] BY <2>6, RankedIs
    <3>3. PICK i \in DOMAIN l : l[i] = m[n] BY <2>6, RankedIs
    <3>4. k \in Nat /\ i \in Nat /\ n \in Nat BY <1>1, <2>1
    <3>5. k > n
      <4>1. CASE k < n
        <5>1. k \in DOMAIN l /\ l[k] = l[n] BY <1>1, <2>3, <3>2, <3>4, <4>1
        <5> QED BY <2>6, <4>1, <5>1, <3>4, RankedApart
      <4>2. k # n BY <3>1, <3>2
      <4> QED BY <3>4, <4>1, <4>2
    <3>6. i > n
      <4>1. CASE i < n
        <5>1. i \in DOMAIN m /\ m[i] = m[n] BY <1>1, <2>3, <3>3, <3>4, <4>1
        <5> QED BY <2>6, <4>1, <5>1, <3>4, RankedApart
      <4>2. i # n BY <3>1, <3>3
      <4> QED BY <3>4, <4>1, <4>2
    <3>7. p[l[n]] < p[l[i]] BY <2>6, <3>4, <3>6, RankedIs
    <3>8. p[m[n]] < p[m[k]] BY <2>6, <3>4, <3>5, RankedIs
    <3>9. p[l[n]] \in Int /\ p[m[n]] \in Int BY <2>6, RankedIs
    <3> QED BY <3>2, <3>3, <3>7, <3>8, <3>9
  <2> QED BY <2>4, <2>5, <2>6
<1> QED BY <1>2, <1>3

(* The server then has one list to answer.                                 *)
LEMMA RankedLists ==
  ASSUME NEW p \in Positions, NEW l, Ranked(l, p)
  PROVE  ListsOf(p) = {l}
<1> DEFINE S == Held(p)
<1>1. IsFiniteSet(S) /\ Cardinality(S) \in Nat
  BY TasksAssumption, FS_Subset, FS_CardinalityType DEF Held
<1>2. \A n \in Nat : IsFiniteSet(1 .. n) /\ Cardinality(1 .. n) = n
  BY FS_Interval
<1>3. l \in ListsOf(p)
  <2> DEFINE D == 1 .. Len(l)
  <2>1. /\ l \in [D -> S] /\ Len(l) \in Nat
        /\ \A i, k \in D : i # k => l[i] # l[k]
        /\ \A t \in S : \E k \in D : l[k] = t
    BY RankedIs, RankedApart
  <2>2. l \in Surjection(D, S) /\ l \in Injection(D, S)
    BY <2>1 DEF Surjection, Injection, IsInjective
  <2>3. Len(l) = Cardinality(S)
    BY <1>2, <2>1, <2>2, FS_Surjection
  <2>4. l \in SetToSeqs(S)
    BY <2>1, <2>3 DEF SetToSeqs
  <2>5. \A i, k \in DOMAIN l : i < k => p[l[i]] <= p[l[k]]
    BY RankedIs
  <2> QED BY <2>4, <2>5 DEF ListsOf
<1>4. ASSUME NEW m \in ListsOf(p)
      PROVE  m = l
  <2> DEFINE D == 1 .. Cardinality(S)
  <2>1. m \in [D -> S] /\ \A i, k \in D : i # k => m[i] # m[k]
    BY DEF ListsOf, SetToSeqs
  <2>2. m \in Injection(D, S)
    BY <2>1 DEF Injection, IsInjective
  <2>3. m \in Surjection(D, S)
    BY <1>1, <1>2, <2>2, FS_Injection
  <2>4. \A t \in S : \E k \in D : m[k] = t
    BY <2>3 DEF Surjection
  <2>5. DOMAIN m = D /\ m \in Seq(Tasks)
    BY <1>1, <2>1 DEF Held
  <2>6. \A i, k \in D : i < k => p[m[i]] < p[m[k]]
    <3>1. ASSUME NEW i \in D, NEW k \in D, i < k PROVE p[m[i]] < p[m[k]]
      <4>1. p[m[i]] <= p[m[k]] BY <2>5, <3>1 DEF ListsOf
      <4>2. m[i] # m[k] /\ m[i] \in S /\ m[k] \in S BY <1>1, <2>1, <3>1
      <4>3. p[m[i]] # p[m[k]] BY <4>2, RankedApart
      <4>4. p[m[i]] \in Int /\ p[m[k]] \in Int BY <4>2 DEF Held, Positions
      <4> QED BY <4>1, <4>3, <4>4
    <3> QED BY <3>1
  <2>7. Ranked(m, p)
    BY <2>1, <2>4, <2>5, <2>6 DEF Ranked, Held
  <2> QED BY <2>7, RankedOnce
<1> QED BY <1>3, <1>4

(* A new task whose position is beyond every other goes to the end of the  *)
(* list.                                                                   *)
LEMMA RankedAppend ==
  ASSUME NEW p \in Positions, NEW l, Ranked(l, p), NEW t \in Tasks, p[t] = None, NEW at \in Int,
         \A u \in Held(p) : p[u] < at, NEW q, q = [p EXCEPT ![t] = at]
  PROVE  Ranked(Append(l, t), q)
<1>1. PICK m : m = Append(l, t) OBVIOUS
<1>2. l \in Seq(Tasks) /\ Len(l) \in Nat /\ DOMAIN l = 1 .. Len(l) BY RankedIs
<1>3. /\ m \in Seq(Tasks) /\ DOMAIN m = 1 .. Len(l) + 1 /\ m[Len(l) + 1] = t
      /\ \A k \in 1 .. Len(l) : m[k] = l[k]
  BY <1>1, <1>2
<1>4. q[t] = at /\ at # None /\ \A u \in Tasks \ {t} : q[u] = p[u]
  BY NoPositionAssumption DEF Positions
<1>5. \A k \in 1 .. Len(l) : l[k] # t /\ l[k] \in Tasks /\ l[k] \in Held(p) /\ q[l[k]] = p[l[k]]
  BY <1>2, <1>4, RankedIs DEF Held
<1>6. \A k \in DOMAIN m : q[m[k]] # None
  <2>1. ASSUME NEW k \in DOMAIN m PROVE q[m[k]] # None
    <3>1. CASE k \in 1 .. Len(l) BY <1>3, <1>5, <3>1 DEF Held
    <3>2. CASE k = Len(l) + 1 BY <1>3, <1>4, <3>2
    <3> QED BY <1>2, <1>3, <3>1, <3>2
  <2> QED BY <2>1
<1>7. \A u \in Tasks : q[u] # None => \E k \in DOMAIN m : m[k] = u
  <2>1. ASSUME NEW u \in Tasks, q[u] # None PROVE \E k \in DOMAIN m : m[k] = u
    <3>1. CASE u = t BY <1>2, <1>3, <3>1
    <3>2. CASE u # t
      <4>1. u \in Held(p) BY <1>4, <2>1, <3>2 DEF Held
      <4>2. PICK k \in 1 .. Len(l) : l[k] = u BY <1>2, <4>1, RankedIs
      <4> QED BY <1>2, <1>3, <4>2
    <3> QED BY <3>1, <3>2
  <2> QED BY <2>1
<1>8. \A i, k \in DOMAIN m : i < k => q[m[i]] < q[m[k]]
  <2>1. ASSUME NEW i \in DOMAIN m, NEW k \in DOMAIN m, i < k PROVE q[m[i]] < q[m[k]]
    <3>1. i \in 1 .. Len(l) BY <1>2, <1>3, <2>1
    <3>2. CASE k \in 1 .. Len(l)
      BY <1>2, <1>3, <1>5, <2>1, <3>1, <3>2, RankedIs
    <3>3. CASE k = Len(l) + 1
      BY <1>3, <1>4, <1>5, <3>1, <3>3
    <3> QED BY <1>2, <1>3, <3>2, <3>3
  <2> QED BY <2>1
<1> QED BY <1>1, <1>3, <1>6, <1>7, <1>8 DEF Ranked

(* A task that loses its position leaves the list and nothing else moves.  *)
LEMMA RankedRemove ==
  ASSUME NEW p \in Positions, NEW l, Ranked(l, p), NEW i \in DOMAIN l,
         NEW q, q = [p EXCEPT ![l[i]] = None]
  PROVE  Ranked(RemoveAt(l, i), q)
<1>1. PICK m : m = RemoveAt(l, i) OBVIOUS
<1>2. l \in Seq(Tasks) /\ Len(l) \in Nat /\ i \in 1 .. Len(l) /\ DOMAIN l = 1 .. Len(l) BY RankedIs
<1>3. /\ m \in Seq(Tasks) /\ Len(m) = Len(l) - 1
      /\ \A k \in 1 .. Len(l) - 1 : m[k] = IF k < i THEN l[k] ELSE l[k + 1]
  BY <1>1, <1>2, RemoveAtIs
<1>4. DOMAIN m = 1 .. Len(l) - 1 BY <1>3
<1>5. \A k \in 1 .. Len(l) - 1 : k < i => m[k] = l[k]
  BY <1>3
<1>6. \A k \in 1 .. Len(l) - 1 : ~ (k < i) => m[k] = l[k + 1]
  BY <1>3
<1>7. q[l[i]] = None /\ \A u \in Tasks \ {l[i]} : q[u] = p[u]
  BY RankedIs DEF Positions
<1>8. \A k \in 1 .. Len(l) : k # i => l[k] # l[i] /\ l[k] \in Held(p) /\ q[l[k]] = p[l[k]]
  BY <1>2, <1>7, RankedIs, RankedApart
<1>9. \A k \in DOMAIN m : q[m[k]] # None
  <2>1. ASSUME NEW k \in DOMAIN m PROVE q[m[k]] # None
    <3>1. CASE k < i BY <1>2, <1>4, <1>5, <1>8, <3>1 DEF Held
    <3>2. CASE ~ (k < i)
      <4>1. k + 1 \in 1 .. Len(l) /\ k + 1 # i BY <1>2, <1>4, <3>2
      <4> QED BY <1>4, <1>6, <1>8, <3>2, <4>1 DEF Held
    <3> QED BY <3>1, <3>2
  <2> QED BY <2>1
<1>10. \A u \in Tasks : q[u] # None => \E k \in DOMAIN m : m[k] = u
  <2>1. ASSUME NEW u \in Tasks, q[u] # None PROVE \E k \in DOMAIN m : m[k] = u
    <3>1. u # l[i] /\ u \in Held(p) BY <1>7, <2>1 DEF Held
    <3>2. PICK k \in DOMAIN l : l[k] = u BY <3>1, RankedIs
    <3>3. CASE k < i BY <1>2, <1>4, <1>5, <3>2, <3>3
    <3>4. CASE k > i
      <4>1. k - 1 \in 1 .. Len(l) - 1 /\ ~ (k - 1 < i) /\ (k - 1) + 1 = k BY <1>2, <3>4
      <4> QED BY <1>4, <1>6, <3>2, <4>1
    <3> QED BY <1>2, <3>1, <3>2, <3>3, <3>4
  <2> QED BY <2>1
<1>11. \A n, k \in DOMAIN m : n < k => q[m[n]] < q[m[k]]
  <2> DEFINE At0(k) == IF k < i THEN k ELSE k + 1
  <2>1. \A k \in DOMAIN m : m[k] = l[At0(k)] /\ At0(k) \in 1 .. Len(l) /\ At0(k) # i
    BY <1>2, <1>4, <1>5, <1>6
  <2>2. ASSUME NEW n \in DOMAIN m, NEW k \in DOMAIN m, n < k PROVE q[m[n]] < q[m[k]]
    <3>1. At0(n) < At0(k) BY <1>2, <1>4, <2>2
    <3> HIDE DEF At0
    <3>2. p[l[At0(n)]] < p[l[At0(k)]] BY <1>2, <2>1, <3>1, RankedIs
    <3> QED BY <1>8, <2>1, <3>2
  <2> QED BY <2>2
<1> QED BY <1>1, <1>3, <1>9, <1>10, <1>11 DEF Ranked

(* Where the drag of row i to place j fits.                                *)
Fits(l, p, i, j, at) ==
  /\ j < i => /\ j # 1 => p[l[j - 1]] < at
              /\ at < p[l[j]]
  /\ i < j => /\ p[l[j]] < at
              /\ j # Len(l) => at < p[l[j + 1]]

(* A task whose position is set where its drag fits goes to that place and *)
(* nothing else moves.                                                     *)
LEMMA RankedDrag ==
  ASSUME NEW p \in Positions, NEW l, Ranked(l, p), NEW i \in DOMAIN l, NEW j \in DOMAIN l, i # j,
         NEW at \in Int, Fits(l, p, i, j, at), NEW q, q = [p EXCEPT ![l[i]] = at]
  PROVE  Ranked(Dragged(l, i, j), q)
<1>1. PICK m : m = Dragged(l, i, j) OBVIOUS
<1>0. /\ m \in Seq(Tasks) /\ Len(m) = Len(l)
      /\ \A k \in 1 .. Len(l) :
           m[k] = IF k = j THEN l[i]
                  ELSE IF k < j THEN (IF k < i THEN l[k] ELSE l[k + 1])
                  ELSE (IF k - 1 < i THEN l[k - 1] ELSE l[k])
  <2>1. l \in Seq(Tasks) BY RankedIs
  <2>2. DraggedTo(m, l, i, j) BY <1>1, <2>1, DraggedIs
  <2> QED BY <2>2 DEF DraggedTo
<1> DEFINE c(k) == IF k = j THEN i
                   ELSE IF k < j THEN (IF k < i THEN k ELSE k + 1)
                   ELSE (IF k - 1 < i THEN k - 1 ELSE k)
           D == 1 .. Len(l)
<1>2. l \in Seq(Tasks) /\ Len(l) \in Nat /\ i \in D /\ j \in D /\ DOMAIN l = D BY RankedIs
<1>3. m \in Seq(Tasks) /\ DOMAIN m = D /\ \A k \in D : m[k] = l[c(k)]
  BY <1>0, <1>2
<1>4. \A k \in D : c(k) \in D /\ (c(k) = i <=> k = j)
  BY <1>2
<1>5. \A n, k \in D : n < k /\ n # j /\ k # j => c(n) < c(k)
  BY <1>2
<1>6. \A e \in D : \E k \in D : c(k) = e
  <2>1. ASSUME NEW e \in D PROVE \E k \in D : c(k) = e
    <3>1. CASE e = i BY <1>2, <3>1
    <3>2. CASE (e < i /\ e < j) \/ (e > i /\ e > j)
      <4>1. c(e) = e BY <1>2, <3>2
      <4> QED BY <4>1
    <3>3. CASE e < i /\ ~ (e < j)
      <4>1. e + 1 \in D /\ c(e + 1) = e BY <1>2, <3>3
      <4> QED BY <4>1
    <3>4. CASE e > i /\ ~ (e > j)
      <4>1. e - 1 \in D /\ c(e - 1) = e BY <1>2, <3>4
      <4> QED BY <4>1
    <3> QED BY <1>2, <3>1, <3>2, <3>3, <3>4
  <2> QED BY <2>1
<1>7. q[l[i]] = at /\ at # None /\ \A u \in Tasks \ {l[i]} : q[u] = p[u]
  BY NoPositionAssumption, RankedIs DEF Positions
<1>8. \A e \in D : e # i => l[e] # l[i] /\ l[e] \in Held(p) /\ p[l[e]] \in Int /\ q[l[e]] = p[l[e]]
  BY <1>2, <1>7, RankedIs, RankedApart
<1>9. \A e \in D : p[l[e]] \in Int /\ \A f \in D : e < f => p[l[e]] < p[l[f]]
  BY <1>2, RankedIs
<1>10. ASSUME NEW k \in D, k < j PROVE p[l[c(k)]] < at
  <2>1. CASE j < i
    <3>1. c(k) = k /\ j - 1 \in D /\ k <= j - 1 /\ j # 1 BY <1>2, <1>10, <2>1
    <3>2. p[l[j - 1]] < at BY <2>1, <3>1 DEF Fits
    <3>3. k < j - 1 \/ k = j - 1 BY <1>2, <3>1
    <3>4. p[l[k]] \in Int /\ p[l[j - 1]] \in Int BY <1>9, <3>1
    <3>5. p[l[k]] < p[l[j - 1]] \/ p[l[k]] = p[l[j - 1]] BY <1>9, <3>1, <3>3
    <3> QED BY <3>1, <3>2, <3>4, <3>5
  <2>2. CASE i < j
    <3>1. PICK e \in D : e = c(k) /\ e <= j BY <1>2, <1>4, <1>10, <2>2
    <3>2. p[l[j]] < at BY <2>2 DEF Fits
    <3>3. e < j \/ e = j BY <1>2, <3>1
    <3>4. p[l[e]] \in Int /\ p[l[j]] \in Int BY <1>2, <1>9
    <3>5. p[l[e]] < p[l[j]] \/ p[l[e]] = p[l[j]] BY <1>2, <1>9, <3>3
    <3> QED BY <3>1, <3>2, <3>4, <3>5
  <2> QED BY <1>2, <2>1, <2>2
<1>11. ASSUME NEW k \in D, j < k PROVE at < p[l[c(k)]]
  <2>1. CASE j < i
    <3>1. PICK e \in D : e = c(k) /\ e >= j BY <1>2, <1>4, <1>11, <2>1
    <3>2. at < p[l[j]] BY <2>1 DEF Fits
    <3>3. j < e \/ e = j BY <1>2, <3>1
    <3>4. p[l[e]] \in Int /\ p[l[j]] \in Int BY <1>2, <1>9
    <3>5. p[l[j]] < p[l[e]] \/ p[l[e]] = p[l[j]] BY <1>2, <1>9, <3>3
    <3> QED BY <3>1, <3>2, <3>4, <3>5
  <2>2. CASE i < j
    <3>1. c(k) = k /\ j + 1 \in D /\ k >= j + 1 /\ j # Len(l) BY <1>2, <1>11, <2>2
    <3>2. at < p[l[j + 1]] BY <2>2, <3>1 DEF Fits
    <3>3. j + 1 < k \/ k = j + 1 BY <1>2, <3>1
    <3>4. p[l[k]] \in Int /\ p[l[j + 1]] \in Int BY <1>9, <3>1
    <3>5. p[l[j + 1]] < p[l[k]] \/ p[l[k]] = p[l[j + 1]] BY <1>9, <3>1, <3>3
    <3> QED BY <3>1, <3>2, <3>4, <3>5
  <2> QED BY <1>2, <2>1, <2>2
<1>12. c(j) = i OBVIOUS
<1> HIDE DEF c
<1>13. \A k \in DOMAIN m : q[m[k]] # None
  BY <1>3, <1>4, <1>7, <1>8 DEF Held
<1>14. \A u \in Tasks : q[u] # None => \E k \in DOMAIN m : m[k] = u
  <2>1. ASSUME NEW u \in Tasks, q[u] # None PROVE \E k \in DOMAIN m : m[k] = u
    <3>1. u = l[i] \/ u \in Held(p) BY <1>7, <2>1 DEF Held
    <3>2. PICK e \in DOMAIN l : l[e] = u BY <1>2, <3>1, RankedIs
    <3>3. PICK k \in D : c(k) = e BY <1>2, <1>6
    <3> QED BY <1>3, <3>2, <3>3
  <2> QED BY <2>1
<1>15. \A n, k \in DOMAIN m : n < k => q[m[n]] < q[m[k]]
  <2>1. ASSUME NEW n \in DOMAIN m, NEW k \in DOMAIN m, n < k PROVE q[m[n]] < q[m[k]]
    <3>1. n \in D /\ k \in D /\ c(n) \in D /\ c(k) \in D BY <1>3, <1>4
    <3>2. CASE n = j
      <4>1. k # j /\ j < k BY <1>2, <2>1, <3>1, <3>2
      <4>2. at < p[l[c(k)]] BY <1>11, <3>1, <4>1
      <4>3. q[m[n]] = at BY <1>3, <1>7, <1>12, <3>1, <3>2
      <4>4. q[m[k]] = p[l[c(k)]] BY <1>3, <1>4, <1>8, <3>1, <4>1
      <4> QED BY <4>2, <4>3, <4>4
    <3>3. CASE k = j
      <4>1. n # j /\ n < j BY <1>2, <2>1, <3>1, <3>3
      <4>2. p[l[c(n)]] < at BY <1>10, <3>1, <4>1
      <4>3. q[m[k]] = at BY <1>3, <1>7, <1>12, <3>1, <3>3
      <4>4. q[m[n]] = p[l[c(n)]] BY <1>3, <1>4, <1>8, <3>1, <4>1
      <4> QED BY <4>2, <4>3, <4>4
    <3>4. CASE n # j /\ k # j
      <4>1. c(n) < c(k) BY <1>5, <2>1, <3>1, <3>4
      <4>2. p[l[c(n)]] < p[l[c(k)]] BY <1>9, <3>1, <4>1
      <4>3. q[m[n]] = p[l[c(n)]] /\ q[m[k]] = p[l[c(k)]] BY <1>3, <1>4, <1>8, <3>1, <3>4
      <4> QED BY <4>2, <4>3
    <3> QED BY <3>2, <3>3, <3>4
  <2> QED BY <2>1
<1> QED BY <1>1, <1>3, <1>13, <1>14, <1>15 DEF Ranked

-----------------------------------------------------------------------------
Inside(plan, p, at) ==
  /\ plan.before # None => p[plan.before] < at
  /\ plan.after # None => at < p[plan.after]

DrawnAt(plan, l, p, i, j) ==
  /\ Ranked(l, p) /\ i \in DOMAIN l /\ j \in DOMAIN l /\ i # j
  /\ plan = Plan(l, i, j)

(* A position is found strictly between its two bounds, or not at all.     *)
LEMMA BetweenStrict ==
  ASSUME NEW before \in Int \cup {None}, NEW after \in Int \cup {None},
         NEW at, at = computePositionBetween(before, after), at # Exhausted
  PROVE  at \in Int /\ (before # None => before < at) /\ (after # None => at < after)
<1>1. CASE before # None /\ after # None
  BY <1>1, BisectStrict DEF computePositionBetween
<1>2. CASE before = None /\ after = None
  BY <1>2, GAPAssumption DEF computePositionBetween
<1>3. CASE before = None /\ after # None
  BY <1>3, GAPAssumption DEF computePositionBetween
<1>4. CASE before # None /\ after = None
  BY <1>4, GAPAssumption DEF computePositionBetween
<1> QED BY <1>1, <1>2, <1>3, <1>4

(* The neighbours a drag is sent with are rows of the list, in its order.  *)
LEMMA DrawnNeighbours ==
  ASSUME NEW p \in Positions, NEW l, NEW i, NEW j, NEW plan, DrawnAt(plan, l, p, i, j)
  PROVE  /\ plan.task = l[i] /\ plan.task \in Held(p)
         /\ plan.before # None => \E b \in DOMAIN l : b # i /\ plan.before = l[b]
         /\ plan.after # None => \E a \in DOMAIN l : a # i /\ plan.after = l[a]
         /\ plan.before # None /\ plan.after # None
              => \E b, a \in DOMAIN l : b < a /\ plan.before = l[b] /\ plan.after = l[a]
<1>1. Ranked(l, p) /\ i \in DOMAIN l /\ j \in DOMAIN l /\ i # j /\ plan = Plan(l, i, j)
  BY DEF DrawnAt
<1>2. /\ l \in Seq(Tasks) /\ Len(l) \in Nat /\ DOMAIN l = 1 .. Len(l)
      /\ \A k \in DOMAIN l : l[k] \in Tasks /\ l[k] \in Held(p)
  BY <1>1, RankedIs
<1>3. /\ plan.task = l[i]
      /\ plan.before = IF j = 1 THEN None ELSE IF j < i THEN l[j - 1] ELSE l[j]
      /\ plan.after = IF j = Len(l) THEN None ELSE IF j < i THEN l[j] ELSE l[j + 1]
  BY <1>1, <1>2, PlanIs
<1>4. CASE j < i
  <2>1. plan.before # None => j - 1 \in DOMAIN l /\ j - 1 # i /\ plan.before = l[j - 1]
    BY <1>1, <1>2, <1>3, <1>4
  <2>2. j \in DOMAIN l /\ plan.after # None => plan.after = l[j]
    BY <1>1, <1>2, <1>3, <1>4
  <2>3. j - 1 < j BY <1>1, <1>2
  <2> QED BY <1>1, <1>2, <1>3, <2>1, <2>2, <2>3
<1>5. CASE i < j
  <2>1. plan.before # None => plan.before = l[j]
    BY <1>1, <1>2, <1>3, <1>5
  <2>2. plan.after # None => j + 1 \in DOMAIN l /\ j + 1 # i /\ plan.after = l[j + 1]
    BY <1>1, <1>2, <1>3, <1>5
  <2>3. j < j + 1 BY <1>1, <1>2
  <2> QED BY <1>1, <1>2, <1>3, <2>1, <2>2, <2>3
<1> QED BY <1>1, <1>2, <1>4, <1>5

(* Between its neighbours a dragged row fits into the list.                *)
LEMMA DrawnFits ==
  ASSUME NEW p \in Positions, NEW l, NEW i, NEW j, NEW plan, DrawnAt(plan, l, p, i, j),
         NEW at \in Int, Inside(plan, p, at)
  PROVE  Fits(l, p, i, j, at)
<1>1. Ranked(l, p) /\ i \in DOMAIN l /\ j \in DOMAIN l /\ i # j /\ plan = Plan(l, i, j)
  BY DEF DrawnAt
<1>2. /\ l \in Seq(Tasks) /\ Len(l) \in Nat /\ DOMAIN l = 1 .. Len(l)
      /\ \A k \in DOMAIN l : l[k] \in Tasks /\ l[k] # None
  BY <1>1, RankedIs, TasksAssumption
<1>3. /\ plan.task = l[i]
      /\ plan.before = IF j = 1 THEN None ELSE IF j < i THEN l[j - 1] ELSE l[j]
      /\ plan.after = IF j = Len(l) THEN None ELSE IF j < i THEN l[j] ELSE l[j + 1]
  BY <1>1, <1>2, PlanIs
<1>4. CASE j < i
  <2>1. j # 1 => plan.before = l[j - 1] /\ plan.before # None
    BY <1>1, <1>2, <1>3, <1>4
  <2>2. plan.after = l[j] /\ plan.after # None
    BY <1>1, <1>2, <1>3, <1>4
  <2> QED BY <1>1, <1>2, <1>4, <2>1, <2>2 DEF Inside, Fits
<1>5. CASE i < j
  <2>1. plan.before = l[j] /\ plan.before # None
    BY <1>1, <1>2, <1>3, <1>5
  <2>2. j # Len(l) => plan.after = l[j + 1] /\ plan.after # None
    BY <1>1, <1>2, <1>3, <1>5
  <2> QED BY <1>1, <1>2, <1>5, <2>1, <2>2 DEF Inside, Fits
<1> QED BY <1>1, <1>2, <1>4, <1>5

(* Renumbering keeps the list and gives row k the number k * GAP.          *)
LEMMA RankedRenumber ==
  ASSUME pos \in Positions, NEW l, Ranked(l, pos), NEW q, q = Rewritten(l)
  PROVE  /\ Ranked(l, q) /\ Held(q) = Held(pos)
         /\ \A k \in DOMAIN l : /\ Renumbered(l, l[k]) = rebalancedPosition(k)
                                /\ q[l[k]] = rebalancedPosition(k)
<1>1. /\ l \in Seq(Tasks) /\ Len(l) \in Nat /\ DOMAIN l = 1 .. Len(l)
      /\ \A k \in DOMAIN l : l[k] \in Tasks /\ l[k] \in Held(pos) /\ l[k] # None
      /\ \A t \in Held(pos) : \E k \in DOMAIN l : l[k] = t
  BY RankedIs, TasksAssumption
<1>2. ASSUME NEW k \in DOMAIN l
      PROVE  Contains(l, l[k]) /\ Renumbered(l, l[k]) = rebalancedPosition(k)
  <2>1. Contains(l, l[k]) BY <1>1 DEF Contains
  <2>2. (CHOOSE n \in DOMAIN l : l[n] = l[k]) = k BY RankedApart
  <2> QED BY <1>1, <2>1, <2>2 DEF Renumbered
<1>3. \A k \in DOMAIN l : rebalancedPosition(k) \in Int /\ rebalancedPosition(k) # None
  BY <1>1, GAPAssumption, NoPositionAssumption DEF rebalancedPosition
<1>4. \A k \in DOMAIN l : q[l[k]] = rebalancedPosition(k)
  BY <1>1, <1>2 DEF Rewritten
<1>5. \A t \in Tasks : t \notin Held(pos) => q[t] = None
  <2>1. ASSUME NEW t \in Tasks, t \notin Held(pos) PROVE q[t] = None
    <3>1. ~ Contains(l, t) BY <1>1, <2>1 DEF Contains
    <3> QED BY <2>1, <3>1 DEF Rewritten, Held
  <2> QED BY <2>1
<1>6. \A i, k \in DOMAIN l : i < k => q[l[i]] < q[l[k]]
  <2>1. ASSUME NEW i \in DOMAIN l, NEW k \in DOMAIN l, i < k PROVE i * GAP < k * GAP
    <3>1. \A n, g \in Nat \ {0} : n * g > 0 OBVIOUS
    <3>2. (k - i) * GAP > 0 BY <1>1, <2>1, <3>1, GAPAssumption
    <3>3. k * GAP - i * GAP = (k - i) * GAP /\ k * GAP \in Int /\ i * GAP \in Int
      BY <1>1, GAPAssumption
    <3> QED BY <3>2, <3>3
  <2> QED BY <1>4, <2>1 DEF rebalancedPosition
<1>7. \A t \in Tasks : t \in Held(pos) => q[t] # None
  BY <1>1, <1>3, <1>4
<1>8. Held(q) = Held(pos) BY <1>5, <1>7 DEF Held
<1>9. Ranked(l, q)
  BY <1>1, <1>5, <1>6, <1>7 DEF Ranked, Held
<1> QED BY <1>2, <1>4, <1>8, <1>9

-----------------------------------------------------------------------------
(* While each client waits for the answer, the list and the request under  *)
(* way stand to each other like this.                                      *)
Standing(x, p) ==
  /\ x.pc = "append" => \A t \in Held(p) : p[t] < x.at
  /\ x.pc \in {"after", "list", "renumber", "place"} => \E l, i, j : DrawnAt(x.plan, l, p, i, j)
  /\ x.pc = "after" => x.beforeAt = IF x.plan.before = None THEN None ELSE p[x.plan.before]
  /\ x.pc = "renumber" => Ranked(x.list, p)
  /\ x.pc = "place" => Inside(x.plan, p, x.at)

Single == \A r, s \in Requests : ~At(r, "idle") /\ ~At(s, "idle") => r = s
Listed == \E l : Ranked(l, pos)
Unmade == \A t \in unborn : pos[t] = None
AllStand == \A r \in Requests : Standing(req[r], pos)

ListInv == TypeOK /\ (alone => Single /\ Listed /\ Unmade /\ AllStand)

Settled == alone => \A r \in Requests : ~At(r, "exhausted")

(* An empty project has an empty list and no request under way.            *)
LEMMA InitList == Init => ListInv /\ Settled
<1> SUFFICES ASSUME Init PROVE ListInv /\ Settled
  OBVIOUS
<1>1. TypeOK BY InitType
<1>2. \A r \in Requests : req[r].pc = "idle" BY DEF Init, Idle
<1>3. Single /\ AllStand /\ Settled BY <1>2 DEF Single, AllStand, Standing, Settled, At
<1>4. Ranked(<<>>, pos) BY DEF Init, Ranked
<1> QED BY <1>1, <1>3, <1>4 DEF ListInv, Listed, Unmade, Init

(* One request goes on; the others are idle.                               *)
LEMMA OneGoesOn ==
  ASSUME TypeOK', NEW r \in Requests, \A s \in Requests \ {r} : req[s].pc = "idle",
         req \in [Requests -> Req], NEW x, req' = [req EXCEPT ![r] = x], Standing(x, pos'),
         Listed', Unmade'
  PROVE  ListInv'
<1>1. req'[r] = x /\ \A s \in Requests \ {r} : req'[s].pc = "idle"
  OBVIOUS
<1>2. AllStand' BY <1>1 DEF AllStand, Standing
<1>3. Single' BY <1>1 DEF Single, At
<1> QED BY <1>2, <1>3 DEF ListInv

(* While one request of a waiting client is under way, all others are      *)
(* idle.                                                                   *)
LEMMA OthersIdle ==
  ASSUME Single, NEW r \in Requests, ~ At(r, "idle")
  PROVE  \A s \in Requests \ {r} : req[s].pc = "idle"
BY DEF Single, At

(* A request that is not under way claims nothing.                         *)
LEMMA IdleStands ==
  ASSUME NEW p
  PROVE  Standing(Idle, p)
BY DEF Standing, Idle

(* Where a neighbour was is what the route reads of it.                    *)
LEMMA BoundsRead ==
  ASSUME TypeOK, NEW l, NEW i, NEW j, NEW plan, DrawnAt(plan, l, pos, i, j)
  PROVE  /\ plan.before \in Live \cup {None} /\ plan.after \in Live \cup {None}
         /\ PositionOf(plan.before) \in Int \cup {None}
         /\ PositionOf(plan.after) \in Int \cup {None}
         /\ plan.before # None => PositionOf(plan.before) = pos[plan.before] /\ PositionOf(plan.before) # None
         /\ plan.after # None => PositionOf(plan.after) = pos[plan.after] /\ PositionOf(plan.after) # None
<1>1. pos \in Positions BY DEF TypeOK, Positions
<1>2. Ranked(l, pos) BY DEF DrawnAt
<1>3. /\ plan.before # None => plan.before \in Held(pos)
      /\ plan.after # None => plan.after \in Held(pos)
  BY <1>1, <1>2, DrawnNeighbours, RankedIs
<1>4. Held(pos) = Live BY DEF Held, Live
<1>5. plan.before \in Live \cup {None} /\ plan.after \in Live \cup {None}
  BY <1>3, <1>4
<1> QED BY <1>5, PositionOfType DEF PositionOf, Live

(* The bisection the route tries first falls inside, if it is not refused. *)
LEMMA FirstTryInside ==
  ASSUME TypeOK, NEW l, NEW i, NEW j, NEW plan, DrawnAt(plan, l, pos, i, j), NEW at,
         at = computePositionBetween(PositionOf(plan.before), PositionOf(plan.after)), at # Exhausted
  PROVE  at \in Int /\ Inside(plan, pos, at)
<1>1. PICK b : b = PositionOf(plan.before) OBVIOUS
<1>2. PICK a : a = PositionOf(plan.after) OBVIOUS
<1>3. b \in Int \cup {None} /\ a \in Int \cup {None}
  BY <1>1, <1>2, BoundsRead
<1>4. at \in Int /\ (b # None => b < at) /\ (a # None => at < a)
  BY <1>1, <1>2, <1>3, BetweenStrict
<1>5. /\ plan.before # None => b = pos[plan.before] /\ b # None
      /\ plan.after # None => a = pos[plan.after] /\ a # None
  BY <1>1, <1>2, BoundsRead
<1> QED BY <1>4, <1>5 DEF Inside

(* The one it tries after a renumbering does too, and it is not refused if *)
(* the gap can be halved.                                                  *)
LEMMA SecondTryInside ==
  ASSUME TypeOK, NEW m, Ranked(m, pos), NEW l, NEW i, NEW j, NEW plan, DrawnAt(plan, l, pos, i, j),
         NEW q, q = Rewritten(m), NEW at,
         at = computePositionBetween(Renumbered(m, plan.before), Renumbered(m, plan.after))
  PROVE  /\ at # Exhausted => at \in Int /\ Inside(plan, q, at)
         /\ GAP >= 2 => at # Exhausted
<1>1. pos \in Positions BY DEF TypeOK, Positions
<1>2. l = m BY <1>1, RankedOnce DEF DrawnAt
<1>3. \A k \in DOMAIN m : Renumbered(m, m[k]) = rebalancedPosition(k) /\ q[m[k]] = rebalancedPosition(k)
  BY <1>1, RankedRenumber
<1>4. /\ plan.before # None => \E b \in DOMAIN m : b # i /\ plan.before = m[b]
      /\ plan.after # None => \E a \in DOMAIN m : a # i /\ plan.after = m[a]
      /\ plan.before # None /\ plan.after # None
           => \E b, a \in DOMAIN m : b < a /\ plan.before = m[b] /\ plan.after = m[a]
  BY <1>1, <1>2, DrawnNeighbours
<1>5. \A k \in DOMAIN m : k \in Nat /\ rebalancedPosition(k) \in Int /\ rebalancedPosition(k) # None
  <2>1. DOMAIN m = 1 .. Len(m) /\ Len(m) \in Nat BY <1>1, RankedIs
  <2> QED BY <2>1, GAPAssumption, NoPositionAssumption DEF rebalancedPosition
<1>6. PICK b : b = Renumbered(m, plan.before) OBVIOUS
<1>7. PICK a : a = Renumbered(m, plan.after) OBVIOUS
<1>8. /\ plan.before = None => b = None
      /\ plan.before # None => b = q[plan.before] /\ b \in Int /\ b # None
  BY <1>3, <1>4, <1>5, <1>6 DEF Renumbered
<1>9. /\ plan.after = None => a = None
      /\ plan.after # None => a = q[plan.after] /\ a \in Int /\ a # None
  BY <1>3, <1>4, <1>5, <1>7 DEF Renumbered
<1>10. at # Exhausted => at \in Int /\ Inside(plan, q, at)
  <2>1. ASSUME at # Exhausted
        PROVE  at \in Int /\ (b # None => b < at) /\ (a # None => at < a)
    BY <1>6, <1>7, <1>8, <1>9, <2>1, BetweenStrict
  <2> QED BY <1>8, <1>9, <2>1 DEF Inside
<1>11. ASSUME GAP >= 2 PROVE at # Exhausted
  <2>1. CASE plan.before # None /\ plan.after # None
    <3>1. PICK n \in DOMAIN m, k \in DOMAIN m : n < k /\ plan.before = m[n] /\ plan.after = m[k]
      BY <1>4, <2>1
    <3>2. at = computePositionBetween(rebalancedPosition(n), rebalancedPosition(k))
      BY <1>3, <3>1
    <3>3. at \in Int BY <1>5, <1>11, <3>1, <3>2, RenumberingMakesRoom
    <3> QED BY <3>3, NoPositionAssumption
  <2>2. CASE plan.before = None \/ plan.after = None
    <3>1. b = None \/ a = None BY <1>8, <1>9, <2>2
    <3>2. at = computePositionBetween(b, a) BY <1>6, <1>7
    <3>3. at \in Int BY <1>8, <1>9, <3>1, <3>2, GAPAssumption DEF computePositionBetween
    <3> QED BY <3>3, NoPositionAssumption
  <2> QED BY <2>1, <2>2
<1> QED BY <1>10, <1>11

(* What the lists of before still say, and what a step adds to them.       *)
LEMMA StepList ==
  ASSUME ListInv, [Next]_vars
  PROVE  ListInv'
<1>1. TypeOK /\ TypeOK' /\ pos \in Positions /\ pos' \in Positions
  <2>1. TypeOK' BY StepType DEF ListInv
  <2> QED BY <2>1 DEF ListInv, TypeOK, Positions
<1>2. req \in [Requests -> Req] BY <1>1 DEF TypeOK
<1>3. SUFFICES ASSUME alone PROVE ListInv'
  <2>1. alone' = alone BY DEF Next, vars
  <2> QED BY <1>1, <2>1 DEF ListInv
<1>4. Single /\ Listed /\ Unmade /\ AllStand BY <1>3 DEF ListInv
<1>5. \A r \in Requests : ~At(r, "idle") => \A s \in Requests \ {r} : req[s].pc = "idle"
  BY <1>4, OthersIdle
<1>6. \A r \in Requests : Free(r) => \A s \in Requests : req[s].pc = "idle"
  BY <1>3 DEF Free, At
<1>7. \A r \in Requests : Standing(req[r], pos) BY <1>4 DEF AllStand
<1>8. PICK l : Ranked(l, pos) BY <1>4 DEF Listed
<1>9. UNCHANGED pos => Listed' BY <1>4 DEF Listed
<1>10. UNCHANGED <<pos, unborn>> => Unmade' BY <1>4 DEF Unmade
<1>11. CASE UNCHANGED <<pos, unborn, req>>
  <2>1. Single' /\ AllStand'
    BY <1>4, <1>11 DEF Single, AllStand, At
  <2> QED BY <1>1, <1>9, <1>10, <1>11, <2>1 DEF ListInv
<1>12. ASSUME NEW r \in Requests, BeginAppend(r)
       PROVE  ListInv'
  <2>1. PICK last \in LastPosition :
          req' = [req EXCEPT ![r] = [pc |-> "append", at |-> computeAppendPosition(last)]]
    BY <1>12 DEF BeginAppend
  <2>2. \A s \in Requests \ {r} : req[s].pc = "idle" BY <1>6, <1>12 DEF BeginAppend
  <2>3. \A t \in Held(pos) : pos[t] < computeAppendPosition(last)
    <3>1. ASSUME NEW t \in Held(pos)
          PROVE  pos[t] < computeAppendPosition(last)
      <4>1. t \in Live /\ pos[t] \in Int BY <1>1 DEF Held, Live, Positions
      <4>2. last \in Int /\ pos[t] <= last
        BY <1>1, <4>1 DEF LastPosition, Live, Positions
      <4> QED BY <4>1, <4>2, AppendGoesLast
    <3> QED BY <3>1
  <2>4. Standing([pc |-> "append", at |-> computeAppendPosition(last)], pos')
    BY <1>12, <2>3 DEF BeginAppend, Standing
  <2> QED BY <1>1, <1>2, <1>9, <1>10, <1>12, <2>1, <2>2, <2>4, OneGoesOn DEF BeginAppend
<1>13. ASSUME NEW r \in Requests, CommitAppend(r)
       PROVE  ListInv'
  <2>1. PICK t \in unborn : pos' = [pos EXCEPT ![t] = req[r].at] /\ unborn' = unborn \ {t}
    BY <1>13 DEF CommitAppend
  <2>2. \A s \in Requests \ {r} : req[s].pc = "idle" BY <1>5, <1>13 DEF CommitAppend, At
  <2>3. req[r].at \in Int BY <1>2, <1>13, ReqShape DEF CommitAppend, At
  <2>4. t \in Tasks /\ pos[t] = None BY <1>1, <1>4 DEF Unmade, TypeOK
  <2>5. \A u \in Held(pos) : pos[u] < req[r].at BY <1>7, <1>13 DEF CommitAppend, At, Standing
  <2>6. Ranked(Append(l, t), pos') BY <1>1, <1>8, <2>1, <2>3, <2>4, <2>5, RankedAppend
  <2>7. Unmade' BY <1>1, <1>4, <2>1 DEF Unmade, TypeOK
  <2>8. req' = [req EXCEPT ![r] = Idle] BY <1>13 DEF CommitAppend, Ends
  <2> QED BY <1>1, <1>2, <2>2, <2>6, <2>7, <2>8, IdleStands, OneGoesOn DEF Listed
<1>14. ASSUME NEW r \in Requests, NEW t \in Tasks, Delete(r, t)
       PROVE  ListInv'
  <2>1. \A s \in Requests : req[s].pc = "idle" /\ req'[s].pc = "idle" BY <1>6, <1>14 DEF Delete
  <2>2. PICK i \in DOMAIN l : l[i] = t
    BY <1>1, <1>8, <1>14, RankedIs DEF Delete, Held, Live
  <2>3. Ranked(RemoveAt(l, i), pos') BY <1>1, <1>8, <1>14, <2>2, RankedRemove DEF Delete
  <2>4. Unmade' BY <1>1, <1>4, <1>14 DEF Unmade, TypeOK, Delete
  <2>5. Single' /\ AllStand' BY <2>1 DEF Single, AllStand, At, Standing
  <2> QED BY <1>1, <2>3, <2>4, <2>5 DEF ListInv, Listed
<1>15. ASSUME NEW r \in Requests, NEW i \in DOMAIN view, NEW j \in DOMAIN view, BeginMove(r, i, j)
       PROVE  ListInv'
  <2>1. PICK plan : plan = Plan(view, i, j) OBVIOUS
  <2>2. PICK x : x = [pc |-> "after", plan |-> plan, beforeAt |-> PositionOf(plan.before)] OBVIOUS
  <2>3. req' = [req EXCEPT ![r] = x] BY <1>15, <2>1, <2>2 DEF BeginMove
  <2>4. \A s \in Requests \ {r} : req[s].pc = "idle" BY <1>6, <1>15 DEF BeginMove
  <2>5. view = l
    <3>1. view \in OrderedLists BY <1>3, <1>15 DEF BeginMove
    <3>2. OrderedLists = ListsOf(pos) BY DEF OrderedLists, ListsOf, Held, Live
    <3> QED BY <1>1, <1>8, <3>1, <3>2, RankedLists
  <2>6. DrawnAt(plan, l, pos, i, j) BY <1>8, <1>15, <2>1, <2>5 DEF BeginMove, DrawnAt
  <2>7. UNCHANGED <<pos, unborn>> BY <1>15 DEF BeginMove
  <2>8. Standing(x, pos') BY <2>2, <2>6, <2>7 DEF Standing, PositionOf
  <2> QED BY <1>1, <1>2, <1>9, <1>10, <2>3, <2>4, <2>7, <2>8, OneGoesOn
<1>16. ASSUME NEW r \in Requests, ReadAfter(r)
       PROVE  ListInv'
  <2>1. \A s \in Requests \ {r} : req[s].pc = "idle" BY <1>5, <1>16 DEF ReadAfter, At
  <2>2. UNCHANGED <<pos, unborn>> BY <1>16 DEF ReadAfter
  <2>3. PICK plan : plan = req[r].plan OBVIOUS
  <2>4. PICK m, i, j : DrawnAt(plan, m, pos, i, j)
    BY <1>7, <1>16, <2>3 DEF ReadAfter, At, Standing
  <2>5. plan.after \in Live \cup {None} BY <1>1, <2>4, BoundsRead
  <2>6. req[r].beforeAt = PositionOf(plan.before)
    BY <1>7, <1>16, <2>3 DEF ReadAfter, At, Standing, PositionOf
  <2>7. PICK at : at = computePositionBetween(PositionOf(plan.before), PositionOf(plan.after)) OBVIOUS
  <2>8. PICK x : x = IF at = Exhausted THEN [pc |-> "list", plan |-> plan]
                     ELSE [pc |-> "place", plan |-> plan, at |-> at]
    OBVIOUS
  <2>9. req' = [req EXCEPT ![r] = x]
    BY <1>16, <2>3, <2>5, <2>6, <2>7, <2>8 DEF ReadAfter
  <2>10. Standing(x, pos)
    <3>1. CASE at = Exhausted
      <4>1. x = [pc |-> "list", plan |-> plan] BY <2>8, <3>1
      <4> QED BY <2>4, <4>1 DEF Standing
    <3>2. CASE at # Exhausted
      <4>1. x = [pc |-> "place", plan |-> plan, at |-> at] BY <2>8, <3>2
      <4>2. Inside(plan, pos, at) BY <1>1, <2>4, <2>7, <3>2, FirstTryInside
      <4> QED BY <2>4, <4>1, <4>2 DEF Standing
    <3> QED BY <3>1, <3>2
  <2> QED BY <1>1, <1>2, <1>9, <1>10, <2>1, <2>2, <2>9, <2>10, OneGoesOn
<1>17. ASSUME NEW r \in Requests, ReadAll(r)
       PROVE  ListInv'
  <2>1. \A s \in Requests \ {r} : req[s].pc = "idle" BY <1>5, <1>17 DEF ReadAll, At
  <2>2. PICK m \in OrderedLists :
          req' = [req EXCEPT ![r] = [pc |-> "renumber", plan |-> req[r].plan, list |-> m]]
    BY <1>17 DEF ReadAll
  <2>3. m = l
    <3>1. OrderedLists = ListsOf(pos) BY DEF OrderedLists, ListsOf, Held, Live
    <3> QED BY <1>1, <1>8, <2>2, <3>1, RankedLists
  <2>4. UNCHANGED <<pos, unborn>> BY <1>17 DEF ReadAll
  <2>5. Standing([pc |-> "renumber", plan |-> req[r].plan, list |-> m], pos')
    BY <1>7, <1>8, <1>17, <2>3, <2>4 DEF ReadAll, At, Standing
  <2> QED BY <1>1, <1>2, <1>9, <1>10, <2>1, <2>2, <2>4, <2>5, OneGoesOn
<1>18. ASSUME NEW r \in Requests, Renumber(r)
       PROVE  ListInv'
  <2>1. \A s \in Requests \ {r} : req[s].pc = "idle" BY <1>5, <1>18 DEF Renumber, At
  <2>2. PICK plan : plan = req[r].plan OBVIOUS
  <2>3. PICK m, i, j : DrawnAt(plan, m, pos, i, j)
    BY <1>7, <1>18, <2>2 DEF Renumber, At, Standing
  <2>4. req[r].list = l
    <3>1. Ranked(req[r].list, pos) BY <1>7, <1>18 DEF Renumber, At, Standing
    <3> QED BY <1>1, <1>8, <3>1, RankedOnce
  <2>5. m = l BY <1>1, <1>8, <2>3, RankedOnce DEF DrawnAt
  <2>6. ToSet(l) \subseteq Live BY <1>1, <1>8, RankedIs DEF ToSet, Held, Live
  <2>7. pos' = Rewritten(l) /\ Retry(r) BY <1>18, <2>4, <2>6 DEF Renumber
  <2>8. Ranked(l, pos') /\ Held(pos') = Held(pos) BY <1>1, <1>8, <2>7, RankedRenumber
  <2>9. PICK at : at = computePositionBetween(Renumbered(l, plan.before), Renumbered(l, plan.after)) OBVIOUS
  <2>10. at # Exhausted => at \in Int /\ Inside(plan, pos', at)
    BY <1>1, <1>8, <2>3, <2>7, <2>9, SecondTryInside
  <2>11. PICK x : x = IF at = Exhausted THEN [req[r] EXCEPT !.pc = "exhausted"]
                      ELSE [pc |-> "place", plan |-> plan, at |-> at]
    OBVIOUS
  <2>12. req' = [req EXCEPT ![r] = x]
    BY <2>2, <2>4, <2>7, <2>9, <2>11 DEF Retry, Goes
  <2>13. Standing(x, pos')
    <3>1. CASE at = Exhausted
      <4>1. x.pc = "exhausted"
        <5>1. req[r] \in Req /\ req[r].pc = "renumber" BY <1>2, <1>18 DEF Renumber, At
        <5>2. x = [req[r] EXCEPT !.pc = "exhausted"] BY <2>11, <3>1
        <5> QED BY <5>1, <5>2 DEF Req, Idle
      <4> QED BY <4>1 DEF Standing
    <3>2. CASE at # Exhausted
      <4>1. x = [pc |-> "place", plan |-> plan, at |-> at] BY <2>11, <3>2
      <4>2. DrawnAt(plan, l, pos', i, j) BY <2>3, <2>5, <2>8 DEF DrawnAt
      <4> QED BY <2>10, <3>2, <4>1, <4>2 DEF Standing
    <3> QED BY <3>1, <3>2
  <2>14. Unmade'
    <3>1. \A t \in Tasks : t \notin Held(pos) => pos'[t] = None BY <2>8 DEF Held
    <3> QED BY <1>1, <1>4, <1>18, <3>1 DEF Unmade, Held, TypeOK, Renumber
  <2> QED BY <1>1, <1>2, <2>1, <2>8, <2>12, <2>13, <2>14, OneGoesOn DEF Listed
<1>19. ASSUME NEW r \in Requests, Place(r)
       PROVE  ListInv'
  <2>1. \A s \in Requests \ {r} : req[s].pc = "idle" BY <1>5, <1>19 DEF Place, At
  <2>2. PICK plan : plan = req[r].plan OBVIOUS
  <2>3. PICK m, i, j : DrawnAt(plan, m, pos, i, j)
    BY <1>7, <1>19, <2>2 DEF Place, At, Standing
  <2>4. Ranked(m, pos) /\ i \in DOMAIN m /\ j \in DOMAIN m /\ i # j BY <2>3 DEF DrawnAt
  <2>5. plan.task = m[i] /\ plan.task \in Held(pos) BY <1>1, <2>3, DrawnNeighbours
  <2>6. pos' = [pos EXCEPT ![m[i]] = req[r].at] /\ req' = [req EXCEPT ![r] = Idle] /\ unborn' = unborn
    BY <1>19, <2>2, <2>5 DEF Place, Ends, Held, Live
  <2>7. req[r].at \in Int BY <1>2, <1>19, ReqShape DEF Place, At
  <2>8. Fits(m, pos, i, j, req[r].at)
    <3>1. Inside(plan, pos, req[r].at) BY <1>7, <1>19, <2>2 DEF Place, At, Standing
    <3> QED BY <1>1, <2>3, <2>7, <3>1, DrawnFits
  <2>9. Ranked(Dragged(m, i, j), pos') BY <1>1, <2>4, <2>6, <2>7, <2>8, RankedDrag
  <2>10. Unmade' BY <1>1, <1>4, <2>5, <2>6 DEF Unmade, Held, TypeOK
  <2> QED BY <1>1, <1>2, <2>1, <2>6, <2>9, <2>10, IdleStands, OneGoesOn DEF Listed
<1>20. ASSUME NEW r \in Requests, GiveUp(r)
       PROVE  ListInv'
  <2>1. \A s \in Requests \ {r} : req[s].pc = "idle" BY <1>5, <1>20 DEF GiveUp
  <2> QED BY <1>1, <1>2, <1>9, <1>10, <1>20, <2>1, IdleStands, OneGoesOn DEF GiveUp, Ends
<1>21. CASE Refresh
  BY <1>11, <1>21 DEF Refresh
<1>22. CASE UNCHANGED vars
  BY <1>11, <1>22 DEF vars
<1> QED BY <1>12, <1>13, <1>14, <1>15, <1>16, <1>17, <1>18, <1>19, <1>20, <1>21, <1>22 DEF Next

(* For one client that waits, the tasks are always one ranked list and the *)
(* request under way agrees with it.                                       *)
THEOREM ListInvariant == Spec => []ListInv
<1>1. Init => ListInv BY InitList
<1>2. ListInv /\ [Next]_vars => ListInv' BY StepList
<1> QED BY <1>1, <1>2, PTL DEF Spec

-----------------------------------------------------------------------------
(* No step of one client exhausts the second attempt of a drag.            *)
LEMMA StepSettled ==
  ASSUME GAP >= 2, ListInv, Settled, [Next]_vars
  PROVE  Settled'
<1>1. alone' = alone BY DEF Next, vars
<1>2. SUFFICES ASSUME alone PROVE \A r \in Requests : req'[r].pc # "exhausted"
  BY <1>1 DEF Settled, At
<1>3. TypeOK /\ pos \in Positions /\ req \in [Requests -> Req] BY DEF ListInv, TypeOK, Positions
<1>4. \A r \in Requests : req[r].pc # "exhausted" BY <1>2 DEF Settled, At
<1>5. \A r \in Requests : Standing(req[r], pos) BY <1>2 DEF ListInv, AllStand
<1>7. CASE UNCHANGED req BY <1>4, <1>7
<1>8. ASSUME NEW r \in Requests, Ends(r)
      PROVE  \A s \in Requests : req'[s].pc # "exhausted"
  BY <1>3, <1>4, <1>8 DEF Ends, Idle
<1>9. ASSUME NEW r \in Requests, BeginAppend(r)
      PROVE  \A s \in Requests : req'[s].pc # "exhausted"
  BY <1>3, <1>4, <1>9 DEF BeginAppend
<1>10. ASSUME NEW r \in Requests, NEW i \in DOMAIN view, NEW j \in DOMAIN view, BeginMove(r, i, j)
       PROVE  \A s \in Requests : req'[s].pc # "exhausted"
  BY <1>3, <1>4, <1>10 DEF BeginMove
<1>11. ASSUME NEW r \in Requests, ReadAfter(r)
       PROVE  \A s \in Requests : req'[s].pc # "exhausted"
  <2>1. CASE Ends(r) BY <1>8, <2>1
  <2>2. CASE ~ Ends(r)
    <3>1. PICK at : at = computePositionBetween(req[r].beforeAt, PositionOf(req[r].plan.after))
      OBVIOUS
    <3>2. req' = [req EXCEPT ![r] = IF at = Exhausted THEN [pc |-> "list", plan |-> req[r].plan]
                                    ELSE [pc |-> "place", plan |-> req[r].plan, at |-> at]]
      BY <1>11, <2>2, <3>1 DEF ReadAfter
    <3> QED BY <1>3, <1>4, <3>2
  <2> QED BY <2>1, <2>2
<1>12. ASSUME NEW r \in Requests, ReadAll(r)
       PROVE  \A s \in Requests : req'[s].pc # "exhausted"
  BY <1>3, <1>4, <1>12 DEF ReadAll
<1>13. ASSUME NEW r \in Requests, Renumber(r)
       PROVE  \A s \in Requests : req'[s].pc # "exhausted"
  <2>1. PICK plan : plan = req[r].plan OBVIOUS
  <2>2. PICK m : m = req[r].list OBVIOUS
  <2>3. Ranked(m, pos) BY <1>5, <1>13, <2>2 DEF Renumber, At, Standing
  <2>4. PICK l, i, j : DrawnAt(plan, l, pos, i, j)
    BY <1>5, <1>13, <2>1 DEF Renumber, At, Standing
  <2>5. ToSet(m) \subseteq Live BY <1>3, <2>3, RankedIs DEF ToSet, Held, Live
  <2>6. Retry(r) BY <1>13, <2>2, <2>5 DEF Renumber
  <2>7. PICK at : at = computePositionBetween(Renumbered(m, plan.before), Renumbered(m, plan.after))
    OBVIOUS
  <2>8. at # Exhausted BY <1>3, <2>3, <2>4, <2>7, SecondTryInside
  <2>9. req' = [req EXCEPT ![r] = [pc |-> "place", plan |-> plan, at |-> at]]
    BY <2>1, <2>2, <2>6, <2>7, <2>8 DEF Retry
  <2> QED BY <1>3, <1>4, <2>9
<1>14. ASSUME NEW r \in Requests, Place(r)
       PROVE  \A s \in Requests : req'[s].pc # "exhausted"
  <2>1. CASE Ends(r) BY <1>8, <2>1
  <2>2. CASE ~ Ends(r)
    <3>1. req' = [req EXCEPT ![r] = [req[r] EXCEPT !.pc = "missing"]]
      BY <1>14, <2>2 DEF Place, Goes
    <3>2. req[r] \in Req /\ req[r].pc = "place" BY <1>3, <1>14 DEF Place, At
    <3>3. [req[r] EXCEPT !.pc = "missing"].pc = "missing" BY <3>2 DEF Req, Idle
    <3> QED BY <1>3, <1>4, <3>1, <3>3
  <2> QED BY <2>1, <2>2
<1> QED BY <1>7, <1>8, <1>9, <1>10, <1>11, <1>12, <1>13, <1>14
     DEF Next, Refresh, CommitAppend, Delete, GiveUp, vars

(* If the gap can be halved at all, one renumbering makes room: the second *)
(* attempt of one client's drag is never exhausted.                        *)
THEOREM MoveSettlesCorrect ==
  ASSUME GAP >= 2
  PROVE  Spec => []MoveSettles
<1>1. Init => Settled BY InitList
<1>2. ListInv /\ Settled /\ [Next]_vars => Settled' BY StepSettled
<1>3. Settled => MoveSettles BY DEF Settled, MoveSettles, RetrySettles
<1> QED BY <1>1, <1>2, <1>3, ListInvariant, PTL DEF Spec

-----------------------------------------------------------------------------
(* A row placed inside its gap is next to its neighbours.                  *)
LEMMA FittingIsNext ==
  ASSUME NEW p \in Positions, NEW l, NEW i, NEW j, NEW plan, DrawnAt(plan, l, p, i, j),
         NEW at \in Int, Inside(plan, p, at), NEW q, q = [p EXCEPT ![l[i]] = at]
  PROVE  Neighbours(q, l[i], plan)
<1>1. Ranked(l, p) /\ i \in DOMAIN l /\ j \in DOMAIN l /\ i # j /\ plan = Plan(l, i, j)
  BY DEF DrawnAt
<1>2. /\ l \in Seq(Tasks) /\ Len(l) \in Nat /\ DOMAIN l = 1 .. Len(l)
      /\ \A k \in DOMAIN l : l[k] \in Tasks /\ l[k] # None /\ p[l[k]] \in Int
  BY <1>1, RankedIs, TasksAssumption
<1>3. /\ plan.task = l[i]
      /\ plan.before = IF j = 1 THEN None ELSE IF j < i THEN l[j - 1] ELSE l[j]
      /\ plan.after = IF j = Len(l) THEN None ELSE IF j < i THEN l[j] ELSE l[j + 1]
  BY <1>1, <1>2, PlanIs
<1>4. q[l[i]] = at /\ \A u \in Tasks \ {l[i]} : q[u] = p[u]
  BY <1>1, <1>2 DEF Positions
<1>5. /\ plan.before # None => plan.before \in Tasks \ {l[i]} /\ q[plan.before] = p[plan.before]
      /\ plan.after # None => plan.after \in Tasks \ {l[i]} /\ q[plan.after] = p[plan.after]
  BY <1>1, <1>2, <1>4, DrawnNeighbours, RankedApart
<1>6. ASSUME NEW u \in Tasks \ {l[i]}, q[u] # None
      PROVE  /\ plan.before # None => p[u] <= p[plan.before] \/ p[u] > at
             /\ plan.after # None => p[u] >= p[plan.after] \/ p[u] < at
  <2>1. u \in Held(p) BY <1>4, <1>6 DEF Held
  <2>2. PICK e \in DOMAIN l : l[e] = u BY <1>1, <2>1, RankedIs
  <2>3. e \in 1 .. Len(l) /\ e # i /\ p[u] \in Int BY <1>2, <1>6, <2>2
  <2>4. ASSUME NEW n \in DOMAIN l, e <= n PROVE p[u] <= p[l[n]]
    <3>1. e < n \/ e = n BY <1>2, <2>3, <2>4
    <3>2. p[l[n]] \in Int BY <1>2
    <3>3. e < n => p[l[e]] < p[l[n]] BY <1>1, RankedIs
    <3> QED BY <2>2, <2>3, <3>1, <3>2, <3>3
  <2>5. ASSUME NEW n \in DOMAIN l, e >= n PROVE p[u] >= p[l[n]]
    <3>1. n < e \/ e = n BY <1>2, <2>3, <2>5
    <3>2. p[l[n]] \in Int BY <1>2
    <3>3. n < e => p[l[n]] < p[l[e]] BY <1>1, RankedIs
    <3> QED BY <2>2, <2>3, <3>1, <3>2, <3>3
  <2>6. CASE j < i
    <3>1. plan.after = l[j] /\ plan.after # None /\ at < p[l[j]]
      BY <1>1, <1>2, <1>3, <2>6 DEF Inside
    <3>2. CASE e >= j
      <4>1. p[u] >= p[l[j]] BY <1>1, <2>5, <3>2
      <4> QED BY <1>1, <1>2, <2>3, <3>1, <4>1
    <3>3. CASE e < j
      <4>1. j - 1 \in DOMAIN l /\ e <= j - 1 /\ plan.before = l[j - 1] /\ plan.before # None
        BY <1>1, <1>2, <1>3, <2>3, <2>6, <3>3
      <4>2. p[u] <= p[l[j - 1]] BY <2>4, <4>1
      <4>3. p[l[j - 1]] < at /\ p[l[j - 1]] \in Int BY <1>2, <4>1 DEF Inside
      <4> QED BY <2>3, <4>1, <4>2, <4>3
    <3> QED BY <1>1, <1>2, <2>3, <3>2, <3>3
  <2>7. CASE i < j
    <3>1. plan.before = l[j] /\ plan.before # None /\ p[l[j]] < at
      BY <1>1, <1>2, <1>3, <2>7 DEF Inside
    <3>2. CASE e <= j
      <4>1. p[u] <= p[l[j]] BY <1>1, <2>4, <3>2
      <4> QED BY <1>1, <1>2, <2>3, <3>1, <4>1
    <3>3. CASE e > j
      <4>1. j + 1 \in DOMAIN l /\ e >= j + 1 /\ plan.after = l[j + 1] /\ plan.after # None
        BY <1>1, <1>2, <1>3, <2>3, <2>7, <3>3
      <4>2. p[u] >= p[l[j + 1]] BY <2>5, <4>1
      <4>3. at < p[l[j + 1]] /\ p[l[j + 1]] \in Int BY <1>2, <4>1 DEF Inside
      <4> QED BY <2>3, <4>1, <4>2, <4>3
    <3> QED BY <1>1, <1>2, <2>3, <3>2, <3>3
  <2> QED BY <1>1, <1>2, <2>6, <2>7
<1> QED BY <1>4, <1>5, <1>6 DEF Neighbours, Inside

(* Of the steps of one client only the placing moves a row and ends.       *)
LEMMA StepLands ==
  ASSUME ListInv, [Next]_vars, NEW r \in Requests,
         alone, At(r, "place"), pos' # pos, req'[r] = Idle
  PROVE  Neighbours(pos', req[r].plan.task, req[r].plan)
<1>1. TypeOK /\ pos \in Positions /\ req \in [Requests -> Req] BY DEF ListInv, TypeOK, Positions
<1>2. Single /\ Standing(req[r], pos) BY DEF ListInv, AllStand
<1>3. Place(r)
  <2>1. req[r].pc = "place" /\ \A s \in Requests \ {r} : req[s].pc = "idle"
    BY <1>2, OthersIdle DEF At
  <2>2. \A s \in Requests : ~ Free(s) BY <2>1 DEF Free, At
  <2>3. \A s \in Requests : ~ CommitAppend(s) /\ ~ Renumber(s) BY <2>1 DEF CommitAppend, Renumber, At
  <2>4. \A s \in Requests : Place(s) => s = r BY <2>1 DEF Place, At
  <2> QED BY <2>2, <2>3, <2>4
      DEF Next, Refresh, BeginAppend, Delete, BeginMove, ReadAfter, ReadAll, GiveUp, vars
<1>4. PICK plan : plan = req[r].plan OBVIOUS
<1>5. PICK l, i, j : DrawnAt(plan, l, pos, i, j) BY <1>2, <1>4 DEF At, Standing
<1>6. plan.task = l[i] /\ plan.task \in Held(pos) BY <1>1, <1>5, DrawnNeighbours
<1>7. req[r].at \in Int /\ Inside(plan, pos, req[r].at)
  BY <1>1, <1>2, <1>4, ReqShape DEF At, Standing
<1>8. pos' = [pos EXCEPT ![l[i]] = req[r].at] BY <1>3, <1>4, <1>6 DEF Place, Held, Live
<1> QED BY <1>1, <1>4, <1>5, <1>6, <1>7, <1>8, FittingIsNext

(* A row one client drags lands right behind its neighbour before and      *)
(* right ahead of its neighbour after, with or without a renumbering.      *)
THEOREM LandsWhereDroppedCorrect == Spec => LandsWhereDropped
<1>1. ListInv /\ [Next]_vars
        => [\A r \in Requests :
              alone /\ At(r, "place") /\ pos' # pos /\ req'[r] = Idle
                => Neighbours(pos', req[r].plan.task, req[r].plan)]_vars
  BY StepLands
<1> QED BY <1>1, ListInvariant, PTL DEF Spec, LandsWhereDropped

-----------------------------------------------------------------------------
(* The server's answer is the ranked list, before and after a step.        *)
LEMMA OrderIs ==
  ASSUME NEW l
  PROVE  /\ pos \in Positions /\ Ranked(l, pos) => Order = l
         /\ pos' \in Positions /\ Ranked(l, pos') => Order' = l
<1>1. Order = CHOOSE m \in ListsOf(pos) : TRUE
  BY DEF Order, OrderedLists, ListsOf, Held, Live
<1>2. Order' = CHOOSE m \in ListsOf(pos') : TRUE
  BY DEF Order, OrderedLists, ListsOf, Held, Live
<1> HIDE DEF Order
<1>3. pos \in Positions /\ Ranked(l, pos) => ListsOf(pos) = {l} BY RankedLists
<1>4. pos' \in Positions /\ Ranked(l, pos') => ListsOf(pos') = {l} BY RankedLists
<1> QED BY <1>1, <1>2, <1>3, <1>4

(* A step of one client adds to the list, drops or drags one row of it, or *)
(* leaves it alone.                                                        *)
LEMMA StepKeepsList ==
  ASSUME ListInv, [Next]_vars, alone
  PROVE  List!Next \/ UNCHANGED Order
<1>1. pos \in Positions /\ pos' \in Positions /\ TypeOK /\ req \in [Requests -> Req]
  <2>1. TypeOK' BY StepType DEF ListInv
  <2> QED BY <2>1 DEF ListInv, TypeOK, Positions
<1>2. PICK l : Ranked(l, pos) BY DEF ListInv, Listed
<1>3. \A r \in Requests : Standing(req[r], pos) BY DEF ListInv, AllStand
<1>4. Order = l BY <1>1, <1>2, OrderIs
<1>5. ASSUME UNCHANGED pos
      PROVE  UNCHANGED Order
  BY <1>1, <1>2, <1>4, <1>5, OrderIs
<1>6. ASSUME NEW r \in Requests, CommitAppend(r)
      PROVE  List!Next
  <2>1. PICK t \in unborn : pos' = [pos EXCEPT ![t] = req[r].at] /\ unborn' = unborn \ {t}
    BY <1>6 DEF CommitAppend
  <2>2. req[r].at \in Int BY <1>1, <1>6, ReqShape DEF CommitAppend, At
  <2>3. t \in Tasks /\ pos[t] = None BY <1>1 DEF ListInv, Unmade, TypeOK
  <2>4. \A u \in Held(pos) : pos[u] < req[r].at BY <1>3, <1>6 DEF CommitAppend, At, Standing
  <2>5. Ranked(Append(l, t), pos') BY <1>1, <1>2, <2>1, <2>2, <2>3, <2>4, RankedAppend
  <2>6. Order' = Append(Order, t) BY <1>1, <1>4, <2>5, OrderIs
  <2>7. ~ Contains(Order, t) BY <1>1, <1>2, <1>4, <2>3, RankedIs DEF Contains, Held
  <2>8. ~ List!Contains(Order, t) BY <2>7 DEF Contains, List!Contains
  <2> QED BY <2>3, <2>6, <2>8 DEF List!Next, List!Add
<1>7. ASSUME NEW r \in Requests, NEW t \in Tasks, Delete(r, t)
      PROVE  List!Next
  <2>1. PICK i \in DOMAIN l : l[i] = t
    BY <1>1, <1>2, <1>7, RankedIs DEF Delete, Held, Live
  <2>2. Ranked(RemoveAt(l, i), pos') BY <1>1, <1>2, <1>7, <2>1, RankedRemove DEF Delete
  <2>3. Order' = RemoveAt(Order, i) BY <1>1, <1>4, <2>2, OrderIs
  <2>4. List!Drop(i) BY <2>3 DEF List!Drop, List!RemoveAt, RemoveAt
  <2> QED BY <1>4, <2>4 DEF List!Next
<1>8. ASSUME NEW r \in Requests, Renumber(r)
      PROVE  UNCHANGED Order
  <2>1. req[r].list = l
    <3>1. Ranked(req[r].list, pos) BY <1>3, <1>8 DEF Renumber, At, Standing
    <3> QED BY <1>1, <1>2, <3>1, RankedOnce
  <2>2. ToSet(l) \subseteq Live BY <1>1, <1>2, RankedIs DEF ToSet, Held, Live
  <2>3. pos' = Rewritten(l) BY <1>8, <2>1, <2>2 DEF Renumber
  <2>4. Ranked(l, pos') BY <1>1, <1>2, <2>3, RankedRenumber
  <2> QED BY <1>1, <1>4, <2>4, OrderIs
<1>9. ASSUME NEW r \in Requests, Place(r)
      PROVE  List!Next
  <2>1. PICK plan : plan = req[r].plan OBVIOUS
  <2>2. PICK m, i, j : DrawnAt(plan, m, pos, i, j)
    BY <1>3, <1>9, <2>1 DEF Place, At, Standing
  <2>3. Ranked(m, pos) /\ i \in DOMAIN m /\ j \in DOMAIN m /\ i # j BY <2>2 DEF DrawnAt
  <2>4. m = l BY <1>1, <1>2, <2>3, RankedOnce
  <2>5. plan.task = m[i] /\ plan.task \in Held(pos) BY <1>1, <2>2, DrawnNeighbours
  <2>6. pos' = [pos EXCEPT ![m[i]] = req[r].at] BY <1>9, <2>1, <2>5 DEF Place, Held, Live
  <2>7. req[r].at \in Int BY <1>1, <1>9, ReqShape DEF Place, At
  <2>8. Fits(m, pos, i, j, req[r].at)
    <3>1. Inside(plan, pos, req[r].at) BY <1>3, <1>9, <2>1 DEF Place, At, Standing
    <3> QED BY <1>1, <2>2, <2>7, <3>1, DrawnFits
  <2>9. Ranked(Dragged(m, i, j), pos') BY <1>1, <2>3, <2>6, <2>7, <2>8, RankedDrag
  <2>10. Order' = Dragged(Order, i, j) BY <1>1, <1>4, <2>4, <2>9, OrderIs
  <2>11. List!Drag(i, j)
    BY <2>10 DEF List!Drag, List!Dragged, Dragged, List!InsertAt, InsertAt, List!RemoveAt, RemoveAt
  <2> QED BY <1>4, <2>3, <2>4, <2>11 DEF List!Next
<1> QED BY <1>5, <1>6, <1>7, <1>8, <1>9
     DEF Next, Refresh, BeginAppend, BeginMove, ReadAfter, ReadAll, GiveUp, vars

(* To one client the positions are a list: a new task goes to its end, a   *)
(* deleted one leaves it, a dragged one goes where it was dropped, and no  *)
(* statement of a request, a renumbering least of all, does anything else. *)
THEOREM ListKeptCorrect == Spec => ListKept
<1>1. Init => List!Init
  <2> SUFFICES ASSUME Init PROVE Order = <<>>
    BY DEF List!Init
  <2>1. pos \in Positions BY DEF Init, Positions
  <2>2. Ranked(<<>>, pos) BY DEF Init, Ranked
  <2> QED BY <2>1, <2>2, OrderIs
<1>2. ListInv /\ [Next]_vars => [alone => List!Next \/ UNCHANGED Order]_vars
  BY StepKeepsList
<1> QED BY <1>1, <1>2, ListInvariant, PTL DEF Spec, ListKept
=============================================================================
