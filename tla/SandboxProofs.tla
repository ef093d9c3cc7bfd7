--------------------------- MODULE SandboxProofs ---------------------------
(***************************************************************************)
(* Proofs about Sandbox, for any thoughts, any number of requests under    *)
(* way and any bounds: its types, that no second row appears for a         *)
(* thought, that no captured thought is lost, that its text is the last    *)
(* one saved, and that it implements ThoughtLife.                          *)
(***************************************************************************)
EXTENDS Sandbox, TLAPS

(* The state is well formed whatever requests overlap.                     *)
THEOREM TypeCorrect == Spec => []TypeOK
<1>1. Init => TypeOK
  BY BoundsAssumption DEF Init, TypeOK, Ids
<1>2. TypeOK /\ [Next]_vars => TypeOK'
  <2> SUFFICES ASSUME TypeOK, [Next]_vars PROVE TypeOK'
    OBVIOUS
  <2>0. alone' \in BOOLEAN
    BY DEF TypeOK, Next, vars
  <2> USE <2>0, BoundsAssumption, NoneAssumption DEF TypeOK
  <2>1. ASSUME NEW r \in Requests, NEW k \in Thoughts, BeginCapture(r, k) PROVE TypeOK'
    BY <2>1 DEF BeginCapture, Starts, InFlight
  <2>2. ASSUME NEW r \in Requests, NEW i \in Ids, NEW op \in {"file", "unfile"},
               NEW kind \in {"line", "task"}, BeginTransfer(r, i, op, kind)
        PROVE TypeOK'
    <3>1. row[i] \in Row BY <2>2 DEF BeginTransfer, Is, Exists
    <3>2. [op |-> op, id |-> i, text |-> row[i].text] \in InFlight BY <3>1 DEF InFlight, Row
    <3> QED BY <2>2, <3>2 DEF BeginTransfer, Starts
  <2>3. ASSUME NEW r \in Requests, NEW i \in Ids, Edit(r, i) PROVE TypeOK'
    <3>1. row[i] \in Row BY <2>3 DEF Edit, Exists
    <3>2. said[row[i].thought] + 1 \in 0 .. MaxEdits BY <2>3, <3>1 DEF Edit, Row
    <3>3. [row[i] EXCEPT !.text = said[row[i].thought] + 1] \in Row BY <3>1, <3>2 DEF Row
    <3> QED BY <2>3, <3>1, <3>2, <3>3 DEF Edit
  <2>4. ASSUME NEW r \in Requests, NEW i \in Ids, Delete(r, i) PROVE TypeOK'
    BY <2>4 DEF Delete, Without, Exists, Row
  <2>5. ASSUME NEW r \in Requests, CreateLine(r) PROVE TypeOK'
    <3>1. req[r] \in [op : {"capture"}, thought : Thoughts, pc : {"create", "reread"}]
      BY <2>5 DEF CreateLine, Doing, InFlight
    <3>2. CASE Known(req[r].thought)
      <4>1. [req[r] EXCEPT !.pc = "reread"] \in InFlight BY <3>1 DEF InFlight
      <4> QED BY <2>5, <3>2, <4>1 DEF CreateLine
    <3>3. CASE ~Known(req[r].thought)
      <4>1. NewLine(req[r].thought) \in Row BY <3>1 DEF NewLine, Row
      <4>2. /\ Insert(row, NewLine(req[r].thought)) /\ Ends(r)
            /\ captured' = captured \cup {req[r].thought} \/ captured' = captured
            /\ UNCHANGED <<posts, moved, thrown, said>>
        BY <2>5, <3>3 DEF CreateLine
      <4>3. row' \in [Ids -> Row \cup {None}] /\ nextId' \in 1 .. MaxRows + 1
        BY <4>1, <4>2 DEF Insert, Ids
      <4>4. req' \in [Requests -> InFlight \cup {None}] BY <4>2 DEF Ends
      <4> QED BY <3>1, <4>2, <4>3, <4>4
    <3> QED BY <3>2, <3>3
  <2>6. ASSUME NEW r \in Requests, Reread(r) PROVE TypeOK'
    BY <2>6 DEF Reread, Ends, Doing, InFlight
  <2>7. ASSUME NEW r \in Requests, NEW op \in {"file", "unfile"}, NEW kind \in {"line", "task"},
               Doing(r, op), Transfer(r, kind)
        PROVE TypeOK'
    <3>1. req[r].id \in Ids /\ req[r].text \in 0 .. MaxEdits BY <2>7 DEF Doing, InFlight
    <3>2. row[req[r].id] \in Row BY <2>7, <3>1 DEF Transfer, Exists
    <3>3. [kind |-> kind, thought |-> row[req[r].id].thought, key |-> FALSE, text |-> req[r].text] \in Row
      BY <3>1, <3>2 DEF Row
    <3>4. /\ Insert(Without(req[r].id), [kind |-> kind, thought |-> row[req[r].id].thought,
                                          key |-> FALSE, text |-> req[r].text])
          /\ moved' = moved \cup {row[req[r].id].thought}
          /\ Ends(r)
          /\ UNCHANGED <<posts, captured, thrown, said>>
      BY <2>7 DEF Transfer
    <3>5. Without(req[r].id) \in [Ids -> Row \cup {None}] BY DEF Without
    <3>6. row' \in [Ids -> Row \cup {None}] /\ nextId' \in 1 .. MaxRows + 1
      BY <3>3, <3>4, <3>5 DEF Insert, Ids
    <3>7. req' \in [Requests -> InFlight \cup {None}] BY <3>4 DEF Ends
    <3> QED BY <3>2, <3>4, <3>6, <3>7 DEF Row
  <2>8. ASSUME NEW r \in Requests, Abort(r) PROVE TypeOK'
    BY <2>8 DEF Abort, Ends
  <2>9. CASE UNCHANGED vars
    BY <2>9 DEF vars
  <2> QED
    BY <2>1, <2>2, <2>3, <2>4, <2>5, <2>6, <2>7, <2>8, <2>9
    DEF Next, BeginFile, BeginUnfile, CommitFile, CommitUnfile
<1> QED BY <1>1, <1>2, PTL DEF Spec

-----------------------------------------------------------------------------
(* What each write does to the rows, row by row.                           *)

FreshIds == \A i \in Ids : i >= nextId => row[i] = None

(* A capture adds one row, where none was.                                 *)
LEMMA CreateLineRows ==
  ASSUME TypeOK, FreshIds, NEW r \in Requests, CreateLine(r), ~Known(req[r].thought)
  PROVE  /\ nextId \in Ids /\ nextId' = nextId + 1
         /\ row[nextId] = None /\ row'[nextId] = NewLine(req[r].thought)
         /\ row'[nextId] # None
         /\ \A i \in Ids : i # nextId => row'[i] = row[i]
         /\ req[r].thought \in Thoughts
<1>1. /\ Insert(row, NewLine(req[r].thought))
      /\ req[r] \in [op : {"capture"}, thought : Thoughts, pc : {"create", "reread"}]
  BY DEF CreateLine, Doing, TypeOK, InFlight
<1>2. NewLine(req[r].thought) \in Row
  BY <1>1, BoundsAssumption DEF NewLine, Row
<1>3. NewLine(req[r].thought) # None
  BY <1>2, NoneAssumption DEF Row
<1> QED BY <1>1, <1>3 DEF Insert, FreshIds, TypeOK, Ids

(* A filing, or its undoing, puts one row in the place of another.         *)
LEMMA TransferRows ==
  ASSUME TypeOK, FreshIds, NEW r \in Requests, NEW op \in {"file", "unfile"},
         NEW kind \in {"line", "task"}, Doing(r, op), Transfer(r, kind)
  PROVE  /\ nextId \in Ids /\ nextId' = nextId + 1
         /\ req[r].id \in Ids /\ req[r].id < nextId
         /\ row[req[r].id] # None /\ row[req[r].id] \in Row /\ row'[req[r].id] = None
         /\ row[nextId] = None /\ row'[nextId] # None
         /\ row'[nextId].thought = row[req[r].id].thought /\ ~row'[nextId].key
         /\ row'[nextId].kind = kind /\ row'[nextId].text = req[r].text
         /\ \A i \in Ids : i # nextId /\ i # req[r].id => row'[i] = row[i]
         /\ moved' = moved \cup {row[req[r].id].thought}
<1> DEFINE d == req[r].id
           new == [kind |-> kind, thought |-> row[d].thought, key |-> FALSE, text |-> req[r].text]
<1>1. d \in Ids /\ req[r].text \in 0 .. MaxEdits
  BY DEF Doing, TypeOK, InFlight
<1>2. row[d] # None /\ Insert(Without(d), new) /\ moved' = moved \cup {row[d].thought}
  BY DEF Transfer, Exists
<1>3. row[d] \in Row
  BY <1>1, <1>2 DEF TypeOK
<1>4. new \in Row
  BY <1>1, <1>3 DEF Row
<1>5. /\ new # None /\ new.thought = row[d].thought /\ ~new.key
      /\ new.kind = kind /\ new.text = req[r].text
  BY <1>4, NoneAssumption DEF Row
<1>6. d < nextId /\ nextId \in Ids /\ nextId' = nextId + 1
  BY <1>1, <1>2 DEF FreshIds, Insert, TypeOK, Ids
<1>7. row[nextId] = None
  BY <1>6 DEF FreshIds, TypeOK, Ids
<1> HIDE DEF d, new
<1>8. /\ row' = [Without(d) EXCEPT ![nextId] = new]
      /\ Without(d) = [row EXCEPT ![d] = None]
  BY <1>2 DEF Insert, Without
<1>9. /\ row'[nextId] = new /\ row'[d] = None
      /\ \A i \in Ids : i # nextId /\ i # d => row'[i] = row[i]
  BY <1>1, <1>6, <1>8 DEF TypeOK, Ids
<1> QED BY <1>1, <1>2, <1>3, <1>5, <1>6, <1>7, <1>9 DEF d

(* An edit changes the text of one row.                                    *)
LEMMA EditRows ==
  ASSUME TypeOK, NEW r \in Requests, NEW i \in Ids, Edit(r, i)
  PROVE  \A j \in Ids : /\ row'[j] # None <=> row[j] # None
                        /\ row'[j].thought = row[j].thought
                        /\ row'[j].key = row[j].key /\ row'[j].kind = row[j].kind
                        /\ row'[j].text = IF j = i THEN said[row[i].thought] + 1 ELSE row[j].text
<1> DEFINE new == [row[i] EXCEPT !.text = said[row[i].thought] + 1]
<1>1. row[i] # None /\ row' = [row EXCEPT ![i] = new]
  BY DEF Edit, Exists
<1>2. row[i] \in Row
  BY <1>1 DEF TypeOK
<1>3. said[row[i].thought] + 1 \in 0 .. MaxEdits
  BY <1>2, BoundsAssumption DEF Edit, TypeOK, Row
<1>4. /\ new \in Row /\ new.thought = row[i].thought /\ new.key = row[i].key
      /\ new.kind = row[i].kind /\ new.text = said[row[i].thought] + 1
  BY <1>2, <1>3 DEF Row
<1>5. new # None
  BY <1>4, NoneAssumption DEF Row
<1> HIDE DEF new
<1> QED BY <1>1, <1>4, <1>5 DEF TypeOK

(* A deletion takes one row away.                                          *)
LEMMA DeleteRows ==
  ASSUME TypeOK, NEW r \in Requests, NEW i \in Ids, Delete(r, i)
  PROVE  /\ row'[i] = None
         /\ \A j \in Ids : j # i => row'[j] = row[j]
         /\ row[i] # None /\ row[i].thought \in Thoughts
         /\ moved' = moved \cup {row[i].thought}
         /\ thrown' = thrown \cup {row[i].thought}
<1>1. row' = Without(i) /\ row[i] # None
  BY DEF Delete, Exists
<1> QED BY <1>1 DEF Delete, Without, TypeOK, Row

(* Ids are never given twice.                                              *)
LEMMA FreshIdsStep ==
  ASSUME TypeOK, FreshIds, [Next]_vars
  PROVE  FreshIds'
<1>1. ASSUME NEW r \in Requests, NEW k \in Thoughts, BeginCapture(r, k) PROVE FreshIds'
  BY <1>1 DEF BeginCapture, FreshIds
<1>2. ASSUME NEW r \in Requests, NEW i \in Ids, BeginFile(r, i) \/ BeginUnfile(r, i) PROVE FreshIds'
  BY <1>2 DEF BeginFile, BeginUnfile, BeginTransfer, FreshIds
<1>3. ASSUME NEW r \in Requests, NEW i \in Ids, Edit(r, i) PROVE FreshIds'
  BY <1>3, EditRows DEF Edit, FreshIds
<1>4. ASSUME NEW r \in Requests, NEW i \in Ids, Delete(r, i) PROVE FreshIds'
  BY <1>4, DeleteRows DEF Delete, FreshIds
<1>5. ASSUME NEW r \in Requests, CreateLine(r) PROVE FreshIds'
  <2>1. CASE Known(req[r].thought) BY <1>5, <2>1 DEF CreateLine, FreshIds
  <2>2. CASE ~Known(req[r].thought)
    BY <1>5, <2>2, CreateLineRows DEF FreshIds, TypeOK, Ids
  <2> QED BY <2>1, <2>2
<1>6. ASSUME NEW r \in Requests, NEW op \in {"file", "unfile"}, NEW kind \in {"line", "task"},
             Doing(r, op), Transfer(r, kind)
      PROVE FreshIds'
  BY <1>6, TransferRows DEF FreshIds, TypeOK, Ids
<1>7. ASSUME NEW r \in Requests, Reread(r) \/ Abort(r) PROVE FreshIds'
  BY <1>7 DEF Reread, Abort, FreshIds
<1>8. CASE UNCHANGED vars
  BY <1>8 DEF vars, FreshIds
<1> QED
  BY <1>1, <1>2, <1>3, <1>4, <1>5, <1>6, <1>7, <1>8 DEF Next, CommitFile, CommitUnfile

-----------------------------------------------------------------------------
(* However requests overlap, abort or repeat, a captured thought is a line *)
(* or a task until a user throws it away.  The argument: every write keeps *)
(* a row of each thought it touches, except the two deletes; a new row     *)
(* never lands on another, because ids are fresh.                          *)
THEOREM NothingLostCorrect == Spec => []NothingLost
<1>1. Init => FreshIds /\ NothingLost
  BY DEF Init, FreshIds, NothingLost
<1>2. TypeOK /\ FreshIds /\ NothingLost /\ [Next]_vars => NothingLost'
  <2> SUFFICES ASSUME TypeOK, FreshIds, NothingLost, [Next]_vars,
                      NEW k \in captured', k \notin thrown'
               PROVE  \E i \in Ids : row'[i] # None /\ row'[i].thought = k
    BY DEF NothingLost, Of, Exists
  <2> DEFINE Kept == /\ k \in captured
                     /\ k \notin thrown
  <2>0. ASSUME Kept PROVE \E i \in Ids : row[i] # None /\ row[i].thought = k
    BY <2>0 DEF NothingLost, Of, Exists
  <2>1. ASSUME NEW r \in Requests, NEW t \in Thoughts, BeginCapture(r, t)
        PROVE  \E i \in Ids : row'[i] # None /\ row'[i].thought = k
    <3>1. row' = row /\ thrown' = thrown BY <2>1 DEF BeginCapture
    <3>2. CASE k \in captured BY <2>0, <3>1, <3>2
    <3>3. CASE k \notin captured
      <4>1. k = t /\ Known(t) BY <2>1, <3>3 DEF BeginCapture
      <4> QED BY <3>1, <4>1 DEF Known, Of, Exists
    <3> QED BY <3>2, <3>3
  <2>2. ASSUME NEW r \in Requests, NEW i \in Ids, BeginFile(r, i) \/ BeginUnfile(r, i)
        PROVE  \E j \in Ids : row'[j] # None /\ row'[j].thought = k
    BY <2>0, <2>2 DEF BeginFile, BeginUnfile, BeginTransfer
  <2>3. ASSUME NEW r \in Requests, NEW i \in Ids, Edit(r, i)
        PROVE  \E j \in Ids : row'[j] # None /\ row'[j].thought = k
    BY <2>0, <2>3, EditRows DEF Edit
  <2>4. ASSUME NEW r \in Requests, NEW i \in Ids, Delete(r, i)
        PROVE  \E j \in Ids : row'[j] # None /\ row'[j].thought = k
    BY <2>0, <2>4, DeleteRows DEF Delete
  <2>5. ASSUME NEW r \in Requests, CreateLine(r)
        PROVE  \E j \in Ids : row'[j] # None /\ row'[j].thought = k
    <3>1. CASE Known(req[r].thought) BY <2>0, <2>5, <3>1 DEF CreateLine
    <3>2. CASE ~Known(req[r].thought)
      <4>1. CASE k = req[r].thought
        <5>1. /\ nextId \in Ids /\ row'[nextId] # None
              /\ row'[nextId] = NewLine(req[r].thought)
          BY <2>5, <3>2, CreateLineRows
        <5>2. NewLine(req[r].thought).thought = k BY <4>1 DEF NewLine
        <5> QED BY <5>1, <5>2
      <4>2. CASE k # req[r].thought
        BY <2>0, <2>5, <3>2, <4>2, CreateLineRows DEF CreateLine
      <4> QED BY <4>1, <4>2
    <3> QED BY <3>1, <3>2
  <2>6. ASSUME NEW r \in Requests, NEW op \in {"file", "unfile"}, NEW kind \in {"line", "task"},
               Doing(r, op), Transfer(r, kind)
        PROVE  \E j \in Ids : row'[j] # None /\ row'[j].thought = k
    <3>1. captured' = captured /\ thrown' = thrown BY <2>6 DEF Transfer
    <3>2. PICK i \in Ids : row[i] # None /\ row[i].thought = k BY <2>0, <3>1
    <3>3. CASE i = req[r].id BY <2>6, <3>2, <3>3, TransferRows
    <3>4. CASE i # req[r].id BY <2>6, <3>2, <3>4, TransferRows
    <3> QED BY <3>3, <3>4
  <2>7. ASSUME NEW r \in Requests, Reread(r)
        PROVE  \E j \in Ids : row'[j] # None /\ row'[j].thought = k
    <3>1. row' = row /\ thrown' = thrown BY <2>7 DEF Reread
    <3>2. CASE k \in captured BY <2>0, <3>1, <3>2
    <3>3. CASE k \notin captured
      <4>1. k = req[r].thought /\ Known(k) BY <2>7, <3>3 DEF Reread
      <4> QED BY <3>1, <4>1 DEF Known, Of, Exists
    <3> QED BY <3>2, <3>3
  <2>8. ASSUME NEW r \in Requests, Abort(r)
        PROVE  \E j \in Ids : row'[j] # None /\ row'[j].thought = k
    BY <2>0, <2>8 DEF Abort
  <2>9. CASE UNCHANGED vars
    BY <2>0, <2>9 DEF vars
  <2> QED
    BY <2>1, <2>2, <2>3, <2>4, <2>5, <2>6, <2>7, <2>8, <2>9 DEF Next, CommitFile, CommitUnfile
<1>3. Spec => []TypeOK
  BY TypeCorrect
<1> QED BY <1>1, <1>2, <1>3, FreshIdsStep, PTL DEF Spec

-----------------------------------------------------------------------------
(* One place.  What makes it inductive: until its line leaves the sandbox, *)
(* a thought's rows carry its key, and the index keeps keyed rows single;  *)
(* and while a thought was posted only once, the one request that may      *)
(* create its line finds no row of it.                                     *)

Captures(r, k) == Doing(r, "capture") /\ req[r].thought = k

KeyedAtHome ==
  \A k \in Thoughts : \A i \in Of(k) : k \notin moved => row[i].key

KeyUnique ==
  \A k \in Thoughts : \A i, j \in Of(k) : row[i].key /\ row[j].key => i = j

PostedFirst ==
  \A k \in Thoughts : posts[k] = 0 => Of(k) = {} /\ \A r \in Requests : ~Captures(r, k)

PostedOnce ==
  \A k \in Thoughts : posts[k] <= 1 =>
    /\ \A i, j \in Of(k) : i = j
    /\ \A r, s \in Requests : Captures(r, k) => Of(k) = {} /\ (Captures(s, k) => r = s)

OneInv == FreshIds /\ KeyedAtHome /\ KeyUnique /\ PostedFirst /\ PostedOnce

(* A step that takes rows and captures away, and adds none, keeps it.      *)
LEMMA Shrink ==
  ASSUME OneInv, FreshIds', posts' = posts, moved \subseteq moved',
         \A i \in Ids : row'[i] # None =>
           row[i] # None /\ row'[i].thought = row[i].thought /\ row'[i].key = row[i].key,
         \A r \in Requests, k \in Thoughts : Captures(r, k)' => Captures(r, k)
  PROVE  OneInv'
<1>1. \A k \in Thoughts : \A i \in Of(k)' : i \in Of(k) /\ (row'[i].key <=> row[i].key)
  BY DEF Of, Exists
<1>2. KeyedAtHome'
  BY <1>1 DEF OneInv, KeyedAtHome
<1>3. KeyUnique'
  BY <1>1 DEF OneInv, KeyUnique
<1>4. \A k \in Thoughts : Of(k) = {} => Of(k)' = {}
  BY <1>1
<1>5. PostedFirst'
  BY <1>4 DEF OneInv, PostedFirst
<1>6. PostedOnce'
  BY <1>1, <1>4 DEF OneInv, PostedOnce
<1> QED BY <1>2, <1>3, <1>5, <1>6 DEF OneInv

(* Every step keeps the thoughts in one place: one case per action.        *)
LEMMA OneInvStep ==
  ASSUME TypeOK, OneInv, [Next]_vars
  PROVE  OneInv'
<1>0. FreshIds /\ FreshIds'
  BY FreshIdsStep DEF OneInv
<1>1. ASSUME NEW r \in Requests, NEW t \in Thoughts, BeginCapture(r, t) PROVE OneInv'
  <2>1. /\ row' = row /\ moved' = moved /\ req[r] = None
        /\ posts' = [posts EXCEPT ![t] = @ + 1]
        /\ IF Known(t) THEN req' = req
           ELSE req' = [req EXCEPT ![r] = [op |-> "capture", thought |-> t, pc |-> "create"]]
    BY <1>1 DEF BeginCapture, Starts, Free
  <2>2. \A k \in Thoughts : Of(k)' = Of(k)
    BY <2>1 DEF Of, Exists
  <2>3. KeyedAtHome' /\ KeyUnique'
    BY <2>1, <2>2 DEF OneInv, KeyedAtHome, KeyUnique
  <2>4. \A q \in Requests, k \in Thoughts :
          Captures(q, k)' => Captures(q, k) \/ (q = r /\ k = t /\ ~Known(t))
    BY <2>1 DEF Captures, Doing, TypeOK
  <2>5. ~Captures(r, t)
    BY <2>1 DEF Captures, Doing
  <2>6. posts[t] \in Nat /\ posts'[t] = posts[t] + 1 /\ \A k \in Thoughts : k # t => posts'[k] = posts[k]
    BY <2>1, BoundsAssumption DEF TypeOK
  <2>7. PostedFirst'
    <3> SUFFICES ASSUME NEW k \in Thoughts, posts'[k] = 0
                 PROVE  Of(k)' = {} /\ \A q \in Requests : ~Captures(q, k)'
      BY DEF PostedFirst
    <3>1. k # t /\ posts[k] = 0 BY <2>6
    <3> QED BY <2>2, <2>4, <3>1 DEF OneInv, PostedFirst
  <2>8. PostedOnce'
    <3> SUFFICES ASSUME NEW k \in Thoughts, posts'[k] <= 1
                 PROVE  /\ \A i, j \in Of(k)' : i = j
                        /\ \A q, s \in Requests : Captures(q, k)' =>
                             Of(k)' = {} /\ (Captures(s, k)' => q = s)
      BY DEF PostedOnce
    <3>1. CASE k # t
      <4>1. posts[k] <= 1 BY <2>6, <3>1
      <4>2. \A q \in Requests : Captures(q, k)' => Captures(q, k) BY <2>4, <3>1
      <4> QED BY <2>2, <4>1, <4>2 DEF OneInv, PostedOnce
    <3>2. CASE k = t
      <4>1. posts[t] = 0 BY <2>6, <3>2
      <4>2. Of(t) = {} /\ \A q \in Requests : ~Captures(q, t)
        BY <4>1 DEF OneInv, PostedFirst
      <4>3. \A q \in Requests : Captures(q, t)' => q = r BY <2>4, <4>2
      <4> QED BY <2>2, <3>2, <4>2, <4>3
    <3> QED BY <3>1, <3>2
  <2> QED BY <1>0, <2>3, <2>7, <2>8 DEF OneInv
<1>2. ASSUME NEW r \in Requests, NEW i \in Ids, BeginFile(r, i) \/ BeginUnfile(r, i) PROVE OneInv'
  <2>1. \A q \in Requests, k \in Thoughts : Captures(q, k)' => Captures(q, k)
    BY <1>2 DEF BeginFile, BeginUnfile, BeginTransfer, Starts, Captures, Doing, TypeOK
  <2> QED BY <1>0, <1>2, <2>1, Shrink DEF BeginFile, BeginUnfile, BeginTransfer
<1>3. ASSUME NEW r \in Requests, NEW i \in Ids, Edit(r, i) PROVE OneInv'
  <2>1. \A q \in Requests, k \in Thoughts : Captures(q, k)' => Captures(q, k)
    BY <1>3 DEF Edit, Captures, Doing
  <2>2. posts' = posts /\ moved' = moved
    BY <1>3 DEF Edit
  <2> QED BY <1>0, <1>3, <2>1, <2>2, EditRows, Shrink
<1>4. ASSUME NEW r \in Requests, NEW i \in Ids, Delete(r, i) PROVE OneInv'
  <2>1. \A q \in Requests, k \in Thoughts : Captures(q, k)' => Captures(q, k)
    BY <1>4 DEF Delete, Captures, Doing
  <2>2. posts' = posts
    BY <1>4 DEF Delete
  <2> QED BY <1>0, <1>4, <2>1, <2>2, DeleteRows, Shrink
<1>5. ASSUME NEW r \in Requests, CreateLine(r), Known(req[r].thought) PROVE OneInv'
  <2>1. row' = row /\ moved' = moved /\ posts' = posts /\ req' = [req EXCEPT ![r].pc = "reread"]
    BY <1>5 DEF CreateLine
  <2>2. req[r] \in [op : {"capture"}, thought : Thoughts, pc : {"create", "reread"}] /\ req[r] # None
    BY <1>5 DEF CreateLine, Doing, TypeOK, InFlight
  <2>3. \A q \in Requests, k \in Thoughts : Captures(q, k)' => Captures(q, k)
    BY <2>1, <2>2 DEF Captures, Doing, TypeOK
  <2> QED BY <1>0, <2>1, <2>3, Shrink
<1>6. ASSUME NEW r \in Requests, CreateLine(r), ~Known(req[r].thought) PROVE OneInv'
  <2> DEFINE t == req[r].thought
  <2>1. /\ nextId \in Ids /\ row[nextId] = None /\ row'[nextId] # None
        /\ row'[nextId].thought = t /\ row'[nextId].key
        /\ \A i \in Ids : i # nextId => row'[i] = row[i]
        /\ t \in Thoughts
    <3>1. NewLine(t).thought = t /\ NewLine(t).key BY DEF NewLine
    <3> QED BY <1>0, <1>6, <3>1, CreateLineRows
  <2>2. Captures(r, t) /\ posts' = posts /\ moved' = moved /\ req' = [req EXCEPT ![r] = None]
    BY <1>6 DEF CreateLine, Captures, Ends
  <2> HIDE DEF t
  <2>3. \A k \in Thoughts : \A i \in Ids :
          i \in Of(k)' <=> IF i = nextId THEN k = t ELSE i \in Of(k)
    BY <2>1 DEF Of, Exists
  <2>4. \A k \in Thoughts : nextId \notin Of(k)
    BY <2>1 DEF Of, Exists
  <2>5. \A q \in Requests, k \in Thoughts : Captures(q, k)' => Captures(q, k) /\ q # r
    BY <2>2 DEF Captures, Doing, TypeOK
  <2>6. \A i \in Of(t) : ~row[i].key
    BY <1>6 DEF Known, t
  <2>7. \A k \in Thoughts : Of(k)' \subseteq Ids /\ Of(k) \subseteq Ids
    BY DEF Of
  <2>8. KeyedAtHome'
    BY <2>1, <2>2, <2>3, <2>7 DEF OneInv, KeyedAtHome
  <2>9. KeyUnique'
    <3> SUFFICES ASSUME NEW k \in Thoughts, NEW i \in Of(k)', NEW j \in Of(k)',
                        row'[i].key, row'[j].key
                 PROVE  i = j
      BY DEF KeyUnique
    <3>1. CASE i = nextId \/ j = nextId
      BY <2>1, <2>3, <2>6, <2>7, <3>1
    <3>2. CASE i # nextId /\ j # nextId
      BY <2>1, <2>3, <2>7, <3>2 DEF OneInv, KeyUnique
    <3> QED BY <3>1, <3>2
  <2>10. PostedFirst'
    <3>1. posts[t] # 0 BY <2>1, <2>2 DEF OneInv, PostedFirst
    <3> SUFFICES ASSUME NEW k \in Thoughts, posts[k] = 0
                 PROVE  Of(k)' = {} /\ \A q \in Requests : ~Captures(q, k)'
      BY <2>2 DEF PostedFirst
    <3>2. k # t /\ Of(k) = {} /\ \A q \in Requests : ~Captures(q, k)
      BY <3>1 DEF OneInv, PostedFirst
    <3> QED BY <2>3, <2>5, <2>7, <3>2
  <2>11. PostedOnce'
    <3> SUFFICES ASSUME NEW k \in Thoughts, posts[k] <= 1
                 PROVE  /\ \A i, j \in Of(k)' : i = j
                        /\ \A q, s \in Requests : Captures(q, k)' =>
                             Of(k)' = {} /\ (Captures(s, k)' => q = s)
      BY <2>2 DEF PostedOnce
    <3>1. /\ \A i, j \in Of(k) : i = j
          /\ \A q, s \in Requests : Captures(q, k) => Of(k) = {} /\ (Captures(s, k) => q = s)
      BY DEF OneInv, PostedOnce
    <3>2. CASE k = t
      <4>1. Of(k) = {} BY <2>2, <3>1, <3>2
      <4>2. \A q \in Requests : ~Captures(q, k)' BY <2>2, <2>5, <3>1, <3>2
      <4>3. \A i \in Of(k)' : i = nextId BY <2>1, <2>3, <2>7, <4>1
      <4> QED BY <4>2, <4>3
    <3>3. CASE k # t
      <4>1. Of(k)' = Of(k) BY <2>3, <2>4, <2>7, <3>3
      <4> QED BY <2>5, <3>1, <4>1
    <3> QED BY <3>2, <3>3
  <2> QED BY <1>0, <2>8, <2>9, <2>10, <2>11 DEF OneInv
<1>7. ASSUME NEW r \in Requests, NEW op \in {"file", "unfile"}, NEW kind \in {"line", "task"},
             Doing(r, op), Transfer(r, kind)
      PROVE OneInv'
  <2> DEFINE d == req[r].id
             t == row[d].thought
  <2>1. /\ nextId \in Ids /\ d \in Ids /\ d # nextId /\ row[d] # None /\ row'[d] = None
        /\ row[nextId] = None /\ row'[nextId] # None
        /\ row'[nextId].thought = t /\ ~row'[nextId].key
        /\ \A i \in Ids : i # nextId /\ i # d => row'[i] = row[i]
        /\ moved' = moved \cup {t}
        /\ t \in Thoughts
    BY <1>0, <1>7, TransferRows DEF Row, TypeOK, Ids
  <2>2. posts' = posts /\ req' = [req EXCEPT ![r] = None]
    BY <1>7 DEF Transfer, Ends
  <2>3. d \in Of(t)
    BY <2>1 DEF Of, Exists
  <2> HIDE DEF d, t
  <2>4. \A k \in Thoughts : \A i \in Ids :
          i \in Of(k)' <=> IF i = nextId THEN k = t ELSE i # d /\ i \in Of(k)
    BY <2>1 DEF Of, Exists
  <2>5. \A q \in Requests, k \in Thoughts : Captures(q, k)' => Captures(q, k)
    BY <2>2 DEF Captures, Doing, TypeOK
  <2>6. \A k \in Thoughts : Of(k)' \subseteq Ids /\ Of(k) \subseteq Ids
    BY DEF Of
  <2>7. KeyedAtHome'
    BY <2>1, <2>4, <2>6 DEF OneInv, KeyedAtHome
  <2>8. KeyUnique'
    BY <2>1, <2>4, <2>6 DEF OneInv, KeyUnique
  <2>9. PostedFirst'
    <3>1. posts[t] # 0 BY <2>1, <2>3 DEF OneInv, PostedFirst
    <3> SUFFICES ASSUME NEW k \in Thoughts, posts[k] = 0
                 PROVE  Of(k)' = {} /\ \A q \in Requests : ~Captures(q, k)'
      BY <2>2 DEF PostedFirst
    <3>2. k # t /\ Of(k) = {} /\ \A q \in Requests : ~Captures(q, k)
      BY <3>1 DEF OneInv, PostedFirst
    <3> QED BY <2>4, <2>5, <2>6, <3>2
  <2>10. PostedOnce'
    <3> SUFFICES ASSUME NEW k \in Thoughts, posts[k] <= 1
                 PROVE  /\ \A i, j \in Of(k)' : i = j
                        /\ \A q, s \in Requests : Captures(q, k)' =>
                             Of(k)' = {} /\ (Captures(s, k)' => q = s)
      BY <2>2 DEF PostedOnce
    <3>1. /\ \A i, j \in Of(k) : i = j
          /\ \A q, s \in Requests : Captures(q, k) => Of(k) = {} /\ (Captures(s, k) => q = s)
      BY DEF OneInv, PostedOnce
    <3>2. CASE k = t
      <4>1. \A q \in Requests : ~Captures(q, k)' BY <2>3, <2>5, <3>1, <3>2
      <4>2. \A i \in Of(k)' : i = nextId BY <2>1, <2>3, <2>4, <2>6, <3>1, <3>2
      <4> QED BY <4>1, <4>2
    <3>3. CASE k # t
      <4>1. \A i \in Of(k)' : i \in Of(k) BY <2>1, <2>4, <2>6, <3>3
      <4> QED BY <2>5, <3>1, <4>1
    <3> QED BY <3>2, <3>3
  <2> QED BY <1>0, <2>7, <2>8, <2>9, <2>10 DEF OneInv
<1>8. ASSUME NEW r \in Requests, Reread(r) \/ Abort(r) PROVE OneInv'
  <2>1. row' = row /\ moved' = moved /\ posts' = posts /\ req' = [req EXCEPT ![r] = None]
    BY <1>8 DEF Reread, Abort, Ends
  <2>2. \A q \in Requests, k \in Thoughts : Captures(q, k)' => Captures(q, k)
    BY <2>1 DEF Captures, Doing, TypeOK
  <2> QED BY <1>0, <2>1, <2>2, Shrink
<1>9. CASE UNCHANGED vars
  <2>1. \A q \in Requests, k \in Thoughts : Captures(q, k)' => Captures(q, k)
    BY <1>9 DEF vars, Captures, Doing
  <2> QED BY <1>0, <1>9, <2>1, Shrink DEF vars
<1> QED
  BY <1>1, <1>2, <1>3, <1>4, <1>5, <1>6, <1>7, <1>8, <1>9 DEF Next, CommitFile, CommitUnfile

(* However filings, unfilings and copies of a capture overlap, no second   *)
(* row appears for a thought whose line has not left the sandbox, nor for  *)
(* one posted only once.                                                   *)
THEOREM OnePlaceCorrect == Spec => []OnePlace
<1>1. Init => OneInv
  BY DEF Init, OneInv, FreshIds, KeyedAtHome, KeyUnique, PostedFirst, PostedOnce, Of, Exists,
         Captures, Doing
<1>2. OneInv => OnePlace
  BY DEF OneInv, KeyedAtHome, KeyUnique, PostedOnce, OnePlace
<1>3. Spec => []TypeOK
  BY TypeCorrect
<1> QED BY <1>1, <1>2, <1>3, OneInvStep, PTL DEF Spec

-----------------------------------------------------------------------------
(* What has happened to a thought by the time it was posted once.          *)

Earlier ==
  \A k \in Thoughts :
    /\ said[k] # 0 => posts[k] # 0 /\ (k \in moved \/ Of(k) # {})
    /\ k \in moved => posts[k] # 0
    /\ k \in thrown => k \in moved
    /\ (said[k] # 0 \/ k \in moved) /\ posts[k] <= 1 => \A r \in Requests : ~Captures(r, k)

(* The row a transfer has read is still of its kind, if it is there.       *)
ReadFits ==
  \A r \in Requests :
    /\ Doing(r, "file") => req[r].id < nextId /\ (Exists(req[r].id) => row[req[r].id].kind = "line")
    /\ Doing(r, "unfile") => req[r].id < nextId /\ (Exists(req[r].id) => row[req[r].id].kind = "task")

(* What has happened is not undone while a thought keeps its rows.         *)
LEMMA EarlierKept ==
  ASSUME Earlier, posts' = posts, said' = said,
         \A k \in Thoughts : k \in moved => k \in moved',
         \A k \in Thoughts : k \in moved' => k \in moved \/ Of(k) # {},
         \A k \in Thoughts : k \in thrown' => k \in thrown \/ k \in moved',
         \A k \in Thoughts : Of(k) # {} => Of(k)' # {} \/ k \in moved',
         \A r \in Requests, k \in Thoughts : Captures(r, k)' => Captures(r, k),
         OneInv
  PROVE  Earlier'
<1> SUFFICES ASSUME NEW k \in Thoughts
             PROVE  /\ said[k] # 0 => posts[k] # 0 /\ (k \in moved' \/ Of(k)' # {})
                    /\ k \in moved' => posts[k] # 0
                    /\ k \in thrown' => k \in moved'
                    /\ (said[k] # 0 \/ k \in moved') /\ posts[k] <= 1 => \A r \in Requests : ~Captures(r, k)'
  BY DEF Earlier
<1>1. Of(k) # {} => posts[k] # 0
  BY DEF OneInv, PostedFirst
<1>2. Of(k) # {} /\ posts[k] <= 1 => \A r \in Requests : ~Captures(r, k)
  BY DEF OneInv, PostedOnce
<1> QED BY <1>1, <1>2 DEF Earlier

(* Every step keeps the account of what has happened.                      *)
LEMMA EarlierStep == TypeOK /\ OneInv /\ Earlier /\ [Next]_vars => Earlier'
<1> SUFFICES ASSUME TypeOK, OneInv, Earlier, [Next]_vars
             PROVE  Earlier'
  OBVIOUS
<1>0. FreshIds
  BY DEF OneInv
<1>1. ASSUME NEW r \in Requests, NEW t \in Thoughts, BeginCapture(r, t) PROVE Earlier'
  <2>1. /\ row' = row /\ moved' = moved /\ thrown' = thrown /\ said' = said
        /\ posts' = [posts EXCEPT ![t] = @ + 1]
        /\ IF Known(t) THEN req' = req
           ELSE req' = [req EXCEPT ![r] = [op |-> "capture", thought |-> t, pc |-> "create"]]
    BY <1>1 DEF BeginCapture, Starts, Free
  <2>2. \A k \in Thoughts : Of(k)' = Of(k)
    BY <2>1 DEF Of, Exists
  <2>3. \A q \in Requests, k \in Thoughts : Captures(q, k)' => Captures(q, k) \/ k = t
    BY <2>1 DEF Captures, Doing, TypeOK
  <2>4. posts[t] \in Nat /\ posts'[t] = posts[t] + 1 /\ \A k \in Thoughts : k # t => posts'[k] = posts[k]
    BY <2>1, BoundsAssumption DEF TypeOK
  <2> SUFFICES ASSUME NEW k \in Thoughts
               PROVE  /\ said[k] # 0 => posts'[k] # 0 /\ (k \in moved \/ Of(k) # {})
                      /\ k \in moved => posts'[k] # 0
                      /\ k \in thrown => k \in moved
                      /\ (said[k] # 0 \/ k \in moved) /\ posts'[k] <= 1 => \A q \in Requests : ~Captures(q, k)'
    BY <2>1, <2>2 DEF Earlier
  <2>5. CASE k = t
    BY <2>4, <2>5 DEF Earlier
  <2>6. CASE k # t
    BY <2>3, <2>4, <2>6 DEF Earlier
  <2> QED BY <2>5, <2>6
<1>2. ASSUME NEW r \in Requests, NEW i \in Ids, BeginFile(r, i) \/ BeginUnfile(r, i) PROVE Earlier'
  <2>1. \A q \in Requests, k \in Thoughts : Captures(q, k)' => Captures(q, k)
    BY <1>2 DEF BeginFile, BeginUnfile, BeginTransfer, Starts, Captures, Doing, TypeOK
  <2>2. row' = row /\ moved' = moved /\ thrown' = thrown /\ said' = said /\ posts' = posts
    BY <1>2 DEF BeginFile, BeginUnfile, BeginTransfer
  <2>3. \A k \in Thoughts : Of(k)' = Of(k)
    BY <2>2 DEF Of, Exists
  <2> QED BY <2>1, <2>2, <2>3, EarlierKept
<1>3. ASSUME NEW r \in Requests, NEW i \in Ids, Edit(r, i) PROVE Earlier'
  <2>1. \A q \in Requests, k \in Thoughts : Captures(q, k)' <=> Captures(q, k)
    BY <1>3 DEF Edit, Captures, Doing
  <2>2. /\ posts' = posts /\ moved' = moved /\ thrown' = thrown
        /\ i \in Of(row[i].thought) /\ \A k \in Thoughts : k # row[i].thought => said'[k] = said[k]
    BY <1>3 DEF Edit, TypeOK, Of, Exists
  <2>3. \A k \in Thoughts : Of(k)' = Of(k)
    BY <1>3, EditRows DEF Of, Exists
  <2> SUFFICES ASSUME NEW k \in Thoughts
               PROVE  /\ said'[k] # 0 => posts[k] # 0 /\ (k \in moved \/ Of(k) # {})
                      /\ k \in moved => posts[k] # 0
                      /\ k \in thrown => k \in moved
                      /\ (said'[k] # 0 \/ k \in moved) /\ posts[k] <= 1 => \A q \in Requests : ~Captures(q, k)
    BY <2>1, <2>2, <2>3 DEF Earlier
  <2>4. CASE k = row[i].thought
    <3>1. Of(k) # {} /\ posts[k] # 0
      BY <2>2, <2>4 DEF OneInv, PostedFirst
    <3>2. posts[k] <= 1 => \A q \in Requests : ~Captures(q, k)
      BY <3>1 DEF OneInv, PostedOnce
    <3> QED BY <3>1, <3>2 DEF Earlier
  <2>5. CASE k # row[i].thought
    BY <2>2, <2>5 DEF Earlier
  <2> QED BY <2>4, <2>5
<1>4. ASSUME NEW r \in Requests, NEW i \in Ids, Delete(r, i) PROVE Earlier'
  <2>1. \A q \in Requests, k \in Thoughts : Captures(q, k)' => Captures(q, k)
    BY <1>4 DEF Delete, Captures, Doing
  <2>2. /\ posts' = posts /\ said' = said
        /\ moved' = moved \cup {row[i].thought} /\ thrown' = thrown \cup {row[i].thought}
        /\ i \in Of(row[i].thought)
    BY <1>4, DeleteRows DEF Delete, Of, Exists
  <2>3. \A k \in Thoughts : k # row[i].thought => Of(k) \subseteq Of(k)'
    BY <1>4, DeleteRows DEF Of, Exists
  <2> QED BY <2>1, <2>2, <2>3, EarlierKept
<1>5. ASSUME NEW r \in Requests, CreateLine(r) PROVE Earlier'
  <2>1. posts' = posts /\ said' = said /\ moved' = moved /\ thrown' = thrown
    BY <1>5 DEF CreateLine
  <2>2. \A q \in Requests, k \in Thoughts : Captures(q, k)' => Captures(q, k)
    <3>1. req[r] \in [op : {"capture"}, thought : Thoughts, pc : {"create", "reread"}] /\ req[r] # None
      BY <1>5 DEF CreateLine, Doing, TypeOK, InFlight
    <3>2. \E x \in {None, [req[r] EXCEPT !.pc = "reread"]} : req' = [req EXCEPT ![r] = x]
      BY <1>5 DEF CreateLine, Ends
    <3> QED BY <3>1, <3>2 DEF Captures, Doing, TypeOK
  <2>3. \A k \in Thoughts : Of(k) \subseteq Of(k)'
    <3>1. CASE Known(req[r].thought)
      BY <1>5, <3>1 DEF CreateLine, Of, Exists
    <3>2. CASE ~Known(req[r].thought)
      BY <1>0, <1>5, <3>2, CreateLineRows DEF Of, Exists
    <3> QED BY <3>1, <3>2
  <2> QED BY <2>1, <2>2, <2>3, EarlierKept
<1>6. ASSUME NEW r \in Requests, NEW op \in {"file", "unfile"}, NEW kind \in {"line", "task"},
             Doing(r, op), Transfer(r, kind)
      PROVE Earlier'
  <2> DEFINE d == req[r].id
             t == row[d].thought
  <2>1. /\ posts' = posts /\ said' = said /\ thrown' = thrown /\ req' = [req EXCEPT ![r] = None]
    BY <1>6 DEF Transfer, Ends
  <2>2. /\ d \in Ids /\ row[d] # None /\ moved' = moved \cup {t}
        /\ \A i \in Ids : i # nextId /\ i # d => row'[i] = row[i]
        /\ row[nextId] = None
    BY <1>0, <1>6, TransferRows
  <2> HIDE DEF d, t
  <2>3. d \in Of(t)
    BY <2>2 DEF Of, Exists, t
  <2>4. \A k \in Thoughts : k # t => Of(k) \subseteq Of(k)'
    BY <2>2 DEF Of, Exists, t
  <2>5. \A q \in Requests, k \in Thoughts : Captures(q, k)' => Captures(q, k)
    BY <2>1 DEF Captures, Doing, TypeOK
  <2> QED BY <2>1, <2>2, <2>3, <2>4, <2>5, EarlierKept
<1>7. ASSUME NEW r \in Requests, Reread(r) \/ Abort(r) PROVE Earlier'
  <2>1. /\ row' = row /\ moved' = moved /\ posts' = posts /\ thrown' = thrown /\ said' = said
        /\ req' = [req EXCEPT ![r] = None]
    BY <1>7 DEF Reread, Abort, Ends
  <2>2. \A q \in Requests, k \in Thoughts : Captures(q, k)' => Captures(q, k)
    BY <2>1 DEF Captures, Doing, TypeOK
  <2>3. \A k \in Thoughts : Of(k)' = Of(k)
    BY <2>1 DEF Of, Exists
  <2> QED BY <2>1, <2>2, <2>3, EarlierKept
<1>8. CASE UNCHANGED vars
  <2>1. row' = row /\ moved' = moved /\ posts' = posts /\ thrown' = thrown /\ said' = said /\ req' = req
    BY <1>8 DEF vars
  <2>2. \A q \in Requests, k \in Thoughts : Captures(q, k)' => Captures(q, k)
    BY <2>1 DEF Captures, Doing
  <2>3. \A k \in Thoughts : Of(k)' = Of(k)
    BY <2>1 DEF Of, Exists
  <2> QED BY <2>1, <2>2, <2>3, EarlierKept
<1> QED
  BY <1>1, <1>2, <1>3, <1>4, <1>5, <1>6, <1>7, <1>8 DEF Next, CommitFile, CommitUnfile

(* Every step keeps the rows that transfers have read of their kinds.      *)
LEMMA ReadFitsStep == TypeOK /\ OneInv /\ ReadFits /\ [Next]_vars => ReadFits'
<1> SUFFICES ASSUME TypeOK, FreshIds, ReadFits, [Next]_vars
             PROVE  ReadFits'
  BY DEF OneInv
<1> DEFINE Fits(q, op, kind) ==
      Doing(q, op) => req[q].id < nextId /\ (Exists(req[q].id) => row[req[q].id].kind = kind)
<1>a. \A q \in Requests : Fits(q, "file", "line") /\ Fits(q, "unfile", "task")
  BY DEF ReadFits
<1>b. \A q \in Requests : Doing(q, "file") \/ Doing(q, "unfile") => req[q].id \in Ids
  BY DEF TypeOK, InFlight, Doing
(* Rows that are there keep their kind, and requests only end.             *)
<1>k. ASSUME nextId' \in {nextId, nextId + 1},
             \A i \in Ids : i < nextId /\ row'[i] # None => row[i] # None /\ row'[i].kind = row[i].kind,
             \A q \in Requests : req'[q] = req[q] \/ ~(Doing(q, "file") \/ Doing(q, "unfile"))'
      PROVE  ReadFits'
  <2>1. \A i \in Ids : i < nextId => i < nextId'
    <3>1. nextId \in Nat /\ \A i \in Ids : i \in Nat
      BY DEF TypeOK, Ids
    <3>2. CASE nextId' = nextId
      BY <3>2
    <3>3. CASE nextId' = nextId + 1
      BY <3>1, <3>3
    <3> QED BY <1>k, <3>2, <3>3
  <2> SUFFICES ASSUME NEW q \in Requests
               PROVE  /\ Doing(q, "file")' => req'[q].id < nextId' /\ (row'[req'[q].id] # None => row'[req'[q].id].kind = "line")
                      /\ Doing(q, "unfile")' => req'[q].id < nextId' /\ (row'[req'[q].id] # None => row'[req'[q].id].kind = "task")
    BY DEF ReadFits, Exists
  <2>2. CASE ~(Doing(q, "file") \/ Doing(q, "unfile"))'
    BY <2>2
  <2>3. CASE req'[q] = req[q]
    <3>1. (Doing(q, "file")' <=> Doing(q, "file")) /\ (Doing(q, "unfile")' <=> Doing(q, "unfile"))
      BY <2>3 DEF Doing
    <3>2. CASE Doing(q, "file")
      <4>1. req[q].id \in Ids /\ req[q].id < nextId /\ (row[req[q].id] # None => row[req[q].id].kind = "line")
        BY <1>a, <1>b, <3>2 DEF Exists
      <4>2. ~Doing(q, "unfile")
        BY <3>2 DEF Doing
      <4>3. req[q].id < nextId'
        BY <1>k, <2>1, <4>1
      <4>4. row'[req[q].id] # None => row'[req[q].id].kind = "line"
        BY <1>k, <4>1
      <4> QED BY <2>3, <3>1, <4>2, <4>3, <4>4
    <3>3. CASE Doing(q, "unfile")
      <4>1. req[q].id \in Ids /\ req[q].id < nextId /\ (row[req[q].id] # None => row[req[q].id].kind = "task")
        BY <1>a, <1>b, <3>3 DEF Exists
      <4>2. ~Doing(q, "file")
        BY <3>3 DEF Doing
      <4>3. req[q].id < nextId'
        BY <1>k, <2>1, <4>1
      <4>4. row'[req[q].id] # None => row'[req[q].id].kind = "task"
        BY <1>k, <4>1
      <4> QED BY <2>3, <3>1, <4>2, <4>3, <4>4
    <3> QED BY <3>1, <3>2, <3>3
  <2> QED BY <1>k, <2>2, <2>3
<1>e. ASSUME NEW r \in Requests, req' = [req EXCEPT ![r] = None]
      PROVE  \A q \in Requests : req'[q] = req[q] \/ ~(Doing(q, "file") \/ Doing(q, "unfile"))'
  BY <1>e DEF TypeOK, Doing
<1>1. ASSUME NEW r \in Requests, NEW k \in Thoughts, BeginCapture(r, k) PROVE ReadFits'
  <2>1. \A q \in Requests : req'[q] = req[q] \/ ~(Doing(q, "file") \/ Doing(q, "unfile"))'
    BY <1>1 DEF BeginCapture, Starts, Doing, TypeOK
  <2> QED BY <1>1, <1>k, <2>1 DEF BeginCapture
<1>2. ASSUME NEW r \in Requests, NEW i \in Ids, NEW op, NEW kind, BeginTransfer(r, i, op, kind),
             <<op, kind>> \in {<<"file", "line">>, <<"unfile", "task">>}
      PROVE  ReadFits'
  <2>1. /\ row' = row /\ nextId' = nextId /\ row[i] # None /\ row[i].kind = kind
        /\ req' = [req EXCEPT ![r] = [op |-> op, id |-> i, text |-> row[i].text]]
    BY <1>2 DEF BeginTransfer, Is, Exists, Starts
  <2>2. i < nextId
    BY <2>1 DEF FreshIds, TypeOK, Ids
  <2>3. \A q \in Requests : req'[q] = IF q = r THEN [op |-> op, id |-> i, text |-> row[i].text] ELSE req[q]
    BY <2>1 DEF TypeOK
  <2> SUFFICES ASSUME NEW q \in Requests
               PROVE  /\ Doing(q, "file")' => req'[q].id < nextId' /\ (row'[req'[q].id] # None => row'[req'[q].id].kind = "line")
                      /\ Doing(q, "unfile")' => req'[q].id < nextId' /\ (row'[req'[q].id] # None => row'[req'[q].id].kind = "task")
    BY DEF ReadFits, Exists
  <2>4. CASE q = r
    BY <1>2, <2>1, <2>2, <2>3, <2>4 DEF Doing
  <2>5. CASE q # r
    BY <1>a, <2>1, <2>3, <2>5 DEF Doing, Exists
  <2> QED BY <2>4, <2>5
<1>3. ASSUME NEW r \in Requests, NEW i \in Ids, Edit(r, i) PROVE ReadFits'
  <2>1. req' = req /\ nextId' = nextId
    BY <1>3 DEF Edit
  <2> QED BY <1>3, <1>k, <2>1, EditRows
<1>4. ASSUME NEW r \in Requests, NEW i \in Ids, Delete(r, i) PROVE ReadFits'
  <2>1. req' = req /\ nextId' = nextId
    BY <1>4 DEF Delete
  <2> QED BY <1>4, <1>k, <2>1, DeleteRows
<1>5. ASSUME NEW r \in Requests, CreateLine(r) PROVE ReadFits'
  <2>1. \A q \in Requests : req'[q] = req[q] \/ ~(Doing(q, "file") \/ Doing(q, "unfile"))'
    <3>1. req[r] \in [op : {"capture"}, thought : Thoughts, pc : {"create", "reread"}] /\ req[r] # None
      BY <1>5 DEF CreateLine, Doing, TypeOK, InFlight
    <3>2. \E x \in {None, [req[r] EXCEPT !.pc = "reread"]} : req' = [req EXCEPT ![r] = x]
      BY <1>5 DEF CreateLine, Ends
    <3> QED BY <3>1, <3>2 DEF Doing, TypeOK
  <2>2. CASE Known(req[r].thought)
    BY <1>5, <1>k, <2>1, <2>2 DEF CreateLine
  <2>3. CASE ~Known(req[r].thought)
    BY <1>5, <1>k, <2>1, <2>3, CreateLineRows DEF TypeOK, Ids
  <2> QED BY <2>2, <2>3
<1>6. ASSUME NEW r \in Requests, NEW op \in {"file", "unfile"}, NEW kind \in {"line", "task"},
             Doing(r, op), Transfer(r, kind)
      PROVE ReadFits'
  <2>1. req' = [req EXCEPT ![r] = None]
    BY <1>6 DEF Transfer, Ends
  <2>2. /\ nextId' = nextId + 1 /\ row'[req[r].id] = None
        /\ \A i \in Ids : i # nextId /\ i # req[r].id => row'[i] = row[i]
    BY <1>6, TransferRows
  <2>3. \A i \in Ids : i < nextId => i # nextId
    BY DEF TypeOK, Ids
  <2>4. \A i \in Ids : i < nextId /\ row'[i] # None => row[i] # None /\ row'[i].kind = row[i].kind
    BY <2>2, <2>3
  <2> QED BY <1>e, <1>k, <2>1, <2>2, <2>4
<1>7. ASSUME NEW r \in Requests, Reread(r) \/ Abort(r) PROVE ReadFits'
  BY <1>7, <1>e, <1>k DEF Reread, Abort, Ends
<1>8. CASE UNCHANGED vars
  BY <1>8, <1>k DEF vars
<1> QED
  BY <1>1, <1>2, <1>3, <1>4, <1>5, <1>6, <1>7, <1>8
  DEF Next, BeginFile, BeginUnfile, CommitFile, CommitUnfile

-----------------------------------------------------------------------------
(* The text, when a request waits for the one before it: what it has read  *)
(* is still there when it writes.                                          *)

AtHome(k) == posts[k] <= 1 \/ k \notin moved

OneAtATime == \A r, s \in Requests : req[r] # None /\ req[s] # None => r = s
ReadLatest ==
  \A r \in Requests : Doing(r, "file") \/ Doing(r, "unfile") => req[r].text = row[req[r].id].text
TextLatest == \A k \in Thoughts : AtHome(k) => \A i \in Of(k) : row[i].text = said[k]

LatestInv == alone => OneAtATime /\ ReadLatest /\ TextLatest

(* Every step keeps the latest texts, while requests wait for each other.  *)
LEMMA LatestStep == TypeOK /\ OneInv /\ Earlier /\ LatestInv /\ [Next]_vars => LatestInv'
<1> SUFFICES ASSUME TypeOK, OneInv, Earlier, LatestInv, [Next]_vars, alone'
             PROVE  OneAtATime' /\ ReadLatest' /\ TextLatest'
  BY DEF LatestInv
<1> USE DEF OneAtATime, ReadLatest, TextLatest
<1>0. /\ alone /\ FreshIds
      /\ \A r, s \in Requests : req[r] # None /\ req[s] # None => r = s
      /\ \A r \in Requests : Doing(r, "file") \/ Doing(r, "unfile") => req[r].text = row[req[r].id].text
      /\ \A k \in Thoughts : AtHome(k) => \A i \in Of(k) : row[i].text = said[k]
  BY DEF OneInv, LatestInv, Next, vars
<1>f. ASSUME NEW r \in Requests, Free(r) PROVE \A q \in Requests : req[q] = None
  BY <1>0, <1>f DEF Free
(* A request begins, alone.                                                *)
<1>b. ASSUME NEW r \in Requests, Free(r), NEW x, req' = [req EXCEPT ![r] = x], row' = row,
             x.op \in {"file", "unfile"} => x.text = row[x.id].text
      PROVE  OneAtATime' /\ ReadLatest'
  <2>1. \A q \in Requests : req'[q] = IF q = r THEN x ELSE None
    BY <1>b, <1>f DEF TypeOK
  <2> QED BY <1>b, <2>1 DEF Doing
(* A request ends, and none is left.                                       *)
<1>e. ASSUME NEW r \in Requests, req[r] # None, NEW x, req' = [req EXCEPT ![r] = x],
             x = None \/ x.op = "capture"
      PROVE  OneAtATime' /\ ReadLatest'
  <2>1. \A q \in Requests : req'[q] = IF q = r THEN x ELSE None
    BY <1>0, <1>e DEF TypeOK
  <2> QED BY <1>e, <2>1 DEF Doing
<1>t. ASSUME row' = row, said' = said, \A k \in Thoughts : AtHome(k)' => AtHome(k) PROVE TextLatest'
  BY <1>0, <1>t DEF Of, Exists
<1>1. ASSUME NEW r \in Requests, NEW t \in Thoughts, BeginCapture(r, t) PROVE OneAtATime' /\ ReadLatest' /\ TextLatest'
  <2>1. row' = row /\ said' = said /\ moved' = moved /\ posts' = [posts EXCEPT ![t] = @ + 1] /\ Free(r)
    BY <1>1 DEF BeginCapture, Starts
  <2>2. \A k \in Thoughts : AtHome(k)' => AtHome(k)
    BY <2>1, BoundsAssumption DEF AtHome, TypeOK
  <2>3. CASE Known(t)
    <3>1. req' = req
      BY <1>1, <2>3 DEF BeginCapture
    <3> QED BY <1>0, <1>t, <2>1, <2>2, <3>1 DEF Doing
  <2>4. CASE ~Known(t)
    <3> DEFINE x == [op |-> "capture", thought |-> t, pc |-> "create"]
    <3>1. req' = [req EXCEPT ![r] = x] /\ x.op = "capture"
      BY <1>1, <2>4 DEF BeginCapture, Starts
    <3> HIDE DEF x
    <3> QED BY <1>b, <1>t, <2>1, <2>2, <3>1
  <2> QED BY <2>3, <2>4
<1>2. ASSUME NEW r \in Requests, NEW i \in Ids, BeginFile(r, i) \/ BeginUnfile(r, i)
      PROVE  OneAtATime' /\ ReadLatest' /\ TextLatest'
  <2>1. PICK op \in {"file", "unfile"} : req' = [req EXCEPT ![r] = [op |-> op, id |-> i, text |-> row[i].text]]
    BY <1>2 DEF BeginFile, BeginUnfile, BeginTransfer, Starts
  <2>2. row' = row /\ said' = said /\ moved' = moved /\ posts' = posts /\ Free(r)
    BY <1>2 DEF BeginFile, BeginUnfile, BeginTransfer, Starts
  <2> DEFINE x == [op |-> op, id |-> i, text |-> row[i].text]
  <2>3. req' = [req EXCEPT ![r] = x] /\ x.text = row[x.id].text
    BY <2>1
  <2> HIDE DEF x
  <2> QED BY <1>b, <1>t, <2>2, <2>3 DEF AtHome
<1>3. ASSUME NEW r \in Requests, NEW i \in Ids, Edit(r, i) PROVE OneAtATime' /\ ReadLatest' /\ TextLatest'
  <2>1. /\ req' = req /\ \A q \in Requests : req[q] = None
        /\ posts' = posts /\ moved' = moved
        /\ row[i] # None /\ row[i].thought \in Thoughts
        /\ said' = [said EXCEPT ![row[i].thought] = @ + 1]
    BY <1>3, <1>f DEF Edit, Exists, TypeOK, Row
  <2>2. OneAtATime' /\ ReadLatest'
    BY <2>1 DEF Doing
  <2>3. \A k \in Thoughts : Of(k)' = Of(k)
    BY <1>3, EditRows DEF Of, Exists
  <2>4. ASSUME NEW k \in Thoughts, AtHome(k), NEW j \in Of(k)
        PROVE  row'[j].text = said'[k]
    <3>1. j \in Ids /\ row[j].thought = k
      BY <2>4 DEF Of
    <3>2. CASE k = row[i].thought
      <4>1. i \in Of(k)
        BY <2>1, <3>2 DEF Of, Exists
      <4>2. j = i
        BY <2>4, <4>1 DEF OneInv, KeyedAtHome, KeyUnique, PostedOnce, AtHome
      <4>3. row'[i].text = said[row[i].thought] + 1
        BY <1>3, EditRows
      <4> QED BY <2>1, <3>2, <4>2, <4>3 DEF TypeOK
    <3>3. CASE k # row[i].thought
      <4>1. row'[j].text = row[j].text /\ said'[k] = said[k]
        BY <1>3, <2>1, <3>1, <3>3, EditRows DEF TypeOK
      <4> QED BY <1>0, <2>4, <4>1
    <3> QED BY <3>2, <3>3
  <2>5. \A k \in Thoughts : AtHome(k)' <=> AtHome(k)
    BY <2>1 DEF AtHome
  <2> QED BY <2>2, <2>3, <2>4, <2>5
<1>4. ASSUME NEW r \in Requests, NEW i \in Ids, Delete(r, i) PROVE OneAtATime' /\ ReadLatest' /\ TextLatest'
  <2>1. /\ req' = req /\ \A q \in Requests : req[q] = None
        /\ posts' = posts /\ said' = said /\ moved \subseteq moved'
    BY <1>4, <1>f DEF Delete
  <2>2. OneAtATime' /\ ReadLatest'
    BY <2>1 DEF Doing
  <2>3. \A k \in Thoughts : \A j \in Of(k)' : j \in Of(k) /\ row'[j] = row[j]
    BY <1>4, DeleteRows DEF Of, Exists
  <2>4. \A k \in Thoughts : AtHome(k)' => AtHome(k)
    BY <2>1 DEF AtHome
  <2> QED BY <1>0, <2>1, <2>2, <2>3, <2>4
<1>5. ASSUME NEW r \in Requests, CreateLine(r) PROVE OneAtATime' /\ ReadLatest' /\ TextLatest'
  <2>1. /\ req[r] \in [op : {"capture"}, thought : Thoughts, pc : {"create", "reread"}] /\ req[r] # None
        /\ said' = said /\ posts' = posts /\ moved' = moved
    BY <1>5 DEF CreateLine, Doing, TypeOK, InFlight
  <2>2. OneAtATime' /\ ReadLatest'
    <3>1. PICK x \in {None, [req[r] EXCEPT !.pc = "reread"]} : req' = [req EXCEPT ![r] = x]
      BY <1>5 DEF CreateLine, Ends
    <3>2. x = None \/ x.op = "capture"
      BY <2>1, <3>1
    <3> QED BY <1>e, <2>1, <3>1, <3>2
  <2>3. CASE Known(req[r].thought)
    <3>1. row' = row
      BY <1>5, <2>3 DEF CreateLine
    <3> QED BY <1>t, <2>1, <2>2, <3>1 DEF AtHome
  <2>4. CASE ~Known(req[r].thought)
    <3> DEFINE t == req[r].thought
    <3>1. /\ nextId \in Ids /\ row[nextId] = None /\ row'[nextId].text = 0 /\ row'[nextId].thought = t
          /\ \A i \in Ids : i # nextId => row'[i] = row[i]
          /\ t \in Thoughts /\ Captures(r, t)
      <4>1. NewLine(t).text = 0 /\ NewLine(t).thought = t
        BY DEF NewLine
      <4>2. Captures(r, t)
        BY <1>5 DEF CreateLine, Captures
      <4> QED BY <1>0, <1>5, <2>4, <4>1, <4>2, CreateLineRows
    <3>2. \A i \in Of(t) : ~row[i].key
      BY <2>4 DEF Known
    <3> HIDE DEF t
    <3>3. AtHome(t) => said[t] = 0
      BY <3>1, <3>2 DEF AtHome, Earlier, OneInv, KeyedAtHome
    <3>4. \A k \in Thoughts : \A i \in Of(k)' : (i = nextId /\ k = t) \/ (i \in Of(k) /\ row'[i] = row[i])
      BY <3>1 DEF Of, Exists
    <3> QED BY <1>0, <2>1, <2>2, <3>1, <3>3, <3>4 DEF AtHome
  <2> QED BY <2>3, <2>4
<1>6. ASSUME NEW r \in Requests, NEW op \in {"file", "unfile"}, NEW kind \in {"line", "task"},
             Doing(r, op), Transfer(r, kind)
      PROVE OneAtATime' /\ ReadLatest' /\ TextLatest'
  <2> DEFINE d == req[r].id
             t == row[d].thought
  <2>1. said' = said /\ posts' = posts /\ req' = [req EXCEPT ![r] = None] /\ req[r] # None
    BY <1>6 DEF Transfer, Ends, Doing
  <2>2. /\ d \in Ids /\ row[d] # None /\ moved' = moved \cup {t}
        /\ \A i \in Ids : i # nextId /\ i # d => row'[i] = row[i]
        /\ row'[d] = None /\ row'[nextId].thought = t /\ row'[nextId].text = req[r].text
        /\ row[d].thought \in Thoughts
    BY <1>0, <1>6, TransferRows DEF Row
  <2>3. req[r].text = row[d].text
    BY <1>0, <1>6
  <2>4. d \in Of(t)
    BY <2>2 DEF Of, Exists
  <2> HIDE DEF d, t
  <2>5. \A k \in Thoughts : \A i \in Of(k)' : (i = nextId /\ k = t) \/ (i \in Of(k) /\ row'[i] = row[i])
    BY <2>2 DEF Of, Exists
  <2>6. \A k \in Thoughts : AtHome(k)' => AtHome(k)
    BY <2>1, <2>2 DEF AtHome
  <2>7. OneAtATime' /\ ReadLatest'
    BY <1>e, <2>1
  <2>8. t \in Thoughts
    BY <2>2 DEF t
  <2>9. AtHome(t) => row'[nextId].text = said[t]
    BY <1>0, <2>2, <2>3, <2>4, <2>8
  <2> QED BY <1>0, <2>1, <2>5, <2>6, <2>7, <2>9
<1>7. ASSUME NEW r \in Requests, Reread(r) \/ Abort(r) PROVE OneAtATime' /\ ReadLatest' /\ TextLatest'
  <2>1. /\ row' = row /\ said' = said /\ moved' = moved /\ posts' = posts
        /\ req' = [req EXCEPT ![r] = None] /\ req[r] # None
    BY <1>7 DEF Reread, Abort, Ends, Doing
  <2> QED BY <1>e, <1>t, <2>1 DEF AtHome
<1>8. CASE UNCHANGED vars
  <2>1. row' = row /\ said' = said /\ moved' = moved /\ posts' = posts /\ req' = req
    BY <1>8 DEF vars
  <2> QED BY <1>0, <1>t, <2>1 DEF AtHome, Doing
<1> HIDE DEF OneAtATime, ReadLatest, TextLatest
<1> QED BY <1>1, <1>2, <1>3, <1>4, <1>5, <1>6, <1>7, <1>8 DEF Next, CommitFile, CommitUnfile

(* All of it holds at first.                                               *)
LEMMA OneInvInit == Init => OneInv /\ Earlier /\ ReadFits /\ LatestInv
<1> SUFFICES ASSUME Init
             PROVE  OneInv /\ Earlier /\ ReadFits /\ LatestInv
  OBVIOUS
<1>1. \A k \in Thoughts : Of(k) = {}
  BY DEF Init, Of, Exists
<1>2. \A r \in Requests : ~Doing(r, "file") /\ ~Doing(r, "unfile") /\ ~Doing(r, "capture")
  BY DEF Init, Doing
<1>3. OneInv
  BY <1>1, <1>2 DEF Init, OneInv, FreshIds, KeyedAtHome, KeyUnique, PostedFirst, PostedOnce, Captures
<1>4. Earlier /\ ReadFits
  BY <1>1, <1>2 DEF Init, Earlier, ReadFits
<1>5. LatestInv
  BY <1>1, <1>2 DEF Init, LatestInv, OneAtATime, ReadLatest, TextLatest
<1> QED BY <1>3, <1>4, <1>5

(* The strengthening that the text and the refinement follow from.         *)
LEMMA SandboxInvariant == Spec => [](TypeOK /\ OneInv /\ Earlier /\ ReadFits /\ LatestInv)
<1>1. TypeOK /\ OneInv /\ [Next]_vars => OneInv'
  BY OneInvStep
<1> QED BY <1>1, TypeCorrect, OneInvInit, EarlierStep, ReadFitsStep, LatestStep, PTL DEF Spec

(* Neither a filing nor a replayed capture puts an older text back, if     *)
(* requests wait for each other: for any number of thoughts and edits.     *)
THEOREM LatestTextCorrect == Spec => []LatestText
<1>1. LatestInv => LatestText
  BY DEF LatestInv, TextLatest, AtHome, LatestText
<1> QED BY <1>1, SandboxInvariant, PTL

-----------------------------------------------------------------------------
(* The sandbox implements ThoughtLife.                                     *)

(* Where a thought is, by its one row.                                     *)
LEMMA PlaceIs ==
  ASSUME NEW k \in Thoughts
  PROVE  /\ Of(k) = {} => Place[k] = IF k \in thrown THEN "thrown" ELSE "nowhere"
         /\ \A i \in Of(k) : (\A j \in Of(k) : j = i) => Place[k] = row[i].kind
         /\ Of(k)' = {} => Place'[k] = IF k \in thrown' THEN "thrown" ELSE "nowhere"
         /\ \A i \in Of(k)' : (\A j \in Of(k)' : j = i) => Place'[k] = row'[i].kind
<1>1. ASSUME NEW i \in Of(k), \A j \in Of(k) : j = i
      PROVE  Place[k] = row[i].kind
  <2>1. (CHOOSE j \in Of(k) : TRUE) = i
    BY <1>1
  <2> QED BY <1>1, <2>1 DEF Place
<1>2. ASSUME NEW i \in Of(k)', \A j \in Of(k)' : j = i
      PROVE  Place'[k] = row'[i].kind
  <2>1. (CHOOSE j \in Of(k)' : TRUE) = i
    BY <1>2
  <2> QED BY <1>2, <2>1 DEF Place
<1>3. Of(k) = {} => Place[k] = IF k \in thrown THEN "thrown" ELSE "nowhere"
  BY DEF Place
<1>4. Of(k)' = {} => Place'[k] = IF k \in thrown' THEN "thrown" ELSE "nowhere"
  BY DEF Place
<1> QED BY <1>1, <1>2, <1>3, <1>4

(* The places are a function of the thoughts.                              *)
LEMMA PlaceFunction ==
  /\ Place = [k \in Thoughts |-> Place[k]]
  /\ Place' = [k \in Thoughts |-> Place'[k]]
BY DEF Place

(* A thought that goes somewhere, alone, takes a step of its life.         *)
LEMMA GoesAlone ==
  ASSUME NEW t \in Thoughts, \A k \in Thoughts : k # t => Place'[k] = Place[k],
         \/ Place[t] = "nowhere" /\ Place'[t] = "line"
         \/ Place[t] = "line" /\ Place'[t] = "task"
         \/ Place[t] = "task" /\ Place'[t] = "line"
         \/ Place[t] \in {"line", "task"} /\ Place'[t] = "thrown"
  PROVE  Thought!Next
<1>1. \A to : Place'[t] = to => Place' = [Place EXCEPT ![t] = to]
  BY PlaceFunction
<1> HIDE DEF Place
<1>2. CASE Place[t] = "nowhere" /\ Place'[t] = "line"
  <2>1. Thought!Goes(t, "nowhere", "line")
    BY <1>1, <1>2 DEF Thought!Goes
  <2> QED BY <2>1 DEF Thought!Next, Thought!Capture
<1>3. CASE Place[t] = "line" /\ Place'[t] = "task"
  <2>1. Thought!Goes(t, "line", "task")
    BY <1>1, <1>3 DEF Thought!Goes
  <2> QED BY <2>1 DEF Thought!Next, Thought!File
<1>4. CASE Place[t] = "task" /\ Place'[t] = "line"
  <2>1. Thought!Goes(t, "task", "line")
    BY <1>1, <1>4 DEF Thought!Goes
  <2> QED BY <2>1 DEF Thought!Next, Thought!Unfile
<1>5. CASE Place[t] \in {"line", "task"} /\ Place'[t] = "thrown"
  <2>1. PICK from \in {"line", "task"} : Thought!Goes(t, from, "thrown")
    BY <1>1, <1>5 DEF Thought!Goes
  <2> QED BY <2>1 DEF Thought!Next, Thought!Throw
<1> QED BY <1>2, <1>3, <1>4, <1>5

AllAtHome == \A k \in Thoughts : posts[k] <= 1 \/ k \notin moved

(* A copy that has not come has not come before.                           *)
LEMMA AtHomeBefore ==
  ASSUME TypeOK, [Next]_vars, AllAtHome'
  PROVE  AllAtHome
<1>1. moved \subseteq moved'
  BY DEF Next, vars, BeginCapture, BeginFile, BeginUnfile, BeginTransfer, CreateLine, Reread,
         CommitFile, CommitUnfile, Transfer, Abort, Edit, Delete
<1>2. posts' = posts \/ \E k \in Thoughts : posts' = [posts EXCEPT ![k] = @ + 1]
  BY DEF Next, vars, BeginCapture, BeginFile, BeginUnfile, BeginTransfer, CreateLine, Reread,
         CommitFile, CommitUnfile, Transfer, Abort, Edit, Delete
<1>3. \A k \in Thoughts : posts[k] \in Nat
  BY BoundsAssumption DEF TypeOK
<1>4. \A k \in Thoughts : posts'[k] <= 1 => posts[k] <= 1
  BY <1>2, <1>3 DEF TypeOK
<1> QED BY <1>1, <1>4 DEF AllAtHome

(* Every step is a step of the life of one thought, or of none.            *)
LEMMA RefinementStep ==
  ASSUME TypeOK, OneInv, Earlier, ReadFits, [Next]_vars, OneInv', AllAtHome'
  PROVE  Thought!Next \/ UNCHANGED Place
<1>0. AllAtHome /\ FreshIds
  BY AtHomeBefore DEF OneInv
<1>o. \A k \in Thoughts : \A i, j \in Of(k) : i = j
  BY <1>0 DEF OneInv, KeyedAtHome, KeyUnique, PostedOnce, AllAtHome
<1>p. \A k \in Thoughts : \A i, j \in Of(k)' : i = j
  BY DEF OneInv, KeyedAtHome, KeyUnique, PostedOnce, AllAtHome
<1>i. \A k \in Thoughts : Of(k) \subseteq Ids /\ Of(k)' \subseteq Ids
  BY DEF Of
(* Where the rows of a thought stay of their kinds, it stays.              *)
<1>k. ASSUME NEW k \in Thoughts, Of(k)' = Of(k), \A i \in Of(k) : row'[i].kind = row[i].kind,
             k \in thrown' <=> k \in thrown
      PROVE  Place'[k] = Place[k]
  <2>1. CASE Of(k) = {}
    BY <1>k, <2>1, PlaceIs
  <2>2. ASSUME NEW i \in Of(k) PROVE Place'[k] = Place[k]
    BY <1>k, <1>o, <1>p, <2>2, PlaceIs
  <2> QED BY <2>1, <2>2
<1>u. ASSUME \A k \in Thoughts : Place'[k] = Place[k] PROVE UNCHANGED Place
  BY <1>u, PlaceFunction
<1>s. ASSUME row' = row, thrown' = thrown PROVE UNCHANGED Place
  <2>1. \A k \in Thoughts : Of(k)' = Of(k)
    BY <1>s DEF Of, Exists
  <2> QED BY <1>k, <1>s, <1>u, <2>1
<1>1. ASSUME NEW r \in Requests, NEW t \in Thoughts, BeginCapture(r, t) PROVE UNCHANGED Place
  BY <1>1, <1>s DEF BeginCapture
<1>2. ASSUME NEW r \in Requests, NEW i \in Ids, BeginFile(r, i) \/ BeginUnfile(r, i) PROVE UNCHANGED Place
  BY <1>2, <1>s DEF BeginFile, BeginUnfile, BeginTransfer
<1>3. ASSUME NEW r \in Requests, NEW i \in Ids, Edit(r, i) PROVE UNCHANGED Place
  <2>1. \A k \in Thoughts : Of(k)' = Of(k)
    BY <1>3, EditRows DEF Of, Exists
  <2>2. thrown' = thrown /\ \A j \in Ids : row'[j].kind = row[j].kind
    BY <1>3, EditRows DEF Edit
  <2>3. ASSUME NEW k \in Thoughts PROVE Place'[k] = Place[k]
    BY <1>i, <1>k, <2>1, <2>2
  <2> QED BY <1>u, <2>3
<1>4. ASSUME NEW r \in Requests, NEW i \in Ids, Delete(r, i) PROVE Thought!Next
  <2>0. PICK t \in Thoughts : t = row[i].thought
    BY <1>4, DeleteRows
  <2>1. /\ row[i] # None /\ row'[i] = None /\ thrown' = thrown \cup {t}
        /\ \A j \in Ids : j # i => row'[j] = row[j]
        /\ row[i].kind \in {"line", "task"}
    BY <1>4, <2>0, DeleteRows DEF TypeOK, Row
  <2>2. i \in Of(t)
    BY <2>0, <2>1 DEF Of, Exists
  <2>3. Of(t)' = {}
    <3>1. \A j \in Of(t)' : j # i /\ j \in Of(t)
      BY <2>1 DEF Of, Exists
    <3> QED BY <1>o, <2>1, <2>2, <3>1
  <2>4. Place[t] = row[i].kind /\ Place'[t] = "thrown"
    BY <1>o, <2>1, <2>2, <2>3, PlaceIs
  <2>5. ASSUME NEW k \in Thoughts, k # t PROVE Place'[k] = Place[k]
    <3>1. Of(k)' = Of(k)
      BY <2>0, <2>1, <2>5 DEF Of, Exists
    <3>2. i \notin Of(k)
      BY <2>0, <2>5 DEF Of
    <3> QED BY <1>i, <1>k, <2>1, <2>5, <3>1, <3>2
  <2> QED BY <2>1, <2>4, <2>5, GoesAlone
<1>5. ASSUME NEW r \in Requests, CreateLine(r) PROVE Thought!Next \/ UNCHANGED Place
  <2>1. thrown' = thrown /\ moved' = moved /\ posts' = posts
    BY <1>5 DEF CreateLine
  <2>2. CASE Known(req[r].thought)
    BY <1>5, <1>s, <2>1, <2>2 DEF CreateLine
  <2>3. CASE ~Known(req[r].thought)
    <3>0. PICK t \in Thoughts : t = req[r].thought
      BY <1>0, <1>5, <2>3, CreateLineRows
    <3>1. /\ nextId \in Ids /\ row[nextId] = None /\ row'[nextId] # None
          /\ row'[nextId].kind = "line" /\ row'[nextId].thought = t
          /\ \A i \in Ids : i # nextId => row'[i] = row[i]
          /\ Captures(r, t)
      <4>1. NewLine(t).kind = "line" /\ NewLine(t).thought = t
        BY DEF NewLine
      <4>2. Captures(r, t)
        BY <1>5, <3>0 DEF CreateLine, Captures
      <4> QED BY <1>0, <1>5, <2>3, <3>0, <4>1, <4>2, CreateLineRows
    <3>2. \A i \in Of(t) : ~row[i].key
      BY <2>3, <3>0 DEF Known
    <3>3. Of(t) = {} /\ t \notin thrown
      BY <1>0, <3>1, <3>2 DEF AllAtHome, Earlier, OneInv, KeyedAtHome, PostedOnce
    <3>4. nextId \in Of(t)'
      BY <3>1 DEF Of, Exists
    <3>5. Place[t] = "nowhere" /\ Place'[t] = "line"
      BY <1>p, <3>1, <3>3, <3>4, PlaceIs
    <3>6. ASSUME NEW k \in Thoughts, k # t PROVE Place'[k] = Place[k]
      <4>1. Of(k)' = Of(k) /\ nextId \notin Of(k)
        BY <3>1, <3>6 DEF Of, Exists
      <4> QED BY <1>i, <1>k, <2>1, <3>1, <4>1
    <3> QED BY <3>1, <3>5, <3>6, GoesAlone
  <2> QED BY <2>2, <2>3
<1>6. ASSUME NEW r \in Requests, NEW op, NEW kind, Doing(r, op), Transfer(r, kind),
             <<op, kind>> \in {<<"file", "task">>, <<"unfile", "line">>}
      PROVE  Thought!Next
  <2>0. PICK d \in Ids : d = req[r].id
    BY <1>0, <1>6, TransferRows
  <2>t. PICK t : t = row[d].thought
    OBVIOUS
  <2>1. /\ op \in {"file", "unfile"} /\ kind \in {"line", "task"}
    BY <1>6
  <2>m. /\ d \in Ids /\ row[d] # None /\ row[d] \in Row /\ thrown' = thrown
        /\ \A i \in Ids : i # nextId /\ i # d => row'[i] = row[i]
        /\ row'[d] = None /\ row'[nextId].thought = t /\ row'[nextId].kind = kind
        /\ row'[nextId] # None /\ nextId \in Ids /\ row[nextId] = None
    BY <1>0, <1>6, <2>0, <2>t, <2>1, TransferRows DEF Transfer
  <2>2. \/ row[d].kind = "line" /\ kind = "task"
        \/ row[d].kind = "task" /\ kind = "line"
    <3>0. (op = "file" => kind = "task") /\ (op = "unfile" => kind = "line") /\ Doing(r, op)
      BY <1>6
    <3>1. CASE op = "file"
      <4>1. Doing(r, "file")
        BY <3>0, <3>1
      <4>2. row[d].kind = "line"
        BY <2>0, <2>m, <4>1 DEF ReadFits, Exists
      <4> QED BY <3>0, <3>1, <4>2
    <3>2. CASE op = "unfile"
      <4>1. Doing(r, "unfile")
        BY <3>0, <3>2
      <4>2. row[d].kind = "task"
        BY <2>0, <2>m, <4>1 DEF ReadFits, Exists
      <4> QED BY <3>0, <3>2, <4>2
    <3> QED BY <2>1, <3>1, <3>2
  <2>3. t \in Thoughts
    BY <2>t, <2>m DEF Row
  <2>4. d \in Of(t) /\ nextId \in Of(t)'
    BY <2>t, <2>m DEF Of, Exists
  <2>5. Place[t] = row[d].kind /\ Place'[t] = kind
    BY <1>o, <1>p, <2>m, <2>3, <2>4, PlaceIs
  <2>6. ASSUME NEW k \in Thoughts, k # t PROVE Place'[k] = Place[k]
    <3>1. Of(k)' = Of(k) /\ d \notin Of(k) /\ nextId \notin Of(k)
      BY <2>t, <2>m, <2>6 DEF Of, Exists
    <3> QED BY <1>i, <1>k, <2>m, <3>1
  <2> QED BY <2>2, <2>3, <2>5, <2>6, GoesAlone
<1>7. ASSUME NEW r \in Requests, Reread(r) \/ Abort(r) PROVE UNCHANGED Place
  BY <1>7, <1>s DEF Reread, Abort
<1>8. CASE UNCHANGED vars
  BY <1>8, <1>s DEF vars
<1> HIDE DEF Place
<1> QED
  BY <1>1, <1>2, <1>3, <1>4, <1>5, <1>6, <1>7, <1>8 DEF Next, CommitFile, CommitUnfile

(* A thought is a line or a task, never both, and never gone unless thrown *)
(* away: the sandbox implements ThoughtLife, until a copy of a capture     *)
(* arrives after its line has left.                                        *)
THEOREM ThoughtKeptCorrect == Spec => ThoughtKept
<1>1. Init => Thought!Init
  <2> SUFFICES ASSUME Init PROVE Place = [k \in Thoughts |-> "nowhere"]
    BY DEF Thought!Init
  <2>1. \A k \in Thoughts : Of(k) = {} /\ k \notin thrown
    BY DEF Init, Of, Exists
  <2>2. \A k \in Thoughts : Place[k] = "nowhere"
    BY <2>1, PlaceIs
  <2> QED BY <2>2, PlaceFunction
<1>2. (TypeOK /\ OneInv /\ Earlier /\ ReadFits) /\ [Next]_vars /\ OneInv' =>
        [(\A k \in Thoughts : posts[k] <= 1 \/ k \notin moved)' => Thought!Next \/ UNCHANGED Place]_vars
  BY RefinementStep DEF AllAtHome
<1> QED BY <1>1, <1>2, SandboxInvariant, PTL DEF Spec, ThoughtKept
=============================================================================
