------------------------- MODULE TaskJournalProofs -------------------------
(***************************************************************************)
(* What TaskJournal guarantees for every set of tasks, of request slots    *)
(* and of PATCH bodies: its types, a journal that opens with its one       *)
(* `created' event, a journal that explains the working set, and, when    *)
(* requests wait for each other, a journal that explains the status.       *)
(***************************************************************************)
EXTENDS TaskJournal, SequenceTheorems, TLAPS

-----------------------------------------------------------------------------
(* Journals as sequences.                                                  *)

LEMMA MovementEventsType ==
  ASSUME NEW before \in Row, NEW next \in Status \cup {"absent"}
  PROVE  MovementEvents(before, next) \in Seq(Event)
<1>1. before.status \in Status
  BY DEF Row
<1>2. BareEvent("unfocused") \in Event
  BY DEF BareEvent, Event
<1>3. CASE next = "absent"
  BY <1>3 DEF MovementEvents
<1>4. CASE next # "absent"
  <2>1. StatusEvent(before.status, next) \in Event
    BY <1>1, <1>4 DEF StatusEvent, Event
  <2>2. QED BY <1>2, <2>1 DEF MovementEvents
<1>5. QED BY <1>3, <1>4

(* Appending events keeps the old ones where they were.                    *)
LEMMA Appended ==
  ASSUME NEW j \in Seq(Event), NEW e \in Seq(Event)
  PROVE  /\ j \o e \in Seq(Event)
         /\ DOMAIN (j \o e) = 1 .. Len(j) + Len(e)
         /\ \A i \in 1 .. Len(j) : (j \o e)[i] = j[i]
         /\ \A i \in 1 .. Len(e) : (j \o e)[Len(j) + i] = e[i]
         /\ Len(j) \in Nat /\ Len(e) \in Nat
         /\ DOMAIN j = 1 .. Len(j) /\ DOMAIN e = 1 .. Len(e)
<1>1. /\ j \o e \in Seq(Event)
      /\ Len(j \o e) = Len(j) + Len(e)
      /\ \A i \in 1 .. Len(j) + Len(e) :
           (j \o e)[i] = IF i <= Len(j) THEN j[i] ELSE e[i - Len(j)]
  BY ConcatProperties
<1>2. /\ Len(j) \in Nat /\ Len(e) \in Nat
      /\ DOMAIN j = 1 .. Len(j) /\ DOMAIN e = 1 .. Len(e)
  BY LenProperties
<1>3. DOMAIN (j \o e) = 1 .. Len(j) + Len(e)
  BY <1>1, LenProperties
<1>4. \A i \in 1 .. Len(j) : (j \o e)[i] = j[i]
  BY <1>1, <1>2
<1>5. ASSUME NEW i \in 1 .. Len(e)
      PROVE  (j \o e)[Len(j) + i] = e[i]
  <2>1. Len(j) + i \in 1 .. Len(j) + Len(e) /\ ~(Len(j) + i <= Len(j))
        /\ (Len(j) + i) - Len(j) = i
    BY <1>2
  <2>2. QED BY <1>1, <2>1
<1>6. QED BY <1>1, <1>2, <1>3, <1>4, <1>5

(* Whether the journal leaves the task in the working set, after more      *)
(* events: they put it there, or they do not take it out.                  *)
LEMMA PickedAppended ==
  ASSUME NEW j \in Seq(Event), NEW e \in Seq(Event)
  PROVE  PickedIn(j \o e) <=>
           \/ PickedIn(e)
           \/ PickedIn(j) /\ \A k \in DOMAIN e : e[k].kind # "unfocused"
<1> DEFINE f == j \o e
<1>1. /\ DOMAIN f = 1 .. Len(j) + Len(e)
      /\ \A i \in 1 .. Len(j) : f[i] = j[i]
      /\ \A i \in 1 .. Len(e) : f[Len(j) + i] = e[i]
      /\ Len(j) \in Nat /\ Len(e) \in Nat
      /\ DOMAIN j = 1 .. Len(j) /\ DOMAIN e = 1 .. Len(e)
  BY Appended
<1>2. \A i \in 1 .. Len(j) + Len(e) :
        i \in 1 .. Len(j) \/ (i - Len(j) \in 1 .. Len(e) /\ i = Len(j) + (i - Len(j)))
  BY <1>1
<1> HIDE DEF f
<1>3. ASSUME PickedIn(e)
      PROVE  PickedIn(f)
  <2>1. PICK i \in 1 .. Len(e) :
          e[i].kind = "focused" /\ \A k \in 1 .. Len(e) : k > i => e[k].kind # "unfocused"
    BY <1>1, <1>3 DEF PickedIn
  <2>2. Len(j) + i \in DOMAIN f /\ f[Len(j) + i].kind = "focused"
    BY <1>1, <2>1
  <2>3. ASSUME NEW k \in DOMAIN f, k > Len(j) + i
        PROVE  f[k].kind # "unfocused"
    <3>1. k - Len(j) \in 1 .. Len(e) /\ k = Len(j) + (k - Len(j)) /\ k - Len(j) > i
      BY <1>1, <2>3
    <3>2. QED BY <1>1, <2>1, <3>1
  <2>4. QED BY <2>2, <2>3 DEF PickedIn
<1>4. ASSUME PickedIn(j), \A k \in DOMAIN e : e[k].kind # "unfocused"
      PROVE  PickedIn(f)
  <2>1. PICK i \in 1 .. Len(j) :
          j[i].kind = "focused" /\ \A k \in 1 .. Len(j) : k > i => j[k].kind # "unfocused"
    BY <1>1, <1>4 DEF PickedIn
  <2>2. i \in DOMAIN f /\ f[i].kind = "focused"
    BY <1>1, <2>1
  <2>3. ASSUME NEW k \in DOMAIN f, k > i
        PROVE  f[k].kind # "unfocused"
    <3>1. CASE k \in 1 .. Len(j)
      BY <1>1, <2>1, <2>3, <3>1
    <3>2. CASE k - Len(j) \in 1 .. Len(e) /\ k = Len(j) + (k - Len(j))
      BY <1>1, <1>4, <3>2
    <3>3. QED BY <1>1, <1>2, <3>1, <3>2
  <2>4. QED BY <2>2, <2>3 DEF PickedIn
<1>5. ASSUME PickedIn(f), ~PickedIn(e)
      PROVE  PickedIn(j) /\ \A k \in DOMAIN e : e[k].kind # "unfocused"
  <2>1. PICK i \in DOMAIN f :
          f[i].kind = "focused" /\ \A k \in DOMAIN f : k > i => f[k].kind # "unfocused"
    BY <1>5 DEF PickedIn
  <2>2. i \in 1 .. Len(j)
    <3>1. SUFFICES ASSUME i - Len(j) \in 1 .. Len(e), i = Len(j) + (i - Len(j))
                   PROVE  PickedIn(e)
      BY <1>1, <1>2, <1>5
    <3>2. e[i - Len(j)].kind = "focused"
      BY <1>1, <2>1, <3>1
    <3>3. ASSUME NEW k \in 1 .. Len(e), k > i - Len(j)
          PROVE  e[k].kind # "unfocused"
      <4>1. Len(j) + k \in DOMAIN f /\ Len(j) + k > i /\ f[Len(j) + k] = e[k]
        BY <1>1, <3>1, <3>3
      <4>2. QED BY <2>1, <4>1
    <3>4. QED BY <1>1, <3>1, <3>2, <3>3 DEF PickedIn
  <2>3. \A k \in 1 .. Len(j) : k > i => j[k].kind # "unfocused"
    BY <1>1, <2>1
  <2>4. ASSUME NEW k \in 1 .. Len(e)
        PROVE  e[k].kind # "unfocused"
    <3>1. Len(j) + k \in DOMAIN f /\ Len(j) + k > i /\ f[Len(j) + k] = e[k]
      BY <1>1, <2>2
    <3>2. QED BY <2>1, <3>1
  <2>5. QED BY <1>1, <2>1, <2>2, <2>3, <2>4 DEF PickedIn
<1>6. QED BY <1>3, <1>4, <1>5 DEF f

-----------------------------------------------------------------------------
(* Types.                                                                  *)

LEMMA NewRowType ==
  ASSUME NEW s \in Status, NEW day \in BOOLEAN, NEW time \in BOOLEAN
  PROVE  NewRow(s, day, time) \in Row
BY DEF NewRow, Row

LEMMA PatchedRowType ==
  ASSUME NEW now \in Row, NEW before \in Row, NEW body \in Body
  PROVE  PatchedRow(now, before, body) \in Row
<1>1. /\ now.status \in Status /\ now.focusedAt \in Nat
      /\ now.remindAt \in BOOLEAN /\ now.remindTime \in BOOLEAN
      /\ body.status \in Status \cup {"absent"}
  BY DEF Row, Body
<1>2. PatchedRow(now, before, body).status \in Status
  BY <1>1 DEF PatchedRow
<1>3. PatchedRow(now, before, body).focusedAt \in Nat
  BY <1>1 DEF PatchedRow
<1>4. PatchedRow(now, before, body).remindAt \in BOOLEAN
  BY <1>1, Zenon DEF PatchedRow
<1>5. PatchedRow(now, before, body).remindTime \in BOOLEAN
  BY <1>1 DEF PatchedRow
<1>6. QED BY <1>2, <1>3, <1>4, <1>5 DEF PatchedRow, Row

(* A request past its read names its task, its body and its copy.          *)
LEMMA RequestType ==
  ASSUME TypeOK, NEW r \in Requests, req[r] # Idle
  PROVE  /\ req[r] \in InFlight
         /\ req[r].task \in Tasks
         /\ req[r].op = "patch" => /\ req[r].body \in PatchBodies
                                   /\ req[r].body \in Body
                                   /\ req[r].body.status \in Status \cup {"absent"}
                                   /\ req[r].before \in Row
<1>1. req[r] \in InFlight
  BY DEF TypeOK
<1>2. req[r].task \in Tasks /\ (req[r].op = "patch" => req[r].body \in PatchBodies /\ req[r].before \in Row)
  BY <1>1 DEF InFlight
<1>3. req[r].op = "patch" => req[r].body \in Body /\ req[r].body.status \in Status \cup {"absent"}
  BY <1>2, ConstantsAssumption DEF Body
<1>4. QED BY <1>1, <1>2, <1>3

(* The server's state is well formed in every reachable state.             *)
THEOREM TypeCorrect == Spec => []TypeOK
<1>1. Init => TypeOK
  <2>1. NewRow("pending", FALSE, FALSE) \in Row
    BY NewRowType DEF Status
  <2>2. <<>> \in Seq(Event)
    BY EmptySeq
  <2>3. SUFFICES ASSUME Init
                 PROVE  TypeOK
    OBVIOUS
  <2>4. life \in [Tasks -> {"unborn", "live", "deleted"}]
    BY <2>3 DEF Init
  <2>5. row \in [Tasks -> Row]
    BY <2>1, <2>3 DEF Init
  <2>6. journal \in [Tasks -> Seq(Event)]
    BY <2>2, <2>3 DEF Init
  <2>7. req \in [Requests -> InFlight \cup {Idle}]
    BY <2>3 DEF Init
  <2>8. clock \in Nat
    BY <2>3 DEF Init
  <2>9. alone \in BOOLEAN
    BY <2>3 DEF Init
  <2>10. QED BY <2>4, <2>5, <2>6, <2>7, <2>8, <2>9 DEF TypeOK
<1>2. TypeOK /\ [Next]_vars => TypeOK'
  <2> SUFFICES ASSUME TypeOK, [Next]_vars
               PROVE  TypeOK'
    OBVIOUS
  <2>0. alone' \in BOOLEAN
    BY DEF TypeOK, Next, vars
  <2>1. ASSUME NEW t \in Tasks, Create(t)
        PROVE  TypeOK'
    <3>1. PICK s \in Status, day \in BOOLEAN, time \in BOOLEAN :
            /\ row' = [row EXCEPT ![t] = NewRow(s, day, time)]
            /\ journal' = [journal EXCEPT
                 ![t] = <<[kind |-> "created", from |-> "none", to |-> s]>>]
      BY <2>1 DEF Create
    <3>2. row' \in [Tasks -> Row]
      BY <3>1, NewRowType DEF TypeOK
    <3>3. [kind |-> "created", from |-> "none", to |-> s] \in Event
      BY DEF Event
    <3>4. journal' \in [Tasks -> Seq(Event)]
      BY <3>1, <3>3 DEF TypeOK
    <3>5. QED BY <2>0, <2>1, <3>2, <3>4 DEF Create, TypeOK
  <2>2. ASSUME NEW t \in Tasks, Delete(t)
        PROVE  TypeOK'
    BY <2>0, <2>2, EmptySeq DEF Delete, TypeOK
  <2>3. ASSUME NEW r \in Requests, NEW t \in Tasks, NEW body \in PatchBodies,
               BeginPatch(r, t, body)
        PROVE  TypeOK'
    <3>1. [op |-> "patch", task |-> t, body |-> body, before |-> row[t]] \in InFlight
      BY DEF InFlight, TypeOK
    <3>2. QED BY <2>0, <2>3, <3>1 DEF BeginPatch, TypeOK
  <2>4. ASSUME NEW r \in Requests, NEW t \in Tasks, BeginFocus(r, t)
        PROVE  TypeOK'
    <3>1. [op |-> "focus", task |-> t] \in InFlight
      BY DEF InFlight
    <3>2. QED BY <2>0, <2>4, <3>1 DEF BeginFocus, TypeOK
  <2>5. ASSUME NEW r \in Requests, NEW t \in Tasks, BeginUnfocus(r, t)
        PROVE  TypeOK'
    <3>1. [op |-> "unfocus", task |-> t] \in InFlight
      BY DEF InFlight
    <3>2. QED BY <2>0, <2>5, <3>1 DEF BeginUnfocus, TypeOK
  <2>6. ASSUME NEW r \in Requests, CommitPatch(r)
        PROVE  TypeOK'
    <3> DEFINE t == req[r].task
               before == req[r].before
               body == req[r].body
    <3>1. /\ req[r] # Idle /\ req[r].op = "patch"
          /\ row' = [row EXCEPT ![t] = PatchedRow(@, before, body)]
          /\ journal' = [journal EXCEPT ![t] = @ \o MovementEvents(before, body.status)]
          /\ req' = [req EXCEPT ![r] = Idle]
          /\ UNCHANGED <<life, clock>>
      BY <2>6 DEF CommitPatch
    <3>2. t \in Tasks /\ before \in Row /\ body \in Body
          /\ body.status \in Status \cup {"absent"}
      BY <3>1, RequestType
    <3>3. row' \in [Tasks -> Row]
      <4>1. PatchedRow(row[t], before, body) \in Row
        BY <3>2, PatchedRowType DEF TypeOK
      <4>2. QED BY <3>1, <4>1 DEF TypeOK
    <3>4. journal' \in [Tasks -> Seq(Event)]
      <4>1. journal[t] \o MovementEvents(before, body.status) \in Seq(Event)
        BY <3>2, MovementEventsType, Appended DEF TypeOK
      <4>2. QED BY <3>1, <4>1 DEF TypeOK
    <3>5. QED BY <2>0, <3>1, <3>3, <3>4 DEF TypeOK
  <2>7. ASSUME NEW r \in Requests, CommitFocus(r)
        PROVE  TypeOK'
    <3>1. req[r].task \in Tasks
      BY <2>7, RequestType DEF CommitFocus
    <3>2. clock' \in Nat /\ row' \in [Tasks -> Row]
      <4>1. clock' = clock + 1 /\ clock' \in Nat
        BY <2>0, <2>7 DEF CommitFocus, TypeOK
      <4>2. [row[req[r].task] EXCEPT !.focusedAt = clock'] \in Row
        BY <3>1, <4>1 DEF TypeOK, Row
      <4>3. QED BY <2>7, <3>1, <4>1, <4>2 DEF CommitFocus, TypeOK
    <3>3. <<BareEvent("focused")>> \in Seq(Event)
      BY DEF BareEvent, Event
    <3>4. journal[req[r].task] \o <<BareEvent("focused")>> \in Seq(Event)
      BY <3>1, <3>3, Appended DEF TypeOK
    <3>5. QED BY <2>0, <2>7, <3>2, <3>4 DEF CommitFocus, TypeOK
  <2>8. ASSUME NEW r \in Requests, CommitUnfocus(r)
        PROVE  TypeOK'
    <3>1. req[r].task \in Tasks
      BY <2>8, RequestType DEF CommitUnfocus
    <3>2. row' \in [Tasks -> Row]
      BY <2>8, <3>1 DEF CommitUnfocus, TypeOK, Row
    <3>3. <<BareEvent("unfocused")>> \in Seq(Event)
      BY DEF BareEvent, Event
    <3>4. journal[req[r].task] \o <<BareEvent("unfocused")>> \in Seq(Event)
      BY <3>1, <3>3, Appended DEF TypeOK
    <3>5. QED BY <2>0, <2>8, <3>2, <3>4 DEF CommitUnfocus, TypeOK
  <2>9. ASSUME NEW r \in Requests, Rollback(r)
        PROVE  TypeOK'
    BY <2>0, <2>9 DEF Rollback, TypeOK
  <2>10. CASE UNCHANGED vars
    BY <2>0, <2>10 DEF vars, TypeOK
  <2>11. QED
    BY <2>1, <2>2, <2>3, <2>4, <2>5, <2>6, <2>7, <2>8, <2>9, <2>10 DEF Next
<1>3. QED BY <1>1, <1>2, PTL DEF Spec

-----------------------------------------------------------------------------
(* What one step does to one task: nothing, or one of five changes, each   *)
(* with its events in the same step.                                       *)

Untouched(t) ==
  /\ life'[t] = life[t]
  /\ row'[t] = row[t]
  /\ journal'[t] = journal[t]

IsBorn(t) ==
  /\ life[t] = "unborn"
  /\ life'[t] = "live"
  /\ \E s \in Status, day, time \in BOOLEAN :
       /\ row'[t] = NewRow(s, day, time)
       /\ journal'[t] = <<[kind |-> "created", from |-> "none", to |-> s]>>

IsForgotten(t) ==
  /\ life'[t] = "deleted"
  /\ journal'[t] = <<>>

IsPatched(t, before, body) ==
  /\ Live(t) /\ life'[t] = "live"
  /\ row'[t] = PatchedRow(row[t], before, body)
  /\ journal'[t] = journal[t] \o MovementEvents(before, body.status)

IsPicked(t) ==
  /\ Live(t) /\ life'[t] = "live"
  /\ row'[t] = [row[t] EXCEPT !.focusedAt = clock + 1]
  /\ journal'[t] = journal[t] \o <<BareEvent("focused")>>

IsDropped(t) ==
  /\ Live(t) /\ life'[t] = "live"
  /\ row'[t] = [row[t] EXCEPT !.focusedAt = 0]
  /\ journal'[t] = journal[t] \o <<BareEvent("unfocused")>>

LEMMA StepEffect ==
  ASSUME TypeOK, [Next]_vars, NEW t \in Tasks
  PROVE  \/ Untouched(t) \/ IsBorn(t) \/ IsForgotten(t) \/ IsPicked(t) \/ IsDropped(t)
         \/ \E r \in Requests :
              /\ req[r] # Idle /\ req[r].op = "patch" /\ req[r].task = t
              /\ IsPatched(t, req[r].before, req[r].body)
<1>1. ASSUME NEW u \in Tasks, Create(u)
      PROVE  Untouched(t) \/ IsBorn(t)
  <2>1. PICK s \in Status, day \in BOOLEAN, time \in BOOLEAN :
          /\ row' = [row EXCEPT ![u] = NewRow(s, day, time)]
          /\ journal' = [journal EXCEPT
               ![u] = <<[kind |-> "created", from |-> "none", to |-> s]>>]
    BY <1>1 DEF Create
  <2>2. life[u] = "unborn" /\ life' = [life EXCEPT ![u] = "live"]
    BY <1>1 DEF Create
  <2>3. CASE t = u
    BY <2>1, <2>2, <2>3 DEF TypeOK, IsBorn
  <2>4. CASE t # u
    BY <2>1, <2>2, <2>4 DEF TypeOK, Untouched
  <2>5. QED BY <2>3, <2>4
<1>2. ASSUME NEW u \in Tasks, Delete(u)
      PROVE  Untouched(t) \/ IsForgotten(t)
  BY <1>2 DEF Delete, TypeOK, Untouched, IsForgotten
<1>3. ASSUME NEW r \in Requests, NEW u \in Tasks, NEW body \in PatchBodies,
             BeginPatch(r, u, body)
      PROVE  Untouched(t)
  BY <1>3 DEF BeginPatch, Untouched
<1>4. ASSUME NEW r \in Requests, NEW u \in Tasks, BeginFocus(r, u)
      PROVE  Untouched(t)
  BY <1>4 DEF BeginFocus, Untouched
<1>5. ASSUME NEW r \in Requests, NEW u \in Tasks, BeginUnfocus(r, u)
      PROVE  Untouched(t)
  BY <1>5 DEF BeginUnfocus, Untouched
<1>6. ASSUME NEW r \in Requests, CommitPatch(r)
      PROVE  \/ Untouched(t)
             \/ /\ req[r] # Idle /\ req[r].op = "patch" /\ req[r].task = t
                /\ IsPatched(t, req[r].before, req[r].body)
  <2>1. req[r].task \in Tasks
    BY <1>6, RequestType DEF CommitPatch
  <2>2. CASE t = req[r].task
    BY <1>6, <2>1, <2>2 DEF CommitPatch, TypeOK, IsPatched, Live
  <2>3. CASE t # req[r].task
    BY <1>6, <2>1, <2>3 DEF CommitPatch, TypeOK, Untouched
  <2>4. QED BY <2>2, <2>3
<1>7. ASSUME NEW r \in Requests, CommitFocus(r)
      PROVE  Untouched(t) \/ IsPicked(t)
  <2>1. req[r].task \in Tasks
    BY <1>7, RequestType DEF CommitFocus
  <2>2. CASE t = req[r].task
    BY <1>7, <2>1, <2>2 DEF CommitFocus, TypeOK, IsPicked, Live
  <2>3. CASE t # req[r].task
    BY <1>7, <2>1, <2>3 DEF CommitFocus, TypeOK, Untouched
  <2>4. QED BY <2>2, <2>3
<1>8. ASSUME NEW r \in Requests, CommitUnfocus(r)
      PROVE  Untouched(t) \/ IsDropped(t)
  <2>1. req[r].task \in Tasks
    BY <1>8, RequestType DEF CommitUnfocus
  <2>2. CASE t = req[r].task
    BY <1>8, <2>1, <2>2 DEF CommitUnfocus, TypeOK, IsDropped, Live
  <2>3. CASE t # req[r].task
    BY <1>8, <2>1, <2>3 DEF CommitUnfocus, TypeOK, Untouched
  <2>4. QED BY <2>2, <2>3
<1>9. ASSUME NEW r \in Requests, Rollback(r)
      PROVE  Untouched(t)
  BY <1>9 DEF Rollback, Untouched
<1>10. CASE UNCHANGED vars
  BY <1>10 DEF vars, Untouched
<1>11. QED
  BY <1>1, <1>2, <1>3, <1>4, <1>5, <1>6, <1>7, <1>8, <1>9, <1>10 DEF Next

-----------------------------------------------------------------------------
(* The events a step appends.                                              *)

LEMMA BareEventAlone ==
  ASSUME NEW k \in {"focused", "unfocused"}
  PROVE  /\ <<BareEvent(k)>> \in Seq(Event)
         /\ DOMAIN <<BareEvent(k)>> = {1}
         /\ <<BareEvent(k)>>[1].kind = k
BY DEF BareEvent, Event

(* A movement: no events, a status event, or one followed by `unfocused'.  *)
LEMMA MovementEventsShape ==
  ASSUME NEW before \in Row, NEW next \in Status \cup {"absent"}
  PROVE  LET e == MovementEvents(before, next)
         IN  /\ e \in Seq(Event)
             /\ \A i \in DOMAIN e : e[i].kind = IF i = 1 THEN "status" ELSE "unfocused"
             /\ DOMAIN e = IF next \in {"absent", before.status} THEN {}
                           ELSE IF LeavesFocus(before, next) THEN {1, 2} ELSE {1}
             /\ next \notin {"absent", before.status} => e[1].to = next
<1>1. MovementEvents(before, next) \in Seq(Event)
  BY MovementEventsType
<1>2. CASE next \in {"absent", before.status}
  BY <1>1, <1>2 DEF MovementEvents
<1>3. CASE next \notin {"absent", before.status} /\ LeavesFocus(before, next)
  BY <1>1, <1>3 DEF MovementEvents, StatusEvent, BareEvent
<1>4. CASE next \notin {"absent", before.status} /\ ~LeavesFocus(before, next)
  BY <1>1, <1>4 DEF MovementEvents, StatusEvent
<1>5. QED BY <1>2, <1>3, <1>4

-----------------------------------------------------------------------------
(* The journal explains the working set, whatever overlaps: whoever writes *)
(* focusedAt appends the matching event in the same transaction, so the    *)
(* invariant is inductive although requests decide on old copies.          *)

LEMMA FocusExplainedStep ==
  ASSUME TypeOK, FocusExplained, [Next]_vars
  PROVE  FocusExplained'
<1> SUFFICES ASSUME NEW t \in Tasks, life'[t] = "live"
             PROVE  row'[t].focusedAt # 0 <=> PickedIn(journal'[t])
  BY DEF FocusExplained, Live
<1>1. journal[t] \in Seq(Event) /\ row[t] \in Row /\ clock \in Nat
  BY DEF TypeOK
<1>2. Live(t) => (row[t].focusedAt # 0 <=> PickedIn(journal[t]))
  BY DEF FocusExplained
<1>3. CASE Untouched(t)
  BY <1>2, <1>3 DEF Untouched, Live
<1>4. CASE IsBorn(t)
  BY <1>4 DEF IsBorn, NewRow, PickedIn
<1>5. CASE IsForgotten(t)
  BY <1>5 DEF IsForgotten
<1>6. CASE IsPicked(t)
  <2>1. row'[t].focusedAt = clock + 1
    BY <1>1, <1>6 DEF IsPicked, Row
  <2>2. PickedIn(<<BareEvent("focused")>>)
    BY BareEventAlone DEF PickedIn
  <2>3. PickedIn(journal'[t])
    <3>1. <<BareEvent("focused")>> \in Seq(Event)
      BY BareEventAlone
    <3>2. PickedIn(journal[t] \o <<BareEvent("focused")>>)
      BY <1>1, <2>2, <3>1, PickedAppended
    <3>3. QED BY <1>6, <3>2 DEF IsPicked
  <2>4. QED BY <1>1, <2>1, <2>3
<1>7. CASE IsDropped(t)
  <2>1. row'[t].focusedAt = 0
    BY <1>1, <1>7 DEF IsDropped, Row
  <2>2. ~PickedIn(<<BareEvent("unfocused")>>)
    BY BareEventAlone DEF PickedIn
  <2>3. ~PickedIn(journal'[t])
    <3>1. /\ <<BareEvent("unfocused")>> \in Seq(Event)
          /\ \E k \in DOMAIN <<BareEvent("unfocused")>> :
               <<BareEvent("unfocused")>>[k].kind = "unfocused"
      BY BareEventAlone
    <3>2. ~PickedIn(journal[t] \o <<BareEvent("unfocused")>>)
      BY <1>1, <2>2, <3>1, PickedAppended
    <3>3. QED BY <1>7, <3>2 DEF IsDropped
  <2>4. QED BY <2>1, <2>3
<1>8. ASSUME NEW r \in Requests, req[r] # Idle, req[r].op = "patch", req[r].task = t,
             IsPatched(t, req[r].before, req[r].body)
      PROVE  row'[t].focusedAt # 0 <=> PickedIn(journal'[t])
  <2> DEFINE before == req[r].before
             next == req[r].body.status
             e == MovementEvents(before, next)
  <2>1. before \in Row /\ next \in Status \cup {"absent"}
    BY <1>8, RequestType
  <2>2. /\ row'[t].focusedAt = IF LeavesFocus(before, next) THEN 0 ELSE row[t].focusedAt
        /\ journal'[t] = journal[t] \o e
    BY <1>8 DEF IsPatched, PatchedRow
  <2>3. /\ e \in Seq(Event)
        /\ \A i \in DOMAIN e : e[i].kind = IF i = 1 THEN "status" ELSE "unfocused"
        /\ DOMAIN e = IF next \in {"absent", before.status} THEN {}
                      ELSE IF LeavesFocus(before, next) THEN {1, 2} ELSE {1}
    BY <2>1, MovementEventsShape
  <2> HIDE DEF e, before, next
  <2>4. ~PickedIn(e)
    BY <2>3 DEF PickedIn
  <2>5. LeavesFocus(before, next) <=> \E k \in DOMAIN e : e[k].kind = "unfocused"
    <3>1. LeavesFocus(before, next) => next \notin {"absent", before.status}
      BY <2>1 DEF LeavesFocus
    <3>2. QED BY <2>3, <3>1
  <2>6. PickedIn(journal'[t]) <=> PickedIn(journal[t]) /\ ~LeavesFocus(before, next)
    BY <1>1, <2>2, <2>3, <2>4, <2>5, PickedAppended
  <2>7. QED BY <1>2, <1>8, <2>2, <2>6 DEF IsPatched
<1>9. QED BY <1>3, <1>4, <1>5, <1>6, <1>7, <1>8, StepEffect

(* A task is in the working set exactly when its journal says so.          *)
THEOREM FocusExplainedCorrect == Spec => []FocusExplained
<1>1. Init => FocusExplained
  BY DEF Init, FocusExplained, Live
<1>2. TypeOK /\ FocusExplained /\ [Next]_vars => FocusExplained'
  BY FocusExplainedStep
<1>3. QED BY <1>1, <1>2, TypeCorrect, PTL DEF Spec

-----------------------------------------------------------------------------
(* A journal opens with its one `created' event and dies with its task.    *)

LEMMA BornOnceStep ==
  ASSUME TypeOK, BornOnce, [Next]_vars
  PROVE  BornOnce'
<1> DEFINE Opens(j) == Len(j) > 0 /\ \A i \in DOMAIN j : j[i].kind = "created" <=> i = 1
<1> SUFFICES ASSUME NEW t \in Tasks
             PROVE  IF life'[t] = "live" THEN Opens(journal'[t]) ELSE journal'[t] = <<>>
  BY DEF BornOnce, Live
<1>1. journal[t] \in Seq(Event) /\ row[t] \in Row
  BY DEF TypeOK
<1>2. IF life[t] = "live" THEN Opens(journal[t]) ELSE journal[t] = <<>>
  BY DEF BornOnce, Live
<1>3. ASSUME NEW e \in Seq(Event), Opens(journal[t]), \A i \in DOMAIN e : e[i].kind # "created"
      PROVE  Opens(journal[t] \o e)
  <2> DEFINE f == journal[t] \o e
             n == Len(journal[t])
  <2>1. /\ f \in Seq(Event) /\ DOMAIN f = 1 .. n + Len(e)
        /\ \A i \in 1 .. n : f[i] = journal[t][i]
        /\ \A i \in 1 .. Len(e) : f[n + i] = e[i]
        /\ n \in Nat /\ Len(e) \in Nat
        /\ DOMAIN journal[t] = 1 .. n /\ DOMAIN e = 1 .. Len(e)
    BY <1>1, Appended
  <2>2. Len(f) > 0
    BY <1>1, <1>3, <2>1, ConcatProperties
  <2>3. ASSUME NEW i \in DOMAIN f
        PROVE  f[i].kind = "created" <=> i = 1
    <3>1. CASE i \in 1 .. n
      BY <1>3, <2>1, <3>1
    <3>2. CASE i - n \in 1 .. Len(e) /\ i = n + (i - n) /\ i # 1
      <4>1. f[i] = e[i - n]
        BY <2>1, <3>2
      <4>2. QED BY <1>3, <2>1, <3>2, <4>1
    <3>3. i \in 1 .. n \/ (i - n \in 1 .. Len(e) /\ i = n + (i - n) /\ i # 1)
      BY <1>3, <2>1
    <3>4. QED BY <3>1, <3>2, <3>3
  <2>4. QED BY <2>2, <2>3
<1>4. CASE Untouched(t)
  BY <1>2, <1>4 DEF Untouched
<1>5. CASE IsBorn(t)
  BY <1>5 DEF IsBorn
<1>6. CASE IsForgotten(t)
  BY <1>6 DEF IsForgotten
<1>7. CASE IsPicked(t) \/ IsDropped(t)
  <2>1. PICK k \in {"focused", "unfocused"} : journal'[t] = journal[t] \o <<BareEvent(k)>>
    BY <1>7 DEF IsPicked, IsDropped
  <2>2. QED BY <1>2, <1>3, <1>7, <2>1, BareEventAlone DEF IsPicked, IsDropped, Live
<1>8. ASSUME NEW r \in Requests, req[r] # Idle, req[r].op = "patch", req[r].task = t,
             IsPatched(t, req[r].before, req[r].body)
      PROVE  life'[t] = "live" /\ Opens(journal'[t])
  <2>1. req[r].before \in Row /\ req[r].body.status \in Status \cup {"absent"}
    BY <1>8, RequestType
  <2>2. LET e == MovementEvents(req[r].before, req[r].body.status)
        IN  e \in Seq(Event) /\ \A i \in DOMAIN e : e[i].kind # "created"
    BY <2>1, MovementEventsShape
  <2>3. QED BY <1>2, <1>3, <1>8, <2>2 DEF IsPatched, Live
<1>9. QED BY <1>4, <1>5, <1>6, <1>7, <1>8, StepEffect

(* Every live task can be placed in time by its journal alone.             *)
THEOREM BornOnceCorrect == Spec => []BornOnce
<1>1. Init => BornOnce
  BY DEF Init, BornOnce, Live
<1>2. TypeOK /\ BornOnce /\ [Next]_vars => BornOnce'
  BY BornOnceStep
<1>3. QED BY <1>1, <1>2, TypeCorrect, PTL DEF Spec

-----------------------------------------------------------------------------
(* Requests that wait for each other.  A request is then alone between its *)
(* read and its transaction, so the copy it decided on is still the row.   *)

CopyIsCurrent ==
  alone => \A r \in Requests : req[r] # Idle =>
    /\ \A q \in Requests : req[q] # Idle => q = r
    /\ life[req[r].task] # "unborn"
    /\ req[r].op = "patch" /\ Live(req[r].task) => req[r].before = row[req[r].task]
    /\ req[r].op = "focus" /\ Live(req[r].task) => row[req[r].task].focusedAt = 0
    /\ req[r].op = "unfocus" /\ Live(req[r].task) => row[req[r].task].focusedAt # 0

LEMMA CopyIsCurrentStep ==
  ASSUME TypeOK, CopyIsCurrent, [Next]_vars
  PROVE  CopyIsCurrent'
<1> DEFINE Current(r) ==
             /\ life'[req'[r].task] # "unborn"
             /\ req'[r].op = "patch" /\ life'[req'[r].task] = "live"
                  => req'[r].before = row'[req'[r].task]
             /\ req'[r].op = "focus" /\ life'[req'[r].task] = "live"
                  => row'[req'[r].task].focusedAt = 0
             /\ req'[r].op = "unfocus" /\ life'[req'[r].task] = "live"
                  => row'[req'[r].task].focusedAt # 0
<1> SUFFICES ASSUME alone, NEW r \in Requests, req'[r] # Idle
             PROVE  /\ \A q \in Requests : req'[q] # Idle => q = r
                    /\ Current(r)
  BY DEF CopyIsCurrent, Live, Next, vars
<1>1. ASSUME req[r] # Idle
      PROVE  /\ \A q \in Requests : req[q] # Idle => q = r
             /\ req[r].task \in Tasks
             /\ life[req[r].task] # "unborn"
             /\ req[r].op = "patch" /\ life[req[r].task] = "live"
                  => req[r].before = row[req[r].task]
             /\ req[r].op = "focus" /\ life[req[r].task] = "live"
                  => row[req[r].task].focusedAt = 0
             /\ req[r].op = "unfocus" /\ life[req[r].task] = "live"
                  => row[req[r].task].focusedAt # 0
  BY <1>1, RequestType DEF CopyIsCurrent, Live
<1>2. CASE \E q \in Requests, u \in Tasks :
             \/ \E body \in PatchBodies : BeginPatch(q, u, body)
             \/ BeginFocus(q, u) \/ BeginUnfocus(q, u)
  <2>1. PICK q \in Requests, u \in Tasks :
             \/ \E body \in PatchBodies : BeginPatch(q, u, body)
             \/ BeginFocus(q, u) \/ BeginUnfocus(q, u)
    BY <1>2
  <2>2. Admit(q, u) /\ life' = life /\ row' = row
    BY <2>1 DEF BeginPatch, BeginFocus, BeginUnfocus
  <2>3. \A s \in Requests : req[s] = Idle
    BY <2>2 DEF Admit
  <2> DEFINE Opened(x) == /\ req' = [req EXCEPT ![q] = x]
                          /\ x.task = u
                          /\ x.op = "patch" => x.before = row[u]
                          /\ x.op = "focus" => row[u].focusedAt = 0
                          /\ x.op = "unfocus" => row[u].focusedAt # 0
  <2>4. \E x : Opened(x)
    <3>1. ASSUME NEW body \in PatchBodies, BeginPatch(q, u, body)
          PROVE  Opened([op |-> "patch", task |-> u, body |-> body, before |-> row[u]])
      BY <3>1 DEF BeginPatch
    <3>2. ASSUME BeginFocus(q, u) PROVE Opened([op |-> "focus", task |-> u])
      BY <3>2 DEF BeginFocus
    <3>3. ASSUME BeginUnfocus(q, u) PROVE Opened([op |-> "unfocus", task |-> u])
      BY <3>3 DEF BeginUnfocus
    <3> HIDE DEF Opened
    <3>4. QED BY <2>1, <3>1, <3>2, <3>3
  <2>5. PICK x : Opened(x)
    BY <2>4
  <2>6. r = q /\ req'[r] = x /\ \A s \in Requests : req'[s] # Idle => s = r
    BY <2>3, <2>5 DEF TypeOK
  <2>7. QED BY <2>2, <2>5, <2>6 DEF Admit, Live
<1>3. ASSUME NEW u \in Tasks, Create(u) \/ Delete(u)
      PROVE  (\A q \in Requests : req'[q] # Idle => q = r) /\ Current(r)
  <2>1. req' = req
    BY <1>3 DEF Create, Delete
  <2>2. CASE req[r].task = u
    BY <1>1, <1>3, <2>1, <2>2 DEF Create, Delete, TypeOK
  <2>3. CASE req[r].task # u
    <3>1. life'[req[r].task] = life[req[r].task] /\ row'[req[r].task] = row[req[r].task]
      BY <1>1, <1>3, <2>1, <2>3 DEF Create, Delete, TypeOK
    <3>2. QED BY <1>1, <2>1, <3>1
  <2>4. QED BY <2>2, <2>3
<1>4. ASSUME NEW q \in Requests,
             CommitPatch(q) \/ CommitFocus(q) \/ CommitUnfocus(q) \/ Rollback(q)
      PROVE  FALSE
  <2>1. req[q] # Idle /\ req' = [req EXCEPT ![q] = Idle]
    BY <1>4 DEF CommitPatch, CommitFocus, CommitUnfocus, Rollback
  <2>2. req[r] # Idle /\ r # q
    BY <2>1 DEF TypeOK
  <2>3. QED BY <1>1, <2>1, <2>2
<1>5. CASE UNCHANGED vars
  BY <1>1, <1>5 DEF vars
<1>6. QED BY <1>2, <1>3, <1>4, <1>5 DEF Next

(* Replaying a longer journal.                                             *)
LEMMA ReplayAppended ==
  ASSUME NEW j \in Seq(Event), NEW e \in Seq(Event), NEW s
  PROVE  /\ ReplaysTo(j, s) /\ Moves(e) = {} => ReplaysTo(j \o e, s)
         /\ Moves(e) = {1} /\ e[1].to = s => ReplaysTo(j \o e, s)
<1> DEFINE f == j \o e
           n == Len(j)
<1>1. /\ DOMAIN f = 1 .. n + Len(e)
      /\ \A i \in 1 .. n : f[i] = j[i]
      /\ \A i \in 1 .. Len(e) : f[n + i] = e[i]
      /\ n \in Nat /\ Len(e) \in Nat
      /\ DOMAIN j = 1 .. n /\ DOMAIN e = 1 .. Len(e)
  BY Appended
<1> HIDE DEF f, n
<1>2. ASSUME NEW k \in Moves(f)
      PROVE  k \in Moves(j) \/ (k - n \in Moves(e) /\ k > n)
  <2>1. CASE k \in 1 .. n
    BY <1>1, <1>2, <2>1 DEF Moves
  <2>2. CASE k - n \in 1 .. Len(e) /\ k = n + (k - n) /\ k > n
    <3>1. f[k] = e[k - n]
      BY <1>1, <2>2
    <3>2. QED BY <1>1, <1>2, <2>2, <3>1 DEF Moves
  <2>3. k \in 1 .. n \/ (k - n \in 1 .. Len(e) /\ k = n + (k - n) /\ k > n)
    BY <1>1, <1>2 DEF Moves
  <2>4. QED BY <2>1, <2>2, <2>3
<1>3. ASSUME ReplaysTo(j, s), Moves(e) = {}
      PROVE  ReplaysTo(f, s)
  <2>1. PICK i \in Moves(j) : j[i].to = s /\ \A k \in Moves(j) : k <= i
    BY <1>3 DEF ReplaysTo
  <2>2. i \in Moves(f) /\ f[i].to = s
    BY <1>1, <2>1 DEF Moves
  <2>3. \A k \in Moves(f) : k <= i
    BY <1>2, <1>3, <2>1
  <2>4. QED BY <2>2, <2>3 DEF ReplaysTo
<1>4. ASSUME Moves(e) = {1}, e[1].to = s
      PROVE  ReplaysTo(f, s)
  <2>1. 1 \in 1 .. Len(e) /\ e[1].kind \in {"created", "status"}
    BY <1>1, <1>4 DEF Moves
  <2>2. n + 1 \in Moves(f) /\ f[n + 1].to = s
    <3>1. n + 1 \in DOMAIN f /\ f[n + 1] = e[1]
      BY <1>1, <2>1
    <3>2. QED BY <1>4, <2>1, <3>1 DEF Moves
  <2>3. ASSUME NEW k \in Moves(f)
        PROVE  k <= n + 1
    <3>1. CASE k \in Moves(j)
      BY <1>1, <3>1 DEF Moves
    <3>2. CASE k - n \in Moves(e) /\ k > n
      <4>1. k - n = 1 /\ k \in Int
        BY <1>1, <1>4, <2>3, <3>2 DEF Moves
      <4>2. QED BY <1>1, <4>1
    <3>3. QED BY <1>2, <3>1, <3>2
  <2>4. QED BY <2>2, <2>3 DEF ReplaysTo
<1>5. QED BY <1>3, <1>4 DEF f

LEMMA StatusExplainedStep ==
  ASSUME TypeOK, CopyIsCurrent, StatusExplained, [Next]_vars
  PROVE  StatusExplained'
<1> SUFFICES ASSUME alone, NEW t \in Tasks, life'[t] = "live"
             PROVE  ReplaysTo(journal'[t], row'[t].status)
  BY DEF StatusExplained, AgreeByConstruction, Live, Next, vars
<1>1. journal[t] \in Seq(Event) /\ row[t] \in Row
  BY DEF TypeOK
<1>2. Live(t) => ReplaysTo(journal[t], row[t].status)
  BY DEF StatusExplained, AgreeByConstruction
<1>3. CASE Untouched(t)
  BY <1>2, <1>3 DEF Untouched, Live
<1>4. CASE IsBorn(t)
  BY <1>4 DEF IsBorn, NewRow, ReplaysTo, Moves
<1>5. CASE IsForgotten(t)
  BY <1>5 DEF IsForgotten
<1>6. CASE IsPicked(t) \/ IsDropped(t)
  <2>1. PICK k \in {"focused", "unfocused"} : journal'[t] = journal[t] \o <<BareEvent(k)>>
    BY <1>6 DEF IsPicked, IsDropped
  <2>2. <<BareEvent(k)>> \in Seq(Event) /\ Moves(<<BareEvent(k)>>) = {}
    BY BareEventAlone DEF Moves
  <2>3. row'[t].status = row[t].status /\ Live(t)
    BY <1>1, <1>6 DEF IsPicked, IsDropped, Row
  <2>4. QED BY <1>1, <1>2, <2>1, <2>2, <2>3, ReplayAppended
<1>7. ASSUME NEW r \in Requests, req[r] # Idle, req[r].op = "patch", req[r].task = t,
             IsPatched(t, req[r].before, req[r].body)
      PROVE  ReplaysTo(journal'[t], row'[t].status)
  <2> DEFINE next == req[r].body.status
             e == MovementEvents(row[t], next)
  <2>1. next \in Status \cup {"absent"} /\ req[r].before = row[t]
    BY <1>7, RequestType DEF CopyIsCurrent, IsPatched
  <2>2. /\ row'[t].status = IF next = "absent" THEN row[t].status ELSE next
        /\ journal'[t] = journal[t] \o e
    BY <1>7, <2>1 DEF IsPatched, PatchedRow
  <2>3. /\ e \in Seq(Event)
        /\ \A i \in DOMAIN e : e[i].kind = IF i = 1 THEN "status" ELSE "unfocused"
        /\ DOMAIN e = IF next \in {"absent", row[t].status} THEN {}
                      ELSE IF LeavesFocus(row[t], next) THEN {1, 2} ELSE {1}
        /\ next \notin {"absent", row[t].status} => e[1].to = next
    BY <1>1, <2>1, MovementEventsShape
  <2> HIDE DEF e, next
  <2>4. CASE next \in {"absent", row[t].status}
    <3>1. Moves(e) = {} /\ row'[t].status = row[t].status
      BY <2>2, <2>3, <2>4 DEF Moves
    <3>2. QED BY <1>1, <1>2, <1>7, <2>2, <2>3, <3>1, ReplayAppended DEF IsPatched
  <2>5. CASE next \notin {"absent", row[t].status}
    <3>1. Moves(e) = {1} /\ e[1].to = row'[t].status
      BY <2>2, <2>3, <2>5 DEF Moves
    <3>2. QED BY <1>1, <2>2, <2>3, <3>1, ReplayAppended
  <2>6. QED BY <2>4, <2>5
<1>8. QED BY <1>3, <1>4, <1>5, <1>6, <1>7, StepEffect

(* When requests wait for each other, the status replayed from a live      *)
(* task's journal is the status of its row.                                *)
THEOREM StatusExplainedCorrect == Spec => []StatusExplained
<1>1. Init => CopyIsCurrent /\ StatusExplained
  BY DEF Init, CopyIsCurrent, StatusExplained, AgreeByConstruction, Live
<1>2. TypeOK /\ CopyIsCurrent /\ StatusExplained /\ [Next]_vars
        => CopyIsCurrent' /\ StatusExplained'
  BY CopyIsCurrentStep, StatusExplainedStep
<1>3. QED BY <1>1, <1>2, TypeCorrect, PTL DEF Spec

(* When requests wait for each other, a task that becomes done leaves the  *)
(* working set in the same step.                                           *)
THEOREM FinishLeavesSetCorrect == Spec => FinishLeavesSet
<1> DEFINE Leaves(t) ==
             alone /\ Live(t) /\ Live(t)' /\ row[t].status # "done" /\ row[t].status' = "done"
               => row[t].focusedAt' = 0
<1>1. TypeOK /\ CopyIsCurrent /\ [Next]_vars => [\A t \in Tasks : Leaves(t)]_vars
  <2> SUFFICES ASSUME TypeOK, CopyIsCurrent, [Next]_vars, alone, NEW t \in Tasks,
                      life[t] = "live", life'[t] = "live",
                      row[t].status # "done", row'[t].status = "done"
               PROVE  row'[t].focusedAt = 0
    BY DEF Live
  <2>1. row[t] \in Row
    BY DEF TypeOK
  <2>2. CASE Untouched(t) \/ IsBorn(t) \/ IsForgotten(t)
    BY <2>2 DEF Untouched, IsBorn, IsForgotten
  <2>3. CASE IsPicked(t) \/ IsDropped(t)
    BY <2>1, <2>3 DEF IsPicked, IsDropped, Row
  <2>4. ASSUME NEW r \in Requests, req[r] # Idle, req[r].op = "patch", req[r].task = t,
               IsPatched(t, req[r].before, req[r].body)
        PROVE  row'[t].focusedAt = 0
    BY <2>4 DEF CopyIsCurrent, Live, IsPatched, PatchedRow, LeavesFocus
  <2>5. QED BY <2>2, <2>3, <2>4, StepEffect
<1>2. Init => CopyIsCurrent
  BY DEF Init, CopyIsCurrent
<1>3. TypeOK /\ CopyIsCurrent /\ [Next]_vars => CopyIsCurrent'
  BY CopyIsCurrentStep
<1>4. QED BY <1>1, <1>2, <1>3, TypeCorrect, PTL DEF Spec, FinishLeavesSet

-----------------------------------------------------------------------------
(* The life read off the journal.  Of requests that wait for each other it *)
(* is the life the rows show, and of the rows it is easy to say how a step *)
(* changes them.                                                           *)

RowStatus(l, w) ==
  [t \in Tasks |-> IF l[t] = "live" THEN w[t].status ELSE "pending"]

RowInSet(l, w) == [t \in Tasks |-> l[t] = "live" /\ w[t].focusedAt # 0]

PickedNow == [t \in Tasks |-> PickedIn(journal[t])]

RowsTellLife ==
  alone => ReplayedStatus = RowStatus(life, row) /\ PickedNow = RowInSet(life, row)

(* A journal replays to one status at most.                                *)
LEMMA ReplaysToOne ==
  ASSUME NEW j \in Seq(Event), NEW s, NEW z, ReplaysTo(j, s), ReplaysTo(j, z)
  PROVE  s = z
<1>1. PICK i \in Moves(j) : j[i].to = s /\ \A k \in Moves(j) : k <= i
  BY DEF ReplaysTo
<1>2. PICK m \in Moves(j) : j[m].to = z /\ \A k \in Moves(j) : k <= m
  BY DEF ReplaysTo
<1>3. i \in Nat /\ m \in Nat
  BY LenProperties DEF Moves
<1>4. i <= m /\ m <= i
  BY <1>1, <1>2
<1>5. QED BY <1>1, <1>2, <1>3, <1>4

(* What the journals tell is what the rows show.                           *)
LEMMA LifeInRows ==
  TypeOK /\ BornOnce /\ FocusExplained /\ StatusExplained => RowsTellLife
<1> SUFFICES ASSUME TypeOK, BornOnce, FocusExplained, StatusExplained, alone
             PROVE  ReplayedStatus = RowStatus(life, row) /\ PickedNow = RowInSet(life, row)
  BY DEF RowsTellLife
<1>1. ASSUME NEW t \in Tasks, Live(t)
      PROVE  (CHOOSE s \in Status : ReplaysTo(journal[t], s)) = row[t].status
  <2>1. journal[t] \in Seq(Event) /\ row[t].status \in Status
    BY DEF TypeOK, Row
  <2>2. ReplaysTo(journal[t], row[t].status)
    BY <1>1 DEF StatusExplained, AgreeByConstruction
  <2>3. PICK z : z = CHOOSE s \in Status : ReplaysTo(journal[t], s)
    OBVIOUS
  <2>4. ReplaysTo(journal[t], z)
    BY <2>1, <2>2, <2>3
  <2>5. QED BY <2>1, <2>2, <2>3, <2>4, ReplaysToOne
<1>2. ASSUME NEW t \in Tasks
      PROVE  PickedIn(journal[t]) <=> Live(t) /\ row[t].focusedAt # 0
  <2>1. ~Live(t) => ~PickedIn(journal[t])
    BY DEF BornOnce, PickedIn
  <2>2. QED BY <2>1 DEF FocusExplained
<1>3. ReplayedStatus = RowStatus(life, row)
  BY <1>1 DEF ReplayedStatus, RowStatus, Live
<1>4. PickedNow = RowInSet(life, row)
  BY <1>2 DEF PickedNow, RowInSet, Live, PickedIn
<1>5. QED BY <1>3, <1>4

LEMMA LifeStep ==
  ASSUME TypeOK, CopyIsCurrent, RowsTellLife, RowsTellLife', [Next]_vars, alone
  PROVE  Life!Next \/ UNCHANGED Life!vars
<1>1. /\ ReplayedStatus = RowStatus(life, row)
      /\ ReplayedStatus' = RowStatus(life', row')
      /\ PickedNow = RowInSet(life, row)
      /\ PickedNow' = RowInSet(life', row')
  BY DEF RowsTellLife, Next, vars
<1>2. ASSUME NEW t \in Tasks, Create(t)
      PROVE  \E s \in Status : Life!Born(t, s)
  <2>1. PICK s \in Status, day \in BOOLEAN, time \in BOOLEAN :
          /\ life[t] = "unborn"
          /\ life' = [life EXCEPT ![t] = "live"]
          /\ row' = [row EXCEPT ![t] = NewRow(s, day, time)]
    BY <1>2 DEF Create
  <2>2. RowStatus(life', row') = [RowStatus(life, row) EXCEPT ![t] = s]
    BY <2>1 DEF RowStatus, NewRow, TypeOK
  <2>3. RowInSet(life', row') = RowInSet(life, row)
    BY <2>1 DEF RowInSet, NewRow, TypeOK
  <2>4. QED BY <1>1, <2>1, <2>2, <2>3 DEF Life!Born, PickedNow
<1>3. ASSUME NEW t \in Tasks, Delete(t)
      PROVE  Life!Forget(t)
  <2>1. /\ life[t] = "live"
        /\ life' = [life EXCEPT ![t] = "deleted"]
        /\ row' = row
    BY <1>3 DEF Delete, Live
  <2>2. RowStatus(life', row') = [RowStatus(life, row) EXCEPT ![t] = "pending"]
    BY <2>1 DEF RowStatus, TypeOK
  <2>3. RowInSet(life', row') = [RowInSet(life, row) EXCEPT ![t] = FALSE]
    BY <2>1 DEF RowInSet, TypeOK
  <2>4. QED BY <1>1, <2>1, <2>2, <2>3 DEF Life!Forget, PickedNow
<1>4. ASSUME life' = life, row' = row
      PROVE  UNCHANGED Life!vars
  BY <1>1, <1>4 DEF Life!vars, PickedNow
<1>5. ASSUME NEW r \in Requests, CommitPatch(r)
      PROVE  \/ \E t \in Tasks, s \in Status : Life!Move(t, s)
             \/ UNCHANGED Life!vars
  <2>1. PICK t \in Tasks, next \in Status \cup {"absent"} :
          /\ life[t] = "live"
          /\ life' = life
          /\ row' = [row EXCEPT ![t] = PatchedRow(row[t], row[t], req[r].body)]
          /\ next = req[r].body.status
    BY <1>5, RequestType DEF CommitPatch, CopyIsCurrent, Live
  <2>2. row[t] \in Row /\ row \in [Tasks -> Row] /\ row[t].status \in Status
    BY DEF TypeOK, Row
  <2>3. /\ row'[t].status = IF next = "absent" THEN row[t].status ELSE next
        /\ row'[t].focusedAt = IF LeavesFocus(row[t], next) THEN 0 ELSE row[t].focusedAt
        /\ \A u \in Tasks \ {t} : row'[u] = row[u]
    BY <2>1, <2>2 DEF PatchedRow
  <2>4. CASE next \in {"absent", row[t].status}
    <3>1. row'[t].status = row[t].status /\ row'[t].focusedAt = row[t].focusedAt
      BY <2>2, <2>3, <2>4 DEF LeavesFocus, Status
    <3>2. RowStatus(life', row') = RowStatus(life, row)
      BY <2>1, <2>3, <3>1 DEF RowStatus
    <3>3. RowInSet(life', row') = RowInSet(life, row)
      BY <2>1, <2>3, <3>1 DEF RowInSet
    <3>4. QED BY <1>1, <2>1, <3>2, <3>3 DEF Life!vars, PickedNow
  <2>5. CASE next \notin {"absent", row[t].status}
    <3>1. /\ row'[t].status = next /\ next \in Status
          /\ row'[t].focusedAt # 0 <=> row[t].focusedAt # 0 /\ next # "done"
      BY <2>1, <2>2, <2>3, <2>5 DEF LeavesFocus, Status
    <3>2. RowStatus(life', row') = [RowStatus(life, row) EXCEPT ![t] = next]
      <4>1. life' = life /\ life[t] = "live" /\ row'[t].status = next
        BY <2>1, <3>1
      <4>2. \A u \in Tasks \ {t} : row'[u] = row[u]
        BY <2>3
      <4>3. QED BY <4>1, <4>2 DEF RowStatus
    <3>3. next # RowStatus(life, row)[t]
      BY <2>1, <2>5 DEF RowStatus
    <3>4. PickedNow' = [PickedNow EXCEPT ![t] = PickedNow[t] /\ next # "done"]
      <4>1. RowInSet(life', row')
              = [RowInSet(life, row) EXCEPT ![t] = RowInSet(life, row)[t] /\ next # "done"]
        BY <2>1, <2>3, <3>1 DEF RowInSet
      <4>2. QED BY <1>1, <4>1
    <3>5. Life!Move(t, next)
      BY <1>1, <2>1, <3>2, <3>3, <3>4 DEF Life!Move, PickedNow
    <3>6. QED BY <3>1, <3>5
  <2>6. QED BY <2>4, <2>5
<1>6. ASSUME NEW r \in Requests, CommitFocus(r)
      PROVE  \E t \in Tasks : Life!Pick(t)
  <2>1. PICK t \in Tasks : t = req[r].task /\ life[t] = "live" /\ row[t].focusedAt = 0
    BY <1>6, RequestType DEF CommitFocus, CopyIsCurrent, Live
  <2>2. life' = life /\ clock + 1 # 0 /\ row' = [row EXCEPT ![t].focusedAt = clock + 1]
    BY <1>6, <2>1 DEF CommitFocus, TypeOK
  <2>3. RowStatus(life', row') = RowStatus(life, row)
    BY <2>1, <2>2 DEF RowStatus, TypeOK, Row
  <2>4. /\ RowInSet(life', row') = [RowInSet(life, row) EXCEPT ![t] = TRUE]
        /\ ~RowInSet(life, row)[t]
    BY <2>1, <2>2 DEF RowInSet, TypeOK, Row
  <2>5. QED BY <1>1, <2>1, <2>2, <2>3, <2>4 DEF Life!Pick, PickedNow
<1>7. ASSUME NEW r \in Requests, CommitUnfocus(r)
      PROVE  \E t \in Tasks : Life!Drop(t)
  <2>1. PICK t \in Tasks : t = req[r].task /\ life[t] = "live" /\ row[t].focusedAt # 0
    BY <1>7, RequestType DEF CommitUnfocus, CopyIsCurrent, Live
  <2>2. life' = life /\ row' = [row EXCEPT ![t].focusedAt = 0]
    BY <1>7, <2>1 DEF CommitUnfocus, TypeOK
  <2>3. RowStatus(life', row') = RowStatus(life, row)
    BY <2>1, <2>2 DEF RowStatus, TypeOK, Row
  <2>4. /\ RowInSet(life', row') = [RowInSet(life, row) EXCEPT ![t] = FALSE]
        /\ RowInSet(life, row)[t]
    BY <2>1, <2>2 DEF RowInSet, TypeOK, Row
  <2>5. QED BY <1>1, <2>1, <2>2, <2>3, <2>4 DEF Life!Drop, PickedNow
<1>8. ASSUME NEW r \in Requests, NEW t \in Tasks,
             \/ \E body \in PatchBodies : BeginPatch(r, t, body)
             \/ BeginFocus(r, t) \/ BeginUnfocus(r, t)
      PROVE  UNCHANGED Life!vars
  BY <1>4, <1>8 DEF BeginPatch, BeginFocus, BeginUnfocus
<1>9. ASSUME NEW r \in Requests, Rollback(r)
      PROVE  UNCHANGED Life!vars
  BY <1>4, <1>9 DEF Rollback
<1>10. CASE UNCHANGED vars
  BY <1>4, <1>10 DEF vars
<1>11. QED
  BY <1>2, <1>3, <1>5, <1>6, <1>7, <1>8, <1>9, <1>10 DEF Next, Life!Next

(* When requests wait for each other, the life that is replayed from the   *)
(* journal alone (birth, moves between statuses, the working set, the end) *)
(* is one TaskLife allows: no event repeats the status the task was in, no *)
(* task is picked twice or dropped twice, and finishing leaves the set.    *)
THEOREM JournalTellsLifeCorrect == Spec => JournalTellsLife
<1>1. Init => Life!Init
  <2> SUFFICES ASSUME Init PROVE Life!Init
    OBVIOUS
  <2>1. \A t \in Tasks : life[t] = "unborn" /\ journal[t] = <<>>
    BY DEF Init
  <2>2. ReplayedStatus = [t \in Tasks |-> "pending"]
    BY <2>1 DEF ReplayedStatus, Live
  <2>3. [t \in Tasks |-> PickedIn(journal[t])] = [t \in Tasks |-> FALSE]
    BY <2>1 DEF PickedIn
  <2>4. QED BY <2>2, <2>3 DEF Init, Life!Init
<1>2. TypeOK /\ CopyIsCurrent /\ RowsTellLife /\ RowsTellLife' /\ [Next]_vars
        => [alone => Life!Next \/ UNCHANGED Life!vars]_vars
  BY LifeStep
<1>3. Init => CopyIsCurrent
  BY DEF Init, CopyIsCurrent
<1>4. TypeOK /\ CopyIsCurrent /\ [Next]_vars => CopyIsCurrent'
  BY CopyIsCurrentStep
<1>5. QED
  BY <1>1, <1>2, <1>3, <1>4, LifeInRows, TypeCorrect, BornOnceCorrect, FocusExplainedCorrect,
     StatusExplainedCorrect, PTL DEF Spec, JournalTellsLife
=============================================================================
