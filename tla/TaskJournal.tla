---------------------------- MODULE TaskJournal ----------------------------
(***************************************************************************)
(* The write path of one task on the server: POST, PATCH and DELETE of a   *)
(* task (routes/tasks.ts), the working set (routes/focus.ts), and the      *)
(* journal of task_events both of them append to (domain/taskEvents.ts).   *)
(*                                                                         *)
(* Every handler first reads the row (getTaskOrThrow) and decides what to  *)
(* write from that copy; only the write and its journal rows share a       *)
(* transaction.  PostgreSQL runs it at READ COMMITTED and the row lock     *)
(* makes the transaction atomic for this task, but nothing ties it to the  *)
(* copy: between the two steps of one request any other may commit.        *)
(***************************************************************************)
EXTENDS Naturals, Sequences

CONSTANTS
  Tasks,        \* ids of tasks; an id (a cuid) is never used again
  Requests,     \* how many requests the server may be serving at once
  PatchBodies,  \* the PATCH bodies clients send
  MaxJournal,   \* bound: a task with this many events gets no new request
  Idle          \* a request slot that serves nothing

Status == {"pending", "done", "blocked"}

(* A field of a PATCH body: left out, null, or a value.                    *)
Field == {"absent", "null", "value"}

Body == [status : Status \cup {"absent"}, remindAt : Field, remindTime : Field]

(* focusedAt is the tick of the clock at which the task was picked, 0 when *)
(* it is not in the working set; of the reminder only its presence counts. *)
Row == [status : Status, focusedAt : Nat, remindAt : BOOLEAN, remindTime : BOOLEAN]

Event == [kind : {"created", "status", "focused", "unfocused"},
          from : Status \cup {"none"},
          to   : Status \cup {"none"}]

InFlight == [op : {"patch"}, task : Tasks, body : PatchBodies, before : Row]
            \cup [op : {"focus", "unfocus"}, task : Tasks]

ASSUME ConstantsAssumption ==
  /\ PatchBodies \subseteq Body
  /\ MaxJournal \in Nat
  /\ Idle \notin InFlight

VARIABLES
  life,     \* what became of each id: "unborn", "live" or "deleted"
  row,      \* the tasks table: the row of each live task
  journal,  \* task_events of each live task, in the order they were written
  req,      \* the requests past their read and before their transaction
  clock,    \* the last value given to a focusedAt
  alone     \* does every request wait for the one before it?  The client's
            \* queue of writes sees to that, for one device; fixed at Init

vars == <<life, row, journal, req, clock, alone>>

NewRow(s, day, time) ==
  [status |-> s, focusedAt |-> 0, remindAt |-> day, remindTime |-> day /\ time]

Init ==
  /\ life = [t \in Tasks |-> "unborn"]
  /\ row = [t \in Tasks |-> NewRow("pending", FALSE, FALSE)]
  /\ journal = [t \in Tasks |-> <<>>]
  /\ req = [r \in Requests |-> Idle]
  /\ clock = 0
  /\ alone \in BOOLEAN

-----------------------------------------------------------------------------
(* domain/taskEvents.ts                                                    *)

StatusEvent(from, to) == [kind |-> "status", from |-> from, to |-> to]
BareEvent(kind) == [kind |-> kind, from |-> "none", to |-> "none"]

(* planStatusChange: the status that did not change records nothing, and   *)
(* finishing a task that was in the working set takes it out.              *)
LeavesFocus(before, next) ==
  next = "done" /\ before.status # "done" /\ before.focusedAt # 0

MovementEvents_ExitUnrecorded(before, next) ==
  IF next \in {"absent", before.status} THEN <<>>
  ELSE <<StatusEvent(before.status, next)>>

MovementEvents_BlockedIgnored(before, next) ==
  IF next \in {"absent", "blocked", before.status} THEN <<>>
  ELSE IF LeavesFocus(before, next)
  THEN <<StatusEvent(before.status, next), BareEvent("unfocused")>>
  ELSE <<StatusEvent(before.status, next)>>

MovementEvents(before, next) ==
  IF next \in {"absent", before.status} THEN <<>>
  ELSE IF LeavesFocus(before, next)
  THEN <<StatusEvent(before.status, next), BareEvent("unfocused")>>
  ELSE <<StatusEvent(before.status, next)>>

(* The 400 of PATCH: a time of day for a task left without a date.         *)

TimeWithoutDate(before, body) ==
  /\ body.remindTime = "value"
  /\ body.remindAt = "absent"
  /\ ~before.remindAt

(* The row as the transaction of PATCH leaves it: the columns the body     *)
(* names, whatever their present value, and focusedAt by the old copy.     *)
PatchedRow(now, before, body) ==
  [status     |-> IF body.status = "absent" THEN now.status ELSE body.status,
   focusedAt  |-> IF LeavesFocus(before, body.status) THEN 0 ELSE now.focusedAt,
   remindAt   |-> IF body.remindAt = "absent" THEN now.remindAt
                  ELSE body.remindAt = "value",
   remindTime |-> CASE body.remindAt = "null"     -> FALSE
                    [] body.remindAt # "null"
                       /\ body.remindTime = "absent" -> now.remindTime
                    [] OTHER                      -> body.remindTime = "value"]

-----------------------------------------------------------------------------
(* The handlers.                                                           *)

Live(t) == life[t] = "live"

(* A slot is free and the task is there, with room in the bounded journal. *)
Admit(r, t) ==
  /\ req[r] = Idle
  /\ alone => \A s \in Requests : req[s] = Idle
  /\ Live(t) /\ Len(journal[t]) < MaxJournal

(* POST /projects/:projectId/tasks: the row and its `created' event in one *)
(* transaction; nobody else knows the id yet, so this is a single step.    *)
Create(t) ==
  /\ life[t] = "unborn"
  /\ life' = [life EXCEPT ![t] = "live"]
  /\ \E s \in Status, day, time \in BOOLEAN :
       /\ row' = [row EXCEPT ![t] = NewRow(s, day, time)]
       /\ journal' = [journal EXCEPT ![t] = <<[kind |-> "created", from |-> "none", to |-> s]>>]
  /\ UNCHANGED <<req, clock>>

(* PATCH /tasks/:id up to its transaction: the row is read, the refusals   *)
(* are decided.  A refused request changes nothing and is left out.        *)
BeginPatch(r, t, body) ==
  /\ Admit(r, t)
  /\ ~TimeWithoutDate(row[t], body)
  /\ req' = [req EXCEPT ![r] = [op |-> "patch", task |-> t, body |-> body, before |-> row[t]]]
  /\ UNCHANGED <<life, row, journal, clock>>

(* The transaction of PATCH.  `update' fails on a row deleted meanwhile.   *)
CommitPatch(r) ==
  /\ req[r] # Idle /\ req[r].op = "patch"
  /\ LET t == req[r].task
         before == req[r].before
         body == req[r].body
     IN /\ Live(t)
        /\ row' = [row EXCEPT ![t] = PatchedRow(@, before, body)]
        /\ journal' = [journal EXCEPT ![t] = @ \o MovementEvents(before, body.status)]
  /\ req' = [req EXCEPT ![r] = Idle]
  /\ UNCHANGED <<life, clock>>

(* POST /tasks/:id/focus: a task already in the set is answered at once.   *)
BeginFocus(r, t) ==
  /\ Admit(r, t)
  /\ row[t].focusedAt = 0
  /\ req' = [req EXCEPT ![r] = [op |-> "focus", task |-> t]]
  /\ UNCHANGED <<life, row, journal, clock>>

CommitFocus(r) ==
  /\ req[r] # Idle /\ req[r].op = "focus" /\ Live(req[r].task)
  /\ clock' = clock + 1
  /\ row' = [row EXCEPT ![req[r].task].focusedAt = clock']
  /\ journal' = [journal EXCEPT ![req[r].task] = @ \o <<BareEvent("focused")>>]
  /\ req' = [req EXCEPT ![r] = Idle]
  /\ UNCHANGED life

(* DELETE /tasks/:id/focus: the mirror image.                              *)

BeginUnfocus(r, t) ==
  /\ Admit(r, t)
  /\ row[t].focusedAt # 0
  /\ req' = [req EXCEPT ![r] = [op |-> "unfocus", task |-> t]]
  /\ UNCHANGED <<life, row, journal, clock>>

CommitUnfocus(r) ==
  /\ req[r] # Idle /\ req[r].op = "unfocus" /\ Live(req[r].task)
  /\ row' = [row EXCEPT ![req[r].task].focusedAt = 0]
  /\ journal' = [journal EXCEPT ![req[r].task] = @ \o <<BareEvent("unfocused")>>]
  /\ req' = [req EXCEPT ![r] = Idle]
  /\ UNCHANGED <<life, clock>>

(* DELETE /tasks/:id, and the delete inside POST /tasks/:id/unfile: the    *)
(* journal goes with the row (onDelete: Cascade).                          *)
Delete(t) ==
  /\ Live(t)
  /\ life' = [life EXCEPT ![t] = "deleted"]
  /\ journal' = [journal EXCEPT ![t] = <<>>]
  /\ UNCHANGED <<row, req, clock>>

(* A transaction that does not commit: the row is gone (P2025), the        *)
(* database refused or timed out, or the process died.  All of it is       *)
(* rolled back and the request is over.                                    *)
Rollback(r) ==
  /\ req[r] # Idle
  /\ req' = [req EXCEPT ![r] = Idle]
  /\ UNCHANGED <<life, row, journal, clock>>

Next ==
  /\ UNCHANGED alone
  /\ \/ \E t \in Tasks : Create(t) \/ Delete(t)
     \/ \E r \in Requests, t \in Tasks :
          \/ \E body \in PatchBodies : BeginPatch(r, t, body)
          \/ BeginFocus(r, t)
          \/ BeginUnfocus(r, t)
     \/ \E r \in Requests :
          CommitPatch(r) \/ CommitFocus(r) \/ CommitUnfocus(r) \/ Rollback(r)

Spec == Init /\ [][Next]_vars

-----------------------------------------------------------------------------
(* Reading a journal.                                                      *)

Moves(j) == {i \in DOMAIN j : j[i].kind \in {"created", "status"}}

(* replayStatusTime: the status of the interval that is still open.        *)
ReplaysTo(j, s) == \E i \in Moves(j) : j[i].to = s /\ \A k \in Moves(j) : k <= i

(* The last focus event of the journal, if any, is `focused'.              *)
PickedIn(j) ==
  \E i \in DOMAIN j :
    /\ j[i].kind = "focused"
    /\ \A k \in DOMAIN j : k > i => j[k].kind # "unfocused"

-----------------------------------------------------------------------------
(* Properties that hold however requests interleave.                       *)

TypeOK ==
  /\ life \in [Tasks -> {"unborn", "live", "deleted"}]
  /\ row \in [Tasks -> Row]
  /\ journal \in [Tasks -> Seq(Event)]
  /\ req \in [Requests -> InFlight \cup {Idle}]
  /\ clock \in Nat
  /\ alone \in BOOLEAN

(* A live task can be placed in time: its journal opens with its one       *)
(* `created' event.  A deleted task leaves no events behind.               *)
BornOnce ==
  \A t \in Tasks :
    IF Live(t)
    THEN /\ Len(journal[t]) > 0
         /\ \A i \in DOMAIN journal[t] : journal[t][i].kind = "created" <=> i = 1
    ELSE journal[t] = <<>>

(* The journal explains the working set: a task is in the set exactly when *)
(* the last focus event of its journal put it there.  Every writer of      *)
(* focusedAt writes its event too, also one that decided on an old copy.   *)
FocusExplained ==
  \A t \in Tasks : Live(t) => (row[t].focusedAt # 0 <=> PickedIn(journal[t]))

-----------------------------------------------------------------------------
(* Properties of requests that wait for each other.  Each of them fails    *)
(* when two requests overlap: a handler decides on an old copy.            *)

(* "The journal's final status and the task row's agree by construction"   *)
(* (domain/history.ts, replayStatusTime): taken at its word, and for       *)
(* requests that do not overlap.                                           *)
AgreeByConstruction ==
  \A t \in Tasks : Live(t) => ReplaysTo(journal[t], row[t].status)

StatusExplained == alone => AgreeByConstruction

(* "Finishing a task takes it out of the working set"                      *)
(* (domain/taskEvents.ts).                                                 *)
FinishLeavesSet ==
  [][\A t \in Tasks :
       alone /\ Live(t) /\ Live(t)' /\ row[t].status # "done" /\ row[t].status' = "done"
         => row[t].focusedAt' = 0]_vars

(* The journal alone tells the life of a task: what is replayed from it    *)
(* behaves as TaskLife says, whatever the row holds: it is born once, no   *)
(* event repeats the status it was in, and finishing leaves the set.       *)
ReplayedStatus ==
  [t \in Tasks |->
     IF Live(t) THEN CHOOSE s \in Status : ReplaysTo(journal[t], s) ELSE "pending"]

Life == INSTANCE TaskLife
          WITH status <- ReplayedStatus, inSet <- [t \in Tasks |-> PickedIn(journal[t])]

JournalTellsLife == Life!Init /\ [][alone => Life!Next \/ UNCHANGED Life!vars]_vars
=============================================================================
