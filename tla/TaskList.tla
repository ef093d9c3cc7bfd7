------------------------------- MODULE TaskList -------------------------------
(***************************************************************************)
(* One project's tasks as an app shows them (project_providers.dart,       *)
(* ProjectTasks), their row of the board (board_providers.dart, Board) and *)
(* the rows the server keeps (routes/tasks.ts, routes/board.ts,            *)
(* domain/isCurrent.ts).  A write is shown at once, sent, settled on what  *)
(* the server says and undone if it failed; both lists may be re-read at   *)
(* any time, and the screen of the project may be left and opened again.   *)
(*                                                                         *)
(* The writes of a screen are serialised (_enqueue) and one is planned     *)
(* when its turn comes, so that waiting for it is the same as asking for   *)
(* it then.  How a move picks a position is TaskOrder's: to this list a    *)
(* move is a write that is re-read, like a removal.                        *)
(***************************************************************************)
EXTENDS Rows

CONSTANTS
  MaxWrites,  \* bound: writes begun
  Null,       \* nothing loaded, nothing under way
  Asked       \* a re-read that the server has not handled

Statuses == {"pending", "done"}   \* "blocked" is to a list what "done" is
Texts == {"first", "second"}
Local == 0              \* the id of a row the server has not named yet

Row == [id : Nat \ {Local}, status : Statuses, text : Texts]
Task == [id : Nat, status : Statuses, text : Texts, isCurrent : BOOLEAN]

Write == [op : {"create", "status", "text", "remove"}, id : Nat,
          to : Statuses \cup Texts \cup {Null}, previous : Seq(Task), lacked : BOOLEAN,
          at : {"sent", "handled", "answered"}, answer : Seq(Row) \cup {Null}]

ASSUME TaskListAssumption ==
  /\ MaxWrites \in Nat
  /\ Null \notin Seq(Row) \cup Seq(Task) \cup Write
  /\ Asked \notin Seq(Row) \cup {Null}

VARIABLES
  rows,     \* the server's rows, in the order of their positions
  made,     \* how many tasks were made
  list,     \* ProjectTasks.state, or Null while nothing is loaded
  shut,     \* is the project's screen closed?
  reading,  \* the re-read of the list under way: Null, Asked or its answer
  board,    \* the tasks of this project in Board.state
  boarding, \* the re-read of the board under way
  write,    \* the write under way
  writes,   \* how many writes were begun
  missed,   \* which of "list" and "board" lacks something that the server did:
            \* no answer was heard, or an older one was put in its place
  apart     \* does nothing overlap a write: no re-read, no leaving the screen?
            \* Fixed at Init

taskVars == <<rows, made, list, shut, reading, board, boarding, write, writes,
              missed, apart>>

-----------------------------------------------------------------------------
(* The server.                                                             *)

\* domain/isCurrent.ts: the first pending row is the current one.
annotateIsCurrent(s) ==
  LET first == SelectInSeq(s, LAMBDA r : r.status = "pending")
  IN [i \in DOMAIN s |-> [id |-> s[i].id, status |-> s[i].status,
                          text |-> s[i].text, isCurrent |-> i = first]]

\* What a request leaves of the rows.  One that names a row that is gone is
\* refused.
Refused(w) == w.op # "create" /\ AtOf(rows, w.id) = 0
Handled(w) ==
  LET at == AtOf(rows, w.id) IN
  CASE w.op = "create" -> Append(rows, [id |-> made + 1, status |-> "pending", text |-> "first"])
    [] w.op = "status" -> [rows EXCEPT ![at].status = w.to]
    [] w.op = "text"   -> [rows EXCEPT ![at].text = w.to]
    [] w.op = "remove" -> Without(rows, w.id)

ServerHandles ==
  /\ ~Refused(write)
  /\ rows' = Handled(write)
  /\ made' = IF write.op = "create" THEN made + 1 ELSE made

-----------------------------------------------------------------------------
(* Re-reading the list, and the board.                                     *)

\* Who shows an answer that was read before the server's last write misses it.
Told(who, answer) == IF answer = rows THEN missed \ who ELSE missed \cup who

ReadList ==
  /\ ~shut /\ (apart => write = Null)
  /\ reading' = Asked
  /\ UNCHANGED <<rows, made, list, shut, board, boarding, write, writes, missed, apart>>

AnswerList ==
  /\ reading = Asked /\ reading' = rows
  /\ UNCHANGED <<rows, made, list, shut, board, boarding, write, writes, missed, apart>>

ListArrives ==
  /\ reading \notin {Null, Asked}
  /\ list' = annotateIsCurrent(reading) /\ reading' = Null
  /\ missed' = Told({"list"}, reading)
  /\ UNCHANGED <<rows, made, shut, board, boarding, write, writes, apart>>

\* The list that is on screen stays there behind an error.
ListFails ==
  /\ reading # Null /\ reading' = Null
  /\ UNCHANGED <<rows, made, list, shut, board, boarding, write, writes, missed, apart>>

ReadBoard ==
  /\ apart => write = Null
  /\ boarding' = Asked
  /\ UNCHANGED <<rows, made, list, shut, reading, board, write, writes, missed, apart>>

AnswerBoard ==
  /\ boarding = Asked /\ boarding' = rows
  /\ UNCHANGED <<rows, made, list, shut, reading, board, write, writes, missed, apart>>

BoardArrives ==
  /\ boarding \notin {Null, Asked}
  /\ board' = annotateIsCurrent(boarding) /\ boarding' = Null
  /\ missed' = Told({"board"}, boarding)
  /\ UNCHANGED <<rows, made, list, shut, reading, write, writes, apart>>

BoardFails ==
  /\ boarding # Null /\ boarding' = Null
  /\ UNCHANGED <<rows, made, list, shut, reading, board, write, writes, missed, apart>>

\* Opening the screen reads the list; leaving it forgets the list, and nobody
\* hears what becomes of the write under way, nor tells the board.  A request
\* that the server has not handled is handled or lost before anything else
\* happens: handled later it is no different from one of another device.
Open ==
  /\ shut /\ shut' = FALSE /\ reading' = Asked
  /\ UNCHANGED <<rows, made, list, board, boarding, write, writes, missed, apart>>

Leave ==
  /\ ~shut /\ (apart => write = Null)
  /\ \/ UNCHANGED <<rows, made>>
     \/ write # Null /\ write.at = "sent" /\ ServerHandles
  /\ shut' = TRUE /\ list' = Null /\ reading' = Null /\ write' = Null
  /\ missed' = IF write = Null \/ (write.at = "sent" /\ rows' = rows)
               THEN missed ELSE missed \cup {"board"}
  /\ UNCHANGED <<board, boarding, writes, apart>>

-----------------------------------------------------------------------------
(* Writing (_mutate): the prediction, the request, the settled list.       *)

\* What is shown before the server has said anything.  A row that is not
\* pending is not the current one; which row becomes current is not guessed.
Weakened_Keeps(r, s) == [r EXCEPT !.status = s]
Weakened(r, s) == [r EXCEPT !.status = s, !.isCurrent = @ /\ s = "pending"]

Predicted(op, id, to) ==
  LET at == AtOf(list, id) IN
  CASE op = "create" -> Append(list, [id |-> Local, status |-> "pending",
                                      text |-> "first", isCurrent |-> FALSE])
    [] op = "status" -> [list EXCEPT ![at] = Weakened(@, to)]
    [] op = "text"   -> [list EXCEPT ![at].text = to]
    [] op = "remove" -> Without(list, id)

Begin(op, id, to) ==
  /\ list # Null /\ write = Null /\ writes < MaxWrites
  /\ apart => reading = Null /\ boarding = Null
  /\ write' = [op |-> op, id |-> id, to |-> to, previous |-> list,
               lacked |-> "list" \in missed, at |-> "sent", answer |-> Null]
  /\ list' = Predicted(op, id, to)
  /\ writes' = writes + 1
  /\ UNCHANGED <<rows, made, shut, reading, board, boarding, missed, apart>>

Create == Begin("create", Local, "first")

SetStatus(i) ==
  /\ list[i].id # Local
  /\ \E s \in Statuses \ {list[i].status} : Begin("status", list[i].id, s)

EditText(i) ==
  /\ list[i].id # Local
  /\ \E t \in Texts \ {list[i].text} : Begin("text", list[i].id, t)

RemoveTask(i) ==
  /\ list[i].id # Local
  /\ Begin("remove", list[i].id, Null)

\* The server handles the request.  A text edit is answered with the row, and
\* everything else is followed by a re-read of the list.
Handle ==
  /\ write # Null /\ write.at = "sent" /\ ServerHandles
  /\ write' = IF write.op = "text"
              THEN [write EXCEPT !.at = "answered", !.answer = <<rows'[AtOf(rows, write.id)]>>]
              ELSE [write EXCEPT !.at = "handled"]
  /\ UNCHANGED <<list, shut, reading, board, boarding, writes, missed, apart>>

Reconcile ==
  /\ write # Null /\ write.at = "handled"
  /\ write' = [write EXCEPT !.at = "answered", !.answer = rows]
  /\ UNCHANGED <<rows, made, list, shut, reading, board, boarding, writes, missed, apart>>

\* mergeMutatedTask: everything is the server's but isCurrent.
mergeMutatedTask(known, saved) ==
  [known EXCEPT !.status = saved.status, !.text = saved.text]

Settled ==
  LET at == AtOf(list, write.id) IN
  IF write.op # "text" THEN annotateIsCurrent(write.answer)
  ELSE IF at = 0 THEN list
  ELSE [list EXCEPT ![at] = mergeMutatedTask(@, write.answer[1])]

\* applyProjectTasks: the list is put into the board, which is read anew when
\* there is none in memory.
applyProjectTasks(tasks) ==
  IF board = Null THEN boarding' = Asked /\ UNCHANGED board
                  ELSE board' = tasks /\ UNCHANGED boarding

Settle ==
  /\ write # Null /\ write.at = "answered"
  /\ list' = Settled
  /\ applyProjectTasks(Settled)
  /\ LET shown == IF board = Null THEN {"list"} ELSE {"list", "board"} IN
     missed' = IF write.op # "text" THEN Told(shown, write.answer)
               ELSE IF "list" \in missed THEN missed \cup shown ELSE missed \ shown
  /\ write' = Null
  /\ UNCHANGED <<rows, made, shut, reading, writes, apart>>

\* The request is lost or refused, its answer is lost, or the re-read after it
\* fails: the list is put back as it was, with what it lacked then.
Restored_Kept == list
Restored == write.previous

Fail ==
  /\ write # Null
  /\ list' = Restored /\ write' = Null
  /\ missed' = IF write.at # "sent" THEN {"list", "board"}
               ELSE IF write.lacked THEN missed \cup {"list"} ELSE missed \ {"list"}
  /\ UNCHANGED <<rows, made, shut, reading, board, boarding, writes, apart>>

-----------------------------------------------------------------------------
TasksInit ==
  /\ \E s, t \in Statuses :
       rows = <<[id |-> 1, status |-> s, text |-> "first"],
                [id |-> 2, status |-> t, text |-> "first"]>>
  /\ made = 2 /\ list = Null /\ shut = TRUE /\ reading = Null
  /\ board = Null /\ boarding = Asked
  /\ write = Null /\ writes = 0 /\ missed = {}
  /\ apart \in BOOLEAN

TasksNext ==
  \/ ReadList \/ AnswerList \/ ListArrives \/ ListFails
  \/ ReadBoard \/ AnswerBoard \/ BoardArrives \/ BoardFails
  \/ Open \/ Leave \/ Create
  \/ list # Null /\ \E i \in DOMAIN list : SetStatus(i) \/ EditText(i) \/ RemoveTask(i)
  \/ Handle \/ Reconcile \/ Settle \/ Fail

-----------------------------------------------------------------------------
(* Properties.                                                             *)

\* Every variable has its type; a status or a text is written as one, a text
\* edit is answered at once, and a list that is written to is on screen.
TasksTypeOK ==
  /\ rows \in Seq(Row) /\ made \in Nat
  /\ list \in Seq(Task) \cup {Null} /\ shut \in BOOLEAN
  /\ reading \in Seq(Row) \cup {Null, Asked}
  /\ board \in Seq(Task) \cup {Null} /\ boarding \in Seq(Row) \cup {Null, Asked}
  /\ write \in Write \cup {Null} /\ writes \in Nat
  /\ missed \in SUBSET {"list", "board"} /\ apart \in BOOLEAN
  /\ write # Null =>
       /\ list # Null
       /\ write.op = "status" => write.to \in Statuses
       /\ write.op = "text" => write.to \in Texts /\ write.at # "handled"
       /\ write.at = "answered" =>
            write.answer # Null /\ (write.op = "text" => Len(write.answer) = 1)

Current(s) == {i \in DOMAIN s : s[i].isCurrent}

\* The list that is on screen and the board's row highlight at most one task,
\* and never one that is done or blocked: through predictions, answers that
\* were computed by different routes, late re-reads and rollbacks.  The one
\* exception is a list that missed what a request did whose answer was lost: it
\* keeps the highlight of a row that a rename then shows as done.
CurrentRight ==
  /\ "list" \notin missed /\ list # Null =>
       \A i, j \in Current(list) : i = j /\ list[i].status = "pending"
  /\ "board" \notin missed /\ board # Null =>
       \A i, j \in Current(board) : i = j /\ board[i].status = "pending"

Quiet == write = Null /\ reading = Null /\ boarding = Null

\* When nothing is under way, the list and the board's row are what the server
\* has, highlight included, though a text edit re-reads nothing and the board
\* is never asked again after a write: the list is put into it.  A write that
\* failed has left no trace.  Re-reads and a screen left in the middle of a
\* write are what breaks it (apart).
InStep ==
  apart /\ Quiet =>
    /\ list # Null /\ "list" \notin missed => list = annotateIsCurrent(rows)
    /\ board # Null /\ "board" \notin missed => board = annotateIsCurrent(rows)
=============================================================================
