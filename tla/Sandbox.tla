------------------------------ MODULE Sandbox ------------------------------
(***************************************************************************)
(* The sandbox of the server: backend/src/routes/inbox.ts and the unfile   *)
(* route of backend/src/routes/tasks.ts.                                   *)
(*                                                                         *)
(* A handler reads, awaits, and then writes in one statement or one        *)
(* transaction at READ COMMITTED, so several requests interleave between   *)
(* the two.  A statement that names a row by id fails when the row is gone *)
(* (Prisma's P2025) and takes its transaction with it.                     *)
(***************************************************************************)
EXTENDS Naturals

CONSTANTS
  Thoughts,  \* the lines people capture, each posted under its own key
  Requests,  \* requests that may be under way at once
  MaxRows,   \* bound: rows ever created
  MaxPosts,  \* bound: times the client posts one thought
  MaxEdits,  \* bound: edits of one thought
  None

ASSUME BoundsAssumption == MaxRows \in Nat /\ MaxPosts \in Nat /\ MaxEdits \in Nat
ASSUME NoneAssumption == None \notin [op : {"capture"}, thought : Thoughts, pc : {"create", "reread"}]
  /\ None \notin [op : {"file", "unfile"}, id : 1 .. MaxRows, text : 0 .. MaxEdits]
  /\ None \notin [kind : {"line", "task"}, thought : Thoughts, key : BOOLEAN, text : 0 .. MaxEdits]

VARIABLES
  row,       \* the rows of inbox_items and tasks, by id; None before and after
  nextId,    \* the id the next row gets
  req,       \* requests between their first read and their write
  posts,     \* how many times each thought was posted
  captured,  \* thoughts whose capture was answered with a row
  moved,     \* thoughts whose line has left the sandbox
  thrown,    \* thoughts a user deleted, as a line or as a task
  said,      \* the last text saved for each thought, as a version number
  alone      \* does every request wait for the one before it?  Fixed at Init

vars == <<row, nextId, req, posts, captured, moved, thrown, said, alone>>

Ids == 1 .. MaxRows
Row == [kind : {"line", "task"}, thought : Thoughts, key : BOOLEAN, text : 0 .. MaxEdits]
InFlight ==
  [op : {"capture"}, thought : Thoughts, pc : {"create", "reread"}]
    \cup [op : {"file", "unfile"}, id : Ids, text : 0 .. MaxEdits]

Exists(i) == row[i] # None
Is(i, kind) == Exists(i) /\ row[i].kind = kind
Of(k) == {i \in Ids : Exists(i) /\ row[i].thought = k}
Known(k) == \E i \in Of(k) : row[i].key

Init ==
  /\ row = [i \in Ids |-> None]
  /\ nextId = 1
  /\ req = [r \in Requests |-> None]
  /\ posts = [k \in Thoughts |-> 0]
  /\ captured = {} /\ moved = {} /\ thrown = {}
  /\ said = [k \in Thoughts |-> 0]
  /\ alone \in BOOLEAN

Free(r) == req[r] = None /\ (alone => \A s \in Requests : req[s] = None)
Doing(r, op) == req[r] # None /\ req[r].op = op
Starts(r, request) == Free(r) /\ req' = [req EXCEPT ![r] = request]
Ends(r) == req' = [req EXCEPT ![r] = None]

(* A new row beside the rows that are kept.                                *)
Insert(kept, new) ==
  /\ nextId \in Ids
  /\ row' = [kept EXCEPT ![nextId] = new]
  /\ nextId' = nextId + 1

Without(i) == [row EXCEPT ![i] = None]

-----------------------------------------------------------------------------
(* POST /inbox with a capture key.                                         *)

(* findUnique: a row with the key answers at once, as it stands.           *)
BeginCapture_Rewriting(r, k) ==
  /\ posts[k] < MaxPosts
  /\ posts' = [posts EXCEPT ![k] = @ + 1]
  /\ IF Known(k)
     THEN /\ Free(r)
          /\ row' = [i \in Ids |-> IF i \in Of(k) THEN [row[i] EXCEPT !.text = 0] ELSE row[i]]
          /\ captured' = captured \cup {k}
          /\ UNCHANGED req
     ELSE /\ Starts(r, [op |-> "capture", thought |-> k, pc |-> "create"])
          /\ UNCHANGED <<row, captured>>
  /\ UNCHANGED <<nextId, moved, thrown, said>>

BeginCapture(r, k) ==
  /\ posts[k] < MaxPosts
  /\ posts' = [posts EXCEPT ![k] = @ + 1]
  /\ IF Known(k)
     THEN Free(r) /\ captured' = captured \cup {k} /\ UNCHANGED req
     ELSE /\ Starts(r, [op |-> "capture", thought |-> k, pc |-> "create"])
          /\ UNCHANGED captured
  /\ UNCHANGED <<row, nextId, moved, thrown, said>>

NewLine(k) == [kind |-> "line", thought |-> k, key |-> TRUE, text |-> 0]

(* The create, with its unique index: the loser of two copies re-reads.    *)
(* labelSample may still fail after it: the row is there, the answer 500.  *)
CreateLine_Unindexed(r) ==
  /\ Doing(r, "capture") /\ req[r].pc = "create"
  /\ Insert(row, NewLine(req[r].thought))
  /\ captured' = captured \cup {req[r].thought}
  /\ Ends(r)
  /\ UNCHANGED <<posts, moved, thrown, said>>

CreateLine(r) ==
  /\ Doing(r, "capture") /\ req[r].pc = "create"
  /\ \/ /\ Known(req[r].thought)
        /\ req' = [req EXCEPT ![r].pc = "reread"]
        /\ UNCHANGED <<row, nextId, captured>>
     \/ /\ ~Known(req[r].thought)
        /\ Insert(row, NewLine(req[r].thought))
        /\ captured' = captured \cup {req[r].thought} \/ UNCHANGED captured
        /\ Ends(r)
  /\ UNCHANGED <<posts, moved, thrown, said>>

(* After P2002: answer with the row, or fail if it was filed meanwhile.    *)
Reread(r) ==
  /\ Doing(r, "capture") /\ req[r].pc = "reread"
  /\ captured' = IF Known(req[r].thought) THEN captured \cup {req[r].thought} ELSE captured
  /\ Ends(r)
  /\ UNCHANGED <<row, nextId, posts, moved, thrown, said>>

-----------------------------------------------------------------------------
(* POST /inbox/:id/file and POST /tasks/:id/unfile: the text is read       *)
(* before the transaction; the transaction creates the one row and deletes *)
(* the other.                                                              *)

BeginTransfer(r, i, op, kind) ==
  /\ Is(i, kind)
  /\ Starts(r, [op |-> op, id |-> i, text |-> row[i].text])
  /\ UNCHANGED <<row, nextId, posts, captured, moved, thrown, said>>

BeginFile(r, i) == BeginTransfer(r, i, "file", "line")
BeginUnfile(r, i) == BeginTransfer(r, i, "unfile", "task")

(* Neither the new task nor the new line carries the key.                  *)
Transfer(r, kind) ==
  /\ Exists(req[r].id)
  /\ LET k == row[req[r].id].thought
     IN /\ Insert(Without(req[r].id), [kind |-> kind, thought |-> k, key |-> FALSE, text |-> req[r].text])
        /\ moved' = moved \cup {k}
  /\ Ends(r)
  /\ UNCHANGED <<posts, captured, thrown, said>>

CommitFile_DeleteMany(r) ==
  /\ Doing(r, "file")
  /\ \E k \in Thoughts :
       /\ IF Exists(req[r].id) THEN row[req[r].id].thought = k ELSE k \in moved
       /\ Insert(Without(req[r].id), [kind |-> "task", thought |-> k, key |-> FALSE, text |-> req[r].text])
       /\ moved' = moved \cup {k}
  /\ Ends(r)
  /\ UNCHANGED <<posts, captured, thrown, said>>

CommitFile(r) == Doing(r, "file") /\ Transfer(r, "task")

CommitUnfile_TwoWrites(r) ==
  /\ Doing(r, "unfile")
  /\ \/ Transfer(r, "line")
     \/ /\ row' = Without(req[r].id)
        /\ Ends(r)
        /\ UNCHANGED <<nextId, posts, captured, moved, thrown, said>>

CommitUnfile(r) == Doing(r, "unfile") /\ Transfer(r, "line")

(* The transaction or statement fails, because the row is gone or for any  *)
(* reason of the database's own, or the server stops: nothing was written. *)
Abort(r) ==
  /\ req[r] # None
  /\ Ends(r)
  /\ UNCHANGED <<row, nextId, posts, captured, moved, thrown, said>>

-----------------------------------------------------------------------------
(* PATCH of a line or of a task's title: the text as sent, whatever was    *)
(* read.                                                                   *)
Edit(r, i) ==
  /\ Free(r) /\ Exists(i)
  /\ LET k == row[i].thought
     IN /\ said[k] < MaxEdits
        /\ said' = [said EXCEPT ![k] = @ + 1]
        /\ row' = [row EXCEPT ![i].text = said[k] + 1]
  /\ UNCHANGED <<nextId, req, posts, captured, moved, thrown>>

(* DELETE /inbox/:id and DELETE /tasks/:id.                                *)
Delete(r, i) ==
  /\ Free(r) /\ Exists(i)
  /\ row' = Without(i)
  /\ moved' = moved \cup {row[i].thought}
  /\ thrown' = thrown \cup {row[i].thought}
  /\ UNCHANGED <<nextId, req, posts, captured, said>>

Next ==
  UNCHANGED alone /\ \E r \in Requests :
    \/ \E k \in Thoughts : BeginCapture(r, k)
    \/ \E i \in Ids : BeginFile(r, i) \/ BeginUnfile(r, i) \/ Edit(r, i) \/ Delete(r, i)
    \/ CreateLine(r) \/ Reread(r) \/ CommitFile(r) \/ CommitUnfile(r) \/ Abort(r)

Spec == Init /\ [][Next]_vars

-----------------------------------------------------------------------------
TypeOK ==
  /\ row \in [Ids -> Row \cup {None}]
  /\ nextId \in 1 .. MaxRows + 1
  /\ req \in [Requests -> InFlight \cup {None}]
  /\ posts \in [Thoughts -> 0 .. MaxPosts]
  /\ captured \subseteq Thoughts /\ moved \subseteq Thoughts /\ thrown \subseteq Thoughts
  /\ said \in [Thoughts -> 0 .. MaxEdits]
  /\ alone \in BOOLEAN

(* A thought is in one place only: however filings, unfilings and copies   *)
(* of the capture overlap, no second row appears for it.  (Once its row    *)
(* has left the sandbox, a copy of the capture is taken for a new line.)   *)
OnePlace ==
  \A k \in Thoughts : posts[k] <= 1 \/ k \notin moved =>
    \A i, j \in Of(k) : i = j

(* A captured thought is a line or a task until a user throws it away.     *)
NothingLost == \A k \in captured : k \in thrown \/ Of(k) # {}

(* The row says what was last written: neither a filing nor a replayed     *)
(* capture puts an older text back, if requests wait for each other.       *)
LatestText ==
  alone => \A k \in Thoughts : posts[k] <= 1 \/ k \notin moved =>
    \A i \in Of(k) : row[i].text = said[k]

(* The sandbox implements ThoughtLife, until a copy of a capture arrives   *)
(* after its line has left.                                                *)
Place ==
  [k \in Thoughts |->
     IF Of(k) = {} THEN (IF k \in thrown THEN "thrown" ELSE "nowhere")
     ELSE IF \A i, j \in Of(k) : i = j THEN row[CHOOSE i \in Of(k) : TRUE].kind
     ELSE "twice"]

Thought == INSTANCE ThoughtLife WITH place <- Place

ThoughtKept ==
  /\ Thought!Init
  /\ [][(\A k \in Thoughts : posts[k] <= 1 \/ k \notin moved)' => Thought!Next \/ UNCHANGED Place]_vars
=============================================================================
