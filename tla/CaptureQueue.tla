---------------------------- MODULE CaptureQueue ----------------------------
(***************************************************************************)
(* The offline capture queue of the client: CaptureQueue                   *)
(* (app/lib/providers/capture_queue_providers.dart) over                   *)
(* CaptureQueueStore (app/lib/storage/capture_queue_store.dart), flushed   *)
(* by CaptureFlushScope, against POST /inbox, which creates at most one    *)
(* row per capture key (Sandbox models that handler in detail).            *)
(*                                                                         *)
(* The client runs on one isolate: a method is atomic between two awaits.  *)
(* capture, discard and _flush each read the queue, write a file in two    *)
(* awaited steps (a sibling, then a rename) and only then publish.         *)
(***************************************************************************)
EXTENDS Naturals, Sequences, SequencesExt

CONSTANTS
  Lines,        \* the lines the user types, each with its own capture key
  MaxMishaps,   \* bound: lost answers, refusals, failed writes and crashes,
                \* for each value of serialised
  None

ASSUME ConstantsAssumption == MaxMishaps \in [BOOLEAN -> Nat]

VARIABLES
  running,   \* is the app's process alive, with its queue loaded?
  mem,       \* state.value: the queue on the screen, oldest first
  disk,      \* the queue in the file
  tmp,       \* the queue in the sibling `.tmp', or None
  edit,      \* capture and discard calls under way, by line
  flush,     \* the pass of the flush chain that is running
  stat,      \* what the user was told of each line
  rows,      \* keys of the rows in the server's sandbox
  created,   \* how many times the server created a row for each line
  late,      \* requests the client gave up on and the network still holds
  filed,     \* lines whose row was ever filed or deleted
  refused,   \* lines the server ever refused
  mishaps,   \* how much has gone wrong so far
  serialised \* does no read-modify-write of the queue overlap another?
             \* Nothing in the code sees to it; fixed at Init

client == <<running, mem, disk, tmp, edit, flush, stat>>
server == <<rows, created, late, filed>>
world == <<client, server, refused, mishaps>>
vars == <<world, serialised>>

Queue == Seq(Lines)
Edit == [op : {"capture", "discard"}, pc : {"write", "rename", "publish"}, queue : Queue]
Pass == [pc : {"idle", "send", "merge", "write", "rename", "publish"}, todo : Queue,
         sent : SUBSET Lines, refused : SUBSET Lines, left : Queue]

ASSUME NoneAssumption == None \notin Edit

NoFlush == [pc |-> "idle", todo |-> <<>>, sent |-> {}, refused |-> {}, left |-> <<>>]

Init ==
  /\ running = TRUE
  /\ mem = <<>> /\ disk = <<>> /\ tmp = None
  /\ edit = [l \in Lines |-> None]
  /\ flush = NoFlush
  /\ stat = [l \in Lines |-> "new"]
  /\ rows = {} /\ filed = {} /\ refused = {}
  /\ created = [l \in Lines |-> 0]
  /\ late = [l \in Lines |-> 0]
  /\ mishaps = 0
  /\ serialised \in BOOLEAN

Mishap == mishaps < MaxMishaps[serialised] /\ mishaps' = mishaps + 1

(* The queue less these lines, in its order.                               *)
Without(queue, lines) ==
  LET kept == {i \in DOMAIN queue : queue[i] \notin lines}
      place == CHOOSE f \in UNION {[1 .. n -> kept] : n \in 0 .. Len(queue)} :
                 /\ \A i, k \in DOMAIN f : i < k => f[i] < f[k]
                 /\ \A i \in kept : \E k \in DOMAIN f : f[k] = i
  IN [k \in DOMAIN place |-> queue[place[k]]]

(* Nobody is between reading the queue and publishing it.                  *)
Quiet ==
  /\ \A l \in Lines : edit[l] = None
  /\ flush.pc \notin {"write", "rename", "publish"}

MayReadQueue == running /\ (serialised => Quiet)

-----------------------------------------------------------------------------
(* capture and discard: read the queue, write the file, publish.           *)

BeginEdit(l, op, queue) ==
  /\ MayReadQueue
  /\ edit[l] = None
  /\ edit' = [edit EXCEPT ![l] = [op |-> op, pc |-> "write", queue |-> queue]]
  /\ UNCHANGED <<running, mem, disk, tmp, flush, server, refused, mishaps>>

Capture_Replacing(l) ==
  /\ stat[l] = "new"
  /\ BeginEdit(l, "capture", <<l>>)
  /\ UNCHANGED stat

Capture(l) ==
  /\ stat[l] = "new"
  /\ BeginEdit(l, "capture", Append(mem, l))
  /\ UNCHANGED stat

Discard(l) ==
  /\ Contains(mem, l)
  /\ BeginEdit(l, "discard", Without(mem, {l}))
  /\ stat' = [stat EXCEPT ![l] = "discarded"]

(* CaptureQueueStore.write, first half: the sibling.                       *)
WriteEdit(l) ==
  /\ edit[l] # None /\ edit[l].pc = "write"
  /\ tmp' = edit[l].queue
  /\ edit' = [edit EXCEPT ![l].pc = "rename"]
  /\ UNCHANGED <<running, mem, disk, flush, stat, server, refused, mishaps>>

(* Second half: the sibling replaces the file.                             *)
RenameEdit(l) ==
  /\ edit[l] # None /\ edit[l].pc = "rename" /\ tmp # None
  /\ disk' = tmp
  /\ tmp' = None
  /\ edit' = [edit EXCEPT ![l].pc = "publish"]
  /\ UNCHANGED <<running, mem, flush, stat, server, refused, mishaps>>

PublishEdit(l) ==
  /\ edit[l] # None /\ edit[l].pc = "publish"
  /\ mem' = edit[l].queue
  /\ edit' = [edit EXCEPT ![l] = None]
  /\ stat' = IF edit[l].op = "capture" THEN [stat EXCEPT ![l] = "captured"] ELSE stat
  /\ UNCHANGED <<running, disk, tmp, flush, server, refused, mishaps>>

(* The failure swallowed, as that of a pass is.                            *)
FailEdit_Swallowed(l) ==
  /\ edit[l] # None
  /\ \/ edit[l].pc = "write" /\ Mishap
     \/ edit[l].pc = "rename" /\ tmp = None /\ UNCHANGED mishaps
  /\ edit' = [edit EXCEPT ![l] = None]
  /\ mem' = edit[l].queue
  /\ UNCHANGED <<running, disk, tmp, flush, stat, server, refused>>

(* The write throws: the disk refuses, or another rename took the sibling. *)
(* The caller tells the user; a capture leaves the text in the field, so   *)
(* the line may be captured again, and a discard leaves the line.          *)
FailEdit(l) ==
  /\ edit[l] # None
  /\ \/ edit[l].pc = "write" /\ Mishap
     \/ edit[l].pc = "rename" /\ tmp = None /\ UNCHANGED mishaps
  /\ edit' = [edit EXCEPT ![l] = None]
  /\ stat' = IF edit[l].op = "discard" THEN [stat EXCEPT ![l] = "captured"] ELSE stat
  /\ UNCHANGED <<running, mem, disk, tmp, flush, server, refused>>

-----------------------------------------------------------------------------
(* POST /inbox.                                                            *)

(* The key is unique: a replay finds the row there and creates nothing.    *)
Upsert(l) ==
  /\ rows' = rows \cup {l}
  /\ created' = [created EXCEPT ![l] = IF l \in rows THEN @ ELSE @ + 1]

(* A request whose caller has long given up reaches the server.            *)
ArriveLate(l) ==
  /\ late[l] > 0
  /\ late' = [late EXCEPT ![l] = @ - 1]
  /\ Upsert(l)
  /\ UNCHANGED <<client, filed, refused, mishaps>>

(* The user files or deletes the row, on this device or another: a key     *)
(* lives as long as its row.                                               *)
RemoveRow(l) ==
  /\ l \in rows
  /\ rows' = rows \ {l}
  /\ filed' = filed \cup {l}
  /\ UNCHANGED <<client, created, late, refused, mishaps>>

-----------------------------------------------------------------------------
(* _flush: one pass over the queue as it stood when the pass began.        *)

(* Passes are chained, so one runs at a time; capture, resume, the 30 s    *)
(* timer and pull-to-refresh all start them.                               *)
StartFlush ==
  /\ running /\ flush.pc = "idle" /\ mem # <<>>
  /\ flush' = [NoFlush EXCEPT !.pc = "send", !.todo = mem]
  /\ UNCHANGED <<running, mem, disk, tmp, edit, stat, server, refused, mishaps>>

(* After the last line, or at a break: nothing happened, or reconcile.     *)
AfterLoop(f) == IF f.sent = {} /\ f.refused = {} THEN NoFlush ELSE [f EXCEPT !.pc = "merge"]

AfterLine(f) ==
  LET rest == [f EXCEPT !.todo = Tail(@)]
  IN IF rest.todo = <<>> THEN AfterLoop(rest) ELSE rest

Sending(l) == running /\ flush.pc = "send" /\ l = Head(flush.todo)

(* 200 or 201, and the answer arrives.                                     *)
Acknowledge(l) ==
  /\ Sending(l)
  /\ Upsert(l)
  /\ flush' = AfterLine([flush EXCEPT !.sent = @ \cup {l}])
  /\ UNCHANGED <<running, mem, disk, tmp, edit, stat, late, filed, refused, mishaps>>

(* The server answers no, before creating the row or (labelSample failed)  *)
(* after it.  The line is kept and marked; the pass goes on.               *)
Refuse_Dropping(l) ==
  /\ Sending(l)
  /\ Mishap
  /\ UNCHANGED <<rows, created>>
  /\ flush' = AfterLine([flush EXCEPT !.sent = @ \cup {l}])
  /\ refused' = refused \cup {l}
  /\ UNCHANGED <<running, mem, disk, tmp, edit, stat, late, filed>>

Refuse(l) ==
  /\ Sending(l)
  /\ Mishap
  /\ Upsert(l) \/ UNCHANGED <<rows, created>>
  /\ flush' = AfterLine([flush EXCEPT !.refused = @ \cup {l}])
  /\ refused' = refused \cup {l}
  /\ UNCHANGED <<running, mem, disk, tmp, edit, stat, late, filed>>

(* No answer (NetworkException), or a 401 that ends the session.  The      *)
(* request was lost, or took effect and its answer was lost, or is still   *)
(* under way; the pass stops there.                                        *)
Lose_GoingOn(l) ==
  /\ Sending(l)
  /\ Mishap
  /\ flush' = AfterLine(flush)
  /\ UNCHANGED <<server, running, mem, disk, tmp, edit, stat, refused>>

Lose(l) ==
  /\ Sending(l)
  /\ Mishap
  /\ \/ UNCHANGED <<rows, created, late>>
     \/ Upsert(l) /\ UNCHANGED late
     \/ late' = [late EXCEPT ![l] = @ + 1] /\ UNCHANGED <<rows, created>>
  /\ flush' = AfterLoop(flush)
  /\ UNCHANGED <<running, mem, disk, tmp, edit, stat, filed, refused>>

(* Reconcile with the queue as it stands now.  Only if something was sent  *)
(* is the file written; otherwise the marks are published at once.         *)
Merge ==
  /\ running /\ flush.pc = "merge" /\ MayReadQueue
  /\ LET left == Without(mem, flush.sent)
     IN IF flush.sent = {}
        THEN mem' = left /\ flush' = NoFlush
        ELSE flush' = [flush EXCEPT !.pc = "write", !.left = left] /\ UNCHANGED mem
  /\ UNCHANGED <<running, disk, tmp, edit, stat, server, refused, mishaps>>

WriteFlush ==
  /\ running /\ flush.pc = "write"
  /\ tmp' = flush.left
  /\ flush' = [flush EXCEPT !.pc = "rename"]
  /\ UNCHANGED <<running, mem, disk, edit, stat, server, refused, mishaps>>

RenameFlush ==
  /\ running /\ flush.pc = "rename" /\ tmp # None
  /\ disk' = tmp
  /\ tmp' = None
  /\ flush' = [flush EXCEPT !.pc = "publish"]
  /\ UNCHANGED <<running, mem, edit, stat, server, refused, mishaps>>

(* The file could not be shortened: swallowed, a stale file stays behind.  *)
FailFlushWrite ==
  /\ running
  /\ \/ flush.pc = "write" /\ Mishap
     \/ flush.pc = "rename" /\ tmp = None /\ UNCHANGED mishaps
  /\ flush' = [flush EXCEPT !.pc = "publish"]
  /\ UNCHANGED <<running, mem, disk, tmp, edit, stat, server, refused>>

PublishFlush ==
  /\ running /\ flush.pc = "publish"
  /\ mem' = flush.left
  /\ flush' = NoFlush
  /\ UNCHANGED <<running, disk, tmp, edit, stat, server, refused, mishaps>>

-----------------------------------------------------------------------------
(* The process dies; what it was sending may be under way.  A line whose   *)
(* capture had not returned was never promised, but may be in the file; a  *)
(* discard that has not changed the file has not happened.                 *)
Crash ==
  /\ running /\ Mishap
  /\ running' = FALSE
  /\ mem' = <<>>
  /\ edit' = [l \in Lines |-> None]
  /\ flush' = NoFlush
  /\ IF flush.pc = "send"
     THEN late' = [late EXCEPT ![Head(flush.todo)] = @ + 1] \/ UNCHANGED late
     ELSE UNCHANGED late
  /\ stat' = [l \in Lines |->
                IF edit[l] # None /\ stat[l] = "discarded" /\ Contains(disk, l) THEN "captured" ELSE stat[l]]
  /\ UNCHANGED <<disk, tmp, rows, created, filed, refused>>

(* The next launch reads the file; a line found there counts as captured.  *)
Restart_Empty ==
  /\ ~running
  /\ running' = TRUE
  /\ mem' = <<>>
  /\ UNCHANGED <<disk, tmp, edit, flush, stat, server, refused, mishaps>>

Restart ==
  /\ ~running
  /\ running' = TRUE
  /\ mem' = disk
  /\ stat' = [l \in Lines |->
                IF Contains(disk, l) /\ stat[l] = "new" THEN "captured" ELSE stat[l]]
  /\ UNCHANGED <<disk, tmp, edit, flush, server, refused, mishaps>>

Next ==
  /\ UNCHANGED serialised
  /\ \/ \E l \in Lines :
          \/ Capture(l) \/ Discard(l)
          \/ WriteEdit(l) \/ RenameEdit(l) \/ PublishEdit(l) \/ FailEdit(l)
          \/ Acknowledge(l) \/ Refuse(l) \/ Lose(l)
          \/ ArriveLate(l) \/ RemoveRow(l)
     \/ StartFlush \/ Merge \/ WriteFlush \/ RenameFlush \/ FailFlushWrite \/ PublishFlush
     \/ Crash \/ Restart

(* A started method runs on to its end, the timer keeps starting passes    *)
(* while something is unsent, and an app that died is opened again.  What  *)
(* the user does, and what goes wrong, is nobody's duty.                   *)
Fairness ==
  /\ WF_world(StartFlush) /\ WF_world(Merge) /\ WF_world(Restart)
  /\ WF_world(WriteFlush) /\ WF_world(RenameFlush \/ FailFlushWrite) /\ WF_world(PublishFlush)
  /\ \A l \in Lines :
       /\ WF_world(Acknowledge(l))
       /\ WF_world(WriteEdit(l)) /\ WF_world(RenameEdit(l) \/ FailEdit(l)) /\ WF_world(PublishEdit(l))

Spec == Init /\ [][Next]_vars
FairSpec == Spec /\ Fairness

-----------------------------------------------------------------------------
TypeOK ==
  /\ running \in BOOLEAN
  /\ mem \in Queue /\ disk \in Queue /\ tmp \in Queue \cup {None}
  /\ edit \in [Lines -> Edit \cup {None}]
  /\ flush \in Pass
  /\ stat \in [Lines -> {"new", "captured", "discarded"}]
  /\ rows \subseteq Lines /\ filed \subseteq Lines /\ refused \subseteq Lines
  /\ created \in [Lines -> Nat] /\ late \in [Lines -> Nat]
  /\ serialised \in BOOLEAN /\ mishaps \in 0 .. MaxMishaps[serialised]

(* A line whose capture returned is in the file or has reached the server, *)
(* until the user throws it away: crashes, refusals, lost answers and      *)
(* failed writes lose nothing.  Taken at its word ("the exact failure this *)
(* whole feature exists to prevent"), and while no two read-modify-writes  *)
(* of the queue overlap.                                                   *)
NeverDropped ==
  \A l \in Lines : stat[l] = "captured" => Contains(disk, l) \/ created[l] > 0

Kept == serialised => NeverDropped

(* A line that was thrown away comes back neither to the screen nor to the *)
(* file (discard, "Forgets a line that has not been sent yet"): not with   *)
(* the end of a pass that carried it, nor with a stale file after a crash. *)
(* A discard that fails or is cut off before the file changes has left the *)
(* line where it was.  Two edits that overlap may bring it back.           *)
GoneForGood ==
  serialised => \A l \in Lines :
    stat[l] = "discarded" /\ edit[l] = None => ~ Contains(mem, l) /\ ~ Contains(disk, l)

(* The queue drains oldest first: a line may overtake an older one of the  *)
(* queue only if the server refused the older one.  Two edits that overlap *)
(* may bring back a line that younger ones have overtaken by then.         *)
OldestFirst ==
  serialised => \A i, k \in DOMAIN mem :
    i < k /\ created[mem[k]] > 0 => created[mem[i]] > 0 \/ mem[i] \in refused

(* Every captured line reaches the server or is thrown away, once things   *)
(* stop going wrong.                                                       *)
Drained ==
  \A l \in Lines :
    serialised /\ stat[l] = "captured" ~> created[l] > 0 \/ stat[l] = "discarded"

(* CaptureQueue keeps CapturePromise.                                      *)
Place ==
  [l \in Lines |->
     CASE created[l] > 0      -> "server"
       [] created[l] = 0 /\ Contains(disk, l) -> "device"
       [] OTHER               -> IF stat[l] = "discarded" THEN "dropped" ELSE "nowhere"]

Promise == INSTANCE CapturePromise WITH place <- Place

PromiseKept == Promise!Init /\ [][serialised => Promise!Next \/ UNCHANGED Place]_vars
=============================================================================
