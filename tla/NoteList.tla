------------------------------- MODULE NoteList -------------------------------
(***************************************************************************)
(* One project's notes as an app shows them (project_providers.dart,       *)
(* ProjectNotes), read through the copy of the last answer that the device *)
(* keeps (read_cache_providers.dart), over the rows the server has         *)
(* (routes/notes.ts).  Unlike the writes of tasks, those of notes are not  *)
(* serialised and re-read nothing: each changes the list on screen, merges *)
(* the server's answer into what is there by then, or puts back what it    *)
(* found.  What another device writes is seen as a copy that is too old.    *)
(***************************************************************************)
EXTENDS Integers, Rows

CONSTANTS
  MaxNoteWrites,   \* bound: writes begun on this device
  None

Note == [id : Int, text : {"old", "ours"}]
NoteRead == [at : {"asked", "behind"}, found : Seq(Note) \cup {None},
             answer : Seq(Note) \cup {None}, crossed : BOOLEAN]
NoteWrite == [n : Nat, op : {"create", "edit", "remove"}, id : Int, previous : Seq(Note),
              wasCopy : BOOLEAN, at : {"sent", "handled"}, answer : Note \cup {None},
              crossed : BOOLEAN]

ASSUME NoteListAssumption ==
  None \notin Seq(Note) \cup Note \cup NoteRead \cup {"old", "ours"}

VARIABLES
  notes,      \* the server's rows
  copy,       \* the answer kept on the device
  shown,      \* ProjectNotes.state, or None
  isCopy,     \* is the list on screen the very list that was read from the copy?
  read,       \* the read under way: None, or its stage, the copy it found, and
              \* the server's answer
  noteWrites, \* the writes under way
  begun,      \* how many writes were begun
  settled,    \* per note that a write of this device settled since the list was
              \* read: its text, or None for one that was removed
  upset       \* was a write that overlapped another, or a read of the list,
              \* undone, or the list read by a read that overlapped a write?

noteVars == <<notes, copy, shown, isCopy, read, noteWrites, begun,
              settled, upset>>

-----------------------------------------------------------------------------
(* Reading (readThroughCache): the network first, then the copy, and the    *)
(* late answer behind it.                                                   *)

ReadNotes ==
  /\ read = None
  /\ read' = [at |-> "asked", found |-> copy, answer |-> None,
              crossed |-> noteWrites # {}]
  /\ isCopy' = FALSE
  /\ noteWrites' = {[w EXCEPT !.wasCopy = FALSE, !.crossed = TRUE] : w \in noteWrites}
  /\ UNCHANGED <<notes, copy, shown, begun, settled, upset>>

AnswerNotes ==
  /\ read # None /\ read.answer = None
  /\ read' = [read EXCEPT !.answer = notes]
  /\ UNCHANGED <<notes, copy, shown, isCopy, noteWrites, begun, settled, upset>>

\* The list is built anew: what was settled on the old one counts no more, and
\* a write under way has had its list taken away.
Built(rows, fromCopy) ==
  /\ shown' = rows /\ isCopy' = fromCopy
  /\ settled' = <<>>
  /\ upset' = (upset \/ read.crossed)

\* In time: the answer is shown and kept.
NotesArrive ==
  /\ read # None /\ read.at = "asked" /\ read.answer # None
  /\ Built(read.answer, FALSE) /\ copy' = read.answer /\ read' = None
  /\ UNCHANGED <<notes, noteWrites, begun>>

NotesFail ==
  /\ read # None /\ read.at = "asked"
  /\ IF read.found = None THEN UNCHANGED <<shown, isCopy, settled, upset>>
                          ELSE Built(read.found, TRUE)
  /\ read' = None
  /\ UNCHANGED <<notes, copy, noteWrites, begun>>

\* After readCacheGrace the copy is shown, and the answer is still awaited.
GraceOver ==
  /\ read # None /\ read.at = "asked" /\ read.found # None
  /\ Built(read.found, TRUE)
  /\ read' = [read EXCEPT !.at = "behind"]
  /\ UNCHANGED <<notes, copy, noteWrites, begun>>

\* onLateFresh: the answer is kept, and shown unless the copy has been edited.
onLateFresh_Always(fresh) == fresh
onLateFresh(fresh) == IF isCopy THEN fresh ELSE shown

LateNotes ==
  /\ read # None /\ read.at = "behind" /\ read.answer # None
  /\ shown' = onLateFresh(read.answer)
  /\ isCopy' = FALSE /\ copy' = read.answer /\ read' = None
  /\ UNCHANGED <<notes, noteWrites, begun, settled, upset>>

LateFails ==
  /\ read # None /\ read.at = "behind" /\ read' = None
  /\ UNCHANGED <<notes, copy, shown, isCopy, noteWrites, begun, settled, upset>>

-----------------------------------------------------------------------------
(* Writing.  The row of a create has an id of the device's own at first.    *)

Placeholder(n) == -n

Changed(w) ==
  CASE w.op = "create" -> Append(shown, [id |-> w.id, text |-> "ours"])
    [] w.op = "edit"   -> [shown EXCEPT ![AtOf(shown, w.id)].text = "ours"]
    [] w.op = "remove" -> Without(shown, w.id)

BeginNote(op, id) ==
  /\ shown # None /\ begun < MaxNoteWrites
  /\ LET w == [n |-> begun + 1, op |-> op, id |-> id, previous |-> shown,
               wasCopy |-> isCopy, at |-> "sent", answer |-> None,
               crossed |-> noteWrites # {} \/ (read # None /\ read.at = "asked")]
     IN /\ noteWrites' = {[v EXCEPT !.crossed = TRUE] : v \in noteWrites} \cup {w}
        /\ shown' = Changed(w)
  /\ isCopy' = FALSE /\ begun' = begun + 1
  /\ read' = IF read = None THEN read ELSE [read EXCEPT !.crossed = TRUE]
  /\ UNCHANGED <<notes, copy, settled, upset>>

CreateNote == BeginNote("create", Placeholder(begun + 1))
EditNote(r) == r.text # "ours" /\ BeginNote("edit", r.id)
RemoveNote(r) == BeginNote("remove", r.id)

\* The server: a request that names a row that is gone is refused.
HandleNote(w) ==
  /\ w.at = "sent"
  /\ LET at == AtOf(notes, w.id)
         made == [id |-> 2 + w.n, text |-> "ours"] IN
     /\ w.op # "create" => at # 0
     /\ notes' = CASE w.op = "create" -> Append(notes, made)
                   [] w.op = "edit"   -> [notes EXCEPT ![at].text = "ours"]
                   [] w.op = "remove" -> Without(notes, w.id)
     /\ noteWrites' = (noteWrites \ {w}) \cup
          {[w EXCEPT !.at = "handled",
                     !.answer = IF w.op = "create" THEN made ELSE [id |-> w.id, text |-> "ours"]]}
  /\ UNCHANGED <<copy, shown, isCopy, read, begun, settled, upset>>

\* The answer, merged into the list that is on screen by now.
Merged(w) ==
  IF w.op = "remove" THEN shown
  ELSE [i \in DOMAIN shown |-> IF shown[i].id = w.id THEN w.answer ELSE shown[i]]

SettledAs(note, text) ==
  [id \in DOMAIN settled \cup {note} |-> IF id = note THEN text ELSE settled[id]]

SettleNote(w) ==
  /\ w.at = "handled"
  /\ shown' = Merged(w)
  /\ isCopy' = (isCopy /\ (w.op = "remove" \/ (w.op = "edit" /\ AtOf(shown, w.id) = 0)))
  /\ settled' = IF w.op = "remove" THEN SettledAs(w.id, None)
                ELSE IF w.answer.id \in DOMAIN settled THEN settled
                ELSE SettledAs(w.answer.id, w.answer.text)
  /\ noteWrites' = noteWrites \ {w}
  /\ UNCHANGED <<notes, copy, read, begun, upset>>

\* The request or its answer is lost, or the request is refused.
FailNote(w) ==
  /\ shown' = w.previous /\ isCopy' = w.wasCopy
  /\ upset' = (upset \/ w.crossed)
  /\ noteWrites' = noteWrites \ {w}
  /\ UNCHANGED <<notes, copy, read, begun, settled>>

-----------------------------------------------------------------------------
NotesInit ==
  /\ notes = <<[id |-> 1, text |-> "old"], [id |-> 2, text |-> "old"]>>
  /\ copy \in {None, <<[id |-> 1, text |-> "old"]>>, notes}
  /\ shown = None /\ isCopy = FALSE
  /\ read = [at |-> "asked", found |-> copy, answer |-> None, crossed |-> FALSE]
  /\ noteWrites = {} /\ begun = 0
  /\ settled = <<>> /\ upset = FALSE

NotesNext ==
  \/ ReadNotes \/ AnswerNotes \/ NotesArrive \/ NotesFail
  \/ GraceOver \/ LateNotes \/ LateFails
  \/ CreateNote
  \/ shown # None /\ \E i \in DOMAIN shown : EditNote(shown[i]) \/ RemoveNote(shown[i])
  \/ \E w \in noteWrites : HandleNote(w) \/ SettleNote(w) \/ FailNote(w)

-----------------------------------------------------------------------------
(* Properties.                                                             *)

\* Every variable has its type, and there is a list on screen to write to.
NotesTypeOK ==
  /\ notes \in Seq(Note) /\ copy \in Seq(Note) \cup {None}
  /\ shown \in Seq(Note) \cup {None} /\ isCopy \in BOOLEAN
  /\ read \in NoteRead \cup {None}
  /\ noteWrites \in SUBSET NoteWrite /\ begun \in Nat
  /\ DOMAIN settled \in SUBSET Int /\ \A id \in DOMAIN settled : settled[id] \in {"old", "ours", None}
  /\ upset \in BOOLEAN
  /\ noteWrites # {} => shown # None
  /\ \A w \in noteWrites : w.at = "handled" => w.answer # None

TextIn(s, id) == LET at == AtOf(s, id) IN IF at = 0 THEN None ELSE s[at].text

\* What the server has answered is settled stays so on screen until the list
\* is read again, whatever other writes and a late answer behind the copy do:
\* an edited note keeps its text, a removed one does not come back.  Only the
\* undoing of a write that overlapped another one breaks it: it puts back the
\* list from before both.
NotesKept ==
  ~upset /\ noteWrites = {} =>
    \A id \in DOMAIN settled : TextIn(shown, id) = settled[id]
=============================================================================
