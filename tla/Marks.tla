-------------------------------- MODULE Marks --------------------------------
(***************************************************************************)
(* What a saved answer of the model leaves behind: the mark on the task,   *)
(* note or line it was saved into (domain/aiMark.ts), the label on the row *)
(* of the dataset that it came from (domain/dictationLink.ts), and the     *)
(* count the owner reads (domain/aiStats.ts), through every route that     *)
(* takes a dictationParseId (routes/tasks.ts, notes.ts, inbox.ts).         *)
(*                                                                         *)
(* A parse stands for its own answer, in whichever field it is saved, and  *)
(* as a source for the words it was made from with its kind.  A line has   *)
(* no title.  A transaction locks the rows it writes, but a mark is        *)
(* decided from a copy read before it, and a line is labelled after it.    *)
(***************************************************************************)
EXTENDS Naturals, FiniteSets

CONSTANTS
  Docs,    \* ids of tasks, notes and lines
  TypeOf,  \* which of the three each is of
  Parses,  \* rows of dictation_parses whose answers were sent
  Mixes,   \* the kinds that they may be of
  Bodies,  \* what clients send with a POST or a PATCH
  Saves,   \* how many requests the server may be serving at once
  MaxRequests,  \* bound: no more requests than this are begun
  Own,     \* any text the user writes
  Same,    \* a field that a PATCH leaves out
  Null     \* nothing: an empty field, an id that is not sent

Kinds == {"task", "task_tidy", "note", "sandbox"}
Texts == Parses \cup {Own}

ASSUME MarksAssumption ==
  /\ TypeOf \in [Docs -> {"task", "note", "line"}]
  /\ Mixes \subseteq [Parses -> Kinds]
  /\ Bodies \subseteq [p : Parses \cup {Null}, clear : BOOLEAN, title : Texts \cup {Same},
                       body : Texts \cup {Same, Null}]
  /\ Own \notin Parses /\ Null \notin Texts /\ Same \notin Texts \cup {Null}

VARIABLES
  begun,    \* how many requests were begun
  doc,      \* the three tables
  label,    \* taskId, noteId or inboxItemId and final* of each parse; {} while
            \* its linkedAt is null
  save,     \* the requests under way
  kind,     \* the kind of each parse; never changes
  first,    \* of each parse, its answer as the first save left it, or {}
  from,     \* of each document, the first answer it got since it was last plain
  touched,  \* has it been edited since the last answer?
  alone     \* is each request over before the next, and none cut off?  One
            \* device with a network sees to most of that; fixed at Init

vars == <<begun, doc, label, save, kind, first, from, touched, alone>>

Unborn == [at |-> "unborn"]
Gone == [at |-> "gone"]
Idle == [at |-> "idle"]

fields(row) == [title |-> row.title, body |-> row.body]
Plain(title, body) == [at |-> "kept", title |-> title, body |-> body, aiSource |-> Null, aiResult |-> Null]

Init ==
  /\ doc = [d \in Docs |-> Unborn] /\ label = [p \in Parses |-> {}]
  /\ save = [s \in Saves |-> Idle]
  /\ kind \in Mixes
  /\ first = [p \in Parses |-> {}]
  /\ from = [d \in Docs |-> Null] /\ touched = [d \in Docs |-> FALSE]
  /\ alone \in BOOLEAN /\ begun = 0

ToLabel(d, row, p) == [at |-> "unlabelled", d |-> d, row |-> row, p |-> p]
Turn ==
  /\ begun < MaxRequests /\ begun' = begun + 1
  /\ alone => \A s \in Saves : save[s] = Idle

-----------------------------------------------------------------------------
(* domain/aiMark.ts, domain/dictationLink.ts, domain/aiStats.ts            *)

Matches(p, kinds) == p # Null /\ kind[p] \in kinds

aiMarkFields_EachTime(row, p, kinds, currentSource, snapshot) ==
  IF ~Matches(p, kinds) THEN row ELSE [row EXCEPT !.aiSource = p, !.aiResult = snapshot]

aiMarkFields(row, p, kinds, currentSource, snapshot) ==
  IF ~Matches(p, kinds) THEN row
  ELSE IF currentSource = Null THEN [row EXCEPT !.aiSource = p, !.aiResult = snapshot]
  ELSE [row EXCEPT !.aiResult = snapshot]

aiClearData(row) == [row EXCEPT !.aiSource = Null, !.aiResult = Null]

(* The fields of a label that a save leaves out are null.                  *)
Final(d, title, description, content) ==
  [on |-> d, finalTitle |-> title, finalDescription |-> description, finalContent |-> content]

linkDictationParse_Again(p, kinds, final) ==
  IF Matches(p, kinds) THEN [label EXCEPT ![p] = {final}] ELSE label

linkDictationParse(p, kinds, final) ==
  IF Matches(p, kinds) /\ label[p] = {} THEN [label EXCEPT ![p] = {final}] ELSE label

(* onDelete: SetNull -- the label stays.                                   *)
Unlinked(lab, d) ==
  [p \in Parses |-> {[r EXCEPT !.on = IF r.on = d THEN Null ELSE r.on] : r \in lab[p]}]

edited_OneRule(p, r) == r.finalTitle # p \/ r.finalDescription # p

edited(p, r) ==
  CASE kind[p] = "note" -> r.finalContent # p
    [] kind[p] = "sandbox" /\ r.finalTitle = Null -> r.finalContent # p
    [] OTHER -> r.finalTitle # p \/ r.finalDescription # p

(* computeStats, for the parses that were answered.                        *)
savedEdited == {p \in Parses : \E r \in label[p] : edited(p, r)}
notSaved == {p \in Parses : label[p] = {}}
savedAsIs == Parses \ (savedEdited \cup notSaved)

(* What the properties remember of a save of p's answer into d.            *)
Remember(d, row, p, kinds) ==
  first' = IF Matches(p, kinds) /\ first[p] = {}
           THEN [first EXCEPT ![p] = {fields(row)}] ELSE first

-----------------------------------------------------------------------------
(* The routes.                                                             *)

(* The kinds that a POST takes, and a PATCH.                               *)
Makes(d) == CASE TypeOf[d] = "task" -> {"task", "sandbox", "task_tidy"}
              [] TypeOf[d] = "note" -> {"note"}
              [] TypeOf[d] = "line" -> {"sandbox"}

Takes(d) == IF TypeOf[d] = "task" THEN {"task_tidy", "note"} ELSE Makes(d)

Put(field, old) == IF field = Same THEN old ELSE field

(* A line has its text for a body, and one is required.                    *)
TitleOf(d, body, old) == IF TypeOf[d] = "line" THEN Null ELSE Put(body.title, old)
Allowed(d, body) == TypeOf[d] = "line" => body.body \in Texts

(* The label a document gives; of a `note' answer in a task it is the      *)
(* description alone.                                                      *)
FinalOf(d, row, p) ==
  CASE TypeOf[d] = "note" -> Final(d, row.title, Null, row.body)
    [] TypeOf[d] = "line" \/ (TypeOf[d] = "task" /\ Matches(p, {"note"})) -> Final(d, Null, Null, row.body)
    [] OTHER -> Final(d, row.title, row.body, Null)

(* POST of a task, a note or a line.  The first two are labelled in the    *)
(* transaction; a line is labelled next.                                   *)
Create(d, body) ==
  LET new == [title |-> TitleOf(d, body, Null), body |-> Put(body.body, Null)]
      row == aiMarkFields(Plain(new.title, new.body), body.p, Makes(d), Null, new)
  IN /\ Turn /\ doc[d] = Unborn /\ Allowed(d, body)
     /\ TypeOf[d] # "line" => body.title # Same
     /\ doc' = [doc EXCEPT ![d] = row]
     /\ from' = [from EXCEPT ![d] = row.aiSource]
     /\ Remember(d, row, body.p, Makes(d))
     /\ IF TypeOf[d] = "line"
        THEN label' = label /\ \E s \in Saves : save[s] = Idle /\ save' = [save EXCEPT ![s] = ToLabel(d, row, body.p)]
        ELSE label' = linkDictationParse(body.p, Makes(d), FinalOf(d, row, body.p)) /\ save' = save
     /\ UNCHANGED <<kind, touched, alone>>

(* labelSample.  The line may be gone by then, and its id no longer one.   *)
LabelLine(s) ==
  LET on == save[s] IN
  /\ on.at = "unlabelled"
  /\ label' = IF doc[on.d] = Gone THEN label
              ELSE linkDictationParse(on.p, {"sandbox"}, FinalOf(on.d, on.row, on.p))
  /\ save' = [save EXCEPT ![s] = Idle]
  /\ UNCHANGED <<begun, doc, kind, first, from, touched, alone>>

Read(s, d, body) ==
  /\ Turn /\ save[s] = Idle /\ doc[d].at = "kept" /\ Allowed(d, body)
  /\ save' = [save EXCEPT ![s] = [at |-> "read", d |-> d, body |-> body, before |-> doc[d]]]
  /\ UNCHANGED <<doc, label, kind, first, from, touched, alone>>

Changed(d, row, body) ==
  [row EXCEPT !.title = TitleOf(d, body, @), !.body = Put(body.body, @)]

snapshot_Before(on) == fields(on.before)

snapshot(on) == fields(Changed(on.d, on.before, on.body))

Write(s) ==
  LET on == save[s]
      d == on.d
      p == on.body.p
      now == Changed(d, doc[d], on.body)
      row == IF on.body.clear THEN aiClearData(now)
             ELSE aiMarkFields(now, p, Takes(d), on.before.aiSource, snapshot(on))
      answers == ~on.body.clear /\ Matches(p, Takes(d))
  IN /\ on.at = "read"
     /\ IF doc[d] = Gone
        THEN /\ save' = [save EXCEPT ![s] = Idle]
             /\ UNCHANGED <<doc, label, first, from, touched>>
        ELSE /\ doc' = [doc EXCEPT ![d] = row]
             /\ from' = [from EXCEPT ![d] = IF on.body.clear THEN Null
                                            ELSE IF answers /\ @ = Null THEN p ELSE @]
             /\ touched' = [touched EXCEPT ![d] = ~on.body.clear /\ ~answers]
             /\ Remember(d, row, p, Takes(d))
             /\ IF TypeOf[d] = "line"
                THEN label' = label /\ save' = [save EXCEPT ![s] = ToLabel(d, row, p)]
                ELSE /\ label' = linkDictationParse(p, Takes(d), FinalOf(d, row, p))
                     /\ save' = [save EXCEPT ![s] = Idle]
     /\ UNCHANGED <<begun, kind, alone>>

Delete(d) ==
  /\ Turn /\ doc[d].at = "kept"
  /\ doc' = [doc EXCEPT ![d] = Gone]
  /\ label' = Unlinked(label, d)
  /\ UNCHANGED <<save, kind, first, from, touched, alone>>

(* POST /inbox/:id/file: the line is read, split if the client has not     *)
(* shaped it, and becomes task t in a transaction that its absence undoes. *)
FileRead(s, l, t, p, parts) ==
  /\ Turn /\ save[s] = Idle /\ doc[l].at = "kept" /\ TypeOf[l] = "line" /\ TypeOf[t] = "task"
  /\ save' = [save EXCEPT ![s] =
       [at |-> "filing", d |-> l, to |-> t, p |-> p, parts |-> parts, before |-> doc[l]]]
  /\ UNCHANGED <<doc, label, kind, first, from, touched, alone>>

File(s) ==
  LET on == save[s]
      l == on.d
      t == on.to
      kinds == {"sandbox", "task_tidy"}
      marked == aiMarkFields(Plain(on.parts.title, on.parts.body), on.p, kinds, on.before.aiSource, on.parts)
      row == IF on.before.aiSource = Null THEN marked
             ELSE [marked EXCEPT !.aiSource = on.before.aiSource, !.aiResult = on.parts]
  IN /\ on.at = "filing"
     /\ save' = [save EXCEPT ![s] = Idle]
     /\ IF doc[l] = Gone \/ doc[t] # Unborn
        THEN UNCHANGED <<doc, label, first, from>>
        ELSE /\ doc' = [doc EXCEPT ![l] = Gone, ![t] = row]
             /\ label' = Unlinked(linkDictationParse(on.p, kinds, Final(t, row.title, row.body, Null)), l)
             /\ from' = [from EXCEPT ![t] = IF from[l] # Null THEN from[l]
                                            ELSE IF Matches(on.p, kinds) THEN on.p ELSE Null]
             /\ Remember(t, row, on.p, kinds)
     /\ UNCHANGED <<begun, kind, touched, alone>>

(* A request is cut off: the server stops, or the database does not answer.*)
Cut(s) ==
  /\ ~alone /\ save[s] # Idle
  /\ save' = [save EXCEPT ![s] = Idle]
  /\ UNCHANGED <<begun, doc, label, kind, first, from, touched, alone>>

Sent == Parses \cup {Null}

(* A shape of the client's, or the split of the line's text.               *)
Parts(p, text) == {[title |-> p, body |-> p], [title |-> p, body |-> Null], [title |-> text, body |-> text]}

Next ==
  \/ \E d \in Docs, b \in Bodies : Create(d, b) \/ \E s \in Saves : Read(s, d, b)
  \/ \E s \in Saves, l, t \in Docs, p \in Sent :
       doc[l].at = "kept" /\ \E x \in Parts(p, doc[l].body) : x.title # Null /\ FileRead(s, l, t, p, x)
  \/ \E s \in Saves : Write(s) \/ File(s) \/ LabelLine(s) \/ Cut(s)
  \/ \E d \in Docs : Delete(d)

Spec == Init /\ [][Next]_vars

-----------------------------------------------------------------------------
(* Properties.                                                             *)

Words == [title : Texts \cup {Null}, body : Texts \cup {Null}]

Row == [at : {"kept"}, title : Texts \cup {Null}, body : Texts \cup {Null},
        aiSource : Sent, aiResult : Words \cup {Null}]

TypeOK ==
  /\ begun \in Nat /\ alone \in BOOLEAN /\ kind \in Mixes
  /\ doc \in [Docs -> {Unborn, Gone} \cup Row]
  /\ \A d \in Docs : doc[d].at = "kept" => (TypeOf[d] = "line" <=> doc[d].title = Null)
  /\ save \in [Saves -> {Idle} \cup [at : {"unlabelled"}, d : Docs, row : Row, p : Sent]
                         \cup [at : {"read"}, d : Docs, body : Bodies, before : Row]
                         \cup [at : {"filing"}, d : Docs, to : Docs, p : Sent, parts : Words, before : Row]]
  /\ from \in [Docs -> Sent] /\ touched \in [Docs -> BOOLEAN]
  /\ first \in [Parses -> SUBSET Words]

(* "The first source is the one the user means" (domain/aiMark.ts): what   *)
(* "put the source back" gives is the words of the first answer since the  *)
(* document was last plain, through later answers, edits and filing, when  *)
(* requests do not overlap.                                                *)
FirstWords == alone => \A d \in Docs : doc[d].at = "kept" => doc[d].aiSource = from[d]

(* "Equal means as AI left it" (domain/aiMark.ts): a document that was not *)
(* edited since its last answer never shows as edited.                     *)
AsLeft ==
  alone => \A d \in Docs : doc[d].at = "kept" /\ doc[d].aiSource # Null /\ ~touched[d] =>
             doc[d].aiResult = fields(doc[d])

(* "The label is the first save of the answer" (domain/dictationLink.ts):  *)
(* an edit, a retry, a filing or a deletion, in any order and overlapping, *)
(* never changes what a replay is scored against.                          *)
Finals(r) == <<r.finalTitle, r.finalDescription, r.finalContent>>

LabelFrozen ==
  [][\A p \in Parses : \A r \in label[p] : \E q \in label'[p] : Finals(q) = Finals(r)]_vars

(* What the owner's statistics count (domain/aiStats.ts): an answer saved  *)
(* untouched, with corrections, or never.  A transaction counts right      *)
(* however requests overlap; a line, which is labelled after it is saved,  *)
(* when they do not.                                                       *)
Untouched(p) ==
  \E f \in first[p] : f.body = p /\ (kind[p] # "note" => f.title \in {p, Null})

CountedRight ==
  \A p \in Parses : \/ kind[p] = "sandbox" /\ (~alone \/ \E s \in Saves : save[s] # Idle)
                    \/ /\ p \in notSaved <=> first[p] = {}
                       /\ p \in savedAsIs <=> Untouched(p)
=============================================================================
