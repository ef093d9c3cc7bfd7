------------------------------- MODULE Parses -------------------------------
(***************************************************************************)
(* A parse from the request to the row of the dataset (routes/dictation.ts,*)
(* domain/parsePipeline.ts), and the owner's edits of the level blocks     *)
(* that its prompt is built from (domain/aiLevels.ts,                      *)
(* domain/promptOverrides.ts, routes/dictationInsights.ts).                *)
(*                                                                         *)
(* The edits live in one row of app_settings and are mirrored in the       *)
(* memory of the process, read by the first parse and set by each edit.    *)
(* Nothing locks the row or the mirror.  Which model is asked, and what a  *)
(* failure costs it, is in ModelRouter; what its reply becomes, in Replies.*)
(***************************************************************************)
EXTENDS Replies

CONSTANTS
  Levels,    \* AI_LEVEL_MIN..AI_LEVEL_MAX
  Wordings,  \* what the owner may write as a block
  Default,   \* the block of the code, LEVEL_RULES
  Parses,    \* requests for a parse; each is made once
  Edits,     \* requests of the owner that may overlap
  Asks,      \* the kinds that each of them may be of
  Inputs,    \* what a request of each kind may say
  Replied    \* what a model may reply to each kind

Blocks == [Levels -> Wordings \cup {Default}]
AllDefault == [l \in Levels |-> Default]
Kinds == {"task", "task_tidy", "note", "sandbox"}

ASSUME ParsesAssumption ==
  /\ Default \notin Wordings
  /\ Asks \in [Parses -> SUBSET Kinds]
  /\ DOMAIN Inputs = Kinds /\ DOMAIN Replied = Kinds
  /\ \A k \in Kinds : \A raw \in Replied[k] :
       raw.title \cup raw.text \cup raw.description \subseteq Seq(STRING)

VARIABLES
  stored,   \* the row of app_settings; AllDefault when there is none
  mirror,   \* `overrides' in the memory of the process
  loaded,   \* the promise of ensurePromptOverridesLoaded: null, pending, resolved
  load,     \* the read of the row under way, if any
  edit,     \* the owner's requests under way
  parse,    \* the parses
  dataset,  \* the row kept of each, {} for none
  was,      \* every value the row has had
  orderly   \* does an edit wait for loads and edits, and they for it?  One
            \* owner with one screen sees to most of that; fixed at Init

parsesVars == <<stored, mirror, loaded, load, edit, parse, dataset, was, orderly>>

NoLoad == [at |-> "idle", copy |-> AllDefault]
NoEdit == NoLoad
New == [at |-> "new"]

ParsesInit ==
  /\ stored = AllDefault /\ mirror = AllDefault /\ was = {AllDefault}
  /\ loaded = "null" /\ load = NoLoad
  /\ edit = [e \in Edits |-> NoEdit]
  /\ parse = [p \in Parses |-> New]
  /\ dataset = [p \in Parses |-> {}]
  /\ orderly \in BOOLEAN

NoEdits == \A e \in Edits : edit[e].at = "idle"
Over == [at |-> "over"]

-----------------------------------------------------------------------------
(* domain/promptOverrides.ts                                               *)

LoadRead ==
  /\ load.at = "asked"
  /\ load' = [at |-> "read", copy |-> stored]
  /\ UNCHANGED <<stored, mirror, loaded, edit, parse, dataset, was, orderly>>

(* The promise that parses wait for is settled, whatever `loaded' is now.  *)
Released == [p \in Parses |-> IF parse[p].at = "waiting"
                              THEN [parse[p] EXCEPT !.at = "admitted"] ELSE parse[p]]

LoadArrives ==
  /\ load.at = "read"
  /\ mirror' = load.copy
  /\ loaded' = IF loaded = "pending" THEN "resolved" ELSE loaded
  /\ load' = NoLoad
  /\ parse' = Released
  /\ UNCHANGED <<stored, edit, dataset, was, orderly>>

(* "A failure means the defaults", and the next parse tries again.         *)
LoadFails_Unheard ==
  /\ load.at = "asked"
  /\ loaded' = "null" /\ load' = NoLoad
  /\ UNCHANGED <<stored, mirror, edit, parse, dataset, was, orderly>>

LoadFails ==
  /\ load.at = "asked"
  /\ loaded' = "null" /\ load' = NoLoad
  /\ parse' = Released
  /\ UNCHANGED <<stored, mirror, edit, dataset, was, orderly>>

(* writeLevelOverride: the row is read, changed and written whole; then    *)
(* the mirror is set.  A rule equal to Default stands for null.            *)
EditRead(e, l, rules) ==
  /\ edit[e].at = "idle"
  /\ orderly => NoEdits /\ load.at = "idle"
  /\ edit' = [edit EXCEPT ![e] = [at |-> "read", copy |-> [stored EXCEPT ![l] = rules]]]
  /\ UNCHANGED <<stored, mirror, loaded, load, parse, dataset, was, orderly>>

EditWrites(e) ==
  /\ edit[e].at = "read"
  /\ stored' = edit[e].copy /\ was' = was \cup {stored'}
  /\ edit' = [edit EXCEPT ![e].at = "written"]
  /\ UNCHANGED <<mirror, loaded, load, parse, dataset, orderly>>

EditFails_Mirrored(e) ==
  /\ edit[e].at = "read"
  /\ mirror' = edit[e].copy
  /\ edit' = [edit EXCEPT ![e] = NoEdit]
  /\ UNCHANGED <<stored, loaded, load, parse, dataset, was, orderly>>

EditFails(e) ==
  /\ edit[e].at = "read"
  /\ edit' = [edit EXCEPT ![e] = NoEdit]
  /\ UNCHANGED <<stored, mirror, loaded, load, parse, dataset, was, orderly>>

EditMirrors_NotSet(e) ==
  /\ edit[e].at = "written"
  /\ loaded' = "resolved"
  /\ edit' = [edit EXCEPT ![e] = NoEdit]
  /\ UNCHANGED <<stored, mirror, load, parse, dataset, was, orderly>>

EditMirrors(e) ==
  /\ edit[e].at = "written"
  /\ mirror' = edit[e].copy
  /\ loaded' = "resolved"
  /\ edit' = [edit EXCEPT ![e] = NoEdit]
  /\ UNCHANGED <<stored, load, parse, dataset, was, orderly>>

-----------------------------------------------------------------------------
(* routes/dictation.ts, domain/parsePipeline.ts                            *)

(* ensurePromptOverridesLoaded: the first to need the edits begins the one *)
(* load, and everyone waits for it.                                        *)
EnsureLoaded ==
  /\ loaded = "null" /\ orderly => NoEdits
  /\ IF loaded = "null"
     THEN loaded' = "pending" /\ load' = [NoLoad EXCEPT !.at = "asked"]
     ELSE UNCHANGED <<loaded, load>>

(* POST /dictation/parse.                                                  *)
AskParse(p, kind, level, input) ==
  /\ parse[p].at = "new"
  /\ EnsureLoaded
  /\ parse' = [parse EXCEPT ![p] =
       [at |-> IF loaded = "resolved" THEN "admitted" ELSE "waiting",
        kind |-> kind, level |-> level, input |-> input]]
  /\ UNCHANGED <<stored, mirror, edit, dataset, was, orderly>>

(* GET /dictation/prompts: the owner looks at the prompts.                 *)
Look ==
  /\ EnsureLoaded
  /\ UNCHANGED <<stored, mirror, edit, parse, dataset, was, orderly>>

(* The allowance is spent, the roster or the projects cannot be read, or   *)
(* something breaks that is not the model: no row.                         *)
GiveUp(p) ==
  /\ parse[p].at \in {"admitted", "asked"}
  /\ parse' = [parse EXCEPT ![p] = Over]
  /\ UNCHANGED <<stored, mirror, loaded, load, edit, dataset, was, orderly>>

(* After the roster, the allowance and the projects have been read the     *)
(* prompt is built, from the mirror as it then is, and the model is called.*)
Build(p) ==
  /\ parse[p].at = "admitted"
  /\ parse' = [parse EXCEPT ![p] = [at |-> "asked", kind |-> @.kind, level |-> @.level,
                                    input |-> @.input, blocks |-> mirror]]
  /\ UNCHANGED <<stored, mirror, loaded, load, edit, dataset, was, orderly>>

Replying(q, answer) == [at |-> "replied", kind |-> q.kind, level |-> q.level,
                        input |-> q.input, blocks |-> q.blocks, answer |-> answer]

Reply(p, raw) ==
  /\ parse[p].at = "asked"
  /\ parse' = [parse EXCEPT ![p] = Replying(@, interpret(@.kind, raw, @.input))]
  /\ UNCHANGED <<stored, mirror, loaded, load, edit, dataset, was, orderly>>

(* The call fails, is refused or runs out of time: part of the trace.      *)
CallFails(p) ==
  /\ parse[p].at = "asked"
  /\ parse' = [parse EXCEPT ![p] = Replying(@, Refused)]
  /\ UNCHANGED <<stored, mirror, loaded, load, edit, dataset, was, orderly>>

(* levelRulesVersion: a hash of the blocks that are edited.                *)
levelRulesVersion == mirror

(* keepSample, whatever the outcome; then the answer goes out, or the      *)
(* error.                                                                  *)
Keep(p) ==
  /\ parse[p].at = "replied"
  /\ dataset' = [dataset EXCEPT ![p] =
       {[kind |-> parse[p].kind, level |-> parse[p].level, blocks |-> parse[p].blocks,
         version |-> levelRulesVersion, ok |-> parse[p].answer.ok]}]
  /\ parse' = [parse EXCEPT ![p] = Over]
  /\ UNCHANGED <<stored, mirror, loaded, load, edit, was, orderly>>

KeepFails(p) ==
  /\ parse[p].at = "replied"
  /\ parse' = [parse EXCEPT ![p] = Over]
  /\ UNCHANGED <<stored, mirror, loaded, load, edit, dataset, was, orderly>>

(* The process restarts; the clients of parses under way are cut off.      *)
Restart ==
  /\ mirror' = AllDefault /\ loaded' = "null" /\ load' = NoLoad
  /\ edit' = [e \in Edits |-> NoEdit]
  /\ parse' = [p \in Parses |-> IF parse[p].at = "new" THEN New ELSE Over]
  /\ UNCHANGED <<stored, dataset, was, orderly>>

FromOutside ==
  \/ \E e \in Edits, l \in Levels, r \in Wordings \cup {Default} : EditRead(e, l, r)
  \/ \E p \in Parses, l \in Levels : \E k \in Asks[p] : \E i \in Inputs[k] : AskParse(p, k, l, i)
  \/ Look
  \/ Restart

Advance(p) ==
  \/ Build(p) \/ GiveUp(p)
  \/ parse[p].at = "asked" /\ \E raw \in Replied[parse[p].kind] : Reply(p, raw)
  \/ CallFails(p) \/ Keep(p) \/ KeepFails(p)

Loading == LoadRead \/ LoadArrives \/ LoadFails

ParsesNext ==
  \/ FromOutside
  \/ Loading
  \/ \E p \in Parses : Advance(p)
  \/ \E e \in Edits : EditWrites(e) \/ EditFails(e) \/ EditMirrors(e)

(* The event loop goes on; a model answers or its budget runs out.         *)
Fairness == WF_parsesVars(Loading) /\ \A p \in Parses : WF_parsesVars(Advance(p))

ParsesSpec == ParsesInit /\ [][ParsesNext]_parsesVars /\ Fairness

-----------------------------------------------------------------------------
(* Properties.                                                             *)

ParsesTypeOK ==
  /\ {stored, mirror} \cup was \subseteq Blocks
  /\ loaded \in {"null", "pending", "resolved"}
  /\ \A e \in Edits : edit[e] \in [at : {"idle", "read", "written"}, copy : Blocks]

(* "Read once, on the first parse, and again after every edit; between     *)
(* them the prompts read the mirror" (domain/promptOverrides.ts): with     *)
(* requests that do not overlap, what prompts are built from is what is    *)
(* stored, through failed reads, failed writes and restarts.               *)
MirrorTrue == orderly /\ loaded = "resolved" /\ NoEdits => mirror = stored

(* However loads and edits overlap or fail, no prompt is built from a text *)
(* that was never stored, and no row claims one.                           *)
NeverInvented ==
  /\ mirror \in was
  /\ \A p \in Parses : \A r \in dataset[p] : r.blocks \in was /\ r.version \in was

(* What goes out is usable as it is (domain/dictation.ts, domain/tidy.ts): *)
(* it has the text its kind is for, a reminder of a day to come and no     *)
(* time without a day, a project only of those that were shown, no title   *)
(* over the user's own; and every date that the source does not name is    *)
(* either absent or pointed out, in the words of the answer.               *)
AnswerSound ==
  \A p \in Parses : parse[p].at = "replied" /\ parse[p].answer.ok =>
    LET a == parse[p].answer
        in == parse[p].input
        words == Range(a.text) \cup Range(a.title) \cup Range(a.description)
        patterns(s) == {PatternOf[d] : d \in s \cap Dates}
        absent == {d \in words \cap Dates : Range(in.text) \cap NamedBy[d] = {}}
    IN /\ parse[p].kind \in {"task", "task_tidy", "sandbox"} => a.title # <<>>
       /\ parse[p].kind \in {"note", "sandbox"} => a.text # <<>>
       /\ \A d \in a.date : in.today <= d /\ d <= in.today + Ahead
       /\ a.time # {} => a.date # {}
       /\ a.project \subseteq in.projects
       /\ parse[p].kind = "note" /\ in.titled => a.title = <<>>
       /\ a.warnings \subseteq words
       /\ parse[p].kind # "task" => patterns(a.warnings) = patterns(absent)

(* Splitting a line loses no word of it and makes a title that fits        *)
(* (domain/inboxSplit.ts).                                                 *)
Letters(s) ==
  LET upTo[n \in 0..Len(s)] ==
        IF n = 0 THEN <<>>
        ELSE IF s[n] \in Blank \cup {".", More} THEN upTo[n - 1] ELSE Append(upTo[n - 1], s[n])
  IN upTo[Len(s)]

SplitKeepsAll ==
  \A p \in Parses :
    parse[p].at = "replied" /\ parse[p].answer.ok /\ parse[p].kind = "sandbox" =>
      LET task == splitInboxText(parse[p].answer.text)
      IN /\ Letters(task.title) \o Letters(task.description) = Letters(parse[p].answer.text)
         /\ task.title # <<>> /\ Len(task.title) <= Limit + 1

(* Nobody waits for ever: a load that fails lets its parses go on, and a   *)
(* parse ends whatever its model does.                                     *)
Served ==
  \A p \in Parses : parse[p].at \in {"waiting", "admitted", "asked", "replied"} ~> parse[p].at = "over"

(* "Rows of different wordings must not be counted as one experiment"      *)
(* (routes/dictation.ts, keepSample), taken at its word.                   *)
OneExperiment ==
  \A p, q \in Parses : \A r \in dataset[p], s \in dataset[q] :
    r.kind = s.kind /\ r.level = s.level /\ r.version = s.version => r.blocks = s.blocks
=============================================================================
