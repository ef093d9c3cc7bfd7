------------------------------ MODULE Replies ------------------------------
(***************************************************************************)
(* What a reply of the language model is turned into: the checks of the    *)
(* four kinds of parse (domain/dictation.ts, domain/tidy.ts), and the      *)
(* split of a long line into a title and a description                     *)
(* (domain/inboxSplit.ts).                                                 *)
(*                                                                         *)
(* A text is a sequence of marks: " " and "/" are a space and a line       *)
(* break, "." ends a sentence, Dates name a day or a time, and every other *)
(* mark is a letter or a run of digits that is no date.  A field of a      *)
(* reply is a set: {} when it is missing, null or of another type, {x}     *)
(* otherwise.  Nothing is <<>>.                                            *)
(***************************************************************************)
EXTENDS Integers, Sequences, FiniteSets, FiniteSetsExt, SequencesExt

CONSTANTS
  Dates,      \* marks that name a date
  PatternOf,  \* the pattern each is found by: one for all forms of a word,
              \* and of a number the number itself
  NamedBy,    \* the marks of a source that it counts as named by: every form
              \* of a word; whatever has a number in it digit for digit, as
              \* "25.09" has "5.09"
  Limit,      \* INBOX_TITLE_LIMIT, in marks
  MinTitle,   \* MIN_TITLE_LENGTH
  Ahead       \* MAX_REMIND_AHEAD_DAYS

Blank == {" ", "/"}
More == "~"  \* the ellipsis of a title that is cut

ASSUME RepliesAssumption ==
  /\ PatternOf \in [Dates -> Dates]
  /\ \A d, e \in Dates : d \in NamedBy[d] /\ (PatternOf[d] = PatternOf[e] => NamedBy[d] = NamedBy[e])
  /\ MinTitle \in Nat \ {0, 1} /\ Limit \in Nat /\ MinTitle < Limit
  /\ Ahead \in Nat

-----------------------------------------------------------------------------
(* The texts of a reply.                                                   *)

(* trim; a text of blanks only is nothing.                                 *)
trim(s) ==
  LET solid == {i \in DOMAIN s : s[i] \notin Blank}
  IN IF solid = {} THEN <<>> ELSE SubSeq(s, Min(solid), Max(solid))

withoutStops(s) == SubSeq(s, 1, Max({0} \cup {i \in DOMAIN s : s[i] # "."}))

tidyTitle(s) == withoutStops(trim(s))

The(field) == CHOOSE x \in field : TRUE

textOrNull(field) == IF field = {} THEN <<>> ELSE trim(The(field))

(* inventedDateTerms: of each pattern that the output has and that nothing *)
(* in the source names, the first form that the output has.                *)
inventedDateTerms_Literal(source, output) ==
  (Range(output) \ Range(source)) \cap Dates

inventedDateTerms(source, output) ==
  LET first(i) == \A k \in 1..(i - 1) :
                    output[k] \in Dates => PatternOf[output[k]] # PatternOf[output[i]]
  IN {output[i] : i \in {k \in DOMAIN output :
        output[k] \in Dates /\ Range(source) \cap NamedBy[output[k]] = {} /\ first(k)}}

-----------------------------------------------------------------------------
(* domain/inboxSplit.ts                                                    *)

(* findSentenceEnd: 0 for none.  A stop ends a sentence before a blank, a  *)
(* line break always; an end that comes too early is passed over.          *)
sentenceEnd(s) ==
  LET ends == {e \in DOMAIN s : \/ s[e] = "/"
                                \/ s[e] = "." /\ e < Len(s) /\ s[e + 1] \in Blank}
      before(e) == IF s[e] = "/" THEN SubSeq(s, 1, e - 1) ELSE withoutStops(SubSeq(s, 1, e))
      long == {e \in ends : Len(trim(before(e))) >= MinTitle}
  IN IF long = {} \/ Min(long) > Limit THEN 0 ELSE Min(long)

oneStopLess(s) ==
  LET n == Len(s)
      dots == n >= 3 /\ \A i \in (n - 2)..n : s[i] = "."
  IN IF n > 0 /\ s[n] = "." /\ ~dots THEN SubSeq(s, 1, n - 1) ELSE s

splitAt(s, title, from) == [title |-> title, description |-> trim(SubSeq(s, from, Len(s)))]

(* A line whose last blank is the one past the limit may still be cut      *)
(* there: the window is one mark longer than the limit.                    *)
cut_PastBlank(s, p) == splitAt(s, Append(trim(SubSeq(s, 1, p - 1)), More), p + 2)

cut(s, p) == splitAt(s, Append(trim(SubSeq(s, 1, p - 1)), More), p)

splitInboxText(text) ==
  LET s == trim(text)
      end == sentenceEnd(s)
      last == Max({0} \cup {i \in 1..(Limit + 1) : s[i] \in Blank})
  IN IF Len(s) <= Limit THEN [title |-> s, description |-> <<>>]
     ELSE IF end # 0 THEN splitAt(s, oneStopLess(trim(SubSeq(s, 1, end))), end + 1)
     ELSE IF last - 1 >= MinTitle THEN cut(s, last)
     ELSE splitAt(s, SubSeq(s, 1, Limit), Limit + 1)

-----------------------------------------------------------------------------
(* The reply, checked: an answer, or the refusal that UpstreamModelError   *)
(* is.  The request is what it was asked with: the source text, the day it *)
(* was sent on, whether the note has a title, and the projects that the    *)
(* model was shown.                                                        *)

Refused == [ok |-> FALSE]

Answer(text, title, description, project, date, time, warnings) ==
  [ok |-> TRUE, text |-> text, title |-> title, description |-> description,
   project |-> project, date |-> date, time |-> time, warnings |-> warnings]

(* task: the reminder is dropped, never trusted, when it is in the past or *)
(* too far ahead; its time goes with it.                                   *)
remindDate(raw, request) == {d \in raw.date : request.today <= d /\ d <= request.today + Ahead}

interpretModelReply(raw, request) ==
  IF raw.title = {} \/ tidyTitle(The(raw.title)) = <<>> THEN Refused
  ELSE LET date == remindDate(raw, request) IN
       Answer(<<>>, tidyTitle(The(raw.title)), textOrNull(raw.description), {},
              date, IF date = {} THEN {} ELSE raw.time, {})

interpretTaskTidyReply(raw, request) ==
  IF raw.title = {} \/ tidyTitle(The(raw.title)) = <<>> THEN Refused
  ELSE LET title == tidyTitle(The(raw.title))
           description == textOrNull(raw.description)
       IN Answer(<<>>, title, description, {}, {}, {},
                 inventedDateTerms(request.text, title \o description))

(* note: a title the user wrote is not replaced from here.                 *)
interpretNoteReply(raw, request) ==
  IF textOrNull(raw.text) = <<>> THEN Refused
  ELSE LET content == trim(The(raw.text))
           title == IF request.titled THEN <<>> ELSE tidyTitle(textOrNull(raw.title))
       IN Answer(content, title, <<>>, {}, {}, {},
                 inventedDateTerms(request.text, title \o content))

(* sandbox: without a usable title the line is split as filing splits it,  *)
(* and an id that was not on the list is not a suggestion.                 *)
interpretSandboxReply(raw, request) ==
  IF textOrNull(raw.text) = <<>> THEN Refused
  ELSE LET text == trim(The(raw.text))
           title == tidyTitle(textOrNull(raw.title))
           task == IF title = <<>> THEN splitInboxText(text)
                   ELSE [title |-> title, description |-> textOrNull(raw.description)]
       IN Answer(text, task.title, task.description, raw.project \cap request.projects, {}, {},
                 inventedDateTerms(request.text, text \o task.title \o task.description))

interpret(kind, raw, request) ==
  CASE kind = "task"      -> interpretModelReply(raw, request)
    [] kind = "task_tidy" -> interpretTaskTidyReply(raw, request)
    [] kind = "note"      -> interpretNoteReply(raw, request)
    [] kind = "sandbox"   -> interpretSandboxReply(raw, request)
=============================================================================
