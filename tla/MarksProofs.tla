----------------------------- MODULE MarksProofs -----------------------------
(***************************************************************************)
(* What is proved of Marks, for any documents, answers, requests and       *)
(* bounds: a label never changes, and while requests do not overlap marks  *)
(* and counts are right.                                                   *)
(***************************************************************************)
EXTENDS Marks, TLAPS

(* What is known of a label without knowing what the texts are.            *)
Label(r) == \E d, title, description, content : r = Final(d, title, description, content)
Shaped(lab) == lab = [p \in Parses |-> lab[p]] /\ \A p \in Parses : \A r \in lab[p] : Label(r)

(* Nothing of what was written is taken back or rewritten.                 *)
Frozen(after) == \A p \in Parses : \A r \in label[p] : \E q \in after[p] : Finals(q) = Finals(r)

(* The first save of an answer labels its row, and no later one does.      *)
LEMMA LinkOnce ==
  ASSUME Shaped(label), NEW p, NEW kinds, NEW final, Label(final)
  PROVE  /\ Shaped(linkDictationParse(p, kinds, final))
         /\ Frozen(linkDictationParse(p, kinds, final))
<1> DEFINE new == linkDictationParse(p, kinds, final)
<1>1. CASE new = label
  BY <1>1 DEF Shaped, Frozen
<1>2. CASE new # label
  <2>1. label[p] = {} /\ new = [label EXCEPT ![p] = {final}]
    BY <1>2 DEF linkDictationParse
  <2>2. new = [q \in Parses |-> IF q = p THEN {final} ELSE label[q]]
    BY <2>1 DEF Shaped
  <2> QED BY <2>1, <2>2 DEF Shaped, Frozen
<1> QED BY <1>1, <1>2

Off(r, d) == [r EXCEPT !.on = IF r.on = d THEN Null ELSE r.on]

(* A label that loses its document keeps its words.                        *)
LEMMA OffKeepsWords ==
  ASSUME NEW r, Label(r), NEW d
  PROVE  Label(Off(r, d)) /\ Finals(Off(r, d)) = Finals(r)
<1>1. PICK e, title, description, content : r = Final(e, title, description, content)
  BY DEF Label
<1>2. Off(r, d) = Final(IF e = d THEN Null ELSE e, title, description, content)
  BY <1>1 DEF Final, Off
<1>3. \A f : Finals(Final(f, title, description, content)) = <<title, description, content>>
  BY DEF Final, Finals
<1> QED BY <1>1, <1>2, <1>3 DEF Label

(* A deletion takes the document from a label, and leaves its words.       *)
LEMMA UnlinkKeepsWords ==
  ASSUME NEW lab, Shaped(lab), NEW d
  PROVE  /\ Shaped(Unlinked(lab, d))
         /\ \A p \in Parses : \A r \in lab[p] : \E q \in Unlinked(lab, d)[p] : Finals(q) = Finals(r)
<1>1. \A p \in Parses : Unlinked(lab, d)[p] = {Off(r, d) : r \in lab[p]}
  BY DEF Unlinked, Off
<1>2. \A p \in Parses : \A r \in lab[p] : Label(Off(r, d)) /\ Finals(Off(r, d)) = Finals(r)
  BY OffKeepsWords DEF Shaped
<1>3. Unlinked(lab, d) = [p \in Parses |-> Unlinked(lab, d)[p]]
  BY DEF Unlinked
<1>4. \A p \in Parses : \A q \in Unlinked(lab, d)[p] : Label(q)
  BY <1>1, <1>2
<1>5. \A p \in Parses : \A r \in lab[p] : \E q \in Unlinked(lab, d)[p] : Finals(q) = Finals(r)
  BY <1>1, <1>2
<1> QED BY <1>3, <1>4, <1>5 DEF Shaped

(* Whatever a save puts together is a label.                               *)
LEMMA FinalIsLabel ==
  ASSUME NEW d, NEW title, NEW description, NEW content
  PROVE  Label(Final(d, title, description, content))
BY DEF Label

(* And so is what a document gives, of whichever type it is.               *)
LEMMA FinalOfIsLabel ==
  ASSUME NEW d, NEW row, NEW p
  PROVE  Label(FinalOf(d, row, p))
BY FinalIsLabel DEF FinalOf

(* No row is labelled at first.                                            *)
LEMMA InitShaped == Init => Shaped(label)
BY DEF Init, Shaped

(* One case per action; those that leave the labels alone are trivial.     *)
LEMMA StepKeepsLabels ==
  ASSUME Shaped(label), [Next]_vars
  PROVE  Shaped(label') /\ Frozen(label')
<1>0. \A p \in Parses : \A r \in label[p] : \E q \in label[p] : Finals(q) = Finals(r)
  OBVIOUS
<1>1. ASSUME label' = label
      PROVE  Shaped(label') /\ Frozen(label')
  BY <1>0, <1>1 DEF Frozen
<1>2. ASSUME NEW p, NEW kinds, NEW final, Label(final), label' = linkDictationParse(p, kinds, final)
      PROVE  Shaped(label') /\ Frozen(label')
  BY <1>2, LinkOnce
<1>3. ASSUME NEW d \in Docs, NEW b \in Bodies, Create(d, b)
      PROVE  Shaped(label') /\ Frozen(label')
  <2>1. PICK row : \/ label' = label
                   \/ label' = linkDictationParse(b.p, Makes(d), FinalOf(d, row, b.p))
    BY <1>3 DEF Create
  <2> QED BY <1>1, <1>2, <2>1, FinalOfIsLabel
<1>4. ASSUME NEW s \in Saves, LabelLine(s)
      PROVE  Shaped(label') /\ Frozen(label')
  <2>1. \/ label' = label
        \/ label' = linkDictationParse(save[s].p, {"sandbox"}, FinalOf(save[s].d, save[s].row, save[s].p))
    BY <1>4 DEF LabelLine
  <2> QED BY <1>1, <1>2, <2>1, FinalOfIsLabel
<1>5. ASSUME NEW s \in Saves, Write(s)
      PROVE  Shaped(label') /\ Frozen(label')
  <2>1. PICK row : \/ label' = label
                   \/ label' = linkDictationParse(save[s].body.p, Takes(save[s].d),
                                                 FinalOf(save[s].d, row, save[s].body.p))
    BY <1>5 DEF Write
  <2> QED BY <1>1, <1>2, <2>1, FinalOfIsLabel
<1>6. ASSUME NEW s \in Saves, File(s)
      PROVE  Shaped(label') /\ Frozen(label')
  <2> DEFINE kinds == {"sandbox", "task_tidy"}
  <2>1. PICK row : \/ label' = label
                   \/ label' = Unlinked(linkDictationParse(save[s].p, kinds,
                                           Final(save[s].to, row.title, row.body, Null)), save[s].d)
    BY <1>6 DEF File
  <2>2. CASE label' # label
    <3> DEFINE linked == linkDictationParse(save[s].p, kinds, Final(save[s].to, row.title, row.body, Null))
    <3>1. Shaped(linked) /\ Frozen(linked)
      BY LinkOnce, FinalIsLabel
    <3>2. label' = Unlinked(linked, save[s].d)
      BY <2>1, <2>2
    <3> HIDE DEF linked
    <3>3. Shaped(Unlinked(linked, save[s].d))
      BY <3>1, UnlinkKeepsWords
    <3>4. \A p \in Parses : \A r \in linked[p] :
             \E q \in Unlinked(linked, save[s].d)[p] : Finals(q) = Finals(r)
      BY <3>1, UnlinkKeepsWords
    <3> QED BY <3>1, <3>2, <3>3, <3>4 DEF Frozen
  <2> QED BY <1>1, <2>2
<1>7. ASSUME NEW d \in Docs, Delete(d)
      PROVE  Shaped(label') /\ Frozen(label')
  <2>1. label' = Unlinked(label, d)
    BY <1>7 DEF Delete
  <2> QED BY <2>1, UnlinkKeepsWords DEF Frozen
<1>8. CASE \E s \in Saves, d \in Docs, b \in Bodies : Read(s, d, b)
  BY <1>1, <1>8 DEF Read
<1>9. CASE \E s \in Saves, l, t \in Docs, p \in Sent :
             doc[l].at = "kept" /\ \E x \in Parts(p, doc[l].body) : x.title # Null /\ FileRead(s, l, t, p, x)
  BY <1>1, <1>9 DEF FileRead
<1>10. CASE \E s \in Saves : Cut(s)
  BY <1>1, <1>10 DEF Cut
<1>11. CASE UNCHANGED vars
  BY <1>1, <1>11 DEF vars
<1> QED BY <1>3, <1>4, <1>5, <1>6, <1>7, <1>8, <1>9, <1>10, <1>11 DEF Next

(* The rows of the dataset stay sets of labels.                            *)
THEOREM ShapeCorrect == Spec => []Shaped(label)
<1>1. Init => Shaped(label)
  BY InitShaped
<1>2. Shaped(label) /\ [Next]_vars => Shaped(label)'
  BY StepKeepsLabels
<1> QED BY <1>1, <1>2, PTL DEF Spec

(* "The label is the first save of the answer" (domain/dictationLink.ts),  *)
(* for any number of documents, answers and requests, however they         *)
(* overlap and wherever they are cut off.                                  *)
THEOREM LabelFrozenCorrect == Spec => LabelFrozen
<1>1. Shaped(label) /\ [Next]_vars =>
        [\A p \in Parses : \A r \in label[p] : \E q \in label'[p] : Finals(q) = Finals(r)]_vars
  BY StepKeepsLabels DEF Frozen
<1> QED BY <1>1, ShapeCorrect, PTL DEF Spec, LabelFrozen

-----------------------------------------------------------------------------
(* Shapes.                                                                 *)

Text == Texts \cup {Null}

(* What a request has in hand fits the route it came by.                   *)
SavesFit ==
  \A s \in Saves :
    /\ save[s].at = "unlabelled" => TypeOf[save[s].d] = "line"
    /\ save[s].at = "read" => Allowed(save[s].d, save[s].body)
    /\ save[s].at = "filing" =>
         TypeOf[save[s].d] = "line" /\ TypeOf[save[s].to] = "task" /\ save[s].parts.title # Null

(* What a PATCH has read was there.                                        *)
Born(rows, hands) == \A s \in Saves : hands[s].at = "read" => rows[hands[s].d] # Unborn

TypeInv == TypeOK /\ SavesFit /\ Born(doc, save)

(* A mark changes the AI columns and no other.                             *)
LEMMA MarkTyped ==
  ASSUME NEW row \in Row, NEW p \in Sent, NEW kinds, NEW source, NEW words \in Words
  PROVE  /\ aiMarkFields(row, p, kinds, source, words) \in Row
         /\ fields(aiMarkFields(row, p, kinds, source, words)) = fields(row)
         /\ aiMarkFields(row, p, kinds, source, words).title = row.title
         /\ aiMarkFields(row, p, kinds, source, words).body = row.body
         /\ aiMarkFields(row, p, kinds, source, words).aiSource =
              IF Matches(p, kinds) /\ source = Null THEN p ELSE row.aiSource
         /\ aiMarkFields(row, p, kinds, source, words).aiResult =
              IF Matches(p, kinds) THEN words ELSE row.aiResult
BY DEF aiMarkFields, Matches, Row, Sent, fields

(* A plain row holds the words it is made from and no mark.                *)
LEMMA PlainTyped ==
  ASSUME NEW title \in Text, NEW body \in Text
  PROVE  /\ Plain(title, body) \in Row
         /\ fields(Plain(title, body)) = [title |-> title, body |-> body]
         /\ Plain(title, body).title = title /\ Plain(title, body).body = body
         /\ Plain(title, body).aiSource = Null /\ Plain(title, body).aiResult = Null
BY DEF Plain, Row, Sent, fields, Text

(* A cleared mark leaves the words.                                        *)
LEMMA ClearTyped ==
  ASSUME NEW row \in Row
  PROVE  /\ aiClearData(row) \in Row /\ fields(aiClearData(row)) = fields(row)
         /\ aiClearData(row).title = row.title /\ aiClearData(row).body = row.body
         /\ aiClearData(row).aiSource = Null
BY DEF aiClearData, Row, Sent, fields

(* What a body makes of a title and a text.                                *)
LEMMA BodyTyped ==
  ASSUME NEW d \in Docs, NEW b \in Bodies, NEW old \in Text
  PROVE  /\ TitleOf(d, b, old) \in Text /\ Put(b.body, old) \in Text
         /\ TypeOf[d] = "line" => TitleOf(d, b, old) = Null
         /\ TypeOf[d] # "line" /\ (old # Null \/ b.title # Same) => TitleOf(d, b, old) # Null
         /\ b.p \in Sent /\ b.clear \in BOOLEAN
BY MarksAssumption DEF TitleOf, Put, Text, Texts, Sent

(* An edit changes the words and no mark; a line stays without a title.    *)
LEMMA ChangedTyped ==
  ASSUME NEW d \in Docs, NEW b \in Bodies, NEW row \in Row,
         TypeOf[d] = "line" <=> row.title = Null
  PROVE  /\ Changed(d, row, b) \in Row
         /\ TypeOf[d] = "line" <=> Changed(d, row, b).title = Null
         /\ Changed(d, row, b).aiSource = row.aiSource
         /\ Changed(d, row, b).aiResult = row.aiResult
         /\ fields(Changed(d, row, b)) \in Words
<1>1. row.title \in Text /\ row.body \in Text
  BY DEF Row, Text
<1>2. /\ TitleOf(d, b, row.title) \in Text /\ Put(b.body, row.body) \in Text
      /\ TypeOf[d] = "line" <=> TitleOf(d, b, row.title) = Null
  BY <1>1, BodyTyped
<1> QED BY <1>2 DEF Changed, Row, Text, fields, Words

(* What is kept is a row, and nothing else is.                             *)
LEMMA KeptIsRow ==
  ASSUME TypeOK, NEW d \in Docs
  PROVE  /\ doc[d] \in {Unborn, Gone} \cup Row
         /\ doc[d].at = "kept" <=> doc[d] \in Row
         /\ doc[d].at = "kept" <=> doc[d] \notin {Unborn, Gone}
BY DEF TypeOK, Row, Unborn, Gone

(* What is remembered of a first save are words.                           *)
LEMMA WordsRemembered ==
  ASSUME TypeOK, NEW d, NEW row \in Row, NEW p \in Sent, NEW kinds, Remember(d, row, p, kinds)
  PROVE  first' \in [Parses -> SUBSET Words]
<1>1. fields(row) \in Words
  BY DEF fields, Row, Words
<1> QED BY <1>1 DEF Remember, TypeOK, Matches, Sent

(* The row that a creation makes, that a PATCH makes, that a filing makes. *)
Created(d, b) ==
  LET new == [title |-> TitleOf(d, b, Null), body |-> Put(b.body, Null)]
  IN aiMarkFields(Plain(new.title, new.body), b.p, Makes(d), Null, new)

Patched(on) ==
  LET now == Changed(on.d, doc[on.d], on.body)
  IN IF on.body.clear THEN aiClearData(now)
     ELSE aiMarkFields(now, on.body.p, Takes(on.d), on.before.aiSource, snapshot(on))

Filed(on) ==
  LET marked == aiMarkFields(Plain(on.parts.title, on.parts.body), on.p, {"sandbox", "task_tidy"},
                             on.before.aiSource, on.parts)
  IN IF on.before.aiSource = Null THEN marked
     ELSE [marked EXCEPT !.aiSource = on.before.aiSource, !.aiResult = on.parts]

(* A created row has the mark of the answer it was sent with, if any.      *)
LEMMA CreatedTyped ==
  ASSUME NEW d \in Docs, NEW b \in Bodies, TypeOf[d] # "line" => b.title # Same
  PROVE  /\ Created(d, b) \in Row
         /\ TypeOf[d] = "line" <=> Created(d, b).title = Null
         /\ Created(d, b).aiSource = IF Matches(b.p, Makes(d)) THEN b.p ELSE Null
         /\ Created(d, b).aiResult = IF Matches(b.p, Makes(d)) THEN fields(Created(d, b)) ELSE Null
<1> DEFINE new == [title |-> TitleOf(d, b, Null), body |-> Put(b.body, Null)]
<1>1. new.title \in Text /\ new.body \in Text /\ b.p \in Sent /\ (TypeOf[d] = "line" <=> new.title = Null)
  BY BodyTyped DEF Text
<1>2. new \in Words /\ new = [title |-> new.title, body |-> new.body]
  BY <1>1 DEF Words, Text
<1> HIDE DEF new
<1>3. /\ Plain(new.title, new.body) \in Row
      /\ fields(Plain(new.title, new.body)) = [title |-> new.title, body |-> new.body]
      /\ Plain(new.title, new.body).title = new.title
      /\ Plain(new.title, new.body).aiSource = Null /\ Plain(new.title, new.body).aiResult = Null
  BY <1>1, PlainTyped
<1>4. Created(d, b) = aiMarkFields(Plain(new.title, new.body), b.p, Makes(d), Null, new)
  BY DEF Created, new
<1> QED BY <1>1, <1>2, <1>3, <1>4, MarkTyped

(* A patched row keeps the source it had, takes the first one, or is       *)
(* cleared.                                                                *)
LEMMA PatchedTyped ==
  ASSUME TypeInv, NEW s \in Saves, save[s].at = "read", doc[save[s].d].at = "kept"
  PROVE  LET on == save[s] IN
         /\ Patched(on) \in Row
         /\ TypeOf[on.d] = "line" <=> Patched(on).title = Null
         /\ Patched(on).aiSource =
              IF on.body.clear THEN Null
              ELSE IF Matches(on.body.p, Takes(on.d)) /\ on.before.aiSource = Null THEN on.body.p
                   ELSE doc[on.d].aiSource
         /\ (~on.body.clear /\ Matches(on.body.p, Takes(on.d)) /\ on.before = doc[on.d])
              => Patched(on).aiResult = fields(Patched(on))
<1> DEFINE on == save[s]
           now == Changed(on.d, doc[on.d], on.body)
<1>1. on.d \in Docs /\ on.body \in Bodies /\ on.before \in Row
  BY DEF TypeInv, TypeOK, Idle
<1>2. doc[on.d] \in Row /\ (TypeOf[on.d] = "line" <=> doc[on.d].title = Null)
  BY <1>1, KeptIsRow DEF TypeInv, TypeOK
<1>3. /\ now \in Row /\ fields(now) \in Words
      /\ TypeOf[on.d] = "line" <=> now.title = Null
      /\ now.aiSource = doc[on.d].aiSource
  BY <1>1, <1>2, ChangedTyped
<1>4. on.body.p \in Sent /\ on.body.clear \in BOOLEAN
  BY <1>1, MarksAssumption DEF Sent
<1>5. snapshot(on) \in Words
  <2>1. on.before.title \in Text /\ on.before.body \in Text
    BY <1>1 DEF Row, Text
  <2>2. TitleOf(on.d, on.body, on.before.title) \in Text /\ Put(on.body.body, on.before.body) \in Text
    BY <1>1, <2>1, BodyTyped
  <2> QED BY <1>1, <2>2 DEF snapshot, Changed, fields, Words, Text, Row
<1>6. on.before = doc[on.d] => snapshot(on) = fields(now)
  BY DEF snapshot
<1>7. Patched(on) = IF on.body.clear THEN aiClearData(now)
                    ELSE aiMarkFields(now, on.body.p, Takes(on.d), on.before.aiSource, snapshot(on))
  BY DEF Patched
<1> HIDE DEF on, now
<1>8. CASE on.body.clear
  BY <1>3, <1>7, <1>8, ClearTyped DEF on
<1>9. CASE ~on.body.clear
  BY <1>3, <1>4, <1>5, <1>6, <1>7, <1>9, MarkTyped DEF on
<1> QED BY <1>8, <1>9

(* A filed line passes its source to the task, else its answer is the      *)
(* first.                                                                  *)
LEMMA FiledTyped ==
  ASSUME TypeInv, NEW s \in Saves, save[s].at = "filing"
  PROVE  LET on == save[s] IN
         /\ Filed(on) \in Row /\ Filed(on).title # Null
         /\ fields(Filed(on)) = on.parts /\ Filed(on).title = on.parts.title /\ Filed(on).body = on.parts.body
         /\ Filed(on).aiSource = IF on.before.aiSource # Null THEN on.before.aiSource
                                 ELSE IF Matches(on.p, {"sandbox", "task_tidy"}) THEN on.p ELSE Null
         /\ Filed(on).aiSource # Null => Filed(on).aiResult = fields(Filed(on))
<1> DEFINE on == save[s]
           plain == Plain(on.parts.title, on.parts.body)
           marked == aiMarkFields(plain, on.p, {"sandbox", "task_tidy"}, on.before.aiSource, on.parts)
<1>1. /\ on.parts \in Words /\ on.parts.title # Null /\ on.p \in Sent /\ on.before \in Row
      /\ on.parts.title \in Text /\ on.parts.body \in Text
      /\ on.parts = [title |-> on.parts.title, body |-> on.parts.body]
  BY DEF TypeInv, TypeOK, SavesFit, Idle, Words, Text
<1>2. /\ plain \in Row /\ fields(plain) = on.parts
      /\ plain.title = on.parts.title /\ plain.body = on.parts.body
      /\ plain.aiSource = Null /\ plain.aiResult = Null
  BY <1>1, PlainTyped
<1> HIDE DEF plain
<1>3. /\ marked \in Row /\ fields(marked) = on.parts
      /\ marked.title = on.parts.title /\ marked.body = on.parts.body
      /\ marked.aiSource = IF Matches(on.p, {"sandbox", "task_tidy"}) /\ on.before.aiSource = Null
                           THEN on.p ELSE Null
      /\ marked.aiResult = IF Matches(on.p, {"sandbox", "task_tidy"}) THEN on.parts ELSE Null
  BY <1>1, <1>2, MarkTyped
<1>4. Filed(on) = IF on.before.aiSource = Null THEN marked
                  ELSE [marked EXCEPT !.aiSource = on.before.aiSource, !.aiResult = on.parts]
  BY DEF Filed, plain
<1>5. on.before.aiSource \in Sent
  BY <1>1 DEF Row
<1> HIDE DEF on, marked
<1> QED BY <1>1, <1>3, <1>4, <1>5 DEF Row, fields, on

(* What a request may have in hand, and a table may hold.                  *)
InHand == {Idle} \cup [at : {"unlabelled"}, d : Docs, row : Row, p : Sent]
                 \cup [at : {"read"}, d : Docs, body : Bodies, before : Row]
                 \cup [at : {"filing"}, d : Docs, to : Docs, p : Sent, parts : Words, before : Row]

Fits(on) ==
  /\ on.at = "unlabelled" => TypeOf[on.d] = "line"
  /\ on.at = "read" => Allowed(on.d, on.body)
  /\ on.at = "filing" => TypeOf[on.d] = "line" /\ TypeOf[on.to] = "task" /\ on.parts.title # Null

Tables(rows) ==
  /\ rows \in [Docs -> {Unborn, Gone} \cup Row]
  /\ \A d \in Docs : rows[d].at = "kept" => (TypeOf[d] = "line" <=> rows[d].title = Null)

(* The invariant, part by part.                                            *)
LEMMA TypeInvParts ==
  TypeInv <=> /\ begun \in Nat /\ alone \in BOOLEAN /\ kind \in Mixes
              /\ Tables(doc) /\ save \in [Saves -> InHand] /\ \A s \in Saves : Fits(save[s])
              /\ from \in [Docs -> Sent] /\ touched \in [Docs -> BOOLEAN]
              /\ first \in [Parses -> SUBSET Words] /\ Born(doc, save)
BY DEF TypeInv, TypeOK, SavesFit, Tables, InHand, Fits

(* The same of the next state.                                             *)
LEMMA TypeInvPartsNext ==
  TypeInv' <=> /\ begun' \in Nat /\ alone' \in BOOLEAN /\ kind' \in Mixes
               /\ Tables(doc') /\ save' \in [Saves -> InHand] /\ \A s \in Saves : Fits(save'[s])
               /\ from' \in [Docs -> Sent] /\ touched' \in [Docs -> BOOLEAN]
               /\ first' \in [Parses -> SUBSET Words] /\ Born(doc', save')
BY DEF Born, TypeInv, TypeOK, SavesFit, Tables, InHand, Fits

(* What a step may store in a table, and what a request may be holding.    *)
MayStore(d, row) == row = Gone \/ (row \in Row /\ (TypeOf[d] = "line" <=> row.title = Null))
MayHold(on) == on \in InHand /\ Fits(on) /\ (on.at = "read" => doc[on.d] # Unborn)

NoneUnborn(rows, after) == \A e : after[e] = Unborn => rows[e] = Unborn

(* A table that stores what it may is still one, and nothing is unborn     *)
(* again.                                                                  *)
LEMMA RowStored ==
  ASSUME NEW rows, Tables(rows), NEW d \in Docs, NEW row, MayStore(d, row),
         NEW after, after = [rows EXCEPT ![d] = row]
  PROVE  Tables(after) /\ NoneUnborn(rows, after)
<1>1. row # Unborn /\ row \in {Unborn, Gone} \cup Row
  BY DEF MayStore, Row, Gone, Unborn
<1>2. row.at = "kept" => (TypeOf[d] = "line" <=> row.title = Null)
  BY DEF MayStore, Gone
<1>3. DOMAIN rows = Docs /\ \A e : after[e] = IF e = d THEN row ELSE rows[e]
  BY DEF Tables
<1> QED BY <1>1, <1>2, <1>3 DEF Tables, NoneUnborn

(* A request that holds what it may keeps the shapes of the requests.      *)
LEMMA HandStored ==
  ASSUME NEW s \in Saves, NEW on, MayHold(on), TypeInv
  PROVE  LET hands == [save EXCEPT ![s] = on] IN
         /\ hands \in [Saves -> InHand] /\ \A t \in Saves : Fits(hands[t])
         /\ \A t \in Saves : hands[t].at = "read" => doc[hands[t].d] # Unborn
<1>1. save \in [Saves -> InHand] /\ (\A t \in Saves : Fits(save[t])) /\ Born(doc, save)
  BY TypeInvParts
<1>2. \A t \in Saves : [save EXCEPT ![s] = on][t] = IF t = s THEN on ELSE save[t]
  BY <1>1
<1>3. [save EXCEPT ![s] = on] \in [Saves -> InHand]
  BY <1>1 DEF MayHold
<1> QED BY <1>1, <1>2, <1>3 DEF MayHold, Born

(* A request may always be over.                                           *)
LEMMA MayHoldIdle == MayHold(Idle)
BY DEF MayHold, Idle, InHand, Fits

(* A line that was saved may be held until it is labelled.                 *)
LEMMA MayHoldLine ==
  ASSUME NEW d \in Docs, TypeOf[d] = "line", NEW row \in Row, NEW p \in Sent
  PROVE  MayHold(ToLabel(d, row, p))
BY DEF ToLabel, InHand, Fits, MayHold

(* What a request holds, by where it is.                                   *)
LEMMA InHandTyped ==
  ASSUME NEW on \in InHand
  PROVE  /\ on.at = "unlabelled" => on.d \in Docs /\ on.row \in Row /\ on.p \in Sent
         /\ on.at = "read" => on.d \in Docs /\ on.body \in Bodies /\ on.before \in Row
         /\ on.at = "filing" => /\ on.d \in Docs /\ on.to \in Docs /\ on.p \in Sent
                                /\ on.parts \in Words /\ on.before \in Row
         /\ on # Idle <=> on.at \in {"unlabelled", "read", "filing"}
BY DEF InHand, Idle

(* A line is filed as words.                                               *)
LEMMA PartsTyped ==
  ASSUME NEW p \in Sent, NEW text \in Text, NEW x \in Parts(p, text)
  PROVE  x \in Words
BY DEF Parts, Words, Sent, Text, Texts

(* A step that stores and holds what it may keeps every shape.             *)
LEMMA ShapesKept ==
  ASSUME TypeInv, begun' \in Nat, kind' = kind, alone' = alone,
         from' \in [Docs -> Sent], touched' \in [Docs -> BOOLEAN], first' \in [Parses -> SUBSET Words],
         \/ doc' = doc
         \/ \E d \in Docs : \E row : MayStore(d, row) /\ doc' = [doc EXCEPT ![d] = row]
         \/ \E d, e \in Docs : \E row : MayStore(e, row) /\ doc' = [doc EXCEPT ![d] = Gone, ![e] = row],
         \/ save' = save
         \/ \E s \in Saves : \E on : MayHold(on) /\ save' = [save EXCEPT ![s] = on]
  PROVE  TypeInv'
<1>1. Tables(doc) /\ Born(doc, save) /\ save \in [Saves -> InHand] /\ \A t \in Saves : Fits(save[t])
  BY TypeInvParts
<1>2. Tables(doc') /\ NoneUnborn(doc, doc')
  <2>1. CASE doc' = doc
    BY <1>1, <2>1 DEF NoneUnborn
  <2>2. CASE \E d \in Docs : \E row : MayStore(d, row) /\ doc' = [doc EXCEPT ![d] = row]
    BY <1>1, <2>2, RowStored
  <2>3. ASSUME NEW d \in Docs, NEW e \in Docs, NEW row, MayStore(e, row),
               doc' = [doc EXCEPT ![d] = Gone, ![e] = row]
        PROVE  Tables(doc') /\ NoneUnborn(doc, doc')
    <3> DEFINE rows == [doc EXCEPT ![d] = Gone]
    <3>1. MayStore(d, Gone)
      BY DEF MayStore
    <3>2. Tables(rows) /\ NoneUnborn(doc, rows)
      BY <1>1, <3>1, RowStored
    <3>3. doc' = [rows EXCEPT ![e] = row]
      BY <2>3
    <3> HIDE DEF rows
    <3>4. Tables(doc') /\ NoneUnborn(rows, doc')
      BY <2>3, <3>2, <3>3, RowStored
    <3> QED BY <3>2, <3>4 DEF NoneUnborn
  <2> QED BY <2>1, <2>2, <2>3
<1>3. /\ save' \in [Saves -> InHand] /\ \A t \in Saves : Fits(save'[t])
      /\ \A t \in Saves : save'[t].at = "read" => doc[save'[t].d] # Unborn
  BY <1>1, HandStored DEF Born
<1>4. Born(doc', save')
  BY <1>2, <1>3 DEF Born, NoneUnborn
<1> QED BY <1>2, <1>3, <1>4, TypeInvParts, TypeInvPartsNext

(* The shapes hold at first.                                               *)
LEMMA TypeInit == Init => TypeInv
<1> SUFFICES ASSUME Init PROVE TypeInv
  OBVIOUS
<1>1. Tables(doc)
  BY DEF Init, Tables, Unborn
<1>2. /\ save \in [Saves -> InHand] /\ \A s \in Saves : Fits(save[s])
      /\ Born(doc, save)
  BY DEF Init, Idle, InHand, Fits, Born
<1>3. from \in [Docs -> Sent] /\ first \in [Parses -> SUBSET Words]
  BY DEF Init, Sent
<1>4. begun \in Nat /\ alone \in BOOLEAN /\ kind \in Mixes /\ touched \in [Docs -> BOOLEAN]
  BY DEF Init
<1> QED BY <1>1, <1>2, <1>3, <1>4, TypeInvParts

(* Every step keeps the shapes: one case per action.                       *)
LEMMA TypeStep == TypeInv /\ [Next]_vars => TypeInv'
<1> SUFFICES ASSUME TypeInv, [Next]_vars
             PROVE  TypeInv'
  OBVIOUS
<1>0. /\ begun \in Nat /\ TypeOK
      /\ Tables(doc) /\ save \in [Saves -> InHand] /\ \A s \in Saves : Fits(save[s])
      /\ from \in [Docs -> Sent] /\ touched \in [Docs -> BOOLEAN]
      /\ first \in [Parses -> SUBSET Words]
  BY TypeInvParts DEF TypeInv
<1>t. ASSUME Turn PROVE begun' \in Nat
  BY <1>0, <1>t DEF Turn
<1>1. ASSUME NEW d \in Docs, NEW b \in Bodies, Create(d, b)
      PROVE  TypeInv'
  <2>1. TypeOf[d] # "line" => b.title # Same
    BY <1>1 DEF Create
  <2>2. /\ Created(d, b) \in Row /\ MayStore(d, Created(d, b))
        /\ Created(d, b).aiSource \in Sent /\ b.p \in Sent
    BY <2>1, CreatedTyped, MarksAssumption DEF Row, Sent, MayStore
  <2>3. /\ doc' = [doc EXCEPT ![d] = Created(d, b)]
        /\ from' = [from EXCEPT ![d] = Created(d, b).aiSource]
        /\ Remember(d, Created(d, b), b.p, Makes(d))
        /\ \/ save' = save
           \/ /\ TypeOf[d] = "line"
              /\ \E s \in Saves : save' = [save EXCEPT ![s] = ToLabel(d, Created(d, b), b.p)]
        /\ kind' = kind /\ touched' = touched /\ alone' = alone /\ begun' \in Nat
    BY <1>1, <1>t DEF Create, Created
  <2>4. \/ save' = save
        \/ \E s \in Saves : \E on : MayHold(on) /\ save' = [save EXCEPT ![s] = on]
    BY <2>2, <2>3, MayHoldLine
  <2>5. first' \in [Parses -> SUBSET Words]
    BY <1>0, <2>2, <2>3, WordsRemembered
  <2>6. from' \in [Docs -> Sent]
    BY <1>0, <2>2, <2>3
  <2> QED BY <1>0, <2>2, <2>3, <2>4, <2>5, <2>6, ShapesKept
<1>2. ASSUME NEW d \in Docs, NEW b \in Bodies, NEW s \in Saves, Read(s, d, b)
      PROVE  TypeInv'
  <2> DEFINE on == [at |-> "read", d |-> d, body |-> b, before |-> doc[d]]
  <2>1. doc[d] \in Row /\ Allowed(d, b) /\ doc[d] # Unborn
    BY <1>0, <1>2, KeptIsRow DEF Read
  <2>2. MayHold(on)
    BY <2>1 DEF InHand, Fits, MayHold
  <2>3. /\ save' = [save EXCEPT ![s] = on] /\ begun' \in Nat
        /\ doc' = doc /\ kind' = kind /\ first' = first /\ from' = from
        /\ touched' = touched /\ alone' = alone
    BY <1>2, <1>t DEF Read
  <2> HIDE DEF on
  <2> QED BY <1>0, <2>2, <2>3, ShapesKept
<1>3. ASSUME NEW s \in Saves, NEW l \in Docs, NEW t \in Docs, NEW p \in Sent, doc[l].at = "kept",
             NEW x \in Parts(p, doc[l].body), x.title # Null, FileRead(s, l, t, p, x)
      PROVE  TypeInv'
  <2> DEFINE on == [at |-> "filing", d |-> l, to |-> t, p |-> p, parts |-> x, before |-> doc[l]]
  <2>1. doc[l] \in Row /\ TypeOf[l] = "line" /\ TypeOf[t] = "task"
    BY <1>0, <1>3, KeptIsRow DEF FileRead
  <2>2. x \in Words
    BY <2>1, <1>3, PartsTyped DEF Row, Text
  <2>3. MayHold(on)
    BY <1>3, <2>1, <2>2 DEF InHand, Fits, MayHold
  <2>4. /\ save' = [save EXCEPT ![s] = on] /\ begun' \in Nat
        /\ doc' = doc /\ kind' = kind /\ first' = first /\ from' = from
        /\ touched' = touched /\ alone' = alone
    BY <1>3, <1>t DEF FileRead
  <2> HIDE DEF on
  <2> QED BY <1>0, <2>3, <2>4, ShapesKept
<1>4. ASSUME NEW s \in Saves, Write(s)
      PROVE  TypeInv'
  <2> DEFINE on == save[s]
             d == on.d
             answers == ~on.body.clear /\ Matches(on.body.p, Takes(d))
  <2>1. on.at = "read" /\ begun' = begun /\ kind' = kind /\ alone' = alone
    BY <1>4 DEF Write
  <2>2. /\ d \in Docs /\ on.body \in Bodies /\ on.body.p \in Sent /\ on.body.clear \in BOOLEAN
        /\ doc[d] # Unborn
    <3>1. on \in InHand /\ Born(doc, save)
      BY <1>0 DEF TypeInv
    <3> HIDE DEF on
    <3> QED BY <2>1, <3>1, InHandTyped, MarksAssumption DEF Sent, Born, on
  <2>3. CASE doc[d] = Gone
    <3>1. /\ save' = [save EXCEPT ![s] = Idle]
          /\ doc' = doc /\ first' = first /\ from' = from /\ touched' = touched
      BY <1>4, <2>3 DEF Write
    <3> QED BY <1>0, <2>1, <3>1, MayHoldIdle, ShapesKept
  <2>4. CASE doc[d].at = "kept"
    <3>1. Patched(on) \in Row /\ MayStore(d, Patched(on))
      BY <2>1, <2>4, PatchedTyped DEF MayStore
    <3>2. doc[d] # Gone
      BY <2>4 DEF Gone
    <3>3. /\ doc' = [doc EXCEPT ![d] = Patched(on)]
          /\ Remember(d, Patched(on), on.body.p, Takes(d))
          /\ \/ TypeOf[d] = "line" /\ save' = [save EXCEPT ![s] = ToLabel(d, Patched(on), on.body.p)]
             \/ save' = [save EXCEPT ![s] = Idle]
          /\ from' = [from EXCEPT ![d] = IF on.body.clear THEN Null
                                         ELSE IF answers /\ @ = Null THEN on.body.p ELSE @]
          /\ touched' = [touched EXCEPT ![d] = ~on.body.clear /\ ~answers]
      BY <1>4, <3>2 DEF Write, Patched
    <3> HIDE DEF on, answers
    <3>4. from' \in [Docs -> Sent]
      <4>1. Null \in Sent
        BY DEF Sent
      <4> QED BY <1>0, <2>2, <3>3, <4>1
    <3>5. touched' \in [Docs -> BOOLEAN]
      BY <1>0, <3>3
    <3>6. \E h : MayHold(h) /\ save' = [save EXCEPT ![s] = h]
      BY <2>2, <3>1, <3>3, MayHoldLine, MayHoldIdle
    <3>7. first' \in [Parses -> SUBSET Words]
      BY <1>0, <2>2, <3>1, <3>3, WordsRemembered
    <3> QED BY <1>0, <2>1, <2>2, <3>1, <3>3, <3>4, <3>5, <3>6, <3>7, ShapesKept
  <2> QED BY <1>0, <2>2, <2>3, <2>4, KeptIsRow
<1>5. ASSUME NEW s \in Saves, File(s)
      PROVE  TypeInv'
  <2> DEFINE on == save[s]
             kinds == {"sandbox", "task_tidy"}
  <2>1. /\ on.at = "filing" /\ begun' = begun /\ kind' = kind /\ alone' = alone /\ touched' = touched
        /\ save' = [save EXCEPT ![s] = Idle]
    BY <1>5 DEF File
  <2>2. on.d \in Docs /\ on.to \in Docs /\ on.p \in Sent /\ TypeOf[on.to] = "task"
    <3>1. on \in InHand /\ Fits(on)
      BY <1>0
    <3> HIDE DEF on
    <3> QED BY <2>1, <3>1, InHandTyped DEF Fits
  <2>3. CASE doc[on.d] = Gone \/ doc[on.to] # Unborn
    <3>1. doc' = doc /\ from' = from /\ first' = first
      BY <1>5, <2>3 DEF File
    <3> QED BY <1>0, <2>1, <3>1, MayHoldIdle, ShapesKept
  <2>4. CASE ~(doc[on.d] = Gone \/ doc[on.to] # Unborn)
    <3>1. Filed(on) \in Row /\ MayStore(on.to, Filed(on))
      BY <2>1, <2>2, FiledTyped DEF MayStore
    <3>2. /\ doc' = [doc EXCEPT ![on.d] = Gone, ![on.to] = Filed(on)]
          /\ from' = [from EXCEPT ![on.to] = IF from[on.d] # Null THEN from[on.d]
                                             ELSE IF Matches(on.p, kinds) THEN on.p ELSE Null]
          /\ Remember(on.to, Filed(on), on.p, kinds)
      BY <1>5, <2>4 DEF File, Filed
    <3> HIDE DEF on, kinds
    <3>3. from' \in [Docs -> Sent]
      <4>1. Null \in Sent
        BY DEF Sent
      <4> QED BY <1>0, <2>2, <3>2, <4>1
    <3>4. first' \in [Parses -> SUBSET Words]
      BY <1>0, <2>2, <3>1, <3>2, WordsRemembered
    <3> QED BY <1>0, <2>1, <2>2, <3>1, <3>2, <3>3, <3>4, MayHoldIdle, ShapesKept
  <2> QED BY <2>3, <2>4
<1>6. ASSUME NEW s \in Saves, LabelLine(s) \/ Cut(s)
      PROVE  TypeInv'
  <2>1. /\ save' = [save EXCEPT ![s] = Idle] /\ begun' = begun /\ kind' = kind /\ alone' = alone
        /\ doc' = doc /\ first' = first /\ from' = from /\ touched' = touched
    BY <1>6 DEF LabelLine, Cut
  <2> QED BY <1>0, <2>1, MayHoldIdle, ShapesKept
<1>7. ASSUME NEW d \in Docs, Delete(d)
      PROVE  TypeInv'
  <2>1. /\ doc' = [doc EXCEPT ![d] = Gone] /\ begun' \in Nat /\ kind' = kind /\ alone' = alone
        /\ save' = save /\ first' = first /\ from' = from /\ touched' = touched
    BY <1>7, <1>t DEF Delete
  <2> QED BY <1>0, <2>1, ShapesKept DEF MayStore
<1>8. CASE UNCHANGED vars
  BY <1>0, <1>8, ShapesKept DEF vars
<1> QED BY <1>1, <1>2, <1>3, <1>4, <1>5, <1>6, <1>7, <1>8 DEF Next

(* The shape of the state, for any documents, answers, requests and bound. *)
THEOREM TypeCorrect == Spec => []TypeOK
<1>1. TypeInv => TypeOK
  BY DEF TypeInv
<1> QED BY <1>1, TypeInit, TypeStep, PTL DEF Spec

-----------------------------------------------------------------------------
(* The marks.                                                              *)

Single == \A s, t \in Saves : save[s] # Idle /\ save[t] # Idle => s = t

(* Nothing changes under the request that is served.                       *)
Fresh ==
  \A s \in Saves :
    /\ save[s] # Idle => doc[save[s].d].at = "kept"
    /\ save[s].at \in {"read", "filing"} => save[s].before = doc[save[s].d]

Marked ==
  \A d \in Docs : doc[d].at = "kept" =>
    /\ doc[d].aiSource = from[d]
    /\ doc[d].aiSource # Null /\ ~touched[d] => doc[d].aiResult = fields(doc[d])

MarksInv == alone => Single /\ Fresh /\ Marked

(* A step under which the requests, the tables and the marks stay right.   *)
LEMMA HandsKept ==
  ASSUME save \in [Saves -> InHand], NEW s \in Saves, NEW on,
         \A t \in Saves : t # s => save[t] = Idle,
         save' = [save EXCEPT ![s] = on],
         \/ on = Idle
         \/ /\ on.at \in {"unlabelled", "read", "filing"} /\ doc'[on.d].at = "kept"
            /\ on.at \in {"read", "filing"} => on.before = doc'[on.d]
  PROVE  Single' /\ Fresh'
<1>1. \A t \in Saves : save'[t] = IF t = s THEN on ELSE Idle
  OBVIOUS
<1>2. Idle.at \notin {"read", "filing"}
  BY DEF Idle
<1>3. Single'
  BY <1>1 DEF Single
<1> QED BY <1>1, <1>2, <1>3 DEF Fresh

(* Where one document changes, only its own mark is to be looked at.       *)
LEMMA MarkedKept ==
  ASSUME Tables(doc), from \in [Docs -> Sent], touched \in [Docs -> BOOLEAN], Marked,
         NEW d \in Docs, doc'[d].at = "kept" =>
            /\ doc'[d].aiSource = from'[d]
            /\ doc'[d].aiSource # Null /\ ~touched'[d] => doc'[d].aiResult = fields(doc'[d]),
         \A e \in Docs \ {d} : /\ doc'[e] = doc[e] \/ doc'[e] = Gone
                               /\ from'[e] = from[e] /\ touched'[e] = touched[e]
  PROVE  Marked'
<1>1. Gone.at # "kept"
  BY DEF Gone
<1> QED BY <1>1 DEF Marked

(* Every step keeps the marks right while requests do not overlap.         *)
LEMMA MarksStep == TypeInv /\ MarksInv /\ [Next]_vars => MarksInv'
<1> SUFFICES ASSUME TypeInv, MarksInv, [Next]_vars, alone'
             PROVE  Single' /\ Fresh' /\ Marked'
  BY DEF MarksInv
<1>0. /\ TypeOK /\ Tables(doc) /\ save \in [Saves -> InHand]
      /\ from \in [Docs -> Sent] /\ touched \in [Docs -> BOOLEAN]
  BY TypeInvParts DEF TypeInv
<1>a. alone' = alone
  BY DEF Next, Create, Read, FileRead, Write, File, LabelLine, Cut, Delete, vars
<1>b. Single /\ Fresh /\ Marked
  BY <1>a DEF MarksInv
<1>t. ASSUME Turn PROVE \A s \in Saves : save[s] = Idle
  BY <1>t, <1>a DEF Turn
<1>m. ASSUME doc' = doc, from' = from, touched' = touched PROVE Marked'
  BY <1>m, <1>b DEF Marked
<1>i. ASSUME NEW s \in Saves, save[s] # Idle PROVE \A t \in Saves : t # s => save[t] = Idle
  BY <1>i, <1>b DEF Single
<1>1. ASSUME NEW d \in Docs, NEW b \in Bodies, Create(d, b)
      PROVE  Single' /\ Fresh' /\ Marked'
  <2>1. TypeOf[d] # "line" => b.title # Same
    BY <1>1 DEF Create
  <2>2. /\ doc' = [doc EXCEPT ![d] = Created(d, b)]
        /\ from' = [from EXCEPT ![d] = Created(d, b).aiSource]
        /\ touched' = touched
        /\ \/ save' = save
           \/ \E s \in Saves : save' = [save EXCEPT ![s] = ToLabel(d, Created(d, b), b.p)]
        /\ \A s \in Saves : save[s] = Idle
    BY <1>1, <1>t DEF Create, Created
  <2>3. /\ Created(d, b).at = "kept"
        /\ Created(d, b).aiSource # Null => Created(d, b).aiResult = fields(Created(d, b))
    BY <2>1, CreatedTyped DEF Row
  <2>4. doc'[d] = Created(d, b) /\ from'[d] = Created(d, b).aiSource
    BY <1>0, <2>2 DEF Tables
  <2>5. \A e \in Docs \ {d} : doc'[e] = doc[e] /\ from'[e] = from[e] /\ touched'[e] = touched[e]
    BY <1>0, <2>2 DEF Tables
  <2>6. Marked'
    BY <1>0, <1>b, <2>3, <2>4, <2>5, MarkedKept
  <2>7. CASE save' = save
    <3>1. Single'
      BY <2>2, <2>7 DEF Single
    <3>2. Idle.at \notin {"read", "filing"}
      BY DEF Idle
    <3>3. Fresh'
      BY <2>2, <2>7, <3>2 DEF Fresh
    <3> QED BY <2>6, <3>1, <3>3
  <2>8. ASSUME NEW s \in Saves, save' = [save EXCEPT ![s] = ToLabel(d, Created(d, b), b.p)]
        PROVE  Single' /\ Fresh'
    <3> DEFINE on == ToLabel(d, Created(d, b), b.p)
    <3>1. on.at = "unlabelled" /\ on.d = d
      BY DEF ToLabel
    <3> HIDE DEF on
    <3> QED BY <1>0, <2>2, <2>3, <2>4, <2>8, <3>1, HandsKept DEF on
  <2> QED BY <2>2, <2>6, <2>7, <2>8
<1>2. ASSUME NEW d \in Docs, NEW b \in Bodies, NEW s \in Saves, Read(s, d, b)
      PROVE  Single' /\ Fresh' /\ Marked'
  <2> DEFINE on == [at |-> "read", d |-> d, body |-> b, before |-> doc[d]]
  <2>1. /\ \A t \in Saves : save[t] = Idle
        /\ save' = [save EXCEPT ![s] = on] /\ doc[d].at = "kept"
        /\ doc' = doc /\ from' = from /\ touched' = touched
    BY <1>2, <1>t DEF Read
  <2>2. on.at = "read" /\ on.d = d /\ on.before = doc[d]
    OBVIOUS
  <2> HIDE DEF on
  <2> QED BY <1>0, <1>m, <2>1, <2>2, HandsKept
<1>3. ASSUME NEW s \in Saves, NEW l \in Docs, NEW t \in Docs, NEW p \in Sent, NEW x,
             FileRead(s, l, t, p, x)
      PROVE  Single' /\ Fresh' /\ Marked'
  <2> DEFINE on == [at |-> "filing", d |-> l, to |-> t, p |-> p, parts |-> x, before |-> doc[l]]
  <2>1. /\ \A r \in Saves : save[r] = Idle
        /\ save' = [save EXCEPT ![s] = on] /\ doc[l].at = "kept"
        /\ doc' = doc /\ from' = from /\ touched' = touched
    BY <1>3, <1>t DEF FileRead
  <2>2. on.at = "filing" /\ on.d = l /\ on.before = doc[l]
    OBVIOUS
  <2> HIDE DEF on
  <2> QED BY <1>0, <1>m, <2>1, <2>2, HandsKept
<1>4. ASSUME NEW s \in Saves, Write(s)
      PROVE  Single' /\ Fresh' /\ Marked'
  <2> DEFINE on == save[s]
             d == on.d
             answers == ~on.body.clear /\ Matches(on.body.p, Takes(d))
  <2>1. on.at = "read"
    BY <1>4 DEF Write
  <2>2. /\ d \in Docs /\ on.body.clear \in BOOLEAN /\ on # Idle
        /\ doc[d].at = "kept" /\ on.before = doc[d]
    <3>1. on \in InHand
      BY <1>0
    <3>2. /\ on # Idle => doc[d].at = "kept"
          /\ on.at = "read" => on.before = doc[d]
      BY <1>b DEF Fresh
    <3> HIDE DEF on
    <3> QED BY <2>1, <3>1, <3>2, InHandTyped, MarksAssumption DEF Idle
  <2>3. /\ Patched(on).at = "kept"
        /\ Patched(on).aiSource = IF on.body.clear THEN Null
                                  ELSE IF Matches(on.body.p, Takes(d)) /\ on.before.aiSource = Null THEN on.body.p
                                       ELSE doc[d].aiSource
        /\ answers => Patched(on).aiResult = fields(Patched(on))
    BY <2>1, <2>2, PatchedTyped DEF Row
  <2>4. doc[d] # Gone
    BY <2>2 DEF Gone
  <2>5. /\ doc' = [doc EXCEPT ![d] = Patched(on)]
        /\ \/ save' = [save EXCEPT ![s] = ToLabel(d, Patched(on), on.body.p)]
           \/ save' = [save EXCEPT ![s] = Idle]
        /\ from' = [from EXCEPT ![d] = IF on.body.clear THEN Null
                                       ELSE IF answers /\ @ = Null THEN on.body.p ELSE @]
        /\ touched' = [touched EXCEPT ![d] = ~on.body.clear /\ ~answers]
    BY <1>4, <2>4 DEF Write, Patched
  <2>6. \A t \in Saves : t # s => save[t] = Idle
    BY <1>i, <2>2
  <2>7. doc[d].aiSource = from[d]
    BY <1>b, <2>2 DEF Marked
  <2>8. answers <=> ~on.body.clear /\ Matches(on.body.p, Takes(d))
    OBVIOUS
  <2> HIDE DEF on, answers
  <2>9. /\ doc'[d] = Patched(on)
        /\ from'[d] = IF on.body.clear THEN Null ELSE IF answers /\ from[d] = Null THEN on.body.p ELSE from[d]
        /\ touched'[d] = (~on.body.clear /\ ~answers)
        /\ \A e \in Docs \ {d} : doc'[e] = doc[e] /\ from'[e] = from[e] /\ touched'[e] = touched[e]
    BY <1>0, <2>2, <2>5 DEF Tables
  <2>10. Patched(on).aiSource = from'[d]
    BY <2>2, <2>3, <2>7, <2>8, <2>9
  <2>11. Patched(on).aiSource # Null /\ ~touched'[d] => answers
    BY <2>2, <2>3, <2>9
  <2>12. Marked'
    BY <1>0, <1>b, <2>2, <2>3, <2>9, <2>10, <2>11, MarkedKept
  <2>13. ToLabel(d, Patched(on), on.body.p).at = "unlabelled" /\ ToLabel(d, Patched(on), on.body.p).d = d
    BY DEF ToLabel
  <2>14. Single' /\ Fresh'
    BY <1>0, <2>3, <2>5, <2>6, <2>9, <2>13, HandsKept
  <2> QED BY <2>12, <2>14
<1>5. ASSUME NEW s \in Saves, File(s)
      PROVE  Single' /\ Fresh' /\ Marked'
  <2> DEFINE on == save[s]
             kinds == {"sandbox", "task_tidy"}
  <2>1. on.at = "filing" /\ save' = [save EXCEPT ![s] = Idle] /\ touched' = touched
    BY <1>5 DEF File
  <2>2. on.d \in Docs /\ on.to \in Docs /\ on # Idle
    <3>1. on \in InHand
      BY <1>0
    <3> HIDE DEF on
    <3> QED BY <2>1, <3>1, InHandTyped DEF Idle
  <2>3. doc[on.d].at = "kept" /\ on.before = doc[on.d] /\ doc[on.d].aiSource = from[on.d]
    BY <1>b, <2>1, <2>2 DEF Fresh, Marked
  <2>4. Single' /\ Fresh'
    BY <1>0, <1>i, <2>1, <2>2, HandsKept
  <2>5. CASE doc[on.d] = Gone \/ doc[on.to] # Unborn
    <3>1. doc' = doc /\ from' = from
      BY <1>5, <2>5 DEF File
    <3> QED BY <1>m, <2>1, <2>4, <3>1
  <2>6. CASE ~(doc[on.d] = Gone \/ doc[on.to] # Unborn)
    <3>1. /\ doc' = [doc EXCEPT ![on.d] = Gone, ![on.to] = Filed(on)]
          /\ from' = [from EXCEPT ![on.to] = IF from[on.d] # Null THEN from[on.d]
                                             ELSE IF Matches(on.p, kinds) THEN on.p ELSE Null]
      BY <1>5, <2>6 DEF File, Filed
    <3>2. /\ Filed(on).aiSource = IF on.before.aiSource # Null THEN on.before.aiSource
                                  ELSE IF Matches(on.p, kinds) THEN on.p ELSE Null
          /\ Filed(on).aiSource # Null => Filed(on).aiResult = fields(Filed(on))
      BY <2>1, FiledTyped
    <3> HIDE DEF on, kinds
    <3>3. /\ doc'[on.to] = Filed(on)
          /\ from'[on.to] = IF from[on.d] # Null THEN from[on.d]
                            ELSE IF Matches(on.p, kinds) THEN on.p ELSE Null
          /\ \A e \in Docs \ {on.to} : /\ doc'[e] = doc[e] \/ doc'[e] = Gone
                                       /\ from'[e] = from[e] /\ touched'[e] = touched[e]
      BY <1>0, <2>1, <2>2, <3>1 DEF Tables
    <3>4. Filed(on).aiSource = from'[on.to]
      BY <2>3, <3>2, <3>3
    <3>5. Marked'
      BY <1>0, <1>b, <2>2, <3>2, <3>3, <3>4, MarkedKept
    <3> QED BY <2>4, <3>5
  <2> QED BY <2>5, <2>6
<1>6. ASSUME NEW s \in Saves, LabelLine(s)
      PROVE  Single' /\ Fresh' /\ Marked'
  <2>1. /\ save[s] # Idle /\ save' = [save EXCEPT ![s] = Idle]
        /\ doc' = doc /\ from' = from /\ touched' = touched
    BY <1>6 DEF LabelLine, Idle
  <2> QED BY <1>0, <1>i, <1>m, <2>1, HandsKept
<1>7. ASSUME NEW d \in Docs, Delete(d)
      PROVE  Single' /\ Fresh' /\ Marked'
  <2>1. /\ \A t \in Saves : save[t] = Idle
        /\ save' = save /\ doc' = [doc EXCEPT ![d] = Gone]
        /\ from' = from /\ touched' = touched
    BY <1>7, <1>t DEF Delete
  <2>2. /\ doc'[d] = Gone
        /\ \A e \in Docs \ {d} : doc'[e] = doc[e] /\ from'[e] = from[e] /\ touched'[e] = touched[e]
    BY <1>0, <2>1 DEF Tables
  <2>3. Gone.at # "kept" /\ Idle.at \notin {"read", "filing"}
    BY DEF Gone, Idle
  <2>4. Marked'
    BY <1>0, <1>b, <2>2, <2>3, MarkedKept
  <2>5. Single' /\ Fresh'
    BY <2>1, <2>3 DEF Single, Fresh
  <2> QED BY <2>4, <2>5
<1>8. CASE \E s \in Saves : Cut(s)
  BY <1>8, <1>a DEF Cut
<1>9. CASE UNCHANGED vars
  <2>1. save' = save /\ doc' = doc /\ from' = from /\ touched' = touched
    BY <1>9 DEF vars
  <2> QED BY <1>b, <1>m, <2>1 DEF Single, Fresh
<1> QED BY <1>1, <1>2, <1>3, <1>4, <1>5, <1>6, <1>7, <1>8, <1>9 DEF Next

(* No document is marked at first.                                         *)
LEMMA MarksInit == Init => MarksInv
<1> SUFFICES ASSUME Init PROVE Single /\ Fresh /\ Marked
  BY DEF MarksInv
<1>1. Single /\ Fresh
  BY DEF Init, Single, Fresh, Idle
<1>2. Marked
  BY DEF Init, Marked, Unborn
<1> QED BY <1>1, <1>2

(* The marks and the shapes hold together.                                 *)
LEMMA MarksInvariant == Spec => [](TypeInv /\ MarksInv)
BY TypeInit, TypeStep, MarksInit, MarksStep, PTL DEF Spec

(* "The first source is the one the user means" (domain/aiMark.ts), for    *)
(* any documents and answers, through any answers, edits and filings.      *)
THEOREM FirstWordsCorrect == Spec => []FirstWords
<1>1. TypeInv /\ MarksInv => FirstWords
  BY DEF MarksInv, Marked, FirstWords
<1> QED BY <1>1, MarksInvariant, PTL

(* "Equal means as AI left it" (domain/aiMark.ts), likewise.               *)
THEOREM AsLeftCorrect == Spec => []AsLeft
<1>1. TypeInv /\ MarksInv => AsLeft
  BY DEF MarksInv, Marked, AsLeft
<1> QED BY <1>1, MarksInvariant, PTL

-----------------------------------------------------------------------------
(* The count.                                                              *)

(* What the label says of an answer, and what the first save left of it.   *)
AsSent(p, f) == f.body = p /\ (kind[p] # "note" => f.title \in {p, Null})
Tells(p, r, f) == edited(p, r) <=> ~AsSent(p, f)

Agreed(lab, firsts, p) ==
  \/ lab[p] = {} /\ firsts[p] = {}
  \/ \E r, f : lab[p] = {r} /\ firsts[p] = {f} /\ Tells(p, r, f)

Agree(p) == Agreed(label, first, p)

(* A line was saved, and its label is on its way.                          *)
Awaits(s, p) ==
  /\ save[s].at = "unlabelled" /\ save[s].p = p /\ kind[p] = "sandbox"
  /\ label[p] = {} /\ first[p] = {fields(save[s].row)}

(* A request that labels a line has remembered it.                         *)
Seen ==
  \A s \in Saves : save[s].at = "unlabelled" =>
    /\ save[s].row.title = Null
    /\ Matches(save[s].p, {"sandbox"}) => first[save[s].p] # {}

CountInv ==
  /\ Seen
  /\ \A p \in Parses : kind[p] # "sandbox" => Agree(p)
  /\ alone => \A p \in Parses : Agree(p) \/ \E s \in Saves : Awaits(s, p)

(* The kinds that a save into a document can take an answer of.            *)
Routed(d, title, p, kinds) ==
  \/ TypeOf[d] = "note" /\ kinds = {"note"}
  \/ TypeOf[d] = "line" /\ kinds = {"sandbox"} /\ title = Null
  \/ TypeOf[d] = "task" /\ title # Null /\ kinds \subseteq Kinds

(* The label agrees with the save that gave it, for each route and kind.   *)
LEMMA FinalTells ==
  ASSUME TypeInv, NEW d \in Docs, NEW row, NEW p \in Parses, NEW kinds,
         Routed(d, row.title, p, kinds), Matches(p, kinds)
  PROVE  /\ Tells(p, FinalOf(d, row, p), fields(row))
         /\ kind[p] # "note" /\ TypeOf[d] = "task" =>
              Tells(p, Final(d, row.title, row.body, Null), fields(row))
<1>1. kind[p] \in Kinds /\ kind[p] \in kinds
  BY MarksAssumption DEF TypeInv, TypeOK, Matches
<1>2. p # Null
  BY DEF Matches
<1>3. fields(row).title = row.title /\ fields(row).body = row.body
  BY DEF fields
<1>4. ASSUME NEW e, NEW x, NEW y, NEW z
      PROVE  /\ Final(e, x, y, z).finalTitle = x /\ Final(e, x, y, z).finalDescription = y
             /\ Final(e, x, y, z).finalContent = z
  BY DEF Final
<1>5. AsSent(p, fields(row)) <=> row.body = p /\ (kind[p] # "note" => row.title \in {p, Null})
  BY <1>3 DEF AsSent
<1>6. CASE TypeOf[d] = "note"
  <2>1. kind[p] = "note" /\ FinalOf(d, row, p) = Final(d, row.title, Null, row.body)
    BY <1>1, <1>6 DEF Routed, FinalOf
  <2> QED BY <1>4, <1>5, <1>6, <2>1 DEF Tells, edited
<1>7. CASE TypeOf[d] = "line"
  <2>1. kind[p] = "sandbox" /\ FinalOf(d, row, p) = Final(d, Null, Null, row.body) /\ row.title = Null
    BY <1>1, <1>7 DEF Routed, FinalOf
  <2> QED BY <1>4, <1>5, <1>7, <2>1 DEF Tells, edited
<1>8. CASE TypeOf[d] = "task"
  <2>1. row.title # Null
    BY <1>8 DEF Routed
  <2>2. CASE kind[p] = "note"
    <3>1. FinalOf(d, row, p) = Final(d, Null, Null, row.body)
      BY <1>2, <1>8, <2>2 DEF FinalOf, Matches
    <3> QED BY <1>4, <1>5, <2>2, <3>1 DEF Tells, edited
  <2>3. CASE kind[p] # "note"
    <3>1. FinalOf(d, row, p) = Final(d, row.title, row.body, Null)
      BY <1>8, <2>3 DEF FinalOf, Matches
    <3> QED BY <1>4, <1>5, <2>1, <2>3, <3>1 DEF Tells, edited
  <2> QED BY <2>2, <2>3
<1> QED BY <1>6, <1>7, <1>8 DEF Routed

(* A save that remembers and labels at once.                               *)
LEMMA AgreeTogether ==
  ASSUME TypeInv, Shaped(label), NEW q \in Parses, Agree(q),
         NEW d, NEW row, NEW p \in Sent, NEW kinds, NEW final, Remember(d, row, p, kinds),
         Matches(p, kinds) => Tells(p, final, fields(row))
  PROVE  Agreed(linkDictationParse(p, kinds, final), first', q)
<1> DEFINE after == linkDictationParse(p, kinds, final)
<1>1. first = [r \in Parses |-> first[r]] /\ label = [r \in Parses |-> label[r]]
  BY DEF TypeInv, TypeOK, Shaped
<1>2. CASE q = p /\ Matches(p, kinds) /\ label[p] = {}
  <2>1. first[p] = {}
    BY <1>2 DEF Agree, Agreed
  <2>2. after[p] = {final} /\ first'[p] = {fields(row)}
    BY <1>1, <1>2, <2>1 DEF linkDictationParse, Remember
  <2> HIDE DEF after
  <2>3. Agreed(after, first', q)
    BY <1>2, <2>2 DEF Agreed
  <2> QED BY <2>3 DEF after
<1>3. CASE ~(q = p /\ Matches(p, kinds) /\ label[p] = {})
  <2>1. after[q] = label[q]
    BY <1>1, <1>3 DEF linkDictationParse
  <2>2. first'[q] = first[q]
    BY <1>1, <1>3 DEF Agree, Agreed, Remember
  <2> HIDE DEF after
  <2>3. Agreed(after, first', q)
    BY <2>1, <2>2 DEF Agree, Agreed
  <2> QED BY <2>3 DEF after
<1> QED BY <1>2, <1>3

(* The kind of an answer never changes, so neither does what its label     *)
(* tells.                                                                  *)
LEMMA AgreeNext ==
  ASSUME NEW q, kind' = kind
  PROVE  Agree(q)' <=> Agreed(label', first', q)
<1>1. \A r, f : Tells(q, r, f)' <=> Tells(q, r, f)
  BY DEF Tells, edited, AsSent
<1> QED BY <1>1 DEF Agree, Agreed

(* A deletion leaves the words of a label, and what they tell.             *)
LEMMA OffTells ==
  ASSUME NEW r, Label(r), NEW d, NEW p, NEW f
  PROVE  Tells(p, Off(r, d), f) <=> Tells(p, r, f)
<1>1. PICK e, title, description, content : r = Final(e, title, description, content)
  BY DEF Label
<1>2. /\ Off(r, d).finalTitle = r.finalTitle /\ Off(r, d).finalDescription = r.finalDescription
      /\ Off(r, d).finalContent = r.finalContent
  BY <1>1 DEF Final, Off
<1> QED BY <1>2 DEF Tells, edited

(* A label that loses its document agrees as before.                       *)
LEMMA AgreeOff ==
  ASSUME NEW lab, Shaped(lab), NEW firsts, NEW q \in Parses, Agreed(lab, firsts, q), NEW d
  PROVE  Agreed(Unlinked(lab, d), firsts, q)
<1>1. Unlinked(lab, d)[q] = {Off(r, d) : r \in lab[q]}
  BY DEF Unlinked, Off
<1>2. CASE lab[q] = {} /\ firsts[q] = {}
  <2>1. Unlinked(lab, d)[q] = {}
    BY <1>1, <1>2
  <2> QED BY <1>2, <2>1 DEF Agreed
<1>3. ASSUME NEW r, NEW f, lab[q] = {r}, firsts[q] = {f}, Tells(q, r, f)
      PROVE  Agreed(Unlinked(lab, d), firsts, q)
  <2>1. Unlinked(lab, d)[q] = {Off(r, d)}
    BY <1>1, <1>3
  <2>2. Tells(q, Off(r, d), f)
    BY <1>3, OffTells DEF Shaped
  <2> QED BY <1>3, <2>1, <2>2 DEF Agreed
<1> QED BY <1>2, <1>3 DEF Agreed

(* What was remembered of an answer is not forgotten.                      *)
LEMMA NothingForgotten ==
  ASSUME TypeInv, NEW d, NEW row, NEW p, NEW kinds, Remember(d, row, p, kinds), NEW q, first[q] # {}
  PROVE  first'[q] # {}
BY DEF TypeInv, TypeOK, Remember

(* A step that neither saves nor labels.                                   *)
LEMMA CountStill ==
  ASSUME CountInv, kind' = kind, alone' = alone, label' = label, first' = first,
         \A s \in Saves : save'[s] = save[s] \/ save'[s].at # "unlabelled",
         alone => \A s \in Saves : save'[s] = save[s] \/ save[s].at # "unlabelled"
  PROVE  CountInv'
<1>1. Seen'
  BY DEF CountInv, Seen, Matches
<1>2. \A q : Agree(q)' <=> Agree(q)
  BY AgreeNext DEF Agree
<1>3. ASSUME alone, NEW q, NEW s \in Saves, Awaits(s, q)
      PROVE  Awaits(s, q)'
  <2>1. save'[s] = save[s]
    BY <1>3 DEF Awaits
  <2> QED BY <1>3, <2>1 DEF Awaits
<1> QED BY <1>1, <1>2, <1>3 DEF CountInv

(* A transaction that saves an answer and labels its row.                  *)
LEMMA CountTogether ==
  ASSUME TypeInv, Shaped(label), CountInv, kind' = kind, alone' = alone,
         NEW d, NEW row, NEW p \in Sent, NEW kinds, NEW final, Remember(d, row, p, kinds),
         Matches(p, kinds) => Tells(p, final, fields(row)),
         \/ label' = linkDictationParse(p, kinds, final)
         \/ \E l : label' = Unlinked(linkDictationParse(p, kinds, final), l),
         Label(final),
         \A s \in Saves : save'[s] = save[s] \/ save'[s].at # "unlabelled",
         alone => \A s \in Saves : save[s].at # "unlabelled"
  PROVE  CountInv'
<1>1. Seen'
  BY NothingForgotten DEF CountInv, Seen, Matches
<1>2. ASSUME NEW q \in Parses, Agree(q)
      PROVE  Agree(q)'
  <2> DEFINE linked == linkDictationParse(p, kinds, final)
  <2>1. Agreed(linked, first', q)
    BY <1>2, AgreeTogether
  <2>2. Shaped(linked)
    BY LinkOnce
  <2>3. label' = linked \/ \E l : label' = Unlinked(linked, l)
    OBVIOUS
  <2> HIDE DEF linked
  <2>4. Agreed(label', first', q)
    BY <2>1, <2>2, <2>3, AgreeOff
  <2> QED BY <2>4, AgreeNext
<1>3. alone => \A q \in Parses : Agree(q)
  BY DEF CountInv, Awaits
<1> QED BY <1>1, <1>2, <1>3 DEF CountInv

(* A line is saved: its label comes next.                                  *)
LEMMA CountLine ==
  ASSUME TypeInv, CountInv, kind' = kind, alone' = alone, label' = label,
         NEW d, NEW row, row.title = Null, NEW p \in Sent, Remember(d, row, p, {"sandbox"}),
         NEW s \in Saves, save' = [save EXCEPT ![s] = ToLabel(d, row, p)],
         alone => \A t \in Saves : save[t].at # "unlabelled"
  PROVE  CountInv'
<1> DEFINE on == ToLabel(d, row, p)
<1>1. on.at = "unlabelled" /\ on.d = d /\ on.row = row /\ on.p = p
  BY DEF ToLabel
<1>2. /\ first = [q \in Parses |-> first[q]] /\ save = [t \in Saves |-> save[t]]
      /\ p # Null => p \in Parses
  BY DEF TypeInv, TypeOK, Sent
<1>3. \A t \in Saves : save'[t] = IF t = s THEN on ELSE save[t]
  BY <1>2
<1> HIDE DEF on
<1>4. Matches(p, {"sandbox"}) => first'[p] # {}
  BY <1>2 DEF Remember, Matches
<1>5. ASSUME NEW t \in Saves, save'[t].at = "unlabelled"
      PROVE  save'[t].row.title = Null /\ (Matches(save'[t].p, {"sandbox"}) => first'[save'[t].p] # {})
  BY <1>1, <1>3, <1>4, <1>5, NothingForgotten DEF CountInv, Seen
<1>6. Seen'
  BY <1>5 DEF Seen, Matches
<1>7. ASSUME NEW q \in Parses, Agree(q), first'[q] = first[q]
      PROVE  Agree(q)'
  BY <1>7, AgreeNext DEF Agree, Agreed
<1>8. ASSUME NEW q \in Parses, first'[q] # first[q]
      PROVE  q = p /\ kind[q] = "sandbox" /\ first[q] = {} /\ first'[q] = {fields(row)}
  BY <1>2, <1>8 DEF Remember, Matches
<1>9. ASSUME NEW q \in Parses, Agree(q), first'[q] # first[q]
      PROVE  Awaits(s, q)'
  <2>1. label[q] = {}
    BY <1>8, <1>9 DEF Agree, Agreed
  <2> QED BY <1>1, <1>3, <1>8, <1>9, <2>1 DEF Awaits
<1>10. alone => \A q \in Parses : Agree(q)
  BY DEF CountInv, Awaits
<1> QED BY <1>6, <1>7, <1>8, <1>9, <1>10 DEF CountInv

(* The label of a line is written, some time after it was saved.           *)
LEMMA CountLabelled ==
  ASSUME TypeInv, Shaped(label), MarksInv, CountInv, NEW s \in Saves, LabelLine(s)
  PROVE  CountInv'
<1> DEFINE on == save[s]
           final == FinalOf(on.d, on.row, on.p)
           linked == linkDictationParse(on.p, {"sandbox"}, final)
<1>1. /\ on.at = "unlabelled" /\ kind' = kind /\ alone' = alone /\ first' = first
      /\ save' = [save EXCEPT ![s] = Idle]
      /\ label' = IF doc[on.d] = Gone THEN label ELSE linked
  BY DEF LabelLine
<1>2. on.d \in Docs /\ on.row \in Row /\ on.p \in Sent /\ TypeOf[on.d] = "line" /\ on.row.title = Null
  <2>1. on \in InHand /\ Fits(on) /\ on.row.title = Null
    BY <1>1, TypeInvParts DEF CountInv, Seen
  <2> HIDE DEF on
  <2> QED BY <1>1, <2>1, InHandTyped DEF Fits
<1>3. Matches(on.p, {"sandbox"}) => on.p \in Parses /\ first[on.p] # {}
  BY <1>1, <1>2 DEF CountInv, Seen, Matches, Sent
<1>4. Matches(on.p, {"sandbox"}) => Tells(on.p, final, fields(on.row))
  <2>1. Routed(on.d, on.row.title, on.p, {"sandbox"})
    BY <1>2 DEF Routed
  <2> QED BY <1>2, <1>3, <2>1, FinalTells
<1>5. /\ label = [q \in Parses |-> label[q]] /\ save = [t \in Saves |-> save[t]]
  BY DEF TypeInv, TypeOK, Shaped
<1>6. \A t \in Saves : save'[t] = IF t = s THEN Idle ELSE save[t]
  BY <1>1, <1>5
<1>7. Seen'
  BY <1>1, <1>6 DEF CountInv, Seen, Matches, Idle
<1>8. on # Idle
  BY <1>1 DEF Idle
<1>9. CASE alone
  <2>1. doc[on.d].at = "kept" /\ \A t \in Saves : t # s => save[t] = Idle
    BY <1>8, <1>9 DEF MarksInv, Single, Fresh
  <2>2. label' = linked
    BY <1>1, <2>1 DEF Gone
  <2>3. ASSUME NEW q \in Parses, Awaits(s, q)
        PROVE  Agree(q)'
    <3>1. q = on.p /\ Matches(q, {"sandbox"}) /\ label[q] = {} /\ first[q] = {fields(on.row)}
      BY <1>2, <2>3, MarksAssumption DEF Awaits, Matches, Sent, Texts
    <3>2. linked[q] = {final}
      BY <1>5, <3>1 DEF linkDictationParse
    <3> HIDE DEF final, linked, on
    <3>3. Agreed(label', first', q)
      BY <1>1, <1>4, <2>2, <3>1, <3>2 DEF Agreed
    <3> QED BY <1>1, <3>3, AgreeNext
  <2>4. ASSUME NEW q \in Parses, Agree(q)
        PROVE  Agree(q)'
    <3>1. ~(q = on.p /\ Matches(q, {"sandbox"}) /\ label[q] = {})
      BY <1>3, <2>4 DEF Agree, Agreed
    <3>2. linked[q] = label[q]
      BY <1>5, <3>1 DEF linkDictationParse
    <3> HIDE DEF final, linked, on
    <3>3. Agreed(label', first', q)
      BY <1>1, <2>2, <2>4, <3>2 DEF Agree, Agreed
    <3> QED BY <1>1, <3>3, AgreeNext
  <2>5. \A q \in Parses : Agree(q) \/ Awaits(s, q)
    BY <1>9, <2>1 DEF CountInv, Awaits, Idle
  <2> HIDE DEF final, linked, on
  <2> QED BY <1>7, <2>3, <2>4, <2>5 DEF CountInv
<1>10. CASE ~alone
  <2>1. ASSUME NEW q \in Parses, kind[q] # "sandbox"
        PROVE  Agree(q)'
    <3>1. label'[q] = label[q]
      BY <1>1, <1>5, <2>1 DEF linkDictationParse, Matches
    <3>2. Agreed(label', first', q)
      BY <1>1, <2>1, <3>1 DEF CountInv, Agree, Agreed
    <3> QED BY <1>1, <3>2, AgreeNext
  <2> QED BY <1>1, <1>7, <1>10, <2>1 DEF CountInv
<1> QED BY <1>9, <1>10

(* Every step keeps the count right: one case per action.                  *)
LEMMA CountStep == TypeInv /\ Shaped(label) /\ MarksInv /\ CountInv /\ [Next]_vars => CountInv'
<1> SUFFICES ASSUME TypeInv, Shaped(label), MarksInv, CountInv, [Next]_vars
             PROVE  CountInv'
  OBVIOUS
<1>0. TypeOK /\ save \in [Saves -> InHand] /\ (\A s \in Saves : Fits(save[s])) /\ TypeOf \in [Docs -> {"task", "note", "line"}]
  BY TypeInvParts, MarksAssumption DEF TypeInv
<1>u. Idle.at # "unlabelled"
  BY DEF Idle
<1>t. ASSUME Turn PROVE alone => \A s \in Saves : save[s].at # "unlabelled"
  BY <1>t, <1>u DEF Turn
<1>i. ASSUME NEW s \in Saves, save[s].at \in {"read", "filing"}
      PROVE  /\ \A t \in Saves : [save EXCEPT ![s] = Idle][t] = save[t] \/ [save EXCEPT ![s] = Idle][t].at # "unlabelled"
             /\ alone => \A t \in Saves : save[t].at # "unlabelled"
  <2>1. save[s] # Idle
    BY <1>i DEF Idle
  <2>2. \A t \in Saves : [save EXCEPT ![s] = Idle][t] = IF t = s THEN Idle ELSE save[t]
    BY <1>0
  <2>3. alone => \A t \in Saves : t # s => save[t] = Idle
    BY <2>1 DEF MarksInv, Single
  <2> QED BY <1>i, <1>u, <2>2, <2>3
<1>1. ASSUME NEW d \in Docs, NEW b \in Bodies, Create(d, b)
      PROVE  CountInv'
  <2>1. TypeOf[d] # "line" => b.title # Same
    BY <1>1 DEF Create
  <2>2. /\ Created(d, b) \in Row /\ b.p \in Sent
        /\ TypeOf[d] = "line" <=> Created(d, b).title = Null
    BY <2>1, CreatedTyped, MarksAssumption DEF Sent
  <2>3. /\ Remember(d, Created(d, b), b.p, Makes(d))
        /\ IF TypeOf[d] = "line"
           THEN label' = label /\ \E s \in Saves : save' = [save EXCEPT ![s] = ToLabel(d, Created(d, b), b.p)]
           ELSE label' = linkDictationParse(b.p, Makes(d), FinalOf(d, Created(d, b), b.p)) /\ save' = save
        /\ kind' = kind /\ alone' = alone /\ (alone => \A s \in Saves : save[s].at # "unlabelled")
    BY <1>1, <1>t DEF Create, Created
  <2>4. CASE TypeOf[d] = "line"
    <3>1. Makes(d) = {"sandbox"}
      BY <2>4 DEF Makes
    <3> QED BY <2>2, <2>3, <2>4, <3>1, CountLine
  <2>5. CASE TypeOf[d] # "line"
    <3>1. Routed(d, Created(d, b).title, b.p, Makes(d))
      BY <1>0, <2>2, <2>5 DEF Routed, Makes, Kinds
    <3>2. Matches(b.p, Makes(d)) =>
            Tells(b.p, FinalOf(d, Created(d, b), b.p), fields(Created(d, b)))
      BY <2>2, <3>1, FinalTells DEF Matches, Sent
    <3>3. Label(FinalOf(d, Created(d, b), b.p))
      BY FinalOfIsLabel
    <3> QED BY <2>2, <2>3, <2>5, <3>2, <3>3, CountTogether
  <2> QED BY <2>4, <2>5
<1>2. ASSUME NEW d \in Docs, NEW b \in Bodies, NEW s \in Saves, Read(s, d, b)
      PROVE  CountInv'
  <2>1. /\ save' = [save EXCEPT ![s] = [at |-> "read", d |-> d, body |-> b, before |-> doc[d]]]
        /\ save[s] = Idle
        /\ label' = label /\ first' = first /\ kind' = kind /\ alone' = alone
    BY <1>2 DEF Read
  <2>2. \A t \in Saves : save'[t] = save[t] \/ (t = s /\ save'[t].at # "unlabelled")
    BY <1>0, <2>1
  <2> QED BY <1>u, <2>1, <2>2, CountStill
<1>3. ASSUME NEW s \in Saves, NEW l \in Docs, NEW t \in Docs, NEW p \in Sent, NEW x, FileRead(s, l, t, p, x)
      PROVE  CountInv'
  <2>1. /\ save' = [save EXCEPT ![s] =
             [at |-> "filing", d |-> l, to |-> t, p |-> p, parts |-> x, before |-> doc[l]]]
        /\ save[s] = Idle
        /\ label' = label /\ first' = first /\ kind' = kind /\ alone' = alone
    BY <1>3 DEF FileRead
  <2>2. \A r \in Saves : save'[r] = save[r] \/ (r = s /\ save'[r].at # "unlabelled")
    BY <1>0, <2>1
  <2> QED BY <1>u, <2>1, <2>2, CountStill
<1>4. ASSUME NEW s \in Saves, Write(s)
      PROVE  CountInv'
  <2> DEFINE on == save[s]
             d == on.d
             p == on.body.p
  <2>1. on.at = "read" /\ kind' = kind /\ alone' = alone
    BY <1>4 DEF Write
  <2>2. d \in Docs /\ p \in Sent /\ doc[d] # Unborn
    <3>1. on \in InHand /\ Born(doc, save)
      BY <1>0 DEF TypeInv
    <3> HIDE DEF on
    <3> QED BY <2>1, <3>1, InHandTyped, MarksAssumption DEF Sent, Born, on
  <2>3. CASE doc[d] = Gone
    <3>1. save' = [save EXCEPT ![s] = Idle] /\ label' = label /\ first' = first
      BY <1>4, <2>3 DEF Write
    <3> QED BY <1>i, <2>1, <3>1, CountStill
  <2>4. CASE doc[d] # Gone
    <3>0. doc[d].at = "kept"
      BY <1>0, <2>2, <2>4, KeptIsRow
    <3>1. TypeOf[d] = "line" <=> Patched(on).title = Null
      BY <2>1, <3>0, PatchedTyped
    <3>2. /\ Remember(d, Patched(on), p, Takes(d))
          /\ IF TypeOf[d] = "line"
             THEN label' = label /\ save' = [save EXCEPT ![s] = ToLabel(d, Patched(on), p)]
             ELSE label' = linkDictationParse(p, Takes(d), FinalOf(d, Patched(on), p)) /\ save' = [save EXCEPT ![s] = Idle]
      BY <1>4, <2>4 DEF Write, Patched
    <3>3. alone => \A t \in Saves : save[t].at # "unlabelled"
      BY <1>i, <2>1
    <3> HIDE DEF on, d, p
    <3>4. CASE TypeOf[d] = "line"
      <4>1. Takes(d) = {"sandbox"}
        BY <3>4 DEF Takes, Makes
      <4> QED BY <2>1, <2>2, <3>1, <3>2, <3>3, <3>4, <4>1, CountLine
    <3>5. CASE TypeOf[d] # "line"
      <4>1. Routed(d, Patched(on).title, p, Takes(d))
        BY <1>0, <2>2, <3>1, <3>5 DEF Routed, Takes, Makes, Kinds
      <4>2. Matches(p, Takes(d)) => Tells(p, FinalOf(d, Patched(on), p), fields(Patched(on)))
        BY <2>2, <4>1, FinalTells DEF Matches, Sent
      <4>3. Label(FinalOf(d, Patched(on), p))
        BY FinalOfIsLabel
      <4>4. \A t \in Saves : save'[t] = save[t] \/ save'[t].at # "unlabelled"
        BY <1>i, <2>1, <3>2, <3>5 DEF on
      <4> QED BY <2>1, <2>2, <3>2, <3>3, <3>5, <4>2, <4>3, <4>4, CountTogether
    <3> QED BY <3>4, <3>5
  <2> QED BY <2>3, <2>4
<1>5. ASSUME NEW s \in Saves, File(s)
      PROVE  CountInv'
  <2> DEFINE on == save[s]
             kinds == {"sandbox", "task_tidy"}
             final == Final(on.to, Filed(on).title, Filed(on).body, Null)
  <2>1. on.at = "filing" /\ kind' = kind /\ alone' = alone /\ save' = [save EXCEPT ![s] = Idle]
    BY <1>5 DEF File
  <2>2. on.to \in Docs /\ on.p \in Sent /\ TypeOf[on.to] = "task"
    <3>1. on \in InHand /\ Fits(on)
      BY <1>0
    <3> HIDE DEF on
    <3> QED BY <2>1, <3>1, InHandTyped DEF Fits
  <2>3. CASE doc[on.d] = Gone \/ doc[on.to] # Unborn
    <3>1. label' = label /\ first' = first
      BY <1>5, <2>3 DEF File
    <3> QED BY <1>i, <2>1, <3>1, CountStill
  <2>4. CASE ~(doc[on.d] = Gone \/ doc[on.to] # Unborn)
    <3>1. /\ Remember(on.to, Filed(on), on.p, kinds)
          /\ label' = Unlinked(linkDictationParse(on.p, kinds, final), on.d)
      BY <1>5, <2>4 DEF File, Filed
    <3>2. Filed(on).title # Null
      BY <2>1, FiledTyped
    <3>3. Routed(on.to, Filed(on).title, on.p, kinds)
      BY <2>2, <3>2 DEF Routed, Kinds
    <3>4. Matches(on.p, kinds) => Tells(on.p, final, fields(Filed(on)))
      <4>1. Matches(on.p, kinds) => on.p \in Parses /\ kind[on.p] # "note"
        BY <2>2 DEF Matches, Sent
      <4> QED BY <2>2, <3>3, <4>1, FinalTells
    <3>5. Label(final)
      BY FinalIsLabel
    <3>6. /\ alone => \A t \in Saves : save[t].at # "unlabelled"
          /\ \A t \in Saves : save'[t] = save[t] \/ save'[t].at # "unlabelled"
      BY <1>i, <2>1
    <3> HIDE DEF on, kinds, final
    <3> QED BY <2>1, <2>2, <3>1, <3>4, <3>5, <3>6, CountTogether
  <2> QED BY <2>3, <2>4
<1>6. ASSUME NEW s \in Saves, LabelLine(s)
      PROVE  CountInv'
  BY <1>6, CountLabelled
<1>7. ASSUME NEW d \in Docs, Delete(d)
      PROVE  CountInv'
  <2>1. /\ label' = Unlinked(label, d) /\ save' = save /\ first' = first /\ kind' = kind /\ alone' = alone
        /\ alone => \A s \in Saves : save[s].at # "unlabelled"
    BY <1>7, <1>t DEF Delete
  <2>2. ASSUME NEW q \in Parses, Agree(q)
        PROVE  Agree(q)'
    <3>1. Agreed(label', first', q)
      BY <2>1, <2>2, AgreeOff DEF Agree
    <3> QED BY <2>1, <3>1, AgreeNext
  <2>3. Seen'
    BY <2>1 DEF CountInv, Seen, Matches
  <2>4. alone => \A q \in Parses : Agree(q)
    BY <2>1 DEF CountInv, Awaits
  <2> QED BY <2>1, <2>2, <2>3, <2>4 DEF CountInv
<1>8. ASSUME NEW s \in Saves, Cut(s)
      PROVE  CountInv'
  <2>1. /\ ~alone /\ save' = [save EXCEPT ![s] = Idle]
        /\ label' = label /\ first' = first /\ kind' = kind /\ alone' = alone
    BY <1>8 DEF Cut
  <2>2. \A t \in Saves : save'[t] = save[t] \/ save'[t] = Idle
    BY <1>0, <2>1
  <2> QED BY <1>u, <2>1, <2>2, CountStill
<1>9. CASE UNCHANGED vars
  <2>1. save' = save /\ label' = label /\ first' = first /\ kind' = kind /\ alone' = alone
    BY <1>9 DEF vars
  <2> QED BY <2>1, CountStill
<1> QED BY <1>1, <1>2, <1>3, <1>4, <1>5, <1>6, <1>7, <1>8, <1>9 DEF Next

(* Nothing is counted at first.                                            *)
LEMMA CountInit == Init => CountInv
BY DEF Init, CountInv, Seen, Agree, Agreed, Idle

(* What the owner's statistics count (domain/aiStats.ts) is what was saved *)
(* as sent, with corrections, or never.                                    *)
THEOREM CountedRightCorrect == Spec => []CountedRight
<1> DEFINE IInv == TypeInv /\ Shaped(label) /\ MarksInv /\ CountInv
<1>1. Init => IInv
  BY TypeInit, InitShaped, MarksInit, CountInit
<1>2. IInv /\ [Next]_vars => IInv'
  <2>1. Shaped(label) /\ [Next]_vars => Shaped(label)'
    BY StepKeepsLabels
  <2> QED BY <2>1, TypeStep, MarksStep, CountStep
<1>3. TypeInv /\ CountInv => CountedRight
  <2> SUFFICES ASSUME TypeInv, CountInv, NEW p \in Parses,
                      kind[p] # "sandbox" \/ (alone /\ \A s \in Saves : save[s] = Idle)
               PROVE  /\ p \in notSaved <=> first[p] = {}
                      /\ p \in savedAsIs <=> Untouched(p)
    BY DEF CountedRight
  <2>1. Agree(p)
    BY DEF CountInv, Awaits, Idle
  <2>2. CASE label[p] = {} /\ first[p] = {}
    BY <2>2 DEF notSaved, savedAsIs, savedEdited, Untouched
  <2>3. ASSUME NEW r, NEW f, label[p] = {r}, first[p] = {f}, Tells(p, r, f)
        PROVE  /\ p \in notSaved <=> first[p] = {}
               /\ p \in savedAsIs <=> Untouched(p)
    BY <2>3 DEF notSaved, savedAsIs, savedEdited, Untouched, Tells, AsSent
  <2> QED BY <2>1, <2>2, <2>3 DEF Agree, Agreed
<1> QED BY <1>1, <1>2, <1>3, PTL DEF Spec
=============================================================================
