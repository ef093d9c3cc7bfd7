------------------------------ MODULE AppProofs ------------------------------
(* App for any number of writes of tasks and of notes: the highlight of a  *)
(* list is right, a list that misses nothing is the server's once all is   *)
(* quiet, a settled note stays on screen, and the alarms of the phone are  *)
(* set right.  First what the helpers on lists of rows return, then the    *)
(* tasks, the notes and the alarms.                                        *)
EXTENDS App, WellFoundedInduction, SequenceTheorems, TLAPS

-----------------------------------------------------------------------------
(* Where a row is.                                                         *)

(* The least of a set of naturals is one of them: the choice that the      *)
(* search of a list makes.                                                 *)
LEMMA Least ==
  ASSUME NEW T \in SUBSET Nat, T # {}
  PROVE  Min(T) \in T /\ \A n \in T : Min(T) <= n
<1>1. IsWellFoundedOn({ss \in Nat \X Nat : ss[1] < ss[2]}, Nat)
  BY NatLessThanWellFounded DEF OpToRel
<1>2. \E n \in T : \A m \in T : ~ (<<m, n>> \in {ss \in Nat \X Nat : ss[1] < ss[2]})
  BY <1>1, WFMin
<1>3. PICK n \in T : \A m \in T : ~ (m < n)
  BY <1>2
<1>4. \A m \in T : n <= m
  BY <1>3
<1> QED BY <1>4 DEF Min

IsAt(s, id, n) ==
  \/ n = 0 /\ \A i \in DOMAIN s : s[i].id # id
  \/ n \in DOMAIN s /\ s[n].id = id /\ \A i \in DOMAIN s : i < n => s[i].id # id

(* The search by id finds the first row of that id, or none when there is  *)
(* none.                                                                   *)
LEMMA AtOfIs ==
  ASSUME NEW S, NEW s \in Seq(S), NEW id
  PROVE  IsAt(s, id, AtOf(s, id)) /\ AtOf(s, id) \in Nat
<1> DEFINE I == {i \in 1 .. Len(s) : s[i].id = id}
<1>1. AtOf(s, id) = IF I # {} THEN Min(I) ELSE 0
  BY DEF AtOf, SelectInSeq
<1>2. I \in SUBSET Nat /\ DOMAIN s = 1 .. Len(s) /\ Len(s) \in Nat
  BY LenProperties
<1>3. CASE I = {}
  BY <1>1, <1>2, <1>3 DEF IsAt
<1>4. CASE I # {}
  <2>1. AtOf(s, id) = Min(I) /\ Min(I) \in I /\ \A n \in I : Min(I) <= n
    BY <1>1, <1>2, <1>4, Least
  <2>2. Min(I) \in Nat /\ Min(I) \in DOMAIN s /\ s[Min(I)].id = id
    BY <1>2, <2>1
  <2>3. \A i \in DOMAIN s : i < Min(I) => s[i].id # id
    BY <1>2, <2>1, <2>2
  <2> QED BY <2>1, <2>2, <2>3 DEF IsAt
<1> QED BY <1>3, <1>4

FirstPending(s, n) ==
  \/ n = 0 /\ \A i \in DOMAIN s : s[i].status # "pending"
  \/ n \in DOMAIN s /\ s[n].status = "pending" /\ \A i \in DOMAIN s : i < n => s[i].status # "pending"

Shown(s, n) ==
  [i \in DOMAIN s |-> [id |-> s[i].id, status |-> s[i].status,
                       text |-> s[i].text, isCurrent |-> i = n]]

(* The server highlights the first pending row, if there is one            *)
(* (annotateIsCurrent).                                                    *)
LEMMA AnnotateIs ==
  ASSUME NEW S, NEW s \in Seq(S)
  PROVE  \E n \in Nat : FirstPending(s, n) /\ annotateIsCurrent(s) = Shown(s, n)
<1> DEFINE I == {i \in 1 .. Len(s) : s[i].status = "pending"}
<1>0. I \in SUBSET Nat /\ DOMAIN s = 1 .. Len(s) /\ Len(s) \in Nat
  BY LenProperties
<1>1. annotateIsCurrent(s) = Shown(s, IF I # {} THEN Min(I) ELSE 0)
  BY DEF annotateIsCurrent, SelectInSeq, Shown
<1>3. CASE I = {}
  BY <1>0, <1>1, <1>3 DEF FirstPending
<1>4. CASE I # {}
  <2>1. Min(I) \in I /\ \A n \in I : Min(I) <= n
    BY <1>0, <1>4, Least
  <2>2. Min(I) \in Nat /\ Min(I) \in DOMAIN s /\ s[Min(I)].status = "pending"
    BY <1>0, <2>1
  <2>3. \A i \in DOMAIN s : i < Min(I) => s[i].status # "pending"
    BY <1>0, <2>1, <2>2
  <2>4. FirstPending(s, Min(I))
    BY <2>2, <2>3 DEF FirstPending
  <2> QED BY <1>1, <1>4, <2>2, <2>4
<1> QED BY <1>3, <1>4

-----------------------------------------------------------------------------
(* A list less some of its rows.                                           *)

Kept(s, id) == {i \in DOMAIN s : s[i].id # id}

Places(s, id, n, f) ==
  /\ f \in [1 .. n -> Kept(s, id)]
  /\ \A i, k \in 1 .. n : i < k => f[i] < f[k]
  /\ \A i \in Kept(s, id) : \E k \in 1 .. n : f[k] = i

(* The places of a list's kept rows are those of the list less its last    *)
(* row, and the last row's own if it is kept.                              *)
LEMMA PlacesShorter ==
  ASSUME NEW S, NEW s \in Seq(S), NEW id, Len(s) > 0,
         NEW shorter, shorter = [i \in 1 .. Len(s) - 1 |-> s[i]],
         NEW n \in 0 .. Len(s) - 1, NEW f, Places(shorter, id, n, f)
  PROVE  \E m \in 0 .. Len(s) : \E g : Places(s, id, m, g)
<1> DEFINE last == Len(s)
<1>1. shorter \in Seq(S) /\ Len(shorter) = last - 1 /\ \A i \in 1 .. last - 1 : shorter[i] = s[i]
  OBVIOUS
<1>2. DOMAIN s = 1 .. last /\ DOMAIN shorter = 1 .. last - 1 /\ last \in Nat
  BY <1>1
<1>3. CASE s[last].id = id
  <2>1. Kept(s, id) = Kept(shorter, id)
    BY <1>1, <1>2, <1>3 DEF Kept
  <2>2. Places(s, id, n, f)
    BY <2>1 DEF Places
  <2> QED BY <1>2, <2>2
<1>4. CASE s[last].id # id
  <2> DEFINE g == [k \in 1 .. n + 1 |-> IF k = n + 1 THEN last ELSE f[k]]
  <2>1. Kept(s, id) = Kept(shorter, id) \cup {last}
    BY <1>1, <1>2, <1>4 DEF Kept
  <2>2. \A k \in 1 .. n : f[k] \in 1 .. last - 1
    BY <1>2 DEF Places, Kept
  <2>3. g \in [1 .. n + 1 -> Kept(s, id)]
    BY <2>1 DEF Places
  <2>4. \A i, k \in 1 .. n + 1 : i < k => g[i] < g[k]
    BY <1>2, <2>2 DEF Places
  <2>5. ASSUME NEW i \in Kept(s, id)
        PROVE  \E k \in 1 .. n + 1 : g[k] = i
    <3>1. CASE i = last
      <4>1. n + 1 \in 1 .. n + 1 /\ g[n + 1] = last
        OBVIOUS
      <4> QED BY <3>1, <4>1
    <3>2. CASE i \in Kept(shorter, id)
      <4>1. PICK k \in 1 .. n : f[k] = i
        BY <3>2 DEF Places
      <4>2. k \in 1 .. n + 1 /\ g[k] = i
        BY <4>1
      <4> QED BY <4>2
    <3> QED BY <2>1, <3>1, <3>2
  <2>6. Places(s, id, n + 1, g)
    BY <2>3, <2>4, <2>5 DEF Places
  <2> QED BY <1>2, <2>6
<1> QED BY <1>3, <1>4

(* The kept rows of every list can be put in order: by the least length    *)
(* for which they could not.                                               *)
LEMMA PlacesExist ==
  ASSUME NEW S, NEW s \in Seq(S), NEW id
  PROVE  \E n \in 0 .. Len(s) : \E f : Places(s, id, n, f)
<1> DEFINE Good(q) == \E n \in 0 .. Len(q) : \E f : Places(q, id, n, f)
           Bad == {Len(q) : q \in {p \in Seq(S) : ~ Good(p)}}
<1>1. SUFFICES ASSUME Bad # {} PROVE FALSE
  OBVIOUS
<1>2. Bad \in SUBSET Nat
  OBVIOUS
<1>3. PICK least \in Bad : \A m \in Bad : least <= m
  BY <1>1, <1>2, Least
<1>4. PICK q \in Seq(S) : Len(q) = least /\ ~ Good(q)
  BY <1>3
<1>5. CASE least = 0
  <2>1. Kept(q, id) = {} /\ Len(q) = 0
    BY <1>4, <1>5 DEF Kept
  <2>2. [k \in 1 .. 0 |-> k] \in [1 .. 0 -> {}]
    OBVIOUS
  <2>3. Places(q, id, 0, [k \in 1 .. 0 |-> k])
    BY <2>1, <2>2 DEF Places
  <2> QED BY <1>4, <2>1, <2>3
<1>6. CASE least # 0
  <2> DEFINE shorter == [i \in 1 .. Len(q) - 1 |-> q[i]]
  <2>1. Len(q) \in Nat /\ Len(q) > 0
    BY <1>2, <1>4, <1>6
  <2>2. shorter \in Seq(S) /\ Len(shorter) = Len(q) - 1 /\ Len(shorter) \in Nat
    BY <2>1
  <2>3. Good(shorter)
    <3>1. ~ Good(shorter) => Len(shorter) \in Bad
      BY <2>2
    <3>2. Len(shorter) < least
      BY <1>4, <2>1, <2>2
    <3>3. least \in Nat /\ Len(shorter) \in Nat
      BY <1>4, <2>1, <2>2
    <3> HIDE DEF Good, Bad, shorter
    <3> QED BY <1>3, <3>1, <3>2, <3>3
  <2>4. PICK n, f : n \in 0 .. Len(shorter) /\ Places(shorter, id, n, f)
    BY <2>3
  <2>5. n \in 0 .. Len(q) - 1
    BY <2>2, <2>4
  <2> HIDE DEF Good, Bad
  <2>6. \E m \in 0 .. Len(q) : \E g : Places(q, id, m, g)
    BY <2>1, <2>4, <2>5, PlacesShorter
  <2> QED BY <1>4, <2>6 DEF Good
<1> QED BY <1>5, <1>6

Thinned(s, id, rest, f) ==
  /\ f \in [DOMAIN rest -> DOMAIN s]
  /\ \A k \in DOMAIN rest : rest[k] = s[f[k]] /\ rest[k].id # id
  /\ \A i, k \in DOMAIN rest : i < k => f[i] < f[k]
  /\ \A i, k \in DOMAIN rest : i # k => f[i] # f[k]
  /\ \A i \in DOMAIN s : s[i].id # id => \E k \in DOMAIN rest : f[k] = i

(* A list less the rows of an id has every other row, once and in its      *)
(* order, and no row of that id.                                           *)
LEMMA WithoutIs ==
  ASSUME NEW S, NEW s \in Seq(S), NEW id
  PROVE  /\ Without(s, id) \in Seq(S)
         /\ \E f : Thinned(s, id, Without(s, id), f)
<1> DEFINE kept == {i \in DOMAIN s : s[i].id # id}
           all == UNION {[1 .. n -> kept] : n \in 0 .. Len(s)}
           Fits(f) == /\ \A i, k \in DOMAIN f : i < k => f[i] < f[k]
                      /\ \A i \in kept : \E k \in DOMAIN f : f[k] = i
           place == CHOOSE f \in all : Fits(f)
<1>1. Without(s, id) = [k \in DOMAIN place |-> s[place[k]]]
  BY DEF Without
<1>2. PICK n, f : n \in 0 .. Len(s) /\ Places(s, id, n, f)
  BY PlacesExist
<1>3. f \in all /\ Fits(f)
  BY <1>2 DEF Places, Kept
<1>4. place \in all /\ Fits(place)
  BY <1>3
<1> HIDE DEF place
<1>5. PICK m \in 0 .. Len(s) : place \in [1 .. m -> kept]
  BY <1>4
<1>6. DOMAIN place = 1 .. m /\ m \in Nat /\ \A k \in 1 .. m : place[k] \in DOMAIN s /\ place[k] \in Nat
  BY <1>5
<1>7. Without(s, id) \in Seq(S) /\ DOMAIN Without(s, id) = 1 .. m
  BY <1>1, <1>5, <1>6
<1>8. \A k \in 1 .. m : Without(s, id)[k] = s[place[k]] /\ Without(s, id)[k].id # id
  BY <1>1, <1>5, <1>6
<1>9. \A i, k \in 1 .. m : (i < k => place[i] < place[k]) /\ (i # k => place[i] # place[k])
  <2>1. \A i, k \in 1 .. m : i < k => place[i] < place[k]
    BY <1>4, <1>6
  <2>2. \A i, k \in 1 .. m : i < k \/ k < i \/ i = k
    OBVIOUS
  <2> QED BY <1>6, <2>1, <2>2
<1>10. Thinned(s, id, Without(s, id), place)
  BY <1>4, <1>5, <1>6, <1>7, <1>8, <1>9 DEF Thinned
<1> QED BY <1>7, <1>10

-----------------------------------------------------------------------------
(* What a list of notes says of an id, as its writes change the list.      *)

(* What a list says of an id is the text of its first row of that id.      *)
LEMMA TextInIs ==
  ASSUME NEW s \in Seq(Note), NEW id, NEW n \in Nat, IsAt(s, id, n)
  PROVE  TextIn(s, id) = IF n = 0 THEN None ELSE s[n].text
<1>1. IsAt(s, id, AtOf(s, id)) /\ AtOf(s, id) \in Nat
  BY AtOfIs
<1>2. PICK m \in Nat : m = AtOf(s, id)
  BY <1>1
<1>3. DOMAIN s \subseteq Nat \ {0}
  OBVIOUS
<1>4. n = m
  <2>1. n < m \/ m < n \/ n = m
    OBVIOUS
  <2> QED BY <1>1, <1>2, <1>3, <2>1 DEF IsAt
<1> QED BY <1>2, <1>4 DEF TextIn

(* Every id is in a list of notes or not.                                  *)
LEMMA NoteIsAt ==
  ASSUME NEW s \in Seq(Note), NEW id
  PROVE  \E n \in Nat : IsAt(s, id, n)
BY AtOfIs

\* A note that is in a list has a text there, and no other has.
LEMMA NoteThere ==
  ASSUME NEW s \in Seq(Note)
  PROVE  \A id : /\ TextIn(s, id) \in {"old", "ours", None}
                 /\ TextIn(s, id) # None <=> \E i \in DOMAIN s : s[i].id = id
<1> SUFFICES ASSUME NEW id
             PROVE  /\ TextIn(s, id) \in {"old", "ours", None}
                    /\ TextIn(s, id) # None <=> \E i \in DOMAIN s : s[i].id = id
  OBVIOUS
<1>1. PICK n \in Nat : IsAt(s, id, n)
  BY NoteIsAt
<1>2. TextIn(s, id) = IF n = 0 THEN None ELSE s[n].text
  BY <1>1, TextInIs
<1>3. \A i \in DOMAIN s : i # 0 /\ s[i] \in Note
  OBVIOUS
<1>4. \A i \in DOMAIN s : s[i].text \in {"old", "ours"} /\ s[i].text # None
  BY <1>3, NoteListAssumption DEF Note
<1> QED BY <1>1, <1>2, <1>3, <1>4 DEF IsAt

SaysAfterAppend(s, r) ==
  \A id : TextIn(Append(s, r), id) =
            IF id = r.id /\ TextIn(s, id) = None THEN r.text ELSE TextIn(s, id)

(* A note put at the end of a list changes what the list says of no other  *)
(* id (ProjectNotes.create).                                               *)
LEMMA NoteAppended ==
  ASSUME NEW s \in Seq(Note), NEW r \in Note
  PROVE  Append(s, r) \in Seq(Note) /\ SaysAfterAppend(s, r)
<1>1. Append(s, r) \in Seq(Note)
  OBVIOUS
<1>2. ASSUME NEW id
      PROVE  TextIn(Append(s, r), id) =
               IF id = r.id /\ TextIn(s, id) = None THEN r.text ELSE TextIn(s, id)
  <2>1. PICK n \in Nat : IsAt(s, id, n)
    BY NoteIsAt
  <2>2. TextIn(s, id) = IF n = 0 THEN None ELSE s[n].text
    BY <2>1, TextInIs
  <2>3. /\ DOMAIN Append(s, r) = 1 .. Len(s) + 1 /\ DOMAIN s = 1 .. Len(s) /\ Len(s) \in Nat
        /\ \A i \in 1 .. Len(s) : Append(s, r)[i] = s[i]
        /\ Append(s, r)[Len(s) + 1] = r
    OBVIOUS
  <2>4. \A i \in 1 .. Len(s) : s[i] \in Note
    OBVIOUS
  <2>5. \A i \in 1 .. Len(s) : s[i].text # None
    BY <2>4, NoteListAssumption DEF Note
  <2>6. CASE n # 0
    <3>1. IsAt(Append(s, r), id, n)
      BY <2>1, <2>3, <2>6 DEF IsAt
    <3>2. TextIn(Append(s, r), id) = Append(s, r)[n].text /\ n \in 1 .. Len(s)
      BY <1>1, <2>1, <2>3, <2>6, <3>1, TextInIs DEF IsAt
    <3> QED BY <2>2, <2>3, <2>5, <2>6, <3>2
  <2>7. CASE n = 0 /\ id = r.id
    <3>1. IsAt(Append(s, r), id, Len(s) + 1) /\ Len(s) + 1 # 0 /\ Len(s) + 1 \in Nat
      BY <2>1, <2>3, <2>7 DEF IsAt
    <3>2. TextIn(Append(s, r), id) = Append(s, r)[Len(s) + 1].text
      BY <1>1, <3>1, TextInIs
    <3> QED BY <2>2, <2>3, <2>7, <3>2
  <2>8. CASE n = 0 /\ id # r.id
    <3>1. IsAt(Append(s, r), id, 0)
      BY <2>1, <2>3, <2>8 DEF IsAt
    <3>2. TextIn(Append(s, r), id) = None
      BY <1>1, <3>1, TextInIs
    <3> QED BY <2>2, <2>8, <3>2
  <2> QED BY <2>6, <2>7, <2>8
<1> QED BY <1>1, <1>2 DEF SaysAfterAppend

SaysAfterEdit(s, t, note) ==
  \A id : TextIn(t, id) = IF id = note THEN "ours" ELSE TextIn(s, id)

(* An edited note has the new text and changes no other                    *)
(* (ProjectNotes.edit).                                                    *)
LEMMA NoteEdited ==
  ASSUME NEW s \in Seq(Note), NEW note, AtOf(s, note) # 0,
         NEW t, t = [s EXCEPT ![AtOf(s, note)].text = "ours"]
  PROVE  t \in Seq(Note) /\ SaysAfterEdit(s, t, note)
<1>1. PICK at \in Nat : at = AtOf(s, note) /\ IsAt(s, note, at)
  BY AtOfIs
<1>2. DOMAIN s = 1 .. Len(s) /\ Len(s) \in Nat /\ \A i \in 1 .. Len(s) : s[i] \in Note
  OBVIOUS
<1>3. at \in 1 .. Len(s) /\ s[at].id = note /\ \A i \in 1 .. Len(s) : i < at => s[i].id # note
  BY <1>1, <1>2 DEF IsAt
<1>4. /\ DOMAIN t = 1 .. Len(s)
      /\ \A i \in 1 .. Len(s) : t[i] = IF i = at THEN [s[at] EXCEPT !.text = "ours"] ELSE s[i]
  BY <1>1, <1>2
<1>5. \A i \in 1 .. Len(s) : t[i] \in Note /\ t[i].id = s[i].id
                             /\ t[i].text = IF i = at THEN "ours" ELSE s[i].text
  BY <1>2, <1>4 DEF Note
<1>6. t \in Seq(Note)
  <2>1. t = [i \in 1 .. Len(s) |-> t[i]]
    BY <1>1, <1>2
  <2>2. [i \in 1 .. Len(s) |-> t[i]] \in Seq(Note)
    BY <1>2, <1>5
  <2> QED BY <2>1, <2>2
<1>7. ASSUME NEW id
      PROVE  TextIn(t, id) = IF id = note THEN "ours" ELSE TextIn(s, id)
  <2>1. PICK n \in Nat : IsAt(s, id, n)
    BY NoteIsAt
  <2>2. TextIn(s, id) = IF n = 0 THEN None ELSE s[n].text
    BY <2>1, TextInIs
  <2>3. IsAt(t, id, n)
    BY <1>2, <1>4, <1>5, <2>1 DEF IsAt
  <2>4. TextIn(t, id) = IF n = 0 THEN None ELSE t[n].text
    BY <1>6, <2>3, TextInIs
  <2>5. n = at <=> id = note
    <3>1. n < at \/ at < n \/ n = at
      OBVIOUS
    <3> QED BY <1>2, <1>3, <2>1, <3>1 DEF IsAt
  <2> QED BY <1>2, <1>3, <1>5, <2>1, <2>2, <2>4, <2>5 DEF IsAt
<1> QED BY <1>6, <1>7 DEF SaysAfterEdit

SaysAfterRemoval(s, note) ==
  \A id : TextIn(Without(s, note), id) = IF id = note THEN None ELSE TextIn(s, id)

(* A removed note is gone and every other one stays (ProjectNotes.remove). *)
LEMMA NoteRemoved ==
  ASSUME NEW s \in Seq(Note), NEW note
  PROVE  Without(s, note) \in Seq(Note) /\ SaysAfterRemoval(s, note)
<1>1. PICK t : t = Without(s, note)
  OBVIOUS
<1>2. t \in Seq(Note)
  BY <1>1, WithoutIs
<1>3. PICK f : Thinned(s, note, t, f)
  BY <1>1, WithoutIs
<1>4. DOMAIN s = 1 .. Len(s) /\ DOMAIN t = 1 .. Len(t) /\ Len(s) \in Nat /\ Len(t) \in Nat
  BY <1>2
<1>5. ASSUME NEW id
      PROVE  TextIn(t, id) = IF id = note THEN None ELSE TextIn(s, id)
  <2>1. PICK n \in Nat : IsAt(t, id, n)
    BY <1>2, NoteIsAt
  <2>2. TextIn(t, id) = IF n = 0 THEN None ELSE t[n].text
    BY <1>2, <2>1, TextInIs
  <2>3. CASE n = 0
    <3>1. CASE id = note
      BY <2>2, <2>3, <3>1
    <3>2. CASE id # note
      <4>1. IsAt(s, id, 0)
        BY <1>3, <2>1, <2>3, <3>2, <1>4 DEF IsAt, Thinned
      <4>2. TextIn(s, id) = None
        BY <4>1, TextInIs
      <4> QED BY <2>2, <2>3, <3>2, <4>2
    <3> QED BY <3>1, <3>2
  <2>4. CASE n # 0
    <3>1. n \in 1 .. Len(t) /\ t[n].id = id /\ \A i \in 1 .. Len(t) : i < n => t[i].id # id
      BY <1>4, <2>1, <2>4 DEF IsAt
    <3>2. f[n] \in 1 .. Len(s) /\ s[f[n]] = t[n] /\ id # note
      BY <1>3, <1>4, <3>1 DEF Thinned
    <3>3. ASSUME NEW i \in 1 .. Len(s), i < f[n] PROVE s[i].id # id
      <4>1. SUFFICES ASSUME s[i].id = id PROVE FALSE
        OBVIOUS
      <4>2. PICK k \in 1 .. Len(t) : f[k] = i /\ t[k].id = id
        BY <1>3, <1>4, <3>2, <3>3, <4>1 DEF Thinned
      <4>3. n < k \/ n = k
        BY <1>4, <3>1, <4>2
      <4> QED BY <1>3, <1>4, <3>1, <3>2, <3>3, <4>2, <4>3 DEF Thinned
    <3>4. IsAt(s, id, f[n]) /\ f[n] \in Nat /\ f[n] # 0
      BY <1>4, <3>1, <3>2, <3>3 DEF IsAt
    <3>5. TextIn(s, id) = s[f[n]].text
      BY <3>4, TextInIs
    <3> QED BY <2>2, <2>4, <3>2, <3>5
  <2> QED BY <2>3, <2>4
<1> QED BY <1>1, <1>2, <1>5 DEF SaysAfterRemoval

SaysAfterMerge(s, t, old, a) ==
  \A id : TextIn(t, id) = CASE id = a.id /\ TextIn(s, old) # None -> a.text
                           [] id = old /\ id # a.id -> None
                           [] OTHER -> TextIn(s, id)

(* The server's answer takes the place of a row on screen and changes what *)
(* the list says of no other id.                                           *)
LEMMA NoteMerged ==
  ASSUME NEW s \in Seq(Note), NEW old, NEW a \in Note, a.id = old \/ TextIn(s, a.id) = None,
         NEW t, t = [i \in DOMAIN s |-> IF s[i].id = old THEN a ELSE s[i]]
  PROVE  t \in Seq(Note) /\ SaysAfterMerge(s, t, old, a)
<1>1. DOMAIN s = 1 .. Len(s) /\ Len(s) \in Nat /\ \A i \in 1 .. Len(s) : s[i] \in Note
  OBVIOUS
<1>2. DOMAIN t = 1 .. Len(s) /\ \A i \in 1 .. Len(s) : t[i] = IF s[i].id = old THEN a ELSE s[i]
  BY <1>1
<1>3. t \in Seq(Note)
  BY <1>1
<1>4. \A i \in 1 .. Len(s) : a.id = old \/ s[i].id # a.id
  BY <1>1, NoteThere
<1>5. ASSUME NEW id
      PROVE  TextIn(t, id) = CASE id = a.id /\ TextIn(s, old) # None -> a.text
                               [] id = old /\ id # a.id -> None
                               [] OTHER -> TextIn(s, id)
  <2>1. PICK n \in Nat : IsAt(s, id, n)
    BY NoteIsAt
  <2>2. TextIn(s, id) = IF n = 0 THEN None ELSE s[n].text
    BY <2>1, TextInIs
  <2>3. PICK m \in Nat : IsAt(s, old, m)
    BY NoteIsAt
  <2>4. TextIn(s, old) # None <=> m # 0
    BY <1>1, <2>3, NoteThere DEF IsAt
  <2>5. CASE id = a.id /\ m # 0
    <3>1. IsAt(t, id, m)
      BY <1>1, <1>2, <1>4, <2>3, <2>5 DEF IsAt
    <3>2. TextIn(t, id) = t[m].text /\ t[m] = a
      BY <1>1, <1>2, <1>3, <2>3, <2>5, <3>1, TextInIs DEF IsAt
    <3> QED BY <2>4, <2>5, <3>2
  <2>6. CASE id = a.id /\ m = 0
    <3>1. t = s
      BY <1>1, <1>2, <2>3, <2>6 DEF IsAt
    <3> QED BY <2>4, <2>6, <3>1
  <2>7. CASE id = old /\ id # a.id
    <3>1. IsAt(t, id, 0)
      BY <1>1, <1>2, <2>7 DEF IsAt
    <3>2. TextIn(t, id) = None
      BY <1>3, <3>1, TextInIs
    <3> QED BY <2>7, <3>2
  <2>8. CASE id # old /\ id # a.id
    <3>1. IsAt(t, id, n)
      BY <1>1, <1>2, <2>1, <2>8 DEF IsAt
    <3>2. TextIn(t, id) = IF n = 0 THEN None ELSE t[n].text
      BY <1>3, <3>1, TextInIs
    <3>3. n # 0 => t[n] = s[n]
      BY <1>1, <1>2, <2>1, <2>8 DEF IsAt
    <3> QED BY <2>2, <2>8, <3>2, <3>3
  <2> QED BY <2>5, <2>6, <2>7, <2>8
<1> QED BY <1>3, <1>5 DEF SaysAfterMerge

-----------------------------------------------------------------------------
(* Lists and highlights.                                                   *)

Right(s) ==
  \A i, j \in DOMAIN s : s[i].isCurrent /\ s[j].isCurrent => i = j /\ s[i].status = "pending"

Agree(l, s) ==
  /\ DOMAIN l = DOMAIN s
  /\ \A i \in DOMAIN s : l[i].id = s[i].id /\ l[i].status = s[i].status

(* A list's highlight as the property states it.                           *)
LEMMA CurrentIs ==
  ASSUME NEW s
  PROVE  Right(s) <=> \A i, j \in Current(s) : i = j /\ s[i].status = "pending"
BY DEF Right, Current

(* Lists that have the same ids find a row at the same place.              *)
LEMMA SameAt ==
  ASSUME NEW S, NEW s \in Seq(S), NEW T, NEW l \in Seq(T), Agree(l, s), NEW id
  PROVE  AtOf(l, id) = AtOf(s, id)
<1>1. DOMAIN s \subseteq Nat \ {0} /\ DOMAIN l = DOMAIN s
  BY DEF Agree
<1>2. IsAt(s, id, AtOf(s, id)) /\ AtOf(s, id) \in Nat
  BY AtOfIs
<1>3. IsAt(l, id, AtOf(l, id)) /\ AtOf(l, id) \in Nat
  BY AtOfIs
<1>4. PICK n \in Nat : n = AtOf(s, id)
  BY <1>2
<1>5. PICK m \in Nat : m = AtOf(l, id)
  BY <1>3
<1>6. IsAt(s, id, n) /\ IsAt(l, id, m)
  BY <1>2, <1>3, <1>4, <1>5
<1>7. IsAt(s, id, m)
  BY <1>1, <1>6 DEF IsAt, Agree
<1>8. n = m
  <2>1. n < m \/ m < n \/ n = m
    OBVIOUS
  <2> QED BY <1>1, <1>6, <1>7, <2>1 DEF IsAt
<1> QED BY <1>4, <1>5, <1>8

(* The rows with the first pending one highlighted are tasks, and their    *)
(* highlight is right.                                                     *)
LEMMA ShownIs ==
  ASSUME NEW s \in Seq(Row), NEW n \in Nat, FirstPending(s, n)
  PROVE  /\ Shown(s, n) \in Seq(Task)
         /\ Right(Shown(s, n))
         /\ Agree(Shown(s, n), s)
         /\ \A i \in DOMAIN s : Shown(s, n)[i].text = s[i].text
<1>1. DOMAIN s = 1 .. Len(s) /\ Len(s) \in Nat /\ \A i \in 1 .. Len(s) : s[i] \in Row
  OBVIOUS
<1>2. \A i \in 1 .. Len(s) : [id |-> s[i].id, status |-> s[i].status,
                               text |-> s[i].text, isCurrent |-> i = n] \in Task
  BY <1>1 DEF Row, Task
<1>3. Shown(s, n) \in Seq(Task)
  BY <1>1, <1>2 DEF Shown
<1>4. Right(Shown(s, n))
  <2>1. DOMAIN Shown(s, n) = DOMAIN s
    BY DEF Shown
  <2>2. \A i \in DOMAIN s : /\ Shown(s, n)[i].isCurrent => i = n
                           /\ Shown(s, n)[i].status = s[i].status
    BY DEF Shown
  <2>3. \A i \in DOMAIN s : i = n => s[i].status = "pending"
    BY <1>1 DEF FirstPending
  <2> QED BY <2>1, <2>2, <2>3 DEF Right
<1> QED BY <1>3, <1>4 DEF Agree, Shown

(* The server's answer is a list of tasks of its rows and its highlight is *)
(* right.                                                                  *)
LEMMA Annotated ==
  ASSUME NEW s \in Seq(Row)
  PROVE  /\ annotateIsCurrent(s) \in Seq(Task)
         /\ Right(annotateIsCurrent(s))
         /\ Agree(annotateIsCurrent(s), s)
         /\ \A i \in DOMAIN s : annotateIsCurrent(s)[i].text = s[i].text
<1>1. PICK n \in Nat : FirstPending(s, n) /\ annotateIsCurrent(s) = Shown(s, n)
  BY AnnotateIs
<1> QED BY <1>1, ShownIs

RenamedTo(s, r, at, to) == annotateIsCurrent(r) = [annotateIsCurrent(s) EXCEPT ![at].text = to]

(* A renamed row changes nothing of the server's answer but that text:     *)
(* which row is current does not depend on texts.                          *)
LEMMA RenamedIs ==
  ASSUME NEW s \in Seq(Row), NEW at \in DOMAIN s, NEW to \in Texts,
         NEW r, r = [s EXCEPT ![at].text = to]
  PROVE  r \in Seq(Row) /\ Agree(r, s) /\ RenamedTo(s, r, at, to)
<1>1. DOMAIN s = 1 .. Len(s) /\ Len(s) \in Nat /\ \A i \in 1 .. Len(s) : s[i] \in Row
  OBVIOUS
<1>2. /\ DOMAIN r = DOMAIN s
      /\ \A i \in 1 .. Len(s) : r[i] = IF i = at THEN [s[at] EXCEPT !.text = to] ELSE s[i]
  BY <1>1
<1>3. \A i \in 1 .. Len(s) : r[i] \in Row /\ r[i].id = s[i].id /\ r[i].status = s[i].status
                             /\ r[i].text = IF i = at THEN to ELSE s[i].text
  BY <1>1, <1>2 DEF Row
<1>4. r \in Seq(Row)
  <2>1. r = [i \in 1 .. Len(s) |-> r[i]]
    BY <1>1, <1>2
  <2>2. [i \in 1 .. Len(s) |-> r[i]] \in Seq(Row)
    BY <1>1, <1>3
  <2> QED BY <2>1, <2>2
<1>5. PICK n \in Nat : FirstPending(s, n) /\ annotateIsCurrent(s) = Shown(s, n)
  BY AnnotateIs
<1>6. PICK m \in Nat : FirstPending(r, m) /\ annotateIsCurrent(r) = Shown(r, m)
  BY <1>4, AnnotateIs
<1>7. FirstPending(s, m)
  BY <1>1, <1>2, <1>3, <1>6 DEF FirstPending
<1>8. n = m
  <2>1. n < m \/ m < n \/ n = m
    OBVIOUS
  <2> QED BY <1>1, <1>5, <1>7, <2>1 DEF FirstPending
<1>9. Shown(r, n) = [Shown(s, n) EXCEPT ![at].text = to]
  BY <1>1, <1>2, <1>3 DEF Shown
<1> QED BY <1>1, <1>2, <1>3, <1>4, <1>5, <1>6, <1>8, <1>9 DEF Agree, RenamedTo

(* A list with a right highlight keeps it when a task is removed.          *)
LEMMA WithoutRight ==
  ASSUME NEW l \in Seq(Task), Right(l), NEW id
  PROVE  Right(Without(l, id))
<1>1. PICK f : Thinned(l, id, Without(l, id), f)
  BY WithoutIs
<1> QED BY <1>1 DEF Thinned, Right

(* A list with a right highlight keeps it when a new task, not             *)
(* highlighted, is put at its end.                                         *)
LEMMA AppendedRight ==
  ASSUME NEW l \in Seq(Task), NEW x \in Task
  PROVE  /\ Append(l, x) \in Seq(Task)
         /\ Right(l) /\ ~x.isCurrent => Right(Append(l, x))
<1>1. /\ Append(l, x) \in Seq(Task)
      /\ DOMAIN Append(l, x) = 1 .. Len(l) + 1 /\ DOMAIN l = 1 .. Len(l) /\ Len(l) \in Nat
      /\ \A i \in 1 .. Len(l) : Append(l, x)[i] = l[i]
      /\ Append(l, x)[Len(l) + 1] = x
  BY AppendProperties
<1>2. ASSUME Right(l), ~x.isCurrent PROVE Right(Append(l, x))
  <2>1. ASSUME NEW i \in 1 .. Len(l) + 1, Append(l, x)[i].isCurrent
        PROVE  i \in 1 .. Len(l) /\ Append(l, x)[i] = l[i]
    <3>1. i = Len(l) + 1 \/ i \in 1 .. Len(l)
      BY <1>1
    <3> QED BY <1>1, <1>2, <2>1, <3>1
  <2> QED BY <1>1, <1>2, <2>1 DEF Right
<1> QED BY <1>1, <1>2

(* A list with a right highlight keeps it when a task is replaced by one   *)
(* with no more highlight than it had.                                     *)
LEMMA ReplacedRight ==
  ASSUME NEW l \in Seq(Task), NEW at \in DOMAIN l, NEW x \in Task,
         NEW new, new = [l EXCEPT ![at] = x]
  PROVE  /\ new \in Seq(Task)
         /\ Right(l) /\ (x.isCurrent => l[at].isCurrent /\ x.status = "pending") => Right(new)
<1>1. DOMAIN l = 1 .. Len(l) /\ Len(l) \in Nat /\ \A i \in 1 .. Len(l) : l[i] \in Task
  OBVIOUS
<1>2. DOMAIN new = DOMAIN l /\ \A i \in DOMAIN l : new[i] = IF i = at THEN x ELSE l[i]
  OBVIOUS
<1>3. new \in Seq(Task)
  <2>1. new = [i \in 1 .. Len(l) |-> new[i]]
    BY <1>1, <1>2
  <2>2. [i \in 1 .. Len(l) |-> new[i]] \in Seq(Task)
    BY <1>1, <1>2
  <2> QED BY <2>1, <2>2
<1>4. ASSUME Right(l), x.isCurrent => l[at].isCurrent /\ x.status = "pending"
      PROVE  Right(new)
  BY <1>2, <1>4 DEF Right
<1> QED BY <1>3, <1>4

-----------------------------------------------------------------------------
(* What a write does to the list and to the rows.                          *)

Asking(op, id, to) ==
  /\ op \in {"create", "status", "text", "remove"}
  /\ id \in Nat /\ to \in Statuses \cup Texts \cup {Null}
  /\ op = "status" => to \in Statuses
  /\ op = "text" => to \in Texts
  /\ op \in {"status", "text"} => AtOf(list, id) # 0

(* What a screen shows before the server has said anything is a list of    *)
(* tasks, and its highlight is right if it was.                            *)
LEMMA PredictedIs ==
  ASSUME list \in Seq(Task), NEW op, NEW id, NEW to, Asking(op, id, to)
  PROVE  /\ Predicted(op, id, to) \in Seq(Task)
         /\ Right(list) => Right(Predicted(op, id, to))
         /\ op = "text" => Predicted(op, id, to) = [list EXCEPT ![AtOf(list, id)].text = to]
<1>1. CASE op = "create"
  <2> DEFINE x == [id |-> Local, status |-> "pending", text |-> "first", isCurrent |-> FALSE]
  <2>1. x \in Task /\ ~x.isCurrent
    BY DEF Task, Local, Statuses, Texts
  <2>2. Predicted(op, id, to) = Append(list, x)
    BY <1>1 DEF Predicted
  <2> HIDE DEF x
  <2> QED BY <1>1, <2>1, <2>2, AppendedRight
<1>2. CASE op = "remove"
  <2>1. Predicted(op, id, to) = Without(list, id)
    BY <1>2 DEF Predicted
  <2> QED BY <1>2, <2>1, WithoutIs, WithoutRight
<1>3. CASE op \in {"status", "text"}
  <2>1. PICK at : at = AtOf(list, id)
    OBVIOUS
  <2>2. at \in DOMAIN list /\ list[at] \in Task
    BY <1>3, <2>1, AtOfIs DEF Asking, IsAt
  <2>3. CASE op = "status"
    <3> DEFINE x == Weakened(list[at], to)
    <3>1. Predicted(op, id, to) = [list EXCEPT ![at] = x]
      BY <2>1, <2>3 DEF Predicted
    <3>2. to \in Statuses /\ list[at].isCurrent \in BOOLEAN
      BY <2>2, <2>3 DEF Asking, Task
    <3>3. x \in Task /\ x.status = to /\ (x.isCurrent => list[at].isCurrent /\ x.status = "pending")
      BY <2>2, <3>2 DEF Weakened, Task
    <3> HIDE DEF x
    <3> QED BY <2>2, <2>3, <3>1, <3>3, ReplacedRight
  <2>4. CASE op = "text"
    <3> DEFINE x == [list[at] EXCEPT !.text = to]
    <3>1. Predicted(op, id, to) = [list EXCEPT ![at].text = to]
      BY <2>1, <2>4 DEF Predicted
    <3>2. x \in Task /\ x.status = list[at].status /\ x.isCurrent = list[at].isCurrent
      BY <2>2, <2>4 DEF Task, Asking
    <3>3. [list EXCEPT ![at].text = to] = [list EXCEPT ![at] = x]
      BY <2>2
    <3>4. [list EXCEPT ![at] = x] \in Seq(Task)
      BY <2>2, <3>2, ReplacedRight
    <3>5. ASSUME Right(list) PROVE Right([list EXCEPT ![at] = x])
      <4>1. x.isCurrent => list[at].isCurrent /\ x.status = "pending"
        BY <2>2, <3>2, <3>5 DEF Right
      <4> HIDE DEF x
      <4> QED BY <2>2, <3>2, <3>5, <4>1, ReplacedRight
    <3> QED BY <2>1, <3>1, <3>3, <3>4, <3>5
  <2> QED BY <1>3, <2>3, <2>4
<1> QED BY <1>1, <1>2, <1>3 DEF Asking

(* The rows that a request leaves.                                         *)
LEMMA HandledIs ==
  ASSUME TasksTypeOK, write # Null, ~Refused(write)
  PROVE  /\ Handled(write) \in Seq(Row)
         /\ write.op = "text" =>
              /\ AtOf(rows, write.id) \in DOMAIN rows
              /\ Handled(write) = [rows EXCEPT ![AtOf(rows, write.id)].text = write.to]
<1>1. write \in Write /\ rows \in Seq(Row) /\ made \in Nat
  BY DEF TasksTypeOK
<1>2. write.op \in {"create", "status", "text", "remove"}
  BY <1>1 DEF Write
<1>3. CASE write.op = "create"
  <2>1. [id |-> made + 1, status |-> "pending", text |-> "first"] \in Row
    BY <1>1 DEF Row, Local, Statuses, Texts
  <2> QED BY <1>1, <1>3, <2>1, AppendProperties DEF Handled
<1>4. CASE write.op = "remove"
  BY <1>1, <1>4, WithoutIs DEF Handled
<1>5. CASE write.op \in {"status", "text"}
  <2>1. PICK at : at = AtOf(rows, write.id)
    OBVIOUS
  <2>2. at \in DOMAIN rows /\ rows[at] \in Row
    BY <1>1, <1>5, <2>1, AtOfIs DEF Refused, IsAt
  <2>3. CASE write.op = "status"
    <3>1. write.to \in Statuses
      BY <2>3 DEF TasksTypeOK
    <3>2. Handled(write) = [rows EXCEPT ![at].status = write.to]
      BY <2>1, <2>3 DEF Handled
    <3>3. [rows[at] EXCEPT !.status = write.to] \in Row
      BY <2>2, <3>1 DEF Row
    <3>4. [rows EXCEPT ![at].status = write.to] \in Seq(Row)
      BY <1>1, <2>2, <3>3
    <3> QED BY <2>3, <3>2, <3>4
  <2>4. CASE write.op = "text"
    <3>1. write.to \in Texts
      BY <2>4 DEF TasksTypeOK
    <3>2. Handled(write) = [rows EXCEPT ![at].text = write.to]
      BY <2>1, <2>4 DEF Handled
    <3>3. [rows EXCEPT ![at].text = write.to] \in Seq(Row)
      BY <1>1, <2>2, <3>1, RenamedIs
    <3> QED BY <2>1, <2>2, <3>2, <3>3
  <2> QED BY <1>5, <2>3, <2>4
<1> QED BY <1>2, <1>3, <1>4, <1>5

-----------------------------------------------------------------------------
(* The steps of the list.                                                  *)

Begins == \E op \in {"create", "status", "text", "remove"}, id \in Nat,
             to \in Statuses \cup Texts \cup {Null} : Asking(op, id, to) /\ Begin(op, id, to)

Reads == ReadList \/ AnswerList \/ ListFails \/ ReadBoard \/ AnswerBoard \/ BoardFails \/ Open

(* Every step of the list is one of these: the writes are one kind of      *)
(* step, and so are the reads that change no list.                         *)
LEMMA TasksSteps ==
  ASSUME TasksTypeOK, TasksNext
  PROVE  \/ Reads \/ ListArrives \/ BoardArrives \/ Leave
         \/ Begins \/ Handle \/ Reconcile \/ Settle \/ Fail
<1>1. ASSUME list # Null, NEW i \in DOMAIN list
      PROVE  list \in Seq(Task) /\ list[i].id \in Nat /\ AtOf(list, list[i].id) # 0
  <2>1. list \in Seq(Task)
    BY <1>1 DEF TasksTypeOK
  <2>2. list[i] \in Task /\ DOMAIN list = 1 .. Len(list)
    BY <1>1, <2>1
  <2>3. IsAt(list, list[i].id, AtOf(list, list[i].id))
    BY <2>1, AtOfIs
  <2> QED BY <1>1, <2>1, <2>2, <2>3 DEF Task, IsAt
<1>2. ASSUME Create PROVE Begins
  <2>1. Asking("create", Local, "first") /\ Begin("create", Local, "first")
    BY <1>2 DEF Create, Asking, Local, Texts
  <2> QED BY <2>1 DEF Begins, Asking
<1>3. ASSUME list # Null, NEW i \in DOMAIN list, SetStatus(i) PROVE Begins
  <2>1. PICK to \in Statuses : Begin("status", list[i].id, to)
    BY <1>3 DEF SetStatus
  <2>2. Asking("status", list[i].id, to)
    BY <1>1, <1>3, <2>1 DEF Asking
  <2> QED BY <2>1, <2>2 DEF Begins, Asking
<1>4. ASSUME list # Null, NEW i \in DOMAIN list, EditText(i) PROVE Begins
  <2>1. PICK to \in Texts : Begin("text", list[i].id, to)
    BY <1>4 DEF EditText
  <2>2. Asking("text", list[i].id, to)
    BY <1>1, <1>4, <2>1 DEF Asking
  <2> QED BY <2>1, <2>2 DEF Begins, Asking
<1>5. ASSUME list # Null, NEW i \in DOMAIN list, RemoveTask(i) PROVE Begins
  <2>1. Asking("remove", list[i].id, Null) /\ Begin("remove", list[i].id, Null)
    BY <1>1, <1>5 DEF RemoveTask, Asking
  <2> QED BY <2>1 DEF Begins, Asking
<1> QED BY <1>2, <1>3, <1>4, <1>5 DEF TasksNext, Reads

(* What a list becomes when its write is settled.                          *)
LEMMA SettledType ==
  ASSUME TasksTypeOK, write # Null, write.at = "answered"
  PROVE  /\ Settled \in Seq(Task)
         /\ write.op # "text" => Settled = annotateIsCurrent(write.answer) /\ Right(Settled)
         /\ write.op = "text" /\ AtOf(list, write.id) = 0 => Settled = list
<1>1. /\ write \in Write /\ write.answer \in Seq(Row) /\ list \in Seq(Task)
      /\ write.op = "text" => write.to \in Texts
  BY DEF TasksTypeOK, Write
<1>2. CASE write.op # "text"
  BY <1>1, <1>2, Annotated DEF Settled
<1>3. CASE write.op = "text" /\ AtOf(list, write.id) = 0
  BY <1>1, <1>3 DEF Settled
<1>4. CASE write.op = "text" /\ AtOf(list, write.id) # 0
  <2>1. PICK at : at = AtOf(list, write.id)
    OBVIOUS
  <2>2. at \in DOMAIN list /\ list[at] \in Task
    BY <1>1, <1>4, <2>1, AtOfIs DEF IsAt
  <2>3. Settled = [list EXCEPT ![at] = mergeMutatedTask(list[at], write.answer[1])]
    BY <1>4, <2>1, <2>2 DEF Settled
  <2>4. mergeMutatedTask(list[at], write.answer[1]) \in Task
    <3>1. write.answer[1] \in Row
      BY <1>1, <1>4 DEF TasksTypeOK
    <3> QED BY <2>2, <3>1 DEF mergeMutatedTask, Row, Task
  <2> QED BY <1>1, <1>4, <2>2, <2>3, <2>4, ReplacedRight
<1> QED BY <1>2, <1>3, <1>4

(* Every step keeps the types of the list, of the board and of the write   *)
(* under way.                                                              *)
LEMMA TasksTypeStep ==
  ASSUME TasksTypeOK, [TasksNext]_taskVars
  PROVE  TasksTypeOK'
<1> USE DEF TasksTypeOK
<1>1. CASE Reads
  BY <1>1 DEF Reads, ReadList, AnswerList, ListFails, ReadBoard, AnswerBoard, BoardFails, Open
<1>2. CASE ListArrives
  <2>1. reading \in Seq(Row) /\ annotateIsCurrent(reading) \in Seq(Task)
    BY <1>2, Annotated DEF ListArrives
  <2>2. annotateIsCurrent(reading) # Null
    BY <2>1, TaskListAssumption
  <2> QED BY <1>2, <2>1, <2>2 DEF ListArrives, Told
<1>3. CASE BoardArrives
  <2>1. boarding \in Seq(Row) /\ annotateIsCurrent(boarding) \in Seq(Task)
    BY <1>3, Annotated DEF BoardArrives
  <2> QED BY <1>3, <2>1 DEF BoardArrives, Told
<1>4. ASSUME write # Null, ServerHandles
      PROVE  rows' \in Seq(Row) /\ made' \in Nat
  BY <1>4, HandledIs DEF ServerHandles
<1>5. CASE Leave
  BY <1>4, <1>5 DEF Leave
<1>6. CASE Begins
  <2>1. PICK op \in {"create", "status", "text", "remove"}, id \in Nat,
             to \in Statuses \cup Texts \cup {Null} : Asking(op, id, to) /\ Begin(op, id, to)
    BY <1>6 DEF Begins
  <2>2. list \in Seq(Task) /\ Predicted(op, id, to) \in Seq(Task)
    BY <2>1, PredictedIs DEF Begin
  <2>3. Predicted(op, id, to) # Null
    BY <2>2, TaskListAssumption
  <2> DEFINE w == [op |-> op, id |-> id, to |-> to, previous |-> list,
                   lacked |-> "list" \in missed, at |-> "sent", answer |-> Null]
  <2>4. w \in Write
    BY <2>1, <2>2 DEF Write
  <2>5. /\ w.op = "status" => w.to \in Statuses
        /\ w.op = "text" => w.to \in Texts /\ w.at # "handled"
        /\ w.at # "answered"
    BY <2>1 DEF Asking
  <2>6. write' = w /\ list' = Predicted(op, id, to) /\ writes' = writes + 1
        /\ UNCHANGED <<rows, made, shut, reading, board, boarding, missed, apart>>
    BY <2>1 DEF Begin
  <2> HIDE DEF w
  <2> QED BY <2>2, <2>3, <2>4, <2>5, <2>6
<1>7. CASE Handle
  <2>1. write \in Write /\ rows' \in Seq(Row) /\ made' \in Nat
    BY <1>4, <1>7 DEF Handle
  <2>2. CASE write.op = "text"
    <3>1. AtOf(rows, write.id) \in DOMAIN rows
          /\ rows' = [rows EXCEPT ![AtOf(rows, write.id)].text = write.to]
      BY <1>7, <2>2, HandledIs DEF Handle, ServerHandles
    <3>2. \A i \in DOMAIN rows' : rows'[i] \in Row
      BY <2>1
    <3>3. DOMAIN rows' = DOMAIN rows
      BY <3>1
    <3>5. <<rows'[AtOf(rows, write.id)]>> \in Seq(Row)
      <4>1. rows'[AtOf(rows, write.id)] \in Row
        BY <3>1, <3>2, <3>3
      <4> HIDE DEF TasksTypeOK
      <4> QED BY <4>1
    <3> DEFINE w == [write EXCEPT !.at = "answered", !.answer = <<rows'[AtOf(rows, write.id)]>>]
    <3>6. w \in Write /\ w.op = "text" /\ w.to = write.to /\ w.at = "answered"
          /\ w.answer = <<rows'[AtOf(rows, write.id)]>>
      BY <2>1, <2>2, <3>5 DEF Write
    <3>7. w # Null /\ w.answer # Null /\ Len(w.answer) = 1
      BY <3>5, <3>6, TaskListAssumption
    <3>8. write' = w
      BY <1>7, <2>2 DEF Handle
    <3> HIDE DEF w
    <3> QED BY <1>7, <2>1, <2>2, <3>6, <3>7, <3>8 DEF Handle
  <2>3. CASE write.op # "text"
    <3> DEFINE w == [write EXCEPT !.at = "handled"]
    <3>1. w \in Write /\ w.op = write.op /\ w.to = write.to /\ w.at = "handled"
      BY <2>1 DEF Write
    <3>2. w # Null
      BY <3>1, TaskListAssumption
    <3>3. write' = w
      BY <1>7, <2>3 DEF Handle
    <3> HIDE DEF w
    <3> QED BY <1>7, <2>1, <2>3, <3>1, <3>2, <3>3 DEF Handle
  <2> QED BY <2>2, <2>3
<1>8. CASE Reconcile
  <2> DEFINE w == [write EXCEPT !.at = "answered", !.answer = rows]
  <2>1. write \in Write /\ write # Null /\ write.at = "handled"
    BY <1>8 DEF Reconcile
  <2>2. w \in Write /\ w.op = write.op /\ w.to = write.to /\ w.at = "answered" /\ w.answer = rows
    BY <2>1 DEF Write
  <2>3. w # Null /\ w.answer # Null
    BY <2>2, TaskListAssumption
  <2>4. write' = w
    BY <1>8 DEF Reconcile
  <2> HIDE DEF w
  <2> QED BY <1>8, <2>1, <2>2, <2>3, <2>4 DEF Reconcile
<1>9. CASE Settle
  <2>1. write \in Write /\ write # Null /\ write.answer \in Seq(Row) /\ list \in Seq(Task)
    BY <1>9 DEF Settle, Write
  <2>2. Settled \in Seq(Task)
    BY <1>9, <2>1, SettledType DEF Settle
  <2>3. Settled # Null
    BY <2>2, TaskListAssumption
  <2>4. missed' \in SUBSET {"list", "board"}
    BY <1>9 DEF Settle, Told
  <2>5. board' \in Seq(Task) \cup {Null} /\ boarding' \in Seq(Row) \cup {Null, Asked}
    BY <1>9, <2>2 DEF Settle, applyProjectTasks
  <2> QED BY <1>9, <2>2, <2>3, <2>4, <2>5 DEF Settle
<1>10. CASE Fail
  <2>1. write \in Write /\ write # Null /\ write.previous \in Seq(Task)
    BY <1>10 DEF Fail, Write
  <2>2. write.previous # Null
    BY <2>1, TaskListAssumption
  <2> QED BY <1>10, <2>1, <2>2 DEF Fail, Restored
<1>11. CASE UNCHANGED taskVars
  BY <1>11 DEF taskVars
<1> QED BY <1>1, <1>2, <1>3, <1>5, <1>6, <1>7, <1>8, <1>9, <1>10, <1>11, TasksSteps

(* The highlight: a list that misses nothing has it right, and while no    *)
(* write but a text edit is under way it has the server's statuses; so has *)
(* the list that a request which may still fail would restore.             *)
ListRight ==
  list # Null /\ "list" \notin missed =>
    Right(list) /\ (write = Null \/ write.op = "text" => Agree(list, rows))

BoardRight == board # Null /\ "board" \notin missed => Right(board)

UndoRight ==
  write # Null /\ write.at = "sent" /\ ~write.lacked =>
    Right(write.previous) /\ Agree(write.previous, rows)

AnswerRight ==
  write # Null /\ write.op = "text" /\ write.at = "answered" =>
    /\ AtOf(rows, write.id) \in DOMAIN rows
    /\ write.answer = <<rows[AtOf(rows, write.id)]>>

RightInv == ListRight /\ BoardRight /\ UndoRight /\ AnswerRight

(* Two lists that have the ids and statuses of the same rows have each     *)
(* other's.                                                                *)
LEMMA AgreeTwice ==
  ASSUME NEW l, NEW s, NEW r, Agree(l, s), Agree(r, s)
  PROVE  Agree(l, r)
BY DEF Agree

(* Every step keeps the highlight right: predictions take highlights away  *)
(* and give none, and answers carry the server's.                          *)
LEMMA RightStep ==
  ASSUME TasksTypeOK, RightInv, [TasksNext]_taskVars
  PROVE  RightInv'
<1> USE DEF RightInv, ListRight, BoardRight, UndoRight, AnswerRight
<1>0. write # Null => write \in Write
  BY DEF TasksTypeOK
<1>1. CASE Reads
  BY <1>1 DEF Reads, ReadList, AnswerList, ListFails, ReadBoard, AnswerBoard, BoardFails, Open
<1>2. CASE ListArrives
  <2>1. reading \in Seq(Row)
    BY <1>2 DEF ListArrives, TasksTypeOK
  <2>2. Right(annotateIsCurrent(reading)) /\ Agree(annotateIsCurrent(reading), reading)
    BY <2>1, Annotated
  <2>3. "list" \notin missed' => reading = rows
    BY <1>2 DEF ListArrives, Told
  <2>4. list' = annotateIsCurrent(reading)
        /\ UNCHANGED <<rows, board, write>> /\ ("board" \in missed' <=> "board" \in missed)
    BY <1>2 DEF ListArrives, Told
  <2> QED BY <2>2, <2>3, <2>4
<1>3. CASE BoardArrives
  <2>1. boarding \in Seq(Row)
    BY <1>3 DEF BoardArrives, TasksTypeOK
  <2>2. Right(annotateIsCurrent(boarding))
    BY <2>1, Annotated
  <2>4. board' = annotateIsCurrent(boarding)
        /\ UNCHANGED <<rows, list, write>> /\ ("list" \in missed' <=> "list" \in missed)
    BY <1>3 DEF BoardArrives, Told
  <2> QED BY <2>2, <2>4
<1>4. CASE Leave
  <2>1. list' = Null /\ write' = Null /\ board' = board /\ ("board" \notin missed' => "board" \notin missed)
    BY <1>4 DEF Leave
  <2> QED BY <2>1
<1>5. CASE Begins
  <2>1. PICK op \in {"create", "status", "text", "remove"}, id \in Nat,
             to \in Statuses \cup Texts \cup {Null} : Asking(op, id, to) /\ Begin(op, id, to)
    BY <1>5 DEF Begins
  <2>2. list \in Seq(Task) /\ list # Null /\ write = Null
    BY <2>1 DEF Begin, TasksTypeOK
  <2>3. /\ Predicted(op, id, to) \in Seq(Task)
        /\ Right(list) => Right(Predicted(op, id, to))
        /\ op = "text" => Predicted(op, id, to) = [list EXCEPT ![AtOf(list, id)].text = to]
    BY <2>1, <2>2, PredictedIs
  <2>4. op = "text" => Agree(Predicted(op, id, to), list)
    <3>1. SUFFICES ASSUME op = "text" PROVE Agree(Predicted(op, id, to), list)
      OBVIOUS
    <3>2. PICK at : at = AtOf(list, id)
      OBVIOUS
    <3>3. at \in DOMAIN list /\ list[at] \in Task
      BY <2>1, <2>2, <3>1, <3>2, AtOfIs DEF Asking, IsAt
    <3>4. Predicted(op, id, to) = [list EXCEPT ![at].text = to]
      BY <2>3, <3>1, <3>2
    <3> QED BY <2>2, <3>3, <3>4 DEF Agree, Task
  <2>5. Agree(list, rows) /\ op = "text" => Agree(Predicted(op, id, to), rows)
    BY <2>4 DEF Agree
  <2>6. /\ write' = [op |-> op, id |-> id, to |-> to, previous |-> list,
                     lacked |-> "list" \in missed, at |-> "sent", answer |-> Null]
        /\ list' = Predicted(op, id, to)
        /\ UNCHANGED <<rows, board, missed>>
    BY <2>1 DEF Begin
  <2>7. /\ write'.op = op /\ write'.previous = list /\ (write'.lacked <=> "list" \in missed)
        /\ write'.at = "sent"
    BY <2>6
  <2>8. ("list" \notin missed => Right(list) /\ Agree(list, rows)) /\ write' # Null
    <3>1. write' \in Write
      BY <2>1, <2>2, <2>6 DEF Write
    <3> QED BY <2>2, <3>1, TaskListAssumption
  <2>9. ListRight'
    BY <2>3, <2>5, <2>6, <2>7, <2>8
  <2>10. BoardRight'
    BY <2>6
  <2>11. UndoRight'
    BY <2>6, <2>7, <2>8
  <2>12. AnswerRight'
    BY <2>7
  <2> QED BY <2>9, <2>10, <2>11, <2>12
<1>6. CASE Handle
  <2>1. /\ write \in Write /\ write # Null /\ write.at = "sent" /\ ~Refused(write)
        /\ rows' = Handled(write)
        /\ UNCHANGED <<list, board, missed>>
    BY <1>0, <1>6 DEF Handle, ServerHandles
  <2>2. CASE write.op # "text"
    <3>1. write'.op = write.op /\ write'.at = "handled"
      BY <1>6, <2>1, <2>2 DEF Handle, Write
    <3>2. write' # Null
      <4>1. write' \in Write
        BY <1>6, <2>1, <2>2 DEF Handle, Write
      <4> QED BY <4>1, TaskListAssumption
    <3> QED BY <2>1, <2>2, <3>1, <3>2
  <2>3. CASE write.op = "text"
    <3>1. /\ AtOf(rows, write.id) \in DOMAIN rows
          /\ rows' = [rows EXCEPT ![AtOf(rows, write.id)].text = write.to]
          /\ rows \in Seq(Row) /\ rows' \in Seq(Row) /\ write.to \in Texts
      BY <2>1, <2>3, HandledIs DEF TasksTypeOK
    <3>2. Agree(rows', rows)
      BY <3>1, RenamedIs
    <3>3. AtOf(rows', write.id) = AtOf(rows, write.id) /\ DOMAIN rows' = DOMAIN rows
      <4>1. AtOf(rows', write.id) = AtOf(rows, write.id)
        BY <3>1, <3>2, SameAt
      <4> QED BY <3>1, <4>1
    <3>4. write' = [write EXCEPT !.at = "answered", !.answer = <<rows'[AtOf(rows, write.id)]>>]
      BY <1>6, <2>3 DEF Handle
    <3>5. /\ write'.op = "text" /\ write'.id = write.id /\ write'.at = "answered"
          /\ write'.answer = <<rows'[AtOf(rows, write.id)]>>
      BY <2>1, <2>3, <3>4 DEF Write
    <3>6. "list" \notin missed' /\ list' # Null => Right(list') /\ Agree(list', rows')
      BY <2>1, <2>3, <3>2, AgreeTwice
    <3>7. /\ AtOf(rows', write'.id) \in DOMAIN rows'
          /\ write'.answer = <<rows'[AtOf(rows', write'.id)]>>
      BY <3>1, <3>3, <3>5
    <3> QED BY <2>1, <3>5, <3>6, <3>7
  <2> QED BY <2>2, <2>3
<1>7. CASE Reconcile
  <2>1. /\ write \in Write /\ write # Null /\ write.at = "handled"
        /\ write' = [write EXCEPT !.at = "answered", !.answer = rows]
        /\ UNCHANGED <<rows, list, board, missed>>
    BY <1>0, <1>7 DEF Reconcile
  <2>2. write'.op = write.op /\ write'.at = "answered" /\ write.op # "text"
    BY <2>1 DEF Write, TasksTypeOK
  <2>3. write' # Null
    <3>1. rows \in Seq(Row)
      BY DEF TasksTypeOK
    <3>2. write' \in Write
      BY <2>1, <3>1 DEF Write
    <3> QED BY <3>2, TaskListAssumption
  <2> QED BY <2>1, <2>2, <2>3
<1>8. CASE Settle
  <2>1. /\ write \in Write /\ write # Null /\ write.at = "answered"
        /\ list \in Seq(Task) /\ rows \in Seq(Row) /\ write.answer \in Seq(Row) /\ list # Null
        /\ list' = Settled /\ write' = Null /\ rows' = rows
    BY <1>0, <1>8 DEF Settle, TasksTypeOK, Write
  <2>2. (board = Null /\ board' = board) \/ board' = Settled
    BY <1>8 DEF Settle, applyProjectTasks
  <2>3. CASE write.op # "text"
    <3>1. Settled = annotateIsCurrent(write.answer) /\ Right(Settled) /\ Agree(Settled, write.answer)
      BY <2>1, <2>3, SettledType, Annotated
    <3>2. "list" \notin missed' => write.answer = rows
      BY <1>8, <2>3 DEF Settle, Told
    <3>3. "board" \notin missed' /\ board' # Settled => "board" \notin missed
      BY <1>8, <2>3 DEF Settle, Told, applyProjectTasks
    <3> QED BY <2>1, <2>2, <3>1, <3>2, <3>3
  <2>4. CASE write.op = "text"
    <3>1. "list" \notin missed' => "list" \notin missed
      BY <1>8, <2>4 DEF Settle
    <3>2. "board" \notin missed' => "list" \notin missed \/ (board' = board /\ "board" \notin missed)
      BY <1>8, <2>4 DEF Settle, applyProjectTasks
    <3>3. "list" \notin missed => Right(Settled) /\ Agree(Settled, rows)
      <4>1. SUFFICES ASSUME "list" \notin missed
                     PROVE  Right(Settled) /\ Agree(Settled, rows)
        OBVIOUS
      <4>2. Right(list) /\ Agree(list, rows)
        BY <2>1, <2>4, <4>1
      <4>3. PICK at : at = AtOf(list, write.id)
        OBVIOUS
      <4>4. at = AtOf(rows, write.id) /\ at \in DOMAIN rows /\ at \in DOMAIN list
            /\ write.answer = <<rows[at]>> /\ list[at] \in Task /\ rows[at] \in Row
        BY <2>1, <2>4, <4>2, <4>3, SameAt DEF Agree
      <4>5. at # 0
        BY <2>1, <4>4
      <4> DEFINE x == mergeMutatedTask(list[at], rows[at])
      <4>6. Settled = [list EXCEPT ![at] = x]
        BY <2>4, <4>3, <4>4, <4>5 DEF Settled
      <4>7. x \in Task /\ x.isCurrent = list[at].isCurrent /\ x.status = list[at].status /\ x.id = list[at].id
        BY <4>2, <4>4 DEF mergeMutatedTask, Task, Row, Agree
      <4>8. x.isCurrent => list[at].isCurrent /\ x.status = "pending"
        BY <4>2, <4>4, <4>7 DEF Right
      <4> HIDE DEF x
      <4>9. Right(Settled)
        BY <2>1, <4>2, <4>4, <4>6, <4>7, <4>8, ReplacedRight
      <4>10. Agree(Settled, rows)
        BY <2>1, <4>2, <4>4, <4>6, <4>7 DEF Agree
      <4> QED BY <4>9, <4>10
    <3>4. ListRight'
      BY <2>1, <3>1, <3>3
    <3>5. BoardRight'
      BY <2>2, <3>2, <3>3
    <3> QED BY <2>1, <3>4, <3>5
  <2> QED BY <2>3, <2>4
<1>9. CASE Fail
  <2>1. /\ write \in Write /\ write # Null /\ list' = write.previous /\ write' = Null
        /\ UNCHANGED <<rows, board>>
    BY <1>0, <1>9 DEF Fail, Restored
  <2>2. CASE write.at # "sent"
    BY <1>9, <2>1, <2>2 DEF Fail
  <2>3. CASE write.at = "sent"
    <3>1. /\ "list" \notin missed' => ~write.lacked
          /\ "board" \notin missed' => "board" \notin missed
      BY <1>9, <2>1, <2>3 DEF Fail, TasksTypeOK
    <3> QED BY <2>1, <2>3, <3>1
  <2> QED BY <2>2, <2>3
<1>10. CASE UNCHANGED taskVars
  BY <1>10 DEF taskVars
<1> QED BY <1>1, <1>2, <1>3, <1>4, <1>5, <1>6, <1>7, <1>8, <1>9, <1>10, TasksSteps

(* Nothing overlaps a write.  Then a re-read answers what the server still *)
(* has, and a list that misses nothing is the server's, ahead of it by the *)
(* write under way: a text edit is already what the answer will say.       *)
Calm ==
  /\ shut => list = Null /\ reading = Null /\ write = Null
  /\ write # Null => reading = Null /\ boarding = Null
  /\ reading \notin {Null, Asked} => reading = rows
  /\ boarding \notin {Null, Asked} => boarding = rows

ListTrue == write = Null /\ list # Null /\ "list" \notin missed => list = annotateIsCurrent(rows)

BoardTrue ==
  board # Null /\ "board" \notin missed /\ (write = Null \/ write.at = "sent")
    => board = annotateIsCurrent(rows)

WriteTrue ==
  write # Null =>
    /\ write.lacked <=> "list" \in missed
    /\ "list" \notin missed /\ write.at = "sent" =>
         /\ write.previous = annotateIsCurrent(rows)
         /\ write.op = "text" =>
              list = [write.previous EXCEPT ![AtOf(write.previous, write.id)].text = write.to]
    /\ "list" \notin missed /\ write.at = "answered" /\ write.op = "text" =>
         list = annotateIsCurrent(rows)

StepInv == apart => Calm /\ ListTrue /\ BoardTrue /\ WriteTrue

(* When nothing overlaps a write, every step keeps a list that misses      *)
(* nothing the server's, ahead of it by the write under way at most.       *)
LEMMA StepStep ==
  ASSUME TasksTypeOK, RightInv, StepInv, [TasksNext]_taskVars
  PROVE  StepInv'
<1>0. (write # Null => write \in Write) /\ (write' # Null => write' \in Write) /\ TasksTypeOK'
  BY TasksTypeStep DEF TasksTypeOK
<1>1. CASE UNCHANGED taskVars
  BY <1>1 DEF taskVars, StepInv, Calm, ListTrue, BoardTrue, WriteTrue
<1>2. apart' = apart
  BY DEF TasksNext, taskVars, ReadList, AnswerList, ListArrives, ListFails, ReadBoard, AnswerBoard,
         BoardArrives, BoardFails, Open, Leave, Create, SetStatus, EditText, RemoveTask, Begin,
         Handle, Reconcile, Settle, Fail
<1> SUFFICES ASSUME apart, Calm, ListTrue, BoardTrue, WriteTrue, TasksNext
             PROVE  Calm' /\ ListTrue' /\ BoardTrue' /\ WriteTrue'
  BY <1>1, <1>2 DEF StepInv
<1>3. CASE Reads
  <2>1. Calm'
    <3>1. CASE ReadList
      BY <3>1 DEF Calm, ReadList
    <3>2. CASE ReadBoard
      BY <3>2 DEF Calm, ReadBoard
    <3>3. CASE AnswerList
      BY <3>3, TaskListAssumption DEF Calm, AnswerList
    <3>4. CASE AnswerBoard
      BY <3>4, TaskListAssumption DEF Calm, AnswerBoard
    <3>5. CASE ListFails
      BY <3>5 DEF Calm, ListFails
    <3>6. CASE BoardFails
      BY <3>6 DEF Calm, BoardFails
    <3>7. CASE Open
      BY <3>7 DEF Calm, Open
    <3> QED BY <1>3, <3>1, <3>2, <3>3, <3>4, <3>5, <3>6, <3>7 DEF Reads
  <2>2. UNCHANGED <<write, list, board, rows, missed>>
    BY <1>3 DEF Reads, ReadList, AnswerList, ListFails, ReadBoard, AnswerBoard, BoardFails, Open
  <2> QED BY <2>1, <2>2 DEF ListTrue, BoardTrue, WriteTrue
<1>4. CASE ListArrives
  <2>1. /\ reading = rows /\ write = Null /\ ~shut
        /\ list' = annotateIsCurrent(rows) /\ reading' = Null
        /\ UNCHANGED <<rows, shut, board, boarding, write>>
        /\ missed' = missed \ {"list"}
    BY <1>4 DEF ListArrives, Told, Calm
  <2> QED BY <2>1 DEF Calm, ListTrue, BoardTrue, WriteTrue
<1>5. CASE BoardArrives
  <2>1. /\ boarding = rows /\ write = Null
        /\ board' = annotateIsCurrent(rows) /\ boarding' = Null
        /\ UNCHANGED <<rows, shut, list, reading, write>>
        /\ missed' = missed \ {"board"}
    BY <1>5 DEF BoardArrives, Told, Calm
  <2> QED BY <2>1 DEF Calm, ListTrue, BoardTrue, WriteTrue
<1>6. CASE Leave
  <2>1. /\ write = Null /\ UNCHANGED <<rows, board, boarding, missed>>
        /\ list' = Null /\ reading' = Null /\ write' = Null
    BY <1>6 DEF Leave
  <2> QED BY <2>1 DEF Calm, ListTrue, BoardTrue, WriteTrue
<1>7. CASE Begins
  <2>1. PICK op \in {"create", "status", "text", "remove"}, id \in Nat,
             to \in Statuses \cup Texts \cup {Null} : Asking(op, id, to) /\ Begin(op, id, to)
    BY <1>7 DEF Begins
  <2>2. list \in Seq(Task) /\ list # Null /\ write = Null /\ reading = Null /\ boarding = Null /\ ~shut
    BY <2>1 DEF Begin, TasksTypeOK, Calm
  <2>3. op = "text" => Predicted(op, id, to) = [list EXCEPT ![AtOf(list, id)].text = to]
    BY <2>1, <2>2, PredictedIs
  <2>4. /\ write' = [op |-> op, id |-> id, to |-> to, previous |-> list,
                     lacked |-> "list" \in missed, at |-> "sent", answer |-> Null]
        /\ list' = Predicted(op, id, to)
        /\ UNCHANGED <<rows, made, shut, reading, board, boarding, missed>>
    BY <2>1 DEF Begin
  <2>5. /\ write'.op = op /\ write'.id = id /\ write'.to = to /\ write'.previous = list
        /\ (write'.lacked <=> "list" \in missed) /\ write'.at = "sent"
    BY <2>4
  <2>6. write' # Null
    <3>1. write' \in Write
      BY <2>1, <2>2, <2>4 DEF Write
    <3> QED BY <3>1, TaskListAssumption
  <2>7. Calm' /\ ListTrue'
    BY <2>2, <2>4, <2>6 DEF Calm, ListTrue
  <2>8. BoardTrue'
    BY <2>2, <2>4 DEF BoardTrue
  <2>9. WriteTrue'
    BY <2>2, <2>3, <2>4, <2>5 DEF WriteTrue, ListTrue
  <2> QED BY <2>7, <2>8, <2>9
<1>8. CASE Handle
  <2>1. /\ write \in Write /\ write # Null /\ write.at = "sent" /\ ~Refused(write)
        /\ rows' = Handled(write)
        /\ UNCHANGED <<list, shut, reading, board, boarding, missed>>
    BY <1>0, <1>8 DEF Handle, ServerHandles
  <2>2. write' # Null /\ write'.at \in {"handled", "answered"} /\ write'.lacked = write.lacked
        /\ write'.op = write.op /\ (write.op # "text" => write'.at = "handled")
    <3>1. write' \in Write /\ write'.at \in {"handled", "answered"} /\ write'.lacked = write.lacked
          /\ write'.op = write.op /\ (write.op # "text" => write'.at = "handled")
      <4>1. CASE write.op # "text"
        BY <1>8, <2>1, <4>1 DEF Handle, Write
      <4>2. CASE write.op = "text"
        <5>1. /\ AtOf(rows, write.id) \in DOMAIN rows
              /\ DOMAIN rows' = DOMAIN rows /\ rows' \in Seq(Row)
          BY <2>1, <4>2, HandledIs, RenamedIs DEF TasksTypeOK
        <5>2. rows'[AtOf(rows, write.id)] \in Row
          BY <5>1
        <5>3. <<rows'[AtOf(rows, write.id)]>> \in Seq(Row)
          BY <5>2
        <5>4. write' = [write EXCEPT !.at = "answered", !.answer = <<rows'[AtOf(rows, write.id)]>>]
          BY <1>8, <4>2 DEF Handle
        <5> QED BY <2>1, <4>2, <5>3, <5>4 DEF Write
      <4> QED BY <4>1, <4>2
    <3> QED BY <3>1, TaskListAssumption
  <2>3. Calm'
    BY <2>1, TaskListAssumption DEF Calm
  <2>4. ListTrue' /\ BoardTrue'
    BY <2>2 DEF ListTrue, BoardTrue
  <2>5. ASSUME "list" \notin missed, write.op = "text"
        PROVE  list = annotateIsCurrent(rows')
    <3>1. /\ AtOf(rows, write.id) \in DOMAIN rows
          /\ rows' = [rows EXCEPT ![AtOf(rows, write.id)].text = write.to]
          /\ rows \in Seq(Row) /\ write.to \in Texts
      BY <2>1, <2>5, HandledIs DEF TasksTypeOK
    <3>2. annotateIsCurrent(rows') = [annotateIsCurrent(rows) EXCEPT ![AtOf(rows, write.id)].text = write.to]
      <4>1. PICK at \in DOMAIN rows : at = AtOf(rows, write.id)
        BY <3>1
      <4>2. rows' = [rows EXCEPT ![at].text = write.to]
        BY <3>1, <4>1
      <4>3. PICK r : r = [rows EXCEPT ![at].text = write.to]
        OBVIOUS
      <4>4. PICK to \in Texts : to = write.to
        BY <3>1
      <4>5. RenamedTo(rows, r, at, to)
        BY <3>1, <4>3, <4>4, RenamedIs
      <4> QED BY <4>1, <4>2, <4>3, <4>4, <4>5 DEF RenamedTo
    <3>3. write.previous = annotateIsCurrent(rows)
          /\ list = [write.previous EXCEPT ![AtOf(write.previous, write.id)].text = write.to]
      BY <2>1, <2>5 DEF WriteTrue
    <3>4. Agree(annotateIsCurrent(rows), rows) /\ annotateIsCurrent(rows) \in Seq(Task)
      BY <3>1, Annotated
    <3>5. AtOf(write.previous, write.id) = AtOf(rows, write.id)
      BY <3>1, <3>3, <3>4, SameAt
    <3> QED BY <3>2, <3>3, <3>5
  <2>6. WriteTrue'
    BY <2>1, <2>2, <2>5 DEF WriteTrue
  <2> QED BY <2>3, <2>4, <2>6
<1>9. CASE Reconcile
  <2>1. /\ write \in Write /\ write # Null /\ write.at = "handled" /\ write.op # "text"
        /\ write' = [write EXCEPT !.at = "answered", !.answer = rows]
        /\ UNCHANGED <<rows, list, board, missed, shut, reading, boarding>>
    BY <1>0, <1>9 DEF Reconcile, TasksTypeOK
  <2>2. write'.op = write.op /\ write'.at = "answered" /\ write'.lacked = write.lacked /\ write' # Null
    <3>1. write' \in Write /\ write'.op = write.op /\ write'.at = "answered" /\ write'.lacked = write.lacked
      BY <2>1 DEF Write, TasksTypeOK
    <3> QED BY <3>1, TaskListAssumption
  <2> QED BY <2>1, <2>2 DEF Calm, ListTrue, BoardTrue, WriteTrue
<1>10. CASE Settle
  <2>1. /\ write \in Write /\ write # Null /\ write.at = "answered"
        /\ list \in Seq(Task) /\ rows \in Seq(Row) /\ write.answer \in Seq(Row) /\ list # Null
        /\ list' = Settled /\ write' = Null /\ rows' = rows /\ reading' = reading /\ shut' = shut
    BY <1>0, <1>10 DEF Settle, TasksTypeOK, Write
  <2>2. \/ board = Null /\ board' = board /\ boarding' = Asked
        \/ board # Null /\ board' = Settled /\ boarding' = boarding
    BY <1>10 DEF Settle, applyProjectTasks
  <2>3. Calm'
    BY <2>1, <2>2 DEF Calm
  <2>4. "list" \notin missed' => Settled = annotateIsCurrent(rows)
    <3>1. CASE write.op # "text"
      BY <1>10, <2>1, <3>1, SettledType DEF Settle, Told
    <3>2. CASE write.op = "text"
      <4>1. SUFFICES ASSUME "list" \notin missed PROVE Settled = annotateIsCurrent(rows)
        BY <1>10, <3>2 DEF Settle
      <4>2. list = annotateIsCurrent(rows) /\ Agree(list, rows)
            /\ \A i \in DOMAIN rows : list[i].text = rows[i].text
        BY <2>1, <3>2, <4>1, Annotated DEF WriteTrue
      <4>3. PICK at : at = AtOf(list, write.id)
        OBVIOUS
      <4>4. at = AtOf(rows, write.id) /\ at \in DOMAIN rows /\ at \in DOMAIN list
            /\ write.answer = <<rows[at]>> /\ list[at] \in Task /\ rows[at] \in Row
        BY <2>1, <3>2, <4>2, <4>3, SameAt DEF Agree, RightInv, AnswerRight
      <4>5. at # 0
        BY <2>1, <4>4
      <4>6. Settled = [list EXCEPT ![at] = mergeMutatedTask(list[at], rows[at])]
        BY <3>2, <4>3, <4>4, <4>5 DEF Settled
      <4>7. mergeMutatedTask(list[at], rows[at]) = list[at]
        BY <4>2, <4>4 DEF mergeMutatedTask, Task, Row, Agree
      <4> QED BY <2>1, <4>2, <4>4, <4>6, <4>7
    <3> QED BY <3>1, <3>2
  <2>5. board' # Null /\ "board" \notin missed' => "list" \notin missed' /\ board' = Settled
    BY <1>10, <2>2 DEF Settle, Told
  <2> QED BY <2>1, <2>3, <2>4, <2>5 DEF ListTrue, BoardTrue, WriteTrue
<1>11. CASE Fail
  <2>1. /\ write \in Write /\ write # Null /\ list' = write.previous /\ write' = Null
        /\ UNCHANGED <<rows, board, shut, reading, boarding>>
    BY <1>0, <1>11 DEF Fail, Restored
  <2>2. CASE write.at # "sent"
    BY <1>11, <2>1, <2>2 DEF Fail, Calm, ListTrue, BoardTrue, WriteTrue
  <2>3. CASE write.at = "sent"
    <3>1. /\ "list" \notin missed' => "list" \notin missed
          /\ "board" \notin missed' => "board" \notin missed
      BY <1>11, <2>1, <2>3 DEF Fail, WriteTrue
    <3> QED BY <2>1, <2>3, <3>1 DEF Calm, ListTrue, BoardTrue, WriteTrue
  <2> QED BY <2>2, <2>3
<1> QED BY <1>3, <1>4, <1>5, <1>6, <1>7, <1>8, <1>9, <1>10, <1>11, TasksSteps

-----------------------------------------------------------------------------
(* The theorems about the tasks.                                           *)

(* Nothing is loaded at first.                                             *)
LEMMA TasksStart ==
  ASSUME TasksInit
  PROVE  TasksTypeOK /\ RightInv /\ StepInv
<1>1. rows \in Seq(Row)
  <2>1. PICK s, t \in Statuses :
          rows = <<[id |-> 1, status |-> s, text |-> "first"], [id |-> 2, status |-> t, text |-> "first"]>>
    BY DEF TasksInit
  <2>2. [id |-> 1, status |-> s, text |-> "first"] \in Row /\ [id |-> 2, status |-> t, text |-> "first"] \in Row
    BY DEF Row, Local, Texts
  <2> QED BY <2>1, <2>2
<1>2. TasksTypeOK
  BY <1>1, TaskListAssumption DEF TasksInit, TasksTypeOK
<1>3. RightInv
  BY DEF TasksInit, RightInv, ListRight, BoardRight, UndoRight, AnswerRight
<1>4. StepInv
  BY TaskListAssumption DEF TasksInit, StepInv, Calm, ListTrue, BoardTrue, WriteTrue
<1> QED BY <1>2, <1>3, <1>4

TasksInv == TasksTypeOK /\ RightInv /\ StepInv

(* The inductive invariant of the tasks: types, the highlight, and the     *)
(* list in step with the server.                                           *)
THEOREM TasksInvariant == Spec => []TasksInv
<1>1. Init => TasksInv
  BY TasksStart DEF Init, TasksInv
<1>2. TasksInv /\ [Next]_vars => TasksInv'
  <2> SUFFICES ASSUME TasksInv, [Next]_vars PROVE TasksInv'
    OBVIOUS
  <2>1. [TasksNext]_taskVars
    BY DEF Next, vars
  <2> QED BY <2>1, TasksTypeStep, RightStep, StepStep DEF TasksInv
<1> QED BY <1>1, <1>2, PTL DEF Spec

(* Every variable of the tasks always has its type, however many writes    *)
(* are begun.                                                              *)
THEOREM TasksTypeCorrect == Spec => []TasksTypeOK
<1>1. TasksInv => TasksTypeOK
  BY DEF TasksInv
<1> QED BY <1>1, TasksInvariant, PTL

(* CurrentRight for any number of writes: a list or a board's row that     *)
(* misses nothing highlights at most one task, and a pending one, through  *)
(* predictions, answers, late re-reads and rollbacks.                      *)
THEOREM CurrentRightCorrect == Spec => []CurrentRight
<1>1. TasksInv => CurrentRight
  <2> SUFFICES ASSUME ListRight, BoardRight PROVE CurrentRight
    BY DEF TasksInv, RightInv
  <2>1. "list" \notin missed /\ list # Null =>
          \A i, j \in Current(list) : i = j /\ list[i].status = "pending"
    BY CurrentIs DEF ListRight
  <2>2. "board" \notin missed /\ board # Null =>
          \A i, j \in Current(board) : i = j /\ board[i].status = "pending"
    BY CurrentIs DEF BoardRight
  <2> QED BY <2>1, <2>2 DEF CurrentRight
<1> QED BY <1>1, TasksInvariant, PTL

(* InStep for any number of writes: when none overlaps a read, a list and  *)
(* a board that miss nothing are the server's once all is quiet.           *)
THEOREM InStepCorrect == Spec => []InStep
<1>1. TasksInv => InStep
  BY DEF TasksInv, StepInv, ListTrue, BoardTrue, InStep, Quiet
<1> QED BY <1>1, TasksInvariant, PTL

-----------------------------------------------------------------------------
(* The steps of the notes.                                                 *)

Asks(op, id) ==
  /\ op \in {"create", "edit", "remove"} /\ id \in Int
  /\ op = "create" => id = Placeholder(begun + 1)
  /\ op # "create" => TextIn(shown, id) # None

Began == \E op \in {"create", "edit", "remove"}, id \in Int : Asks(op, id) /\ BeginNote(op, id)

(* Every step of the notes is one of these: the three writes begin alike.  *)
LEMMA NotesSteps ==
  ASSUME NotesTypeOK, NotesNext
  PROVE  \/ ReadNotes \/ AnswerNotes \/ NotesArrive \/ NotesFail
         \/ GraceOver \/ LateNotes \/ LateFails \/ Began
         \/ \E w \in noteWrites : HandleNote(w) \/ SettleNote(w) \/ FailNote(w)
<1>1. ASSUME CreateNote PROVE Began
  <2>1. Asks("create", Placeholder(begun + 1)) /\ BeginNote("create", Placeholder(begun + 1))
    BY <1>1 DEF CreateNote, Asks, Placeholder, NotesTypeOK
  <2> QED BY <2>1 DEF Began, Asks
<1>2. ASSUME shown # None, NEW i \in DOMAIN shown
      PROVE  shown[i].id \in Int /\ TextIn(shown, shown[i].id) # None
  <2>1. shown \in Seq(Note)
    BY <1>2 DEF NotesTypeOK
  <2>2. shown[i] \in Note
    BY <1>2, <2>1
  <2> QED BY <1>2, <2>1, <2>2, NoteThere DEF Note
<1>3. ASSUME shown # None, NEW i \in DOMAIN shown, EditNote(shown[i]) PROVE Began
  <2>1. Asks("edit", shown[i].id) /\ BeginNote("edit", shown[i].id)
    BY <1>2, <1>3 DEF EditNote, Asks
  <2> QED BY <2>1 DEF Began, Asks
<1>4. ASSUME shown # None, NEW i \in DOMAIN shown, RemoveNote(shown[i]) PROVE Began
  <2>1. Asks("remove", shown[i].id) /\ BeginNote("remove", shown[i].id)
    BY <1>2, <1>4 DEF RemoveNote, Asks
  <2> QED BY <2>1 DEF Began, Asks
<1> QED BY <1>1, <1>3, <1>4 DEF NotesNext

\* What the list is once a write has begun.
SaysAfterBegin(op, note) ==
  \A id : TextIn(shown', id) =
            CASE op = "create" /\ id = note /\ TextIn(shown, id) = None -> "ours"
              [] op = "edit" /\ id = note -> "ours"
              [] op = "remove" /\ id = note -> None
              [] OTHER -> TextIn(shown, id)

(* What a write that begins makes of the list on screen.                   *)
LEMMA BegunIs ==
  ASSUME NotesTypeOK, NEW op, NEW id, Asks(op, id), BeginNote(op, id)
  PROVE  shown' \in Seq(Note) /\ SaysAfterBegin(op, id)
<1>1. shown \in Seq(Note) /\ shown # None
  BY DEF BeginNote, NotesTypeOK
<1>2. CASE op = "create"
  <2>1. PICK r \in Note : r = [id |-> id, text |-> "ours"]
    BY DEF Asks, Note
  <2>2. shown' = Append(shown, r)
    BY <1>2, <2>1 DEF BeginNote, Changed
  <2>3. shown' \in Seq(Note) /\ SaysAfterAppend(shown, r)
    BY <1>1, <2>2, NoteAppended
  <2> QED BY <1>2, <2>1, <2>2, <2>3 DEF SaysAfterAppend, SaysAfterBegin
<1>3. CASE op = "edit"
  <2>1. AtOf(shown, id) # 0
    BY <1>3 DEF Asks, TextIn
  <2>2. PICK t : t = [shown EXCEPT ![AtOf(shown, id)].text = "ours"]
    OBVIOUS
  <2>3. shown' = t
    BY <1>3, <2>2 DEF BeginNote, Changed
  <2>4. t \in Seq(Note) /\ SaysAfterEdit(shown, t, id)
    BY <1>1, <2>1, <2>2, NoteEdited
  <2> QED BY <1>3, <2>3, <2>4 DEF SaysAfterEdit, SaysAfterBegin
<1>4. CASE op = "remove"
  <2>1. shown' = Without(shown, id)
    BY <1>4 DEF BeginNote, Changed
  <2>2. shown' \in Seq(Note) /\ SaysAfterRemoval(shown, id)
    BY <1>1, <2>1, NoteRemoved
  <2> QED BY <1>4, <2>1, <2>2 DEF SaysAfterRemoval, SaysAfterBegin
<1> QED BY <1>2, <1>3, <1>4 DEF Asks

\* What the server's rows are once a request was handled.
SaysAfterHandling(w) ==
  \A id : TextIn(notes', id) # None => TextIn(notes, id) # None \/ (w.op = "create" /\ id = 2 + w.n)

Answer(w) == [id |-> IF w.op = "create" THEN 2 + w.n ELSE w.id, text |-> "ours"]

(* The server answers a write of a note with a note.                       *)
LEMMA AnswerIsNote ==
  ASSUME NEW w \in NoteWrite
  PROVE  Answer(w) \in Note
<1>1. (IF w.op = "create" THEN 2 + w.n ELSE w.id) \in Int
  BY DEF NoteWrite
<1> QED BY <1>1 DEF Answer, Note

(* What a request leaves of the server's rows and of the write: no id      *)
(* appears but the new note's.                                             *)
LEMMA NoteHandledIs ==
  ASSUME NotesTypeOK, NEW w \in noteWrites, HandleNote(w)
  PROVE  /\ notes' \in Seq(Note) /\ SaysAfterHandling(w)
         /\ w.op # "create" => TextIn(notes, w.id) # None
         /\ \E u \in NoteWrite :
              /\ u = [w EXCEPT !.at = "handled", !.answer = Answer(w)]
              /\ noteWrites' = (noteWrites \ {w}) \cup {u}
<1>1. notes \in Seq(Note) /\ w \in NoteWrite /\ noteWrites \in SUBSET NoteWrite
  BY DEF NotesTypeOK
<1>2. w.n \in Nat /\ w.id \in Int /\ w.op \in {"create", "edit", "remove"}
  BY <1>1 DEF NoteWrite
<1>3. PICK a \in Note : a = Answer(w)
  BY <1>1, AnswerIsNote
<1>4. PICK u : u = [w EXCEPT !.at = "handled", !.answer = a]
  OBVIOUS
<1>5. u \in NoteWrite
  BY <1>1, <1>4 DEF NoteWrite
<1>6. noteWrites' = (noteWrites \ {w}) \cup {u}
  BY <1>2, <1>3, <1>4 DEF HandleNote, Answer
<1>7. w.op # "create" => AtOf(notes, w.id) # 0
  BY DEF HandleNote
<1>8. w.op # "create" => TextIn(notes, w.id) # None
  <2>1. PICK n \in Nat : n = AtOf(notes, w.id) /\ IsAt(notes, w.id, n)
    BY <1>1, AtOfIs
  <2> QED BY <1>1, <1>7, <2>1, NoteThere DEF IsAt
<1>9. CASE w.op = "create"
  <2>1. notes' = Append(notes, a)
    BY <1>3, <1>9 DEF HandleNote, Answer
  <2>2. notes' \in Seq(Note) /\ SaysAfterAppend(notes, a)
    BY <1>1, <2>1, NoteAppended
  <2>3. a.id = 2 + w.n
    BY <1>3, <1>9 DEF Answer
  <2>4. SaysAfterHandling(w)
    BY <1>9, <2>1, <2>2, <2>3 DEF SaysAfterAppend, SaysAfterHandling
  <2> QED BY <1>3, <1>4, <1>5, <1>6, <1>9, <2>2, <2>4
<1>10. CASE w.op = "edit"
  <2>1. PICK t : t = [notes EXCEPT ![AtOf(notes, w.id)].text = "ours"]
    OBVIOUS
  <2>2. notes' = t
    BY <1>10, <2>1 DEF HandleNote
  <2>3. t \in Seq(Note) /\ SaysAfterEdit(notes, t, w.id)
    BY <1>1, <1>7, <1>10, <2>1, NoteEdited
  <2>4. SaysAfterHandling(w)
    BY <1>8, <1>10, <2>2, <2>3 DEF SaysAfterEdit, SaysAfterHandling
  <2> QED BY <1>3, <1>4, <1>5, <1>6, <1>8, <2>2, <2>3, <2>4
<1>11. CASE w.op = "remove"
  <2>1. notes' = Without(notes, w.id)
    BY <1>11 DEF HandleNote
  <2>2. notes' \in Seq(Note) /\ SaysAfterRemoval(notes, w.id)
    BY <1>1, <2>1, NoteRemoved
  <2>3. SaysAfterHandling(w)
    BY <1>11, <2>1, <2>2 DEF SaysAfterRemoval, SaysAfterHandling
  <2> QED BY <1>3, <1>4, <1>5, <1>6, <1>8, <2>2, <2>3
<1> QED BY <1>2, <1>9, <1>10, <1>11

\* What a settled write makes of the list and of what is settled.
SettledNow(w) ==
  IF w.op = "remove"
  THEN /\ DOMAIN settled' = DOMAIN settled \cup {w.id}
       /\ \A id \in DOMAIN settled' : settled'[id] = IF id = w.id THEN None ELSE settled[id]
  ELSE /\ DOMAIN settled' = DOMAIN settled \cup {w.answer.id}
       /\ \A id \in DOMAIN settled' :
            settled'[id] = IF id \in DOMAIN settled THEN settled[id] ELSE w.answer.text

(* What a settled write adds to what is settled: a removed note stays      *)
(* removed.                                                                *)
LEMMA NoteSettledIs ==
  ASSUME NotesTypeOK, NEW w \in noteWrites, SettleNote(w)
  PROVE  SettledNow(w)
<1>1. CASE w.op = "remove"
  BY <1>1 DEF SettleNote, SettledAs, SettledNow
<1>2. CASE w.op # "remove" /\ w.answer.id \in DOMAIN settled
  BY <1>2 DEF SettleNote, SettledNow
<1>3. CASE w.op # "remove" /\ w.answer.id \notin DOMAIN settled
  BY <1>3 DEF SettleNote, SettledAs, SettledNow
<1> QED BY <1>1, <1>2, <1>3

(* What an answer that is merged makes of the list on screen.              *)
LEMMA MergedIs ==
  ASSUME NotesTypeOK, NEW w \in noteWrites, SettleNote(w), w.op # "remove", w.answer \in Note,
         w.answer.id = w.id \/ TextIn(shown, w.answer.id) = None
  PROVE  shown' \in Seq(Note) /\ SaysAfterMerge(shown, shown', w.id, w.answer)
<1>1. shown \in Seq(Note)
  BY DEF NotesTypeOK
<1>2. PICK t : t = [i \in DOMAIN shown |-> IF shown[i].id = w.id THEN w.answer ELSE shown[i]]
  OBVIOUS
<1>3. shown' = t
  BY <1>2 DEF SettleNote, Merged
<1> QED BY <1>1, <1>2, <1>3, NoteMerged

\* The writes of a set, crossed by a read or by another write.
Same(u, v) == u.n = v.n /\ u.op = v.op /\ u.id = v.id /\ u.at = v.at /\ u.answer = v.answer

CrossedFrom(us, ws) ==
  /\ \A u \in us : u \in NoteWrite /\ u.crossed /\ \E v \in ws : Same(u, v)
  /\ \A v \in ws : \E u \in us : Same(u, v)
  /\ (\A v, w \in ws : v.n = w.n => v = w) => \A u, t \in us : u.n = t.n => u = t

(* Writes that are crossed keep all but what they would put back.          *)
LEMMA CrossedIs ==
  ASSUME NEW ws \in SUBSET NoteWrite
  PROVE  /\ CrossedFrom({[v EXCEPT !.crossed = TRUE] : v \in ws}, ws)
         /\ CrossedFrom({[v EXCEPT !.wasCopy = FALSE, !.crossed = TRUE] : v \in ws}, ws)
<1> DEFINE By(v) == [v EXCEPT !.crossed = TRUE]
           Read(v) == [v EXCEPT !.wasCopy = FALSE, !.crossed = TRUE]
<1>1. \A v \in ws : By(v) \in NoteWrite /\ By(v).crossed /\ Same(By(v), v)
  BY DEF NoteWrite, Same
<1>2. \A v \in ws : Read(v) \in NoteWrite /\ Read(v).crossed /\ Same(Read(v), v)
  BY DEF NoteWrite, Same
<1> HIDE DEF By, Read
<1>3. ASSUME NEW us, us = {By(v) : v \in ws} PROVE CrossedFrom(us, ws)
  <2>1. \A u \in us : \E v \in ws : u = By(v)
    BY <1>3
  <2>2. \A v \in ws : By(v) \in us
    BY <1>3
  <2> QED BY <1>1, <2>1, <2>2 DEF CrossedFrom, Same
<1>4. ASSUME NEW us, us = {Read(v) : v \in ws} PROVE CrossedFrom(us, ws)
  <2>1. \A u \in us : \E v \in ws : u = Read(v)
    BY <1>4
  <2>2. \A v \in ws : Read(v) \in us
    BY <1>4
  <2> QED BY <1>2, <2>1, <2>2 DEF CrossedFrom, Same
<1> QED BY <1>3, <1>4 DEF By, Read

(* A read crosses all writes under way.                                    *)
LEMMA ReadIs ==
  ASSUME NotesTypeOK, ReadNotes
  PROVE  CrossedFrom(noteWrites', noteWrites)
BY CrossedIs DEF ReadNotes, NotesTypeOK

(* A write that begins crosses the others, and is crossed if there are any *)
(* or a read is awaited.                                                   *)
LEMMA WriteBegins ==
  ASSUME NotesTypeOK, NEW op, NEW id, Asks(op, id), BeginNote(op, id)
  PROVE  \E w, us :
           /\ w \in NoteWrite
           /\ w = [n |-> begun + 1, op |-> op, id |-> id, previous |-> shown,
                   wasCopy |-> isCopy, at |-> "sent", answer |-> None,
                   crossed |-> noteWrites # {} \/ (read # None /\ read.at = "asked")]
           /\ CrossedFrom(us, noteWrites)
           /\ noteWrites' = us \cup {w}
<1>1. PICK w : w = [n |-> begun + 1, op |-> op, id |-> id, previous |-> shown,
                    wasCopy |-> isCopy, at |-> "sent", answer |-> None,
                    crossed |-> noteWrites # {} \/ (read # None /\ read.at = "asked")]
  OBVIOUS
<1>2. w \in NoteWrite
  BY <1>1 DEF BeginNote, Asks, NotesTypeOK, NoteWrite
<1>3. PICK us : us = {[v EXCEPT !.crossed = TRUE] : v \in noteWrites}
  OBVIOUS
<1>4. CrossedFrom(us, noteWrites)
  BY <1>3, CrossedIs DEF NotesTypeOK
<1>5. noteWrites' = us \cup {w}
  BY <1>1, <1>3 DEF BeginNote
<1> QED BY <1>1, <1>2, <1>4, <1>5

(* Every step keeps the types of the notes.                                *)
LEMMA NotesTypeStep ==
  ASSUME NotesTypeOK, [NotesNext]_noteVars
  PROVE  NotesTypeOK'
<1> USE DEF NotesTypeOK
<1>1. CASE ReadNotes
  <2>1. read' \in NoteRead
    BY <1>1 DEF ReadNotes, NoteRead
  <2>2. CrossedFrom(noteWrites', noteWrites)
    BY <1>1, ReadIs
  <2>3. /\ noteWrites' \in SUBSET NoteWrite /\ (noteWrites' # {} => noteWrites # {})
        /\ \A u \in noteWrites' : u.at = "handled" => u.answer # None
    <3>1. \A u \in noteWrites' : u \in NoteWrite /\ \E v \in noteWrites : Same(u, v)
      BY <2>2 DEF CrossedFrom
    <3> QED BY <3>1 DEF Same
  <2>4. /\ isCopy' = FALSE /\ UNCHANGED <<notes, copy, shown, begun, settled, upset>>
    BY <1>1 DEF ReadNotes
  <2> QED BY <2>1, <2>3, <2>4
<1>2. CASE AnswerNotes
  <2>1. read \in NoteRead
    BY <1>2 DEF AnswerNotes
  <2>2. read' \in NoteRead
    BY <1>2, <2>1 DEF AnswerNotes, NoteRead
  <2> QED BY <1>2, <2>2 DEF AnswerNotes
<1>3. CASE NotesArrive \/ NotesFail \/ LateNotes \/ LateFails
  <2>1. read # None => /\ read.found \in Seq(Note) \cup {None}
                       /\ read.answer \in Seq(Note) \cup {None} /\ read.crossed \in BOOLEAN
    BY DEF NoteRead
  <2>2. \A s \in Seq(Note) : s # None
    BY NoteListAssumption
  <2>3. DOMAIN <<>> \in SUBSET Int /\ \A id \in DOMAIN <<>> : <<>>[id] \in {"old", "ours", None}
    OBVIOUS
  <2>4. CASE NotesArrive
    BY <2>1, <2>2, <2>3, <2>4 DEF NotesArrive, Built
  <2>5. CASE NotesFail
    BY <2>1, <2>2, <2>3, <2>5 DEF NotesFail, Built
  <2>6. CASE LateNotes
    BY <2>1, <2>2, <2>6 DEF LateNotes, onLateFresh
  <2>7. CASE LateFails
    BY <2>7 DEF LateFails
  <2> QED BY <1>3, <2>4, <2>5, <2>6, <2>7
<1>4. CASE GraceOver
  <2>1. read \in NoteRead /\ read.found \in Seq(Note) /\ read.crossed \in BOOLEAN
    BY <1>4 DEF GraceOver, NoteRead
  <2>2. read' \in NoteRead
    BY <1>4, <2>1 DEF GraceOver, NoteRead
  <2>3. read.found # None
    BY <2>1, NoteListAssumption
  <2>4. DOMAIN <<>> \in SUBSET Int /\ \A id \in DOMAIN <<>> : <<>>[id] \in {"old", "ours", None}
    OBVIOUS
  <2> QED BY <1>4, <2>1, <2>2, <2>3, <2>4 DEF GraceOver, Built
<1>5. CASE Began
  <2>1. PICK op \in {"create", "edit", "remove"}, id \in Int : Asks(op, id) /\ BeginNote(op, id)
    BY <1>5 DEF Began
  <2>2. shown' \in Seq(Note) /\ shown' # None
    BY <2>1, BegunIs, NoteListAssumption
  <2>3. PICK w, us : /\ w \in NoteWrite
                     /\ w.at = "sent" /\ CrossedFrom(us, noteWrites)
                     /\ noteWrites' = us \cup {w}
    BY <2>1, WriteBegins
  <2>4. /\ noteWrites' \in SUBSET NoteWrite
        /\ \A u \in noteWrites' : u.at = "handled" => u.answer # None
    BY <2>3 DEF CrossedFrom, Same
  <2>5. read' \in NoteRead \cup {None}
    BY <2>1 DEF BeginNote, NoteRead
  <2>6. isCopy' = FALSE /\ begun' = begun + 1 /\ UNCHANGED <<notes, copy, settled, upset>>
    BY <2>1 DEF BeginNote
  <2>7. /\ notes' \in Seq(Note) /\ copy' \in Seq(Note) \cup {None} /\ isCopy' \in BOOLEAN
        /\ begun' \in Nat /\ upset' \in BOOLEAN
    <3>1. notes' \in Seq(Note) /\ copy' \in Seq(Note) \cup {None}
      BY <2>6
    <3>2. isCopy' \in BOOLEAN
      BY <2>6
    <3>3. upset' \in BOOLEAN
      BY <2>6
    <3>4. begun' \in Nat
      BY <2>6
    <3> QED BY <3>1, <3>2, <3>3, <3>4
  <2>8. /\ DOMAIN settled' \in SUBSET Int
        /\ \A note \in DOMAIN settled' : settled'[note] \in {"old", "ours", None}
    BY <2>6
  <2> QED BY <2>2, <2>4, <2>5, <2>7, <2>8
<1>6. ASSUME NEW w \in noteWrites, HandleNote(w) PROVE NotesTypeOK'
  <2>1. notes' \in Seq(Note)
    BY <1>6, NoteHandledIs
  <2>2. PICK u \in NoteWrite : /\ u = [w EXCEPT !.at = "handled", !.answer = Answer(w)]
                               /\ noteWrites' = (noteWrites \ {w}) \cup {u}
    BY <1>6, NoteHandledIs
  <2>3. u.answer # None
    <3>1. u.answer = Answer(w) /\ w \in NoteWrite
      BY <2>2 DEF NoteWrite
    <3>2. Answer(w) \in Note
      BY <3>1, AnswerIsNote
    <3> QED BY <3>1, <3>2, NoteListAssumption
  <2> QED BY <1>6, <2>1, <2>2, <2>3 DEF HandleNote
<1>7. ASSUME NEW w \in noteWrites, SettleNote(w) PROVE NotesTypeOK'
  <2>1. /\ w \in NoteWrite /\ w.op \in {"create", "edit", "remove"} /\ w.id \in Int /\ w.answer \in Note
        /\ w.at = "handled" /\ shown \in Seq(Note) /\ shown # None
    BY <1>7 DEF SettleNote, NoteWrite
  <2>2. shown' \in Seq(Note)
    BY <1>7, <2>1 DEF SettleNote, Merged
  <2>3. shown' # None
    BY <2>2, NoteListAssumption
  <2>4. SettledNow(w)
    BY <1>7, NoteSettledIs
  <2>5. DOMAIN settled' \in SUBSET Int /\ \A id \in DOMAIN settled' : settled'[id] \in {"old", "ours", None}
    <3>1. w.answer.id \in Int /\ w.answer.text \in {"old", "ours"}
      BY <2>1 DEF Note
    <3>2. CASE w.op = "remove"
      BY <2>1, <2>4, <3>2 DEF SettledNow
    <3>3. CASE w.op # "remove"
      BY <2>4, <3>1, <3>3 DEF SettledNow
    <3> QED BY <3>2, <3>3
  <2> QED BY <1>7, <2>2, <2>3, <2>5 DEF SettleNote
<1>8. ASSUME NEW w \in noteWrites, FailNote(w) PROVE NotesTypeOK'
  <2>1. w \in NoteWrite /\ w.previous \in Seq(Note) /\ w.wasCopy \in BOOLEAN /\ w.crossed \in BOOLEAN
    BY DEF NoteWrite
  <2>2. w.previous # None
    BY <2>1, NoteListAssumption
  <2> QED BY <1>8, <2>1, <2>2 DEF FailNote
<1>9. CASE UNCHANGED noteVars
  BY <1>9 DEF noteVars
<1> QED BY <1>1, <1>2, <1>3, <1>4, <1>5, <1>6, <1>7, <1>8, <1>9, NotesSteps

-----------------------------------------------------------------------------
(* Ids and writes: the server's ids are positive and of notes that exist   *)
(* or are being made, writes are told apart, one that nothing crossed is   *)
(* the only one, and its read found none under way.                        *)

Within(s, hi) == \A id \in Int : TextIn(s, id) # None => 1 <= id /\ id <= hi

ListsWithin ==
  /\ Within(notes, 2 + begun)
  /\ copy # None => Within(copy, 2 + begun)
  /\ read # None => /\ read.found # None => Within(read.found, 2 + begun)
                    /\ read.answer # None => Within(read.answer, 2 + begun)

Uncrossed == read # None /\ read.at = "asked" /\ ~read.crossed => noteWrites = {}

Alone == \A w \in noteWrites : ~w.crossed => noteWrites = {w}

Proper(w, b) ==
  /\ 1 <= w.n /\ w.n <= b
  /\ w.op = "create" => w.id = Placeholder(w.n)
  /\ w.at = "handled" => /\ w.answer = Answer(w)
                         /\ w.op # "create" => 1 <= w.id /\ w.id <= 2 + b

AllProper == \A w \in noteWrites : Proper(w, begun)

Distinct == \A v, w \in noteWrites : v.n = w.n => v = w

SettledIds == \A id \in DOMAIN settled : 1 <= id /\ id <= 2 + begun /\ settled[id] # "old"

WritesInv == ListsWithin /\ Uncrossed /\ Alone /\ AllProper /\ Distinct /\ SettledIds

(* A write that is only crossed keeps its id and its answer.               *)
LEMMA SameProper ==
  ASSUME NEW u \in NoteWrite, NEW v \in NoteWrite, Same(u, v), NEW b \in Nat, Proper(v, b)
  PROVE  Proper(u, b)
BY DEF Same, Proper, Answer

(* Every step keeps writes apart from each other and the server's ids      *)
(* positive, and a write that nothing crossed alone.                       *)
LEMMA WritesStep ==
  ASSUME NotesTypeOK, WritesInv, [NotesNext]_noteVars
  PROVE  WritesInv'
<1> USE DEF WritesInv
<1>0. /\ begun \in Nat /\ noteWrites \in SUBSET NoteWrite /\ notes \in Seq(Note)
      /\ notes # None /\ NotesTypeOK'
  BY NotesTypeStep, NoteListAssumption DEF NotesTypeOK
<1>1. CASE ReadNotes
  <2>1. CrossedFrom(noteWrites', noteWrites)
    BY <1>1, ReadIs
  <2>2. /\ read' # None /\ read'.found = copy /\ read'.answer = None
        /\ (read'.crossed <=> noteWrites # {})
        /\ UNCHANGED <<notes, copy, begun, settled>>
    <3>1. read' = [at |-> "asked", found |-> copy, answer |-> None, crossed |-> noteWrites # {}]
      BY <1>1 DEF ReadNotes
    <3>2. read' \in NoteRead
      BY <3>1 DEF NoteRead, NotesTypeOK
    <3>3. /\ read'.found = copy /\ read'.answer = None /\ (read'.crossed <=> noteWrites # {})
      BY <3>1
    <3>4. read' # None
      BY <3>2, NoteListAssumption
    <3> QED BY <1>1, <3>3, <3>4 DEF ReadNotes
  <2>3. ListsWithin' /\ SettledIds'
    BY <2>2 DEF ListsWithin, SettledIds
  <2>4. noteWrites = {} => noteWrites' = {}
    BY <2>1 DEF CrossedFrom
  <2>5. Uncrossed'
    BY <2>2, <2>4 DEF Uncrossed
  <2>6. Alone' /\ Distinct'
    BY <2>1 DEF CrossedFrom, Alone, Distinct
  <2>7. AllProper'
    BY <1>0, <2>1, <2>2, SameProper DEF CrossedFrom, AllProper
  <2> QED BY <2>3, <2>5, <2>6, <2>7
<1>2. CASE AnswerNotes
  <2>1. /\ read # None /\ read' # None /\ read'.found = read.found /\ read'.answer = notes
        /\ read'.at = read.at /\ read'.crossed = read.crossed
        /\ UNCHANGED <<notes, copy, begun, settled, noteWrites>>
    <3>1. read \in NoteRead /\ read' = [read EXCEPT !.answer = notes]
      BY <1>2 DEF AnswerNotes, NotesTypeOK
    <3>2. /\ read' \in NoteRead /\ read'.found = read.found /\ read'.answer = notes
          /\ read'.at = read.at /\ read'.crossed = read.crossed
      BY <1>0, <3>1 DEF NoteRead
    <3> QED BY <1>2, <3>2, NoteListAssumption DEF AnswerNotes
  <2>2. ListsWithin'
    BY <2>1 DEF ListsWithin
  <2> QED BY <2>1, <2>2 DEF Uncrossed, Alone, AllProper, Distinct, SettledIds
<1>3. CASE NotesArrive \/ NotesFail \/ LateNotes \/ LateFails
  <2>1. /\ read # None /\ read' = None /\ (copy' = copy \/ (copy' = read.answer /\ read.answer # None))
        /\ UNCHANGED <<notes, begun, noteWrites>> /\ (settled' = settled \/ settled' = <<>>)
    BY <1>3 DEF NotesArrive, NotesFail, LateNotes, LateFails, Built
  <2>2. ListsWithin'
    BY <2>1 DEF ListsWithin
  <2>3. Uncrossed' /\ Alone' /\ AllProper' /\ Distinct'
    BY <2>1 DEF Uncrossed, Alone, AllProper, Distinct
  <2>4. SettledIds'
    BY <2>1 DEF SettledIds
  <2> QED BY <2>2, <2>3, <2>4
<1>4. CASE GraceOver
  <2>1. /\ read # None /\ read' # None /\ read'.found = read.found /\ read'.answer = read.answer
        /\ read'.at = "behind" /\ UNCHANGED <<notes, copy, begun, noteWrites>> /\ settled' = <<>>
    <3>1. read \in NoteRead /\ read' = [read EXCEPT !.at = "behind"]
      BY <1>4 DEF GraceOver, NotesTypeOK
    <3>2. /\ read' \in NoteRead /\ read'.found = read.found /\ read'.answer = read.answer
          /\ read'.at = "behind"
      BY <3>1 DEF NoteRead
    <3> QED BY <1>4, <3>2, NoteListAssumption DEF GraceOver, Built
  <2>2. ListsWithin'
    BY <2>1 DEF ListsWithin
  <2> QED BY <2>1, <2>2 DEF Uncrossed, Alone, AllProper, Distinct, SettledIds
<1>5. CASE Began
  <2>1. PICK op \in {"create", "edit", "remove"}, id \in Int : Asks(op, id) /\ BeginNote(op, id)
    BY <1>5 DEF Began
  <2>2. PICK w, us :
          /\ w \in NoteWrite
          /\ w = [n |-> begun + 1, op |-> op, id |-> id, previous |-> shown,
                  wasCopy |-> isCopy, at |-> "sent", answer |-> None,
                  crossed |-> noteWrites # {} \/ (read # None /\ read.at = "asked")]
          /\ CrossedFrom(us, noteWrites)
          /\ noteWrites' = us \cup {w}
    BY <2>1, WriteBegins
  <2>3. begun' = begun + 1 /\ UNCHANGED <<notes, copy, settled>>
    BY <2>1 DEF BeginNote
  <2>4. /\ read = None => read' = None
        /\ read # None => /\ read'.found = read.found /\ read'.answer = read.answer
                          /\ read'.crossed
    BY <2>1 DEF BeginNote, NotesTypeOK, NoteRead
  <2>5. \A s : Within(s, 2 + begun) => Within(s, 2 + begun')
    BY <1>0, <2>3 DEF Within
  <2>6. ListsWithin'
    BY <2>3, <2>4, <2>5 DEF ListsWithin
  <2>7. Uncrossed'
    BY <2>4 DEF Uncrossed
  <2>8. w.n = begun + 1 /\ w.op = op /\ w.id = id /\ w.at = "sent"
        /\ (w.crossed <=> noteWrites # {} \/ (read # None /\ read.at = "asked"))
    BY <2>2
  <2>9. Alone'
    BY <2>2, <2>8 DEF CrossedFrom, Alone
  <2>10. AllProper'
    <3>1. Proper(w, begun')
      BY <1>0, <2>1, <2>3, <2>8 DEF Asks, Proper
    <3>2. ASSUME NEW u \in us PROVE Proper(u, begun')
      <4>1. PICK v \in noteWrites : Same(u, v) /\ u \in NoteWrite
        BY <2>2 DEF CrossedFrom
      <4>2. Proper(u, begun)
        BY <1>0, <4>1, SameProper DEF AllProper
      <4> QED BY <1>0, <2>3, <4>1, <4>2 DEF Proper, NoteWrite
    <3> QED BY <2>2, <3>1, <3>2 DEF AllProper
  <2>11. Distinct'
    <3>1. \A u \in us : u.n # w.n
      <4>1. \A v \in noteWrites : v.n # begun + 1
        BY <1>0 DEF AllProper, Proper, NoteWrite
      <4> QED BY <2>2, <2>8, <4>1 DEF CrossedFrom, Same
    <3>2. \A u, t \in us : u.n = t.n => u = t
      BY <2>2 DEF CrossedFrom, Distinct
    <3> QED BY <2>2, <3>1, <3>2 DEF Distinct
  <2>12. SettledIds'
    BY <1>0, <2>3 DEF SettledIds, NotesTypeOK
  <2> QED BY <2>6, <2>7, <2>9, <2>10, <2>11, <2>12
<1>6. ASSUME NEW w \in noteWrites, HandleNote(w) PROVE WritesInv'
  <2>1. /\ notes' \in Seq(Note) /\ SaysAfterHandling(w)
        /\ w.op # "create" => TextIn(notes, w.id) # None
    BY <1>6, NoteHandledIs
  <2>2. PICK u \in NoteWrite : /\ u = [w EXCEPT !.at = "handled", !.answer = Answer(w)]
                               /\ noteWrites' = (noteWrites \ {w}) \cup {u}
    BY <1>6, NoteHandledIs
  <2>3. UNCHANGED <<copy, read, begun, settled>>
    BY <1>6 DEF HandleNote
  <2>4. /\ u.n = w.n /\ u.op = w.op /\ u.id = w.id /\ u.crossed = w.crossed /\ u.answer = Answer(w)
        /\ w.n \in Nat /\ w.id \in Int /\ w \in NoteWrite
    BY <1>0, <2>2 DEF NoteWrite
  <2>5. Proper(w, begun)
    BY DEF AllProper
  <2>6. Within(notes', 2 + begun)
    BY <1>0, <2>1, <2>4, <2>5 DEF ListsWithin, Within, SaysAfterHandling, Proper
  <2>7. ListsWithin'
    BY <2>3, <2>6 DEF ListsWithin
  <2>8. Uncrossed'
    BY <2>3 DEF Uncrossed
  <2>9. Alone'
    BY <2>2, <2>4 DEF Alone
  <2>10. Proper(u, begun)
    BY <1>0, <2>1, <2>4, <2>5 DEF Proper, Answer, ListsWithin, Within
  <2>11. AllProper'
    BY <2>2, <2>3, <2>10 DEF AllProper
  <2>13. Distinct'
    <3>1. \A v \in noteWrites \ {w} : v.n # u.n
      BY <2>4 DEF Distinct
    <3>2. \A v, x \in noteWrites \ {w} : v.n = x.n => v = x
      BY DEF Distinct
    <3> QED BY <2>2, <3>1, <3>2 DEF Distinct
  <2>12. SettledIds'
    BY <2>3 DEF SettledIds
  <2> QED BY <2>7, <2>8, <2>9, <2>11, <2>12, <2>13
<1>7. ASSUME NEW w \in noteWrites, SettleNote(w) PROVE WritesInv'
  <2>1. /\ UNCHANGED <<notes, copy, read, begun>> /\ noteWrites' = noteWrites \ {w}
        /\ w.at = "handled"
    BY <1>7 DEF SettleNote
  <2>2. ListsWithin' /\ Uncrossed' /\ Alone' /\ AllProper' /\ Distinct'
    BY <2>1 DEF ListsWithin, Uncrossed, Alone, AllProper, Distinct
  <2>3. SettledNow(w) /\ Proper(w, begun) /\ w.n \in Nat /\ w.id \in Int
    BY <1>0, <1>7, NoteSettledIs DEF AllProper, NoteWrite
  <2>4. ASSUME w.op = "remove" PROVE SettledIds'
    <3>1. 1 <= w.id /\ w.id <= 2 + begun
      BY <2>1, <2>3, <2>4 DEF Proper
    <3> QED BY <2>1, <2>3, <2>4, <3>1, NoteListAssumption DEF SettledIds, SettledNow
  <2>5. ASSUME w.op # "remove" PROVE SettledIds'
    <3>1. 1 <= w.answer.id /\ w.answer.id <= 2 + begun /\ w.answer.text = "ours"
      BY <1>0, <2>1, <2>3, <2>5 DEF Proper, Answer
    <3> QED BY <2>1, <2>3, <2>5, <3>1 DEF SettledIds, SettledNow
  <2> QED BY <2>2, <2>4, <2>5
<1>8. ASSUME NEW w \in noteWrites, FailNote(w) PROVE WritesInv'
  <2>1. UNCHANGED <<notes, copy, read, begun, settled>> /\ noteWrites' = noteWrites \ {w}
    BY <1>8 DEF FailNote
  <2> QED BY <2>1 DEF ListsWithin, Uncrossed, Alone, AllProper, Distinct, SettledIds
<1>9. CASE UNCHANGED noteVars
  BY <1>9 DEF noteVars, ListsWithin, Uncrossed, Alone, AllProper, Distinct, SettledIds
<1> QED BY <1>1, <1>2, <1>3, <1>4, <1>5, <1>6, <1>7, <1>8, <1>9, NotesSteps

-----------------------------------------------------------------------------
(* The screen: what is settled is what is shown, or is about to be removed. *)
(* A create's row waits under its placeholder, and nobody knows its id yet; *)
(* an edited note is on screen unless it is being removed or is gone; one   *)
(* that is being removed is not.  A write that nothing crossed would put    *)
(* back a list that shows all that is settled.                              *)

UpTo(s, hi) == \A id \in Int : TextIn(s, id) # None => id <= hi

Removing(id) == \E w \in noteWrites : w.op = "remove" /\ w.id = id

Opened == shown = None => DOMAIN settled = {}

ScreenIds ==
  /\ shown # None => UpTo(shown, 2 + begun)
  /\ \A w \in noteWrites : w.id <= 2 + begun

CopyClean == isCopy => noteWrites = {} /\ DOMAIN settled = {}

SettledShown ==
  \A id \in DOMAIN settled :
    TextIn(shown, id) = settled[id] \/ Removing(id) \/ Removing(Placeholder(id - 2))

UndoClean ==
  \A w \in noteWrites : ~w.crossed =>
    /\ UpTo(w.previous, 2 + begun)
    /\ \A id \in DOMAIN settled : TextIn(w.previous, id) = settled[id]
    /\ w.wasCopy => DOMAIN settled = {}

Creating ==
  \A w \in noteWrites : w.op = "create" =>
    /\ TextIn(shown, w.id) # None \/ Removing(w.id)
    /\ TextIn(shown, 2 + w.n) = None
    /\ 2 + w.n \notin DOMAIN settled
    /\ \A v \in noteWrites : v.op # "create" => v.id # 2 + w.n

Editing ==
  \A w \in noteWrites : w.op = "edit" /\ 1 <= w.id =>
    \/ TextIn(shown, w.id) # None
    \/ Removing(w.id)
    \/ w.id \in DOMAIN settled /\ settled[w.id] = None

Gone == \A w \in noteWrites : w.op = "remove" /\ 1 <= w.id => TextIn(shown, w.id) = None

OnScreen == /\ Opened /\ ScreenIds /\ CopyClean /\ SettledShown
            /\ UndoClean /\ Creating /\ Editing /\ Gone

ScreenInv == ~upset => OnScreen

\* Writes that are only crossed, or handled, change nothing of this.
SameWrites(us, ws) ==
  /\ \A u \in us : \E v \in ws : u.n = v.n /\ u.op = v.op /\ u.id = v.id
  /\ \A v \in ws : \E u \in us : u.n = v.n /\ u.op = v.op /\ u.id = v.id

(* A step that changes no list and only crosses or handles writes keeps    *)
(* what the screen owes to them.                                           *)
LEMMA SameScreen ==
  ASSUME OnScreen, SameWrites(noteWrites', noteWrites),
         UNCHANGED <<shown, begun, settled>>, isCopy' = isCopy \/ isCopy' = FALSE
  PROVE  Opened' /\ ScreenIds' /\ CopyClean' /\ SettledShown' /\ Creating' /\ Editing' /\ Gone'
<1>1. \A id : Removing(id)' <=> Removing(id)
  BY DEF SameWrites, Removing
<1>2. noteWrites = {} => noteWrites' = {}
  BY DEF SameWrites
<1>3. Opened' /\ CopyClean'
  BY <1>2 DEF OnScreen, Opened, CopyClean
<1>4. ScreenIds'
  BY DEF OnScreen, ScreenIds, SameWrites
<1>5. SettledShown'
  BY <1>1 DEF OnScreen, SettledShown
<1>6. Creating'
  BY <1>1 DEF OnScreen, Creating, SameWrites
<1>7. Editing'
  BY <1>1 DEF OnScreen, Editing, SameWrites
<1>8. Gone'
  BY DEF OnScreen, Gone, SameWrites
<1> QED BY <1>3, <1>4, <1>5, <1>6, <1>7, <1>8

(* No read disturbs it: one that builds the list anew had no write beside  *)
(* it, or the write was crossed.                                           *)
LEMMA ReadingScreen ==
  ASSUME NotesTypeOK, WritesInv, ScreenInv, ~upset', NotesNext,
         ReadNotes \/ AnswerNotes \/ NotesArrive \/ NotesFail \/ GraceOver \/ LateNotes \/ LateFails
  PROVE  OnScreen'
<1>0. \A s \in Seq(Note) : s # None
  BY NoteListAssumption
<1>1. CASE ReadNotes
  <2>1. CrossedFrom(noteWrites', noteWrites) /\ OnScreen
    BY <1>1, ReadIs DEF ReadNotes, ScreenInv
  <2>2. SameWrites(noteWrites', noteWrites) /\ UndoClean'
    BY <2>1 DEF CrossedFrom, Same, SameWrites, UndoClean
  <2> QED BY <1>1, <2>1, <2>2, SameScreen DEF ReadNotes, OnScreen
<1>2. CASE AnswerNotes \/ LateFails \/ (NotesFail /\ read.found = None)
  <2>1. UNCHANGED <<shown, isCopy, noteWrites, begun, settled, upset>>
    BY <1>2 DEF AnswerNotes, LateFails, NotesFail
  <2> QED BY <2>1 DEF ScreenInv, OnScreen, Opened, ScreenIds, CopyClean, SettledShown, UndoClean,
                      Creating, Editing, Gone, Removing
<1>3. ASSUME NotesArrive \/ (NotesFail /\ read.found # None) \/ GraceOver PROVE OnScreen'
  <2>1. read # None /\ read.at = "asked" /\ ~read.crossed /\ settled' = <<>>
        /\ UNCHANGED <<noteWrites, begun>>
        /\ \/ shown' = read.answer /\ read.answer # None
           \/ shown' = read.found /\ read.found # None
    BY <1>3 DEF NotesArrive, NotesFail, GraceOver, Built
  <2>2. noteWrites' = {} /\ DOMAIN settled' = {}
    BY <2>1 DEF WritesInv, Uncrossed
  <2>3. shown' # None /\ Within(shown', 2 + begun)
    BY <2>1 DEF WritesInv, ListsWithin
  <2>4. UpTo(shown', 2 + begun')
    BY <2>1, <2>3 DEF Within, UpTo
  <2> QED BY <2>2, <2>3, <2>4 DEF OnScreen, Opened, ScreenIds, CopyClean, SettledShown, UndoClean,
                                  Creating, Editing, Gone
<1>4. CASE LateNotes
  <2>1. /\ read # None /\ read.answer # None /\ isCopy' = FALSE
        /\ UNCHANGED <<noteWrites, begun, settled, upset>> /\ OnScreen
    BY <1>4 DEF LateNotes, ScreenInv
  <2>2. CASE isCopy
    <3>1. noteWrites' = {} /\ DOMAIN settled' = {}
      BY <2>1, <2>2 DEF OnScreen, CopyClean
    <3>2. shown' = read.answer
      BY <1>4, <2>2 DEF LateNotes, onLateFresh
    <3>3. UpTo(shown', 2 + begun')
      BY <2>1, <3>2 DEF WritesInv, ListsWithin, Within, UpTo
    <3> QED BY <2>1, <3>1, <3>2, <3>3 DEF OnScreen, Opened, ScreenIds, CopyClean, SettledShown, UndoClean,
                                          Creating, Editing, Gone
  <2>3. CASE ~isCopy
    <3>1. shown' = shown
      BY <1>4, <2>3 DEF LateNotes, onLateFresh
    <3> QED BY <2>1, <3>1 DEF OnScreen, Opened, ScreenIds, CopyClean, SettledShown, UndoClean,
                              Creating, Editing, Gone, Removing
  <2> QED BY <2>2, <2>3
<1> QED BY <1>1, <1>2, <1>3, <1>4

(* No write that begins disturbs it: a settled note that it changes is its *)
(* own to answer for.                                                      *)
LEMMA BeginScreen ==
  ASSUME NotesTypeOK, WritesInv, OnScreen,
         NEW op \in {"create", "edit", "remove"}, NEW id \in Int, Asks(op, id), BeginNote(op, id)
  PROVE  OnScreen'
<1>1. /\ begun \in Nat /\ begun' = begun + 1 /\ isCopy' = FALSE /\ UNCHANGED settled
      /\ shown \in Seq(Note) /\ shown # None /\ shown' # None
  BY BegunIs, NoteListAssumption DEF BeginNote, NotesTypeOK
<1>2. PICK w, us :
        /\ w \in NoteWrite
        /\ w = [n |-> begun + 1, op |-> op, id |-> id, previous |-> shown,
                wasCopy |-> isCopy, at |-> "sent", answer |-> None,
                crossed |-> noteWrites # {} \/ (read # None /\ read.at = "asked")]
        /\ CrossedFrom(us, noteWrites)
        /\ noteWrites' = us \cup {w}
  BY WriteBegins
<1>3. /\ w.n = begun + 1 /\ w.op = op /\ w.id = id /\ w.previous = shown /\ w.wasCopy = isCopy
      /\ (w.crossed <=> noteWrites # {} \/ (read # None /\ read.at = "asked"))
  BY <1>2
<1>4. /\ \A u \in us : u.crossed /\ \E v \in noteWrites : u.n = v.n /\ u.op = v.op /\ u.id = v.id
      /\ \A v \in noteWrites : \E u \in us : u.n = v.n /\ u.op = v.op /\ u.id = v.id
  BY <1>2 DEF CrossedFrom, Same
<1>5. \A x : Removing(x)' <=> Removing(x) \/ (op = "remove" /\ x = id)
  BY <1>2, <1>3, <1>4 DEF Removing
<1>6. SaysAfterBegin(op, id)
  BY BegunIs
<1>7. /\ op = "create" => id = Placeholder(begun + 1) /\ id < 0
      /\ op # "create" => TextIn(shown, id) # None
      /\ id <= 2 + begun
  BY <1>1 DEF Asks, Placeholder, OnScreen, ScreenIds, UpTo
<1>8. \A v \in noteWrites : v.n \in Nat /\ v.id \in Int /\ 1 <= v.n /\ v.n <= begun
  BY DEF WritesInv, AllProper, Proper, NotesTypeOK, NoteWrite
<1>9. Opened' /\ CopyClean'
  BY <1>1 DEF Opened, CopyClean
<1>10. ScreenIds'
  <2>1. UpTo(shown', 2 + begun')
    BY <1>1, <1>6, <1>7 DEF SaysAfterBegin, OnScreen, ScreenIds, UpTo
  <2>2. \A v \in noteWrites' : v.id <= 2 + begun'
    BY <1>1, <1>2, <1>3, <1>4, <1>7, <1>8 DEF OnScreen, ScreenIds
  <2> QED BY <2>1, <2>2 DEF ScreenIds
<1>11. SettledShown'
  <2>1. ASSUME NEW x \in DOMAIN settled, TextIn(shown, x) = settled[x]
        PROVE  TextIn(shown', x) = settled[x] \/ (op = "remove" /\ x = id)
    <3>1. settled[x] \in {"ours", None} /\ x \in Int /\ 1 <= x
      BY DEF WritesInv, SettledIds, NotesTypeOK
    <3> QED BY <1>6, <1>7, <2>1, <3>1 DEF SaysAfterBegin
  <2> QED BY <1>1, <1>5, <2>1 DEF OnScreen, SettledShown
<1>12. UndoClean'
  <2>1. ASSUME ~w.crossed
        PROVE  /\ UpTo(shown, 2 + begun')
               /\ \A x \in DOMAIN settled : TextIn(shown, x) = settled[x]
               /\ isCopy => DOMAIN settled = {}
    <3>1. noteWrites = {}
      BY <1>3, <2>1
    <3>2. \A x : ~Removing(x)
      BY <3>1 DEF Removing
    <3> QED BY <1>1, <3>2 DEF OnScreen, ScreenIds, UpTo, SettledShown, CopyClean
  <2> QED BY <1>1, <1>2, <1>3, <1>4, <2>1 DEF UndoClean
<1>13. Creating'
  <2>1. ASSUME NEW v \in noteWrites, v.op = "create"
        PROVE  /\ TextIn(shown', v.id) # None \/ Removing(v.id)'
               /\ TextIn(shown', 2 + v.n) = None
               /\ 2 + v.n \notin DOMAIN settled
               /\ \A u \in noteWrites' : u.op # "create" => u.id # 2 + v.n
    <3>1. /\ TextIn(shown, v.id) # None \/ Removing(v.id)
          /\ TextIn(shown, 2 + v.n) = None /\ 2 + v.n \notin DOMAIN settled
          /\ \A u \in noteWrites : u.op # "create" => u.id # 2 + v.n
      BY <2>1 DEF OnScreen, Creating
    <3>2. id # 2 + v.n
      BY <1>7, <1>8, <3>1
    <3>3. TextIn(shown', v.id) # None \/ Removing(v.id)'
      BY <1>5, <1>6, <3>1, NoteListAssumption DEF SaysAfterBegin
    <3>4. TextIn(shown', 2 + v.n) = None
      BY <1>6, <3>1, <3>2 DEF SaysAfterBegin
    <3>5. \A u \in noteWrites' : u.op # "create" => u.id # 2 + v.n
      BY <1>2, <1>3, <1>4, <3>1, <3>2
    <3> QED BY <3>1, <3>3, <3>4, <3>5
  <2>2. ASSUME op = "create"
        PROVE  /\ TextIn(shown', id) # None
               /\ TextIn(shown', 2 + (begun + 1)) = None
               /\ 2 + (begun + 1) \notin DOMAIN settled
               /\ \A u \in noteWrites' : u.op # "create" => u.id # 2 + (begun + 1)
    <3>1. TextIn(shown', id) # None
      BY <1>6, <2>2, NoteListAssumption DEF SaysAfterBegin
    <3>2. TextIn(shown, 2 + (begun + 1)) = None
      BY <1>1 DEF OnScreen, ScreenIds, UpTo
    <3>3. TextIn(shown', 2 + (begun + 1)) = None
      BY <1>1, <1>6, <1>7, <2>2, <3>2 DEF SaysAfterBegin
    <3>4. 2 + (begun + 1) \notin DOMAIN settled
      BY <1>1 DEF WritesInv, SettledIds
    <3>5. \A u \in noteWrites' : u.op # "create" => u.id # 2 + (begun + 1)
      BY <1>1, <1>2, <1>3, <1>4, <1>8, <2>2 DEF OnScreen, ScreenIds
    <3> QED BY <3>1, <3>3, <3>4, <3>5
  <2>3. ASSUME NEW u \in noteWrites', u.op = "create"
        PROVE  /\ TextIn(shown', u.id) # None \/ Removing(u.id)'
               /\ TextIn(shown', 2 + u.n) = None
               /\ 2 + u.n \notin DOMAIN settled'
               /\ \A v \in noteWrites' : v.op # "create" => v.id # 2 + u.n
    <3>1. CASE u = w
      BY <1>1, <1>3, <2>2, <2>3, <3>1
    <3>2. CASE u \in us
      <4>1. PICK v \in noteWrites : u.n = v.n /\ u.op = v.op /\ u.id = v.id
        BY <1>4, <3>2
      <4> QED BY <1>1, <2>1, <2>3, <4>1
    <3> QED BY <1>2, <2>3, <3>1, <3>2
  <2> QED BY <2>3 DEF Creating
<1>14. Editing'
  <2>1. ASSUME NEW v \in noteWrites, v.op = "edit", 1 <= v.id
        PROVE  \/ TextIn(shown', v.id) # None
               \/ Removing(v.id)'
               \/ v.id \in DOMAIN settled /\ settled[v.id] = None
    BY <1>5, <1>6, <2>1, NoteListAssumption DEF SaysAfterBegin, OnScreen, Editing
  <2>2. op = "edit" => TextIn(shown', id) # None
    BY <1>6, NoteListAssumption DEF SaysAfterBegin
  <2> QED BY <1>1, <1>2, <1>3, <1>4, <2>1, <2>2 DEF Editing
<1>15. Gone'
  <2>1. ASSUME NEW v \in noteWrites, v.op = "remove", 1 <= v.id PROVE TextIn(shown', v.id) = None
    <3>1. TextIn(shown, v.id) = None /\ v.id # id
      BY <1>7, <1>8, <2>1 DEF OnScreen, Gone
    <3> QED BY <1>6, <3>1 DEF SaysAfterBegin
  <2>2. op = "remove" => TextIn(shown', id) = None
    BY <1>6 DEF SaysAfterBegin
  <2> QED BY <1>2, <1>3, <1>4, <2>1, <2>2 DEF Gone
<1> QED BY <1>9, <1>10, <1>11, <1>12, <1>13, <1>14, <1>15 DEF OnScreen

(* Nothing on screen changes when the server handles a request.            *)
LEMMA HandleScreen ==
  ASSUME NotesTypeOK, OnScreen, NEW w \in noteWrites, HandleNote(w)
  PROVE  OnScreen'
<1>1. PICK u \in NoteWrite : /\ u = [w EXCEPT !.at = "handled", !.answer = Answer(w)]
                             /\ noteWrites' = (noteWrites \ {w}) \cup {u}
  BY NoteHandledIs
<1>2. /\ u.n = w.n /\ u.op = w.op /\ u.id = w.id /\ u.crossed = w.crossed
      /\ u.previous = w.previous /\ u.wasCopy = w.wasCopy
  BY <1>1 DEF NotesTypeOK, NoteWrite
<1>3. SameWrites(noteWrites', noteWrites)
  BY <1>1, <1>2 DEF SameWrites
<1>4. UNCHANGED <<shown, isCopy, begun, settled>>
  BY DEF HandleNote
<1>5. UndoClean'
  <2>1. ASSUME NEW t \in noteWrites', ~t.crossed
        PROVE  \E v \in noteWrites : ~v.crossed /\ t.previous = v.previous /\ t.wasCopy = v.wasCopy
    BY <1>1, <1>2, <2>1
  <2> QED BY <1>4, <2>1 DEF OnScreen, UndoClean
<1> QED BY <1>3, <1>4, <1>5, SameScreen DEF OnScreen

(* A write that nothing crossed puts back a list that shows all that is    *)
(* settled.                                                                *)
LEMMA FailScreen ==
  ASSUME NotesTypeOK, WritesInv, OnScreen, NEW w \in noteWrites, FailNote(w), ~upset'
  PROVE  OnScreen'
<1>1. /\ shown' = w.previous /\ isCopy' = w.wasCopy /\ noteWrites' = noteWrites \ {w}
      /\ UNCHANGED <<begun, settled>> /\ ~w.crossed
  BY DEF FailNote
<1>2. noteWrites' = {}
  BY <1>1 DEF WritesInv, Alone
<1>3. shown' # None
  BY <1>1, NoteListAssumption DEF NotesTypeOK, NoteWrite
<1>4. /\ UpTo(shown', 2 + begun)
      /\ \A id \in DOMAIN settled : TextIn(shown', id) = settled[id]
      /\ isCopy' => DOMAIN settled = {}
  BY <1>1 DEF OnScreen, UndoClean
<1> QED BY <1>1, <1>2, <1>3, <1>4 DEF OnScreen, Opened, ScreenIds, CopyClean, SettledShown, UndoClean,
                                      Creating, Editing, Gone

\* What a settled write leaves: the other writes, all of them crossed.
LEMMA SettleLeaves ==
  ASSUME NotesTypeOK, WritesInv, OnScreen, NEW w \in noteWrites, SettleNote(w)
  PROVE  /\ noteWrites' = noteWrites \ {w} /\ begun' = begun /\ begun \in Nat
         /\ Opened' /\ CopyClean' /\ UndoClean'
         /\ \A x : Removing(x)' => Removing(x)
         /\ \A x : Removing(x) => Removing(x)' \/ (w.op = "remove" /\ x = w.id)
         /\ w.n \in Nat /\ 1 <= w.n /\ w.n <= begun /\ w.id \in Int /\ w.id <= 2 + begun
         /\ w.op \in {"create", "edit", "remove"} /\ w.answer = Answer(w) /\ w.answer \in Note
         /\ w.op = "create" => w.id = Placeholder(w.n)
         /\ w.op # "create" => 1 <= w.id
         /\ SettledNow(w)
<1>1. /\ noteWrites' = noteWrites \ {w} /\ begun' = begun /\ begun \in Nat /\ w.at = "handled"
      /\ (isCopy' => isCopy)
  BY DEF SettleNote, NotesTypeOK
<1>2. /\ w \in NoteWrite /\ w.n \in Nat /\ w.id \in Int /\ w.op \in {"create", "edit", "remove"}
  BY DEF NotesTypeOK, NoteWrite
<1>3. /\ 1 <= w.n /\ w.n <= begun /\ w.answer = Answer(w)
      /\ w.op = "create" => w.id = Placeholder(w.n)
      /\ w.op # "create" => 1 <= w.id
  BY <1>1 DEF WritesInv, AllProper, Proper
<1>4. w.answer \in Note
  BY <1>2, <1>3, AnswerIsNote
<1>5. shown' # None
  <2>1. shown \in Seq(Note)
    BY DEF NotesTypeOK
  <2>2. Merged(w) \in Seq(Note)
    BY <1>4, <2>1 DEF Merged
  <2> QED BY <2>2, NoteListAssumption DEF SettleNote
<1>6. Opened' /\ CopyClean'
  BY <1>1, <1>5 DEF OnScreen, Opened, CopyClean
<1>7. UndoClean'
  BY <1>1 DEF WritesInv, Alone, UndoClean
<1>8. /\ \A x : Removing(x)' => Removing(x)
      /\ \A x : Removing(x) => Removing(x)' \/ (w.op = "remove" /\ x = w.id)
  BY <1>1 DEF Removing
<1>9. w.id <= 2 + begun
  BY DEF OnScreen, ScreenIds
<1> QED BY <1>1, <1>2, <1>3, <1>4, <1>6, <1>7, <1>8, <1>9, NoteSettledIs

(* The server's note takes the placeholder's place: its id was in nobody's *)
(* list and in no other write.                                             *)
LEMMA CreateSettles ==
  ASSUME NotesTypeOK, WritesInv, OnScreen, NEW w \in noteWrites, SettleNote(w), w.op = "create"
  PROVE  OnScreen'
<1>1. /\ w.answer.id = 2 + w.n /\ w.answer.text = "ours" /\ w.id < 0
  <2>1. w.answer = Answer(w) /\ w.id = Placeholder(w.n) /\ w.n \in Nat /\ 1 <= w.n
    BY SettleLeaves
  <2> QED BY <2>1 DEF Answer, Placeholder
<1>2. /\ TextIn(shown, 2 + w.n) = None /\ 2 + w.n \notin DOMAIN settled
      /\ TextIn(shown, w.id) # None \/ Removing(w.id)
      /\ \A v \in noteWrites : v.op # "create" => v.id # 2 + w.n
  BY DEF OnScreen, Creating
<1>3. shown' \in Seq(Note) /\ SaysAfterMerge(shown, shown', w.id, w.answer)
  BY <1>1, <1>2, SettleLeaves, MergedIs
<1>4. \A x : TextIn(shown', x) = IF x = 2 + w.n THEN IF TextIn(shown, w.id) # None THEN "ours" ELSE None
                                 ELSE IF x = w.id THEN None ELSE TextIn(shown, x)
  BY <1>1, <1>2, <1>3, SettleLeaves DEF SaysAfterMerge
<1>5. /\ DOMAIN settled' = DOMAIN settled \cup {2 + w.n}
      /\ \A x \in DOMAIN settled' : settled'[x] = IF x \in DOMAIN settled THEN settled[x] ELSE "ours"
  BY <1>1, SettleLeaves DEF SettledNow
<1>6. noteWrites' = noteWrites \ {w} /\ \A x : Removing(x)' <=> Removing(x)
  BY SettleLeaves
<1>7. ScreenIds'
  <2>1. UpTo(shown', 2 + begun)
    BY <1>1, <1>4, SettleLeaves DEF OnScreen, ScreenIds, UpTo, NotesTypeOK
  <2> QED BY <1>6, <2>1, SettleLeaves DEF OnScreen, ScreenIds
<1>8. SettledShown'
  <2>1. ASSUME NEW x \in DOMAIN settled'
        PROVE  TextIn(shown', x) = settled'[x] \/ Removing(x) \/ Removing(Placeholder(x - 2))
    <3>1. CASE x = 2 + w.n
      <4>1. Placeholder(x - 2) = w.id
        BY <3>1, SettleLeaves DEF Placeholder
      <4> QED BY <1>2, <1>4, <1>5, <3>1, <4>1
    <3>2. CASE x # 2 + w.n
      <4>1. x \in DOMAIN settled /\ x \in Int /\ 1 <= x
        BY <1>5, <2>1, <3>2 DEF WritesInv, SettledIds, NotesTypeOK
      <4>2. TextIn(shown', x) = TextIn(shown, x) /\ settled'[x] = settled[x]
        BY <1>1, <1>4, <1>5, <2>1, <3>2, <4>1, SettleLeaves
      <4> QED BY <4>1, <4>2 DEF OnScreen, SettledShown
    <3> QED BY <3>1, <3>2
  <2> QED BY <1>6, <2>1 DEF SettledShown
<1>9. Creating'
  <2>1. ASSUME NEW v \in noteWrites', v.op = "create"
        PROVE  /\ TextIn(shown', v.id) # None \/ Removing(v.id)
               /\ TextIn(shown', 2 + v.n) = None
               /\ 2 + v.n \notin DOMAIN settled'
               /\ \A u \in noteWrites' : u.op # "create" => u.id # 2 + v.n
    <3>1. /\ TextIn(shown, v.id) # None \/ Removing(v.id)
          /\ TextIn(shown, 2 + v.n) = None
          /\ 2 + v.n \notin DOMAIN settled
          /\ \A u \in noteWrites : u.op # "create" => u.id # 2 + v.n
      BY <1>6, <2>1 DEF OnScreen, Creating
    <3>2. /\ v.n # w.n /\ v.n \in Nat /\ v.id = Placeholder(v.n) /\ w.id = Placeholder(w.n) /\ 1 <= v.n
      BY <1>6, <2>1, SettleLeaves DEF WritesInv, Distinct, AllProper, Proper, NotesTypeOK, NoteWrite
    <3>3. v.id # w.id /\ v.id # 2 + w.n /\ 2 + v.n # w.id /\ 2 + v.n # 2 + w.n
      BY <1>1, <3>2, SettleLeaves DEF Placeholder
    <3> QED BY <1>4, <1>5, <1>6, <3>1, <3>3
  <2> QED BY <1>6, <2>1 DEF Creating
<1>10. Editing'
  <2>1. ASSUME NEW v \in noteWrites', v.op = "edit", 1 <= v.id
        PROVE  \/ TextIn(shown', v.id) # None
               \/ Removing(v.id)
               \/ v.id \in DOMAIN settled' /\ settled'[v.id] = None
    <3>1. v.id # w.id /\ v.id # 2 + w.n
      BY <1>1, <1>2, <1>6, <2>1, SettleLeaves DEF NotesTypeOK, NoteWrite
    <3>2. \/ TextIn(shown, v.id) # None
          \/ Removing(v.id)
          \/ v.id \in DOMAIN settled /\ settled[v.id] = None
      BY <1>6, <2>1 DEF OnScreen, Editing
    <3> QED BY <1>4, <1>5, <3>1, <3>2
  <2> QED BY <1>6, <2>1 DEF Editing
<1>11. Gone'
  <2>1. ASSUME NEW v \in noteWrites', v.op = "remove", 1 <= v.id PROVE TextIn(shown', v.id) = None
    <3>1. v.id # 2 + w.n /\ TextIn(shown, v.id) = None
      BY <1>2, <1>6, <2>1 DEF OnScreen, Gone
    <3> QED BY <1>4, <3>1
  <2> QED BY <2>1 DEF Gone
<1> QED BY <1>7, <1>8, <1>9, <1>10, <1>11, SettleLeaves DEF OnScreen

(* The server's text of an edited note is the one on screen, or the note   *)
(* is being removed or is gone.                                            *)
LEMMA EditSettles ==
  ASSUME NotesTypeOK, WritesInv, OnScreen, NEW w \in noteWrites, SettleNote(w), w.op = "edit"
  PROVE  OnScreen'
<1>1. /\ w.answer.id = w.id /\ w.answer.text = "ours" /\ 1 <= w.id /\ w.id \in Int
  <2>1. w.answer = Answer(w) /\ 1 <= w.id /\ w.id \in Int
    BY SettleLeaves
  <2> QED BY <2>1 DEF Answer
<1>2. \/ TextIn(shown, w.id) # None
      \/ Removing(w.id)
      \/ w.id \in DOMAIN settled /\ settled[w.id] = None
  BY <1>1 DEF OnScreen, Editing
<1>3. shown' \in Seq(Note) /\ SaysAfterMerge(shown, shown', w.id, w.answer)
  BY <1>1, SettleLeaves, MergedIs
<1>4. \A x : TextIn(shown', x) = IF x = w.id /\ TextIn(shown, w.id) # None THEN "ours" ELSE TextIn(shown, x)
  BY <1>1, <1>3 DEF SaysAfterMerge
<1>5. /\ DOMAIN settled' = DOMAIN settled \cup {w.id}
      /\ \A x \in DOMAIN settled' : settled'[x] = IF x \in DOMAIN settled THEN settled[x] ELSE "ours"
  BY <1>1, SettleLeaves DEF SettledNow
<1>6. noteWrites' = noteWrites \ {w} /\ \A x : Removing(x)' <=> Removing(x)
  BY SettleLeaves
<1>7. \A x : TextIn(shown', x) = None <=> TextIn(shown, x) = None
  BY <1>4, NoteListAssumption
<1>8. ScreenIds'
  <2>1. UpTo(shown', 2 + begun)
    BY <1>7, SettleLeaves DEF OnScreen, ScreenIds, UpTo, NotesTypeOK
  <2> QED BY <1>6, <2>1, SettleLeaves DEF OnScreen, ScreenIds
<1>9. SettledShown'
  <2>1. ASSUME NEW x \in DOMAIN settled'
        PROVE  TextIn(shown', x) = settled'[x] \/ Removing(x) \/ Removing(Placeholder(x - 2))
    <3>1. CASE x \notin DOMAIN settled
      BY <1>2, <1>4, <1>5, <2>1, <3>1
    <3>2. CASE x \in DOMAIN settled
      <4>1. settled[x] \in {"ours", None} /\ settled'[x] = settled[x]
        BY <1>5, <2>1, <3>2 DEF WritesInv, SettledIds, NotesTypeOK
      <4>2. TextIn(shown, x) = settled[x] \/ Removing(x) \/ Removing(Placeholder(x - 2))
        BY <3>2 DEF OnScreen, SettledShown
      <4> QED BY <1>4, <4>1, <4>2
    <3> QED BY <3>1, <3>2
  <2> QED BY <1>6, <2>1 DEF SettledShown
<1>10. Creating'
  <2>1. ASSUME NEW v \in noteWrites', v.op = "create"
        PROVE  /\ TextIn(shown', v.id) # None \/ Removing(v.id)
               /\ TextIn(shown', 2 + v.n) = None
               /\ 2 + v.n \notin DOMAIN settled'
               /\ \A u \in noteWrites' : u.op # "create" => u.id # 2 + v.n
    <3>1. /\ TextIn(shown, v.id) # None \/ Removing(v.id)
          /\ TextIn(shown, 2 + v.n) = None
          /\ 2 + v.n \notin DOMAIN settled
          /\ \A u \in noteWrites : u.op # "create" => u.id # 2 + v.n
      BY <1>6, <2>1 DEF OnScreen, Creating
    <3> QED BY <1>5, <1>6, <1>7, <3>1
  <2> QED BY <1>6, <2>1 DEF Creating
<1>11. Editing'
  <2>1. ASSUME NEW v \in noteWrites', v.op = "edit", 1 <= v.id
        PROVE  \/ TextIn(shown', v.id) # None
               \/ Removing(v.id)
               \/ v.id \in DOMAIN settled' /\ settled'[v.id] = None
    <3>1. \/ TextIn(shown, v.id) # None
          \/ Removing(v.id)
          \/ v.id \in DOMAIN settled /\ settled[v.id] = None
      BY <1>6, <2>1 DEF OnScreen, Editing
    <3> QED BY <1>5, <1>7, <3>1
  <2> QED BY <1>6, <2>1 DEF Editing
<1>12. Gone'
  BY <1>6, <1>7 DEF OnScreen, Gone
<1> QED BY <1>8, <1>9, <1>10, <1>11, <1>12, SettleLeaves DEF OnScreen

(* A removed note is not on screen when the server has removed it, and no  *)
(* write brings it back.                                                   *)
LEMMA RemoveSettles ==
  ASSUME NotesTypeOK, WritesInv, OnScreen, NEW w \in noteWrites, SettleNote(w), w.op = "remove"
  PROVE  OnScreen'
<1>1. shown' = shown
  BY DEF SettleNote, Merged
<1>2. 1 <= w.id /\ w.id \in Int /\ TextIn(shown, w.id) = None
  BY SettleLeaves DEF OnScreen, Gone
<1>3. /\ DOMAIN settled' = DOMAIN settled \cup {w.id}
      /\ \A x \in DOMAIN settled' : settled'[x] = IF x = w.id THEN None ELSE settled[x]
  BY SettleLeaves DEF SettledNow
<1>4. /\ noteWrites' = noteWrites \ {w} /\ begun' = begun
      /\ \A x : Removing(x) => Removing(x)' \/ x = w.id
  BY SettleLeaves
<1>5. ScreenIds'
  BY <1>1, <1>4 DEF OnScreen, ScreenIds
<1>6. SettledShown'
  <2>1. ASSUME NEW x \in DOMAIN settled'
        PROVE  TextIn(shown, x) = settled'[x] \/ Removing(x)' \/ Removing(Placeholder(x - 2))'
    <3>1. CASE x = w.id
      BY <1>2, <1>3, <2>1, <3>1
    <3>2. CASE x # w.id
      <4>1. x \in DOMAIN settled /\ settled'[x] = settled[x] /\ x \in Int /\ 1 <= x
        BY <1>3, <2>1, <3>2 DEF WritesInv, SettledIds, NotesTypeOK
      <4>2. Placeholder(x - 2) # w.id
        BY <1>2, <3>2, <4>1 DEF Placeholder
      <4>3. TextIn(shown, x) = settled[x] \/ Removing(x) \/ Removing(Placeholder(x - 2))
        BY <4>1 DEF OnScreen, SettledShown
      <4> QED BY <1>4, <3>2, <4>1, <4>2, <4>3
    <3> QED BY <3>1, <3>2
  <2> QED BY <1>1, <2>1 DEF SettledShown
<1>7. Creating'
  <2>1. ASSUME NEW v \in noteWrites', v.op = "create"
        PROVE  /\ TextIn(shown, v.id) # None \/ Removing(v.id)'
               /\ TextIn(shown, 2 + v.n) = None
               /\ 2 + v.n \notin DOMAIN settled'
               /\ \A u \in noteWrites' : u.op # "create" => u.id # 2 + v.n
    <3>1. /\ TextIn(shown, v.id) # None \/ Removing(v.id)
          /\ TextIn(shown, 2 + v.n) = None
          /\ 2 + v.n \notin DOMAIN settled
          /\ \A u \in noteWrites : u.op # "create" => u.id # 2 + v.n
      BY <1>4, <2>1 DEF OnScreen, Creating
    <3>2. v.id = Placeholder(v.n) /\ v.n \in Nat /\ 1 <= v.n
      BY <1>4, <2>1 DEF WritesInv, AllProper, Proper, NotesTypeOK, NoteWrite
    <3>3. v.id # w.id
      BY <1>2, <3>2 DEF Placeholder
    <3> QED BY <1>3, <1>4, <3>1, <3>3
  <2> QED BY <1>1, <2>1 DEF Creating
<1>8. Editing'
  <2>1. ASSUME NEW v \in noteWrites', v.op = "edit", 1 <= v.id
        PROVE  \/ TextIn(shown, v.id) # None
               \/ Removing(v.id)'
               \/ v.id \in DOMAIN settled' /\ settled'[v.id] = None
    <3>1. \/ TextIn(shown, v.id) # None
          \/ Removing(v.id)
          \/ v.id \in DOMAIN settled /\ settled[v.id] = None
      BY <1>4, <2>1 DEF OnScreen, Editing
    <3> QED BY <1>3, <1>4, <3>1
  <2> QED BY <1>1, <2>1 DEF Editing
<1>9. Gone'
  BY <1>1, <1>4 DEF OnScreen, Gone
<1> QED BY <1>5, <1>6, <1>7, <1>8, <1>9, SettleLeaves DEF OnScreen

(* Every step keeps the screen as it should be, until a write that was     *)
(* crossed is undone.                                                      *)
LEMMA ScreenStep ==
  ASSUME NotesTypeOK, WritesInv, ScreenInv, [NotesNext]_noteVars
  PROVE  ScreenInv'
<1>1. CASE UNCHANGED noteVars
  BY <1>1 DEF noteVars, ScreenInv, OnScreen, Opened, ScreenIds, CopyClean, SettledShown, UndoClean,
              Creating, Editing, Gone, Removing
<1>2. SUFFICES ASSUME NotesNext, ~upset' PROVE OnScreen'
  BY <1>1 DEF ScreenInv
<1>3. CASE ReadNotes \/ AnswerNotes \/ NotesArrive \/ NotesFail \/ GraceOver \/ LateNotes \/ LateFails
  BY <1>2, <1>3, ReadingScreen
<1>4. CASE Began
  <2>1. PICK op \in {"create", "edit", "remove"}, id \in Int : Asks(op, id) /\ BeginNote(op, id)
    BY <1>4 DEF Began
  <2>2. OnScreen
    BY <1>2, <2>1 DEF BeginNote, ScreenInv
  <2> QED BY <2>1, <2>2, BeginScreen
<1>5. ASSUME NEW w \in noteWrites, HandleNote(w) PROVE OnScreen'
  <2>1. OnScreen
    BY <1>2, <1>5 DEF HandleNote, ScreenInv
  <2> QED BY <1>5, <2>1, HandleScreen
<1>6. ASSUME NEW w \in noteWrites, SettleNote(w) PROVE OnScreen'
  <2>1. OnScreen /\ w.op \in {"create", "edit", "remove"}
    BY <1>2, <1>6 DEF SettleNote, ScreenInv, NotesTypeOK, NoteWrite
  <2> QED BY <1>6, <2>1, CreateSettles, EditSettles, RemoveSettles
<1>7. ASSUME NEW w \in noteWrites, FailNote(w) PROVE OnScreen'
  <2>1. OnScreen
    BY <1>2, <1>7 DEF FailNote, ScreenInv, NotesTypeOK
  <2> QED BY <1>2, <1>7, <2>1, FailScreen
<1> QED BY <1>2, <1>3, <1>4, <1>5, <1>6, <1>7, NotesSteps

(* Nothing is on screen at first.                                          *)
LEMMA NotesStart ==
  ASSUME NotesInit
  PROVE  NotesTypeOK /\ WritesInv /\ ScreenInv
<1>1. PICK one \in Note, two \in Note :
        /\ one = [id |-> 1, text |-> "old"] /\ two = [id |-> 2, text |-> "old"]
        /\ notes = <<one, two>> /\ copy \in {None, <<one>>, notes}
  BY DEF NotesInit, Note
<1>2. notes \in Seq(Note) /\ copy \in Seq(Note) \cup {None}
  <2>1. <<one, two>> \in Seq(Note)
    OBVIOUS
  <2>2. <<one>> \in Seq(Note)
    OBVIOUS
  <2> QED BY <1>1, <2>1, <2>2
<1>3. /\ shown = None /\ isCopy = FALSE /\ noteWrites = {} /\ begun = 0 /\ settled = <<>> /\ upset = FALSE
      /\ DOMAIN settled = {}
      /\ read = [at |-> "asked", found |-> copy, answer |-> None, crossed |-> FALSE]
  BY DEF NotesInit
<1>4. read \in NoteRead
  BY <1>2, <1>3 DEF NoteRead
<1>5. NotesTypeOK
  BY <1>2, <1>3, <1>4 DEF NotesTypeOK
<1>6. Within(notes, 2 + begun) /\ (copy # None => Within(copy, 2 + begun))
  <2>1. \A i \in DOMAIN notes : notes[i].id \in 1 .. 2
    BY <1>1
  <2>2. copy # None => \A i \in DOMAIN copy : copy[i].id \in 1 .. 2
    BY <1>1
  <2> QED BY <1>2, <1>3, <2>1, <2>2, NoteThere DEF Within
<1>7. WritesInv
  BY <1>3, <1>6 DEF WritesInv, ListsWithin, Uncrossed, Alone, AllProper, Distinct, SettledIds
<1>8. ScreenInv
  BY <1>3 DEF ScreenInv, OnScreen, Opened, ScreenIds, CopyClean, SettledShown, UndoClean,
              Creating, Editing, Gone
<1> QED BY <1>5, <1>7, <1>8

NotesInv == NotesTypeOK /\ WritesInv /\ ScreenInv

(* The inductive invariant of the notes: types, ids and writes, and the    *)
(* screen.                                                                 *)
THEOREM NotesInvariant == Spec => []NotesInv
<1>1. Init => NotesInv
  BY NotesStart DEF Init, NotesInv
<1>2. NotesInv /\ [Next]_vars => NotesInv'
  <2> SUFFICES ASSUME NotesInv, [Next]_vars PROVE NotesInv'
    OBVIOUS
  <2>1. [NotesNext]_noteVars
    BY DEF Next, vars
  <2> QED BY <2>1, NotesTypeStep, WritesStep, ScreenStep DEF NotesInv
<1> QED BY <1>1, <1>2, PTL DEF Spec

(* Every variable of the notes always has its type, however many writes    *)
(* are begun.                                                              *)
THEOREM NotesTypeCorrect == Spec => []NotesTypeOK
<1>1. NotesInv => NotesTypeOK
  BY DEF NotesInv
<1> QED BY <1>1, NotesInvariant, PTL

(* NotesKept for any number of writes: what is settled stays so on screen  *)
(* until the list is read again, unless a write that overlapped another is *)
(* undone.                                                                 *)
THEOREM NotesKeptCorrect == Spec => []NotesKept
<1>1. NotesInv => NotesKept
  BY DEF NotesInv, ScreenInv, OnScreen, SettledShown, Removing, NotesKept
<1> QED BY <1>1, NotesInvariant, PTL

-----------------------------------------------------------------------------
(* The alarms: what a schedule is.                                         *)

Ids == {IdOf[t] : t \in DOMAIN IdOf}
Reminder == [task : DOMAIN IdOf, day : Nat, time : SUBSET Nat]
Alarm == [id : Ids, task : DOMAIN IdOf, fireAt : Nat]

(* The reminders that ring after a moment, the first of those that share   *)
(* an id.                                                                  *)
Rings(reminders, at, m, i) ==
  /\ reminderFireTime(reminders[i], at) > m
  /\ \A j \in 1 .. (i - 1) : reminderFireTime(reminders[j], at) > m =>
                               IdOf[reminders[j].task] # IdOf[reminders[i].task]
RingUpTo(reminders, at, m, n) ==
  {AlarmOf(reminders[i], at) : i \in {i \in 1 .. n : Rings(reminders, at, m, i)}}

(* The alarm of a reminder is at a moment, under an id of a reminder.      *)
LEMMA AlarmIs ==
  ASSUME NEW r \in Reminder, NEW at \in Nat
  PROVE  /\ reminderFireTime(r, at) \in Nat /\ AlarmOf(r, at) \in Alarm
         /\ AlarmOf(r, at).id = IdOf[r.task] /\ AlarmOf(r, at).fireAt = reminderFireTime(r, at)
         /\ AlarmOf(r, at).id # BenchAlarm.id
<1>1. r.task \in DOMAIN IdOf /\ r.day \in Nat /\ r.time \in SUBSET Nat
  BY DEF Reminder
<1> DEFINE times == IF r.time = {} THEN {at} ELSE r.time
           x == CHOOSE y \in times : TRUE
<1>2. times # {} /\ \A y \in times : y \in Nat
  BY <1>1
<1> HIDE DEF times
<1>3. x \in Nat
  BY <1>2
<1> HIDE DEF x
<1>4. reminderFireTime(r, at) = r.day + x
  BY DEF reminderFireTime, x, times
<1>5. reminderFireTime(r, at) \in Nat
  BY <1>1, <1>3, <1>4
<1> QED BY <1>1, <1>5, RemindersAssumption DEF AlarmOf, Alarm, Ids

(* Two functions agree as far as their steps do: by the first place where  *)
(* they did not.                                                           *)
LEMMA StepsAgree ==
  ASSUME NEW n \in Nat, NEW f, NEW g, f[0] = g[0],
         \A k \in 1 .. n : f[k - 1] = g[k - 1] => f[k] = g[k]
  PROVE  \A k \in 0 .. n : f[k] = g[k]
<1> DEFINE Bad == {k \in 0 .. n : f[k] # g[k]}
<1>1. SUFFICES ASSUME Bad # {} PROVE FALSE
  OBVIOUS
<1>2. PICK least \in Bad : \A k \in Bad : least <= k
  <2>1. Bad \in SUBSET Nat
    OBVIOUS
  <2> HIDE DEF Bad
  <2> QED BY <1>1, <2>1, Least
<1>3. least \in 1 .. n /\ least - 1 \in 0 .. n
  BY <1>2
<1>4. least - 1 \notin Bad
  BY <1>2, <1>3
<1> QED BY <1>2, <1>3, <1>4

(* One reminder more.                                                      *)
LEMMA OneMoreRings ==
  ASSUME NEW reminders \in Seq(Reminder), NEW at \in Nat, NEW m \in Nat, NEW n \in 1 .. Len(reminders)
  PROVE  RingUpTo(reminders, at, m, n)
           = Scheduled(RingUpTo(reminders, at, m, n - 1), AlarmOf(reminders[n], at), m)
<1> DEFINE A(i) == AlarmOf(reminders[i], at)
           before == RingUpTo(reminders, at, m, n - 1)
<1>1. n \in Nat /\ n - 1 \in Nat /\ \A i \in 1 .. n : i \in DOMAIN reminders /\ reminders[i] \in Reminder
  OBVIOUS
<1>2. ASSUME NEW i \in 1 .. n
      PROVE  /\ reminderFireTime(reminders[i], at) \in Nat
             /\ A(i).id = IdOf[reminders[i].task] /\ A(i).fireAt = reminderFireTime(reminders[i], at)
  BY <1>1, AlarmIs
<1>3. RingUpTo(reminders, at, m, n) = before \cup (IF Rings(reminders, at, m, n) THEN {A(n)} ELSE {})
  <2>1. \A i : i \in 1 .. n <=> i \in 1 .. (n - 1) \/ i = n
    BY <1>1
  <2> HIDE DEF A
  <2> QED BY <2>1 DEF RingUpTo, A
<1>4. Rings(reminders, at, m, n) <=> A(n).fireAt > m /\ \A a \in before : a.id # A(n).id
  <2>1. ASSUME A(n).fireAt > m, \A a \in before : a.id # A(n).id PROVE Rings(reminders, at, m, n)
    <3>1. SUFFICES ASSUME NEW j \in 1 .. (n - 1), reminderFireTime(reminders[j], at) > m,
                          IdOf[reminders[j].task] = IdOf[reminders[n].task]
                   PROVE  FALSE
      BY <1>1, <1>2, <2>1 DEF Rings
    <3> DEFINE Sharing == {k \in 1 .. j : /\ reminderFireTime(reminders[k], at) > m
                                       /\ IdOf[reminders[k].task] = IdOf[reminders[n].task]}
    <3>2. PICK k \in Sharing : \A l \in Sharing : k <= l
      <4>1. j \in Sharing /\ Sharing \in SUBSET Nat
        BY <1>1, <3>1
      <4> HIDE DEF Sharing
      <4> QED BY <4>1, Least
    <3>3. k \in 1 .. (n - 1) /\ k \in 1 .. n
      BY <1>1, <3>2
    <3>4. Rings(reminders, at, m, k)
      <4>1. \A l \in 1 .. (k - 1) : l \in 1 .. j /\ l \notin Sharing
        BY <1>1, <3>2
      <4> QED BY <3>2, <4>1 DEF Rings
    <3>5. A(k) \in before
      BY <3>3, <3>4 DEF RingUpTo
    <3>6. A(k).id = A(n).id
      BY <1>1, <1>2, <3>2, <3>3
    <3> QED BY <2>1, <3>5, <3>6
  <2>2. ASSUME Rings(reminders, at, m, n) PROVE A(n).fireAt > m /\ \A a \in before : a.id # A(n).id
    <3>1. A(n).fireAt > m
      BY <1>1, <1>2, <2>2 DEF Rings
    <3>2. ASSUME NEW a \in before PROVE a.id # A(n).id
      <4>1. PICK i \in 1 .. (n - 1) : Rings(reminders, at, m, i) /\ a = A(i)
        BY DEF RingUpTo
      <4>2. reminderFireTime(reminders[i], at) > m /\ i \in 1 .. n /\ n \in 1 .. n
        BY <1>1, <4>1 DEF Rings
      <4>3. IdOf[reminders[i].task] # IdOf[reminders[n].task]
        BY <2>2, <4>1, <4>2 DEF Rings
      <4> QED BY <1>2, <4>1, <4>2, <4>3
    <3> QED BY <3>1, <3>2
  <2> QED BY <2>1, <2>2
<1> HIDE DEF A, before
<1>5. Scheduled(before, A(n), m) = before \cup (IF Rings(reminders, at, m, n) THEN {A(n)} ELSE {})
  BY <1>4 DEF Scheduled
<1> QED BY <1>3, <1>5 DEF A, before

ScheduleOf(f, reminders, at, now) ==
  f = [n \in 0 .. Len(reminders) |->
         IF n = 0 THEN {} ELSE Scheduled(f[n - 1], AlarmOf(reminders[n], at), now)]

(* The schedule is the reminders that will ring.                           *)
LEMMA ScheduleIs ==
  ASSUME NEW reminders \in Seq(Reminder), NEW at \in Nat, NEW m \in Nat
  PROVE  buildReminderSchedule(reminders, at, m) = RingUpTo(reminders, at, m, Len(reminders))
<1> DEFINE g == [n \in 0 .. Len(reminders) |-> RingUpTo(reminders, at, m, n)]
           f == CHOOSE x : ScheduleOf(x, reminders, at, m)
<1>1. Len(reminders) \in Nat
  OBVIOUS
<1>2. buildReminderSchedule(reminders, at, m) = f[Len(reminders)]
  BY DEF buildReminderSchedule, ScheduleOf
<1>3. /\ g[0] = {}
      /\ \A n \in 1 .. Len(reminders) : g[n] = Scheduled(g[n - 1], AlarmOf(reminders[n], at), m)
  <2>1. g[0] = {}
    <3>1. 0 \in 0 .. Len(reminders) /\ 1 .. 0 = {}
      BY <1>1
    <3> QED BY <3>1 DEF RingUpTo
  <2>2. ASSUME NEW n \in 1 .. Len(reminders) PROVE g[n] = Scheduled(g[n - 1], AlarmOf(reminders[n], at), m)
    <3>1. n \in 0 .. Len(reminders) /\ n - 1 \in 0 .. Len(reminders)
      BY <1>1
    <3> QED BY <3>1, OneMoreRings
  <2> QED BY <2>1, <2>2
<1>4. ScheduleOf(f, reminders, at, m)
  <2> DEFINE h == [n \in 0 .. Len(reminders) |->
                     IF n = 0 THEN {} ELSE Scheduled(g[n - 1], AlarmOf(reminders[n], at), m)]
  <2>1. \A n \in 0 .. Len(reminders) : g[n] = h[n]
    <3>1. \A n \in 0 .. Len(reminders) : n = 0 \/ n \in 1 .. Len(reminders)
      BY <1>1
    <3>2. \A n \in 0 .. Len(reminders) :
            h[n] = IF n = 0 THEN {} ELSE Scheduled(g[n - 1], AlarmOf(reminders[n], at), m)
      OBVIOUS
    <3> HIDE DEF g, h
    <3> QED BY <1>3, <3>1, <3>2
  <2>2. g = h
    BY <2>1
  <2>3. ScheduleOf(g, reminders, at, m)
    BY <2>2 DEF ScheduleOf
  <2> HIDE DEF g
  <2> QED BY <2>3
<1> HIDE DEF f
<1>5. \A k \in 0 .. Len(reminders) : f[k] = g[k]
  <2>1. \A k \in 0 .. Len(reminders) :
          f[k] = IF k = 0 THEN {} ELSE Scheduled(f[k - 1], AlarmOf(reminders[k], at), m)
    BY <1>4 DEF ScheduleOf
  <2>2. 0 \in 0 .. Len(reminders) /\ \A k \in 1 .. Len(reminders) : k \in 0 .. Len(reminders) /\ k # 0
    BY <1>1
  <2> HIDE DEF g
  <2>3. f[0] = g[0] /\ \A k \in 1 .. Len(reminders) : f[k - 1] = g[k - 1] => f[k] = g[k]
    BY <1>3, <2>1, <2>2
  <2> QED BY <1>1, <2>3, StepsAgree
<1> QED BY <1>1, <1>2, <1>5

-----------------------------------------------------------------------------
(* The steps of the alarms.                                                *)

Sync == [n : Nat, stage : {"asked", "planned", "sweeping"}, requested : Boards \cup {<<>>}, at : Hours,
         planned : Nat, schedule : SUBSET Alarm, wanted : SUBSET Ids, cancelling : SUBSET Ids,
         crossed : BOOLEAN]

AlarmsTyped ==
  /\ moment \in Nat /\ begunSyncs \in Nat
  /\ targets \in Boards \cup {<<>>} /\ hour \in Hours
  /\ alarms \subseteq Alarm \cup {BenchAlarm}
  /\ syncs \subseteq Sync
  /\ benchLost \/ BenchAlarm \in alarms

(* What a resync that has no other beside it has done so far.              *)
OnCourse(s) ==
  /\ syncs = {s} /\ s.requested = targets /\ s.at = hour
  /\ s.stage # "asked" => /\ s.wanted = {a.id : a \in ToRing(s.planned)}
                          /\ s.schedule \subseteq ToRing(s.planned)
  /\ s.stage = "planned" => s.schedule = ToRing(s.planned)
  /\ s.stage = "sweeping" =>
       /\ \A a \in alarms \ {BenchAlarm} : a.id \in s.wanted \cup s.cancelling
       /\ s.cancelling \cap s.wanted = {}
       /\ \A w \in ToRing(s.planned) \ s.schedule :
            /\ w.fireAt > moment => w \in alarms
            /\ \A a \in alarms \ {BenchAlarm} : a.id = w.id => a = w

Coming(set) == {a \in set : a.fireAt > moment}

(* Once it has ended well, what will ring is what was to ring.             *)
Repaired == \A m \in right : /\ syncs = {} /\ m \in Nat
                             /\ Coming(alarms \ {BenchAlarm}) = Coming(ToRing(m))

AlarmsInv ==
  /\ AlarmsTyped
  /\ \A s \in syncs : s.crossed \/ OnCourse(s)
  /\ Repaired

(* The bench's alarm is no reminder's; what rings has ids of its own.      *)
LEMMA ToRingIs ==
  ASSUME AlarmsTyped, NEW m \in Nat
  PROVE  /\ targets \in Seq(Reminder) /\ hour \in Nat
         /\ ToRing(m) = RingUpTo(targets, hour, m, Len(targets))
         /\ ToRing(m) \subseteq Alarm
         /\ \A a, b \in ToRing(m) : a.id = b.id => a = b
<1>1. targets \in Seq(Reminder) /\ hour \in Nat
  <2>1. <<>> \in Seq(Reminder)
    OBVIOUS
  <2>2. Boards \subseteq Seq(Reminder) /\ Hours \subseteq Nat
    BY RemindersAssumption DEF Reminder
  <2> QED BY <2>1, <2>2 DEF AlarmsTyped
<1>2. DOMAIN targets = 1 .. Len(targets) /\ Len(targets) \in Nat
  BY <1>1
<1>3. ToRing(m) = RingUpTo(targets, hour, m, Len(targets))
  BY <1>2 DEF ToRing, RingUpTo, Rings
<1>4. ASSUME NEW i \in 1 .. Len(targets)
      PROVE  /\ AlarmOf(targets[i], hour) \in Alarm
             /\ AlarmOf(targets[i], hour).id = IdOf[targets[i].task]
  <2>1. targets[i] \in Reminder
    BY <1>1, <1>2
  <2> QED BY <1>1, <2>1, AlarmIs
<1>5. ToRing(m) \subseteq Alarm
  BY <1>3, <1>4 DEF RingUpTo
<1>6. ASSUME NEW a \in ToRing(m), NEW b \in ToRing(m), a.id = b.id PROVE a = b
  <2>1. PICK i \in 1 .. Len(targets) : Rings(targets, hour, m, i) /\ a = AlarmOf(targets[i], hour)
    BY <1>3 DEF RingUpTo
  <2>2. PICK j \in 1 .. Len(targets) : Rings(targets, hour, m, j) /\ b = AlarmOf(targets[j], hour)
    BY <1>3 DEF RingUpTo
  <2>3. IdOf[targets[i].task] = IdOf[targets[j].task]
    BY <1>4, <1>6, <2>1, <2>2
  <2>4. ~ i \in 1 .. (j - 1) /\ ~ j \in 1 .. (i - 1)
    BY <2>1, <2>2, <2>3 DEF Rings
  <2>5. i = j
    BY <1>2, <2>4
  <2> QED BY <2>1, <2>2, <2>5
<1> QED BY <1>1, <1>3, <1>5, <1>6

(* The alarm of the bench is no reminder's.                                *)
LEMMA BenchApart ==
  /\ BenchAlarm \notin Alarm /\ BenchAlarm.id \notin Ids
  /\ \A a \in Alarm : a.id \in Ids /\ a.fireAt \in Nat /\ a.id # BenchAlarm.id
<1>1. BenchAlarm.id \notin Ids
  BY RemindersAssumption DEF Ids
<1>2. \A a \in Alarm : a.id \in Ids /\ a.fireAt \in Nat
  BY DEF Alarm
<1> QED BY <1>1, <1>2

(* The parts of a resync, and what changing them makes.                    *)
LEMMA SyncIs ==
  ASSUME NEW s \in Sync
  PROVE  /\ s.n \in Nat /\ s.requested \in Boards \cup {<<>>} /\ s.at \in Hours /\ s.planned \in Nat
         /\ s.schedule \in SUBSET Alarm /\ s.wanted \in SUBSET Ids /\ s.cancelling \in SUBSET Ids
         /\ s.crossed \in BOOLEAN /\ s.stage \in {"asked", "planned", "sweeping"}
         /\ \A st \in {"asked", "planned", "sweeping"}, p \in Nat, sch \in SUBSET Alarm,
               w \in SUBSET Ids, c \in SUBSET Ids, x \in BOOLEAN :
              [s EXCEPT !.stage = st, !.planned = p, !.schedule = sch, !.wanted = w,
                        !.cancelling = c, !.crossed = x] \in Sync
  BY DEF Sync

(* At the start only the alarm of the bench is armed.                      *)
LEMMA AlarmsStart == AlarmsInit => AlarmsInv
<1> SUFFICES ASSUME AlarmsInit PROVE AlarmsInv
  OBVIOUS
<1>1. AlarmsTyped
  BY DEF AlarmsInit, AlarmsTyped
<1> QED BY <1>1 DEF AlarmsInit, AlarmsInv, Repaired

(* A resync begins: it is beside others, or alone.                         *)
LEMMA BeginKeeps ==
  ASSUME AlarmsInv, NEW reminders \in Boards \cup {<<>>}, NEW at \in Hours,
         targets' = reminders, hour' = at, UNCHANGED <<moment, alarms, benchLost>>,
         begunSyncs' = begunSyncs + 1, right' = {},
         \/ syncs' = {[s EXCEPT !.crossed = TRUE] : s \in syncs} \cup {NewSync(reminders, at, syncs # {})}
         \/ syncs' = {NewSync(reminders, at, FALSE)}
  PROVE  AlarmsInv'
<1>1. syncs \subseteq Sync /\ begunSyncs + 1 \in Nat
  BY DEF AlarmsInv, AlarmsTyped
<1>2. ASSUME NEW x \in BOOLEAN
      PROVE  /\ NewSync(reminders, at, x) \in Sync /\ NewSync(reminders, at, x).crossed = x
             /\ NewSync(reminders, at, x).requested = reminders /\ NewSync(reminders, at, x).at = at
             /\ NewSync(reminders, at, x).stage = "asked"
  BY <1>1 DEF NewSync, Sync
<1>3. ASSUME NEW s \in syncs PROVE [s EXCEPT !.crossed = TRUE] \in Sync /\ [s EXCEPT !.crossed = TRUE].crossed
  BY <1>1 DEF Sync
<1>4. (syncs # {}) \in BOOLEAN
  OBVIOUS
<1>5. syncs' \subseteq Sync
  <2> DEFINE beside == syncs # {}
  <2>1. NewSync(reminders, at, beside) \in Sync /\ NewSync(reminders, at, FALSE) \in Sync
    BY <1>2, <1>4
  <2> HIDE DEF beside
  <2>2. syncs' = {[s EXCEPT !.crossed = TRUE] : s \in syncs} \cup {NewSync(reminders, at, beside)}
          => syncs' \subseteq Sync
    BY <1>3, <2>1
  <2>3. syncs' = {NewSync(reminders, at, FALSE)} => syncs' \subseteq Sync
    BY <2>1
  <2> QED BY <2>2, <2>3 DEF beside
<1>6. AlarmsTyped'
  BY <1>1, <1>5 DEF AlarmsInv, AlarmsTyped
<1>7. ASSUME NEW s \in syncs', ~ s.crossed PROVE OnCourse(s)'
  <2>1. s = NewSync(reminders, at, FALSE) /\ syncs' = {s}
    <3>1. CASE syncs' = {NewSync(reminders, at, FALSE)}
      BY <3>1
    <3>2. CASE syncs' = {[u EXCEPT !.crossed = TRUE] : u \in syncs} \cup {NewSync(reminders, at, syncs # {})}
      <4>1. s = NewSync(reminders, at, syncs # {})
        BY <1>3, <1>7, <3>2
      <4>2. syncs = {}
        BY <1>2, <1>4, <1>7, <4>1
      <4> QED BY <3>2, <4>1, <4>2
    <3> QED BY <3>1, <3>2
  <2> QED BY <1>2, <2>1 DEF OnCourse
<1> QED BY <1>6, <1>7 DEF AlarmsInv, Repaired

(* A resync takes a step: alone, it is the only one.                       *)
LEMMA GoesKeeps ==
  ASSUME AlarmsInv, NEW s \in syncs, NEW to \in Sync, Goes(s, to), to.crossed = s.crossed,
         UNCHANGED <<moment, targets, hour, begunSyncs, benchLost, right>>,
         alarms' \subseteq Alarm \cup {BenchAlarm},
         BenchAlarm \in alarms => BenchAlarm \in alarms',
         ~ s.crossed => OnCourse(to)'
  PROVE  AlarmsInv'
<1>1. syncs' = (syncs \ {s}) \cup {to}
  BY DEF Goes
<1>2. right = {}
  BY DEF AlarmsInv, Repaired
<1>3. AlarmsTyped'
  BY <1>1 DEF AlarmsInv, AlarmsTyped
<1>4. ASSUME NEW u \in syncs', ~ u.crossed PROVE OnCourse(u)'
  <2>1. CASE u = to
    BY <1>4, <2>1
  <2>2. CASE u # to
    <3>1. u \in syncs /\ u # s
      BY <1>1, <2>2
    <3>2. syncs = {u}
      BY <1>4, <3>1 DEF AlarmsInv, OnCourse
    <3> QED BY <3>1, <3>2
  <2> QED BY <2>1, <2>2
<1> QED BY <1>2, <1>3, <1>4 DEF AlarmsInv, Repaired

(* The schedule of a resync is what is to ring.                            *)
LEMMA PlanKeeps == ASSUME AlarmsInv, NEW s \in syncs, PlanSync(s) PROVE AlarmsInv'
<1>1. s \in Sync /\ moment \in Nat
  BY DEF AlarmsInv, AlarmsTyped
<1>2. s.requested \in Seq(Reminder) /\ s.at \in Nat
  <2>1. s.requested \in Boards \cup {<<>>} /\ s.at \in Hours
    BY <1>1, SyncIs
  <2>2. <<>> \in Seq(Reminder)
    OBVIOUS
  <2> QED BY <2>1, <2>2, RemindersAssumption DEF Reminder
<1>3. PICK schedule : schedule = buildReminderSchedule(s.requested, s.at, moment)
  OBVIOUS
<1>4. PICK at : at = moment
  OBVIOUS
<1> DEFINE ids == {a.id : a \in schedule}
           to == [s EXCEPT !.stage = "planned", !.planned = at, !.schedule = schedule, !.wanted = ids]
<1>5. schedule = RingUpTo(s.requested, s.at, at, Len(s.requested))
  BY <1>1, <1>2, <1>3, <1>4, ScheduleIs
<1>6. schedule \in SUBSET Alarm /\ ids \in SUBSET Ids
  <2>1. \A i \in 1 .. Len(s.requested) : s.requested[i] \in Reminder
    BY <1>2
  <2>2. \A i \in 1 .. Len(s.requested) : AlarmOf(s.requested[i], s.at) \in Alarm
    BY <1>2, <2>1, AlarmIs
  <2>3. schedule \subseteq Alarm
    BY <1>5, <2>2 DEF RingUpTo
  <2> QED BY <2>3, BenchApart
<1>7. Goes(s, to) /\ UNCHANGED <<moment, targets, hour, begunSyncs, benchLost, right, alarms>>
  BY <1>3, <1>4 DEF PlanSync, Untouched
<1> HIDE DEF ids
<1>8. /\ to \in Sync /\ to.crossed = s.crossed /\ to.stage = "planned" /\ to.planned = at
      /\ to.schedule = schedule /\ to.wanted = ids /\ to.requested = s.requested /\ to.at = s.at
  BY <1>1, <1>4, <1>6 DEF Sync
<1> HIDE DEF to
<1>9. ASSUME ~ s.crossed PROVE OnCourse(to)'
  <2>1. syncs = {s} /\ s.requested = targets /\ s.at = hour
    BY <1>9 DEF AlarmsInv, OnCourse
  <2>2. syncs' = {to}
    BY <1>7, <2>1 DEF Goes
  <2>3. ToRing(at)' = ToRing(at)
    BY <1>7 DEF ToRing
  <2>4. ToRing(at) = schedule
    BY <1>1, <1>4, <1>5, <2>1, ToRingIs DEF AlarmsInv
  <2> QED BY <1>7, <1>8, <2>1, <2>2, <2>3, <2>4 DEF OnCourse, ids
<1>10. alarms' \subseteq Alarm \cup {BenchAlarm} /\ (BenchAlarm \in alarms => BenchAlarm \in alarms')
  BY <1>7 DEF AlarmsInv, AlarmsTyped
<1> QED BY <1>7, <1>8, <1>9, <1>10, GoesKeeps

(* What is to be cancelled is what the schedule does not have.             *)
LEMMA ReadKeeps == ASSUME AlarmsInv, NEW s \in syncs, ReadPending(s) PROVE AlarmsInv'
<1>1. s \in Sync /\ moment \in Nat /\ alarms \subseteq Alarm \cup {BenchAlarm}
  BY DEF AlarmsInv, AlarmsTyped
<1>2. PICK ids : ids = unwanted(s)
  OBVIOUS
<1> DEFINE to == [s EXCEPT !.stage = "sweeping", !.cancelling = ids]
<1>3. ids \in SUBSET Ids
  BY <1>1, <1>2, BenchApart DEF unwanted
<1>4. /\ Goes(s, to) /\ s.stage = "planned"
      /\ UNCHANGED <<moment, targets, hour, begunSyncs, benchLost, right, alarms>>
  BY <1>2 DEF ReadPending, Untouched
<1>5. /\ to \in Sync /\ to.crossed = s.crossed /\ to.stage = "sweeping" /\ to.planned = s.planned
      /\ to.schedule = s.schedule /\ to.wanted = s.wanted /\ to.cancelling = ids
      /\ to.requested = s.requested /\ to.at = s.at
  BY <1>1, <1>3 DEF Sync
<1> HIDE DEF to
<1>6. ASSUME ~ s.crossed PROVE OnCourse(to)'
  <2>1. OnCourse(s)
    BY <1>6 DEF AlarmsInv
  <2>2. syncs' = {to}
    BY <1>4, <2>1 DEF Goes, OnCourse
  <2>3. ToRing(to.planned)' = ToRing(s.planned) /\ ToRing(s.planned) = s.schedule
    BY <1>4, <1>5, <2>1 DEF ToRing, OnCourse
  <2>4. \A a \in alarms \ {BenchAlarm} : a.id \in s.wanted \cup ids
    BY <1>2 DEF unwanted
  <2>5. ids \cap s.wanted = {}
    BY <1>2 DEF unwanted
  <2>6. s.wanted = {a.id : a \in ToRing(s.planned)} /\ s.requested = targets /\ s.at = hour
    BY <1>4, <2>1 DEF OnCourse
  <2> QED BY <1>4, <1>5, <2>2, <2>3, <2>4, <2>5, <2>6 DEF OnCourse
<1>7. alarms' \subseteq Alarm \cup {BenchAlarm} /\ (BenchAlarm \in alarms => BenchAlarm \in alarms')
  BY <1>1, <1>4
<1> QED BY <1>4, <1>5, <1>6, <1>7, GoesKeeps

(* A cancellation takes nothing that is wanted.                            *)
LEMMA CancelKeeps == ASSUME AlarmsInv, NEW s \in syncs, CancelNext(s) PROVE AlarmsInv'
<1>1. s \in Sync /\ moment \in Nat /\ alarms \subseteq Alarm \cup {BenchAlarm}
  BY DEF AlarmsInv, AlarmsTyped
<1>2. PICK id \in s.cancelling :
        alarms' = OthersThan(id) /\ Goes(s, [s EXCEPT !.cancelling = @ \ {id}])
  BY DEF CancelNext
<1> DEFINE to == [s EXCEPT !.cancelling = s.cancelling \ {id}]
<1>3. s.cancelling \in SUBSET Ids /\ id # BenchAlarm.id /\ s.planned \in Nat
  <2>1. s.cancelling \in SUBSET Ids /\ s.planned \in Nat
    BY <1>1, SyncIs
  <2> QED BY <2>1, BenchApart
<1>4. /\ Goes(s, to) /\ s.stage = "sweeping"
      /\ UNCHANGED <<moment, targets, hour, begunSyncs, benchLost, right>>
  BY <1>2 DEF CancelNext, Untouched
<1>5. /\ to \in Sync /\ to.crossed = s.crossed /\ to.stage = "sweeping" /\ to.planned = s.planned
      /\ to.schedule = s.schedule /\ to.wanted = s.wanted /\ to.cancelling = s.cancelling \ {id}
      /\ to.requested = s.requested /\ to.at = s.at
  BY <1>1, <1>3, <1>4 DEF Sync
<1> HIDE DEF to
<1>6. \A a : a \in alarms' <=> a \in alarms /\ a.id # id
  BY <1>2 DEF OthersThan
<1>7. ASSUME ~ s.crossed PROVE OnCourse(to)'
  <2>1. OnCourse(s)
    BY <1>7 DEF AlarmsInv
  <2>2. syncs' = {to}
    BY <1>4, <2>1 DEF Goes, OnCourse
  <2>3. ToRing(to.planned)' = ToRing(s.planned)
    BY <1>4, <1>5 DEF ToRing
  <2>4. /\ s.wanted = {a.id : a \in ToRing(s.planned)} /\ s.schedule \subseteq ToRing(s.planned)
        /\ s.requested = targets /\ s.at = hour
        /\ \A a \in alarms \ {BenchAlarm} : a.id \in s.wanted \cup s.cancelling
        /\ s.cancelling \cap s.wanted = {}
        /\ \A w \in ToRing(s.planned) \ s.schedule :
             /\ w.fireAt > moment => w \in alarms
             /\ \A a \in alarms \ {BenchAlarm} : a.id = w.id => a = w
    BY <1>4, <2>1 DEF OnCourse
  <2>5. \A a \in alarms' \ {BenchAlarm} : a.id \in s.wanted \cup (s.cancelling \ {id})
    BY <1>6, <2>4
  <2>6. (s.cancelling \ {id}) \cap s.wanted = {}
    BY <2>4
  <2>7. \A w \in ToRing(s.planned) : w.id # id
    BY <1>2, <2>4
  <2>8. \A w \in ToRing(s.planned) \ s.schedule :
             /\ w.fireAt > moment => w \in alarms'
             /\ \A a \in alarms' \ {BenchAlarm} : a.id = w.id => a = w
    BY <1>6, <2>4, <2>7
  <2> QED BY <1>4, <1>5, <2>2, <2>3, <2>4, <2>5, <2>6, <2>8 DEF OnCourse
<1>8. alarms' \subseteq Alarm \cup {BenchAlarm} /\ (BenchAlarm \in alarms => BenchAlarm \in alarms')
  BY <1>1, <1>3, <1>6
<1> QED BY <1>4, <1>5, <1>7, <1>8, GoesKeeps

(* An alarm that is armed takes the place of the one of its id.            *)
LEMMA ArmKeeps == ASSUME AlarmsInv, NEW s \in syncs, ArmNext(s) PROVE AlarmsInv'
<1>1. s \in Sync /\ moment \in Nat /\ alarms \subseteq Alarm \cup {BenchAlarm} /\ AlarmsTyped
  BY DEF AlarmsInv, AlarmsTyped
<1>2. PICK w \in s.schedule :
        alarms' = OthersThan(w.id) \cup {w} /\ Goes(s, [s EXCEPT !.schedule = @ \ {w}])
  BY DEF ArmNext
<1> DEFINE to == [s EXCEPT !.schedule = s.schedule \ {w}]
<1>3. s.schedule \in SUBSET Alarm /\ s.planned \in Nat /\ w \in Alarm /\ w.id # BenchAlarm.id
  <2>1. s.schedule \in SUBSET Alarm /\ s.planned \in Nat
    BY <1>1, SyncIs
  <2> QED BY <2>1, <1>2, BenchApart
<1>4. /\ Goes(s, to) /\ s.stage = "sweeping" /\ s.cancelling = {}
      /\ UNCHANGED <<moment, targets, hour, begunSyncs, benchLost, right>>
  BY <1>2 DEF ArmNext, Untouched
<1>5. /\ to \in Sync /\ to.crossed = s.crossed /\ to.stage = "sweeping" /\ to.planned = s.planned
      /\ to.schedule = s.schedule \ {w} /\ to.wanted = s.wanted /\ to.cancelling = s.cancelling
      /\ to.requested = s.requested /\ to.at = s.at
  BY <1>1, <1>3, <1>4 DEF Sync
<1> HIDE DEF to
<1>6. \A a : a \in alarms' <=> (a \in alarms /\ a.id # w.id) \/ a = w
  BY <1>2 DEF OthersThan
<1>7. ASSUME ~ s.crossed PROVE OnCourse(to)'
  <2>1. OnCourse(s)
    BY <1>7 DEF AlarmsInv
  <2>2. syncs' = {to}
    BY <1>4, <2>1 DEF Goes, OnCourse
  <2>3. ToRing(to.planned)' = ToRing(s.planned)
    BY <1>4, <1>5 DEF ToRing
  <2>4. /\ s.wanted = {a.id : a \in ToRing(s.planned)} /\ s.schedule \subseteq ToRing(s.planned)
        /\ s.requested = targets /\ s.at = hour
        /\ \A a \in alarms \ {BenchAlarm} : a.id \in s.wanted \cup s.cancelling
        /\ \A v \in ToRing(s.planned) \ s.schedule :
             /\ v.fireAt > moment => v \in alarms
             /\ \A a \in alarms \ {BenchAlarm} : a.id = v.id => a = v
    BY <1>4, <2>1 DEF OnCourse
  <2>5. w \in ToRing(s.planned) /\ w.id \in s.wanted
    BY <1>2, <2>4
  <2>6. \A a \in alarms' \ {BenchAlarm} : a.id \in s.wanted \cup s.cancelling
    BY <1>6, <2>4, <2>5
  <2>7. \A v \in ToRing(s.planned) : v.id = w.id => v = w
    BY <1>1, <1>3, <2>5, ToRingIs
  <2>8. \A v \in ToRing(s.planned) \ (s.schedule \ {w}) :
             /\ v.fireAt > moment => v \in alarms'
             /\ \A a \in alarms' \ {BenchAlarm} : a.id = v.id => a = v
    <3>1. ASSUME NEW v \in ToRing(s.planned) \ (s.schedule \ {w})
          PROVE  /\ v.fireAt > moment => v \in alarms'
                 /\ \A a \in alarms' \ {BenchAlarm} : a.id = v.id => a = v
      <4>1. CASE v = w
        BY <1>6, <4>1
      <4>2. CASE v # w
        <5>1. v.id # w.id /\ v \in ToRing(s.planned) \ s.schedule
          BY <2>7, <4>2
        <5> QED BY <1>6, <2>4, <5>1
      <4> QED BY <4>1, <4>2
    <3> QED BY <3>1
  <2> QED BY <1>4, <1>5, <2>2, <2>3, <2>4, <2>6, <2>8 DEF OnCourse
<1>8. alarms' \subseteq Alarm \cup {BenchAlarm} /\ (BenchAlarm \in alarms => BenchAlarm \in alarms')
  BY <1>1, <1>3, <1>6
<1> QED BY <1>4, <1>5, <1>7, <1>8, GoesKeeps

(* A resync that ends well, with no other beside it, leaves what is to     *)
(* ring.                                                                   *)
LEMMA EndKeeps == ASSUME AlarmsInv, NEW s \in syncs, EndSync(s) PROVE AlarmsInv'
<1>1. s \in Sync /\ moment \in Nat /\ alarms \subseteq Alarm \cup {BenchAlarm} /\ AlarmsTyped
  BY DEF AlarmsInv, AlarmsTyped
<1>2. /\ s.stage = "sweeping" /\ s.cancelling = {} /\ s.schedule = {}
      /\ syncs' = syncs \ {s} /\ right' = IF s.crossed THEN {} ELSE {s.planned}
      /\ UNCHANGED <<moment, targets, hour, begunSyncs, benchLost, alarms>>
  BY DEF EndSync, Untouched
<1>3. AlarmsTyped'
  BY <1>2 DEF AlarmsInv, AlarmsTyped
<1>4. ASSUME NEW u \in syncs', ~ u.crossed PROVE OnCourse(u)'
  BY <1>2, <1>4 DEF AlarmsInv, OnCourse
<1>5. ASSUME ~ s.crossed
      PROVE  /\ syncs' = {} /\ s.planned \in Nat
             /\ Coming(alarms \ {BenchAlarm}) = Coming(ToRing(s.planned))
  <2>1. OnCourse(s)
    BY <1>5 DEF AlarmsInv
  <2>2. s.planned \in Nat /\ syncs' = {}
    BY <1>1, <1>2, <2>1, SyncIs DEF OnCourse
  <2>3. /\ s.wanted = {a.id : a \in ToRing(s.planned)}
        /\ \A a \in alarms \ {BenchAlarm} : a.id \in s.wanted
        /\ \A w \in ToRing(s.planned) :
             /\ w.fireAt > moment => w \in alarms
             /\ \A a \in alarms \ {BenchAlarm} : a.id = w.id => a = w
    BY <1>2, <2>1 DEF OnCourse
  <2>4. \A w \in ToRing(s.planned) : w # BenchAlarm
    BY <1>1, <2>2, ToRingIs, BenchApart
  <2>5. \A a \in alarms \ {BenchAlarm} : a \in ToRing(s.planned)
    <3>1. ASSUME NEW a \in alarms \ {BenchAlarm} PROVE a \in ToRing(s.planned)
      <4>1. PICK w \in ToRing(s.planned) : a.id = w.id
        BY <2>3
      <4> QED BY <2>3, <4>1
    <3> QED BY <3>1
  <2> QED BY <2>2, <2>3, <2>4, <2>5 DEF Coming
<1>6. Repaired'
  <2>1. \A m : Coming(ToRing(m))' = Coming(ToRing(m))
    BY <1>2 DEF Coming, ToRing
  <2>2. Coming(alarms \ {BenchAlarm})' = Coming(alarms \ {BenchAlarm})
    BY <1>2 DEF Coming
  <2> QED BY <1>2, <1>5, <2>1, <2>2 DEF Repaired
<1> QED BY <1>3, <1>4, <1>6 DEF AlarmsInv

(* A resync that fails promises nothing.                                   *)
LEMMA FailKeeps == ASSUME AlarmsInv, NEW s \in syncs, FailSync(s) PROVE AlarmsInv'
<1>1. /\ syncs' = syncs \ {s}
      /\ UNCHANGED <<moment, targets, hour, begunSyncs, benchLost, alarms, right>>
  BY DEF FailSync, Untouched
<1>2. AlarmsTyped'
  BY <1>1 DEF AlarmsInv, AlarmsTyped
<1>3. ASSUME NEW u \in syncs', ~ u.crossed PROVE OnCourse(u)'
  BY <1>1, <1>3 DEF AlarmsInv, OnCourse
<1>4. right' = {}
  BY <1>1 DEF AlarmsInv, Repaired
<1> QED BY <1>2, <1>3, <1>4 DEF AlarmsInv, Repaired

(* Time passes and alarms of the past ring: what is coming stays.          *)
LEMMA ClockKeeps ==
  ASSUME AlarmsInv, UNCHANGED <<targets, hour, syncs, begunSyncs, right, benchLost>>,
         moment' \in Nat, moment <= moment', alarms' \subseteq alarms,
         \A a \in alarms \ alarms' : a # BenchAlarm /\ a.fireAt <= moment
  PROVE  AlarmsInv'
<1>1. moment \in Nat /\ alarms \subseteq Alarm \cup {BenchAlarm} /\ AlarmsTyped
  BY DEF AlarmsInv, AlarmsTyped
<1>2. AlarmsTyped'
  BY DEF AlarmsInv, AlarmsTyped
<1>3. \A m : ToRing(m)' = ToRing(m)
  BY DEF ToRing
<1>4. \A a \in Alarm : a.fireAt > moment' => a.fireAt > moment
  BY <1>1, BenchApart
<1>5. ASSUME NEW a \in Alarm, a \in alarms, a.fireAt > moment PROVE a \in alarms'
  BY <1>1, <1>5, BenchApart
<1>6. ASSUME NEW s \in syncs', ~ s.crossed PROVE OnCourse(s)'
  <2>1. OnCourse(s) /\ s \in Sync
    BY <1>1, <1>6 DEF AlarmsInv, AlarmsTyped
  <2>2. s.planned \in Nat
    BY <2>1, SyncIs
  <2>3. ToRing(s.planned) \subseteq Alarm
    BY <1>1, <2>2, ToRingIs
  <2>4. ASSUME s.stage = "sweeping", NEW w \in ToRing(s.planned) \ s.schedule
        PROVE  /\ w.fireAt > moment' => w \in alarms'
               /\ \A a \in alarms' \ {BenchAlarm} : a.id = w.id => a = w
    BY <1>4, <1>5, <2>1, <2>3, <2>4 DEF OnCourse
  <2> QED BY <1>3, <2>1, <2>4 DEF OnCourse
<1>7. ASSUME NEW m \in right PROVE Coming(alarms \ {BenchAlarm})' = Coming(ToRing(m))'
  <2>1. m \in Nat /\ Coming(alarms \ {BenchAlarm}) = Coming(ToRing(m))
    BY DEF AlarmsInv, Repaired
  <2>2. ToRing(m) \subseteq Alarm
    BY <1>1, <2>1, ToRingIs
  <2>3. \A a : (a \in ToRing(m) /\ a.fireAt > moment) <=> (a \in alarms \ {BenchAlarm} /\ a.fireAt > moment)
    BY <2>1 DEF Coming
  <2>4. ASSUME NEW a PROVE (a \in ToRing(m) /\ a.fireAt > moment') <=> (a \in alarms' \ {BenchAlarm} /\ a.fireAt > moment')
    <3>1. ASSUME a \in ToRing(m), a.fireAt > moment' PROVE a \in alarms' \ {BenchAlarm}
      BY <1>4, <1>5, <2>2, <2>3, <3>1
    <3>2. ASSUME a \in alarms' \ {BenchAlarm}, a.fireAt > moment' PROVE a \in ToRing(m)
      BY <1>1, <1>4, <2>3, <3>2
    <3> QED BY <3>1, <3>2
  <2> QED BY <1>3, <2>4 DEF Coming
<1>8. Repaired'
  BY <1>7 DEF AlarmsInv, Repaired
<1> QED BY <1>2, <1>6, <1>8 DEF AlarmsInv

(* The system drops its alarms.                                            *)
LEMMA LossKeeps == ASSUME AlarmsInv, LoseAlarms PROVE AlarmsInv'
<1>1. ASSUME NEW s \in syncs PROVE [s EXCEPT !.crossed = TRUE] \in Sync /\ [s EXCEPT !.crossed = TRUE].crossed
  BY DEF AlarmsInv, AlarmsTyped, Sync
<1>2. AlarmsTyped'
  BY <1>1 DEF AlarmsInv, AlarmsTyped, LoseAlarms
<1> QED BY <1>1, <1>2 DEF AlarmsInv, Repaired, LoseAlarms

(* Every step keeps what is known of the alarms: one case per action.      *)
LEMMA AlarmsStep == AlarmsInv /\ [AlarmsNext]_alarmVars => AlarmsInv'
<1> SUFFICES ASSUME AlarmsInv, [AlarmsNext]_alarmVars PROVE AlarmsInv'
  OBVIOUS
<1>1. /\ moment \in Nat /\ targets \in Boards \cup {<<>>} /\ hour \in Hours
      /\ alarms \subseteq Alarm \cup {BenchAlarm}
  BY DEF AlarmsInv, AlarmsTyped
<1>2. ASSUME Resync PROVE AlarmsInv'
  <2>1. targets \in Boards \cup {<<>>} /\ hour \in Hours
    BY <1>1
  <2> QED BY <1>2, <2>1, BeginKeeps DEF Resync, BeginSync
<1>3. ASSUME Relaunch PROVE AlarmsInv'
  <2>1. <<>> \in Boards \cup {<<>>} /\ hour \in Hours
    BY <1>1
  <2> QED BY <1>3, <2>1, BeginKeeps DEF Relaunch
<1>4. ASSUME NEW b \in Boards, replaceWith(b) PROVE AlarmsInv'
  <2>1. b \in Boards \cup {<<>>} /\ hour \in Hours
    BY <1>1
  <2> QED BY <1>4, <2>1, BeginKeeps DEF replaceWith, BeginSync
<1>5. ASSUME NEW h \in Hours, setTime(h) PROVE AlarmsInv'
  BY <1>1, <1>5, BeginKeeps DEF setTime, BeginSync
<1>6. ASSUME NEW s \in syncs,
             PlanSync(s) \/ ReadPending(s) \/ CancelNext(s) \/ ArmNext(s) \/ EndSync(s) \/ FailSync(s)
      PROVE  AlarmsInv'
  BY <1>6, PlanKeeps, ReadKeeps, CancelKeeps, ArmKeeps, EndKeeps, FailKeeps
<1>7. ASSUME NEW a \in alarms, Ring(a) PROVE AlarmsInv'
  BY <1>1, <1>7, ClockKeeps DEF Ring
<1>8. ASSUME Elapse PROVE AlarmsInv'
  BY <1>1, <1>8, ClockKeeps DEF Elapse
<1>9. ASSUME LoseAlarms PROVE AlarmsInv'
  BY <1>9, LossKeeps
<1>10. ASSUME UNCHANGED alarmVars PROVE AlarmsInv'
  BY <1>1, <1>10, ClockKeeps DEF alarmVars
<1> QED BY <1>2, <1>3, <1>4, <1>5, <1>6, <1>7, <1>8, <1>9, <1>10 DEF AlarmsNext

(* The inductive invariant of the alarms: types, and how far a resync that *)
(* has no other beside it has come.                                        *)
THEOREM AlarmsInvariant == Spec => []AlarmsInv
<1>1. Init => AlarmsInv
  BY AlarmsStart DEF Init
<1>2. AlarmsInv /\ [Next]_vars => AlarmsInv'
  <2> SUFFICES ASSUME AlarmsInv, [Next]_vars PROVE AlarmsInv'
    OBVIOUS
  <2>1. [AlarmsNext]_alarmVars
    BY DEF Next, vars
  <2> QED BY <2>1, AlarmsStep
<1> QED BY <1>1, <1>2, PTL DEF Spec

(* AlarmsRepaired for any boards, hours, resyncs and moments: a resync     *)
(* that has no other beside it leaves armed what the board asks for, and   *)
(* no resync takes the bench's alarm.                                      *)
THEOREM AlarmsRepairedCorrect == Spec => []AlarmsRepaired
<1>1. AlarmsInv => AlarmsRepaired
  BY DEF AlarmsInv, AlarmsTyped, Repaired, Coming, AlarmsRepaired
<1> QED BY <1>1, AlarmsInvariant, PTL
=============================================================================
