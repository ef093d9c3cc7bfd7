------------------------- MODULE CaptureQueueProofs -------------------------
(***************************************************************************)
(* What holds of the capture queue for every number of lines and mishaps.  *)
(***************************************************************************)
EXTENDS CaptureQueue, WellFoundedInduction, TLAPS

(* The queue less some lines.                                              *)
Remaining(queue, lines) == {i \in DOMAIN queue : queue[i] \notin lines}

Places(queue, lines, n, f) ==
  /\ f \in [1 .. n -> Remaining(queue, lines)]
  /\ \A i, k \in 1 .. n : i < k => f[i] < f[k]
  /\ \A i \in Remaining(queue, lines) : \E k \in 1 .. n : f[k] = i

(* Every set of numbers that is not empty has a least one.                 *)
LEMMA Least ==
  ASSUME NEW T \in SUBSET Nat, T # {}
  PROVE  \E n \in T : \A m \in T : ~ (m < n)
<1>1. IsWellFoundedOn({ss \in Nat \X Nat : ss[1] < ss[2]}, Nat)
  BY NatLessThanWellFounded DEF OpToRel
<1>2. \E n \in T : \A m \in T : ~ (<<m, n>> \in {ss \in Nat \X Nat : ss[1] < ss[2]})
  BY <1>1, WFMin
<1> QED BY <1>2

(* From the queue without its last line to the queue.                      *)
LEMMA PlacesShorter ==
  ASSUME NEW queue \in Queue, NEW lines, Len(queue) > 0,
         NEW shorter, shorter = [i \in 1 .. Len(queue) - 1 |-> queue[i]],
         NEW n \in 0 .. Len(queue) - 1, NEW f, Places(shorter, lines, n, f)
  PROVE  \E m \in 0 .. Len(queue) : \E g : Places(queue, lines, m, g)
<1> DEFINE last == Len(queue)
<1>1. shorter \in Queue /\ Len(shorter) = last - 1 /\ \A i \in 1 .. last - 1 : shorter[i] = queue[i]
  BY DEF Queue
<1>2. DOMAIN queue = 1 .. last /\ DOMAIN shorter = 1 .. last - 1 /\ last \in Nat
  BY <1>1 DEF Queue
<1>3. CASE queue[last] \in lines
  <2>1. Remaining(queue, lines) = Remaining(shorter, lines)
    BY <1>1, <1>2, <1>3 DEF Remaining
  <2>2. Places(queue, lines, n, f)
    BY <2>1 DEF Places
  <2> QED BY <1>2, <2>2
<1>4. CASE queue[last] \notin lines
  <2> DEFINE g == [k \in 1 .. n + 1 |-> IF k = n + 1 THEN last ELSE f[k]]
  <2>1. Remaining(queue, lines) = Remaining(shorter, lines) \cup {last}
    BY <1>1, <1>2, <1>4 DEF Remaining
  <2>2. \A k \in 1 .. n : f[k] \in 1 .. last - 1
    BY <1>2 DEF Places, Remaining
  <2>3. g \in [1 .. n + 1 -> Remaining(queue, lines)]
    BY <2>1 DEF Places
  <2>4. \A i, k \in 1 .. n + 1 : i < k => g[i] < g[k]
    BY <1>2, <2>2 DEF Places
  <2>5. \A i \in Remaining(queue, lines) : \E k \in 1 .. n + 1 : g[k] = i
    BY <2>1 DEF Places
  <2>6. Places(queue, lines, n + 1, g)
    BY <2>3, <2>4, <2>5 DEF Places
  <2> QED BY <1>2, <2>6
<1> QED BY <1>3, <1>4

(* Every queue can be thinned out: by induction on its length.             *)
LEMMA PlacesExist ==
  ASSUME NEW queue \in Queue, NEW lines
  PROVE  \E n \in 0 .. Len(queue) : \E f : Places(queue, lines, n, f)
<1> DEFINE Good(q) == \E n \in 0 .. Len(q) : \E f : Places(q, lines, n, f)
           Bad == {Len(q) : q \in {p \in Queue : ~ Good(p)}}
<1>1. SUFFICES ASSUME Bad # {} PROVE FALSE
  OBVIOUS
<1>2. Bad \in SUBSET Nat
  BY DEF Queue
<1>3. PICK least \in Bad : \A m \in Bad : ~ (m < least)
  BY <1>1, <1>2, Least
<1>4. PICK q \in Queue : Len(q) = least /\ ~ Good(q)
  BY <1>3
<1>5. CASE least = 0
  <2>1. Remaining(q, lines) = {} /\ Len(q) = 0
    BY <1>4, <1>5 DEF Queue, Remaining
  <2>2. [k \in 1 .. 0 |-> k] \in [1 .. 0 -> {}]
    OBVIOUS
  <2>3. Places(q, lines, 0, [k \in 1 .. 0 |-> k])
    BY <2>1, <2>2 DEF Places
  <2> QED BY <1>4, <2>1, <2>3
<1>6. CASE least # 0
  <2> DEFINE shorter == [i \in 1 .. Len(q) - 1 |-> q[i]]
  <2>1. Len(q) \in Nat /\ Len(q) > 0
    BY <1>2, <1>4, <1>6
  <2>2. shorter \in Queue /\ Len(shorter) = Len(q) - 1
    BY <2>1 DEF Queue
  <2>3. Good(shorter)
    <3>1. ~ Good(shorter) => Len(shorter) \in Bad
      BY <2>2
    <3>2. Len(shorter) < least
      BY <1>4, <2>1, <2>2
    <3> QED BY <1>3, <3>1, <3>2
  <2>4. PICK n, f : n \in 0 .. Len(shorter) /\ Places(shorter, lines, n, f)
    BY <2>3
  <2>5. n \in 0 .. Len(q) - 1
    BY <2>2, <2>4
  <2> HIDE DEF Good, Bad
  <2>6. \E m \in 0 .. Len(q) : \E g : Places(q, lines, m, g)
    BY <2>1, <2>4, <2>5, PlacesShorter
  <2> QED BY <1>4, <2>6 DEF Good
<1> QED BY <1>5, <1>6

(* What is left stands in the order it had.                                *)
LEMMA WithoutIs ==
  ASSUME NEW queue \in Queue, NEW lines
  PROVE  \E f : /\ Without(queue, lines) \in Queue
                /\ Places(queue, lines, Len(Without(queue, lines)), f)
                /\ \A k \in DOMAIN Without(queue, lines) : Without(queue, lines)[k] = queue[f[k]]
<1> DEFINE kept == {i \in DOMAIN queue : queue[i] \notin lines}
           all == UNION {[1 .. n -> kept] : n \in 0 .. Len(queue)}
           Fits(f) == /\ \A i, k \in DOMAIN f : i < k => f[i] < f[k]
                      /\ \A i \in kept : \E k \in DOMAIN f : f[k] = i
           place == CHOOSE f \in all : Fits(f)
<1>1. Without(queue, lines) = [k \in DOMAIN place |-> queue[place[k]]]
  BY DEF Without
<1>2. PICK n, f : n \in 0 .. Len(queue) /\ Places(queue, lines, n, f)
  BY PlacesExist
<1>3. f \in all /\ Fits(f)
  BY <1>2 DEF Places, Remaining
<1>4. place \in all /\ Fits(place)
  BY <1>3
<1> HIDE DEF place
<1>5. PICK m \in 0 .. Len(queue) : place \in [1 .. m -> kept]
  BY <1>4
<1>6. Places(queue, lines, m, place)
  BY <1>4, <1>5 DEF Places, Remaining
<1>7. [k \in DOMAIN place |-> queue[place[k]]] \in Queue /\ Len([k \in DOMAIN place |-> queue[place[k]]]) = m
  BY <1>5 DEF Queue
<1> QED BY <1>1, <1>5, <1>6, <1>7

(* A queue lists no line twice.                                            *)
Once(queue) == \A i, k \in DOMAIN queue : queue[i] = queue[k] => i = k

(* What stands before a line that was sent is covered.                     *)
Ordered(queue, sent, covered) ==
  \A i, k \in DOMAIN queue : i < k /\ queue[k] \in sent => queue[i] \in covered

(* What stands before a line in one queue does so in the other, or is      *)
(* covered.                                                                *)
Follows(queue, other, covered) ==
  \A i, k \in DOMAIN queue, m \in DOMAIN other : i < k /\ queue[k] = other[m] =>
    queue[i] \in covered \/ \E j \in DOMAIN other : j < m /\ other[j] = queue[i]

(* What Without keeps: the other lines, their order, no repetition.        *)
LEMMA WithoutKeeps ==
  ASSUME NEW queue \in Queue, NEW lines, NEW rest, rest = Without(queue, lines)
  PROVE  /\ rest \in Queue
         /\ \A l : Contains(rest, l) <=> Contains(queue, l) /\ l \notin lines
         /\ \A i, k \in DOMAIN rest : i < k =>
              \E a, b \in DOMAIN queue : a < b /\ queue[a] = rest[i] /\ queue[b] = rest[k]
         /\ Once(queue) => Once(rest)
<1>1. PICK f : /\ rest \in Queue
               /\ Places(queue, lines, Len(rest), f)
               /\ \A k \in DOMAIN rest : rest[k] = queue[f[k]]
  BY WithoutIs
<1>2. Len(rest) \in Nat /\ DOMAIN rest = 1 .. Len(rest) /\ DOMAIN queue = 1 .. Len(queue) /\ Len(queue) \in Nat
  BY <1>1 DEF Queue
<1>3. /\ \A k \in 1 .. Len(rest) : f[k] \in 1 .. Len(queue) /\ queue[f[k]] \notin lines
      /\ \A i, k \in 1 .. Len(rest) : i < k => f[i] < f[k]
      /\ \A i \in 1 .. Len(queue) : queue[i] \notin lines => \E k \in 1 .. Len(rest) : f[k] = i
  BY <1>1, <1>2 DEF Places, Remaining
<1>4. \A l : Contains(rest, l) <=> Contains(queue, l) /\ l \notin lines
  <2>1. ASSUME NEW k \in 1 .. Len(rest)
        PROVE  Contains(queue, rest[k]) /\ rest[k] \notin lines
    BY <1>1, <1>2, <1>3 DEF Contains
  <2>2. ASSUME NEW i \in 1 .. Len(queue), queue[i] \notin lines
        PROVE  Contains(rest, queue[i])
    BY <1>1, <1>2, <1>3, <2>2 DEF Contains
  <2> QED BY <2>1, <2>2 DEF Contains
<1>5. \A i, k \in DOMAIN rest : i < k =>
        \E a, b \in DOMAIN queue : a < b /\ queue[a] = rest[i] /\ queue[b] = rest[k]
  BY <1>1, <1>2, <1>3
<1>6. ASSUME Once(queue), NEW i \in DOMAIN rest, NEW k \in DOMAIN rest, rest[i] = rest[k]
      PROVE  i = k
  <2>1. f[i] = f[k]
    BY <1>1, <1>2, <1>3, <1>6 DEF Once
  <2>2. ~ (i < k) /\ ~ (k < i)
    BY <1>2, <1>3, <2>1
  <2> QED BY <1>2, <2>2
<1> QED BY <1>1, <1>4, <1>5, <1>6 DEF Once

(* A queue still follows one that has lost only covered lines.             *)
LEMMA FollowsWithout ==
  ASSUME NEW queue \in Queue, NEW lines, NEW rest, rest = Without(queue, lines),
         NEW other \in Queue, NEW covered, Follows(other, queue, covered), Lines \cap lines \subseteq covered
  PROVE  Follows(other, rest, covered)
<1>1. PICK f : /\ rest \in Queue
               /\ Places(queue, lines, Len(rest), f)
               /\ \A k \in DOMAIN rest : rest[k] = queue[f[k]]
  BY WithoutIs
<1>2. Len(rest) \in Nat /\ DOMAIN rest = 1 .. Len(rest) /\ DOMAIN queue = 1 .. Len(queue) /\ Len(queue) \in Nat
  BY <1>1 DEF Queue
<1>3. /\ \A k \in 1 .. Len(rest) : f[k] \in 1 .. Len(queue) /\ queue[f[k]] \notin lines
      /\ \A i, k \in 1 .. Len(rest) : i < k => f[i] < f[k]
      /\ \A i \in 1 .. Len(queue) : queue[i] \notin lines => \E k \in 1 .. Len(rest) : f[k] = i
  BY <1>1, <1>2 DEF Places, Remaining
<1> SUFFICES ASSUME NEW i \in DOMAIN other, NEW k \in DOMAIN other, NEW m \in DOMAIN rest,
                    i < k, other[k] = rest[m], other[i] \notin covered
             PROVE  \E j \in DOMAIN rest : j < m /\ rest[j] = other[i]
  BY DEF Follows
<1>4. PICK j \in DOMAIN queue : j < f[m] /\ queue[j] = other[i]
  BY <1>1, <1>2, <1>3 DEF Follows
<1>5. queue[j] \notin lines
  BY <1>4 DEF Queue
<1>6. PICK n \in 1 .. Len(rest) : f[n] = j
  BY <1>2, <1>3, <1>5
<1>7. n < m
  <2>1. n = m \/ m < n \/ n < m
    BY <1>2
  <2>2. f[n] \in Nat /\ f[m] \in Nat
    BY <1>2, <1>3
  <2> QED BY <1>2, <1>3, <1>4, <1>6, <2>1, <2>2
<1> QED BY <1>1, <1>2, <1>4, <1>6, <1>7

(* A queue that loses lines stays ordered and still follows others.        *)
LEMMA OrderWithout ==
  ASSUME NEW queue \in Queue, NEW lines, NEW rest, rest = Without(queue, lines),
         NEW sent, NEW covered
  PROVE  /\ Ordered(queue, sent, covered) => Ordered(rest, sent, covered)
         /\ \A other : Follows(queue, other, covered) => Follows(rest, other, covered)
<1>1. /\ rest \in Queue
      /\ \A i, k \in DOMAIN rest : i < k =>
           \E a, b \in DOMAIN queue : a < b /\ queue[a] = rest[i] /\ queue[b] = rest[k]
  BY WithoutKeeps
<1> QED BY <1>1 DEF Ordered, Follows

(* The same of a line put at the end.                                      *)
LEMMA OrderAppend ==
  ASSUME NEW queue \in Queue, NEW l \in Lines, NEW longer, longer = Append(queue, l), ~ Contains(queue, l)
  PROVE  /\ longer \in Queue
         /\ \A x : Contains(longer, x) <=> Contains(queue, x) \/ x = l
         /\ Once(queue) => Once(longer)
         /\ \A sent, covered : l \notin sent /\ Ordered(queue, sent, covered) => Ordered(longer, sent, covered)
         /\ \A other, covered : Follows(queue, other, covered) /\ (\A m \in DOMAIN other : other[m] # l)
              => Follows(longer, other, covered)
<1>1. /\ longer \in Queue /\ Len(queue) \in Nat
      /\ DOMAIN longer = 1 .. Len(queue) + 1 /\ DOMAIN queue = 1 .. Len(queue) /\ Len(longer) = Len(queue) + 1
      /\ longer[Len(queue) + 1] = l /\ \A i \in 1 .. Len(queue) : longer[i] = queue[i]
  BY DEF Queue
<1>2. \A x : Contains(longer, x) <=> Contains(queue, x) \/ x = l
  BY <1>1 DEF Contains
<1>3. Once(queue) => Once(longer)
  BY <1>1 DEF Once, Contains
<1>4. \A sent, covered : l \notin sent /\ Ordered(queue, sent, covered) => Ordered(longer, sent, covered)
  BY <1>1 DEF Ordered
<1>5. \A other, covered : Follows(queue, other, covered) /\ (\A m \in DOMAIN other : other[m] # l)
        => Follows(longer, other, covered)
  BY <1>1 DEF Follows
<1> QED BY <1>1, <1>2, <1>3, <1>4, <1>5

-----------------------------------------------------------------------------
(* While lines are sent there is one to send; an app that is not running   *)
(* does nothing.                                                           *)
Underway ==
  /\ flush.pc = "send" => flush.todo # <<>>
  /\ ~running => mem = <<>> /\ flush = NoFlush /\ \A l \in Lines : edit[l] = None

TypeInv == TypeOK /\ Underway

(* No pass under way is a pass with nothing in it.                         *)
LEMMA NoFlushIs == NoFlush \in Pass /\ NoFlush.pc = "idle" /\ NoFlush.sent = {}
<1>1. <<>> \in Queue
  BY DEF Queue
<1> QED BY <1>1 DEF NoFlush, Pass

(* A pass that stops has nothing to write, or goes on to reconcile.        *)
LEMMA AfterLoopIs ==
  ASSUME NEW f \in Pass, NEW g, g = AfterLoop(f)
  PROVE  /\ g \in Pass /\ g.pc \in {"idle", "merge"}
         /\ g = NoFlush \/ (g.sent = f.sent /\ g.pc = "merge")
  BY DEF AfterLoop, NoFlush, Pass, Queue

(* The line at the head is done with: the pass goes on or ends.            *)
LEMMA AfterLineIs ==
  ASSUME NEW f \in Pass, f.todo # <<>>, f.pc = "send", NEW g, g = AfterLine(f)
  PROVE  /\ g \in Pass /\ g.pc \in {"idle", "send", "merge"}
         /\ g = NoFlush \/ g.sent = f.sent
         /\ g.pc = "send" => g.todo = Tail(f.todo) /\ g.todo # <<>>
<1> DEFINE rest == [f EXCEPT !.todo = Tail(@)]
<1>1. /\ rest \in Pass /\ rest.todo = Tail(f.todo) /\ rest.sent = f.sent /\ rest.pc = "send"
  <2>1. f.todo \in Seq(Lines)
    BY DEF Pass, Queue
  <2>2. Tail(f.todo) \in Seq(Lines)
    BY <2>1
  <2> QED BY <2>2 DEF Pass, Queue
<1>2. g = IF rest.todo = <<>> THEN AfterLoop(rest) ELSE rest
  BY DEF AfterLine
<1> HIDE DEF rest
<1>3. CASE rest.todo = <<>>
  <2>1. g = AfterLoop(rest)
    BY <1>2, <1>3
  <2> QED BY <1>1, <2>1, AfterLoopIs
<1>4. CASE rest.todo # <<>>
  BY <1>1, <1>2, <1>4
<1> QED BY <1>3, <1>4

(* Marks on a pass leave it a pass.                                        *)
LEMMA MarkedPass ==
  ASSUME NEW f \in Pass, NEW l \in Lines
  PROVE  /\ [f EXCEPT !.sent = @ \cup {l}] \in Pass
         /\ [f EXCEPT !.refused = @ \cup {l}] \in Pass
         /\ [f EXCEPT !.sent = @ \cup {l}].sent = f.sent \cup {l}
         /\ [f EXCEPT !.sent = @ \cup {l}].pc = f.pc /\ [f EXCEPT !.sent = @ \cup {l}].todo = f.todo
         /\ [f EXCEPT !.refused = @ \cup {l}].sent = f.sent
         /\ [f EXCEPT !.refused = @ \cup {l}].pc = f.pc /\ [f EXCEPT !.refused = @ \cup {l}].todo = f.todo
  BY DEF Pass

(* What sending a line to the server does to the pass.                     *)
LEMMA SendIs ==
  ASSUME TypeInv, NEW l \in Lines, Acknowledge(l) \/ Refuse(l) \/ Lose(l)
  PROVE  /\ running /\ l = Head(flush.todo) /\ flush.pc = "send" /\ flush.todo # <<>>
         /\ flush' \in Pass /\ flush'.pc \in {"idle", "send", "merge"}
         /\ flush' = NoFlush \/ flush'.sent \subseteq flush.sent \cup {l}
         /\ flush' = NoFlush \/ Acknowledge(l) \/ flush'.sent \subseteq flush.sent
         /\ flush'.pc = "send" => flush'.todo = Tail(flush.todo) /\ flush'.todo # <<>> /\ ~ Lose(l)
<1>1. running /\ l = Head(flush.todo) /\ flush.pc = "send" /\ flush.todo # <<>> /\ flush \in Pass
  BY DEF Acknowledge, Refuse, Lose, Sending, TypeInv, Underway, TypeOK
<1> DEFINE f == [flush EXCEPT !.sent = @ \cup {l}]
           g == [flush EXCEPT !.refused = @ \cup {l}]
<1>2. /\ f \in Pass /\ f.pc = "send" /\ f.todo = flush.todo /\ f.sent = flush.sent \cup {l}
      /\ g \in Pass /\ g.pc = "send" /\ g.todo = flush.todo /\ g.sent = flush.sent
  BY <1>1, MarkedPass
<1>3. /\ Acknowledge(l) => flush' = AfterLine(f)
      /\ Refuse(l) => flush' = AfterLine(g)
      /\ Lose(l) => flush' = AfterLoop(flush)
  BY DEF Acknowledge, Refuse, Lose
<1> HIDE DEF f, g
<1>4. CASE Lose(l)
  BY <1>1, <1>3, <1>4, AfterLoopIs
<1>5. CASE Acknowledge(l) /\ ~ Lose(l)
  BY <1>1, <1>2, <1>3, <1>5, AfterLineIs
<1>6. CASE Refuse(l) /\ ~ Lose(l)
  BY <1>1, <1>2, <1>3, <1>6, AfterLineIs
<1> QED BY <1>4, <1>5, <1>6

(* A request that arrives leaves the server's rows well formed.            *)
LEMMA UpsertType ==
  ASSUME TypeOK, NEW l \in Lines, Upsert(l) \/ UNCHANGED <<rows, created>>
  PROVE  rows' \subseteq Lines /\ created' \in [Lines -> Nat]
  BY DEF Upsert, TypeOK

(* Mishaps stay within their bound.                                        *)
LEMMA MishapType ==
  ASSUME TypeOK, UNCHANGED serialised, Mishap \/ UNCHANGED mishaps
  PROVE  mishaps' \in 0 .. MaxMishaps[serialised']
<1>1. MaxMishaps[serialised] \in Nat
  BY ConstantsAssumption DEF TypeOK
<1> QED BY <1>1 DEF Mishap, TypeOK

(* An edit's steps.                                                        *)
LEMMA EditType ==
  ASSUME TypeInv, UNCHANGED serialised, NEW l \in Lines,
         \/ Capture(l) \/ Discard(l)
         \/ WriteEdit(l) \/ RenameEdit(l) \/ PublishEdit(l) \/ FailEdit(l)
  PROVE  TypeInv'
<1> USE DEF TypeInv, TypeOK, Underway
<1>1. edit[l] # None => edit[l] \in Edit /\ edit[l].queue \in Queue
  BY DEF Edit
<1>2. ASSUME NEW op \in {"capture", "discard"}, NEW queue \in Queue, BeginEdit(l, op, queue),
             stat' \in [Lines -> {"new", "captured", "discarded"}]
      PROVE  TypeInv'
  <2>1. [op |-> op, pc |-> "write", queue |-> queue] \in Edit
    BY DEF Edit
  <2> QED BY <1>2, <2>1 DEF BeginEdit, MayReadQueue, server
<1>3. CASE Capture(l)
  <2>1. Append(mem, l) \in Queue
    BY DEF Queue
  <2> QED BY <1>2, <1>3, <2>1 DEF Capture
<1>4. CASE Discard(l)
  <2>1. Without(mem, {l}) \in Queue
    BY WithoutKeeps
  <2> QED BY <1>2, <1>4, <2>1 DEF Discard
<1>5. CASE WriteEdit(l)
  <2>1. [edit[l] EXCEPT !.pc = "rename"] \in Edit
    BY <1>1, <1>5 DEF WriteEdit, Edit
  <2>2. edit' \in [Lines -> Edit \cup {None}] /\ tmp' \in Queue
    BY <1>1, <1>5, <2>1 DEF WriteEdit
  <2> QED BY <1>5, <2>2 DEF WriteEdit, server
<1>6. CASE RenameEdit(l)
  <2>1. [edit[l] EXCEPT !.pc = "publish"] \in Edit
    BY <1>1, <1>6 DEF RenameEdit, Edit
  <2>2. edit' \in [Lines -> Edit \cup {None}] /\ disk' \in Queue /\ tmp' = None
    BY <1>6, <2>1 DEF RenameEdit
  <2> QED BY <1>6, <2>2 DEF RenameEdit, server
<1>7. CASE PublishEdit(l)
  BY <1>1, <1>7 DEF PublishEdit, server
<1>8. CASE FailEdit(l)
  <2>1. mishaps' \in 0 .. MaxMishaps[serialised']
    BY <1>8, MishapType DEF FailEdit
  <2> QED BY <1>8, <2>1 DEF FailEdit, server
<1> QED BY <1>3, <1>4, <1>5, <1>6, <1>7, <1>8

(* A pass's steps.                                                         *)
LEMMA SendType ==
  ASSUME TypeInv, UNCHANGED serialised, NEW l \in Lines, Acknowledge(l) \/ Refuse(l) \/ Lose(l)
  PROVE  TypeInv'
<1>1. flush' \in Pass /\ running /\ (flush'.pc = "send" => flush'.todo # <<>>)
  BY SendIs
<1>2. UNCHANGED <<running, mem, disk, tmp, edit, stat, filed>>
  BY DEF Acknowledge, Refuse, Lose
<1>3. rows' \subseteq Lines /\ created' \in [Lines -> Nat]
  BY UpsertType DEF Acknowledge, Refuse, Lose, TypeInv
<1>4. mishaps' \in 0 .. MaxMishaps[serialised']
  BY MishapType DEF Acknowledge, Refuse, Lose, TypeInv
<1>5. late' \in [Lines -> Nat] /\ refused' \subseteq Lines
  BY DEF Acknowledge, Refuse, Lose, TypeInv, TypeOK
<1> QED BY <1>1, <1>2, <1>3, <1>4, <1>5 DEF TypeInv, TypeOK, Underway

(* Reconciling publishes at once, or begins to write what is left.         *)
LEMMA MergeIs ==
  ASSUME TypeInv, Merge
  PROVE  /\ flush \in Pass /\ flush' \in Pass /\ mem' \in Queue
         /\ \/ /\ flush.sent = {} /\ mem' = Without(mem, {}) /\ flush' = NoFlush
               /\ flush'.pc = "idle" /\ flush'.sent = {}
            \/ /\ flush' = [flush EXCEPT !.pc = "write", !.left = Without(mem, flush.sent)] /\ mem' = mem
               /\ flush'.pc = "write" /\ flush'.sent = flush.sent /\ flush'.left = Without(mem, flush.sent)
<1>1. PICK left \in Queue : left = Without(mem, flush.sent)
  BY WithoutKeeps DEF TypeInv, TypeOK
<1>2. IF flush.sent = {}
      THEN mem' = left /\ flush' = NoFlush
      ELSE flush' = [flush EXCEPT !.pc = "write", !.left = left] /\ UNCHANGED mem
  BY <1>1 DEF Merge
<1>3. flush \in Pass /\ mem \in Queue
  BY DEF TypeInv, TypeOK
<1>4. CASE flush.sent = {}
  BY <1>1, <1>2, <1>3, <1>4, NoFlushIs
<1>5. CASE flush.sent # {}
  <2>1. flush' = [flush EXCEPT !.pc = "write", !.left = left] /\ mem' = mem
    BY <1>2, <1>5
  <2>2. flush' \in Pass /\ flush'.pc = "write" /\ flush'.sent = flush.sent /\ flush'.left = left
    BY <1>1, <1>3, <2>1 DEF Pass
  <2> QED BY <1>1, <1>3, <2>1, <2>2
<1> QED BY <1>4, <1>5

(* The steps of a pass that follow its sending.                            *)
LEMMA FlushType ==
  ASSUME TypeInv, UNCHANGED serialised,
         StartFlush \/ Merge \/ WriteFlush \/ RenameFlush \/ FailFlushWrite \/ PublishFlush
  PROVE  TypeInv'
<1> USE DEF TypeInv, TypeOK, Underway
<1>1. Without(mem, flush.sent) \in Queue
  BY WithoutKeeps
<1>2. flush.left \in Queue
  BY DEF Pass
<1>3. CASE StartFlush
  <2>1. [NoFlush EXCEPT !.pc = "send", !.todo = mem] \in Pass
    BY NoFlushIs DEF Pass
  <2>2. flush' \in Pass /\ flush'.pc = "send" /\ flush'.todo # <<>>
    BY <1>3, <2>1, NoFlushIs DEF StartFlush, Pass
  <2> QED BY <1>3, <2>2 DEF StartFlush, server
<1>4. CASE Merge
  <2>1. flush' \in Pass /\ flush'.pc # "send" /\ mem' \in Queue
    BY <1>4, MergeIs
  <2> QED BY <1>4, <2>1 DEF Merge, server
<1>5. CASE WriteFlush
  BY <1>2, <1>5 DEF WriteFlush, Pass, server
<1>6. CASE RenameFlush
  BY <1>6 DEF RenameFlush, Pass, server
<1>7. CASE FailFlushWrite
  <2>1. mishaps' \in 0 .. MaxMishaps[serialised']
    BY <1>7, MishapType DEF FailFlushWrite
  <2> QED BY <1>7, <2>1 DEF FailFlushWrite, Pass, server
<1>8. CASE PublishFlush
  BY <1>2, <1>8, NoFlushIs DEF PublishFlush, server
<1> QED BY <1>3, <1>4, <1>5, <1>6, <1>7, <1>8

(* Every step keeps the types.                                             *)
LEMMA TypeStep ==
  ASSUME TypeInv, [Next]_vars
  PROVE  TypeInv'
<1>1. CASE UNCHANGED vars
  BY <1>1 DEF vars, world, client, server, TypeInv, TypeOK, Underway
<1>2. ASSUME UNCHANGED serialised, NEW l \in Lines, ArriveLate(l) PROVE TypeInv'
  <2>1. rows' \subseteq Lines /\ created' \in [Lines -> Nat]
    BY <1>2, UpsertType DEF ArriveLate, TypeInv
  <2>2. late' \in [Lines -> Nat]
    BY <1>2 DEF ArriveLate, TypeInv, TypeOK
  <2> QED BY <1>2, <2>1, <2>2 DEF ArriveLate, client, TypeInv, TypeOK, Underway
<1>3. ASSUME UNCHANGED serialised, NEW l \in Lines, RemoveRow(l) PROVE TypeInv'
  BY <1>3 DEF RemoveRow, client, TypeInv, TypeOK, Underway
<1>4. CASE UNCHANGED serialised /\ Crash
  <2>1. late' \in [Lines -> Nat]
    <3>1. flush.pc = "send" => Head(flush.todo) \in Lines
      BY DEF TypeInv, TypeOK, Underway, Pass, Queue
    <3> QED BY <1>4, <3>1 DEF Crash, TypeInv, TypeOK
  <2>2. mishaps' \in 0 .. MaxMishaps[serialised']
    BY <1>4, MishapType DEF Crash, TypeInv
  <2>3. flush' \in Pass /\ flush'.pc = "idle" /\ <<>> \in Queue
    BY <1>4, NoFlushIs DEF Crash, Queue
  <2> QED BY <1>4, <2>1, <2>2, <2>3 DEF Crash, TypeInv, TypeOK, Underway
<1>5. CASE UNCHANGED serialised /\ Restart
  BY <1>5 DEF Restart, server, TypeInv, TypeOK, Underway
<1> QED BY <1>1, <1>2, <1>3, <1>4, <1>5, EditType, SendType, FlushType DEF Next

(* They hold at first.                                                     *)
LEMMA TypeInit == Init => TypeInv
<1>1. <<>> \in Queue
  BY DEF Queue
<1>2. \A s \in BOOLEAN : MaxMishaps[s] \in Nat
  BY ConstantsAssumption
<1> QED BY <1>1, <1>2 DEF Init, NoFlush, Pass, TypeInv, TypeOK, Underway

(* The queue's variables keep their shapes.                                *)
THEOREM TypeCorrect == Spec => []TypeOK
<1>1. TypeInv /\ [Next]_vars => TypeInv'
  BY TypeStep
<1>2. TypeInv => TypeOK
  BY DEF TypeInv
<1> QED BY <1>1, <1>2, TypeInit, PTL DEF Spec

-----------------------------------------------------------------------------
(* A line has no row yet, or one row, or its row has left the sandbox; and *)
(* a row there is was created.                                             *)
TwinInv ==
  /\ \A l \in Lines : l \in filed \/ created[l] = 0 \/ (created[l] = 1 /\ l \in rows)
  /\ \A l \in rows : created[l] > 0

(* Only a request that arrives creates a row, and only the user removes it.*)
LEMMA ServerStep ==
  ASSUME [Next]_vars
  PROVE  \/ UNCHANGED <<rows, created, filed>>
         \/ \E l \in Lines : Upsert(l) /\ UNCHANGED filed
         \/ \E l \in Lines : RemoveRow(l)
<1>1. CASE UNCHANGED vars
  BY <1>1 DEF vars, world, server
<1>2. ASSUME NEW l \in Lines,
             \/ Capture(l) \/ Discard(l)
             \/ WriteEdit(l) \/ RenameEdit(l) \/ PublishEdit(l) \/ FailEdit(l)
      PROVE  UNCHANGED <<rows, created, filed>>
  BY <1>2 DEF Capture, Discard, BeginEdit, WriteEdit, RenameEdit, PublishEdit, FailEdit, server
<1>3. ASSUME NEW l \in Lines, Acknowledge(l) \/ Refuse(l) \/ Lose(l) \/ ArriveLate(l)
      PROVE  UNCHANGED filed /\ (Upsert(l) \/ UNCHANGED <<rows, created>>)
  BY <1>3 DEF Acknowledge, Refuse, Lose, ArriveLate
<1>4. CASE StartFlush \/ Merge \/ WriteFlush \/ RenameFlush \/ FailFlushWrite \/ PublishFlush
  BY <1>4 DEF StartFlush, Merge, WriteFlush, RenameFlush, FailFlushWrite, PublishFlush, server
<1>5. CASE Crash \/ Restart
  BY <1>5 DEF Crash, Restart, server
<1> QED BY <1>1, <1>2, <1>3, <1>4, <1>5 DEF Next

(* No step makes a second row of a line whose row is there.                *)
LEMMA TwinStep ==
  ASSUME TypeInv, TwinInv, [Next]_vars
  PROVE  TwinInv'
<1>1. CASE UNCHANGED <<rows, created, filed>>
  BY <1>1 DEF TwinInv
<1>2. ASSUME NEW l \in Lines, Upsert(l), UNCHANGED filed PROVE TwinInv'
  BY <1>2 DEF Upsert, TwinInv, TypeInv, TypeOK
<1>3. ASSUME NEW l \in Lines, RemoveRow(l) PROVE TwinInv'
  BY <1>3 DEF RemoveRow, TwinInv, TypeInv, TypeOK
<1> QED BY <1>1, <1>2, <1>3, ServerStep

(* The types and the state of a pass, of every reachable state.            *)
LEMMA Typed == Spec => []TypeInv
<1>1. TypeInv /\ [Next]_vars => TypeInv'
  BY TypeStep
<1> QED BY <1>1, TypeInit, PTL DEF Spec

-----------------------------------------------------------------------------
(* Where edits of the queue wait for each other, one method at most is     *)
(* between its reading and its publishing; what it will publish is the     *)
(* queue, less or more what it edits, and so is what it has written.       *)
Editing(l) == edit[l] # None
Writing == flush.pc \in {"write", "rename", "publish"}

Turn ==
  \A l \in Lines : Editing(l) => ~ Writing /\ \A k \in Lines : Editing(k) => k = l

EditOf(l) ==
  /\ edit[l].op = "capture" => stat[l] = "new" /\ edit[l].queue = Append(mem, l)
  /\ edit[l].op = "discard" =>
       stat[l] = "discarded" /\ Contains(mem, l) /\ edit[l].queue = Without(mem, {l})
  /\ edit[l].pc = "rename" => tmp \in {None, edit[l].queue}
  /\ edit[l].pc = "publish" => disk = edit[l].queue

FlushOf ==
  /\ flush.left = Without(mem, flush.sent)
  /\ flush.pc = "rename" => tmp \in {None, flush.left}

TurnInv ==
  Turn /\ (\A l \in Lines : Editing(l) => EditOf(l)) /\ (Writing => FlushOf)

(* A step that only moves an edit along.                                   *)
LEMMA EditStep ==
  ASSUME TypeInv, NEW l \in Lines, WriteEdit(l) \/ RenameEdit(l)
  PROVE  /\ edit[l] # None /\ edit[l] \in Edit /\ edit[l].queue \in Queue
         /\ WriteEdit(l) => edit[l].pc = "write" /\ edit'[l].pc = "rename"
         /\ RenameEdit(l) => edit[l].pc = "rename" /\ edit'[l].pc = "publish"
         /\ edit'[l].op = edit[l].op /\ edit'[l].queue = edit[l].queue
         /\ \A k \in Lines \ {l} : edit'[k] = edit[k]
<1>1. edit[l] # None /\ edit[l] \in Edit
  BY DEF WriteEdit, RenameEdit, TypeInv, TypeOK
<1>2. CASE WriteEdit(l)
  BY <1>1, <1>2 DEF WriteEdit, RenameEdit, Edit, TypeInv, TypeOK
<1>3. CASE RenameEdit(l)
  BY <1>1, <1>3 DEF WriteEdit, RenameEdit, Edit, TypeInv, TypeOK
<1> QED BY <1>2, <1>3

(* One that begins an edit: nobody else is writing.                        *)
LEMMA BeginStep ==
  ASSUME TypeInv, serialised, NEW l \in Lines, NEW op \in {"capture", "discard"}, NEW queue \in Queue,
         BeginEdit(l, op, queue)
  PROVE  /\ running /\ \A k \in Lines : edit[k] = None
         /\ flush.pc \notin {"write", "rename", "publish"}
         /\ edit'[l] = [op |-> op, pc |-> "write", queue |-> queue]
         /\ edit'[l].op = op /\ edit'[l].pc = "write" /\ edit'[l].queue = queue
         /\ \A k \in Lines \ {l} : edit'[k] = None
         /\ UNCHANGED <<running, mem, disk, tmp, flush, rows, created, late, filed, refused>>
<1>1. running /\ (\A k \in Lines : edit[k] = None) /\ flush.pc \notin {"write", "rename", "publish"}
  BY DEF BeginEdit, MayReadQueue, Quiet
<1>2. edit' = [edit EXCEPT ![l] = [op |-> op, pc |-> "write", queue |-> queue]]
      /\ UNCHANGED <<running, mem, disk, tmp, flush, rows, created, late, filed, refused>>
  BY DEF BeginEdit, server
<1> QED BY <1>1, <1>2 DEF TypeInv, TypeOK

(* The steps of an edit keep the turns.                                    *)
LEMMA TurnEdit ==
  ASSUME TypeInv, serialised, TurnInv, NEW l \in Lines,
         \/ Capture(l) \/ Discard(l)
         \/ WriteEdit(l) \/ RenameEdit(l) \/ PublishEdit(l) \/ FailEdit(l)
  PROVE  TurnInv'
<1> USE DEF TurnInv, Turn, Editing
<1>1. CASE Capture(l)
  <2>1. Append(mem, l) \in Queue
    BY DEF Queue, TypeInv, TypeOK
  <2>2. EditOf(l)' /\ (\A k \in Lines \ {l} : edit'[k] = None) /\ ~ Writing'
    BY <1>1, <2>1, BeginStep DEF Capture, EditOf, Writing
  <2> QED BY <2>2
<1>2. CASE Discard(l)
  <2>1. Without(mem, {l}) \in Queue
    BY WithoutKeeps DEF TypeInv, TypeOK
  <2>2. stat'[l] = "discarded"
    BY <1>2 DEF Discard, TypeInv, TypeOK
  <2>3. EditOf(l)' /\ (\A k \in Lines \ {l} : edit'[k] = None) /\ ~ Writing'
    BY <1>2, <2>1, <2>2, BeginStep DEF Discard, EditOf, Writing
  <2> QED BY <2>3
<1>3. ASSUME Editing(l) PROVE ~ Writing /\ (\A k \in Lines \ {l} : edit[k] = None) /\ EditOf(l)
  BY <1>3
<1>4. CASE WriteEdit(l)
  <2>1. EditOf(l)'
    BY <1>3, <1>4, EditStep DEF WriteEdit, EditOf
  <2>2. ~ Writing' /\ \A k \in Lines \ {l} : edit'[k] = None
    BY <1>3, <1>4, EditStep DEF WriteEdit, Writing
  <2> QED BY <2>1, <2>2
<1>5. CASE RenameEdit(l)
  <2>1. EditOf(l)'
    BY <1>3, <1>5, EditStep DEF RenameEdit, EditOf
  <2>2. ~ Writing' /\ \A k \in Lines \ {l} : edit'[k] = None
    BY <1>3, <1>5, EditStep DEF RenameEdit, Writing
  <2> QED BY <2>1, <2>2
<1>6. CASE PublishEdit(l) \/ FailEdit(l)
  <2>1. (\A k \in Lines : edit'[k] = None) /\ flush' = flush
    BY <1>3, <1>6 DEF PublishEdit, FailEdit, TypeInv, TypeOK
  <2>2. ~ Writing'
    BY <1>3, <1>6, <2>1 DEF PublishEdit, FailEdit, Writing
  <2> QED BY <2>1, <2>2
<1> QED BY <1>1, <1>2, <1>4, <1>5, <1>6

(* So do those of a pass.                                                  *)
LEMMA TurnFlush ==
  ASSUME TypeInv, serialised, TurnInv,
         StartFlush \/ Merge \/ WriteFlush \/ RenameFlush \/ FailFlushWrite \/ PublishFlush
  PROVE  TurnInv'
<1> USE DEF TurnInv, Turn, Editing
<1>1. edit' = edit /\ stat' = stat
  BY DEF StartFlush, Merge, WriteFlush, RenameFlush, FailFlushWrite, PublishFlush
<1>2. CASE StartFlush
  <2>1. ~ Writing'
    BY <1>2, NoFlushIs DEF StartFlush, Writing, Pass
  <2>2. UNCHANGED <<mem, disk, tmp>>
    BY <1>2 DEF StartFlush
  <2> QED BY <1>1, <2>1, <2>2 DEF EditOf
<1>3. CASE Merge
  <2>1. \A l \in Lines : edit'[l] = None
    BY <1>1, <1>3 DEF Merge, MayReadQueue, Quiet
  <2>2. Writing' => FlushOf'
    BY <1>3, MergeIs DEF Writing, FlushOf
  <2> QED BY <2>1, <2>2
<1>4. ASSUME Writing PROVE (\A l \in Lines : edit'[l] = None) /\ FlushOf
  BY <1>1, <1>4
<1>5. CASE WriteFlush
  <2>1. flush'.pc = "rename" /\ flush'.left = flush.left /\ flush'.sent = flush.sent
    BY <1>5 DEF WriteFlush, Pass, TypeInv, TypeOK
  <2> QED BY <1>4, <1>5, <2>1 DEF WriteFlush, Writing, FlushOf
<1>6. CASE RenameFlush \/ FailFlushWrite
  <2>1. flush'.pc = "publish" /\ flush'.left = flush.left /\ flush'.sent = flush.sent
    BY <1>6 DEF RenameFlush, FailFlushWrite, Pass, TypeInv, TypeOK
  <2> QED BY <1>4, <1>6, <2>1 DEF RenameFlush, FailFlushWrite, Writing, FlushOf
<1>7. CASE PublishFlush
  <2>1. ~ Writing'
    BY <1>7, NoFlushIs DEF PublishFlush, Writing
  <2> QED BY <1>4, <1>7, <2>1 DEF PublishFlush, Writing
<1> QED BY <1>2, <1>3, <1>5, <1>6, <1>7

(* And every other step.                                                   *)
LEMMA TurnStep ==
  ASSUME TypeInv, serialised, TurnInv, [Next]_vars
  PROVE  TurnInv'
<1> USE DEF TurnInv, Turn, Editing
<1>1. CASE UNCHANGED <<mem, disk, tmp, edit, flush, stat>>
  BY <1>1 DEF EditOf, FlushOf, Writing
<1>2. CASE UNCHANGED vars
  BY <1>1, <1>2 DEF vars, world, client
<1>3. ASSUME NEW l \in Lines, ArriveLate(l) \/ RemoveRow(l) PROVE TurnInv'
  BY <1>1, <1>3 DEF ArriveLate, RemoveRow, client
<1>4. ASSUME NEW l \in Lines, Acknowledge(l) \/ Refuse(l) \/ Lose(l) PROVE TurnInv'
  <2>1. UNCHANGED <<mem, disk, tmp, edit, stat>> /\ ~ Writing'
    BY <1>4, SendIs DEF Acknowledge, Refuse, Lose, Writing
  <2> QED BY <2>1 DEF EditOf
<1>5. CASE Crash
  <2>1. (\A l \in Lines : edit'[l] = None) /\ ~ Writing'
    BY <1>5, NoFlushIs DEF Crash, Writing
  <2> QED BY <2>1
<1>6. CASE Restart
  <2>1. (\A l \in Lines : edit'[l] = None) /\ flush' = NoFlush
    BY <1>6 DEF Restart, TypeInv, Underway
  <2>2. ~ Writing'
    BY <2>1, NoFlushIs DEF Writing
  <2> QED BY <2>1, <2>2
<1> QED BY <1>2, <1>3, <1>4, <1>5, <1>6, TurnEdit, TurnFlush DEF Next

-----------------------------------------------------------------------------
(* Lines that were sent, or may be on their way, and lines the server has  *)
(* answered for.                                                           *)
Sent == {l \in Lines : created[l] > 0 \/ late[l] > 0}
Covered == {l \in Lines : created[l] > 0 \/ l \in refused}

(* What has been created or refused stays so, and only the line at the     *)
(* head of the pass joins the lines sent.                                  *)
LEMMA UpsertGrows ==
  ASSUME TypeInv, TwinInv, NEW l \in Lines, Upsert(l)
  PROVE  created'[l] > 0 /\ \A k \in Lines : created'[k] >= created[k] /\ (k # l => created'[k] = created[k])
  BY DEF Upsert, TypeInv, TypeOK, TwinInv

(* A request of the pass creates its line, or is refused or lost.          *)
LEMMA SendGrows ==
  ASSUME TypeInv, TwinInv, NEW l \in Lines, Acknowledge(l) \/ Refuse(l) \/ Lose(l)
  PROVE  /\ \A k \in Lines : created[k] > 0 => created'[k] > 0
         /\ Covered \subseteq Covered' /\ Sent' \subseteq Sent \cup {l}
         /\ Acknowledge(l) => created'[l] > 0
         /\ ~ Lose(l) => l \in Covered'
<1>1. Upsert(l) \/ UNCHANGED <<rows, created>>
  BY DEF Acknowledge, Refuse, Lose
<1>2. \A k \in Lines : (created[k] > 0 => created'[k] > 0) /\ (k # l => created'[k] = created[k])
  BY <1>1, UpsertGrows DEF TypeInv, TypeOK
<1>3. refused \subseteq refused' /\ (Refuse(l) => l \in refused') /\ (Acknowledge(l) => created'[l] > 0)
  BY UpsertGrows DEF Acknowledge, Refuse, Lose
<1>4. \A k \in Lines : k # l => late'[k] = late[k]
  BY DEF Acknowledge, Refuse, Lose, TypeInv, TypeOK
<1> QED BY <1>2, <1>3, <1>4 DEF Sent, Covered

(* A late request adds nothing to what was sent.                           *)
LEMMA LateGrows ==
  ASSUME TypeInv, TwinInv, NEW l \in Lines, ArriveLate(l)
  PROVE  (\A k \in Lines : created[k] > 0 => created'[k] > 0) /\ Covered \subseteq Covered' /\ Sent' \subseteq Sent
<1>1. \A k \in Lines : created'[k] >= created[k] /\ (k # l => created'[k] = created[k])
  BY UpsertGrows DEF ArriveLate
<1>2. late[l] > 0 /\ refused' = refused /\ \A k \in Lines : k # l => late'[k] = late[k]
  BY DEF ArriveLate, TypeInv, TypeOK
<1>3. \A k \in Lines : created[k] > 0 => created'[k] > 0
  BY <1>1, TypeStep DEF TypeInv, TypeOK, ArriveLate, Upsert
<1> QED BY <1>1, <1>2, <1>3 DEF Sent, Covered

(* A line nobody has captured yet has left no trace; the file holds what   *)
(* the screen shows, but for lines that were created and for an edit that  *)
(* has yet to be published; no line captured is lost.                      *)
NewLine(l) ==
  /\ l \notin Sent /\ ~ Contains(mem, l)
  /\ flush.pc = "send" => ~ Contains(flush.todo, l)
  /\ Contains(disk, l) /\ running => Editing(l) /\ edit[l].pc = "publish"

SameFile ==
  running /\ (\A k \in Lines : Editing(k) => edit[k].pc # "publish") =>
    \A l \in Lines : created[l] = 0 => (Contains(disk, l) <=> Contains(mem, l))

LinesInv ==
  /\ \A l \in flush.sent : created[l] > 0
  /\ \A l \in Lines : stat[l] = "new" => NewLine(l)
  /\ SameFile
  /\ NeverDropped

(* The steps of an edit lose no line.                                      *)
LEMMA LinesEdit ==
  ASSUME TypeInv, serialised, TurnInv, LinesInv, NEW l \in Lines,
         \/ Capture(l) \/ Discard(l)
         \/ WriteEdit(l) \/ RenameEdit(l) \/ PublishEdit(l) \/ FailEdit(l)
  PROVE  LinesInv'
<1> USE DEF LinesInv, Editing
<1>1. UNCHANGED <<running, flush, created, late>> /\ Sent' = Sent
  BY DEF Capture, Discard, BeginEdit, WriteEdit, RenameEdit, PublishEdit, FailEdit, server, Sent
<1>2. CASE Capture(l) \/ Discard(l)
  <2>1. /\ \A k \in Lines : edit[k] = None
        /\ edit'[l].pc = "write" /\ (\A k \in Lines \ {l} : edit'[k] = None)
        /\ UNCHANGED <<mem, disk>>
    <3>1. Append(mem, l) \in Queue /\ Without(mem, {l}) \in Queue
      BY WithoutKeeps DEF Queue, TypeInv, TypeOK
    <3> QED BY <1>2, <3>1, BeginStep DEF Capture, Discard
  <2>2. \A k \in Lines : stat'[k] \in {"new", "captured"} => stat'[k] = stat[k]
    BY <1>2 DEF Capture, Discard, TypeInv, TypeOK
  <2>3. \A k \in Lines : stat'[k] = "new" => NewLine(k)'
    BY <1>1, <2>1, <2>2 DEF NewLine
  <2>4. SameFile'
    BY <1>1, <2>1 DEF SameFile
  <2>5. NeverDropped'
    BY <1>1, <2>1, <2>2 DEF NeverDropped
  <2> QED BY <1>1, <2>3, <2>4, <2>5
<1>3. ASSUME Editing(l) PROVE (\A k \in Lines \ {l} : edit[k] = None) /\ EditOf(l)
  BY <1>3 DEF TurnInv, Turn
<1>4. CASE WriteEdit(l)
  <2>1. /\ \A k \in Lines \ {l} : edit[k] = None /\ edit'[k] = None
        /\ edit[l].pc = "write" /\ edit'[l].pc = "rename"
        /\ UNCHANGED <<mem, disk, stat>>
    BY <1>3, <1>4, EditStep DEF WriteEdit
  <2>2. \A k \in Lines : stat'[k] = "new" => NewLine(k)'
    BY <1>1, <2>1 DEF NewLine
  <2>3. SameFile' /\ NeverDropped'
    BY <1>1, <2>1 DEF SameFile, NeverDropped
  <2> QED BY <1>1, <2>2, <2>3
<1>5. CASE RenameEdit(l)
  <2>1. /\ \A k \in Lines \ {l} : edit[k] = None
        /\ edit[l] # None /\ edit[l].pc = "rename" /\ edit'[l].pc = "publish"
        /\ disk' = edit[l].queue /\ UNCHANGED <<mem, stat>> /\ edit[l].op \in {"capture", "discard"}
    BY <1>3, <1>5, EditStep DEF RenameEdit, EditOf, Edit
  <2>2. edit'[l] # None
    BY <1>5, <2>1, NoneAssumption DEF RenameEdit, Edit, TypeInv, TypeOK
  <2>3. /\ edit[l].op = "capture" => disk' = Append(mem, l) /\ stat[l] = "new" /\ ~ Contains(mem, l)
        /\ edit[l].op = "discard" => disk' = Without(mem, {l}) /\ stat[l] = "discarded"
    BY <1>3, <2>1 DEF EditOf, NewLine
  <2>4. \A k \in Lines : k # l => (Contains(disk', k) <=> Contains(mem, k))
    <3>1. mem \in Queue
      BY DEF TypeInv, TypeOK
    <3>2. edit[l].op = "capture" => \A k : Contains(disk', k) <=> Contains(mem, k) \/ k = l
      BY <2>3, <3>1, OrderAppend
    <3>3. edit[l].op = "discard" => \A k : Contains(disk', k) <=> Contains(mem, k) /\ k \notin {l}
      BY <2>3, <3>1, WithoutKeeps
    <3> QED BY <2>1, <3>2, <3>3
  <2>5. edit[l].op = "capture" => Contains(disk', l)
    BY <2>3, OrderAppend DEF TypeInv, TypeOK
  <2>6. \A k \in Lines : created[k] = 0 => (Contains(disk, k) <=> Contains(mem, k)) \/ ~ running
    BY <2>1 DEF SameFile
  <2> QED
    <3>1. running
      BY <2>1 DEF TypeInv, Underway
    <3>2. \A k \in Lines : stat'[k] = "new" => NewLine(k)'
      BY <1>1, <2>1, <2>2, <2>4 DEF NewLine
    <3>3. SameFile'
      BY <2>1, <2>2 DEF SameFile
    <3>4. NeverDropped'
      BY <1>1, <2>1, <2>3, <2>4, <2>5, <2>6, <3>1 DEF NeverDropped, TypeInv, TypeOK
    <3> QED BY <1>1, <3>2, <3>3, <3>4
<1>6. CASE PublishEdit(l)
  <2>1. /\ \A k \in Lines : edit'[k] = None
        /\ \A k \in Lines \ {l} : edit[k] = None
        /\ disk = edit[l].queue /\ mem' = disk /\ disk' = disk
        /\ \A k \in Lines \ {l} : stat'[k] = stat[k]
        /\ edit[l].op \in {"capture", "discard"}
    BY <1>3, <1>6 DEF PublishEdit, EditOf, Edit, TypeInv, TypeOK
  <2>2. /\ edit[l].op = "capture" => Contains(disk, l) /\ stat'[l] = "captured"
        /\ edit[l].op = "discard" => stat'[l] = "discarded"
    <3>1. edit[l].op = "capture" => disk = Append(mem, l) /\ ~ Contains(mem, l)
      BY <1>3, <1>6, <2>1 DEF PublishEdit, EditOf, NewLine
    <3>2. edit[l].op = "capture" => Contains(disk, l)
      BY <3>1, OrderAppend DEF TypeInv, TypeOK
    <3> QED BY <1>3, <1>6, <3>2 DEF PublishEdit, EditOf, TypeInv, TypeOK
  <2>3. running
    BY <1>6 DEF PublishEdit, TypeInv, Underway
  <2>4. \A k \in Lines : stat'[k] = "new" => NewLine(k)'
    BY <1>1, <2>1, <2>2, <2>3 DEF NewLine
  <2>5. SameFile' /\ NeverDropped'
    BY <1>1, <2>1, <2>2 DEF SameFile, NeverDropped
  <2> QED BY <1>1, <2>4, <2>5
<1>7. CASE FailEdit(l)
  <2>1. /\ \A k \in Lines : edit'[k] = None
        /\ \A k \in Lines \ {l} : edit[k] = None
        /\ edit[l].pc # "publish" /\ UNCHANGED <<mem, disk>>
        /\ \A k \in Lines \ {l} : stat'[k] = stat[k]
    BY <1>3, <1>7 DEF FailEdit, TypeInv, TypeOK
  <2>2. running
    BY <1>7 DEF FailEdit, TypeInv, Underway
  <2>3. \/ stat'[l] = stat[l]
        \/ stat'[l] = "captured" /\ Contains(mem, l)
    BY <1>3, <1>7 DEF FailEdit, EditOf, TypeInv, TypeOK
  <2>4. Contains(mem, l) => Contains(disk, l) \/ created[l] > 0
    <3>1. created[l] = 0 => (Contains(disk, l) <=> Contains(mem, l))
      BY <2>1, <2>2 DEF SameFile
    <3> QED BY <3>1 DEF TypeInv, TypeOK
  <2>5. \A k \in Lines : stat'[k] = "new" => NewLine(k)'
    BY <1>1, <2>1, <2>3 DEF NewLine
  <2>6. SameFile'
    BY <1>1, <2>1 DEF SameFile
  <2>7. NeverDropped'
    BY <1>1, <2>1, <2>3, <2>4 DEF NeverDropped
  <2> QED BY <1>1, <2>5, <2>6, <2>7
<1> QED BY <1>2, <1>4, <1>5, <1>6, <1>7

(* Nor do those of a pass.                                                 *)
LEMMA LinesFlush ==
  ASSUME TypeInv, serialised, TurnInv, LinesInv,
         StartFlush \/ Merge \/ WriteFlush \/ RenameFlush \/ FailFlushWrite \/ PublishFlush
  PROVE  LinesInv'
<1> USE DEF LinesInv, Editing
<1>1. UNCHANGED <<running, edit, stat, created, late>> /\ Sent' = Sent /\ running
  BY DEF StartFlush, Merge, WriteFlush, RenameFlush, FailFlushWrite, PublishFlush, server, Sent
<1>2. ASSUME UNCHANGED disk, \A k \in Lines : Contains(mem', k) <=> Contains(mem, k),
             flush'.sent = {} \/ flush'.sent = flush.sent,
             flush'.pc # "send" \/ (flush'.todo = mem /\ UNCHANGED mem)
      PROVE  LinesInv'
  <2>1. \A k \in Lines : stat'[k] = "new" => NewLine(k)'
    BY <1>1, <1>2 DEF NewLine
  <2>2. SameFile' /\ NeverDropped'
    BY <1>1, <1>2 DEF SameFile, NeverDropped
  <2> QED BY <1>1, <1>2, <2>1, <2>2
<1>3. CASE StartFlush
  <2>1. flush'.pc = "send" /\ flush'.todo = mem /\ flush'.sent = {} /\ UNCHANGED <<mem, disk>>
    BY <1>3, NoFlushIs DEF StartFlush, Pass
  <2> QED BY <1>2, <2>1
<1>4. CASE Merge
  <2>1. /\ flush'.pc # "send" /\ flush'.sent \in {{}, flush.sent} /\ UNCHANGED disk
        /\ mem' = Without(mem, {}) \/ mem' = mem
    BY <1>4, MergeIs DEF Merge
  <2>2. \A k \in Lines : Contains(mem', k) <=> Contains(mem, k)
    BY <2>1, WithoutKeeps DEF TypeInv, TypeOK
  <2> QED BY <1>2, <2>1, <2>2
<1>5. CASE WriteFlush \/ FailFlushWrite
  <2>1. flush'.pc # "send" /\ flush'.sent = flush.sent /\ UNCHANGED <<mem, disk>>
    BY <1>5 DEF WriteFlush, FailFlushWrite, Pass, TypeInv, TypeOK
  <2> QED BY <1>2, <2>1
<1>6. ASSUME Writing
      PROVE  /\ flush.left = Without(mem, flush.sent) /\ \A k \in Lines : edit[k] = None
             /\ \A k \in Lines : stat[k] = "new" => ~ Contains(disk, k)
  BY <1>1, <1>6 DEF TurnInv, Turn, FlushOf, NewLine
<1>7. ASSUME Writing
      PROVE  \A k \in Lines : /\ Contains(flush.left, k) => Contains(mem, k)
                              /\ created[k] = 0 => (Contains(flush.left, k) <=> Contains(mem, k))
                              /\ created[k] = 0 => (Contains(disk, k) <=> Contains(mem, k))
  <2>1. \A k : Contains(flush.left, k) <=> Contains(mem, k) /\ k \notin flush.sent
    BY <1>6, <1>7, WithoutKeeps DEF TypeInv, TypeOK
  <2> QED BY <1>1, <1>6, <1>7, <2>1 DEF SameFile
<1>8. CASE RenameFlush
  <2>1. /\ Writing /\ disk' = flush.left /\ UNCHANGED mem
        /\ flush'.pc # "send" /\ flush'.sent = flush.sent
    BY <1>8 DEF RenameFlush, Pass, TypeInv, TypeOK, TurnInv, Writing, FlushOf
  <2>2. \A k \in Lines : stat'[k] = "new" => NewLine(k)'
    BY <1>1, <1>7, <2>1 DEF NewLine
  <2>3. SameFile' /\ NeverDropped'
    BY <1>1, <1>7, <2>1 DEF SameFile, NeverDropped, TypeInv, TypeOK
  <2> QED BY <1>1, <2>1, <2>2, <2>3
<1>9. CASE PublishFlush
  <2>1. /\ Writing /\ mem' = flush.left /\ UNCHANGED disk
        /\ flush'.pc # "send" /\ flush'.sent = {}
    BY <1>9, NoFlushIs DEF PublishFlush, Writing
  <2>2. \A k \in Lines : stat'[k] = "new" => NewLine(k)'
    BY <1>1, <1>6, <1>7, <2>1 DEF NewLine
  <2>3. SameFile' /\ NeverDropped'
    BY <1>1, <1>6, <1>7, <2>1 DEF SameFile, NeverDropped
  <2> QED BY <1>1, <2>1, <2>2, <2>3
<1> QED BY <1>3, <1>4, <1>5, <1>8, <1>9

(* The line a pass sends is one it had left to send.                       *)
LEMMA TailLess ==
  ASSUME NEW queue \in Queue, queue # <<>>
  PROVE  /\ Head(queue) \in Lines /\ Contains(queue, Head(queue))
         /\ \A l : Contains(Tail(queue), l) => Contains(queue, l)
<1>1. queue \in Seq(Lines) /\ Len(queue) \in Nat /\ Len(queue) > 0 /\ Len(Tail(queue)) = Len(queue) - 1
      /\ Head(queue) = queue[1] /\ \A i \in 1 .. Len(queue) - 1 : Tail(queue)[i] = queue[i + 1]
  BY DEF Queue
<1> QED BY <1>1 DEF Contains

(* A crash takes back a discard that had not changed the file.             *)
LEMMA CrashStat ==
  ASSUME Crash
  PROVE  \A l \in Lines :
           \/ stat'[l] = stat[l]
           \/ stat'[l] = "captured" /\ stat[l] = "discarded" /\ edit[l] # None /\ Contains(disk, l)
<1>1. stat' = [l \in Lines |->
                 IF edit[l] # None /\ stat[l] = "discarded" /\ Contains(disk, l) THEN "captured" ELSE stat[l]]
  BY DEF Crash
<1> QED BY <1>1

(* No step loses a line.                                                   *)
LEMMA LinesStep ==
  ASSUME TypeInv, TwinInv, serialised, TurnInv, LinesInv, [Next]_vars
  PROVE  LinesInv'
<1> USE DEF LinesInv, Editing
<1>1. CASE UNCHANGED vars
  BY <1>1 DEF vars, world, client, server, NewLine, SameFile, NeverDropped, Sent
<1>2. ASSUME UNCHANGED <<running, mem, disk, edit, stat>>, \A k \in Lines : created[k] > 0 => created'[k] > 0,
             \A k \in Lines : stat[k] = "new" => k \notin Sent',
             \A k \in flush'.sent : created'[k] > 0,
             flush'.pc = "send" => flush.pc = "send"
               /\ \A k \in Lines : Contains(flush'.todo, k) => Contains(flush.todo, k)
      PROVE  LinesInv'
  <2>1. \A k \in Lines : stat'[k] = "new" => NewLine(k)'
    BY <1>2 DEF NewLine
  <2>2. \A k \in Lines : created'[k] = 0 => created[k] = 0
    BY <1>2 DEF TypeInv, TypeOK
  <2>3. SameFile' /\ NeverDropped'
    BY <1>2, <2>2 DEF SameFile, NeverDropped
  <2> QED BY <1>2, <2>1, <2>3
<1>3. ASSUME NEW l \in Lines, ArriveLate(l) PROVE LinesInv'
  <2>1. UNCHANGED <<running, mem, disk, edit, stat, flush>>
    BY <1>3 DEF ArriveLate, client
  <2>2. /\ \A k \in Lines : created[k] > 0 => created'[k] > 0
        /\ \A k \in Lines : stat[k] = "new" => k \notin Sent'
    BY <1>3, LateGrows DEF NewLine
  <2>3. flush.sent \subseteq Lines
    BY DEF TypeInv, TypeOK, Pass
  <2> QED BY <1>2, <2>1, <2>2, <2>3
<1>4. ASSUME NEW l \in Lines, RemoveRow(l) PROVE LinesInv'
  BY <1>4 DEF RemoveRow, client, NewLine, SameFile, NeverDropped, Sent
<1>5. ASSUME NEW l \in Lines, Acknowledge(l) \/ Refuse(l) \/ Lose(l) PROVE LinesInv'
  <2>1. UNCHANGED <<running, mem, disk, edit, stat>>
    BY <1>5 DEF Acknowledge, Refuse, Lose
  <2>2. flush.sent \subseteq Lines /\ flush.todo \in Queue
    BY DEF TypeInv, TypeOK, Pass
  <2>3. /\ l = Head(flush.todo) /\ flush.pc = "send" /\ flush.todo # <<>>
        /\ flush' = NoFlush \/ flush'.sent \subseteq flush.sent \cup {l}
        /\ flush' = NoFlush \/ Acknowledge(l) \/ flush'.sent \subseteq flush.sent
        /\ flush'.pc = "send" => flush'.todo = Tail(flush.todo)
    BY <1>5, SendIs
  <2>4. Contains(flush.todo, l) /\ \A k : Contains(Tail(flush.todo), k) => Contains(flush.todo, k)
    BY <2>2, <2>3, TailLess
  <2>5. \A k \in Lines : created[k] > 0 => created'[k] > 0
    BY <1>5, SendGrows
  <2>6. \A k \in Lines : stat[k] = "new" => k \notin Sent'
    BY <1>5, <2>3, <2>4, SendGrows DEF NewLine
  <2>7. \A k \in flush'.sent : created'[k] > 0
    BY <1>5, <2>2, <2>3, <2>5, SendGrows, NoFlushIs
  <2> QED BY <1>2, <2>1, <2>3, <2>4, <2>5, <2>6, <2>7
<1>6. CASE Crash
  <2>1. /\ running' = FALSE /\ mem' = <<>> /\ UNCHANGED <<disk, created>>
        /\ flush' = NoFlush /\ \A k \in Lines : edit'[k] = None
    BY <1>6 DEF Crash
  <2>6. \A k \in Lines : \/ stat'[k] = stat[k]
                         \/ stat'[k] = "captured" /\ Contains(disk, k)
    BY <1>6, CrashStat
  <2>2. \A k \in Lines : stat[k] = "new" => k \notin Sent'
    <3>1. flush.pc = "send" => Head(flush.todo) \in Lines /\ Contains(flush.todo, Head(flush.todo))
      BY TailLess DEF TypeInv, Underway, TypeOK, Pass
    <3>2. \A k \in Lines : k \in Sent' => k \in Sent \/ (flush.pc = "send" /\ k = Head(flush.todo))
      BY <1>6, <2>1, <3>1 DEF Crash, Sent, TypeInv, TypeOK
    <3> QED BY <3>1, <3>2 DEF NewLine
  <2>3. ~ \E k : Contains(<<>>, k)
    BY DEF Contains
  <2>4. \A k \in Lines : stat'[k] = "new" => NewLine(k)'
    BY <2>1, <2>2, <2>3, <2>6, NoFlushIs DEF NewLine
  <2>5. SameFile' /\ NeverDropped'
    BY <2>1, <2>6 DEF SameFile, NeverDropped
  <2> QED BY <2>1, <2>4, <2>5, NoFlushIs
<1>7. CASE Restart
  <2>1. /\ mem' = disk /\ UNCHANGED <<disk, edit, flush, created, late>> /\ Sent' = Sent
        /\ flush.pc = "idle" /\ \A k \in Lines : edit'[k] = None
    BY <1>7, NoFlushIs DEF Restart, server, TypeInv, Underway, Sent
  <2>2. \A k \in Lines : /\ stat'[k] = "new" => stat[k] = "new" /\ ~ Contains(disk, k)
                         /\ stat'[k] = "captured" => stat[k] = "captured" \/ Contains(disk, k)
    BY <1>7 DEF Restart
  <2>3. \A k \in Lines : stat'[k] = "new" => NewLine(k)'
    BY <2>1, <2>2 DEF NewLine
  <2>4. SameFile' /\ NeverDropped'
    BY <2>1, <2>2 DEF SameFile, NeverDropped
  <2> QED BY <2>1, <2>3, <2>4
<1> QED BY <1>1, <1>3, <1>4, <1>5, <1>6, <1>7, LinesEdit, LinesFlush DEF Next

(* The invariants of the queue where edits of it wait for each other.      *)
QueueInv == TwinInv /\ (serialised => TurnInv /\ LinesInv)

(* Together they are kept by every step.                                   *)
LEMMA QueueStep ==
  ASSUME TypeInv, QueueInv, [Next]_vars
  PROVE  QueueInv'
<1>1. serialised' = serialised
  BY DEF Next, vars
<1> QED BY <1>1, TwinStep, TurnStep, LinesStep DEF QueueInv

(* And hold at first.                                                      *)
LEMMA QueueInit == Init => QueueInv
<1>1. ~ \E k : Contains(<<>>, k)
  BY DEF Contains
<1> QED
  BY <1>1, NoFlushIs
     DEF Init, QueueInv, TwinInv, TurnInv, Turn, Editing, Writing, LinesInv, NewLine, SameFile, NeverDropped, Sent

(* However often things go wrong, a line whose capture returned is in the  *)
(* file, or was created, or was thrown away.                               *)
THEOREM KeptCorrect == Spec => []Kept
<1>1. TypeInv /\ QueueInv /\ [Next]_vars => QueueInv'
  BY QueueStep
<1>2. QueueInv => Kept
  BY DEF QueueInv, LinesInv, Kept
<1> QED BY <1>1, <1>2, QueueInit, Typed, PTL DEF Spec

-----------------------------------------------------------------------------
(* A line that was thrown away, once nobody is throwing it away, is        *)
(* nowhere on the device.                                                  *)
Gone(l) == stat[l] = "discarded" /\ edit[l] = None

GoneInv == \A l \in Lines : Gone(l) => ~ Contains(mem, l) /\ ~ Contains(disk, l)

(* The steps of an edit bring back no other line, and its own only if the  *)
(* edit fails, and the line counts as kept.                                *)
LEMMA GoneEdit ==
  ASSUME TypeInv, serialised, TurnInv, GoneInv, NEW l \in Lines,
         \/ Capture(l) \/ Discard(l)
         \/ WriteEdit(l) \/ RenameEdit(l) \/ PublishEdit(l) \/ FailEdit(l)
  PROVE  GoneInv'
<1>1. CASE Capture(l) \/ Discard(l)
  <2>1. Append(mem, l) \in Queue /\ Without(mem, {l}) \in Queue
    BY WithoutKeeps DEF Queue, TypeInv, TypeOK
  <2>2. edit'[l] # None /\ UNCHANGED <<mem, disk>> /\ \A k \in Lines : edit[k] = None
    <3>1. \E op \in {"capture", "discard"}, queue \in Queue : BeginEdit(l, op, queue)
      BY <1>1, <2>1 DEF Capture, Discard
    <3>2. PICK op \in {"capture", "discard"}, queue \in Queue : BeginEdit(l, op, queue)
      BY <3>1
    <3>3. [op |-> op, pc |-> "write", queue |-> queue] \in Edit
      BY DEF Edit
    <3> QED BY <3>2, <3>3, BeginStep, NoneAssumption
  <2>3. \A k \in Lines \ {l} : stat'[k] = stat[k]
    BY <1>1 DEF Capture, Discard, TypeInv, TypeOK
  <2>4. \A k \in Lines : Gone(k)' => Gone(k)
    BY <2>2, <2>3 DEF Gone
  <2> QED BY <2>2, <2>4 DEF GoneInv
<1>2. ASSUME edit[l] # None
      PROVE  EditOf(l) /\ (\A k \in Lines \ {l} : edit[k] = None) /\ edit[l].op \in {"capture", "discard"}
  BY <1>2 DEF TurnInv, Turn, Editing, Edit, TypeInv, TypeOK
<1>3. CASE WriteEdit(l) \/ RenameEdit(l)
  <2>1. edit[l] # None /\ edit'[l].op = edit[l].op /\ edit'[l].queue = edit[l].queue
        /\ (\A k \in Lines \ {l} : edit'[k] = edit[k]) /\ UNCHANGED <<mem, stat>>
    BY <1>3, EditStep DEF WriteEdit, RenameEdit
  <2>2. edit'[l] # None
    BY <1>3, <2>1, NoneAssumption DEF WriteEdit, RenameEdit, Edit, TypeInv, TypeOK
  <2>3. \A k \in Lines : Gone(k)' => Gone(k) /\ k # l
    BY <2>1, <2>2 DEF Gone
  <2>4. disk' = disk \/ disk' = edit[l].queue
    BY <1>2, <1>3, <2>1 DEF WriteEdit, RenameEdit, EditOf
  <2>5. \A k \in Lines \ {l} : Contains(edit[l].queue, k) => Contains(mem, k)
    <3>1. CASE edit[l].op = "capture"
      <4>1. edit[l].queue = Append(mem, l) /\ mem \in Seq(Lines)
        BY <1>2, <2>1, <3>1 DEF EditOf, TypeInv, TypeOK, Queue
      <4>2. Len(mem) \in Nat /\ DOMAIN mem = 1 .. Len(mem) /\ DOMAIN edit[l].queue = 1 .. Len(mem) + 1
            /\ edit[l].queue[Len(mem) + 1] = l /\ \A i \in 1 .. Len(mem) : edit[l].queue[i] = mem[i]
        BY <4>1
      <4>3. \A i \in 1 .. Len(mem) + 1 : i \in 1 .. Len(mem) \/ i = Len(mem) + 1
        BY <4>2
      <4> QED BY <4>2, <4>3 DEF Contains
    <3>2. CASE edit[l].op = "discard"
      <4>1. edit[l].queue = Without(mem, {l}) /\ mem \in Queue
        BY <1>2, <2>1, <3>2 DEF EditOf, TypeInv, TypeOK
      <4> QED BY <4>1, WithoutKeeps
    <3> QED BY <1>2, <2>1, <3>1, <3>2
  <2> QED BY <2>1, <2>3, <2>4, <2>5 DEF GoneInv
<1>4. CASE PublishEdit(l)
  <2>1. /\ edit[l] # None /\ disk = edit[l].queue /\ mem' = disk /\ disk' = disk
        /\ \A k \in Lines \ {l} : edit[k] = None /\ stat'[k] = stat[k]
    BY <1>2, <1>4 DEF PublishEdit, EditOf, TypeInv, TypeOK
  <2>2. stat'[l] = "discarded" => edit[l].op = "discard"
    BY <1>2, <1>4 DEF PublishEdit, TypeInv, TypeOK
  <2>3. edit[l].op = "discard" => ~ Contains(disk, l)
    BY <1>2, <2>1, WithoutKeeps DEF EditOf, TypeInv, TypeOK
  <2>4. \A k \in Lines \ {l} : Gone(k)' => ~ Contains(disk, k)
    BY <2>1 DEF Gone, GoneInv
  <2> QED BY <2>1, <2>2, <2>3, <2>4 DEF Gone, GoneInv
<1>5. CASE FailEdit(l)
  <2>1. edit[l] # None /\ UNCHANGED <<mem, disk>> /\ \A k \in Lines \ {l} : edit[k] = None /\ stat'[k] = stat[k]
    BY <1>2, <1>5 DEF FailEdit, TypeInv, TypeOK
  <2>2. stat'[l] # "discarded"
    BY <1>2, <1>5, <2>1 DEF FailEdit, EditOf, TypeInv, TypeOK
  <2> QED BY <2>1, <2>2 DEF Gone, GoneInv
<1> QED BY <1>1, <1>3, <1>4, <1>5

(* Nor do those of a pass.                                                 *)
LEMMA GoneFlush ==
  ASSUME TypeInv, serialised, TurnInv, GoneInv,
         StartFlush \/ Merge \/ WriteFlush \/ RenameFlush \/ FailFlushWrite \/ PublishFlush
  PROVE  GoneInv'
<1>1. UNCHANGED <<edit, stat>>
  BY DEF StartFlush, Merge, WriteFlush, RenameFlush, FailFlushWrite, PublishFlush
<1>2. ASSUME Writing PROVE \A k : Contains(flush.left, k) => Contains(mem, k)
  BY <1>2, WithoutKeeps DEF TurnInv, FlushOf, TypeInv, TypeOK
<1>3. CASE StartFlush \/ WriteFlush \/ FailFlushWrite
  BY <1>1, <1>3 DEF StartFlush, WriteFlush, FailFlushWrite, Gone, GoneInv
<1>4. CASE Merge
  <2>1. UNCHANGED disk /\ (mem' = Without(mem, {}) \/ mem' = mem)
    BY <1>4, MergeIs DEF Merge
  <2>2. \A k : Contains(mem', k) => Contains(mem, k)
    BY <2>1, WithoutKeeps DEF TypeInv, TypeOK
  <2> QED BY <1>1, <2>1, <2>2 DEF Gone, GoneInv
<1>5. CASE RenameFlush
  <2>1. Writing /\ disk' = flush.left /\ UNCHANGED mem
    BY <1>5 DEF RenameFlush, TurnInv, Writing, FlushOf
  <2> QED BY <1>1, <1>2, <2>1 DEF Gone, GoneInv
<1>6. CASE PublishFlush
  <2>1. Writing /\ mem' = flush.left /\ UNCHANGED disk
    BY <1>6 DEF PublishFlush, Writing
  <2> QED BY <1>1, <1>2, <2>1 DEF Gone, GoneInv
<1> QED BY <1>3, <1>4, <1>5, <1>6

(* Nor does any other step, a crash and the next launch among them.        *)
LEMMA GoneStep ==
  ASSUME TypeInv, serialised, TurnInv, GoneInv, [Next]_vars
  PROVE  GoneInv'
<1>1. CASE UNCHANGED <<mem, disk, edit, stat>>
  BY <1>1 DEF Gone, GoneInv
<1>2. CASE UNCHANGED vars
  BY <1>1, <1>2 DEF vars, world, client
<1>3. ASSUME NEW l \in Lines,
             \/ ArriveLate(l) \/ RemoveRow(l)
             \/ Acknowledge(l) \/ Refuse(l) \/ Lose(l)
      PROVE  GoneInv'
  BY <1>1, <1>3 DEF ArriveLate, RemoveRow, Acknowledge, Refuse, Lose, client
<1>4. ~ \E k : Contains(<<>>, k)
  BY DEF Contains
<1>5. CASE Crash
  <2>1. mem' = <<>> /\ UNCHANGED disk
    BY <1>5 DEF Crash
  <2>2. ASSUME NEW k \in Lines, Gone(k)' PROVE ~ Contains(disk, k)
    <3>1. stat'[k] = "discarded" /\ stat[k] = "discarded"
      BY <1>5, <2>2, CrashStat DEF Gone
    <3>2. CASE edit[k] = None
      BY <3>1, <3>2 DEF Gone, GoneInv
    <3>3. CASE edit[k] # None
      <4>1. stat'[k] = IF edit[k] # None /\ stat[k] = "discarded" /\ Contains(disk, k) THEN "captured" ELSE stat[k]
        BY <1>5 DEF Crash
      <4> QED BY <3>1, <3>3, <4>1
    <3> QED BY <3>2, <3>3
  <2> QED BY <1>4, <2>1, <2>2 DEF GoneInv
<1>6. CASE Restart
  <2>1. mem' = disk /\ UNCHANGED <<disk, edit>>
    BY <1>6 DEF Restart
  <2>2. \A k \in Lines : stat'[k] = "discarded" => stat[k] = "discarded"
    BY <1>6 DEF Restart
  <2> QED BY <2>1, <2>2 DEF Gone, GoneInv
<1> QED BY <1>2, <1>3, <1>5, <1>6, GoneEdit, GoneFlush DEF Next

(* However passes, failures and crashes fall between the steps of a        *)
(* discard, a line whose discard returned does not come back.              *)
THEOREM GoneForGoodCorrect == Spec => []GoneForGood
<1>1. Init => (serialised => GoneInv)
  BY DEF Init, Gone, GoneInv
<1>2. [Next]_vars => serialised' = serialised
  BY DEF Next, vars
<1>3. TypeInv /\ QueueInv /\ (serialised => GoneInv) /\ [Next]_vars => (serialised => GoneInv)'
  BY <1>2, GoneStep DEF QueueInv
<1>4. (serialised => GoneInv) => GoneForGood
  BY DEF Gone, GoneInv, GoneForGood
<1>5. TypeInv /\ QueueInv /\ [Next]_vars => QueueInv'
  BY QueueStep
<1> QED BY <1>1, <1>3, <1>4, <1>5, QueueInit, Typed, PTL DEF Spec

-----------------------------------------------------------------------------
(* Where a line stands behind another in the file, it does so on the       *)
(* screen, and in what the pass has left to send, unless the server has    *)
(* answered for the other; so no line is sent ahead of an older one.       *)
OrderInv ==
  /\ Once(mem) /\ Once(disk)
  /\ Ordered(mem, Sent, Covered) /\ Ordered(disk, Sent, Covered)
  /\ running => Follows(disk, mem, Covered)
  /\ flush.pc = "send" => Follows(mem, flush.todo, Covered) /\ Follows(disk, flush.todo, Covered)

(* A queue without repetitions follows itself.                             *)
LEMMA FollowsItself ==
  ASSUME NEW queue, Once(queue), NEW covered
  PROVE  Follows(queue, queue, covered)
  BY DEF Once, Follows

(* Covering more changes nothing.                                          *)
LEMMA FollowsMore ==
  ASSUME NEW queue, NEW other, NEW covered, NEW more, covered \subseteq more, Follows(queue, other, covered)
  PROVE  Follows(queue, other, more)
  BY DEF Follows

(* Nor does sending the line at the head, once it is covered.              *)
LEMMA FollowsTail ==
  ASSUME NEW queue \in Queue, NEW todo \in Queue, todo # <<>>, NEW covered, NEW more,
         covered \subseteq more, Head(todo) \in more, Follows(queue, todo, covered)
  PROVE  Follows(queue, Tail(todo), more)
<1>1. todo \in Seq(Lines) /\ Len(todo) \in Nat /\ Len(todo) > 0 /\ Len(Tail(todo)) = Len(todo) - 1
      /\ Head(todo) = todo[1] /\ (\A i \in 1 .. Len(todo) - 1 : Tail(todo)[i] = todo[i + 1])
      /\ DOMAIN Tail(todo) = 1 .. Len(todo) - 1 /\ DOMAIN todo = 1 .. Len(todo)
  BY DEF Queue
<1> SUFFICES ASSUME NEW i \in DOMAIN queue, NEW k \in DOMAIN queue, NEW m \in DOMAIN Tail(todo),
                    i < k, queue[k] = Tail(todo)[m], queue[i] \notin more
             PROVE  \E j \in DOMAIN Tail(todo) : j < m /\ Tail(todo)[j] = queue[i]
  BY DEF Follows
<1>2. m + 1 \in 1 .. Len(todo) /\ queue[k] = todo[m + 1]
  BY <1>1
<1>3. PICK j \in 1 .. Len(todo) : j < m + 1 /\ todo[j] = queue[i]
  BY <1>1, <1>2 DEF Follows
<1>4. j # 1
  BY <1>1, <1>3
<1>5. j - 1 \in 1 .. Len(todo) - 1 /\ j - 1 < m /\ todo[(j - 1) + 1] = queue[i]
  BY <1>1, <1>3, <1>4
<1> QED BY <1>1, <1>5

(* A line at the head is sent with all before it covered.                  *)
LEMMA OrderedSends ==
  ASSUME NEW queue \in Queue, NEW todo \in Queue, todo # <<>>, NEW covered, NEW more, NEW sent, NEW sends,
         covered \subseteq more, sends \subseteq sent \cup {Head(todo)},
         Ordered(queue, sent, covered), Follows(queue, todo, covered)
  PROVE  Ordered(queue, sends, more)
<1>1. Len(todo) \in Nat /\ Len(todo) > 0 /\ Head(todo) = todo[1] /\ DOMAIN todo = 1 .. Len(todo)
  BY DEF Queue
<1> SUFFICES ASSUME NEW i \in DOMAIN queue, NEW k \in DOMAIN queue, i < k, queue[k] = Head(todo)
             PROVE  queue[i] \in covered
  BY DEF Ordered
<1> QED BY <1>1 DEF Follows

(* Covering more, or sending less, keeps the order.                        *)
LEMMA OrderedMore ==
  ASSUME NEW queue, NEW sent, NEW covered, NEW sends, NEW more,
         sends \subseteq sent, covered \subseteq more, Ordered(queue, sent, covered)
  PROVE  Ordered(queue, sends, more)
  BY DEF Ordered

(* The steps of an edit keep the order.                                    *)
LEMMA OrderEdit ==
  ASSUME TypeInv, serialised, TurnInv, LinesInv, OrderInv, NEW l \in Lines,
         \/ Capture(l) \/ Discard(l)
         \/ WriteEdit(l) \/ RenameEdit(l) \/ PublishEdit(l) \/ FailEdit(l)
  PROVE  OrderInv'
<1> USE DEF OrderInv
<1>1. UNCHANGED <<running, flush>> /\ Sent' = Sent /\ Covered' = Covered
  BY DEF Capture, Discard, BeginEdit, WriteEdit, RenameEdit, PublishEdit, FailEdit, server, Sent, Covered
<1>2. CASE Capture(l) \/ Discard(l) \/ WriteEdit(l) \/ FailEdit(l)
  <2>1. UNCHANGED <<mem, disk>>
    BY <1>2 DEF Capture, Discard, BeginEdit, WriteEdit, FailEdit
  <2> QED BY <1>1, <2>1
<1>3. mem \in Queue /\ flush.todo \in Queue
  BY DEF TypeInv, TypeOK, Pass
<1>4. ASSUME UNCHANGED mem, Once(disk'), Ordered(disk', Sent, Covered), Follows(disk', mem, Covered),
             flush.pc = "send" => Follows(disk', flush.todo, Covered)
      PROVE  OrderInv'
  BY <1>1, <1>4
<1>5. Follows(mem, mem, Covered)
  BY FollowsItself
<1>6. CASE RenameEdit(l)
  <2>1. /\ edit[l] # None /\ disk' = edit[l].queue /\ UNCHANGED mem
        /\ edit[l].op \in {"capture", "discard"} /\ EditOf(l)
    BY <1>6, EditStep DEF RenameEdit, EditOf, Edit, TurnInv, Editing
  <2>2. CASE edit[l].op = "capture"
    <3>1. disk' = Append(mem, l) /\ NewLine(l)
      BY <2>1, <2>2 DEF EditOf, LinesInv
    <3>2. l \notin Sent /\ ~ Contains(mem, l) /\ (flush.pc = "send" => ~ Contains(flush.todo, l))
      BY <3>1 DEF NewLine
    <3>3. /\ \A m \in DOMAIN mem : mem[m] # l
          /\ flush.pc = "send" => \A m \in DOMAIN flush.todo : flush.todo[m] # l
      BY <1>3, <3>2 DEF Contains, Queue
    <3>4. /\ Once(mem) => Once(disk')
          /\ Ordered(mem, Sent, Covered) => Ordered(disk', Sent, Covered)
          /\ \A other, covered : Follows(mem, other, covered) /\ (\A m \in DOMAIN other : other[m] # l)
               => Follows(disk', other, covered)
      BY <1>3, <3>1, <3>2, OrderAppend
    <3> QED BY <1>4, <1>5, <2>1, <3>3, <3>4
  <2>3. CASE edit[l].op = "discard"
    <3>1. disk' = Without(mem, {l})
      BY <2>1, <2>3 DEF EditOf
    <3>2. /\ Once(disk')
          /\ Ordered(mem, Sent, Covered) => Ordered(disk', Sent, Covered)
          /\ \A other : Follows(mem, other, Covered) => Follows(disk', other, Covered)
      BY <1>3, <3>1, WithoutKeeps, OrderWithout
    <3> QED BY <1>4, <1>5, <2>1, <3>2
  <2> QED BY <2>1, <2>2, <2>3
<1>7. CASE PublishEdit(l)
  <2>1. mem' = disk /\ disk' = disk
    BY <1>7 DEF PublishEdit, TurnInv, Editing, EditOf
  <2>2. Follows(disk, disk, Covered)
    BY FollowsItself
  <2> QED BY <1>1, <2>1, <2>2
<1> QED BY <1>2, <1>6, <1>7

(* So do those of a pass.                                                  *)
LEMMA OrderFlush ==
  ASSUME TypeInv, serialised, TurnInv, LinesInv, OrderInv,
         StartFlush \/ Merge \/ WriteFlush \/ RenameFlush \/ FailFlushWrite \/ PublishFlush
  PROVE  OrderInv'
<1> USE DEF OrderInv
<1>1. running /\ UNCHANGED running /\ Sent' = Sent /\ Covered' = Covered
  BY DEF StartFlush, Merge, WriteFlush, RenameFlush, FailFlushWrite, PublishFlush, server, Sent, Covered
<1>2. Follows(mem, mem, Covered)
  BY FollowsItself
<1>3. mem \in Queue /\ disk \in Queue /\ flush.sent \subseteq Lines
  BY DEF TypeInv, TypeOK, Pass
<1>4. CASE StartFlush
  <2>1. flush'.todo = mem /\ UNCHANGED <<mem, disk>>
    BY <1>4, NoFlushIs DEF StartFlush, Pass
  <2> QED BY <1>1, <1>2, <2>1
<1>5. ASSUME NEW lines, mem' = Without(mem, lines), UNCHANGED disk, Lines \cap lines \subseteq Covered,
             flush'.pc # "send"
      PROVE  OrderInv'
  <2>1. Once(mem') /\ Ordered(mem', Sent, Covered)
    BY <1>3, <1>5, WithoutKeeps, OrderWithout
  <2>2. Follows(disk, mem', Covered)
    BY <1>1, <1>3, <1>5, FollowsWithout
  <2> QED BY <1>1, <1>5, <2>1, <2>2
<1>6. CASE Merge
  <2>1. flush'.pc # "send" /\ UNCHANGED disk /\ (mem' = Without(mem, {}) \/ mem' = mem)
    BY <1>6, MergeIs DEF Merge
  <2>2. CASE mem' = Without(mem, {})
    BY <1>5, <2>1, <2>2
  <2>3. CASE mem' = mem
    BY <1>1, <2>1, <2>3
  <2> QED BY <2>1, <2>2, <2>3
<1>7. CASE WriteFlush \/ FailFlushWrite
  <2>1. flush'.pc # "send" /\ UNCHANGED <<mem, disk>>
    BY <1>7 DEF WriteFlush, FailFlushWrite, Pass, TypeInv, TypeOK
  <2> QED BY <1>1, <2>1
<1>8. CASE RenameFlush
  <2>1. disk' = Without(mem, flush.sent) /\ UNCHANGED mem /\ flush'.pc # "send"
    BY <1>8 DEF RenameFlush, Pass, TypeInv, TypeOK, TurnInv, Writing, FlushOf
  <2>2. Once(disk') /\ Ordered(disk', Sent, Covered) /\ Follows(disk', mem, Covered)
    BY <1>2, <1>3, <2>1, WithoutKeeps, OrderWithout
  <2> QED BY <1>1, <2>1, <2>2
<1>9. CASE PublishFlush
  <2>1. mem' = Without(mem, flush.sent) /\ UNCHANGED disk /\ flush'.pc # "send"
    BY <1>9, NoFlushIs DEF PublishFlush, TurnInv, Writing, FlushOf
  <2>2. flush.sent \subseteq Covered
    BY <1>3 DEF LinesInv, Covered
  <2> QED BY <1>5, <2>1, <2>2
<1> QED BY <1>4, <1>6, <1>7, <1>8, <1>9

(* And every other step.                                                   *)
LEMMA OrderStep ==
  ASSUME TypeInv, TwinInv, serialised, TurnInv, LinesInv, OrderInv, [Next]_vars
  PROVE  OrderInv'
<1> USE DEF OrderInv
<1>1. mem \in Queue /\ disk \in Queue /\ flush.todo \in Queue
  BY DEF TypeInv, TypeOK, Pass
<1>2. CASE UNCHANGED vars
  BY <1>2 DEF vars, world, client, server, Sent, Covered
<1>3. ASSUME NEW l \in Lines, ArriveLate(l) PROVE OrderInv'
  <2>1. UNCHANGED <<running, mem, disk, flush>> /\ Sent' \subseteq Sent /\ Covered \subseteq Covered'
    BY <1>3, LateGrows DEF ArriveLate, client
  <2> QED BY <2>1, OrderedMore, FollowsMore
<1>4. ASSUME NEW l \in Lines, RemoveRow(l) PROVE OrderInv'
  BY <1>4 DEF RemoveRow, client, Sent, Covered
<1>5. ASSUME NEW l \in Lines, Acknowledge(l) \/ Refuse(l) \/ Lose(l) PROVE OrderInv'
  <2>1. UNCHANGED <<running, mem, disk>>
    BY <1>5 DEF Acknowledge, Refuse, Lose
  <2>2. /\ l = Head(flush.todo) /\ flush.pc = "send" /\ flush.todo # <<>>
        /\ flush'.pc = "send" => flush'.todo = Tail(flush.todo) /\ ~ Lose(l)
    BY <1>5, SendIs
  <2>3. Covered \subseteq Covered' /\ Sent' \subseteq Sent \cup {l} /\ (~ Lose(l) => l \in Covered')
    BY <1>5, SendGrows
  <2>4. Ordered(mem, Sent', Covered') /\ Ordered(disk, Sent', Covered')
    BY <1>1, <2>2, <2>3, OrderedSends
  <2>5. running => Follows(disk, mem, Covered')
    BY <2>3, FollowsMore
  <2>6. ~ Lose(l) => /\ Follows(mem, Tail(flush.todo), Covered')
                     /\ Follows(disk, Tail(flush.todo), Covered')
    BY <1>1, <2>2, <2>3, FollowsTail
  <2> QED BY <2>1, <2>2, <2>4, <2>5, <2>6
<1>6. CASE Crash
  <2>1. /\ running' = FALSE /\ mem' = <<>> /\ disk' = disk /\ flush'.pc # "send" /\ Covered' = Covered
        /\ UNCHANGED created
    BY <1>6, NoFlushIs DEF Crash, Covered
  <2>2. Once(<<>>) /\ Ordered(<<>>, Sent', Covered')
    BY DEF Once, Ordered
  <2>3. Ordered(disk, Sent', Covered)
    <3>1. CASE flush.pc = "send"
      <4>1. flush.todo # <<>>
        BY <3>1 DEF TypeInv, Underway
      <4>2. Head(flush.todo) \in Lines
        BY <1>1, <4>1, TailLess
      <4>3. Sent' \subseteq Sent \cup {Head(flush.todo)}
        BY <1>6, <2>1, <4>2 DEF Crash, Sent, TypeInv, TypeOK
      <4> QED BY <1>1, <3>1, <4>1, <4>3, OrderedSends
    <3>2. CASE flush.pc # "send"
      BY <1>6, <2>1, <3>2 DEF Crash, Sent
    <3> QED BY <3>1, <3>2
  <2> QED BY <2>1, <2>2, <2>3
<1>7. CASE Restart
  <2>1. /\ mem' = disk /\ disk' = disk /\ flush'.pc # "send" /\ Sent' = Sent /\ Covered' = Covered
    BY <1>7, NoFlushIs DEF Restart, server, TypeInv, Underway, Sent, Covered
  <2> QED BY <2>1, FollowsItself
<1> QED BY <1>2, <1>3, <1>4, <1>5, <1>6, <1>7, OrderEdit, OrderFlush DEF Next

DrainInv == QueueInv /\ (serialised => OrderInv)

(* Where edits wait for each other, a line overtakes only refused ones.    *)
THEOREM OldestFirstCorrect == Spec => []OldestFirst
<1>1. Init => DrainInv
  BY QueueInit, NoFlushIs DEF Init, DrainInv, OrderInv, Once, Ordered, Follows
<1>2. TypeInv /\ DrainInv /\ [Next]_vars => DrainInv'
  <2>1. [Next]_vars => serialised' = serialised
    BY DEF Next, vars
  <2> QED BY <2>1, QueueStep, OrderStep DEF DrainInv, QueueInv
<1>3. TypeInv /\ DrainInv => OldestFirst
  BY DEF DrainInv, OrderInv, Ordered, OldestFirst, Sent, Covered, TypeInv, TypeOK, Queue
<1> QED BY <1>1, <1>2, <1>3, Typed, PTL DEF Spec

-----------------------------------------------------------------------------
(* Where a line is.                                                        *)
PlaceRight ==
  /\ Place = [l \in Lines |-> Place[l]]
  /\ \A l \in Lines :
       /\ created[l] > 0 => Place[l] = "server"
       /\ created[l] = 0 /\ Contains(disk, l) => Place[l] = "device"
       /\ created[l] = 0 /\ ~ Contains(disk, l) =>
            Place[l] = IF stat[l] = "discarded" THEN "dropped" ELSE "nowhere"

(* What Place says of a line, by cases.                                    *)
LEMMA PlaceIs == TypeInv => PlaceRight
  BY DEF PlaceRight, Place, TypeInv, TypeOK

(* The same after a step.                                                  *)
LEMMA PlaceIsThen == TypeInv' => PlaceRight'
  BY PlaceIs, PTL

(* If no line has moved, the places are unchanged.                         *)
LEMMA NobodyMoves ==
  ASSUME PlaceRight, PlaceRight', \A l \in Lines : Place'[l] = Place[l]
  PROVE  UNCHANGED Place
  BY DEF PlaceRight

(* If one line has moved as promised, the promise takes a step.            *)
LEMMA OneMoves ==
  ASSUME PlaceRight, PlaceRight', NEW l \in Lines, \A k \in Lines \ {l} : Place'[k] = Place[k],
         <<Place[l], Place'[l]>> \in {<<"nowhere", "device">>, <<"device", "server">>,
                                      <<"device", "dropped">>, <<"dropped", "server">>}
  PROVE  Promise!Next
<1>1. Place' = [Place EXCEPT ![l] = Place'[l]]
  BY DEF PlaceRight
<1>2. \/ Place[l] = "nowhere" /\ Place'[l] = "device"
      \/ Place[l] = "device" /\ Place'[l] = "server"
      \/ Place[l] = "device" /\ Place'[l] = "dropped"
      \/ Place[l] = "dropped" /\ Place'[l] = "server"
  OBVIOUS
<1>3. \/ Promise!WriteDown(l) \/ Promise!Arrive(l) \/ Promise!Drop(l) \/ Promise!ArriveAnyway(l)
  BY <1>1, <1>2 DEF Promise!WriteDown, Promise!Arrive, Promise!Drop, Promise!ArriveAnyway, Promise!Goes
<1> QED BY <1>3 DEF Promise!Next

(* A line moves when the file or the server's rows change, and otherwise   *)
(* stays, whatever the user is told of it.                                 *)
LEMMA PlacesKept ==
  ASSUME TypeInv, TypeInv', UNCHANGED created,
         \A l \in Lines : created[l] = 0 => (Contains(disk', l) <=> Contains(disk, l)),
         \A l \in Lines : created[l] = 0 /\ ~ Contains(disk, l) => (stat'[l] = "discarded" <=> stat[l] = "discarded")
  PROVE  UNCHANGED Place
<1>1. PlaceRight /\ PlaceRight'
  BY PlaceIs, PlaceIsThen
<1>2. \A l \in Lines : created[l] > 0 \/ created[l] = 0
  BY DEF TypeInv, TypeOK
<1>3. \A l \in Lines : Place'[l] = Place[l]
  BY <1>1, <1>2 DEF PlaceRight
<1> QED BY <1>1, <1>3, NobodyMoves

(* A row that is created is that of a line on the device, or of one thrown *)
(* away while a request for it was under way.                              *)
LEMMA PlaceCreated ==
  ASSUME TypeInv, TypeInv', LinesInv, NEW l \in Lines, stat[l] # "new",
         UNCHANGED <<disk, stat>>, Upsert(l) \/ UNCHANGED <<rows, created>>
  PROVE  Promise!Next \/ UNCHANGED Place
<1>1. PlaceRight /\ PlaceRight'
  BY PlaceIs, PlaceIsThen
<1>2. \A k \in Lines \ {l} : created'[k] = created[k]
  BY DEF Upsert, TypeInv, TypeOK
<1>3. \A k \in Lines : (created[k] > 0 \/ created[k] = 0) /\ (created'[k] > 0 \/ created'[k] = 0)
  BY DEF TypeInv, TypeOK
<1>4. \A k \in Lines \ {l} : Place'[k] = Place[k]
  BY <1>1, <1>2, <1>3 DEF PlaceRight
<1>5. created[l] > 0 => created'[l] > 0
  BY DEF Upsert, TypeInv, TypeOK
<1>6. CASE created[l] > 0 \/ created'[l] = 0
  <2>1. Place'[l] = Place[l]
    BY <1>1, <1>3, <1>5, <1>6 DEF PlaceRight
  <2> QED BY <1>1, <1>4, <2>1, NobodyMoves
<1>7. CASE created[l] = 0 /\ created'[l] > 0
  <2>1. Place'[l] = "server"
    BY <1>1, <1>7 DEF PlaceRight
  <2>2. Contains(disk, l) \/ stat[l] = "discarded"
    BY <1>7 DEF LinesInv, NeverDropped, TypeInv, TypeOK
  <2>3. Place[l] \in {"device", "dropped"}
    BY <1>1, <1>7, <2>2 DEF PlaceRight
  <2> QED BY <1>1, <1>4, <2>1, <2>3, OneMoves
<1> QED BY <1>3, <1>6, <1>7

(* An edit moves its own line at most.                                     *)
LEMMA PlaceEdit ==
  ASSUME TypeInv, TypeInv', serialised, TurnInv, LinesInv, NEW l \in Lines,
         \/ Capture(l) \/ Discard(l)
         \/ WriteEdit(l) \/ RenameEdit(l) \/ PublishEdit(l) \/ FailEdit(l)
  PROVE  Promise!Next \/ UNCHANGED Place
<1>1. UNCHANGED created
  BY DEF Capture, Discard, BeginEdit, WriteEdit, RenameEdit, PublishEdit, FailEdit, server
<1>2. CASE Capture(l) \/ WriteEdit(l)
  <2>1. UNCHANGED <<disk, stat>>
    BY <1>2 DEF Capture, BeginEdit, WriteEdit
  <2> QED BY <1>1, <2>1, PlacesKept
<1>6. CASE FailEdit(l)
  <2>1. UNCHANGED disk /\ \A k \in Lines \ {l} : stat'[k] = stat[k]
    BY <1>6 DEF FailEdit, TypeInv, TypeOK
  <2>2. stat'[l] = stat[l] \/ Contains(mem, l)
    BY <1>6 DEF FailEdit, TurnInv, Editing, EditOf, TypeInv, TypeOK
  <2>3. running /\ \A k \in Lines : edit[k] # None => edit[k].pc # "publish"
    BY <1>6 DEF FailEdit, TypeInv, Underway, TurnInv, Turn, Editing
  <2>4. created[l] = 0 => (Contains(disk, l) <=> Contains(mem, l))
    BY <2>3 DEF LinesInv, SameFile, Editing
  <2> QED BY <1>1, <2>1, <2>2, <2>4, PlacesKept
<1>3. CASE Discard(l)
  <2>1. Without(mem, {l}) \in Queue
    BY WithoutKeeps DEF TypeInv, TypeOK
  <2>2. running /\ (\A k \in Lines : edit[k] = None) /\ UNCHANGED disk
    BY <1>3, <2>1, BeginStep DEF Discard
  <2>3. created[l] = 0 => Contains(disk, l)
    BY <1>3, <2>2 DEF Discard, LinesInv, SameFile, Editing
  <2>4. \A k \in Lines : k # l => stat'[k] = stat[k]
    BY <1>3 DEF Discard, TypeInv, TypeOK
  <2> QED BY <1>1, <2>2, <2>3, <2>4, PlacesKept
<1>4. CASE RenameEdit(l)
  <2>1. /\ edit[l] # None /\ edit[l].pc = "rename" /\ disk' = edit[l].queue /\ UNCHANGED <<mem, stat>>
        /\ edit[l].op \in {"capture", "discard"} /\ EditOf(l) /\ running
        /\ \A k \in Lines \ {l} : edit[k] = None
    BY <1>4, EditStep DEF RenameEdit, EditOf, Edit, TurnInv, Turn, Editing, TypeInv, Underway
  <2>2. \A k \in Lines : created[k] = 0 => (Contains(disk, k) <=> Contains(mem, k))
    BY <2>1 DEF LinesInv, SameFile, Editing
  <2>3. PlaceRight /\ PlaceRight'
    BY PlaceIs, PlaceIsThen
  <2>4. \A k \in Lines : created[k] > 0 \/ created[k] = 0
    BY DEF TypeInv, TypeOK
  <2>5. mem \in Queue
    BY DEF TypeInv, TypeOK
  <2>6. CASE edit[l].op = "capture"
    <3>1. disk' = Append(mem, l) /\ stat[l] = "new" /\ NewLine(l)
      BY <2>1, <2>6 DEF EditOf, LinesInv
    <3>2. l \notin Sent /\ ~ Contains(mem, l)
      BY <3>1 DEF NewLine
    <3>3. \A k \in Lines : Contains(disk', k) <=> Contains(mem, k) \/ k = l
      BY <2>5, <3>1, <3>2, OrderAppend
    <3>4. created[l] = 0
      BY <2>4, <3>2 DEF Sent
    <3>5. \A k \in Lines \ {l} : Place'[k] = Place[k]
      BY <1>1, <2>1, <2>2, <2>3, <2>4, <3>3 DEF PlaceRight
    <3>6. Place[l] = "nowhere" /\ Place'[l] = "device"
      BY <1>1, <2>1, <2>2, <2>3, <3>1, <3>2, <3>3, <3>4 DEF PlaceRight
    <3> QED BY <2>3, <3>5, <3>6, OneMoves
  <2>7. CASE edit[l].op = "discard"
    <3>1. disk' = Without(mem, {l}) /\ stat[l] = "discarded"
      BY <2>1, <2>7 DEF EditOf
    <3>2. \A k \in Lines : Contains(disk', k) <=> Contains(mem, k) /\ k \notin {l}
      BY <2>5, <3>1, WithoutKeeps
    <3>3. \A k \in Lines \ {l} : Place'[k] = Place[k]
      BY <1>1, <2>1, <2>2, <2>3, <2>4, <3>2 DEF PlaceRight
    <3>4. Place'[l] = Place[l] \/ (Place[l] = "device" /\ Place'[l] = "dropped")
      BY <1>1, <2>1, <2>2, <2>3, <2>4, <3>1, <3>2 DEF PlaceRight
    <3>5. CASE Place'[l] = Place[l]
      BY <2>3, <3>3, <3>5, NobodyMoves
    <3>6. CASE Place[l] = "device" /\ Place'[l] = "dropped"
      BY <2>3, <3>3, <3>6, OneMoves
    <3> QED BY <3>4, <3>5, <3>6
  <2> QED BY <2>1, <2>6, <2>7
<1>5. CASE PublishEdit(l)
  <2>1. UNCHANGED disk /\ \A k \in Lines : k # l => stat'[k] = stat[k]
    BY <1>5 DEF PublishEdit, TypeInv, TypeOK
  <2>2. EditOf(l) /\ (edit[l].op = "capture" \/ stat' = stat) /\ edit[l].pc = "publish"
        /\ (edit[l].op = "capture" => stat'[l] = "captured")
    BY <1>5 DEF PublishEdit, TurnInv, Editing, TypeInv, TypeOK
  <2>3. stat'[l] = stat[l] \/ (stat[l] = "new" /\ stat'[l] = "captured")
    BY <2>2 DEF EditOf
  <2> QED BY <1>1, <2>1, <2>3, PlacesKept
<1> QED BY <1>2, <1>3, <1>4, <1>5, <1>6

(* A pass moves no line but by sending it.                                 *)
LEMMA PlaceFlush ==
  ASSUME TypeInv, TypeInv', serialised, TurnInv, LinesInv,
         StartFlush \/ Merge \/ WriteFlush \/ RenameFlush \/ FailFlushWrite \/ PublishFlush
  PROVE  UNCHANGED Place
<1>1. UNCHANGED <<created, stat>>
  BY DEF StartFlush, Merge, WriteFlush, RenameFlush, FailFlushWrite, PublishFlush, server
<1>2. CASE UNCHANGED disk
  BY <1>1, <1>2, PlacesKept
<1>3. CASE RenameFlush
  <2>1. /\ running /\ disk' = Without(mem, flush.sent) /\ \A k \in Lines : edit[k] = None
    BY <1>3 DEF RenameFlush, TurnInv, Turn, Editing, Writing, FlushOf
  <2>2. \A k \in Lines : created[k] = 0 => (Contains(disk, k) <=> Contains(mem, k)) /\ k \notin flush.sent
    BY <2>1 DEF LinesInv, SameFile, Editing
  <2>3. \A k \in Lines : Contains(disk', k) <=> Contains(mem, k) /\ k \notin flush.sent
    BY <2>1, WithoutKeeps DEF TypeInv, TypeOK
  <2> QED BY <1>1, <2>2, <2>3, PlacesKept
<1> QED BY <1>2, <1>3 DEF StartFlush, Merge, WriteFlush, FailFlushWrite, PublishFlush

(* Every step is one the promise allows, or none.                          *)
LEMMA PlaceStep ==
  ASSUME TypeInv, TypeInv', serialised, TurnInv, LinesInv, [Next]_vars
  PROVE  Promise!Next \/ UNCHANGED Place
<1>1. CASE UNCHANGED <<created, disk, stat>>
  BY <1>1, PlacesKept
<1>2. CASE UNCHANGED vars
  BY <1>1, <1>2 DEF vars, world, client, server
<1>3. ASSUME NEW l \in Lines, ArriveLate(l) PROVE Promise!Next \/ UNCHANGED Place
  <2>1. l \in Sent /\ Upsert(l) /\ UNCHANGED <<disk, stat>>
    BY <1>3 DEF ArriveLate, client, Sent
  <2>2. stat[l] # "new"
    BY <2>1 DEF LinesInv, NewLine
  <2> QED BY <2>1, <2>2, PlaceCreated
<1>4. ASSUME NEW l \in Lines, RemoveRow(l) PROVE Promise!Next \/ UNCHANGED Place
  BY <1>1, <1>4 DEF RemoveRow, client
<1>5. ASSUME NEW l \in Lines, Acknowledge(l) \/ Refuse(l) \/ Lose(l) PROVE Promise!Next \/ UNCHANGED Place
  <2>1. /\ UNCHANGED <<disk, stat>> /\ (Upsert(l) \/ UNCHANGED <<rows, created>>)
    BY <1>5 DEF Acknowledge, Refuse, Lose
  <2>2. l = Head(flush.todo) /\ flush.pc = "send" /\ flush.todo # <<>> /\ flush.todo \in Queue
    BY <1>5, SendIs DEF TypeInv, TypeOK, Pass
  <2>3. stat[l] # "new"
    BY <2>2, TailLess DEF LinesInv, NewLine
  <2> QED BY <2>1, <2>3, PlaceCreated
<1>6. CASE Crash
  <2>1. UNCHANGED <<created, disk>>
    BY <1>6 DEF Crash
  <2> QED BY <1>6, <2>1, CrashStat, PlacesKept
<1>7. CASE Restart
  <2>1. UNCHANGED <<created, disk>>
    BY <1>7 DEF Restart, server
  <2>2. \A k \in Lines : stat'[k] = stat[k] \/ (stat[k] = "new" /\ stat'[k] = "captured")
    BY <1>7 DEF Restart
  <2> QED BY <2>1, <2>2, PlacesKept
<1> QED BY <1>2, <1>3, <1>4, <1>5, <1>6, <1>7, PlaceEdit, PlaceFlush DEF Next

(* Offline capture keeps its promise: every step, where edits wait for each*)
(* other, is one CapturePromise allows, or moves no line.                  *)
THEOREM PromiseKeptCorrect == Spec => PromiseKept
<1>1. Init => Promise!Init
  <2>1. SUFFICES ASSUME Init PROVE Place = [l \in Lines |-> "nowhere"]
    BY DEF Promise!Init
  <2>2. \A l : ~ Contains(<<>>, l)
    BY DEF Contains
  <2> QED BY <2>1, <2>2 DEF Init, Place
<1>2. TypeInv /\ TypeInv' /\ QueueInv /\ [Next]_vars => (serialised => Promise!Next \/ UNCHANGED Place)
  BY PlaceStep DEF QueueInv
<1>3. TypeInv /\ QueueInv /\ [Next]_vars => QueueInv'
  BY QueueStep
<1> QED BY <1>1, <1>2, <1>3, QueueInit, Typed, PTL DEF Spec, PromiseKept
=============================================================================
