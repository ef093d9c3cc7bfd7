--------------------------------- MODULE Rows ---------------------------------
(* Lists of rows that have ids.                                             *)
EXTENDS Naturals, Sequences, SequencesExt

\* Where a row has that id, or 0.
AtOf(s, id) == SelectInSeq(s, LAMBDA r : r.id = id)

\* The list less the rows of that id, in its order: what SelectSeq returns, said
\* by the order it keeps, which is what the proofs use of it.
Without(s, id) ==
  LET kept == {i \in DOMAIN s : s[i].id # id}
      place == CHOOSE f \in UNION {[1..n -> kept] : n \in 0..Len(s)} :
                 /\ \A i, k \in DOMAIN f : i < k => f[i] < f[k]
                 /\ \A i \in kept : \E k \in DOMAIN f : f[k] = i
  IN [k \in DOMAIN place |-> s[place[k]]]
=============================================================================
