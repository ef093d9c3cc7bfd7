--------------------------------- MODULE Lists ---------------------------------
(* Lists.                                                                     *)
EXTENDS Naturals, Sequences

\* The entries of a list that are in a set, in the list's order: what SelectSeq
\* returns, said by the order it keeps, which is what the proofs use of it.
Only(s, T) ==
  LET in == {i \in DOMAIN s : s[i] \in T}
      place == CHOOSE f \in UNION {[1..n -> in] : n \in 0..Len(s)} :
                 /\ \A i, k \in DOMAIN f : i < k => f[i] < f[k]
                 /\ \A i \in in : \E k \in DOMAIN f : f[k] = i
  IN [k \in DOMAIN place |-> s[place[k]]]
=============================================================================
