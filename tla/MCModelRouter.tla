--------------------------- MODULE MCModelRouter ---------------------------
(* Three models, two parses at once.  The models have been through one of  *)
(* the pasts below: nothing yet, an answer of another model than the top,  *)
(* failures that leave a model resting or one failure from being put off.  *)
EXTENDS ModelRouter, TLC

CONSTANTS m1, m2

Ok(at)  == [ok |-> TRUE, at |-> at, by |-> None]
Bad(at) == [ok |-> FALSE, at |-> at, by |-> None]
Past(first, second) == [m \in Models |-> IF m = m1 THEN first ELSE IF m = m2 THEN second ELSE <<>>]
MCPasts == {Past(<<>>, <<>>),
            Past(<<Bad(1)>>, <<Ok(1)>>),
            Past(<<Bad(0), Bad(0)>>, <<Bad(0), Bad(1)>>)}
MCStored == {<<>>, <<m1, m2>> \o SetToSeq(Models \ {m1, m2})}
MCSent == {[list |-> SetToSeq(Models \ {m1, m2}) \o <<m2>>, on |-> {m2}]}
Symmetric == Permutations(Reqs)
=============================================================================
