------------------------------ MODULE MCMarks -------------------------------
(* A small instance of Marks: a line, the task it may become, and a note;  *)
(* two answers of kinds that meet in them.                                 *)
EXTENDS Marks, TLC

CONSTANTS line, task, note, p1, p2

MCTypeOf == (line :> "line") @@ (task :> "task") @@ (note :> "note")

MCMixes == {(p1 :> "sandbox") @@ (p2 :> "task_tidy"), (p1 :> "note") @@ (p2 :> "task_tidy")}

Symmetric == Permutations(Saves)

(* An answer as it is, with the text corrected, the text alone; an edit of *)
(* the text or of the title alone; the source put back.                    *)
MCBodies ==
  UNION {{[p |-> p, clear |-> FALSE, title |-> p, body |-> p],
          [p |-> p, clear |-> FALSE, title |-> p, body |-> Own],
          [p |-> p, clear |-> FALSE, title |-> Same, body |-> p]} : p \in {p1, p2}} \cup
  {[p |-> Null, clear |-> FALSE, title |-> Same, body |-> Own],
   [p |-> Null, clear |-> FALSE, title |-> Own, body |-> Same],
   [p |-> Null, clear |-> TRUE, title |-> Own, body |-> Own]}
=============================================================================
