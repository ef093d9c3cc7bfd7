----------------------------- MODULE MCParses ------------------------------
(* A small instance of Parses: replies that meet every check, two forms of *)
(* one date, a number within another, and lines that are cut in every way. *)
EXTENDS Parses, TLC

CONSTANTS q1, q2

MCAsks == (q1 :> Kinds) @@ (q2 :> {"note"})

MCPatternOf == [d \in Dates |-> IF d = "Fri2" THEN "Fri" ELSE d]

MCNamedBy == [d \in Dates |-> CASE d \in {"Fri", "Fri2"} -> {"Fri", "Fri2"}
                                [] d = "5.09" -> {"5.09", "25.09"}
                                [] OTHER -> {d}]

Said == [text |-> <<"a", "Fri2", "25.09">>, today |-> 1, titled |-> FALSE, projects |-> {"p1"}]
Silent == [text |-> <<"a">>, today |-> 1, titled |-> TRUE, projects |-> {}]
MCInputs == [k \in Kinds |-> IF k = "note" THEN {Silent} ELSE {Said}]

Raw == [title |-> {}, text |-> {}, description |-> {}, project |-> {}, date |-> {}, time |-> {}]

Titles == {{}, {<<" ">>}, {<<"a", " ", "Fri", ".">>}, {<<"Fri", "Fri2", "10:00">>}}
Lines == {<<>>, <<"a", " ", ".">>, <<"a", "a", "a", ".">>}
         \cup {<<"a">> \o s : s \in {"a", "."} \X {"a", " ", "."} \X {"a", " "} \X {"a"}}

MCReplied ==
  [k \in Kinds |->
     CASE k = "task" -> {Raw} \cup
                        {[Raw EXCEPT !.title = {<<"a">>}, !.date = d, !.time = {"10:00"}] :
                           d \in {{}, {0}, {1}, {3}, {4}}}
       [] k = "task_tidy" -> {[Raw EXCEPT !.title = t, !.description = {<<"10:00", "/", "a", "5.09">>}] : t \in Titles}
       [] k = "note" -> {[Raw EXCEPT !.title = {<<"a">>}, !.text = t] : t \in {{}, {<<"a", " ", "Fri", ".">>}}}
       [] k = "sandbox" -> {[Raw EXCEPT !.text = {s}, !.project = {"p1"}] : s \in Lines}]
=============================================================================
