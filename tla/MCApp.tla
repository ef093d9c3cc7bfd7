------------------------------- MODULE MCApp --------------------------------
(* A small instance of App: two tasks, two notes and two writes of each;   *)
(* three reminders, two of which share an id, and three resyncs.           *)
EXTENDS App

MCBench == [id |-> 0, task |-> "bench", fireAt |-> MaxMoment + 1]
MCIdOf == [t \in {"a", "b", "c"} |-> IF t = "c" THEN 2 ELSE 1]

Target(task, day, time) == [task |-> task, day |-> day, time |-> time]
MCBoards == {<<Target("a", 0, {1}), Target("b", 1, {}), Target("c", 1, {})>>, <<Target("c", 0, {})>>}
=============================================================================
