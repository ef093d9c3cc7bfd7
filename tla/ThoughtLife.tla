---------------------------- MODULE ThoughtLife ----------------------------
(***************************************************************************)
(* What the sandbox promises about a thought (backend/src/routes/inbox.ts, *)
(* "ONE ROUTE RATHER THAN ...", and the unfile route of routes/tasks.ts):  *)
(* it is a line or a task, never both, and never gone unless thrown away.  *)
(* Sandbox implements it.                                                  *)
(***************************************************************************)
CONSTANT Thoughts

VARIABLE place  \* "nowhere", "line", "task" or "thrown"

Init == place = [k \in Thoughts |-> "nowhere"]

Goes(k, from, to) == place[k] = from /\ place' = [place EXCEPT ![k] = to]

Capture(k) == Goes(k, "nowhere", "line")
File(k) == Goes(k, "line", "task")
Unfile(k) == Goes(k, "task", "line")
Throw(k) == \E from \in {"line", "task"} : Goes(k, from, "thrown")

Next == \E k \in Thoughts : Capture(k) \/ File(k) \/ Unfile(k) \/ Throw(k)

Spec == Init /\ [][Next]_place
=============================================================================
