------------------------------ MODULE TaskLife ------------------------------
(***************************************************************************)
(* What the history mode promises about a task, without rows, requests or  *)
(* events: a task is born in some status, moves between statuses, is taken *)
(* into the working set and out of it, leaves the set when it is finished, *)
(* and is forgotten when it is deleted (prisma/schema.prisma, TaskEvent;   *)
(* domain/taskEvents.ts).  TaskJournal implements it with a life read off  *)
(* the journal alone.                                                      *)
(***************************************************************************)
CONSTANTS Tasks, Status

VARIABLES
  life,    \* "unborn", "live" or "deleted"
  status,  \* of a live task
  inSet    \* is it in the working set?

vars == <<life, status, inSet>>

Init ==
  /\ life = [t \in Tasks |-> "unborn"]
  /\ status = [t \in Tasks |-> "pending"]
  /\ inSet = [t \in Tasks |-> FALSE]

Born(t, s) ==
  /\ life[t] = "unborn"
  /\ life' = [life EXCEPT ![t] = "live"]
  /\ status' = [status EXCEPT ![t] = s]
  /\ UNCHANGED inSet

Move(t, s) ==
  /\ life[t] = "live"
  /\ s # status[t]
  /\ status' = [status EXCEPT ![t] = s]
  /\ inSet' = [inSet EXCEPT ![t] = @ /\ s # "done"]
  /\ UNCHANGED life

Pick(t) ==
  /\ life[t] = "live" /\ ~inSet[t]
  /\ inSet' = [inSet EXCEPT ![t] = TRUE]
  /\ UNCHANGED <<life, status>>

Drop(t) ==
  /\ life[t] = "live" /\ inSet[t]
  /\ inSet' = [inSet EXCEPT ![t] = FALSE]
  /\ UNCHANGED <<life, status>>

Forget(t) ==
  /\ life[t] = "live"
  /\ life' = [life EXCEPT ![t] = "deleted"]
  /\ status' = [status EXCEPT ![t] = "pending"]
  /\ inSet' = [inSet EXCEPT ![t] = FALSE]

Next ==
  \E t \in Tasks :
    \/ \E s \in Status : Born(t, s) \/ Move(t, s)
    \/ Pick(t) \/ Drop(t) \/ Forget(t)

Spec == Init /\ [][Next]_vars
=============================================================================
