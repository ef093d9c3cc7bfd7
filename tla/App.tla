--------------------------------- MODULE App ---------------------------------
(***************************************************************************)
(* The two lists of a project's screen and the alarms of the phone.  They  *)
(* share no state, so a behaviour is one of the tasks, of the notes or of  *)
(* the alarms.                                                             *)
(***************************************************************************)
EXTENDS TaskList, NoteList, Reminders

VARIABLE part

vars == <<taskVars, noteVars, alarmVars, part>>

\* How the parts that do not take part begin makes no difference.
Init ==
  /\ part \in {"tasks", "notes", "alarms"}
  /\ TasksInit /\ (part # "tasks" => apart /\ \A i \in DOMAIN rows : rows[i].status = "pending")
  /\ NotesInit /\ (part # "notes" => copy = notes)
  /\ AlarmsInit /\ (part # "alarms" => hour = CHOOSE h \in Hours : TRUE)

Next ==
  \/ part = "tasks" /\ TasksNext /\ UNCHANGED <<noteVars, alarmVars, part>>
  \/ part = "notes" /\ NotesNext /\ UNCHANGED <<taskVars, alarmVars, part>>
  \/ part = "alarms" /\ AlarmsNext /\ UNCHANGED <<taskVars, noteVars, part>>

Spec == Init /\ [][Next]_vars
=============================================================================
