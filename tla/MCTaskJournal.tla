--------------------------- MODULE MCTaskJournal ---------------------------
(* A small instance of TaskJournal: one task, two requests.                *)
EXTENDS TaskJournal, TLC

Bodies(statuses, reminders) ==
  {[status |-> s, remindAt |-> f[1], remindTime |-> f[2]] : s \in statuses, f \in reminders}

(* Every status with an untouched reminder, and every edit of the reminder *)
(* with and without "done".                                                *)
MCBodies ==
  Bodies(Status \cup {"absent"}, {<<"absent", "absent">>})
  \cup Bodies({"absent", "done"},
              {<<"null", "absent">>, <<"absent", "value">>, <<"value", "value">>})

Symmetric == Permutations(Requests)
=============================================================================
