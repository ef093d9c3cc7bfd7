----------------------------- MODULE Hierarchy -----------------------------
(***************************************************************************)
(* One user's tree of rows: scopes hold projects, projects hold categories *)
(* and tasks (backend/src/routes/scopes.ts, projects.ts, categories.ts,    *)
(* tasks.ts and the foreign keys of backend/prisma/schema.prisma).         *)
(*                                                                         *)
(* A handler first reads, to answer 404 or 409 by itself, and then writes  *)
(* one statement, which the foreign keys may still refuse.  Other requests *)
(* come between the two.  Names of scopes and projects, positions, notes   *)
(* (rows like tasks without a category) and texts are left out.            *)
(***************************************************************************)
EXTENDS Naturals

CONSTANTS
  Scopes, Projects, Categories, Tasks,  \* ids of rows
  Names,      \* names of categories, up to case
  Requests,   \* requests that may be under way at once
  None

VARIABLES
  scopes,    \* the scopes there are
  project,   \* each project's row, or None
  category,  \* each category's row, or None
  task,      \* each task's row, or None
  req,       \* requests between their reads and their write: the row the
             \* route names, and what is to be done with it
  alone      \* does every request wait for the one before it?  Fixed at Init

tree == <<scopes, project, category, task>>
vars == <<scopes, project, category, task, req, alone>>

Project  == [scope : Scopes, archived : BOOLEAN]
Category == [project : Projects, name : Names]
Task     == [project : Projects, category : Categories \cup {None}]

InFlight ==
  [op : {"deleteScope", "createProject"}, id : Scopes, arg : {None}]
    \cup [op : {"moveProject"}, id : Projects, arg : Scopes]
    \cup [op : {"archive", "unarchive", "deleteProject"}, id : Projects, arg : {None}]
    \cup [op : {"createCategory"}, id : Projects, arg : Names]
    \cup [op : {"renameCategory"}, id : Categories, arg : Names]
    \cup [op : {"deleteCategory"}, id : Categories, arg : {None}]
    \cup [op : {"createTask"}, id : Projects, arg : Categories \cup {None}]
    \cup [op : {"regroup"}, id : Tasks, arg : Categories \cup {None}]
    \cup [op : {"deleteTask"}, id : Tasks, arg : {None}]

ASSUME NoneAssumption ==
  None \notin InFlight \cup Project \cup Category \cup Task \cup Projects \cup Categories

LiveProjects   == {p \in Projects : project[p] # None}
LiveCategories == {c \in Categories : category[c] # None}
LiveTasks      == {t \in Tasks : task[t] # None}

In(s) == {p \in LiveProjects : project[p].scope = s}

(* A user is created with one scope (scripts/user.ts).                     *)
Init ==
  /\ \E s \in Scopes : scopes = {s}
  /\ project = [p \in Projects |-> None]
  /\ category = [c \in Categories |-> None]
  /\ task = [t \in Tasks |-> None]
  /\ req = [r \in Requests |-> None]
  /\ alone \in BOOLEAN

Free(r) == req[r] = None /\ (alone => \A q \in Requests : req[q] = None)

Starts(r, op, id, arg) ==
  /\ Free(r)
  /\ req' = [req EXCEPT ![r] = [op |-> op, id |-> id, arg |-> arg]]
  /\ UNCHANGED tree

Doing(r, op) == req[r] # None /\ req[r].op = op
Ends(r) == req' = [req EXCEPT ![r] = None]

(* An id no row has and no request remembers: as good as one never used.   *)
Unused(x) == \A r \in Requests : req[r] # None => x \notin {req[r].id, req[r].arg}

-----------------------------------------------------------------------------
(* Scopes.  A creation depends on nothing that matters here.               *)
CreateScope(r, s) ==
  /\ Free(r) /\ s \notin scopes /\ Unused(s)
  /\ scopes' = scopes \cup {s}
  /\ UNCHANGED <<project, category, task, req>>

(* scopeDeleteRefusal: archived projects count as well.                    *)
BeginDeleteScope_LastToo(r, s) ==
  s \in scopes /\ In(s) = {} /\ Starts(r, "deleteScope", s, None)

BeginDeleteScope(r, s) ==
  /\ s \in scopes /\ In(s) = {} /\ scopes # {s}
  /\ Starts(r, "deleteScope", s, None)

(* ON DELETE RESTRICT.                                                     *)
CommitDeleteScope(r) ==
  /\ Doing(r, "deleteScope") /\ req[r].id \in scopes /\ In(req[r].id) = {}
  /\ scopes' = scopes \ {req[r].id}
  /\ Ends(r) /\ UNCHANGED <<project, category, task>>

-----------------------------------------------------------------------------
(* Projects.  The scope is the one named, or the first of the user's.      *)
BeginCreateProject(r, s) == s \in scopes /\ Starts(r, "createProject", s, None)

CommitCreateProject(r, p) ==
  /\ Doing(r, "createProject") /\ req[r].id \in scopes
  /\ p \notin LiveProjects /\ Unused(p)
  /\ project' = [project EXCEPT ![p] = [scope |-> req[r].id, archived |-> FALSE]]
  /\ Ends(r) /\ UNCHANGED <<scopes, category, task>>

BeginMoveProject(r, p, s) ==
  p \in LiveProjects /\ s \in scopes /\ Starts(r, "moveProject", p, s)

CommitMoveProject(r) ==
  /\ Doing(r, "moveProject") /\ req[r].id \in LiveProjects /\ req[r].arg \in scopes
  /\ project' = [project EXCEPT ![req[r].id].scope = req[r].arg]
  /\ Ends(r) /\ UNCHANGED <<scopes, category, task>>

BeginArchive(r, p, op) == p \in LiveProjects /\ Starts(r, op, p, None)

CommitArchive(r, op) ==
  /\ Doing(r, op) /\ req[r].id \in LiveProjects
  /\ project' = [project EXCEPT ![req[r].id].archived = (op = "archive")]
  /\ Ends(r) /\ UNCHANGED <<scopes, category, task>>

(* canHardDeleteProject                                                    *)
BeginDeleteProject(r, p) ==
  p \in LiveProjects /\ project[p].archived /\ Starts(r, "deleteProject", p, None)

(* ON DELETE CASCADE, whatever archivedAt is by now.                       *)
CommitDeleteProject(r) ==
  /\ Doing(r, "deleteProject") /\ req[r].id \in LiveProjects
  /\ LET p == req[r].id
     IN /\ project' = [project EXCEPT ![p] = None]
        /\ category' = [c \in Categories |->
             IF c \in LiveCategories /\ category[c].project = p THEN None ELSE category[c]]
        /\ task' = [t \in Tasks |->
             IF t \in LiveTasks /\ task[t].project = p THEN None ELSE task[t]]
  /\ Ends(r) /\ UNCHANGED scopes

-----------------------------------------------------------------------------
(* Categories.  assertNameFree compares without case; no index does.       *)
NameFree(p, n, except) ==
  \A c \in LiveCategories : category[c].project = p /\ category[c].name = n => c = except

BeginCreateCategory(r, p, n) ==
  p \in LiveProjects /\ NameFree(p, n, None) /\ Starts(r, "createCategory", p, n)

CommitCreateCategory(r, c) ==
  /\ Doing(r, "createCategory") /\ req[r].id \in LiveProjects
  /\ c \notin LiveCategories /\ Unused(c)
  /\ category' = [category EXCEPT ![c] = [project |-> req[r].id, name |-> req[r].arg]]
  /\ Ends(r) /\ UNCHANGED <<scopes, project, task>>

BeginRenameCategory(r, c, n) ==
  /\ c \in LiveCategories /\ NameFree(category[c].project, n, c)
  /\ Starts(r, "renameCategory", c, n)

CommitRenameCategory(r) ==
  /\ Doing(r, "renameCategory") /\ req[r].id \in LiveCategories
  /\ category' = [category EXCEPT ![req[r].id].name = req[r].arg]
  /\ Ends(r) /\ UNCHANGED <<scopes, project, task>>

BeginDeleteCategory(r, c) == c \in LiveCategories /\ Starts(r, "deleteCategory", c, None)

(* ON DELETE SET NULL.                                                     *)
CommitDeleteCategory_Cascade(r) ==
  /\ Doing(r, "deleteCategory") /\ req[r].id \in LiveCategories
  /\ category' = [category EXCEPT ![req[r].id] = None]
  /\ task' = [t \in Tasks |->
       IF t \in LiveTasks /\ task[t].category = req[r].id THEN None ELSE task[t]]
  /\ Ends(r) /\ UNCHANGED <<scopes, project>>

CommitDeleteCategory(r) ==
  /\ Doing(r, "deleteCategory") /\ req[r].id \in LiveCategories
  /\ category' = [category EXCEPT ![req[r].id] = None]
  /\ task' = [t \in Tasks |->
       IF t \in LiveTasks /\ task[t].category = req[r].id
       THEN [task[t] EXCEPT !.category = None] ELSE task[t]]
  /\ Ends(r) /\ UNCHANGED <<scopes, project>>

-----------------------------------------------------------------------------
(* Tasks.  assertCategoryInProject; the foreign key only knows that the    *)
(* category exists.                                                        *)
Fits(c, p) == c # None => c \in LiveCategories /\ category[c].project = p

BeginCreateTask(r, p, c) == p \in LiveProjects /\ Fits(c, p) /\ Starts(r, "createTask", p, c)

CommitCreateTask(r, t) ==
  /\ Doing(r, "createTask") /\ req[r].id \in LiveProjects
  /\ req[r].arg \in LiveCategories \cup {None}
  /\ t \notin LiveTasks /\ Unused(t)
  /\ task' = [task EXCEPT ![t] = [project |-> req[r].id, category |-> req[r].arg]]
  /\ Ends(r) /\ UNCHANGED <<scopes, project, category>>

BeginRegroup_AnyCategory(r, t, c) ==
  t \in LiveTasks /\ c \in LiveCategories \cup {None} /\ Starts(r, "regroup", t, c)

BeginRegroup(r, t, c) ==
  t \in LiveTasks /\ Fits(c, task[t].project) /\ Starts(r, "regroup", t, c)

CommitRegroup(r) ==
  /\ Doing(r, "regroup") /\ req[r].id \in LiveTasks
  /\ req[r].arg \in LiveCategories \cup {None}
  /\ task' = [task EXCEPT ![req[r].id].category = req[r].arg]
  /\ Ends(r) /\ UNCHANGED <<scopes, project, category>>

(* DELETE, and the unfiling, which deletes the task too.                   *)
BeginDeleteTask(r, t) == t \in LiveTasks /\ Starts(r, "deleteTask", t, None)

CommitDeleteTask(r) ==
  /\ Doing(r, "deleteTask") /\ req[r].id \in LiveTasks
  /\ task' = [task EXCEPT ![req[r].id] = None]
  /\ Ends(r) /\ UNCHANGED <<scopes, project, category>>

-----------------------------------------------------------------------------
(* The statement is refused, by a foreign key or because its row has gone, *)
(* or the server stops: nothing is written.                                *)
Abort(r) == req[r] # None /\ Ends(r) /\ UNCHANGED tree

Begin(r) ==
  \/ \E s \in Scopes : BeginDeleteScope(r, s) \/ BeginCreateProject(r, s)
  \/ \E p \in Projects :
       \/ \E s \in Scopes : BeginMoveProject(r, p, s)
       \/ \E op \in {"archive", "unarchive"} : BeginArchive(r, p, op)
       \/ BeginDeleteProject(r, p)
       \/ \E n \in Names : BeginCreateCategory(r, p, n)
       \/ \E c \in Categories \cup {None} : BeginCreateTask(r, p, c)
  \/ \E c \in Categories :
       BeginDeleteCategory(r, c) \/ \E n \in Names : BeginRenameCategory(r, c, n)
  \/ \E t \in Tasks :
       BeginDeleteTask(r, t) \/ \E c \in Categories \cup {None} : BeginRegroup(r, t, c)

Commit(r) ==
  \/ CommitDeleteScope(r)
  \/ \E p \in Projects : CommitCreateProject(r, p)
  \/ CommitMoveProject(r)
  \/ \E op \in {"archive", "unarchive"} : CommitArchive(r, op)
  \/ CommitDeleteProject(r)
  \/ \E c \in Categories : CommitCreateCategory(r, c)
  \/ CommitRenameCategory(r) \/ CommitDeleteCategory(r)
  \/ \E t \in Tasks : CommitCreateTask(r, t)
  \/ CommitRegroup(r) \/ CommitDeleteTask(r)

Next ==
  UNCHANGED alone /\ \E r \in Requests :
    (\E s \in Scopes : CreateScope(r, s)) \/ Begin(r) \/ Commit(r) \/ Abort(r)

Spec == Init /\ [][Next]_vars

-----------------------------------------------------------------------------
TypeOK ==
  /\ scopes \subseteq Scopes
  /\ project \in [Projects -> Project \cup {None}]
  /\ category \in [Categories -> Category \cup {None}]
  /\ task \in [Tasks -> Task \cup {None}]
  /\ req \in [Requests -> InFlight \cup {None}]
  /\ alone \in BOOLEAN

(* However requests overlap, every row's parent is there.                  *)
NothingDangles ==
  /\ \A p \in LiveProjects : project[p].scope \in scopes
  /\ \A c \in LiveCategories : category[c].project \in LiveProjects
  /\ \A t \in LiveTasks : task[t].project \in LiveProjects

(* However requests overlap, a task's category is there and is one of the  *)
(* task's own project, although no foreign key says so.                    *)
CategoryAtHome ==
  \A t \in LiveTasks : task[t].category # None =>
    /\ task[t].category \in LiveCategories
    /\ category[task[t].category].project = task[t].project

(* The tree is whole, whatever overlaps: both of these.                    *)
TreeWhole == NothingDangles /\ CategoryAtHome

(* "The last scope cannot be deleted" (scopeDeleteGuard.ts): a user always *)
(* has a scope, at least while requests wait for each other.               *)
SomeScope == scopes # {}
AlwaysAScope == alone => SomeScope

(* Two categories of one project have different names, likewise.           *)
NamesDiffer ==
  alone => \A c, d \in LiveCategories :
    category[c].project = category[d].project /\ category[c].name = category[d].name => c = d

(* What the two checks that no constraint of the database backs keep, for  *)
(* requests that wait for each other: both of these.  Two requests that    *)
(* overlap break either.                                                   *)
ChecksHold == AlwaysAScope /\ NamesDiffer

(* What a handler has read is enough for the write it then makes: alone,   *)
(* no request runs into a foreign key and answers 500 for it.              *)
Accepted(q) ==
  CASE q.op = "deleteScope" -> q.id \in scopes /\ In(q.id) = {}
    [] q.op = "createProject" -> q.id \in scopes
    [] q.op = "moveProject" -> q.id \in LiveProjects /\ q.arg \in scopes
    [] q.op \in {"archive", "unarchive", "deleteProject", "createCategory"} -> q.id \in LiveProjects
    [] q.op \in {"renameCategory", "deleteCategory"} -> q.id \in LiveCategories
    [] q.op = "createTask" -> q.id \in LiveProjects /\ q.arg \in LiveCategories \cup {None}
    [] q.op = "regroup" -> q.id \in LiveTasks /\ q.arg \in LiveCategories \cup {None}
    [] q.op = "deleteTask" -> q.id \in LiveTasks

GuardsSuffice == alone => \A r \in Requests : req[r] # None => Accepted(req[r])

(* Deletion only after archiving: the step that takes a project finds it   *)
(* archived, if requests wait for each other.                              *)
ArchivedFirst ==
  [][alone => \A p \in LiveProjects : p \notin LiveProjects' => project[p].archived]_vars

(* However requests overlap, a scope goes only when it is empty and takes  *)
(* nothing along, a task goes with its project or all by itself, and a     *)
(* category leaves its tasks behind.                                       *)
WorkStays ==
  [][/\ scopes \subseteq scopes' \/ UNCHANGED <<project, category, task>>
     /\ \A t \in LiveTasks : t \notin LiveTasks' =>
          task[t].project \notin LiveProjects' \/ UNCHANGED <<scopes, project, category>>]_vars
=============================================================================
