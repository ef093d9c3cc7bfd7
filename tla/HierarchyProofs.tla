-------------------------- MODULE HierarchyProofs --------------------------
(***************************************************************************)
(* What holds of the tree for every number of rows and requests.           *)
(***************************************************************************)
EXTENDS Hierarchy, TLAPS

USE NoneAssumption

(* A step that begins a request changes nothing of the tree, and one that  *)
(* commits or ends a request frees it.                                     *)
LEMMA BeginType ==
  ASSUME TypeOK, NEW r \in Requests, Begin(r)
  PROVE  req' \in [Requests -> InFlight \cup {None}] /\ UNCHANGED tree
<1>1. ASSUME NEW op, NEW id, NEW arg, Starts(r, op, id, arg),
             [op |-> op, id |-> id, arg |-> arg] \in InFlight
      PROVE  req' \in [Requests -> InFlight \cup {None}] /\ UNCHANGED tree
  BY <1>1 DEF Starts, TypeOK
<1>2. CASE \E s \in Scopes : BeginDeleteScope(r, s) \/ BeginCreateProject(r, s)
  BY <1>1, <1>2 DEF BeginDeleteScope, BeginCreateProject, InFlight
<1>3. ASSUME NEW p \in Projects, \E s \in Scopes : BeginMoveProject(r, p, s)
      PROVE  req' \in [Requests -> InFlight \cup {None}] /\ UNCHANGED tree
  BY <1>1, <1>3 DEF BeginMoveProject, InFlight
<1>4. ASSUME NEW p \in Projects,
             (\E op \in {"archive", "unarchive"} : BeginArchive(r, p, op)) \/ BeginDeleteProject(r, p)
      PROVE  req' \in [Requests -> InFlight \cup {None}] /\ UNCHANGED tree
  BY <1>1, <1>4 DEF BeginArchive, BeginDeleteProject, InFlight
<1>5. ASSUME NEW p \in Projects, \E n \in Names : BeginCreateCategory(r, p, n)
      PROVE  req' \in [Requests -> InFlight \cup {None}] /\ UNCHANGED tree
  BY <1>1, <1>5 DEF BeginCreateCategory, InFlight
<1>6. ASSUME NEW p \in Projects, \E c \in Categories \cup {None} : BeginCreateTask(r, p, c)
      PROVE  req' \in [Requests -> InFlight \cup {None}] /\ UNCHANGED tree
  BY <1>1, <1>6 DEF BeginCreateTask, InFlight
<1>7. CASE \E c \in Categories :
             BeginDeleteCategory(r, c) \/ \E n \in Names : BeginRenameCategory(r, c, n)
  BY <1>1, <1>7 DEF BeginDeleteCategory, BeginRenameCategory, InFlight
<1>8. CASE \E t \in Tasks :
             BeginDeleteTask(r, t) \/ \E c \in Categories \cup {None} : BeginRegroup(r, t, c)
  BY <1>1, <1>8 DEF BeginDeleteTask, BeginRegroup, InFlight
<1> QED BY <1>2, <1>3, <1>4, <1>5, <1>6, <1>7, <1>8 DEF Begin

(* What a request that carries an operation names.                         *)
LEMMA RequestShape ==
  ASSUME TypeOK, NEW r \in Requests, req[r] # None
  PROVE  /\ req[r] \in InFlight
         /\ req[r].op \in {"deleteScope", "createProject"} => req[r].id \in Scopes
         /\ req[r].op \in {"moveProject", "archive", "unarchive", "deleteProject",
                           "createCategory", "createTask"} => req[r].id \in Projects
         /\ req[r].op = "moveProject" => req[r].arg \in Scopes
         /\ req[r].op \in {"createCategory", "renameCategory"} => req[r].arg \in Names
         /\ req[r].op \in {"renameCategory", "deleteCategory"} => req[r].id \in Categories
         /\ req[r].op \in {"createTask", "regroup"} => req[r].arg \in Categories \cup {None}
         /\ req[r].op \in {"regroup", "deleteTask"} => req[r].id \in Tasks
<1>1. req[r] \in InFlight
  BY DEF TypeOK
<1> QED BY <1>1 DEF InFlight

LEMMA CommitType ==
  ASSUME TypeOK, NEW r \in Requests, Commit(r)
  PROVE  /\ req' = [req EXCEPT ![r] = None]
         /\ scopes' \subseteq Scopes
         /\ project' \in [Projects -> Project \cup {None}]
         /\ category' \in [Categories -> Category \cup {None}]
         /\ task' \in [Tasks -> Task \cup {None}]
<1> DEFINE Fine == /\ req' = [req EXCEPT ![r] = None]
                   /\ scopes' \subseteq Scopes
                   /\ project' \in [Projects -> Project \cup {None}]
                   /\ category' \in [Categories -> Category \cup {None}]
                   /\ task' \in [Tasks -> Task \cup {None}]
<1>1. CASE CommitDeleteScope(r)
  BY <1>1 DEF CommitDeleteScope, Ends, TypeOK
<1>2. ASSUME NEW p \in Projects, CommitCreateProject(r, p) PROVE Fine
  BY <1>2, RequestShape DEF CommitCreateProject, Doing, Ends, TypeOK, Project
<1>3. CASE CommitMoveProject(r)
  BY <1>3, RequestShape DEF CommitMoveProject, Doing, Ends, TypeOK, Project, LiveProjects
<1>4. ASSUME NEW op \in {"archive", "unarchive"}, CommitArchive(r, op) PROVE Fine
  <2>1. PICK b \in BOOLEAN : b = (op = "archive")
    OBVIOUS
  <2>2. /\ req[r].id \in LiveProjects /\ project' = [project EXCEPT ![req[r].id].archived = b]
        /\ Ends(r) /\ UNCHANGED <<scopes, category, task>>
    BY <1>4, <2>1, Zenon DEF CommitArchive
  <2> QED BY <2>2 DEF Ends, TypeOK, Project, LiveProjects
<1>5. CASE CommitDeleteProject(r)
  BY <1>5 DEF CommitDeleteProject, Ends, TypeOK
<1>6. ASSUME NEW c \in Categories, CommitCreateCategory(r, c) PROVE Fine
  BY <1>6, RequestShape DEF CommitCreateCategory, Doing, Ends, TypeOK, Category
<1>7. CASE CommitRenameCategory(r)
  BY <1>7, RequestShape DEF CommitRenameCategory, Doing, Ends, TypeOK, Category, LiveCategories
<1>8. CASE CommitDeleteCategory(r)
  BY <1>8 DEF CommitDeleteCategory, Ends, TypeOK, Task, LiveTasks
<1>9. ASSUME NEW t \in Tasks, CommitCreateTask(r, t) PROVE Fine
  BY <1>9, RequestShape DEF CommitCreateTask, Doing, Ends, TypeOK, Task
<1>10. CASE CommitRegroup(r)
  BY <1>10, RequestShape DEF CommitRegroup, Doing, Ends, TypeOK, Task, LiveTasks
<1>11. CASE CommitDeleteTask(r)
  BY <1>11 DEF CommitDeleteTask, Ends, TypeOK
<1> QED
  BY <1>1, <1>2, <1>3, <1>4, <1>5, <1>6, <1>7, <1>8, <1>9, <1>10, <1>11 DEF Commit

LEMMA TypeStep ==
  ASSUME TypeOK, [Next]_vars
  PROVE  TypeOK'
<1>1. CASE UNCHANGED vars
  BY <1>1 DEF vars, TypeOK
<1>2. ASSUME NEW r \in Requests, NEW s \in Scopes, CreateScope(r, s), UNCHANGED alone PROVE TypeOK'
  BY <1>2 DEF CreateScope, TypeOK
<1>3. ASSUME NEW r \in Requests, Begin(r), UNCHANGED alone PROVE TypeOK'
  BY <1>3, BeginType DEF tree, TypeOK
<1>4. ASSUME NEW r \in Requests, Commit(r), UNCHANGED alone PROVE TypeOK'
  BY <1>4, CommitType DEF TypeOK
<1>5. ASSUME NEW r \in Requests, Abort(r), UNCHANGED alone PROVE TypeOK'
  BY <1>5 DEF Abort, Ends, tree, TypeOK
<1> QED BY <1>1, <1>2, <1>3, <1>4, <1>5 DEF Next

LEMMA TypeInit == Init => TypeOK
  BY DEF Init, TypeOK

(* The rows and requests keep their shapes.                                *)
THEOREM TypeCorrect == Spec => []TypeOK
<1>1. TypeOK /\ [Next]_vars => TypeOK'
  BY TypeStep
<1> QED BY <1>1, TypeInit, PTL DEF Spec

-----------------------------------------------------------------------------
(* A category a request will write is one of the task's project: it was    *)
(* when the handler looked, categories and tasks stay in their projects,   *)
(* and no id is used twice.                                                *)
RequestFits ==
  \A r \in Requests : req[r] # None /\ req[r].arg \in LiveCategories =>
    /\ req[r].op = "createTask" => category[req[r].arg].project = req[r].id
    /\ req[r].op = "regroup" /\ req[r].id \in LiveTasks =>
         category[req[r].arg].project = task[req[r].id].project

HomeInv == NothingDangles /\ CategoryAtHome /\ RequestFits

(* A row after a step was there before, in the same project, or is new.    *)
Settled ==
  /\ \A c \in LiveCategories' :
       Unused(c) \/ (c \in LiveCategories /\ category'[c].project = category[c].project)
  /\ \A t \in LiveTasks' :
       Unused(t) \/ (t \in LiveTasks /\ task'[t].project = task[t].project)

LEMMA CommitSettled ==
  ASSUME TypeOK, NEW r \in Requests, Commit(r)
  PROVE  Settled
<1>1. ASSUME UNCHANGED <<category, task>> PROVE Settled
  BY <1>1 DEF Settled, LiveCategories, LiveTasks
<1>2. CASE CommitDeleteScope(r)
  BY <1>1, <1>2 DEF CommitDeleteScope
<1>3. CASE \E p \in Projects : CommitCreateProject(r, p)
  BY <1>1, <1>3 DEF CommitCreateProject
<1>4. CASE CommitMoveProject(r)
  BY <1>1, <1>4 DEF CommitMoveProject
<1>5. CASE \E op \in {"archive", "unarchive"} : CommitArchive(r, op)
  BY <1>1, <1>5 DEF CommitArchive
<1>6. CASE CommitDeleteProject(r)
  BY <1>6 DEF CommitDeleteProject, Settled, LiveCategories, LiveTasks, TypeOK
<1>7. CASE \E c \in Categories : CommitCreateCategory(r, c)
  BY <1>7 DEF CommitCreateCategory, Settled, LiveCategories, LiveTasks, TypeOK
<1>8. CASE CommitRenameCategory(r)
  BY <1>8 DEF CommitRenameCategory, Settled, LiveCategories, LiveTasks, TypeOK, Category
<1>9. CASE CommitDeleteCategory(r)
  <2>1. \A c \in LiveCategories' : c \in LiveCategories /\ category'[c].project = category[c].project
    BY <1>9 DEF CommitDeleteCategory, LiveCategories, TypeOK
  <2>2. \A t \in LiveTasks' : t \in LiveTasks
    BY <1>9 DEF CommitDeleteCategory, LiveTasks, TypeOK
  <2>3. \A t \in LiveTasks : task[t] \in Task
    BY DEF LiveTasks, TypeOK
  <2>4. \A t \in LiveTasks : task'[t] = task[t] \/ task'[t] = [task[t] EXCEPT !.category = None]
    BY <1>9 DEF CommitDeleteCategory, LiveTasks
  <2>5. \A t \in LiveTasks : task'[t].project = task[t].project
    BY <2>3, <2>4 DEF Task
  <2> QED BY <2>1, <2>2, <2>5 DEF Settled
<1>10. CASE \E t \in Tasks : CommitCreateTask(r, t)
  BY <1>10 DEF CommitCreateTask, Settled, LiveCategories, LiveTasks, TypeOK
<1>11. CASE CommitRegroup(r)
  <2>1. req[r].id \in LiveTasks /\ task[req[r].id] \in Task
    BY <1>11 DEF CommitRegroup, LiveTasks, TypeOK
  <2>2. \A t \in Tasks : task'[t] = IF t = req[r].id THEN [task[t] EXCEPT !.category = req[r].arg] ELSE task[t]
    BY <1>11 DEF CommitRegroup, TypeOK
  <2>3. \A t \in Tasks : task[t] = None \/ task[t] \in Task
    BY DEF TypeOK
  <2>4. \A t \in LiveTasks' : t \in LiveTasks /\ task'[t].project = task[t].project
    BY <2>1, <2>2, <2>3 DEF LiveTasks, Task
  <2> QED BY <1>11, <2>4 DEF CommitRegroup, Settled, LiveCategories
<1>12. CASE CommitDeleteTask(r)
  BY <1>12 DEF CommitDeleteTask, Settled, LiveCategories, LiveTasks, TypeOK
<1> QED
  BY <1>2, <1>3, <1>4, <1>5, <1>6, <1>7, <1>8, <1>9, <1>10, <1>11, <1>12 DEF Commit

(* So what the other requests have read of categories stays true.          *)
LEMMA FitsStep ==
  ASSUME TypeOK, RequestFits, Settled, NEW r \in Requests, req' = [req EXCEPT ![r] = None]
  PROVE  RequestFits'
<1> SUFFICES ASSUME NEW q \in Requests, req'[q] # None, req'[q].arg \in LiveCategories'
             PROVE  /\ req'[q].op = "createTask" => category'[req'[q].arg].project = req'[q].id
                    /\ req'[q].op = "regroup" /\ req'[q].id \in LiveTasks' =>
                         category'[req'[q].arg].project = task'[req'[q].id].project
  BY DEF RequestFits
<1>1. req'[q] = req[q] /\ req[q] # None
  BY DEF TypeOK
<1>2. ~Unused(req[q].arg) /\ ~Unused(req[q].id)
  BY <1>1 DEF Unused
<1>3. req[q].arg \in LiveCategories /\ category'[req[q].arg].project = category[req[q].arg].project
  BY <1>1, <1>2 DEF Settled
<1>4. req[q].id \in LiveTasks' =>
        req[q].id \in LiveTasks /\ task'[req[q].id].project = task[req[q].id].project
  BY <1>2 DEF Settled
<1> QED BY <1>1, <1>3, <1>4 DEF RequestFits

(* A request that begins has just looked.                                  *)
LEMMA BeginFits ==
  ASSUME TypeOK, RequestFits, NEW r \in Requests, Begin(r)
  PROVE  RequestFits'
<1>1. ASSUME NEW op, NEW id, NEW arg, Starts(r, op, id, arg), arg \in LiveCategories =>
               /\ op = "createTask" => category[arg].project = id
               /\ op = "regroup" /\ id \in LiveTasks => category[arg].project = task[id].project
      PROVE  RequestFits'
  BY <1>1 DEF Starts, tree, RequestFits, TypeOK, LiveCategories, LiveTasks
<1>2. CASE \E s \in Scopes : BeginDeleteScope(r, s) \/ BeginCreateProject(r, s)
  BY <1>1, <1>2 DEF BeginDeleteScope, BeginCreateProject
<1>3. CASE \E p \in Projects : \E s \in Scopes : BeginMoveProject(r, p, s)
  BY <1>1, <1>3 DEF BeginMoveProject
<1>4. ASSUME NEW p \in Projects,
             (\E op \in {"archive", "unarchive"} : BeginArchive(r, p, op)) \/ BeginDeleteProject(r, p)
      PROVE  RequestFits'
  BY <1>1, <1>4 DEF BeginArchive, BeginDeleteProject
<1>5. CASE \E p \in Projects : \E n \in Names : BeginCreateCategory(r, p, n)
  BY <1>1, <1>5 DEF BeginCreateCategory
<1>6. CASE \E p \in Projects : \E c \in Categories \cup {None} : BeginCreateTask(r, p, c)
  BY <1>1, <1>6 DEF BeginCreateTask, Fits, LiveCategories
<1>7. CASE \E c \in Categories :
             BeginDeleteCategory(r, c) \/ \E n \in Names : BeginRenameCategory(r, c, n)
  BY <1>1, <1>7 DEF BeginDeleteCategory, BeginRenameCategory
<1>8. CASE \E t \in Tasks :
             BeginDeleteTask(r, t) \/ \E c \in Categories \cup {None} : BeginRegroup(r, t, c)
  BY <1>1, <1>8 DEF BeginDeleteTask, BeginRegroup, Fits, LiveCategories
<1> QED BY <1>2, <1>3, <1>4, <1>5, <1>6, <1>7, <1>8 DEF Begin

(* Commit by commit, what the foreign keys keep and what they do not.      *)
LEMMA HomeCommit ==
  ASSUME TypeOK, HomeInv, NEW r \in Requests, Commit(r)
  PROVE  NothingDangles' /\ CategoryAtHome'
<1> DEFINE Fine == NothingDangles' /\ CategoryAtHome'
<1> USE DEF HomeInv, NothingDangles, CategoryAtHome, LiveProjects, LiveCategories, LiveTasks
<1>1. CASE CommitDeleteScope(r)
  BY <1>1 DEF CommitDeleteScope, In
<1>2. ASSUME NEW p \in Projects, CommitCreateProject(r, p) PROVE Fine
  BY <1>2 DEF CommitCreateProject, TypeOK
<1>3. CASE CommitMoveProject(r)
  <2>1. \A p \in Projects : project'[p] = IF p = req[r].id THEN [project[p] EXCEPT !.scope = req[r].arg] ELSE project[p]
    BY <1>3 DEF CommitMoveProject, TypeOK
  <2>2. project[req[r].id] \in Project /\ req[r].id \in Projects /\ req[r].arg \in scopes
    BY <1>3 DEF CommitMoveProject, TypeOK
  <2>3. \A p \in LiveProjects' : p \in LiveProjects /\ project'[p].scope \in scopes
    BY <2>1, <2>2 DEF Project
  <2>4. [project[req[r].id] EXCEPT !.scope = req[r].arg] \in Project
    BY <2>2 DEF Project, TypeOK
  <2>5. LiveProjects \subseteq LiveProjects'
    BY <2>1, <2>4
  <2> QED BY <1>3, <2>3, <2>5 DEF CommitMoveProject
<1>4. ASSUME NEW op \in {"archive", "unarchive"}, CommitArchive(r, op) PROVE Fine
  <2>1. PICK b \in BOOLEAN : b = (op = "archive")
    OBVIOUS
  <2>2. project' = [project EXCEPT ![req[r].id].archived = b]
    BY <1>4, <2>1, Zenon DEF CommitArchive
  <2>3. \A p \in Projects : project'[p] =
          IF p = req[r].id THEN [project[p] EXCEPT !.archived = b] ELSE project[p]
    BY <2>2 DEF TypeOK
  <2>4. project[req[r].id] \in Project /\ req[r].id \in Projects
    BY <1>4 DEF CommitArchive, TypeOK
  <2>5. \A p \in LiveProjects' : p \in LiveProjects /\ project'[p].scope \in scopes
    BY <2>3, <2>4 DEF Project
  <2>6. [project[req[r].id] EXCEPT !.archived = b] \in Project
    BY <2>4 DEF Project
  <2>7. LiveProjects \subseteq LiveProjects'
    BY <2>3, <2>6
  <2> QED BY <1>4, <2>5, <2>7 DEF CommitArchive
<1>5. CASE CommitDeleteProject(r)
  <2>1. \A c \in Categories : category'[c] =
          IF category[c] # None /\ category[c].project = req[r].id THEN None ELSE category[c]
    BY <1>5 DEF CommitDeleteProject
  <2>2. \A t \in Tasks : task'[t] =
          IF task[t] # None /\ task[t].project = req[r].id THEN None ELSE task[t]
    BY <1>5 DEF CommitDeleteProject
  <2>3. LiveProjects' = LiveProjects \ {req[r].id}
        /\ \A p \in LiveProjects' : project'[p] = project[p]
    BY <1>5 DEF CommitDeleteProject, TypeOK
  <2>4. scopes' = scopes
    BY <1>5 DEF CommitDeleteProject
  <2> QED BY <2>1, <2>2, <2>3, <2>4
<1>6. ASSUME NEW c \in Categories, CommitCreateCategory(r, c) PROVE Fine
  BY <1>6 DEF CommitCreateCategory, TypeOK
<1>7. CASE CommitRenameCategory(r)
  <2>1. \A c \in Categories : category'[c] =
          IF c = req[r].id THEN [category[c] EXCEPT !.name = req[r].arg] ELSE category[c]
    BY <1>7 DEF CommitRenameCategory, TypeOK
  <2>2. category[req[r].id] \in Category /\ req[r].id \in Categories
    BY <1>7 DEF CommitRenameCategory, TypeOK
  <2>3. [category[req[r].id] EXCEPT !.name = req[r].arg] \in Category
    BY <1>7, <2>2, RequestShape DEF CommitRenameCategory, Doing, Category
  <2>4. LiveCategories' = LiveCategories
    <3>1. category'[req[r].id] # None /\ category[req[r].id] # None
      BY <2>1, <2>2, <2>3
    <3>2. \A c \in Categories : c # req[r].id => category'[c] = category[c]
      BY <2>1
    <3> QED BY <3>1, <3>2
  <2>5. \A c \in LiveCategories : category'[c].project = category[c].project
    BY <2>1, <2>2 DEF Category
  <2> QED BY <1>7, <2>4, <2>5 DEF CommitRenameCategory
<1>8. CASE CommitDeleteCategory(r)
  <2>1. \A t \in LiveTasks : task[t] \in Task
    BY DEF TypeOK
  <2>2. \A t \in Tasks : task'[t] =
          IF task[t] # None /\ task[t].category = req[r].id THEN [task[t] EXCEPT !.category = None] ELSE task[t]
    BY <1>8 DEF CommitDeleteCategory
  <2>3. \A t \in LiveTasks' : /\ t \in LiveTasks /\ task'[t].project = task[t].project
                              /\ task'[t].category # None =>
                                   task'[t].category = task[t].category /\ task[t].category # req[r].id
    BY <2>1, <2>2 DEF Task
  <2>4. LiveCategories' = LiveCategories \ {req[r].id}
        /\ \A c \in LiveCategories' : category'[c] = category[c]
    BY <1>8 DEF CommitDeleteCategory, TypeOK
  <2> QED BY <1>8, <2>3, <2>4 DEF CommitDeleteCategory
<1>9. ASSUME NEW t \in Tasks, CommitCreateTask(r, t) PROVE Fine
  BY <1>9, RequestShape DEF CommitCreateTask, Doing, TypeOK, RequestFits
<1>10. CASE CommitRegroup(r)
  <2>1. \A t \in Tasks : task'[t] =
          IF t = req[r].id THEN [task[t] EXCEPT !.category = req[r].arg] ELSE task[t]
    BY <1>10 DEF CommitRegroup, TypeOK
  <2>2. task[req[r].id] \in Task /\ req[r].id \in LiveTasks
    BY <1>10 DEF CommitRegroup, TypeOK
  <2>3. req[r].arg # None => req[r].arg \in LiveCategories /\ category[req[r].arg].project = task[req[r].id].project
    BY <1>10, <2>2 DEF CommitRegroup, Doing, RequestFits
  <2>4. \A t \in LiveTasks' : /\ t \in LiveTasks /\ task'[t].project = task[t].project
                              /\ t # req[r].id => task'[t].category = task[t].category
                              /\ t = req[r].id => task'[t].category = req[r].arg
    BY <2>1, <2>2 DEF Task
  <2> QED BY <1>10, <2>2, <2>3, <2>4 DEF CommitRegroup
<1>11. CASE CommitDeleteTask(r)
  BY <1>11 DEF CommitDeleteTask, TypeOK
<1> QED
  BY <1>1, <1>2, <1>3, <1>4, <1>5, <1>6, <1>7, <1>8, <1>9, <1>10, <1>11 DEF Commit

LEMMA HomeStep ==
  ASSUME TypeOK, HomeInv, [Next]_vars
  PROVE  HomeInv'
<1>1. ASSUME UNCHANGED tree PROVE NothingDangles' /\ CategoryAtHome'
  BY <1>1 DEF tree, HomeInv, NothingDangles, CategoryAtHome, LiveProjects, LiveCategories, LiveTasks
<1>2. CASE UNCHANGED vars
  BY <1>1, <1>2 DEF vars, tree, HomeInv, RequestFits, LiveCategories, LiveTasks
<1>3. ASSUME NEW r \in Requests, NEW s \in Scopes, CreateScope(r, s) PROVE HomeInv'
  BY <1>3 DEF CreateScope, HomeInv, NothingDangles, CategoryAtHome, RequestFits,
              LiveProjects, LiveCategories, LiveTasks
<1>4. ASSUME NEW r \in Requests, Begin(r) PROVE HomeInv'
  BY <1>1, <1>4, BeginType, BeginFits DEF HomeInv
<1>5. ASSUME NEW r \in Requests, Commit(r) PROVE HomeInv'
  BY <1>5, CommitType, CommitSettled, FitsStep, HomeCommit DEF HomeInv
<1>6. ASSUME NEW r \in Requests, Abort(r) PROVE HomeInv'
  <2>1. Settled /\ req' = [req EXCEPT ![r] = None] /\ UNCHANGED tree
    BY <1>6 DEF Abort, Ends, tree, Settled, LiveCategories, LiveTasks
  <2> QED BY <1>1, <2>1, FitsStep DEF HomeInv
<1> QED BY <1>2, <1>3, <1>4, <1>5, <1>6 DEF Next

LEMMA HomeInit == Init => HomeInv
  BY DEF Init, HomeInv, NothingDangles, CategoryAtHome, RequestFits,
         LiveProjects, LiveCategories, LiveTasks

(* However many requests overlap, every row's parent is there.             *)
THEOREM NothingDanglesCorrect == Spec => []NothingDangles
<1>1. TypeOK /\ HomeInv /\ [Next]_vars => HomeInv'
  BY HomeStep
<1>2. HomeInv => NothingDangles
  BY DEF HomeInv
<1> QED BY <1>1, <1>2, HomeInit, TypeCorrect, PTL DEF Spec

(* However many requests overlap, a task's category is one of its project. *)
THEOREM CategoryAtHomeCorrect == Spec => []CategoryAtHome
<1>1. TypeOK /\ HomeInv /\ [Next]_vars => HomeInv'
  BY HomeStep
<1>2. HomeInv => CategoryAtHome
  BY DEF HomeInv
<1> QED BY <1>1, <1>2, HomeInit, TypeCorrect, PTL DEF Spec

-----------------------------------------------------------------------------
(* When requests wait for each other, what the one under way has checked   *)
(* is still so.                                                            *)
Checked(q) ==
  /\ Accepted(q)
  /\ q.op = "deleteScope" => scopes # {q.id}
  /\ q.op = "deleteProject" => project[q.id].archived
  /\ q.op = "createCategory" => NameFree(q.id, q.arg, None)
  /\ q.op = "renameCategory" => NameFree(category[q.id].project, q.arg, q.id)

Current ==
  alone => \A r \in Requests : req[r] # None =>
    Checked(req[r]) /\ \A q \in Requests : q # r => req[q] = None

AloneInv == Current /\ AlwaysAScope /\ NamesDiffer

LEMMA CheckedStays ==
  ASSUME NEW q, UNCHANGED tree, Checked(q)
  PROVE  Checked(q)'
<1>1. Accepted(q)'
  BY DEF Checked, tree, Accepted, In, LiveProjects, LiveCategories, LiveTasks
<1>2. \A p, n, e : NameFree(p, n, e)' <=> NameFree(p, n, e)
  BY DEF tree, NameFree, LiveCategories
<1>3. scopes' = scopes /\ project' = project /\ category' = category
  BY DEF tree
<1> QED BY <1>1, <1>2, <1>3 DEF Checked

LEMMA BeginChecked ==
  ASSUME TypeOK, NEW r \in Requests, Begin(r)
  PROVE  Free(r) /\ \E q : Checked(q) /\ req' = [req EXCEPT ![r] = q]
<1> DEFINE Fine == Free(r) /\ \E q : Checked(q) /\ req' = [req EXCEPT ![r] = q]
<1>1. ASSUME NEW op, NEW id, NEW arg, Starts(r, op, id, arg),
             Checked([op |-> op, id |-> id, arg |-> arg])
      PROVE  Fine
  BY <1>1 DEF Starts
<1>2. ASSUME NEW s \in Scopes, BeginDeleteScope(r, s) \/ BeginCreateProject(r, s) PROVE Fine
  BY <1>1, <1>2 DEF BeginDeleteScope, BeginCreateProject, Checked, Accepted
<1>3. ASSUME NEW p \in Projects, NEW s \in Scopes, BeginMoveProject(r, p, s) PROVE Fine
  BY <1>1, <1>3 DEF BeginMoveProject, Checked, Accepted
<1>4. ASSUME NEW p \in Projects, NEW op \in {"archive", "unarchive"}, BeginArchive(r, p, op) PROVE Fine
  BY <1>1, <1>4 DEF BeginArchive, Checked, Accepted
<1>5. ASSUME NEW p \in Projects, BeginDeleteProject(r, p) PROVE Fine
  BY <1>1, <1>5 DEF BeginDeleteProject, Checked, Accepted
<1>6. ASSUME NEW p \in Projects, NEW n \in Names, BeginCreateCategory(r, p, n) PROVE Fine
  BY <1>1, <1>6 DEF BeginCreateCategory, Checked, Accepted
<1>7. ASSUME NEW p \in Projects, NEW c \in Categories \cup {None}, BeginCreateTask(r, p, c) PROVE Fine
  BY <1>1, <1>7 DEF BeginCreateTask, Fits, Checked, Accepted
<1>8. ASSUME NEW c \in Categories, BeginDeleteCategory(r, c) PROVE Fine
  BY <1>1, <1>8 DEF BeginDeleteCategory, Checked, Accepted
<1>9. ASSUME NEW c \in Categories, NEW n \in Names, BeginRenameCategory(r, c, n) PROVE Fine
  BY <1>1, <1>9 DEF BeginRenameCategory, Checked, Accepted
<1>10. ASSUME NEW t \in Tasks, BeginDeleteTask(r, t) PROVE Fine
  BY <1>1, <1>10 DEF BeginDeleteTask, Checked, Accepted
<1>11. ASSUME NEW t \in Tasks, NEW c \in Categories \cup {None}, BeginRegroup(r, t, c) PROVE Fine
  BY <1>1, <1>11 DEF BeginRegroup, Fits, Checked, Accepted
<1> QED
  BY <1>2, <1>3, <1>4, <1>5, <1>6, <1>7, <1>8, <1>9, <1>10, <1>11 DEF Begin

LEMMA CurrentStep ==
  ASSUME TypeOK, Current, [Next]_vars
  PROVE  Current'
<1>1. ASSUME UNCHANGED <<tree, req, alone>> PROVE Current'
  BY <1>1, CheckedStays DEF Current
<1>2. CASE UNCHANGED vars
  BY <1>1, <1>2 DEF vars, tree
<1>3. ASSUME NEW r \in Requests, NEW s \in Scopes, CreateScope(r, s), alone' = alone PROVE Current'
  BY <1>3 DEF CreateScope, Free, Current
<1>4. ASSUME NEW r \in Requests, Begin(r), alone' = alone PROVE Current'
  <2>1. PICK q : Checked(q) /\ req' = [req EXCEPT ![r] = q]
    BY <1>4, BeginChecked
  <2>2. UNCHANGED tree /\ Free(r)
    BY <1>4, BeginType, BeginChecked
  <2>3. Checked(q)'
    BY <2>1, <2>2, CheckedStays
  <2>4. alone => \A p \in Requests : p # r => req'[p] = None
    BY <2>1, <2>2 DEF Free, TypeOK
  <2>5. req'[r] = q
    BY <2>1 DEF TypeOK
  <2> QED BY <1>4, <2>3, <2>4, <2>5 DEF Current
<1>5. ASSUME NEW r \in Requests, req[r] # None, req' = [req EXCEPT ![r] = None], alone' = alone
      PROVE  Current'
  BY <1>5 DEF Current, TypeOK
<1>6. ASSUME NEW r \in Requests, Commit(r) \/ Abort(r) PROVE req[r] # None
  BY <1>6 DEF Commit, Abort, Doing, CommitDeleteScope, CommitCreateProject, CommitMoveProject,
              CommitArchive, CommitDeleteProject, CommitCreateCategory, CommitRenameCategory,
              CommitDeleteCategory, CommitCreateTask, CommitRegroup, CommitDeleteTask
<1>7. ASSUME NEW r \in Requests, Commit(r) \/ Abort(r), alone' = alone PROVE Current'
  BY <1>5, <1>6, <1>7, CommitType DEF Abort, Ends
<1> QED BY <1>2, <1>3, <1>4, <1>7 DEF Next

(* Only a deletion takes a scope away, and it has seen another.            *)
LEMMA ScopeStep ==
  ASSUME TypeOK, AloneInv, [Next]_vars
  PROVE  AlwaysAScope'
<1>1. ASSUME scopes \subseteq scopes', alone' = alone PROVE AlwaysAScope'
  BY <1>1 DEF AloneInv, AlwaysAScope, SomeScope
<1>2. CASE UNCHANGED vars
  BY <1>1, <1>2 DEF vars
<1>3. ASSUME NEW r \in Requests, NEW s \in Scopes, CreateScope(r, s), alone' = alone PROVE AlwaysAScope'
  BY <1>1, <1>3 DEF CreateScope
<1>4. ASSUME NEW r \in Requests, Begin(r) \/ Abort(r), alone' = alone PROVE AlwaysAScope'
  BY <1>1, <1>4, BeginType DEF Abort, tree
<1>5. ASSUME NEW r \in Requests, CommitDeleteScope(r), alone' = alone PROVE AlwaysAScope'
  <2>1. alone => scopes # {req[r].id}
    BY <1>5 DEF CommitDeleteScope, Doing, AloneInv, Current, Checked
  <2> QED BY <1>5, <2>1 DEF CommitDeleteScope, AlwaysAScope, SomeScope
<1>6. ASSUME NEW r \in Requests, Commit(r), alone' = alone PROVE AlwaysAScope'
  BY <1>1, <1>5, <1>6
     DEF Commit, CommitCreateProject, CommitMoveProject,
         CommitArchive, CommitDeleteProject, CommitCreateCategory, CommitRenameCategory,
         CommitDeleteCategory, CommitCreateTask, CommitRegroup, CommitDeleteTask
<1> QED BY <1>2, <1>3, <1>4, <1>6 DEF Next

(* Only a creation and a renaming give a name, and it was free.            *)
LEMMA NamesStep ==
  ASSUME TypeOK, AloneInv, [Next]_vars
  PROVE  NamesDiffer'
<1>1. ASSUME alone' = alone, \A c \in LiveCategories' : c \in LiveCategories /\ category'[c] = category[c]
      PROVE  NamesDiffer'
  BY <1>1 DEF AloneInv, NamesDiffer
<1>2. ASSUME alone' = alone, category' = category PROVE NamesDiffer'
  BY <1>1, <1>2 DEF LiveCategories
<1>3. CASE UNCHANGED vars
  BY <1>2, <1>3 DEF vars
<1>4. ASSUME NEW r \in Requests, NEW s \in Scopes, CreateScope(r, s), alone' = alone PROVE NamesDiffer'
  BY <1>2, <1>4 DEF CreateScope
<1>5. ASSUME NEW r \in Requests, Begin(r) \/ Abort(r), alone' = alone PROVE NamesDiffer'
  BY <1>2, <1>5, BeginType DEF Abort, tree
<1>6. ASSUME NEW r \in Requests, CommitDeleteProject(r) \/ CommitDeleteCategory(r), alone' = alone
      PROVE  NamesDiffer'
  BY <1>1, <1>6 DEF CommitDeleteProject, CommitDeleteCategory, LiveCategories, TypeOK
<1>7. ASSUME NEW r \in Requests, NEW c \in Categories, CommitCreateCategory(r, c), alone' = alone
      PROVE  NamesDiffer'
  <2>1. alone => NameFree(req[r].id, req[r].arg, None)
    BY <1>7 DEF CommitCreateCategory, Doing, AloneInv, Current, Checked
  <2>2. \A d \in Categories :
          category'[d] = IF d = c THEN [project |-> req[r].id, name |-> req[r].arg] ELSE category[d]
    BY <1>7 DEF CommitCreateCategory, TypeOK
  <2>3. alone => \A d \in LiveCategories : ~(category[d].project = req[r].id /\ category[d].name = req[r].arg)
    BY <2>1 DEF NameFree, LiveCategories
  <2> QED BY <1>7, <2>2, <2>3 DEF AloneInv, NamesDiffer, LiveCategories
<1>8. ASSUME NEW r \in Requests, CommitRenameCategory(r), alone' = alone PROVE NamesDiffer'
  <2> DEFINE c == req[r].id
  <2>1. c \in LiveCategories /\ category[c] \in Category
    BY <1>8 DEF CommitRenameCategory, LiveCategories, TypeOK
  <2>2. alone => NameFree(category[c].project, req[r].arg, c)
    BY <1>8 DEF CommitRenameCategory, Doing, AloneInv, Current, Checked
  <2>3. \A d \in Categories :
          category'[d] = IF d = c THEN [category[c] EXCEPT !.name = req[r].arg] ELSE category[d]
    BY <1>8 DEF CommitRenameCategory, TypeOK
  <2>4. category'[c].project = category[c].project /\ category'[c].name = req[r].arg
    BY <2>1, <2>3 DEF Category, LiveCategories
  <2>5. \A d \in LiveCategories' : d = c \/ (d \in LiveCategories /\ category'[d] = category[d])
    BY <2>3 DEF LiveCategories
  <2>6. alone => \A d \in LiveCategories :
          category[d].project = category[c].project /\ category[d].name = req[r].arg => d = c
    BY <2>2 DEF NameFree
  <2> QED BY <1>8, <2>4, <2>5, <2>6 DEF AloneInv, NamesDiffer
<1>9. ASSUME NEW r \in Requests, Commit(r), alone' = alone PROVE NamesDiffer'
  BY <1>2, <1>6, <1>7, <1>8, <1>9
     DEF Commit, CommitDeleteScope, CommitCreateProject, CommitMoveProject,
         CommitArchive, CommitCreateTask, CommitRegroup, CommitDeleteTask
<1> QED BY <1>3, <1>4, <1>5, <1>9 DEF Next

LEMMA AloneInit == Init => AloneInv
  BY DEF Init, AloneInv, Current, AlwaysAScope, SomeScope, NamesDiffer, LiveCategories

LEMMA AloneCorrect == Spec => []AloneInv
<1>1. TypeOK /\ AloneInv /\ [Next]_vars => AloneInv'
  BY CurrentStep, ScopeStep, NamesStep DEF AloneInv
<1> QED BY <1>1, AloneInit, TypeCorrect, PTL DEF Spec

(* Requests that wait for each other never leave a user without a scope.   *)
THEOREM AlwaysAScopeCorrect == Spec => []AlwaysAScope
<1>1. AloneInv => AlwaysAScope
  BY DEF AloneInv
<1> QED BY <1>1, AloneCorrect, PTL

(* Nor two categories of a project with one name.                          *)
THEOREM NamesDifferCorrect == Spec => []NamesDiffer
<1>1. AloneInv => NamesDiffer
  BY DEF AloneInv
<1> QED BY <1>1, AloneCorrect, PTL

(* So what the two checks keep for requests that wait is kept.             *)
THEOREM ChecksHoldCorrect == Spec => []ChecksHold
<1>1. AlwaysAScope /\ NamesDiffer => ChecksHold
  BY DEF ChecksHold
<1> QED BY <1>1, AlwaysAScopeCorrect, NamesDifferCorrect, PTL

(* And the tree is whole, however requests overlap.                        *)
THEOREM TreeWholeCorrect == Spec => []TreeWhole
<1>1. NothingDangles /\ CategoryAtHome => TreeWhole
  BY DEF TreeWhole
<1> QED BY <1>1, NothingDanglesCorrect, CategoryAtHomeCorrect, PTL

(* Nor does one of them run into a foreign key.                            *)
THEOREM GuardsSufficeCorrect == Spec => []GuardsSuffice
<1>1. AloneInv => GuardsSuffice
  BY DEF AloneInv, Current, Checked, GuardsSuffice
<1> QED BY <1>1, AloneCorrect, PTL

(* And a project they delete is archived when it goes.                     *)
THEOREM ArchivedFirstCorrect == Spec => ArchivedFirst
<1>1. ASSUME TypeOK, AloneInv, [Next]_vars, alone
      PROVE  \A p \in LiveProjects : p \notin LiveProjects' => project[p].archived
  <2>1. ASSUME project' = project PROVE LiveProjects' = LiveProjects
    BY <2>1 DEF LiveProjects
  <2>2. CASE UNCHANGED vars
    BY <2>1, <2>2 DEF vars
  <2>3. ASSUME NEW r \in Requests, (\E s \in Scopes : CreateScope(r, s)) \/ Begin(r) \/ Abort(r)
        PROVE  LiveProjects' = LiveProjects
    <3>1. CASE \E s \in Scopes : CreateScope(r, s)
      BY <2>1, <3>1 DEF CreateScope
    <3>2. CASE Begin(r)
      BY <1>1, <2>1, <3>2, BeginType DEF tree
    <3>3. CASE Abort(r)
      BY <2>1, <3>3 DEF Abort, tree
    <3> QED BY <2>3, <3>1, <3>2, <3>3
  <2>4. ASSUME NEW r \in Requests, CommitDeleteProject(r)
        PROVE  \A p \in LiveProjects : p \notin LiveProjects' => project[p].archived
    <3>1. project[req[r].id].archived
      BY <1>1, <2>4, Zenon DEF CommitDeleteProject, Doing, AloneInv, Current, Checked
    <3>2. \A p \in LiveProjects : p = req[r].id \/ p \in LiveProjects'
      BY <1>1, <2>4 DEF CommitDeleteProject, LiveProjects, TypeOK
    <3> QED BY <3>1, <3>2
  <2>5. ASSUME NEW r \in Requests, Commit(r), ~CommitDeleteProject(r)
        PROVE  LiveProjects \subseteq LiveProjects'
    <3>1. ASSUME NEW p \in Projects, NEW row \in Project, project' = [project EXCEPT ![p] = row]
          PROVE  LiveProjects \subseteq LiveProjects'
      BY <1>1, <3>1 DEF LiveProjects, TypeOK
    <3>2. ASSUME NEW p \in Projects, CommitCreateProject(r, p) PROVE LiveProjects \subseteq LiveProjects'
      BY <1>1, <3>1, <3>2, RequestShape DEF CommitCreateProject, Doing, Project
    <3>3. CASE CommitMoveProject(r)
      BY <1>1, <3>1, <3>3, RequestShape DEF CommitMoveProject, Doing, LiveProjects, Project, TypeOK
    <3>4. ASSUME NEW op \in {"archive", "unarchive"}, CommitArchive(r, op)
          PROVE  LiveProjects \subseteq LiveProjects'
      <4>1. PICK b \in BOOLEAN : b = (op = "archive")
        OBVIOUS
      <4>2. project' = [project EXCEPT ![req[r].id].archived = b] /\ req[r].id \in LiveProjects
        BY <3>4, <4>1, Zenon DEF CommitArchive
      <4> QED BY <1>1, <3>1, <4>2 DEF LiveProjects, Project, TypeOK
    <3> QED
      BY <2>1, <2>5, <3>2, <3>3, <3>4
         DEF Commit, CommitDeleteScope, CommitCreateCategory, CommitRenameCategory,
             CommitDeleteCategory, CommitCreateTask, CommitRegroup, CommitDeleteTask
  <2> QED BY <1>1, <2>2, <2>3, <2>4, <2>5 DEF Next
<1>2. TypeOK /\ AloneInv /\ [Next]_vars =>
        [alone => \A p \in LiveProjects : p \notin LiveProjects' => project[p].archived]_vars
  BY <1>1
<1> QED BY <1>2, TypeCorrect, AloneCorrect, PTL DEF Spec, ArchivedFirst

-----------------------------------------------------------------------------
(* What a step may take along, which WorkStays asks of every step.         *)
TakesOnly ==
  /\ scopes \subseteq scopes' \/ UNCHANGED <<project, category, task>>
  /\ \A t \in LiveTasks : t \notin LiveTasks' =>
       task[t].project \notin LiveProjects' \/ UNCHANGED <<scopes, project, category>>

(* A write that leaves the scopes and takes no task, or takes tasks alone. *)
LEMMA TakesNothing ==
  ASSUME scopes \subseteq scopes', LiveTasks \subseteq LiveTasks' \/ UNCHANGED <<scopes, project, category>>
  PROVE  TakesOnly
  BY DEF TakesOnly

(* Write by write: only an empty scope goes, only a project takes tasks.   *)
LEMMA CommitTakes ==
  ASSUME TypeOK, NEW r \in Requests, Commit(r)
  PROVE  TakesOnly
<1>1. ASSUME UNCHANGED <<scopes, task>> PROVE TakesOnly
  BY <1>1, TakesNothing DEF LiveTasks
<1>2. CASE CommitDeleteScope(r)
  BY <1>2 DEF CommitDeleteScope, TakesOnly, LiveTasks
<1>3. CASE \E p \in Projects : CommitCreateProject(r, p)
  BY <1>1, <1>3 DEF CommitCreateProject
<1>4. CASE CommitMoveProject(r)
  BY <1>1, <1>4 DEF CommitMoveProject
<1>5. CASE \E op \in {"archive", "unarchive"} : CommitArchive(r, op)
  BY <1>1, <1>5 DEF CommitArchive
<1>6. CASE CommitDeleteProject(r)
  <2>1. /\ project' = [project EXCEPT ![req[r].id] = None] /\ UNCHANGED scopes
        /\ task' = [t \in Tasks |->
             IF t \in LiveTasks /\ task[t].project = req[r].id THEN None ELSE task[t]]
    BY <1>6 DEF CommitDeleteProject
  <2>2. req[r].id \notin LiveProjects'
    BY <2>1 DEF LiveProjects, TypeOK
  <2>3. \A t \in LiveTasks : t \notin LiveTasks' => task[t].project = req[r].id
    BY <2>1 DEF LiveTasks
  <2> QED BY <2>1, <2>2, <2>3 DEF TakesOnly
<1>7. CASE \E c \in Categories : CommitCreateCategory(r, c)
  BY <1>1, <1>7 DEF CommitCreateCategory
<1>8. CASE CommitRenameCategory(r)
  BY <1>1, <1>8 DEF CommitRenameCategory
<1>9. CASE CommitDeleteCategory(r)
  <2>1. \A t \in LiveTasks : task[t] \in Task /\ [task[t] EXCEPT !.category = None] \in Task
    BY DEF LiveTasks, TypeOK, Task
  <2>2. \A t \in LiveTasks : task'[t] = task[t] \/ task'[t] = [task[t] EXCEPT !.category = None]
    BY <1>9 DEF CommitDeleteCategory, LiveTasks
  <2>3. LiveTasks \subseteq LiveTasks'
    BY <2>1, <2>2 DEF LiveTasks
  <2> QED BY <1>9, <2>3, TakesNothing DEF CommitDeleteCategory
<1>10. CASE \E t \in Tasks : CommitCreateTask(r, t)
  <2>1. PICK t \in Tasks : CommitCreateTask(r, t)
    BY <1>10
  <2>2. \A u \in LiveTasks : task'[u] = task[u]
    BY <2>1 DEF CommitCreateTask, LiveTasks, TypeOK
  <2> QED BY <2>1, <2>2, TakesNothing DEF CommitCreateTask, LiveTasks
<1>11. CASE CommitRegroup(r)
  <2>1. req[r].id \in Tasks /\ task[req[r].id] \in Task /\ req[r].arg \in Categories \cup {None}
    BY <1>11, RequestShape DEF CommitRegroup, Doing, LiveTasks, TypeOK
  <2>2. [task[req[r].id] EXCEPT !.category = req[r].arg] \in Task
    BY <2>1 DEF Task
  <2>3. \A t \in Tasks : task'[t] =
          IF t = req[r].id THEN [task[t] EXCEPT !.category = req[r].arg] ELSE task[t]
    BY <1>11 DEF CommitRegroup, TypeOK
  <2>4. LiveTasks \subseteq LiveTasks'
    BY <2>2, <2>3 DEF LiveTasks
  <2> QED BY <1>11, <2>4, TakesNothing DEF CommitRegroup
<1>12. CASE CommitDeleteTask(r)
  BY <1>12, TakesNothing DEF CommitDeleteTask
<1> QED
  BY <1>2, <1>3, <1>4, <1>5, <1>6, <1>7, <1>8, <1>9, <1>10, <1>11, <1>12 DEF Commit

LEMMA TakesStep ==
  ASSUME TypeOK, [Next]_vars
  PROVE  TakesOnly
<1>1. ASSUME UNCHANGED tree PROVE TakesOnly
  BY <1>1 DEF tree, TakesOnly
<1>2. CASE UNCHANGED vars
  BY <1>1, <1>2 DEF vars, tree
<1>3. ASSUME NEW r \in Requests, NEW s \in Scopes, CreateScope(r, s) PROVE TakesOnly
  BY <1>3, TakesNothing DEF CreateScope, LiveTasks
<1>4. ASSUME NEW r \in Requests, Begin(r) PROVE TakesOnly
  BY <1>1, <1>4, BeginType
<1>5. ASSUME NEW r \in Requests, Commit(r) PROVE TakesOnly
  BY <1>5, CommitTakes
<1>6. ASSUME NEW r \in Requests, Abort(r) PROVE TakesOnly
  BY <1>1, <1>6 DEF Abort
<1> QED BY <1>2, <1>3, <1>4, <1>5, <1>6 DEF Next

(* However many requests overlap, a scope goes only when it is empty, and a*)
(* task only with its project or all by itself.                            *)
THEOREM WorkStaysCorrect == Spec => WorkStays
<1>1. TypeOK /\ [Next]_vars => TakesOnly
  BY TakesStep
<1> QED BY <1>1, TypeCorrect, PTL DEF Spec, WorkStays, TakesOnly
=============================================================================
