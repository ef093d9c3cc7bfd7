------------------------------ MODULE History ------------------------------
(***************************************************************************)
(* The history mode (routes/history.ts, domain/history.ts): what           *)
(* GET /history answers at any moment of the life of a few tasks.  The     *)
(* answer is a function of the journal, the rows and the caller's own time *)
(* zone; nothing on the server counts while time passes.  The variables    *)
(* spent, lasted and finished do: they belong to the properties, and say   *)
(* what really happened.                                                   *)
(*                                                                         *)
(* Time is counted in units of which a day has Day; requests on one task   *)
(* do not overlap (TaskJournal is about those that do).                    *)
(***************************************************************************)
EXTENDS Integers, Sequences, FiniteSets, FiniteSetsExt, Functions

CONSTANTS
  Tasks, Projects,
  HomeOf,       \* the project of each task
  Day,          \* units of time in a day
  Offsets,      \* tzOffsetMinutes callers send, in units of time
  WindowDays,   \* the days of each bounded range: 7 and 30 in the code
  StaleLimit,   \* staleLimit of the request
  MaxClock,     \* bound: time stops here
  MaxJournal    \* bound: a task with so many events is only deleted

Status == {"pending", "done", "blocked"}

ASSUME HistoryAssumption ==
  /\ HomeOf \in [Tasks -> Projects]
  /\ Day \in Nat \ {0} /\ Offsets \subseteq -Day..Day
  /\ WindowDays \subseteq Nat \ {0} /\ StaleLimit \in Nat \ {0}
  /\ MaxClock \in Nat /\ MaxJournal \in [Tasks -> Nat]

VARIABLES
  moment,    \* the clock of the server
  taskRow,   \* of each task: is it there, its status, focusedAt, createdAt
  journal,   \* its task_events, in ascending `at'
  archived,  \* the projects that are archived
  spent,     \* time the task really was in each status
  lasted,    \* time since its status last changed
  finished   \* the moments at which it was really finished, one after another

historyVars == <<moment, taskRow, journal, archived, spent, lasted, finished>>

Nothing == [live |-> FALSE, status |-> "pending", focused |-> FALSE, born |-> 0]
NoTime == [s \in Status |-> 0]

HistoryInit ==
  /\ moment = 0
  /\ taskRow = [t \in Tasks |-> Nothing]
  /\ journal = [t \in Tasks |-> <<>>]
  /\ archived = {}
  /\ spent = [t \in Tasks |-> NoTime]
  /\ lasted = [t \in Tasks |-> 0]
  /\ finished = [t \in Tasks |-> <<>>]

Event(kind, to) == [kind |-> kind, to |-> to, at |-> moment]
Live == {t \in Tasks : taskRow[t].live}
Room(t) == t \in Live /\ Len(journal[t]) < MaxJournal[t]

-----------------------------------------------------------------------------
(* The writes that the history reads.                                      *)

(* POST /projects/:projectId/tasks.                                        *)
Create(t, s) ==
  /\ t \notin Live
  /\ taskRow' = [taskRow EXCEPT ![t] = [live |-> TRUE, status |-> s, focused |-> FALSE, born |-> moment]]
  /\ journal' = [journal EXCEPT ![t] = <<Event("created", s)>>]
  /\ UNCHANGED <<moment, archived, spent, lasted, finished>>

(* PATCH /tasks/:id with another status, and the events it plans.          *)
Move(t, s) ==
  LET leaves == s = "done" /\ taskRow[t].focused IN
  /\ Room(t) /\ s # taskRow[t].status
  /\ taskRow' = [taskRow EXCEPT ![t].status = s, ![t].focused = @ /\ ~leaves]
  /\ journal' = [journal EXCEPT ![t] = @ \o <<Event("status", s)>>
                    \o IF leaves THEN <<Event("unfocused", "none")>> ELSE <<>>]
  /\ lasted' = [lasted EXCEPT ![t] = 0]
  /\ finished' = [finished EXCEPT ![t] = IF s = "done" THEN Append(@, moment) ELSE @]
  /\ UNCHANGED <<moment, archived, spent>>

(* POST and DELETE /tasks/:id/focus.                                       *)
Focus(t) ==
  /\ Room(t) /\ taskRow[t].status # "done" /\ ~taskRow[t].focused
  /\ taskRow' = [taskRow EXCEPT ![t].focused = TRUE]
  /\ journal' = [journal EXCEPT ![t] = Append(@, Event("focused", "none"))]
  /\ UNCHANGED <<moment, archived, spent, lasted, finished>>

Unfocus(t) ==
  /\ Room(t) /\ taskRow[t].focused
  /\ taskRow' = [taskRow EXCEPT ![t].focused = FALSE]
  /\ journal' = [journal EXCEPT ![t] = Append(@, Event("unfocused", "none"))]
  /\ UNCHANGED <<moment, archived, spent, lasted, finished>>

(* DELETE /tasks/:id: the events go with the row.                          *)
Delete(t) ==
  /\ t \in Live
  /\ taskRow' = [taskRow EXCEPT ![t] = Nothing]
  /\ journal' = [journal EXCEPT ![t] = <<>>]
  /\ spent' = [spent EXCEPT ![t] = NoTime]
  /\ lasted' = [lasted EXCEPT ![t] = 0]
  /\ finished' = [finished EXCEPT ![t] = <<>>]
  /\ UNCHANGED <<moment, archived>>

(* POST /projects/:id/archive and /unarchive.                              *)
Archive(p) ==
  /\ archived' = IF p \in archived THEN archived \ {p} ELSE archived \cup {p}
  /\ UNCHANGED <<moment, taskRow, journal, spent, lasted, finished>>

Pass ==
  /\ moment < MaxClock
  /\ moment' = moment + 1
  /\ spent' = [t \in Tasks |->
                 IF t \in Live THEN [spent[t] EXCEPT ![taskRow[t].status] = @ + 1] ELSE spent[t]]
  /\ lasted' = [t \in Tasks |-> IF t \in Live THEN lasted[t] + 1 ELSE lasted[t]]
  /\ UNCHANGED <<taskRow, journal, archived, finished>>

HistoryNext ==
  \/ \E t \in Tasks : \/ \E s \in Status : Create(t, s) \/ Move(t, s)
                      \/ Focus(t) \/ Unfocus(t) \/ Delete(t)
  \/ \E p \in Projects : Archive(p)
  \/ Pass

HistorySpec == HistoryInit /\ [][HistoryNext]_historyVars

-----------------------------------------------------------------------------
(* domain/history.ts                                                       *)

(* \div rounds down, like Math.floor: a moment before midnight UTC may be  *)
(* of the next day, or of the one before, on the caller's calendar.        *)
dayIndex(at, tz) == (at + tz) \div Day

historyRangeStart_Instant(days, tz) == moment - days * Day

historyRangeStart(days, tz) == (dayIndex(moment, tz) - (days - 1)) * Day - tz

(* A range is a number of days, or 0 for "all".                            *)
InRange(at, days, tz) == days = 0 \/ at >= historyRangeStart(days, tz)

(* replayStatusTime, one event of the journal at a time: focus events are  *)
(* walked past, and the interval before the first status counts nowhere.   *)
Replayed_FocusToo(replay, e) ==
  [status |-> IF e.to = "none" THEN replay.status ELSE e.to,
   since  |-> e.at,
   by     |-> IF replay.status = "none" \/ e.to = "none" THEN replay.by
              ELSE [replay.by EXCEPT ![replay.status] = @ + (e.at - replay.since)]]

Replayed(replay, e) ==
  IF e.kind \notin {"created", "status"} \/ e.to = "none" THEN replay
  ELSE [status |-> e.to,
        since  |-> e.at,
        by     |-> IF replay.status = "none" THEN replay.by
                   ELSE [replay.by EXCEPT ![replay.status] = @ + Max({0, e.at - replay.since})]]

replayOf(events, from) ==
  LET after[n \in 0..Len(events)] ==
        IF n = 0 THEN from ELSE Replayed(after[n - 1], events[n])
  IN after[Len(events)]

replayStatusTime(t) ==
  LET end  == replayOf(journal[t], [status |-> "none", since |-> taskRow[t].born, by |-> NoTime])
      open == IF end.status = "none" THEN taskRow[t].status ELSE end.status
  IN [byStatus |-> [end.by EXCEPT ![open] = @ + Max({0, moment - end.since})],
      currentSince |-> end.since]

-----------------------------------------------------------------------------
(* GET /history (routes/history.ts)                                        *)

(* The rows of the one query: openings and closings in the range.          *)
Movements(days, tz) ==
  {m \in UNION {{t} \X DOMAIN journal[t] : t \in Live} :
     LET e == journal[m[1]][m[2]] IN
     /\ e.kind = "created" \/ (e.kind = "status" /\ e.to = "done")
     /\ InRange(e.at, days, tz)}

Closings(movements) == {m \in movements : journal[m[1]][m[2]].kind # "created"}

(* countByDay: every day of a bounded range, and of "all" those that have  *)
(* something on them.                                                      *)
countByDay(closings, days, tz) ==
  LET dayOf(m) == dayIndex(journal[m[1]][m[2]].at, tz)
      axis == IF days = 0 THEN {dayOf(m) : m \in closings}
              ELSE dayIndex(historyRangeStart(days, tz), tz)..dayIndex(moment, tz)
  IN [d \in axis |-> Cardinality({m \in closings : dayOf(m) = d})]

(* Only the projects that moved.                                           *)
byProject(movements) ==
  [p \in {HomeOf[m[1]] : m \in movements} |->
     LET here == {m \in movements : HomeOf[m[1]] = p}
     IN [opened |-> Cardinality(here \ Closings(here)), closed |-> Cardinality(Closings(here))]]

(* "Hangs longest": the open tasks of projects that are not archived, the  *)
(* oldest first, up to the limit.                                          *)
Open_Parked == {t \in Live : taskRow[t].status # "done"}

Open == {t \in Live : taskRow[t].status # "done" /\ HomeOf[t] \notin archived}

ageMs(t) == Max({0, moment - taskRow[t].born})

stale ==
  LET sorted == CHOOSE s \in [1..Cardinality(Open) -> Open] :
                  /\ Range(s) = Open
                  /\ \A i, k \in DOMAIN s : i < k => ageMs(s[i]) >= ageMs(s[k])
  IN SubSeq(sorted, 1, Min({StaleLimit, Len(sorted)}))

-----------------------------------------------------------------------------
(* Properties.                                                             *)

HistoryTypeOK ==
  /\ moment \in 0..MaxClock
  /\ taskRow \in [Tasks -> [live : BOOLEAN, status : Status, focused : BOOLEAN, born : 0..MaxClock]]
  /\ archived \subseteq Projects

(* "The eleven days a task spent blocked" (domain/history.ts): replaying   *)
(* the journal gives exactly the time the task was in each status, through *)
(* any number of moves back and forth, and when the present one began.     *)
TimeAccounted ==
  \A t \in Live : /\ replayStatusTime(t).byStatus = spent[t]
                  /\ moment - replayStatusTime(t).currentSince = lasted[t]

(* What really happened in a project on the days a range is to cover.      *)
Covered(days, tz) ==
  {at \in 0..moment : days = 0 \/ (at + tz) \div Day > (moment + tz) \div Day - days}

ReallyFinished(ts, times) ==
  Cardinality({f \in UNION {{t} \X DOMAIN finished[t] : t \in Live \cap ts} :
                 finished[f[1]][f[2]] \in times})

(* For every range and time zone: the bars are the last days of the        *)
(* caller's own calendar, today the last; each holds what was really       *)
(* finished on that day, the first one from its midnight on; and what the  *)
(* block of projects counts is what happened on those days and no others.  *)
BarsAddUp ==
  \A days \in WindowDays \cup {0}, tz \in Offsets :
    LET today == (moment + tz) \div Day
        moved == byProject(Movements(days, tz))
        bars == countByDay(Closings(Movements(days, tz)), days, tz)
    IN /\ days # 0 => DOMAIN bars = (today - days + 1)..today
       /\ \A d \in DOMAIN bars :
            bars[d] = ReallyFinished(Tasks, {at \in 0..moment : (at + tz) \div Day = d})
       /\ \A p \in Projects :
            LET ofP == {t \in Tasks : HomeOf[t] = p}
                born == {t \in ofP \cap Live : taskRow[t].born \in Covered(days, tz)}
                closed == ReallyFinished(ofP, Covered(days, tz))
            IN IF p \in DOMAIN moved
               THEN moved[p] = [opened |-> Cardinality(born), closed |-> closed]
               ELSE born = {} /\ closed = 0

(* Nothing finished, deleted or deliberately put down is shown as hanging, *)
(* and no task left off the list has hung longer than one on it.           *)
Age(t) == spent[t]["pending"] + spent[t]["done"] + spent[t]["blocked"]

LongestHanging ==
  LET shown == Range(stale) IN
  /\ \A t \in shown : t \in Live /\ taskRow[t].status # "done" /\ HomeOf[t] \notin archived
  /\ \A t \in Live \ shown :
       (taskRow[t].status # "done" /\ HomeOf[t] \notin archived)
         => /\ Len(stale) = StaleLimit
            /\ \A u \in shown : Age(u) >= Age(t)

(* What GET /history answers is what happened.                             *)
AnswerTrue == BarsAddUp /\ LongestHanging
=============================================================================
