------------------------------- MODULE Reminders -------------------------------
(***************************************************************************)
(* The alarms that a phone is asked to ring (reminder_scheduler.dart,      *)
(* reminder_providers.dart, domain/reminder_schedule.dart).  Each change   *)
(* of what the board asks for, or of the hour in the settings, and each    *)
(* return to the app begins a resync, which computes the whole schedule,   *)
(* cancels what is not in it and arms what is, one call of the system at a *)
(* time.  Nothing stops a resync when the next one begins, and the system  *)
(* may lose its alarms at any time.                                        *)
(*                                                                         *)
(* A moment is a number; the hour of the settings is what a day's reminder *)
(* without a time is late by.  Whether alarms are exact, and what they     *)
(* say, is left out.                                                       *)
(***************************************************************************)
EXTENDS Naturals, Sequences

CONSTANTS
  Boards,      \* what the board may ask for: sequences of [task, day, time],
               \* time a set of at most one
  Hours,       \* the hours that may be set
  IdOf,        \* notificationIdForTask; two tasks may share one
  BenchAlarm,  \* an alarm of the bench, no reminder's, under a reserved id
  MaxSyncs,    \* bound: resyncs begun
  MaxMoment    \* bound: the clock stops here

ASSUME RemindersAssumption ==
  /\ Boards \subseteq Seq([task : DOMAIN IdOf, day : Nat, time : SUBSET Nat])
  /\ Hours \subseteq Nat /\ MaxMoment \in Nat
  /\ BenchAlarm.fireAt \in Nat /\ \A t \in DOMAIN IdOf : IdOf[t] # BenchAlarm.id

VARIABLES
  moment,   \* the clock
  targets,  \* reminderTargets
  hour,     \* reminderSettings
  alarms,   \* what the system has armed
  syncs,    \* the resyncs under way
  begunSyncs,
  right,    \* {the moment of its plan} if the last resync to begin had no other
            \* beside it and ended well, and no alarm was lost meanwhile or since
  benchLost \* has the system lost the bench's alarm?

alarmVars == <<moment, targets, hour, alarms, syncs, begunSyncs, right, benchLost>>

-----------------------------------------------------------------------------
(* domain/reminder_schedule.dart                                           *)

reminderFireTime(r, at) ==
  r.day + (CHOOSE x \in (IF r.time = {} THEN {at} ELSE r.time) : TRUE)

AlarmOf(r, at) ==
  [id |-> IdOf[r.task], task |-> r.task, fireAt |-> reminderFireTime(r, at)]

\* A reminder of the past is skipped, and one whose id is taken.
Scheduled(schedule, alarm, now) ==
  IF alarm.fireAt > now /\ \A a \in schedule : a.id # alarm.id
  THEN schedule \cup {alarm} ELSE schedule

buildReminderSchedule(reminders, at, now) ==
  LET upTo[n \in 0..Len(reminders)] ==
        IF n = 0 THEN {} ELSE Scheduled(upTo[n - 1], AlarmOf(reminders[n], at), now)
  IN upTo[Len(reminders)]

\* The schedule is sorted by the moment, then by the id.
Earlier(a, b) == a.fireAt < b.fireAt \/ (a.fireAt = b.fireAt /\ a.id < b.id)

-----------------------------------------------------------------------------
(* reminder_providers.dart: what begins a resync.                          *)

NewSync(reminders, at, beside) ==
  [n |-> begunSyncs + 1, stage |-> "asked", requested |-> reminders, at |-> at,
   planned |-> 0, schedule |-> {}, wanted |-> {}, cancelling |-> {}, crossed |-> beside]

BeginSync(reminders, at) ==
  /\ begunSyncs < MaxSyncs /\ begunSyncs' = begunSyncs + 1
  /\ syncs' = {[s EXCEPT !.crossed = TRUE] : s \in syncs} \cup {NewSync(reminders, at, syncs # {})}
  /\ right' = {}

Resync ==
  /\ BeginSync(targets, hour)
  /\ UNCHANGED <<moment, targets, hour, alarms, benchLost>>

\* boardReminderBridge has a new list of the board.
replaceWith(reminders) ==
  /\ targets' = reminders
  /\ BeginSync(reminders, hour)
  /\ UNCHANGED <<moment, hour, alarms, benchLost>>

setTime(at) ==
  /\ hour' = at
  /\ BeginSync(targets, at)
  /\ UNCHANGED <<moment, targets, alarms, benchLost>>

\* The app is killed and opened again, before there is a board.
Relaunch ==
  /\ begunSyncs < MaxSyncs /\ begunSyncs' = begunSyncs + 1
  /\ targets' = <<>> /\ syncs' = {NewSync(<<>>, hour, FALSE)} /\ right' = {}
  /\ UNCHANGED <<moment, hour, alarms, benchLost>>

-----------------------------------------------------------------------------
(* reminder_scheduler.dart: sync, from one call of the system to the next.  *)

Goes(s, to) == syncs' = (syncs \ {s}) \cup {to}
Untouched == UNCHANGED <<moment, targets, hour, begunSyncs, benchLost>>

PlanSync(s) ==
  /\ s.stage = "asked"
  /\ LET schedule == buildReminderSchedule(s.requested, s.at, moment) IN
     Goes(s, [s EXCEPT !.stage = "planned", !.planned = moment, !.schedule = schedule,
                       !.wanted = {a.id : a \in schedule}])
  /\ UNCHANGED <<alarms, right>> /\ Untouched

\* Of the alarms that are reminders, those that the schedule does not have.
unwanted_Requested(s) ==
  {a.id : a \in alarms \ {BenchAlarm}} \ {IdOf[s.requested[i].task] : i \in DOMAIN s.requested}
unwanted(s) == {a.id : a \in alarms \ {BenchAlarm}} \ s.wanted

ReadPending(s) ==
  /\ s.stage = "planned"
  /\ Goes(s, [s EXCEPT !.stage = "sweeping", !.cancelling = unwanted(s)])
  /\ UNCHANGED <<alarms, right>> /\ Untouched

OthersThan(id) == {a \in alarms : a.id # id}

CancelNext(s) ==
  /\ s.stage = "sweeping"
  /\ \E id \in s.cancelling :
       /\ alarms' = OthersThan(id)
       /\ Goes(s, [s EXCEPT !.cancelling = @ \ {id}])
  /\ UNCHANGED right /\ Untouched

\* An alarm replaces the one of its id.
ArmNext(s) ==
  /\ s.stage = "sweeping" /\ s.cancelling = {}
  /\ \E a \in s.schedule :
       /\ \A b \in s.schedule \ {a} : Earlier(a, b)
       /\ alarms' = OthersThan(a.id) \cup {a}
       /\ Goes(s, [s EXCEPT !.schedule = @ \ {a}])
  /\ UNCHANGED right /\ Untouched

EndSync(s) ==
  /\ s.stage = "sweeping" /\ s.cancelling = {} /\ s.schedule = {}
  /\ syncs' = syncs \ {s}
  /\ right' = IF s.crossed THEN {} ELSE {s.planned}
  /\ UNCHANGED alarms /\ Untouched

\* A call of the system throws, and the rest of the resync with it.
FailSync(s) ==
  /\ syncs' = syncs \ {s}
  /\ UNCHANGED <<alarms, right>> /\ Untouched

-----------------------------------------------------------------------------
(* The system.                                                             *)

Elapse ==
  /\ moment < MaxMoment /\ moment' = moment + 1
  /\ UNCHANGED <<targets, hour, alarms, syncs, begunSyncs, right, benchLost>>

\* On time or, if it is not exact, late.
Ring(a) ==
  /\ a # BenchAlarm /\ a.fireAt <= moment
  /\ alarms' = alarms \ {a}
  /\ UNCHANGED <<moment, targets, hour, syncs, begunSyncs, right, benchLost>>

\* A reboot, a forced stop, the vendor's battery saver.
LoseAlarms ==
  /\ alarms # {} /\ alarms' = {} /\ right' = {} /\ benchLost' = TRUE
  /\ syncs' = {[s EXCEPT !.crossed = TRUE] : s \in syncs}
  /\ UNCHANGED <<moment, targets, hour, begunSyncs>>

-----------------------------------------------------------------------------
AlarmsInit ==
  /\ moment = 0 /\ targets = <<>> /\ hour \in Hours
  /\ alarms = {BenchAlarm} /\ syncs = {} /\ begunSyncs = 0
  /\ right = {} /\ benchLost = FALSE

AlarmsNext ==
  \/ Resync \/ Relaunch
  \/ \E b \in Boards : replaceWith(b)
  \/ \E h \in Hours : setTime(h)
  \/ \E s \in syncs : \/ PlanSync(s) \/ ReadPending(s) \/ CancelNext(s)
                      \/ ArmNext(s) \/ EndSync(s) \/ FailSync(s)
  \/ \E a \in alarms : Ring(a)
  \/ Elapse \/ LoseAlarms

-----------------------------------------------------------------------------
(* Properties.                                                             *)

ToRing(m) ==
  {AlarmOf(targets[i], hour) :
     i \in {i \in DOMAIN targets :
              /\ reminderFireTime(targets[i], hour) > m
              /\ \A j \in 1..(i - 1) : reminderFireTime(targets[j], hour) > m =>
                                         IdOf[targets[j].task] # IdOf[targets[i].task]}}

\* "Whatever the queue looks like", a resync that has no other beside it sets
\* it right (reminder_lifecycle.dart): after crashes, lost alarms, failed and
\* overlapping resyncs, what will ring is what the board asks for at the hour
\* that is set, the first of two tasks that share an id -- and no resync ever
\* takes an alarm that is not a reminder.
AlarmsRepaired ==
  /\ \A m \in right : {a \in alarms \ {BenchAlarm} : a.fireAt > moment}
                        = {a \in ToRing(m) : a.fireAt > moment}
  /\ benchLost \/ BenchAlarm \in alarms
=============================================================================
