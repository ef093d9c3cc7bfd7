---------------------------- MODULE ModelRouter ----------------------------
(***************************************************************************)
(* Parses run against the roster of models: the allowance and the plan     *)
(* (backend/src/routes/dictation.ts), the race, the fallback and "send to  *)
(* several" (backend/src/domain/modelRouter.ts), the outcomes recorded and *)
(* the owner's edits of the list (backend/src/domain/modelRosterStore.ts). *)
(*                                                                         *)
(* Calls of several parses interleave at every await.  Recording one       *)
(* outcome is a transaction that reads the row and then writes it, at a    *)
(* level that does not re-check what was read.                             *)
(***************************************************************************)
EXTENDS ModelRoster, FiniteSets, FiniteSetsExt

CONSTANTS
  Models,      \* ids of roster entries
  Env,         \* the model of the environment, asked while nothing is stored
  None,
  Reqs,        \* parses
  Pasts,       \* what each model may have been through before: [Models -> Seq(entry)]
  Stored,      \* bound: the rosters stored at the start
  Sent,        \* bound: the rosters the owner sends, with the models switched on
  DailyLimit,  \* model calls one user may spend in a day
  MaxEvents    \* bound: edits of the roster and ticks of the clock

ASSUME RouterAssumption ==
  /\ DailyLimit \in Nat /\ MaxEvents \in Nat
  /\ Env \notin Models /\ None \notin Models \cup Reqs \cup {Env}
  /\ Stored \subseteq Seq(Models) /\ \A sent \in Sent : sent.list \in Seq(Models)
  /\ Pasts \subseteq [Models -> Seq([ok : BOOLEAN, at : Nat, by : {None}])]

VARIABLES
  list,    \* the stored roster, in the owner's order
  health,  \* the health of each entry, Clean for one that is not stored
  unborn,  \* ids no entry has had yet
  clock,
  usage,   \* what of the day's allowance the user has spent
  req,     \* each parse: its stage, its plan, its answer
  att,     \* each parse's attempt at each model
  log,     \* of each stored entry, the outcomes since it was last pardoned
  events,  \* edits and ticks so far
  alone    \* outcomes recorded one at a time?  Fixed at Init

routerVars == <<list, health, unborn, clock, usage, req, att, log, events, alone>>

Asked == Models \cup {Env}

(* rosterForParsing: with nothing stored, the one model of the environment.*)
Entries == IF list = <<>> THEN <<Env>> ELSE list

Is(st) == [st |-> st]
NotAsked == [m \in Asked |-> Is("none")]
Idle == [stage |-> "idle", several |-> FALSE, gone |-> FALSE,
         first |-> <<>>, fallback |-> <<>>, answer |-> None]

(* What outcomes have taught, each counted from what the ones before left. *)
Learnt(past) ==
  LET after[n \in 0..Len(past)] ==
        IF n = 0 THEN Clean ELSE afterAttempt(after[n - 1], after[n - 1], past[n].ok, past[n].at)
  IN after[Len(past)]

RouterInit ==
  /\ list \in Stored
  /\ log \in {[m \in Models |-> IF m \in ToSet(list) THEN past[m] ELSE <<>>] : past \in Pasts}
  /\ health = [m \in Asked |-> IF m = Env THEN Clean ELSE Learnt(log[m])]
  /\ unborn = Models \ ToSet(list)
  /\ clock = 1 /\ usage = 0 /\ events = 0
  /\ req = [r \in Reqs |-> Idle]
  /\ att = [r \in Reqs |-> NotAsked]
  /\ alone \in BOOLEAN

At(r, m, st) == att[r][m].st = st
Lost(a) == a.st \in {"bad", "cancelled"}
Settled(a) == a.st \in {"ok", "bad", "cancelled"}
AskedIn(attempts, ms) == [m \in Asked |-> IF m \in ToSet(ms) THEN Is("asking") ELSE attempts[m]]

-----------------------------------------------------------------------------
(* POST /dictation/parse.                                                  *)

(* The roster is read, the plan drawn, the allowance spent; the first      *)
(* models are asked at once.                                               *)
Cost(plan, several) == IF several /\ plan.first # <<>> THEN Len(plan.first) ELSE 1

Begin(r, several) ==
  LET plan == IF several THEN planMulti(Entries, health, clock) ELSE planSingle(Entries, health, clock)
      total == usage + Cost(plan, several)
      As(stage) == [Idle EXCEPT !.stage = stage, !.several = several,
                                !.first = plan.first, !.fallback = plan.fallback]
  IN /\ req[r].stage = "idle"
     /\ usage' = total
     /\ \/ /\ total > DailyLimit
           /\ req' = [req EXCEPT ![r] = As("refused")]
           /\ UNCHANGED att
        \/ /\ total <= DailyLimit /\ plan.first = <<>>
           /\ req' = [req EXCEPT ![r] = As("failed")]
           /\ UNCHANGED att
        \/ /\ total <= DailyLimit /\ plan.first # <<>>
           /\ req' = [req EXCEPT ![r] = As(IF several THEN "several" ELSE "race")]
           /\ att' = [att EXCEPT ![r] = AskedIn(@, plan.first)]
     /\ UNCHANGED <<list, health, unborn, clock, log, events>>

(* The client closes the stream before the answer.  A parse without a      *)
(* stream is one that nobody leaves.                                       *)
Leave(r) ==
  /\ req[r].stage \in {"race", "fallback", "several"}
  /\ ~req[r].gone
  /\ req' = [req EXCEPT ![r].gone = TRUE]
  /\ UNCHANGED <<list, health, unborn, clock, usage, att, log, events>>

-----------------------------------------------------------------------------
(* What a parse does with the end of one of its attempts.                  *)

(* The first answer wins.  A race or a fallback is over with it, and its   *)
(* loser goes on unheard; "several" waits for all.                         *)
Resolve(r, m) ==
  LET now == [att[r] EXCEPT ![m] = Is("ok")]
  IN /\ att' = [att EXCEPT ![r] = now]
     /\ req' = [req EXCEPT
          ![r].answer = IF @ = None THEN m ELSE @,
          ![r].stage  = IF @ = "several" /\ \E n \in ToSet(req[r].first) : ~Settled(now[n])
                        THEN @ ELSE "answered"]

RaceLost_Any(q, now) == \E m \in ToSet(q.first) : Lost(now[m])
RaceLost(q, now) == \A m \in ToSet(q.first) : Lost(now[m])

(* Ended well or badly, "several" is over when its last attempt is.        *)
RejectSeveral(r, now) ==
  /\ req[r].stage = "several"
  /\ att' = [att EXCEPT ![r] = now]
  /\ req' = [req EXCEPT ![r].stage =
       IF \E n \in ToSet(req[r].first) : ~Settled(now[n]) THEN @
       ELSE IF req[r].answer = None THEN "failed" ELSE "answered"]

(* The error a race or a fallback throws: of the first model of the race,  *)
(* or of the model asked last.                                             *)
EndsIt(r, m, now) ==
  now[IF req[r].stage = "race" THEN req[r].first[1] ELSE m].st = "cancelled"

Then(r, attempts, stage) ==
  /\ att' = [att EXCEPT ![r] = attempts]
  /\ req' = [req EXCEPT ![r].stage = stage]

(* The next model of the fallback.  If the client has left, its call is    *)
(* cancelled as it begins, which ends the parse.                           *)
AskNext(r, now, n) ==
  \/ req[r].gone /\ Then(r, [now EXCEPT ![n] = Is("cancelled")], "failed")
  \/ ~req[r].gone /\ Then(r, AskedIn(now, <<n>>), "fallback")

(* The first failures of a race change nothing, nor does a failure after   *)
(* the answer; a cancellation ends the parse; another failure asks the     *)
(* next model.                                                             *)
RejectSingle(r, m, now) ==
  LET q    == req[r]
      left == Only(q.fallback, {n \in Asked : now[n].st = "none"})
  IN \/ (q.stage = "answered" \/ (q.stage = "race" /\ ~RaceLost(q, now))) /\ Then(r, now, q.stage)
     \/ /\ q.stage = "fallback" \/ (q.stage = "race" /\ RaceLost(q, now))
        /\ \/ (EndsIt(r, m, now) \/ left = <<>>) /\ Then(r, now, "failed")
           \/ ~EndsIt(r, m, now) /\ left # <<>> /\ AskNext(r, now, left[1])

Reject(r, m, st) ==
  LET now == [att[r] EXCEPT ![m] = Is(st)]
  IN RejectSeveral(r, now) \/ RejectSingle(r, m, now)

Settle(r, m, ok) == (ok /\ Resolve(r, m)) \/ (~ok /\ Reject(r, m, "bad"))

-----------------------------------------------------------------------------
(* One attempt.                                                            *)

(* The call is cut off because the client left: nothing is recorded.       *)
CutOff(r, m) ==
  /\ At(r, m, "asking") /\ req[r].gone
  /\ Reject(r, m, "cancelled")
  /\ UNCHANGED <<list, health, unborn, clock, usage, log, events>>

Recording == \E r \in Reqs, m \in Asked : At(r, m, "noting")

(* The model answers or fails, and recordAttempt reads its row; an entry   *)
(* without one records nothing.                                            *)
Note_Planned(r, m, ok) ==
  /\ At(r, m, "asking") /\ (alone => ~Recording)
  /\ \/ /\ m \in ToSet(list)
        /\ att' = [att EXCEPT ![r][m] = [st |-> "noting", ok |-> ok, at |-> clock, seen |-> Clean]]
        /\ UNCHANGED req
     \/ m \notin ToSet(list) /\ Settle(r, m, ok)
  /\ UNCHANGED <<list, health, unborn, clock, usage, log, events>>

Note(r, m, ok) ==
  /\ At(r, m, "asking") /\ (alone => ~Recording)
  /\ \/ /\ m \in ToSet(list)
        /\ att' = [att EXCEPT ![r][m] = [st |-> "noting", ok |-> ok, at |-> clock, seen |-> health[m]]]
        /\ UNCHANGED req
     \/ m \notin ToSet(list) /\ Settle(r, m, ok)
  /\ UNCHANGED <<list, health, unborn, clock, usage, log, events>>

(* It writes what the attempt taught, counted from the row it read; the    *)
(* update of a removed row fails, and the failure is only logged.          *)
WriteRow(r, m) ==
  /\ At(r, m, "noting")
  /\ LET a == att[r][m]
     IN /\ IF m \in ToSet(list)
           THEN /\ health' = [health EXCEPT ![m] = afterAttempt(@, a.seen, a.ok, a.at)]
                /\ log' = [log EXCEPT ![m] = Append(@, [ok |-> a.ok, at |-> a.at, by |-> r])]
           ELSE UNCHANGED <<health, log>>
        /\ Settle(r, m, a.ok)
  /\ UNCHANGED <<list, unborn, clock, usage, events>>

-----------------------------------------------------------------------------
(* The owner.                                                              *)

(* POST /dictation/models/:id/reenable, of an entry it makes a difference  *)
(* to.                                                                     *)
Reenabled(h) == [h EXCEPT !.enabled = TRUE, !.autoDisabled = FALSE,
                          !.consecutiveFailures = 0, !.failStreakStartedAt = Never]
Reenable(m) ==
  /\ events < MaxEvents /\ (alone => ~Recording)
  /\ m \in ToSet(list) /\ health[m] # Reenabled(health[m])
  /\ health' = [health EXCEPT ![m] = Reenabled(@)]
  /\ log' = [log EXCEPT ![m] = <<>>]
  /\ events' = events + 1
  /\ UNCHANGED <<list, unborn, clock, usage, req, att>>

(* PUT /dictation/models: entries named by id keep their health, the       *)
(* others are removed or start clean; an id already removed matches        *)
(* nothing.                                                                *)
WriteRoster(sent) ==
  LET new == Only(sent.list, ToSet(list) \cup unborn)
  IN /\ events < MaxEvents /\ (alone => ~Recording)
     /\ list' = new /\ unborn' = unborn \ ToSet(new)
     /\ health' = [m \in Asked |->
          IF m \in ToSet(new) THEN [health[m] EXCEPT !.enabled = m \in sent.on] ELSE Clean]
     /\ log' = [m \in Models |-> IF m \in ToSet(new) THEN log[m] ELSE <<>>]
     /\ events' = events + 1
     /\ UNCHANGED <<clock, usage, req, att>>

Tick ==
  /\ events < MaxEvents
  /\ clock' = clock + 1 /\ events' = events + 1
  /\ UNCHANGED <<list, health, unborn, usage, req, att, log>>

-----------------------------------------------------------------------------
Progress(r, m) ==
  \/ \E ok \in BOOLEAN : Note(r, m, ok)
  \/ CutOff(r, m)
  \/ WriteRow(r, m)

RouterNext == UNCHANGED alone /\
  (\/ \E r \in Reqs : Leave(r) \/ \E several \in BOOLEAN : Begin(r, several)
   \/ \E r \in Reqs, m \in Asked : Progress(r, m)
   \/ \E m \in Models : Reenable(m)
   \/ \E sent \in Sent : WriteRoster(sent)
   \/ Tick)

RouterSpec == RouterInit /\ [][RouterNext]_routerVars

-----------------------------------------------------------------------------
(* Every variable has its type; an entry that is not stored has no health. *)
Entry == [ok : BOOLEAN, at : Nat, by : Reqs \cup {None}]
Attempt ==
  [st : {"none", "asking", "ok", "bad", "cancelled"}]
  \cup [st : {"noting"}, ok : BOOLEAN, at : Nat, seen : Health]

RouterTypeOK ==
  /\ list \in Seq(Models) /\ IsInjective(list)
  /\ unborn \subseteq Models \ ToSet(list)
  /\ health \in [Asked -> Health]
  /\ \A m \in Asked \ ToSet(list) : health[m] = Clean
  /\ log \in [Models -> Seq(Entry)]
  /\ \A r \in Reqs :
       /\ req[r].stage \in {"idle", "refused", "race", "fallback", "several", "answered", "failed"}
       /\ {req[r].gone, req[r].several} \subseteq BOOLEAN
       /\ req[r].first \in Seq(Asked) /\ req[r].fallback \in Seq(Asked)
       /\ req[r].answer \in Asked \cup {None}
  /\ att \in [Reqs -> [Asked -> Attempt]]
  /\ clock \in Nat /\ usage \in Nat /\ events \in Nat /\ alone \in BOOLEAN

(* An answer is never thrown away: a parse fails only when every model it  *)
(* may ask has failed or was cut off, or when the client left; and its     *)
(* answer is one that a model gave.                                        *)
AnswerKept ==
  \A r \in Reqs :
    LET q == req[r] IN
    /\ q.stage = "failed" =>
         /\ \A m \in ToSet(q.first) : Lost(att[r][m])
         /\ \A m \in ToSet(q.fallback) : Lost(att[r][m]) \/ (q.gone /\ At(r, m, "none"))
    /\ q.stage = "answered" => At(r, q.answer, "ok")

(* A model is switched off only by DISABLE_FAILURES failures of its own,   *)
(* in a row and within DISABLE_WINDOW: not by calls the client cut off,    *)
(* not by failures before an answer or before the owner's pardon.          *)
OwnFailure(m, e) == ~e.ok /\ (e.by = None \/ att[e.by][m].st \in {"noting", "bad"})
OffEarned ==
  alone => \A m \in ToSet(list) : health[m].autoDisabled =>
    \E i \in DOMAIN log[m] :
      LET j == i + DISABLE_FAILURES - 1
      IN /\ j \in DOMAIN log[m]
         /\ \A k \in i..j : OwnFailure(m, log[m][k])
         /\ log[m][j].at - log[m][i].at <= DISABLE_WINDOW

(* With outcomes recorded one at a time, a row's streak is the one its     *)
(* outcomes make, each counted from the row the one before it left: "two   *)
(* parses finishing together must not both count from the same old streak".*)
Streak(h) == <<h.consecutiveFailures, h.failStreakStartedAt, h.autoDisabled>>
StreakExplained(m) == Streak(health[m]) = Streak(Learnt(log[m]))
EachCounts == alone => \A m \in ToSet(list) : StreakExplained(m)

=============================================================================
