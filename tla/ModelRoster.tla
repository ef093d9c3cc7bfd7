---------------------------- MODULE ModelRoster ----------------------------
(***************************************************************************)
(* The rules of the roster of language models: who is worth asking, in     *)
(* which plan, and what an attempt teaches about its model                 *)
(* (backend/src/domain/modelRoster.ts).  A moment is a natural number;     *)
(* Never stands for a null date.                                           *)
(***************************************************************************)
EXTENDS Integers, SequencesExt, Lists

CONSTANTS
  COOLDOWN_FAILURES, COOLDOWN,        \* failures in a row, and how long they rest a model
  DISABLE_FAILURES, DISABLE_WINDOW,   \* failures in a row, within a time, that switch it off
  MULTI_COUNT                         \* models asked by "send to several"

ASSUME RosterAssumption ==
  /\ COOLDOWN_FAILURES \in Nat \ {0} /\ DISABLE_FAILURES \in Nat \ {0} /\ MULTI_COUNT \in Nat
  /\ COOLDOWN \in Nat /\ DISABLE_WINDOW \in Nat

Never == -1
Moment == Nat \cup {Never}

(* The health of an entry: the columns of LlmModel the rules read.         *)
Health == [enabled: BOOLEAN, autoDisabled: BOOLEAN, consecutiveFailures: Nat,
           failStreakStartedAt: Moment, lastSuccessAt: Moment, lastFailureAt: Moment]
Clean == [enabled |-> TRUE, autoDisabled |-> FALSE, consecutiveFailures |-> 0,
          failStreakStartedAt |-> Never, lastSuccessAt |-> Never, lastFailureAt |-> Never]

isUsable(h) == h.enabled /\ ~h.autoDisabled

isCoolingDown(h, now) ==
  /\ h.consecutiveFailures >= COOLDOWN_FAILURES
  /\ h.lastFailureAt # Never
  /\ now - h.lastFailureAt < COOLDOWN

(* The models worth asking, in the owner's order; the resting ones only    *)
(* when there is no other.                                                 *)
eligible(entries, h, now) ==
  LET usable == Only(entries, {m \in ToSet(entries) : isUsable(h[m])})
      warm   == Only(usable, {m \in ToSet(usable) : ~isCoolingDown(h[m], now)})
  IN IF warm # <<>> THEN warm ELSE usable

(* The one that answered last, the first of them in a tie, if any has.     *)
lastGood(entries, h) ==
  LET at(i) == h[entries[i]].lastSuccessAt
      Best  == {i \in DOMAIN entries : /\ at(i) # Never
                                       /\ \A j \in DOMAIN entries : at(j) <= at(i)
                                       /\ \A j \in 1..(i - 1) : at(j) < at(i)}
  IN {entries[i] : i \in Best}

(* The top, racing the one that answered last; the rest wait their turn.   *)
planSingle(entries, h, now) ==
  LET worth   == eligible(entries, h, now)
      first   == Only(worth, {worth[1]} \cup lastGood(worth, h))
  IN [first    |-> first,
      fallback |-> Only(worth, ToSet(worth) \ ToSet(first))]

planMulti(entries, h, now) ==
  [first    |-> LET worth == eligible(entries, h, now)
                IN SubSeq(worth, 1, IF Len(worth) < MULTI_COUNT THEN Len(worth) ELSE MULTI_COUNT),
   fallback |-> <<>>]

(* The row after an attempt, counted from the row as it was seen.          *)
Succeeded(row, now) ==
  [row EXCEPT !.consecutiveFailures = 0, !.failStreakStartedAt = Never, !.lastSuccessAt = now]

Failed_NoWindow(row, seen, now) ==
  LET failures == seen.consecutiveFailures + 1
  IN [row EXCEPT !.consecutiveFailures = failures, !.lastFailureAt = now,
                 !.failStreakStartedAt = IF seen.failStreakStartedAt = Never THEN now ELSE seen.failStreakStartedAt,
                 !.autoDisabled = @ \/ failures >= DISABLE_FAILURES]

Failed(row, seen, now) ==
  LET old      == \/ seen.failStreakStartedAt = Never
                  \/ now - seen.failStreakStartedAt > DISABLE_WINDOW
      failures == IF old THEN 1 ELSE seen.consecutiveFailures + 1
  IN [row EXCEPT !.consecutiveFailures = failures, !.lastFailureAt = now,
                 !.failStreakStartedAt = IF old THEN now ELSE seen.failStreakStartedAt,
                 !.autoDisabled = @ \/ failures >= DISABLE_FAILURES]

afterAttempt(row, seen, ok, now) == IF ok THEN Succeeded(row, now) ELSE Failed(row, seen, now)
=============================================================================
