# TaskRadar: a verification project

TaskRadar is a personal task tracker: a server (`src/backend`, Fastify, Prisma,
PostgreSQL) and a Flutter client (`src/app`) that works offline and takes
dictation. This directory holds TLA+ models of both, the TLC runs that check
them, and theorems about them checked by TLAPS. Paths below are relative to the
repository root; line numbers are in `PROJECT.json` (`map`, `hazards`,
`findings`).

## 1. Inventory

| part | state | operations | what makes it correct |
|---|---|---|---|
| task write path (`routes/tasks.ts`, `routes/focus.ts`, `domain/taskEvents.ts`) | a row per task (status, `focusedAt`, reminder, position, AI columns), a journal of events per task | create, PATCH, position, focus, unfocus, unfile, delete | the journal explains the row; a task is created, moved and finished once; the working set keeps its order |
| ordering (`domain/position.ts`, the position routes of tasks and scopes) | a float per task, scope, category | append, move between neighbours, renumber when the gap is used up | the moved item ends between its neighbours, the others keep their order, a rebalance loses nothing |
| sandbox (`routes/inbox.ts`, unfile) | inbox lines with an optional capture key, unique per user | capture (idempotent on its key), edit, discard, file into a project, unfile a task | a thought is in one place only, none is lost, a replayed capture makes no second line |
| projects, scopes, categories (`routes/projects.ts`, `routes/scopes.ts`, `routes/categories.ts`, the delete guards) | rows linked by foreign keys (Restrict, Cascade, SetNull) | create, rename, move, archive, delete | a user always has a scope, only an archived project is hard-deleted, no category is shared between projects |
| history mode (`routes/history.ts`, `domain/history.ts`) | none: pure reads of rows and journals | replay time per status, count per day and project, the oldest open tasks | days and intervals add up in the caller's own calendar |
| dictation and tidying (`routes/dictation.ts`, `domain/parsePipeline.ts`, `domain/dictation.ts`, `domain/tidy.ts`, `domain/inboxSplit.ts`) | a dataset row per parse | parse, check the reply, keep the sample, split a line | what goes out is usable as it is; a parse ends, whatever its model does |
| level blocks of the prompts (`domain/promptOverrides.ts`, `routes/dictationInsights.ts`) | a row of settings and its mirror in the process | load, look, edit | prompts are built from what is stored; no row claims a text nobody wrote |
| marks and labels of saved answers (`domain/aiMark.ts`, `domain/dictationLink.ts`, `domain/aiStats.ts`) | the AI columns of tasks, notes and lines; the label of a dataset row | save, edit, put the source back, file, delete, count | the source is the first, the snapshot the last, a label is the first save |
| model choice (`domain/modelRoster.ts`, `domain/modelRosterStore.ts`, `domain/modelRouter.ts`, `lib/aiLimit.ts`) | a row per model: enabled, streak of failures, cooldown, disabled; a counter per user and day | plan one model or a race of two, try in turn, record outcomes, re-enable | a failing model is put aside and comes back, a cancelled loser is not blamed, no answer is thrown away |
| sessions (`routes/auth.ts`, `lib/authGuard.ts`, `scripts/user.ts`; `session_provider.dart`, `api_client.dart`) | accounts; a token in the store and in memory, the last user, per-user files | login, guard, disable; restore, sign in, sign out, expire, wipe | one person's lines do not reach another; the same person keeps theirs; the copies of the token agree |
| capture queue on the client (`capture_queue_providers.dart`, `capture_queue_store.dart`, `capture_flush_scope.dart`) | lines in memory and in a file | capture, discard, flush, reload | what was captured is on the screen, on the disk, or on the server |
| lists on the client (`project_providers.dart`, `board_providers.dart`, `focus_providers.dart`, `inbox_providers.dart`, `routes/board.ts`, `domain/isCurrent.ts`) | a list, its prediction, a queue of writes, the copy in the board | create, edit, move, remove, refresh, roll back | a failed write leaves no trace, the list ends equal to the server's, one task at most is highlighted |
| notes and the read-through cache (`routes/notes.ts`, `ProjectNotes`, `read_cache_providers.dart`) | the notes on screen, the copy on the device | read, late answer, create, edit, remove | a late answer never replaces what was edited |
| reminders on the client (`notifications/`, `domain/reminder_schedule.dart`, `reminder_providers.dart`) | the alarms armed in the OS | compute the schedule, cancel, arm | after the last resync the alarms are the wanted ones |
| replay of the dataset, voice input, decoding, screens, themes, start-up, deployment | view state | | not modelled (section 8) |

How they interact: the client's providers call the server over HTTP, any call
may fail before or after it took effect; two devices of one user may call at
once. On the server each handler is a coroutine with awaits between a read and
a transaction, so requests of one user interleave at those awaits. Prisma opens
transactions at PostgreSQL's default level, READ COMMITTED: row locks order the
writes, nothing re-checks what was read before. On the client everything runs
on one isolate and interleaves at `await`; the process may die at any point and
keeps only what a store wrote with its write-then-rename.

The behaviours that are hard are the ones listed as hazards in `PROJECT.json`:
decisions taken on a row read before the transaction that uses them, the
read-modify-write of a list or a file across an await, a lost answer whose
request took effect, an answer that comes back to another session or an edited
copy, a crash between the write of a file and the change in memory, two runs of
one asynchronous job overlapping, limits and gaps at their boundary.

## 2. The modules

| component | abstract specification | model | instance | proofs |
|---|---|---|---|---|
| task write path and journal | `TaskLife` | `TaskJournal` | `MCTaskJournal` | `TaskJournalProofs` |
| order of tasks | `OrderedList` | `Position`, `TaskOrder` | `MCTaskOrder` | `TaskOrderProofs` |
| sandbox | `ThoughtLife` | `Sandbox` | `MCSandbox` | `SandboxProofs` |
| capture queue | `CapturePromise` | `CaptureQueue` (client and `POST /inbox` together) | `MCCaptureQueue` | `CaptureQueueProofs` |
| projects, scopes and categories | | `Hierarchy` | `MCHierarchy` | `HierarchyProofs` |
| choice of the model | | `ModelRoster` (rules), `ModelRouter` (parses) | `MCModelRouter` | `ServerProofs` |
| history mode | | `History` | `MCHistory` | `ServerProofs` |
| dictation, tidying, level blocks | | `Replies` (checks of a reply, split of a line), `Parses` | `MCParses` | `ServerProofs` |
| marks, labels, statistics | | `Marks` | `MCMarks` | `MarksProofs` |
| sessions | | `Session` (device and server together) | `MCSession` | `ServerProofs` |
| lists, notes, cache, reminders | | `TaskList` and `NoteList` (over `Rows`), `Reminders`, put side by side by `App` | `MCApp` | `AppProofs` |

**Conventions.** An action is a handler, or the part of one between two awaits
at which another request can get in. A read outside a transaction and the
transaction that uses it are two actions (`Begin…`, `Commit…`); what the
request knows in between is in `req`. A transaction at READ COMMITTED that names its
rows by id is one step, at its commit: the row lock orders the writers, and a
row that has gone makes it fail as a whole. A request the server refuses before
it writes anything changes nothing and is not a step. `X_Bug` next to `X` is a
wrong variant of `X` that `PROJECT.json` (`mutants`) names; nothing uses it.

**One request at a time, or not.** Most of what the code promises holds when a
user's writes wait for each other, and fails in ways of its own when they
overlap. The client queues the writes of a project (`ProjectTasks._enqueue`),
so for one device the first is the normal case; a second device, the working
set, the sandbox and the dictation go round that queue, so the second exists
too. Each model therefore has a variable, chosen by `Init` and never changed:
when it is true, what begins waits until nothing that could disturb it is under
way. It is `alone` on the server (`orderly` in `Parses`), `serialised` in
`CaptureQueue`, `apart` in `TaskList` and `calm` in `Session`. Every run explores both values. The
properties that need it say so (`alone => …`): `StatusExplained` and
`JournalTellsLife`, `MoveSettles`, `LandsWhereDropped` and `ListKept`,
`ChecksHold`, `LatestText`, `OffEarned` and `EachCounts`, `PromiseKept`, `Kept`,
`OldestFirst`, `GoneForGood` and `Drained`, `MirrorTrue`, `FirstWords`, `AsLeft` and, for lines,
`CountedRight`, `InStep`, `OwnLines`, and parts of `SameKeepsAll` and
`TokenInStep`. `NotesKept` and `AlarmsRepaired` say in their own words which
overlaps they leave out. All others hold however things overlap. What happens
otherwise is section 5.

### TaskJournal

`row` is the `Task` row with what decides control: status, the stamp `focusedAt`
(a tick of `clock`), whether a reminder has its date and its time. `journal` is
the `TaskEvent` rows of the task in the order their transactions committed.
`Create`, `BeginPatch`/`CommitPatch`, `BeginFocus`/`CommitFocus`,
`BeginUnfocus`/`CommitUnfocus` and `Delete` are the routes; `Rollback` is a
request that dies between its read and its commit. `MovementEvents` and
`LeavesFocus` are `planStatusChange`. Titles, descriptions, categories and the
filing routes do not touch the journal's logic; AI columns are in `Marks`,
positions in `TaskOrder`. `TaskLife` is what a user is told of a task (born,
moved, picked, put back, finished, gone); `JournalTellsLife` says that replaying
the journal gives such a life. The refinement mapping takes the status from the
journal, not from the row: the `s` with `ReplaysTo(journal[t], s)`, which is how
`replayStatusTime` (`domain/history.ts`) reads it.

### TaskOrder

`Position` is the arithmetic of `domain/position.ts` over integers: a gap `GAP`
stands for the 53 bits a double can halve, `Bisect` gives up when no number is
left between two neighbours, as the code does when the mean equals an end.
`TaskOrder` has the append (`BeginAppend` reads the last position,
`CommitAppend` writes the row), the move of `PATCH /tasks/:id/position` at the
grain of its statements (`BeginMove`, `ReadAfter`, `ReadAll`, `Renumber`,
`Place`, `GiveUp`) and the client's plan of a drag (`Plan`, from
`task_reorder.dart`, with the index as `normalizeReorderTarget` leaves it). `findMany … orderBy position` returns ties in any order
(`OrderedLists`). `view` is the list some client read last, perhaps long ago.
`OrderedList` is a list with insertion, removal and moves; `ListKept` is the
refinement for one client. Scopes (`routes/scopes.ts`) use the same code.

### Hierarchy

One user's rows: `scopes` is the set of scopes, `project`, `category` and `task`
hold what ties a row to another (and `archived`, and a category's name up to
case). Every route is a `Begin…` (its 404s and 409s) and a `Commit…`, the one
statement it writes, with what `schema.prisma` says of the foreign keys:
`Restrict` in `CommitDeleteScope`, `Cascade` in `CommitDeleteProject`, `SetNull`
in `CommitDeleteCategory`, and the existence of the parent everywhere. A
statement the database refuses is `Abort`. A route's reads are one step: all
that matters of them is checked again, or not, by the write. `CreateScope`
reads only a position and is one step. A filing is a `createTask` without
category, an unfiling a `deleteTask`. An id is free to be used again when
neither a row nor a request knows it, which is as good as a new one and leaves
histories unbounded.

### Sandbox

`row` holds lines and tasks under ids that are never used again, so that a
filing is the death of one row and the birth of another. `BeginCapture`,
`CreateLine`, `Reread` are the three statements of an idempotent `POST /inbox`
(look for the key, create, and on the unique index's refusal read again);
`BeginFile`/`CommitFile`, `BeginUnfile`/`CommitUnfile` the two transfers; `Edit`
and `Delete` are single statements on a line or a task; `Abort` is a
transaction that fails. `text` is the version of the words; `said` the version
last answered with success. `thrown`, `moved`, `captured` are history.
`ThoughtLife` says a thought is nowhere, in the sandbox, in a project or thrown
away; `ThoughtKept` is the refinement.

### CaptureQueue

The client's queue in memory (`mem`), in its file (`disk`, and `tmp` for the
sibling that is renamed over it), the capture or discard under way for each
line (`edit`), the pass that is sending (`flush`), against the sandbox as the
client meets it (`rows`, `created`, and `late` for a request that is still in
the network when the client has given up). Code between two awaits is one step:
`capture` is `Capture`, `WriteEdit`, `RenameEdit`, `PublishEdit`; a pass is
`StartFlush`, `Acknowledge`/`Refuse`/`Lose` per line, `Merge` or nothing,
`WriteFlush`, `RenameFlush`, `PublishFlush`; each file step may fail
(`FailEdit`, `FailFlushWrite`); a discard whose write fails has left its line
where it was. `Crash` keeps the disk only and `Restart` reads it. `Without` is the filter that drops lines from a queue and leaves the order
of the rest, said by the order it keeps. `CapturePromise` is what the user is
promised of a line: once captured it is on its way until it is delivered or
thrown away.

### ModelRoster and ModelRouter

`ModelRoster` holds the pure rules (`eligible`, `lastGood`, `planSingle`,
`planMulti`, `afterAttempt`) over rows whose dates are naturals.
`ModelRouter` is the life of a parse: `Begin` (the roster is read, the plan
drawn, the allowance spent, the first models asked), `Note` (a model answers or
fails, and `recordAttempt` reads its row), `WriteRow` (it writes it, and the
promise the parse waits for is settled: `Resolve`, `Reject`), `CutOff` (the
call is aborted because the client left: nothing is recorded), `Leave`,
`Reenable`, `WriteRoster`, `Tick`. `RejectSingle` is `runSingle` after a failure,
`RejectSeveral` is `runMulti`. With an empty list the one model of the
environment (`Env`) is asked and nothing is recorded. A request without a
stream is one nobody leaves. The interval between the end of a call and the
read of its row is not a step of its own. `Lists` has the one helper on lists
that the planning uses (`Only`, a list's entries in a set, in their order).
`Learnt` counts the outcomes of a log one after another from a clean row.

### History

The rows and journals of a few tasks under a clock, with the routes that write
them (`Create`, `Move`, `Focus`, `Unfocus`, `Delete`, `Archive`), each in one
step: how requests overlap is `TaskJournal`'s. What `GET /history` answers is a
set of operators named as in the code (`historyRangeStart`, `replayStatusTime`,
`countByDay`, `byProject`, `stale`), evaluated in every state for every range
and time zone. `spent`, `lasted` and `finished` are the truth they are compared
with: the time a task was in each status, the time since its status last
changed, the moments at which it was finished, one after another. They are kept
by the steps that make it so, not computed from the journal. `stale` is some
order of the open tasks, the oldest first: which of two of one age comes first
is left open. Dates are numbers of units and a day has `Day` of them; `dayIndex` is
the division that `Math.floor` makes, which rounds down on both sides of zero.

### Replies and Parses

`Replies` is what the code does with a model's reply, as operators: `trim`,
`tidyTitle`, `inventedDateTerms`, the four `interpret` functions of
`domain/dictation.ts` and `domain/tidy.ts`, and `splitInboxText`. A text is a
sequence of marks: two kinds of blank, a stop, letters, and marks that name a
date. Of a date word the text is searched for any form, of a number for its
digits, so that a source with `25.09` names `5.09` too: `NamedBy` says which
marks of a source name a date, `PatternOf` which marks are forms of one. A field
that is missing, null or of another type is the empty set.
`Parses` puts them into the request's life: `Ask` (which begins the one load of
the level blocks if nobody has), `LoadRead`/`LoadArrives`/`LoadFails`, `Build`
(the prompt is built from the mirror as it is then), `Reply` or `CallFails`,
`Keep` (the dataset row, with the version of the blocks as they are at that
moment) or `KeepFails`; `EditRead`/`EditWrites`/`EditMirrors` is
`writeLevelOverride`, and `Restart` loses the mirror and everything under way.
Which model is asked is in `ModelRouter`; the wording of prompts is data.

### Marks

`doc` is a task, a note or a line with its AI columns, `label` what a dataset
row was labelled with. A parse stands for its own answer and, as a source, for
the words it was made from. A POST is one transaction (`Create`), except that a
line is labelled after it was created (`LabelLine`); a PATCH is `Read` and
`Write`: the mark is decided from the copy read before the transaction, as in
`routes/tasks.ts`, `notes.ts` and `inbox.ts`. `FileRead`/`File` carries a
line's mark to its task; `Delete` unlinks (`Unlinked`, the foreign keys'
`SetNull`); `Cut` is a request that is cut off between two of its statements.
`edited` is the rule of `aiStats.ts` for each kind. `first`, `from` and
`touched` are history for the properties.

### Session

One device used by several people and the server that knows their accounts.
`disk`/`owner`/`queue` survive a kill, `token`/`held`/`asked` and what is under
way do not, nor does `person`, who signed in to the app that is open. `SignIn`,
`Writes`, `Installs`, `Settles`, `Enters` are the parts of `signIn` between its
awaits: the password compared, the token answered and its write begun, the write
returned and the token installed, the wipe of another person's files, the
screen. `SignInFails` is a login or a write that fails. An erasure begun while
the write is under way is performed after it (`Forget` during `"writing"`).
`Launch` is `build`, where a token that cannot be read is erased and an owner
that cannot be read is adopted. `SameUser` compares with what was read of the
owner, which a failure of the store turns into nothing; `Wipe` deletes the file
of the queue, or fails unheard. `Forget` is `_forgetToken`, whose erasure
may fail unheard; `Answered` is any request that comes back, perhaps to another
session; `PassBegins`, `Sends`, `Arrives`, `Fails`, `PassEnds` are the passes of
`CaptureQueue` at the grain that matters here: which token each line goes with.
The store of the token performs and answers its calls in the order they were
made. Each person captures at most one line, named by its author. `wiped`,
`spared` (lines of another that a wipe failed to delete) and `crossed` (a token
installed while an erasure was under way) are history for the properties.

### TaskList, NoteList, Reminders and App

`TaskList` is `ProjectTasks` against the server's rows and the board: `Create`,
`SetStatus`, `EditText`, `RemoveTask` predict and send; `Handle` is the server,
`Reconcile` the re-read that follows all but a text edit, `Settle` what is then
shown and put into the board (`applyProjectTasks`), `Fail` the rollback;
re-reads of the list and the board answer and arrive as steps of their own; the
screen may be left (`Leave`) at any time and opened again. `isCurrent` is
computed by the server's rule (`annotateIsCurrent`), carried by
`mergeMutatedTask` and weakened by predictions (`Weakened`). `missed` remembers
who was told less than the server did: no answer was heard, an older answer was
shown, or a rollback restored a list that lacked something already (`lacked` of
the write). `Rows` has the two helpers on lists of rows that have ids (where an
id is, the list without it), which the lists of tasks and of notes share.
`NoteList` is `ProjectNotes`, whose writes wait for nobody, over
`readThroughCache`: the copy shown after the grace or a failure, the late
answer behind it (`onLateFresh`).
`Reminders` is `ReminderScheduler.sync` between its calls of the system
(`PlanSync`, `ReadPending`, `CancelNext`, `ArmNext`, `EndSync`, `FailSync`),
begun by `replaceWith`, `setTime`, `Resync` and `Relaunch`, while alarms ring
or are lost; `buildReminderSchedule` goes through the board and skips what is
past and an id that is taken. The schedule is the set it makes; what is armed
next is the earliest of what is left of it, which is the order the code sorts
it in.
These three share no state, so `App` lets a behaviour be one of any of them:
one run explores each on its own, not their product.


## 3. The runs

Each property of a passing run has a mutant in `PROJECT.json`: a plausible bug
in one definition that the property catches under the run's own configuration.
State counts are of complete searches, up to the symmetry a configuration
names. Deadlock is checked in `hierarchy`, where work can always go on; the
other models have counters with a bound (requests, rows, ticks, tokens) and stop
when those are used up, so their configurations say `CHECK_DEADLOCK FALSE`.

**`task_journal`** (one task, two requests, four events; 375 000 states).
However requests overlap, `FocusExplained`: a task is in the working set exactly
when the last focus event of its journal says so. When they wait for each
other, `StatusExplained` (the journal replays to the status of the row) and the
refinement `JournalTellsLife`. One task suffices because no handler reads
another task's row; two requests because every hazard is one request between
the two steps of another; four events are a creation, a status, a pick and a
put-back, in every order.

**`order`** (three tasks, a gap that can be halved once, two requests, three
drags; 1.1 million states). However requests overlap, `GoneStaysGone`: a
renumbering brings no deleted task back. When they wait, `MoveSettles` (a drag
on the current list never fails, renumbering included), `LandsWhereDropped` and
the refinement `ListKept`. Three tasks are the least for a drag between two
neighbours; three drags exhaust the gap, renumber and use the new gap.

**`hierarchy`** (two scopes, projects, categories, names and requests, one task;
117 000 states). However requests overlap, `TreeWhole` (every row names what
exists, and a task's category is of its own project, which no foreign key sees
to) and `WorkStays` (no deletion of a heading or a scope takes a task or a
project). When they wait, `ChecksHold` (a scope remains, the names of a
project's headings differ). Two of each are the least for a category of another
project, a move between scopes, a clash of names and a last-but-one scope;
histories are not bounded.

**`sandbox`** (one thought, three requests, two posts of its capture, two
edits, five rows; 60 000 states). However requests overlap, `NothingLost`,
`OnePlace` and the refinement `ThoughtKept`; when they wait, `LatestText`. Rows
of different thoughts never meet in a statement, so one is enough; three
requests let a transfer, its duplicate and an edit or a delete be between their
steps at once. `OnePlace` says "until a copy of the capture arrives after the
line has left": the key goes with the row, so such a copy is a new line to the
server.

**`capture`** (two lines, two mishaps with one edit of the queue at a time, one
when edits overlap; 677 000 states). With one edit at a time `OldestFirst` (no
line reaches the server ahead of an older one it has not refused), `Kept`,
`GoneForGood` (a line thrown away comes back neither with the end of a pass nor
with a stale file after a crash), the refinement `PromiseKept` and, under
fairness, `Drained`. Two lines are the least that can overtake each other or be dropped
by each other's write; two mishaps are, for instance, a lost answer and
a crash during the write that follows. Fairness (`Fairness`): a method that has
begun runs on, the 30-second timer of `CaptureFlushScope` starts another pass
while a line is unsent, a dead app is opened again, a request in the network
arrives or is lost. Captures, discards and mishaps are not fair, and mishaps
are finite.

**`models`** (three models, two parses, one outside event: an edit of the list,
a re-enabling or a tick; 819 000 states). `AnswerKept` (no answer is thrown
away, and no parse gives up while one may come) for every interleaving;
`OffEarned` (a model is put off only for failures of its own, in one streak
within the window) and `EachCounts` (every outcome is in the streak) while
outcomes are recorded one at a time. The thresholds 3 and 6 of the code are 2
and 3 here, the hour and the week one tick each; the models start from pasts
(nothing, an answer of another than the top, failures that rest them or leave
them one failure from being put off) so that two parses reach every branch of
the rules. Three models are the least for a race with a fallback.

**`history`** (two tasks of two projects, three days of two units, three time
zones, journals of three events and one; 101 000 states). `TimeAccounted`: what
the journal replays to is the time really spent in each status. `AnswerTrue`:
the bars add up to the closings, each on the caller's own day and on that day's
bar, from the day the range begins, and the longest-hanging list leaves out no
task that has hung longer than one it shows. Two units a day make a time zone
that moves a closing over midnight; three days are a window of one day and of
two with a day before them.

**`parses`** (two parses, one of any kind and one of a note; one edit of one
level block under way at a time; replies that meet every check; 184 000
states). `NeverInvented`: however loads and edits overlap or fail, no prompt is
built from a text that was never stored. `MirrorTrue`: what prompts are built
from is what is stored, when loads and edits wait for each other. `AnswerSound`
and `SplitKeepsAll`: what goes out passes its kind's promises, and a line is
split without losing a word. `Served`, under fairness: a parse ends. Fairness
(`Fairness`): the load that is under way ends, well or not, and a parse whose
next step is possible takes it, since the event loop goes on and a model
answers or its time budget runs out. The replies are chosen so that every
check is passed by one and failed by another: a date in another form, a number
that is part of one of the source, a title
that is too short or not asked for, a day that is past or too far, a project
that was not shown; the lines of the split are up to four marks with a blank, a
stop or a letter in each place around a limit of three, where a first sentence
of one mark is too short for a title (the code's numbers are 120 and 10).

**`parses_overlap`** is section 4.

**`marks`** (a line, a task and a note, two answers, two requests at once, four
in all; 448 000 states). However requests overlap and wherever they are cut
off, `LabelFrozen`: a label of the dataset never changes. `CountedRight`: the
owner's three counts are what happened to the answers; for a line, which is
labelled after it is saved, when requests wait. When they wait, `FirstWords`
(what can be put back is the first answer's source) and `AsLeft` (a document
not edited since its answer is not shown as edited). Four requests are a
creation, a second answer, a filing and a put-back or a deletion.

**`session`** (two people, two tokens, two requests under way; 3.7 million
states). When a sign-in finds nothing of the session before under way and is
not cut off: `OwnLines`, no line gets to the inbox of another than its author,
but one that a wipe could not delete; the part of `SameKeepsAll` that says one's
own sign-in wipes nothing of one's own, if it can read whose the device is; and
the part of `TokenInStep` that says the app is open exactly with a token. Always:
a captured line is on the device or on the server unless a sign-in wiped it, and
a token that is sent is the stored one, unless a sign-out fell into the write of
it. The exceptions happen in this instance, and each is a behaviour of the code
(section 5, 9). Two tokens are a sign-in and the one after it, by the same
person or another; two requests let an old refusal come back while the new
session's first request is under way.

**`app`** (lists that start with two rows, two writes of each kind, three
resyncs over three moments; 1.4 million states). `CurrentRight`: a list that
misses nothing and a board that misses nothing highlight one task at most, never
a finished one, whatever overlaps. `InStep`:
when writes and re-reads wait for each other, list and board are the server's
once all is quiet. `NotesKept`: what the server has answered of a note stays on
screen through other writes and a late answer behind the copy. `AlarmsRepaired`:
a resync with no other beside it sets the alarms right after crashes, lost
alarms, and resyncs that failed or overlapped. Two rows and two writes are the
least for a highlight that moves while an older answer is on its way (the
theorems of section 6 have any number of writes); three
resyncs are two that overlap and one that repairs.

## 4. Where the code and its comments disagree

`parses_overlap` checks a sentence of the repository's own text and finds a
behaviour of the code that breaks it (`findings`). `keepSample` in
`routes/dictation.ts` says of the version it stores: "With the owner's edits of
the level blocks, if any: rows of different wordings must not be counted as one
experiment." The prompt is built from the blocks before the model is asked, the
version is computed from them after it has answered. An edit in between gives
the row the version of a wording it was not made with (`OneExperiment`).

## 5. What happens when things overlap

The properties under `alone`, `orderly`, `serialised`, `apart` and `calm` are not true
without it. These are the ways in which they fail; TLC finds each when the
condition is taken away. Most need a second device, a doubled tap or an
unlucky moment; none is found by a test of one request after another.

1. Two PATCHes of one task: the one that repeats the status it read writes it
   back, without an event, over the other's change. Row and journal disagree
   from then on, though `domain/history.ts` relies on the two agreeing. A pick
   between the read and the write of the PATCH that finishes the task leaves it
   finished and in the working set.
2. A capture, a discard or the end of a pass each write a queue read before
   another's write; a captured line is in neither, or a line that was thrown
   away is back.
3. Unfiling a task reads its text before the transaction: an edit answered in
   between is lost.
4. Two creations at once get one position. A drag between the two is refused
   even after the renumbering, which may order the tie the other way.
5. Two failures of one model recorded at once count as one: `recordAttempt`
   reads and writes in a transaction, which at READ COMMITTED does not lock.
6. Two deletions of the last two scopes both count two, and the user has none.
   The same way two creations give a project two categories of one name, and a
   project unarchived between the check and the write is deleted.
7. A first load of the level blocks and an edit, or two edits: the mirror is
   the older text until the next edit or restart, or one edit drops the other.
8. Two PATCHes that both bring an answer to a plain text: the second overwrites
   the source, of which `domain/aiMark.ts` says that it is set once and never
   overwritten. And a line whose request is cut off between creating it and
   labelling it leaves its answer counted as never saved.
9. A pass over the capture queue that began in one session goes on under the
   token of the next, and so does a queue whose owner's sign-out was followed
   by a sign-in killed between installing the token and the wipe: lines reach
   another person's inbox. A late refusal of an old token ends the new session.
   The call of a sign-out that returns while the next sign-in writes its token
   erases that token from the store after it was written, and the sign-in then
   installs it in memory: "a session that silently will not survive a restart",
   which `session_provider.dart` sets out to prevent. Two failures do harm
   without any overlap. A file of the queue that cannot be deleted is passed
   over ("a stubborn file cannot block a sign-in"), and the sign-in goes on to
   make the next person its owner: the lines of the one before are read again
   and sent to the next one's inbox, although `CaptureQueueStore.clear` says
   they "must not be sent under the next one's session". And an owner that the
   store fails to read counts as unknown, so that a person's own sign-in wipes
   their unsent lines, although "the same person signing in again …
   keeps everything".
10. Leaving a project's screen while a write is under way leaves the board as
    it was before the write, which returns before it calls
    `applyProjectTasks` when the provider is gone, until the board is read
    again.
11. A status whose answer is lost, then a rename: the rename's answer carries
    the new status and no highlight of its own, so the merged row is done and
    still highlighted, until a re-read.
12. A late answer behind a copy that the user has edited is rightly dropped,
    but the read counts as fresh: the list stays the copy until it is read
    again.
13. A re-read that arrives during a write which then fails is undone by the
    rollback, which restores the list from before the write. A board asked for
    before a write and answered after it undoes the write on screen.
14. Writes of notes do not wait for each other: when one of two fails, its
    rollback takes the other's change off the screen.
15. Two resyncs of the alarms: the older one cancels an alarm the newer one has
    armed, or arms one it has cancelled, though `reminder_scheduler.dart` says a
    cancel never races ahead of a newer schedule. The next resync repairs it.
16. An inexact alarm that is due but not yet delivered is cancelled by a resync
    on opening the app, for a time that has come is no longer wanted. The first
    resync after a relaunch may know no board, and sweeps all alarms until it
    does. A call of the system that throws leaves the rest unarmed.
17. Two edits of the capture queue that overlap, with three lines waiting: the
   later one publishes a queue read before the other's, which brings an older
   line back in front of lines that have reached the server by then.

## 6. What is proved

TLAPS checks the theorems for every value of the constants. They assume of the
constants only what the modules name:

| module | assumption | what it says |
|---|---|---|
| `TaskJournal` | `ConstantsAssumption` | PATCH bodies are bodies; the bound is a number; no request is the idle slot |
| `Sandbox` | `BoundsAssumption`, `NoneAssumption` | the bounds are numbers; `None` is no request |
| `Hierarchy` | `NoneAssumption` | `None` is no row, request or id |
| `Position` | `GAPAssumption`, `NoPositionAssumption` | the gap is a positive number; `None` and `Exhausted` are no positions |
| `TaskOrder` | `OrderAssumption`, `TasksAssumption` | finitely many tasks, none of them `None` |
| `Marks` | `MarksAssumption` | what a document is and what may be sent; `Own`, `Null` and `Same` are no answers |
| `Session` | `SessionAssumption` | `Null` is no person and no token; the bound is a number |
| `CaptureQueue` | `ConstantsAssumption`, `NoneAssumption` | the bounds are numbers; `None` is no edit |
| `TaskList`, `NoteList` | `TaskListAssumption`, `NoteListAssumption` | `Null`, `Asked` and `None` are no lists, rows or writes |
| `Reminders` | `RemindersAssumption` | what is on a board; the alarm that the bench arms for itself has an id of no task |
| `ModelRoster`, `ModelRouter` | `RosterAssumption`, `RouterAssumption` | the thresholds are numbers, those of failures not 0; lists are of models, pasts of outcomes; `Env` and `None` are no models |
| `Replies`, `Parses` | `RepliesAssumption`, `ParsesAssumption` | the least length of a title is 2 at least and below the limit (10 and 120 in the code); a date names itself, and forms of one pattern are named by the same marks; the texts of a reply are sequences of marks |
| `History` | `HistoryAssumption` | a task has a project, a day has a length, a zone is a day off at most, ranges and the list of the oldest are not empty |

TLC evaluates each of them on the instances. Bounds on histories (mishaps,
writes, rows, sign-ins) are constants too, so that the theorems hold for any
number of them. Only `RenumberingMakesRoom` and `MoveSettlesCorrect` assume more:
a gap of 2 at least, that is, one that can be halved once; the code's is 1000.

Every safety theorem has the same shape: an invariant that is inductive, with a
lemma per invariant that says each step keeps it (one case per action), and the
property as its consequence. TLC has checked these invariants first, wherever it
can evaluate them. What they had to say besides the property:

- `TaskJournalProofs`. `FocusExplained` is inductive together with `TypeOK`:
  every action that moves the stamp appends the matching event in the same
  step, whatever copy it decided from. `BornOnce` (the journal opens with the
  one `created` event) likewise. `StatusExplained` is not inductive: the event a commit writes starts at the
  status of the copy. `CopyIsCurrent` is the
  strengthening: when requests wait, there is one request, and its copy is the
  row. It gives `FinishLeavesSet` and, with `RowsTellLife` (row, journal and
  `TaskLife` agree on whether a task is born, moving, picked or gone), the
  refinement `JournalTellsLife`: each commit is one step of the task's life or
  none.
- `TaskOrderProofs`. `BisectStrict` (a halved gap gives a number strictly
  between) and `RenumberingMakesRoom` are the arithmetic. `ListInv` says, when
  requests wait, that the tasks can be listed by their positions, no two alike
  (`Listed`), and what each stage of a move knows of that list (`Standing`): the
  drag was drawn on it, and the place found is strictly inside the gap. Hence
  `MoveSettles`, `LandsWhereDropped` and the refinement `ListKept` of
  `OrderedList`, for any finite number of tasks: every step makes the next list
  from the last (`RankedAppend`, `RankedRemove`, `RankedDrag`,
  `RankedRenumber`), and there is only one (`RankedOnce`, by the first place at
  which two would differ). `GoneStaysGone` is an action property: only rows
  that exist are written.
- `SandboxProofs`. `NothingLost` needs `FreshIds` (ids not handed out yet have
  no row), so that the row a transfer creates overwrites none. `OnePlace` needs
  `OneInv`: until its line has left the sandbox, a thought's rows carry its key
  (`KeyedAtHome`), at most one does (`KeyUnique`), a thought with a row has been
  posted (`PostedFirst`), and while it has been posted once it has at most one
  row, and none while the request that may create its line is under way
  (`PostedOnce`). `LatestText` needs `Earlier` (what has been answered, moved or
  thrown away was posted before) and `LatestInv`: one request at a time, and
  the text a transfer has read is still its row's. `ThoughtKept` is shown step
  by step from `OneInv`, `Earlier` and `ReadFits` (the row a transfer has read
  is still of its kind, if it is there).
- `CaptureQueueProofs`. However edits overlap, the key's unique index makes one
  row of a line at most until its row has left (`TwinInv`). The rest holds with
  one edit of the queue at a time and needs to know whose turn it is (`TurnInv`: one method
  at most is between its reading and its publishing, and what it will publish
  and has written is the queue with its own change). `LinesInv` relates the
  three copies of the queue: a line the server has not made is in the file
  exactly when it is on the screen, except for an edit that has renamed and not
  published, and a line that was never captured is in none of them. That is
  `Kept`, and with it each step of client and server is a step of
  `CapturePromise` or none (`PromiseKept`). `GoneForGood` is
  inductive next to `TurnInv` (`GoneInv`): what an edit or a pass publishes is the
  queue on the screen with its own change, so that no other line comes back. `OrderInv` adds that queue, file and
  what a pass has left to send are in one order, up to lines the server has
  answered for: `OldestFirst`.
- `HierarchyProofs`. `TreeWhole` is `NothingDangles` and `CategoryAtHome`,
  proved together with `RequestFits`: a category that a request is about to
  write belongs to the project of its task, because it did when the handler
  looked, categories and tasks never change projects (`Settled`) and no id is
  used twice while a request remembers it. `ChecksHold` is `AlwaysAScope` and
  `NamesDiffer`; for waiting requests `Current` says that there is one request
  and that what it has checked (`Checked`) is still so, since nothing else has
  written. `GuardsSuffice` (no request runs into a foreign key, so none answers
  500), `ArchivedFirst` and the action property `WorkStays` follow too.
- `MarksProofs`. `LabelFrozen` is an action property; of a label it needs only
  its fields (`Shaped`): every route writes labels through
  `linkDictationParse`, which leaves a labelled row alone (`LinkOnce`), or
  through the foreign keys' `SetNull`, which keeps a label's words
  (`UnlinkKeepsWords`). `FirstWords` and `AsLeft` need `MarksInv`: when requests
  wait there is one, and the copy it has read is the document. `CountedRight`
  needs `CountInv`: an answer has one label, which tells what the document was
  when it was first saved, or none; a line's may be on its way (`Awaits`).
- `ServerProofs`, sessions. `TokenInStep` needs `TokenInv`: while an erasure is under way
  no token is held in memory, except one that was installed across it
  (`crossed`); a token being written is in the store as long as no erasure has
  followed it; and a dead app has nothing under way. The
  always-true half of `SameKeepsAll` is `KeptInv`: a captured line is in the
  file and, while the app lives, in memory, or accounted for. `OwnLines` and the
  rest are `CalmInv`: what the device holds is its owner's or was spared, and the
  owner is the person of its token, except between the writing of a token and
  the wipe that follows it, when a sign-in has the app to itself.
- `ServerProofs`, level blocks. `PromptInv` gives `NeverInvented` and
  `MirrorTrue`: every copy of the blocks, in a load, an edit, a prompt or a row,
  is of a value the settings have had (`CopiesWere`); when loads and edits wait
  for each other, what either still carries to the mirror is what is stored,
  and so is the mirror once the load is settled (`InTurn`).
- `ServerProofs`, choice of the model. `AnswerKept` needs an account of every
  attempt of every parse (`Told`): at each stage, which of the planned models
  have been asked, which are lost, that at most one of those kept for later is
  under way, and that an answer is kept as soon as there is one. It rests on
  what the two plans are (`SinglePlanned`, `MultiPlanned`). `EachCounts` and
  `OffEarned` need `TaughtInv`: when outcomes are recorded one at a time, the
  one being recorded was counted from the row as it still is (`SeenFresh`), so
  the row's streak is what the log teaches (`AllExplained`); a failure in the
  log is one its parse had (`FailuresOwn`). That a model is put off only after
  its streak is long enough is a statement about `Learnt` for logs of any
  length (`EarnedLonger`, `StreakAlwaysFits`).
- `ServerProofs`, replies. `AnswerInv` says that what goes out was made by
  `interpret` from some reply of the kind that was asked and the input it was
  asked for, or is the refusal. The rest is about that function:
  `TaskSound`, `TidySound`, `NoteSound` and `SandboxSound` give `AnswerSound` for every
  reply. `SplitKeepsAll` rests on what `trim` leaves (`TrimIs`), on
  `LettersCut` (the letters of a text are those of its two parts, wherever it
  is cut) and on `SplitAtKeeps`, for each of the four places where
  `splitInboxText` cuts.
- `ServerProofs`, history. `TimeInv`: where the replay of a task's journal ends
  is the status of its row and the moment that status began, and the closed
  intervals with the open one are the time really spent. That is
  `TimeAccounted`. `AnswerTrue` needs `WholeInv`: tasks alive are finitely many,
  each is as old as its times together, its journal opens with its creation and
  holds no later one, and the closings it records correspond one for one, each
  at its moment, to those that happened (`Recorded`). From that one-to-one
  correspondence both sides of every bar and of every count per project are
  cardinalities of matching sets (`AsManyTold`, `BarsTrue`, `ProjectsTrue`);
  `DaysAre` is the arithmetic of days and zones on both sides of zero; that
  open tasks can be put in an order of age is `OrderExists`.
- `AppProofs`. `CurrentRight` needs `RightInv`: a list that misses nothing has the
  server's statuses while no write but a text edit is under way; so has the
  list that a request which may still fail would restore. `InStep` needs
  `StepInv`: when nothing overlaps a write, such a list is the server's, ahead
  of it by the write under way at most, and the board is the server's as long
  as that write may still fail. `NotesKept` needs `WritesInv` (ids are the
  server's or placeholders, writes are told apart, one that nothing crossed is
  the only one) and `ScreenInv`: a settled note is on the screen with its text
  or is being removed; an undo that nothing crossed puts back all that is
  settled; a copy that is still shown untouched has nothing settled on it,
  which is why the late answer may replace it. `AlarmsRepaired` needs `AlarmsInv`:
  a resync that has had no other beside it is still for the board and the hour
  that are set, what it is yet to arm is part of what is to ring, what it has
  armed is armed if it is still to come, and nothing else stays under those ids
  (`OnCourse`); what the walk over the board schedules is the first of the
  tasks that share an id, for boards of any length.

Two attempts failed for a reason in the models and changed them. With three
lines, `OldestFirst` is false when edits of the queue overlap (section 5, 17);
two lines never show it, and the property now says `serialised`. With three
writes, a rollback restored a list that had missed something before the write
began, while `missed` had forgotten it; a write now remembers what its list
lacked. TLC confirms both on instances with one line or one write more.

What walks over data (a log, a text, a journal, a board, a list) is a recursive
function in these models, or is said by what it returns, and not a fold. That
such a function satisfies its own equation for every argument, and what it then
computes, is an induction, and the library's induction theorems cannot be
instantiated by the provers at hand. The theorems use the least counterexample
instead: a set of naturals that is not empty has a least member (`Least`, which
the library's theorem on well-founded orders gives without an operator as a
parameter), and below it nothing fails. `ChainExists` is that argument once, for
any step given as a function; `ReplayExists`, `LearntExists` and `LettersExist` are
its uses, and `OrderExists` is another of its kind. Three definitions were
rewritten for it, with the same runs and mutants as before: `Learnt`, the schedule of
`Reminders` and `Letters`. `History` now keeps the
moments of the closings instead of a count per moment, since the
correspondence with the journal's events is between single closings.

Every safety property of the passing runs, the action properties and the
refinements included, is a theorem. Only model-checked, and why:

- `Drained` of `CaptureQueue` and `Served` of `Parses`: liveness under fairness is
  out of the provers' reach.
- `OneExperiment`, which the code does not keep (section 4).

The theorems are about the models: that a model is faithful to its code is
what the map, the runs and their mutants are for. That the models' constants
stand for the code's numbers is in sections 2 and 3.

## 7. What would come next

1. The client's other lists in `App`: the focus set, the inbox with its
   unsent lines on top, scopes and categories.
2. The order of scopes as an instance of `TaskOrder`, and the drag inside one
   section (`mapSectionReorder`).
3. The abstract specification of a parse (asked, then answered or refused
   once), which `ModelRouter` and `Parses` would both implement, and of a
   list on the client against the server's.

## 8. Not modelled

The replay of the dataset (`scripts/replayDictation.ts`) compares prompts over
stored rows and writes a report. The client's focus, inbox and scope lists
repeat the write of the modelled ones. Voice input, the decoding of HTTP
answers, screens, widgets, themes, generated code, start-up and deployment have
no state the other parts depend on. The wording of prompts is data. Of the
server, crashes are the steps that end a request in the middle: `Rollback`,
`Abort`, `Cut`, `CutOff` and `Restart`; the database keeps whole transactions
only, and what the process itself keeps is the mirror of the level blocks.
Changed passwords, a browser's cookie, the older setting of one model
(`PUT /dictation/model`), the index a drag is reported with
(`normalizeReorderTarget`), an edit of the level blocks that is stored while its
acknowledgement is lost, calendar zones of reminders, mean times and counts per
model in the statistics are left out, as the components' notes say.
