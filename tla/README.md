# TeleManager: TLA+ specifications, model checks and proofs

TeleManager is a local web application that operates several Telegram accounts. A FastAPI
backend (`src/telemanager`) serves a browser client (`apps/web/src`) and runs queues of
Telegram actions and recurring schedules in the same process. What is hard about the backend
is the sharing of a few things between tasks of one event loop, threads of the route pool, and
Telegram: the `.session` file of an account, the record of a run, the records of schedules,
and the JSON files that survive a restart. What is hard about the client is that it shows and
acts on copies of that state: answers arrive late and in any order, the operator clicks in
between, accounts and runs disappear under the copies, and three single-flight guards decide
which clicks count.

Paths below are relative to the repository; paths of the client are relative to
`apps/web/src`, paths of the backend to `src/telemanager`.

## 1. Inventory

| Part | State | Operations | Interacts through |
|---|---|---|---|
| Session locks (`accounts.py:302-384`) | one `asyncio.Lock` per account, `_busy_accounts` | `session_guard`, `try_begin_exclusive`, `end_exclusive`, `exclusive_session`, `temp_client` | called by every other part that opens a client |
| Accounts and logins (`accounts.py`) | account records, client pool, pending logins | login, code, password, validate, logout, warm, release, shutdown | manager lock, session locks, `accounts.json` |
| Session files (`sessions_service.py`) | `.session` files | import, export, rename, delete | busy marks, account records |
| Queue worker (`action_queue_service.py`) | one run record, its operations and counters | start, execute with retries and waits, cancel, finish | session locks, runs file, control routes, scheduler |
| Run control (`routes/actions.py`) | flags and status of a run | cancel, pause, resume, delete, clear, retry | the run record, from pool threads |
| Runs file (`action_runs_service.py`) | `action_runs.json` | load with recovery, save, delete | worker and routes |
| Scheduler, native engine (`schedules_service.py`) | `schedules.json`, messages waiting at Telegram | tick, reconcile, create, update, delete, clear | scheduler lock, session locks, Telegram |
| Scheduler, runner engine (`schedules_service.py`) | `schedules.json` | tick, fire, run now, complete | queue worker, busy marks |
| Recurrence (`recurrence.py`) | none | slots after a time, slots elapsed, horizon | both engines |
| Document store (`store.py`, `documents.py`) | JSON files, one lock each | read, write, mutate | settings, presets, app password, accounts, schedules |
| App password (`app_password.py`, `routes/auth.py`, `main.py`) | password hash, session tokens | setup, login, logout, middleware check | settings file |
| Audit log (`audit_service.py`) | `events.jsonl` | append, trim, list | every part |

### Web client

| Part | State | Operations | Interacts through |
|---|---|---|---|
| Run console (`hooks/use-run-polling.ts`, `lib/queue-run.ts`, `hooks/use-loading.ts`, `screens/actions/run-banner.tsx`, `components/run-history.tsx`) | the followed run, the guards `guarded`, `actionBusy` and the prompt's flag, the confirmation | start, poll, announce; pause, resume, cancel; retry, delete, clear; quick actions that wait | run control routes |
| Resource cache (`hooks/use-resource-state.ts`) | one query per list | automatic fetches, reloads after a save, optimistic setters | every list of the backend |
| Dialogs screen (`hooks/use-dialog-state.ts`, `hooks/use-cached-dialogs.ts`, `hooks/use-dialogs-controller.ts`) | account, list, ticks, filter, stored selections | switch, cached and live reads, quick actions, hand-offs | dialogs service, queue runs |
| Accounts page (`hooks/use-account-state.ts`, `hooks/use-account-login-flow.ts`) | list, choices, pending login | refresh, login steps, validate, log out, delete, import, export | accounts and logins, session files |
| Action composer (`screens/actions-screen.tsx`, `screens/actions/run-panel.tsx`, `lib/action-schema.ts`, `lib/schemas.ts`, `components/schedule-parts.tsx`) | the draft, the schedule form, preview, presets | edit, run, preview, create, save, load | queue runs, schedules, presets |
| Inspectors and sync (`screens/dialogs-screen.tsx`, `components/scheduled-inspector.tsx`, `screens/actions/sync.tsx`, `lib/sync.ts`) | what was read of one account, the plan | read, act, scan, clear, preview, run | Telegram calls, cached dialogs |

Stateless parts (Telegram wrappers, error classification, conditions, identifiers, account
settings, health, launcher, static files; layout, theme and UI kit of the client) are listed in
`PROJECT.json` with the reason they are not modelled.

What makes each part correct, and what makes it hard:

* **Session locks.** One client per `.session` file; no deadlock between runs over
  overlapping accounts; a busy mark exactly while a lock is held; ad-hoc work never waits
  behind a run. Hard because a released `asyncio.Lock` is free for everybody until its
  first waiter has had its turn, and because a run can be cancelled between two acquires.
* **Queue run.** A cancel or pause takes effect at the next operation wherever the worker
  happens to wait; the verdict follows from the operations; a final status comes from a worker
  that has stopped calling; the file gets what memory says. Hard because the routes run in pool
  threads that test a field and assign it later while the worker reads and writes the same
  fields, because saves overlap, and because the process may end at any point.
* **Runner schedules.** A slot is fired once or skipped, never twice, never late and never
  after a pause; the loop wakes for every slot; a plan ends when it is over. Hard because the
  tick works for a long time on a copy of all schedules, the process or a save may fail
  between the fire and the save, and the clock goes on while the application is closed.
* **Native schedules.** The books (`native_chats`) match what waits at Telegram, so that a
  deletion removes everything and a reconcile adds only what is missing. Hard because
  DELETE and clear work beside the scheduler lock, a tick keeps a loaded copy across
  awaits, calls fail half-way, and Telegram goes on when the process does not.
* **Run console.** The end of a run is announced once and truly; the controls of a live run
  stay in reach; every guard is released. Hard because a poll, a new run, a removal and a
  restart meet in one effect, and because handlers hold a guard for as long as a run lasts.
* **Cache and screens.** A list shows what was just saved; ticks and actions belong to the
  account and chat they were made for; a plan, a preview or an announced engine belongs to the
  draft it was made from. Hard because nothing orders requests, because state lives on when a
  screen is left, and because client and server read the same text twice.

## 2. Modules

| Module | What it is |
|---|---|
| `SessionMutex` | abstract: a task enters with a set of accounts that nobody uses and leaves |
| `SessionLocks` | the locks, waiters, busy marks and the two protocols over them |
| `RunLife` | abstract: what a run shows, who may control or remove it, what the file tells |
| `QueueRun` | worker, routes in pool threads, overlapping saves, restart, for one run |
| `NativeSchedule` | scheduler tick, endpoints, `schedules.json`, Telegram's chats, clock, crash |
| `Recurrence` | the slot arithmetic of `recurrence.py`, and what a plan means |
| `RunnerSchedule` | scheduler task, tick over runner schedules, endpoints, clock, crash |
| `RunConsole` | the client's poller, guards, controls and dialogs over runs of the server |
| `ResourceCache` | one cached list of the client, its fetches, reloads and setters |
| `ActionCatalog` | which actions exist and to which chats they apply |
| `DialogsView` | account, lists, selection and quick actions of the Dialogs screen |
| `AccountsConsole` | the Accounts page with the server side of logins |
| `ActionForm` | the forms of the actions: written as a message, read back, read by the server |
| `Composer` | the draft that is run, scheduled or saved, with the server's answers |
| `SyncPlan`, `SyncPanel` | the difference of two dialog lists as steps; the tab that runs it |
| `MessageInspector`, `ScheduledInspector` | the two inspectors |
| `Panels` | the inspectors and the Sync tab with the guard they share |
| `...Proofs` | inductive invariants and theorems of the module they are named after; `RunnerScheduleProofs` has those of `Recurrence` too, `AccountsConsoleProofs` those of `ResourceCache`, `PanelsProofs` those of `Composer` |
| `MC...` | constants and symmetry sets for TLC |

A module contains, just before a definition, mutated forms of it marked as mutations.
They are used by no specification. Each property is known to fail when the definition is
replaced by its mutated form, which shows that the property depends on that piece of code.
Definitions marked *Refuted*, and those quoted in section 6 as refuted, are claims that the code
does not meet; they are kept to be checked on demand.

### SessionLocks

`locked` and `waiters` are the `_locked` flag and the `_waiters` queue of each
`asyncio.Lock`, `busy` is `_busy_accounts`, and `pc`, `kind`, `want`, `held` are the locals
of a task: `held` is the list `acquired`. One action is what a task does between two
suspensions. `SessionGuard` and `Resume` take locks in sorted order as far as possible and
queue at the first that is taken (`Acquire`); `TryBeginExclusive` is the same without a
wait, guarded by the check at line 353; `ExitGuard` and `EndExclusive` are the two ways to
give back. `TakesAtOnce` is asyncio's rule for an acquire that does not suspend.
Tasks that wait are not cancelled: the code cancels no task but the scheduler's, at
shutdown.

`SessionMutex` promises only that sets of accounts in use are disjoint. `Mutex` maps a task
that is inside to the set it wanted and everybody else to the empty set.

### QueueRun

The worker's program counter follows `run_action_queue`: `start` and `lock` (the task before
its `try` block, the session guard), `top` to `recheck` (cancel check, pause gate, cancel
check), `delay`, `begin`, `condition`, `call`, the flood branches, and `final` to `finish`,
where the flag and the status are read, the verdict is written and saved, and the clients are
released. The control routes are `def` routes, so each request (`Handler`) has a thread of the
pool, and threads are switched between any two accesses: every action reads or writes one of
the shared fields `status`, `cancelReq` and `pauseReq` (only a worker that has seen the cancel
flag, which nothing clears, writes the status in the same step). A route tests the run, sets
its flags, reads the status and writes it in steps of their own (`Cancel`, `CancelFlag`,
`CancelPause`, `CancelStatus`; the same for a pause and a resume). A delete or a clear tests and
removes in two steps; a clear looks at all runs, so it may have looked before this one was
listed. Each request is served once, and they are numbered in the order they arrive, which
loses nothing, because they differ in what they do only.

A save is two steps as well, of the worker and of each route: `save_action_runs` picks the runs
to write, and writes them later under the lock of the document, with what the records hold by
then. The save of a route about another run is there too (`Elsewhere`). The run is taken to be
one of the newest hundred, which is all the file keeps. A failed write raises in the worker
where it was called, and is the request's error in a route; `MaxFaults` bounds these failures.
`disk` is the run's entry in `action_runs.json`; `Restart` loses everything else and applies the
recovery of `load_queue_runs`.

Three variables are observation only. `heard`: a cancel was asked for while the worker was in
its loop. `late`: a control that had seen the run alive has written its own status over a final
one. `crossed`: the run was listed or removed between the two halves of somebody's save. The
properties name them where the code makes an exception (section 6).

`RunLife` promises what is left for the operator under these races: a run is shown as final
only when its worker has ended; what brings an active status back is a control that saw the run
alive, once for each look; only a thread that found the run final, or not there yet, removes it;
the file gets what memory says or loses the run; and a restart leaves no run that is shown as
active. A worker calls Telegram a bounded number of times for each operation, and never after
the end. `ImplementsLife` maps `pc` to the phase, the status to what it shows, and the routes to
the threads that have looked and not yet acted.

### NativeSchedule

`disk` is `schedules.json` as a function on the stored ids; `chat` is what Telegram holds,
every message with the schedule that created it; `tick`, `del` and `clr` are the local
variables of the running tick, of each DELETE request and of `clear_scheduled`. The tick
loads the file once, turns to each active schedule (`TickSkip` when it is not due or its
account is busy, otherwise `TickTake`, `TickWarm`, then `TickList`, `TickCreate`,
`TickChatDone` for each chat, and `TickReconciled`), and writes the mapping back. DELETE has its
three phases: `DeleteBegin` (tombstone), `DeleteGuard` to `DeleteTornDown` or `DeleteFails`,
and `DeleteCommit` or `DeleteRetain`. The scheduler lock is held over an await by the tick
only, so the other critical sections are guards on `schedLock` inside one action. The
session lock is used as `SessionMutex` specifies it, which `SessionLocks` is proved to
implement; the tick and clear give up when it is taken and DELETE waits for it.

`lost` is observation only, except that `MaxLost` bounds it: the ids that only a tick knew and
that it did not save, because a create call raised (`TickFails`) or the process ended (`Crash`).
The code really loses these ids; the properties say that nothing else is ever lost.

`Faults` selects which calls may fail (`warm`, `list`, `create`, `delete`, where a failed
delete may or may not have been carried out) and whether the process may be lost
(`crash`, which also stands for `stop()` cancelling a tick). `ResumeDeleting` says whether
a PATCH may arrive for a schedule that is being deleted: the API accepts it, the frontend
hides the buttons. Message ids are drawn as the least id that nobody remembers, which
keeps them bounded and never reuses an id that somebody could still mention.

Abstractions: all chats belong to one account; the plan is a count of fires one slot
apart; a slot is at least the reconcile interval of one hour. Staggered offsets, PATCH of
the name alone, warnings and coverage are left out.

### Recurrence and RunnerSchedule

`Recurrence` gives `compute_anchor`, `upcoming_fire_times`, `next_future_slot`,
`fires_elapsed` and `native_horizon` as operators over numbers; `InPlan` and `Slot` say what a
plan is independently of them. The loop of `upcoming_fire_times` is stated by the index it
starts from and the first index at which it stops. `RunnerSchedule` uses these operators;
`NativeSchedule` has plans whose slots are the numbers `Fire` and needs none of them.

`disk` is `schedules.json`. The scheduler task is `loop` and `wakeAt` (`_run`), `wake` is the
event that `notify` sets, and `tick` holds the locals of `_tick_locked`: the time of its start,
the mapping it loaded, the active schedules it has not come to, and the soonest wake-up. A
tick is `TickBegin`, one `TickNothingNext`, `TickNotDue` or `TickFire` for each active
schedule, and `TickSave` or `TickSaveFails`. Each schedule is a step of its own because a
native schedule that stands between two runner schedules in the mapping suspends the tick.
The lock is held over an await by the tick only, so every endpoint is one action guarded by
`LockFree`; but `build_schedule` computes its slots before the lock is awaited, so `Create`
chooses a time `at` in the past.

A fire starts a run (`pending`), is skipped because the account is busy, is refused because
no account is authorised, or raises because the runs file cannot be written. A run takes its
account when it is free (`RunEnters`), and manual runs and ad-hoc calls take it too
(`OtherTakes`). `Lose` is what a crash, or a save that fails, does to a tick.

`history` is observation only: for each schedule the number of fires by the clock, the slot
of the last one, the time of the last resume, how often a fire or another change was lost
with its tick, whether the lost one is to be repeated, and whether `run_now` reported a
failure although it started a run. No action depends on it, except that `MaxLost` bounds it.

Abstractions: one account per schedule; a unit of time is at least the 60 seconds after which
a failed tick is repeated; a fire that raises leaves nothing behind (in the code a run that is
never started stays in memory until the next restart); names and queues are left out.

### RunConsole

`status`, `holds` and `account` are the server's runs, with a worker that enters the session,
proceeds, floods, parks and ends as that of `QueueRun` may; `active`, `settled` and `seen` are the poller (`activeRunId`,
`settledRef`, the data of the query); `job` has the handler in flight in each guard. A handler
is a click, an answer to the confirmation, the request and what follows it (`Handler`), and may
be waiting for its run to be over (`awaitQueueRun`). A failed request and a restart of the
server, which marks live runs `interrupted`, are bounded by `MaxFaults`.

### ResourceCache

Values are version numbers, so that the relation of two copies is their order. `fetch` is the
one request of the query: asked, read at the server, applied. A reload that finds a fetch in
flight is handed its promise, which is what `fetchQuery` does; `outdated` says that the server
had answered that fetch before the save. `kind`
distinguishes the four ways the code saves and refreshes its resources; each behaviour has one.

### DialogsView and AccountsConsole

Cached reads carry the account they are for and what their callback closed over (`asks`), the
request token keeps the latest; `FetchLands` is the live read inside `guarded`. `strayed` is
history: a read was made that the token does not cover (Fetch Live and Load Cache, or one whose
screen was left). Such a read may put the list of one account on screen under another (`Mixed`),
and what is ticked then is stored under the wrong account (`use-dialogs-controller.ts:124`).
`SelectionStaysHome` says that this is the only way: no list is mixed without such a read, and
no selection gains another account's chats while the list is not.

In `AccountsConsole` `list` and the choices are what the client holds, `srv` and `challenge`
what the server holds, `tg` the sessions Telegram recognises. Two refreshes may be in flight,
each with the snapshot it read (`reads`); applying one cuts the choices to the accounts it
lists. A login is `ClickStart`, `ClickCode`, `ClickPassword` through `Serve`. A request fails at
the server before it has changed anything (`RequestFails`), a validation with what it found out
recorded, a logout also after Telegram ended the session, and Validate all for some of the
accounts only. `ServerRestarts` forgets the challenges and sets every account to `stopped`, which
changes what the page offers in the middle of a login.

### ActionForm and Composer

A message is a sequence of lines, so that serialisation, `deserialize` of the client and
`parse_options` of the server (`telegram_actions.py:728`) can be told apart without strings. A
line has what each reader finds before its first `=`: `opt` is the server's option, trimmed and in
lower case, of every line with a `=` (an address with a query too); `key` is the client's, only
where the line spells the field of a form. The server looks an option up under several names
(`Names`) and takes the text from an option when a line gives one (`TextRead`). `Composer` has the draft with the form of its action, the accounts, the schedule form,
the preview with the draft it was made of, the presets as stored and as listed, and `sent`, the
last request the server accepted. `composing` and `run` are the two guards.

### Panels

The three panels use the variable `job` for the handler inside `guarded`, `view` for what is
mounted, and variables of their own; `Panels` composes them as instances, resets the state of a
panel that is left and keeps the handler it leaves behind. `ScheduledInspector` has Telegram's
messages come and go, scans that read one account after the other, and the two ways to clear.
`SyncPlan` is a pure module: `Needs` is the test of `syncDiff`, `Chunk` the slicing. The dialogs of
the source that differ are a set of indices; a step has those of them whose number in the order of
the list (`Before`) falls in its slice, and its targets are a set, because the order within a step
changes nothing. `ListsAssumption` says that a list names a chat once, which the cached dialogs do.

## 3. Runs

| Run | Instance | Shows |
|---|---|---|
| `SessionLocks` | 3 tasks, 3 accounts, fairness | exact ledger, no overtaking, implements `SessionMutex`; if bodies end, every waiter enters |
| `QueueRun` | 2 operations, 2 requests in threads of their own, 1 failed write, fairness | verdict, leftovers and durability under every switch of threads; implements `RunLife`; cancels are honoured, runs end |
| `NativeSchedule` | 1 schedule, 1 chat, 2 fires, 2 DELETEs, clear, every fault, 1 loss, fairness | books match Telegram, one message per fire, deletion is complete, books are kept, requests are answered |
| `RunnerSchedule` | 1 schedule, 2 plans, 3 starts of which one is out of reach, 5 instants, 1 lost tick, fairness | counts and ends, timely sleep, none after a pause, deletion, every slot served; the slot arithmetic over all small plans, as an assumption TLC evaluates |
| `RunConsole` | 2 runs on 1 account, 2 handlers, 1 fault, fairness | announced once when over, followed until over, following ends, guards are released |
| `RunConsole_parked` | the same without faults, an operator who keeps clicking | *violation*: a parked run cannot be freed |
| `ResourceCache` | the 4 kinds, 5 versions, 1 fault, fairness | a reload shows the write, a polled list converges |
| `DialogsView` | 2 accounts, 3 chats, 3 switches, 1 fault, fairness | selections stay with their account, quick actions fit, the list follows the account |
| `AccountsConsole` | 2 accounts, one with a password, 2 stray clicks, 1 fault (a failed request, a wrong code, a restart, a revoked session), a persistent operator | choices are listed; logins succeed |
| `Composer` | 11 actions, 2 targets, 1 account, 4 edits, 2 requests, texts with lines that look like options | preview of the draft, message read as typed, engine as announced, presets restore |
| `Composer_unlisted` | the same | *violation*: a saved preset makes the list unreadable |
| `Panels` | 2 accounts, 2 chats, 3 messages, 4 lists, 6 clicks, 2 events | the panel shows its chat, a plan copies the source, reads after a deletion |

**Bounds.** Three tasks are needed for an overtaking (holder, waiter, third party) and three
accounts for a circular wait that is not a pair. Two operations give one that the delay and a
flood stop separate from the next, and a last one; two requests are two controls, or a control
and a removal, whose tests and writes fall anywhere between the steps of the worker and of each
other, and whose saves overlap with the worker's; the proofs cover any number of each. Two DELETEs let their
stale copies cross each other, the tick and a clear; two fires and two instants let one be
delivered while the other waits, and a chat with room for two is full in between. The plan of
that run does not come to its end; that a native schedule completes is outside its instance
(`NumFires` at most `MaxTime` makes it happen). Several schedules and several chats are covered
by the proofs. For a runner schedule one plan with a count and one with an end date, starting in
the past or one interval ahead, have two or three slots within `MaxTime`, so that slots are
fired, skipped while the application is closed, missed while paused, and exhausted; operators
act up to `OpTime`, and the instants after it let the last slots pass. The third start, 8, is one
more than the look-ahead (`NativeHorizon + Margin`), so it is out of reach at instant 0 and in
reach from instant 1 on. One schedule is enough,
because schedules share only the accounts, which others may take at any time. `MaxTracked`
stands for the 50 run ids that are kept.

In the client two runs let one follow, precede or block the other on one session; two handlers
fill two guards at once. Five versions are a save, a poll and a reload that overlap, with changes
by the server between them. Two accounts and three chats give each account a chat and one a second one of another
kind, and three switches there, back and away again. Two stray clicks and one fault per login
reach the wrong code, the restart in the middle and the refresh that lands late. Four edits choose an action,
fill a field, a target and an account, or change one of them during a request; two requests are a
preview and the creation, or a save and the reading of the list. The texts have a line that gives
an option of the form once more, one that gives the text itself, one with an address, and two that
give the parse mode in a spelling the client does not know. Six clicks open, close and
reopen a panel with an account switch in between, or preview, change and run a plan; three of
the lists differ in both states, in the order and in whether a username is cached, and steps of
two targets are cut.

**Fairness.** `SessionLocks`: a resumed waiter is eventually scheduled (the loop is a FIFO of
ready callbacks); nothing is assumed of the bodies, the liveness property says "if they
end". `QueueRun`: the worker's task and every thread inside a route go on (weak fairness: an
interpreter that switches threads starves none of them); no request is forced. `RunEnds` names the
runs that end without a last word (`NoLastWord`): the worker died before its `try` block, or a
control wrote over the end.
`RunnerSchedule`: the clock advances and the loop's task is run when it is ready (weak
fairness of both); runs, accounts and operators owe nothing, and the liveness property is
about executions in which the process stays up.
`NativeSchedule`: ready code runs (weak fairness of the tick), and those who wait for a lock are
served in order (strong fairness of the DELETE and clear steps, by the FIFO order that
`NoOvertaking` and `EveryWaiterEnters` establish for session locks). Operators, the clock
and Telegram are never forced to act.
The client: requests are answered or fail, timers fire, and a dialog is answered (weak
fairness of each); of the server's runs, workers proceed and end (strong fairness of the end,
since a session is taken in between) unless they are paused. Clicks are never forced except in two specifications that are
about an operator who keeps clicking, and say so in their names (`InsistentSpec`,
`PersistentSpec`: strong fairness of the click, because the buttons come and go).

**Deadlock** is checked except where the system really may stop: `QueueRun` (a run that is over
and deleted) and the four client modules whose bounds on clicks run out (`DialogsView`,
`AccountsConsole`, `Composer`, `Panels`) and the insistent operator's run.

## 4. Proofs

`SessionLocksProofs` proves for any set of tasks and any set of integer account ids in
which every non-empty subset has a least element:

* `TypeCorrect`, `LedgerExact`, `Exclusion`: `TypeOK`, `LockLedger`, `MutualExclusion` are invariants;
* `NobodyIsOvertaken`: `NoOvertaking`, because `TakesAtOnce` needs an empty queue and only the
  head of a queue is resumed;
* `Refinement`: `SessionLocks` implements `SessionMutex`.

The invariant is `IInv`. Exclusion alone is not inductive: that two tasks inside have
disjoint wants follows only from the ledger (each locked account has one holder, who alone
holds it, and a task inside holds what it wanted), and the step of a waiter needs that a
waiting task wants what it waits for, stands in exactly one queue and is not yet holding
that account. `AcquireKeepsInv` and `ReleaseKeepsInv` do the work once for every action
that takes or gives back; `StepInv` distributes them over the five actions. `InitMaps` and
`StepMaps` give the refinement: the step in which a task reaches `inside` is `Enter`, a
release is `Leave`, and everything else stutters.

The first part of `RunnerScheduleProofs` proves for every plan, time and limit that `upcoming_fire_times` returns
the first slots of the plan after a time, in order and without a gap, that `next_future_slot`
is the next of them, and that `fires_elapsed` counts the others (`UpcomingAreTheNextSlots`,
`NextFutureSlotIsNext`, `ElapsedSplitsThePlan`). They rest on `FirstAfterIsFirst`, on the fact
that whatever stops the loop stops it at every later slot (`BeyondStays`), and on
`LeastNatural`, which gives the index at which it stops.

Its second part proves for any schedules, accounts, plans and bounds that the types
hold and that `SlotsInOrder`, `NoReplayAfterResume`, `CountKept`, `QuietUnlessActive`,
`DeletedStaysDeleted` and `SleepsInTime` hold. The only assumption is `RunnerAssumption`, the
types of the constants. None of them is inductive. The invariant `IInv` says of every record
that it `Agrees` with what has happened to its schedule: its next slot is later than the last
resume and than the last fire, its count of fires covers them, and fires are left unless it is
completed. During a tick this must hold of the record the tick works on, and, if that differs
from the stored one, also of the stored one with the history that a lost tick would leave
(`Forgotten`): the argument that a crash at any point does no harm. `TickSound` says how the
tick's copy relates to the file and why it can be written back, and `TickInTime` that the tick
has taken every slot it has seen into account. `TickDoneKeeps` and `EndpointKeeps` do the work
once for all steps of the tick and for all endpoints; `FiringStep` derives the action
properties.

`CompletesOnlyWhenOver` is proved on top of it. The invariant `PlansFollowed` says of every record,
stored or in the tick's hands, that its next slot is a slot of the plan with none left out between
now and it, and that it has no next slot only if it is `Spent`: nothing is left, or it never began
and was out of reach of `next_future_slot` when it was asked for. The second is what the code does
to a plan that starts, or whose next slot lies, more than 366 days ahead (section 6), and the
property names it (`OutOfReach`); that it happens to no plan that has fired is part of what is
proved. `MovingOn` shows that the step from slot to slot leaves none out, and that a slot past the
end date means that none inside it is still to come; `FollowsCreated` is about the look-ahead.

`QueueRunProofs` proves `TypeOK`, `NothingLeftOpen`, `CompletedMeansAllRan`, `CancelIsHonoured` and
`DoneIsDurable` for any number of operations, requests and failing writes, with threads switched
between any two accesses. `WorkerKinds` and `RouteKinds` first sort the forty steps into a few kinds.
The parts of the invariant are `Structure` (the operations have their turn in order with two calls
each at most, a worker that leaves the loop by itself has closed all of them), `QuietAfterEnd` (a
final status means that the worker has left its loop), `VerdictIsSound` (the worker is about to
write "completed" only if every operation ran, or if it was flood-stopped and a control wrote over
that), `CancelInTime` (a cancel that was heard in time has its flag set when the verdict looks at
it), `DiskIsSound` (what the file holds came from a record for which this was so, which a restart
relies on) and `Durable`: whichever of the overlapping saves is last picked the runs after the
last change of the list, unless that was crossed, and writes the record after the last change of
its fields, because whoever changes something has a save of its own still to come.

`LifeIsImplemented` proves that `QueueRun` implements `RunLife`, with no assumption on the threads.
`Phases` and `WordsShow` say how the steps map; what is used of the invariant is that a final
status means a worker past its loop.

`NativeScheduleProofs` proves `TypeOK`, and under the assumption `~ResumeDeleting` also
`NothingUntracked`, `DeletedLeavesNothing`, `TrackedNeverDropped` and `OnePendingPerFire`, for any
schedules, chats, requests, limits and faults. Two arguments meet in the invariant. The first is
about the tick: what it carries covers every waiting message even without the file
(`CarriesAll`, `CollectsAll`), so it may be written back; and what it carries that the file does
not list is new (`NewIsNew`), so a failed call or a crash puts exactly those ids into `lost`. The
second is about deletions: while one is under way the file keeps the tombstone
(`TombstoneHolds`), which the tick does not touch (`LeavesTheRest`), so the request's copy and the
file agree on every message that is still waiting (`CopyAgrees`), and writing the copy back does
no harm, however often the request is repeated. Without the assumption the tombstone does not
hold: a PATCH makes the schedule active, the tick refills it, and the copy is stale.

`RunConsoleProofs` proves `TypeOK`, `AnnouncedOnceWhenOver` and `TrackedUntilOver` for any number of
runs. The invariant `Books` adds that the followed run is not announced, that a run with a new id
never was, and that a retry waits for a run that exists; that the next id is unused is
`NextIdIsUnused`, by the well-foundedness of the naturals. For `TrackedUntilOver`, `LeavesFor` says
that a run that is alive at the server is let go of only for another run or with a request that
failed.

`AccountsConsoleProofs` proves `ChoicesAreListed` for any accounts and bounds. It is inductive with the
types and `HandlerHasItsAccount` (a handler that acts on one account has it): every step that changes
the list goes through `Apply`, which cuts all choices to what it lists, and every other step chooses
from the list that is shown. Its second part is about `ResourceCache`: `CacheTypeOK` and
`ReloadShowsTheWrite` for every bound. The invariant `ReloadIsCovered` says that during a reload the
save is at the server and that the request the reload waits for, its own or one it was handed, has
not been read yet or was read after the save, unless it is `outdated`.

`DialogsViewProofs` proves `TypeOK`, `SelectionStaysHome` and `QuickActionsFit` for any accounts and
chats. Until a read strays, the one read in flight is of this visit and of the account whose
selection is kept (`ReadIsCurrent`), and what is shown is of that account (`Home`); whatever strays,
a selection grows only by what is on screen.

`PanelsProofs` proves the three properties of `Panels` for any accounts, chats, messages, lists and
bounds.
* `PanelShowsItsChat` is inductive by itself: `Shown` keeps an answer only for the chat that is open.
* `ReadsAfterTheDeletion` needs `SInv`: a message that was deleted has left Telegram for good
  (`GoneIsOver`), and the scan that a deletion asks for has, until it is over, read nothing that the
  deletion removed (`OwnScanFollows`), although other scans run beside it and messages come and go.
* `PlanCopiesTheSource` needs `YInv`: a preview under way keeps the choice it was asked for, with a
  source that is none of the targets (`PreviewIsSourced`), and a plan on display was computed from the lists it keeps
  (`PlanFollows`). What is left is a fact about `buildSyncSteps` for lists of any length:
  `EveryNumberIsTaken` (the differences get the numbers 1 to n, each once, by counting instead of
  induction), `StartsCover` and `SlicesCover` (the slices cover these numbers),
  `StepsHitTheDifferences` (so a step has a target exactly if the source differs there) and
  `StepsAreSized` (no step exceeds the cap).

Its last part proves of `Composer`, for any actions, targets, values, recurrence forms and presets,
`PreviewIsForTheDraft` and `EngineIsAsShown`. The invariant `CInv` says that a preview under way or on
display knows whether its draft is still the one in the panel (`PreviewIsTagged`,
`AnswerIsTagged`). That the two classifiers of engines agree is `SameEngine`.

Of the same module it proves what the round trips of a text keep, with no assumption on what is
typed. `TypedIsSent`: the server reads the text as it would read it alone, and each option as it is
in its field, but for one that a line of the text gives as well. `PresetsRestore`: in the message of
a preset that was loaded the server reads the same text and the same options, but for one that is
contested (`Contested`). A message is a sequence of lines; what a reader keeps of it is defined by
counting (`Kept`), and what it finds by the last line (`LastOf`), so that both are proved without
recursion, for texts of any length: `JoinedLines` is about the lines of a head and a text that is
put behind it, `LastFollows` says that the text's last line wins, `ServerReadsTheForm` puts the
fields together, `MessageKeys` and `LoadedForm` say what the client reads of the same message, and
`OptionReturns` and `LinedReturns` that the server reads the same in what is written from that. The
invariant `FInv` says that every form in the draft, in a request under way, in a dialog, in a stored
or listed preset is well formed and that a message is the serialisation of the form it is kept with.

**Only model-checked** is liveness: `EveryWaiterEnters`, `RunEnds`,
`EverySlotIsServed`, `RequestsAnswered`, `TrackingEnds`, `EveryGuardIsReleased`, `PolledListConverges`,
`ListFollowsTheAccount` and `LoginSucceeds`. Fairness and ENABLED are outside the prover's reach. Every
other property of a passing run is stated by a theorem for all values of the constants. Only those
of `NativeSchedule` have a hypothesis, `~ResumeDeleting`. What `FiresElapsed` counts is proved as a statement about indices; that the
number of such slots is their cardinality is only checked.

## 5. What is left

* `AccountSessions`: the client pool, warming and release between runs, and session files on disk. What
  is hard there depends on how SQLite and Telethon treat two openers of one file, which the
  source does not say.
* `DocumentStore` and `AppAuth`: the store's atomic read-modify-write and the one writer that goes
  round it; session tokens.
* An abstract specification of a schedule (which slots are served, and in which order) that
  `RunnerSchedule` implements.

### Not modelled

Telegram's calls themselves, error classification, conditions, identifiers, account settings,
health, avatars, the audit log, the launcher, packaging, and the client's layout, wording,
theme, notifications and row editors hold no state that two steps share; `PROJECT.json` lists
each with its reason. Expansion of a queue into operations, staggered native offsets and
renaming of schedules are pure or independent of the rest and are left out of the modules that
stand for their components.

## 6. Disagreements found

Two are kept as runs and listed in `PROJECT.json` with the lines they contradict: the parked run
that its own controls cannot free while a quick action waits for its session
(`RunConsole_parked`), and the preset that makes the list of presets unreadable
(`Composer_unlisted`).

The following claims are refuted too. Each is defined in its module; added to the configuration named,
it yields a counterexample.

| Claim | Configuration | What happens |
|---|---|---|
| `FailFastNeverWaits` | `SessionLocks.cfg` | a fail-fast acquire queues at a lock that was released to a waiter but not taken yet |
| `DeletedLeavesNothing` | `NativeSchedule.cfg`, `ResumeDeleting = TRUE` | a PATCH during a DELETE lets the tick refill what is being emptied |
| `ErrorMeansNotStarted` | `RunnerSchedule.cfg` | `run_now` starts a run and reports a failure once the list of run ids is full |
| `ReloadIsFresh`, `ToggleIsSaved` | `ResourceCache.cfg` | a reload joins a fetch sent before the save; a fetch in flight undoes a toggle that was saved |
| `HandOffCarriesTheirAccount` | `DialogsView.cfg` | chats are handed to Actions with the account chosen last, not the one they were listed for |
| `PlanIsForTheChoice`, `RunsAreWithinTheLimit` | `Panels.cfg` | a preview answers after the choice was edited; a plan within the client's limits is over the server's |
| `MessageActsOnItsAccount`, `DeletesWhereItLooked`, `NothingDeletedIsListed` | `Panels.cfg`, with `M!` and `S!` of `Panels` | a closed message panel reopens on a late answer and acts with another account; a look-up is shown under the account picked since; overlapping scans land in any order |

These behaviours are in the models that are checked, and the property that would be simplest
without them names each as its exception:

| Where | What happens | Exception |
|---|---|---|
| `routes/actions.py:137-180` | a control that tested the run before it ended writes `canceling`, `pausing` or `running` over the final status, and the run is never shown as over again until a restart | `late` in `RunEnds`, `CancelIsHonoured` and `CompletedMeansAllRan`; `Steer` of `RunLife` |
| `action_queue_service.py:298-302` | such a control falls between a flood stop and the verdict, and the run is shown as completed with operations skipped | `late` in `CompletedMeansAllRan` |
| `action_queue_service.py:298` | a cancel that is accepted after the verdict has looked at the flag is answered as if it took effect, and the run is completed | `heard` covers the loop only |
| `routes/actions.py:82-90` | a clear that looked before a run was listed removes it while its worker calls Telegram; one that falls before the task's first line makes the worker die of a `KeyError` | `Doom` of `RunLife`; `pc = "dead"` in `NoLastWord` |
| `action_runs_service.py:28-30` | a save that picked the runs before this one was listed or removed writes last: the file lacks the run, or still has it | `crossed` in `DoneIsDurable` |
| `action_queue_service.py:200-203` | a write that fails before the `try` block leaves the run `queued` or `running` for good | `pc = "dead"` in `NoLastWord` |
| `recurrence.py:74-77` | a schedule that starts, or whose next slot lies, more than 366 days ahead is completed by the next tick without a fire | `OutOfReach` in `CompletesOnlyWhenOver` |
| `hooks/use-resource-state.ts:178` | a reload is handed a fetch that the server answered before the save | `outdated` in `ReloadShowsTheWrite` |
| `hooks/use-dialogs-controller.ts:124` | a live read that lands after a switch puts another account's chats on screen, and what is ticked is kept for the wrong account | `Mixed` in `SelectionStaysHome` |
| `telegram_actions.py:735-738` | a line of a text with a `=` (an address with a query in a caption, say) is taken for an option: it leaves the text, and may override a field of the form. The form's hint says "Plain text sends the caption exactly as typed." (`lib/action-schema.ts:219`) | `TextRead` of the typed text in `WhatIsTypedIsSent` |
| `lib/action-schema.ts:143-155` | such a line with a key of the form is loaded from a preset into the field and leaves the text | `Contested` in `PresetRestoresTheAction` |

Seen while modelling and kept as a note only:

* `action_queue_service.py:245`: a pause accepted during the pacing delay lets one more
  operation run, because the gate is passed before the delay.
* `action_queue_service.py:391`: a resume and a second pause within one poll leave a parked
  run shown as `pausing`, because the worker writes `paused` once, before its loop.
* `action_queue_service.py:555`: retrying the failed operations of a run raises when one of
  its operations has no result.
* `schedules_service.py:641`: a tick keeps the time of its start, so a slot that passes while
  it connects and lists is still created (`NativeSchedule` has this in `tick.now`).
* `schedules_service.py:849, 870`: `_reconcile_chat` stores the ids of the messages it
  created only after its loop. When a create call raises, those ids are lost (`lost`): the slots
  are filled a second time after a resume, and deleting the schedule leaves the messages behind.
* `schedules_service.py:663`: a crash or a failed save after a fire makes the slot due again
  (`history.lost` counts this, and `SlotsInOrder` and `CountKept` allow it).
* `schedules_service.py:672`: a fire is not compared with the end date, so when the
  application was closed over the last slots one of them is fired late, after the end date.
* `schedules_service.py:706`: a run that was just started has not marked its accounts yet, so
  two schedules due in one tick both start on one account and the second run waits.
* `app_password.py:43`: the password is written by a read and a write without the store's lock.
* `lib/schemas.ts:80`: `queueStepSchema` drops the condition of a step, so a preset or a schedule
  edited from the list loses it; `PresetRestoresTheAction` leaves the condition aside.
* `screens/actions-screen.tsx:178`: a preview is tied to the draft but not to the accounts or the
  recurrence; changing these during the request leaves the old preview on display.
* `components/schedule-parts.tsx:293`: a schedule opened from the Dialogs screen is not checked for
  empty fields.
* `hooks/use-cached-dialogs.ts:36`: a screen that was left still applies the answer of its read, and
  the read of the next visit has another token.
* `accounts.py:144`: a session that Telegram revoked keeps `authorized`, so a login request answers
  that the account is ready; refused login steps change the record without a refresh.
* `screens/actions/run-panel.tsx:513`: a preset can name accounts that were deleted since; they stay
  chosen until the next refresh.
* `components/scheduled-inspector.tsx:77`: clearing a chat removes the messages that a filter hides
  and those added since the scan.
* Two quick-action prompts: the first to finish closes the second (`components/quick-action-runner.tsx`).
