# A TLA+ model of TablePro

TablePro is a native macOS database client (`src/TablePro`, Swift; drivers as
plug-ins in `src/Plugins`, an iOS companion in `src/TableProMobile`). These
modules model its own core logic: what happens to the edits a user makes to a
result set until they are sent to the database, how database connections are
opened, kept alive and closed, how the Copilot language server is started,
asked and stopped, and how several Macs keep their data in step through iCloud.

File and line references are to the repository; paths are relative to
`src/TablePro` unless they say otherwise. `PROJECT.json` maps every definition
to the lines it stands for.

Contents: [the system](#the-system), [modules](#modules),
[runs](#runs), [what the violations show](#what-the-violations-show),
[failures kept out of the runs](#failures-kept-out-of-the-runs),
[proofs](#proofs), [not modelled](#not-modelled), [plan](#plan).

## The system

| Component | State it keeps | Operations | Hard behaviour |
|---|---|---|---|
| Pending changes (`Core/ChangeTracking/PendingChanges.swift`) | `changes`, `changeIndex`, deleted and inserted rows, `modifiedCells`, `insertedRowData` | record, undo and replay of cell edits, insertions, deletions, batches | six collections kept in step by hand; row numbers move when rows come and go |
| Data change manager and grid rows (`DataChangeManager.swift`, `RowOperationsManager.swift`, `TableRows.swift`) | the pending changes, the grid's rows, the window's `UndoManager` | edit, inspector edit, add, duplicate, paste, delete, undo, redo, discard | an undo decides by the state it finds; the grid and the changes are replayed by different code |
| SQL statements (`SQLStatementGenerator.swift`) | none | statements for a set of changes | which row a WHERE picks, what is left out, the order |
| Tab and save session (`Views/Main/Extensions/MainContentCoordinator+*.swift`) | per-tab snapshots, the selected tab, queued table operations | switch, evict, close, save, failed save | a save is asynchronous while the user edits and switches tabs |
| Connection lifecycle (`Core/Database/DatabaseManager*.swift`, `ConnectionHealthMonitor.swift`, `Core/SSH/SSHTunnelManager.swift`, `Core/Concurrency/OnceTask.swift`) | sessions, drivers, health monitors, tunnels, in-flight connects | connect, disconnect, reconnect, ping, tunnel death and recovery, wake | every step is separated by awaits in which any other may run |
| iCloud sync (`Core/Sync`) | dirty ids, tombstones, change token, status, conflicts | push, pull, conflict resolution, account change, enable, disable | marks set during a push, tokens stored before their changes, two devices |
| MCP sessions (`Core/MCP`) | sessions, in-flight requests, rate limits | create, touch, terminate, idle cleanup, shutdown, cancel | limits checked before an await, cleanup racing use |
| LSP and Copilot (`Core/LSP`, `Core/AI/Copilot`) | pending requests, process, status, generation | send, answer, process exit, start, stop, restart | a continuation must be resumed exactly once |
| Query execution (`Core/Services/Query/QueryExecutor.swift`) | running query, generation | run, cancel, apply result | a late result of an older query |

How they interact: the grid's commands call `RowOperationsManager` and
`commitCellEdit`, which change the rows and tell `DataChangeManager` what
changed; that records it in its `PendingChanges` value and registers an
`UndoAction` with the window's `UndoManager`. An undo comes back through
`DataChangeManager.applyDataUndo`, which changes the pending changes, registers
the opposite action, and hands a result to
`RowOperationsManager.applyUndoResult`, which changes the rows. A save asks
`SQLStatementGenerator` for the statements and runs them on the driver of the
connection's session; a tab switch puts the pending changes into the old tab's
snapshot and restores the new tab's. Sync, MCP and Copilot run beside these on
their own actors and meet them in the connection list and the driver.

What makes each correct:

* *Pending changes*: the index finds each change and nothing else; the row
  marks are the rows with a change of that kind; a cell is marked modified
  exactly when a save writes it; new rows keep the numbers after the loaded ones.
* *Grid and changes*: an UPDATE is the difference between what is shown and
  what was loaded, there is one INSERT per new row with the values shown, and a
  DELETE picks the row it was made from; undo takes back, redo takes back
  undo, discard shows what was loaded.
* *Tabs and saves*: no edit is lost or sent twice; a snapshot comes back to
  the tab it was taken from.
* *Connections*: a driver or tunnel that is open is reachable from a session
  or closed; at most one monitor per connection; a connection the user closed
  stays closed.
* *Sync*: what a Mac has and the zone has not is marked to be pushed or still
  to be pulled; all Macs end with what the zone has.
* *LSP and Copilot*: every request has one outcome and gets it; a start, a stop
  and a failed start are always somebody's work; without a provider no server
  runs.
* *MCP*: the capacity holds; every request is answered once.

## Modules

| Module | Content |
|---|---|
| `PendingChanges` | the value type, one operator per mutating method |
| `SQLStatements` | the statements generated for a value of it |
| `DataChangeManager` | the state machine: grid, pending changes, undo and redo stacks, one action per command; `TypeOK` |
| `DataChangeProperties` | invariants and action properties |
| `DataChangeProofs` | the inductive invariant of the collections, what each method of `PendingChanges` records |
| `SaveProofs` | what `GenerateStatements` computes from the changes, what each command does to the recorded cells, and that a save sends what the grid shows |
| `UndoProofs` | what a replay does, the chain of states along the undo and the redo stack, and the theorems about pending changes |
| `MCDataChanges` | tables and values for TLC |
| `SSHTunnels` | the actor `SSHTunnelManager`: its table and the tunnels that run |
| `ConnectionSessions` | `DatabaseManager` and `ConnectionHealthMonitor` as interleaved tasks, composed with `SSHTunnels` |
| `ConnectionProperties` | `TypeOK`, invariants and liveness |
| `ConnectionProofs` | types, recoveries, the current session |
| `MonitorProofs` | a table of what every step does; monitors, connecting sessions, operations one at a time |
| `DriverProofs` | who holds an open driver: monitors, open drivers, closed sessions, connected sessions |
| `MCConnections` | one or two connections for TLC |
| `RequestOutcomes` | abstract specification: requests, lines that open and close, one outcome per request |
| `LSPTransport` | one server process per transport, pending requests, responses in the pipe, exit |
| `CopilotService` | the service's start, stop, timers and sign-in as interleaved tasks, composed with `LSPTransport` |
| `CopilotProperties` | `TypeOK`, invariants, the refinement mapping to `RequestOutcomes`, liveness |
| `CopilotProofs` | the inductive invariant, the theorems, the refinement |
| `MCCopilot` | tasks and starts for TLC |
| `CloudSync` | `SyncCoordinator` on several Macs and the CloudKit zone |
| `SyncProperties` | `TypeOK`, invariant and liveness |
| `SyncProofs` | the inductive invariant and the theorems |
| `MCSync` | two Macs for TLC |

### Data changes

**State.** `tableRows` is `TableRows.rows`: a row is its values and its
origin, the position it was loaded from (`RowID.existing`) or 0
(`RowID.inserted`). `pending` is the struct `PendingChanges` with the source's
field names. `undoStack` and `redoStack` are the window's `UndoManager`.
NSUndoManager groups what is registered during one event, so an element is a
sequence of one or two actions, and a group is undone last action first. What
an undo closure captures besides its action (`restoreInsertedValues`) is the
field `savedValues` of a row insertion.

**Actions.** Everything here runs on the main actor without an await, so a
command is one step: `CommitCellEdit` (leaving a cell of the grid),
`SidebarEdit` (a field of the inspector, one or two selected rows),
`AddNewRow`, `DuplicateRow`, `PasteRows`, `DeleteSelectedRows`,
`UndoDeleteRow` (the context menu's), `Undo`, `Redo`, `HandleDiscard`. The
constant `Commands` says which of them an instance has: an interaction that
breaks a property is kept out of the runs that show the property for the rest,
and each such exclusion is named below and under "hazards" in `PROJECT.json`.

**Abstraction.** Rows and columns count from 1. A cell value is one of a few
model values, `Null` or the `__DEFAULT__` marker. The cell changes of one
`RowChange`, an array with one entry per column in the code, are a function
from columns; the order inside a SET list is not told apart. A statement is a
record of what it sets and which row it picks; text, quoting, placeholders and
SQL function literals are left out. A batched DELETE is one record per row.
The grid is shown unsorted, so a display row is a storage row. A selection has
one or two rows (`MaxBatch`), as a sequence in the descending order in which
the code walks it: two is where the order starts to matter.

### Connections

**Tasks.** `DatabaseManager` is a main-actor class whose operations are
asynchronous, and an await that leaves the actor is a point where any other
operation may run. An operation in progress is therefore a record in `tasks`
with a program counter `pc` that names the await it stands at, and one action
is what the code does from that await to the next. An await that cannot
suspend is no such point: `stopHealthMonitor` without a monitor goes straight
on (`NoMonitor`), which keeps two starts of a monitor from overlapping unless
one of them has an old monitor to wait for. The kinds of task are `ensure`
(`ensureConnected` with its `OnceTask`), `disconnect`, `reconnect`
(`switchDatabase` that needs a reconnect), `recover` (`handleSSHTunnelDied`,
from a death callback or a wake-up), `monitor` (the loop of a
`ConnectionHealthMonitor`, its ping, and its reconnect handler) and `closer`
(the detached tunnel clean-up of a failed connect). `connectToSession` runs
inside `ensure` and `recover`; making a tunnel and a driver is shared by all
four that do it (`Openers`).

| `pc` | The task stands at |
|---|---|
| `dedup`, `leave` | entering and leaving `OnceTask.execute` |
| `connect` | the start of `connectToSession` |
| `openTunnel`, `tunnelling` | the hop to `createTunnel`, and the SSH connect inside it |
| `prepare` | the pre-connect script or the password prompt |
| `create`, `opening`, `install` | `createDriver`, `driver.connect()`, and the start-up commands before the session gets the driver |
| `startMonitor`, `started` | the old monitor's end, and the return of `startHealthMonitor` |
| `closeTunnel`, `stopMonitor`, `stopped`, `invalidate` | the awaits of `disconnectSession` in order; `stopMonitor` and `stopped` of `reconnectSession`, `stopped` of the recovery too |
| `died`, `woken`, `recover`, `backoff` | the death callback, the check after a wake-up, the hop to `handleSSHTunnelDied`, its delay |
| `sleep`, `ping`, `backoff`, `revive`, ..., `healthy`, `failed` | the monitor's loop and reconnect |

**State.** `activeSessions` keeps of a session its status, its driver and the
tunnel its effective connection points to. Drivers and tunnels are numbers per
connection: `open` holds the drivers that have connected and have not been
closed, `running` the tunnels that are alive, whether or not
`SSHTunnelManager.tunnels` still knows them. `inFlight` are the keys of
`ensureConnectedDedup`; the generation of an entry is not needed because no
connect is cancelled there. `waits` is the monitor whose end a task awaits.

**Abstraction.** A ping, an SSH connect, a script, a driver's connect may
succeed or fail at any time; a driver's connect through a tunnel succeeds only
while that tunnel runs. Delays are only points where others run. The report
of a monitor's state to the main actor is part of the step that changes the
state. Starting a monitor's loop is part of installing the monitor. Numbers of
closed drivers and tunnels are used again once nothing refers to them. A query
in flight is in `PingAnswered`: the ping is skipped and counts as answered.

### Copilot

**Transport.** `LSPTransport` is an actor, so each of its methods is one step,
some time after it was called. `server` is the process as the system sees it,
`process` the transports whose property is not nil, `exitNotices` the tasks
that the termination handler has created and that have not run yet,
`pendingRequests` the continuations by request id, `responses` what is in the
pipe. `call` belongs to the callers: a request is *asked* (the await has begun),
*waiting* (its continuation is registered), then *answered*, *error*, *refused*
(`processNotRunning`), *cancelled* (by `stop`) or *exited*. The server may
respond in any order, exit at any moment, and, on the transports in
`Repeating`, respond again.

**Service.** `CopilotService` runs on the main actor; a task is a record whose
`pc` names the await it stands at, as for connections.

| Task | Places, in order |
|---|---|
| `start` | `binary` (`ensureBinary`), `launched`, `initialize`, `register` (`onNotification`), `checkStatus` |
| `stop` | `shutdown` (the request), `exit` (the notification), `close` (`transport?.stop()`), `closed` |
| `restart`, `idle` | `sleep`: the timers of `scheduleRestart` and of `CopilotIdleStopController` |
| `complete`, `signIn`, `confirm`, `signOut` | `reply`; `confirm` also `poll` |
| `status` | `queued`: the task the `didChangeStatus` handler creates |

The generation, a counter in the code, is compared only with the value a start
took, so `serverGeneration` is the start that took the latest one, and 0 after
a stop. A cancelled timer that sleeps ends; what a cancellation does to a start
in progress is among the ways `ensureBinary` may fail. A status `.error` whose
cause is a `CopilotError`, which is not retried, is `noBinary`. The steps
between `newTransport.start` and the request of `initialize`, and the
notifications after it, change nothing others see. A sign-in that starts the
server and goes on is two steps, `SignInStarts` and a request. An answer that
does not decode makes the sign-in or its confirmation end as an error does.

Of the notifications a server may send, `StatusChanges` is the error about
signing in or an expired session, by the servers in `Notifying`. Its task runs
later and asks nothing (`HandleStatusNotification`): the service signs out and
schedules its idle timer also when nobody was signed in or the server has been
stopped meanwhile.

**Abstraction.** `RequestOutcomes` says what the transport promises without
processes, pipes, ids and messages. `CopilotProperties` maps it: a line is a
transport, *open* while its process runs or its exit is unhandled and it has
not been stopped, and a call is *replied* or *failed*. So a response handled
after `stop` or twice, a continuation dropped, or a request registered with a
process that is gone, would each be a step that is none of `RequestOutcomes`.

### iCloud sync

**State.** Per Mac: `local` (the storages), `dirty` and `tombstones`
(`SyncMetadataStorage`), the change `token`, `syncing` (the status is
`.syncing`), `scheduled` (`syncTask` sleeps), the syncs under way, the pending
`conflicts`, and `resolved`, versions on their way back to the zone. A record's
value is the number of the edit that wrote it, 0 when there is none, and the
zone numbers its changes; a token is such a number. `Connections` are the
records whose conflicts are asked about; `Groups` are those that a pull
overwrites and that `saveGroups` marks all together (tags and SSH profiles
are treated alike).

**Actions.** A sync is at `zone` (`ensureZoneExists`), `push`, `landed` (the
zone has it, the Mac does not know), `pull`, or `fetched`. Everything between
two awaits is one step on the main actor: `BeginPush` collects what is marked,
`PushDone` clears the marks, `ApplyPull` stores the token and applies deletions
and changes. The user's `Add`, `Edit`, `Delete` and the resolution of conflicts
happen between them; `EditsWhile` says at which places of a sync an instance
lets the user edit. `Foreground` is the activation of the app or the button,
`TimerFires` the two seconds.

**The zone is an assumption.** CloudKit is not in the repository. As the code
uses it, a save asks for no change tags (`.changedKeys`,
`CloudKitSyncEngine.swift:110`), so the last writer wins; a modification is not
atomic, so any subset may land when it fails (`PushFails`); one that is retried
may land twice (`PushRetried`); a fetch answers with the changes since the
token, deletions included; a token may expire. A fetch without a token is
taken to report deletions too. `Restart` is a crash or a quit at any point: what is under way is
lost, marks and token are kept, and a Mac without connections clears its token.
A request still travelling when the app dies is lost here; that it might land
after the restart is left out.

### Mutants

A definition whose comment begins with "Mutant:" is not part of
the model. It is the definition after it with one plausible mistake, and shows
that the property named with it in `PROJECT.json` notices the mistake.

## Runs

### Data changes

These check safety only: no fairness is assumed, and deadlock is not checked
because `MaxRows` and `MaxUndo` let an instance come to a stop. The bounds
that an instance names are `MaxRows` (rows of the grid), `MaxUndo` (groups on
the undo stack, which bounds the number of commands between discards and
undos) and the sizes of `Base`, `Values` and `NumColumns`.

| Run | Instance | Shows |
|---|---|---|
| `edits` | two loaded rows with a primary key, every command but undo and redo, up to two new rows, three commands deep | the collections agree with each other and with the grid: swap-removes with changes of all three kinds, renumberings, batches that mix new and loaded rows, inspector edits of two rows, discard |
| `undo` | one loaded row, edit, add, duplicate, paste, delete of loaded rows, undo and redo, three groups deep | the replay keeps everything consistent at every point of every undo/redo walk; each redo takes back the undo; undoing everything shows the database |
| `save` | two loaded rows without a primary key, a column with a default, edits to `NULL` and to values, new rows, discard, four commands deep | UPDATEs and INSERTs are the difference between what is shown and what was loaded, in order and once; discard restores the grid |

Why the bounds are enough to be interesting: three changes is the least where
a swap-remove moves a change other than the removed one and a later command
uses the index entry that was to be repaired; two new rows above two loaded
ones is the least where a renumbering has rows below, between and above; two
values and `NULL` let a cell leave its first value and come back by two ways;
three undo groups are the least with a command before, at and after a
renumbering one. The proofs below remove the bounds for all of these
invariants.

What the passing runs leave out, because it breaks what they show:

* `undo` has no deletion of new rows. Its undo asks whether the first row
  number of the batch is inserted *now* (`DataChangeManager.swift:357`): when
  another new row has moved to that number, it removes that row instead of
  bringing the deleted one back, and the values it would bring back are those
  of the edited columns only, packed to the left
  (`PendingChanges.swift:141-144`).
* `undo` edits one column other than the key, and does not show what becomes of
  the UPDATE of a row that is edited and then deleted: see below.
* `undo` has no inspector edit of two rows (their undo writes the shared old
  value, or `NULL`, into each row) and no context-menu Undo Delete (it leaves
  its deletion on the undo stack, so that the next undo deletes again).
* `save` has no deletion: an edited row that is then deleted keeps the edited
  values in the grid after a discard, until the table is read again.

### Connections

| Run | Instance | Shows |
|---|---|---|
| `recovery` | one tunnelled and monitored connection: a connect, a wake-up at any time while connected, one tunnel death at any time when only the monitor runs, two recovery attempts | one recovery at a time, no driver lost, no closed driver behind a session shown as connected, and every operation ends |
| `monitored` | a monitored connection and a tunnelled one, any three of connect, disconnect and reconnect, the monitor pinging and reconnecting at any time | no open driver is lost, one monitor, the current session is active, no session left connecting |
| `race` | as `recovery`, but the tunnel may die during the connect, whose recovery then connects beside it | one monitor, one recovery, no session left connecting |
| `leak` | the smallest instance | see the next section |

`Operations` says which operations an instance starts, `Alone` which of them
start only when no other operation on their connection is under way, and
`AtRest` which wait for a reconnect of the monitor to be over as well. These
are assumptions about the user and the network, not guards of the code, and
each keeps a known failure out of the runs that check the rest:

* a disconnect during the monitor's reconnect loses a driver (`leak`); so does
  a disconnect during a connect, whose driver then finds no session;
* a connect during a recovery opens two drivers, one of which is overwritten,
  so `race` does not check `OpenDriversAreHeld`; and with a second recovery
  it starts a second monitor (see below);
* while `reconnectSession` awaits the end of the monitor, the monitor may
  set the status to connected, and the driver is closed next: `monitored` does
  not check `ConnectedIsOpen`;
* a disconnect during a recovery is undone by the next attempt.

Bounds: `MaxTasks` (tasks that exist at once), `MaxDrivers` and `MaxTunnels`
(objects of one connection at once), `MaxStarts` (operations), `MaxDeaths`
(tunnels that die) and `MaxRetries` (10 in the code). Monitors ping and
reconnect without a bound. Two operations and a death are the least in which
a recovery meets a second cause of recovery while the monitor is at work; three
operations on two connections the least in which a session that is closed
leaves another to become current and a reconnect follows a connect; two
attempts have a first, a last, and a failure in between. Deadlock is not
checked: an instance that has used up `MaxStarts` stops.

`OperationsEnd` assumes weak fairness of each task's steps (`FairSpec`): the
Swift runtime resumes every task whose await is over, sleeps end, and the calls
behind an await answer or fail. It is not assumed that any of them succeeds.
The operation could still hang on the monitor it has stopped; that it does not
is what is shown.

### Copilot

| Run | Instance | Shows |
|---|---|---|
| `requests` | every kind of request, two commands or status notifications, two starts of the server, the first of which may answer twice | types, no dead continuation, and that the service implements the safety of `RequestOutcomes` |
| `service` | three commands of adding and removing the provider, two starts | a start and a failed start are somebody's work; every start, stop and request ends |
| `removed` | adding and removing only | see the next section |

Bounds: `Callers` (tasks that exist at once), `MaxStarts` (starts, each with a
transport), `MaxCommands` (of the user, and notifications of the status), `MaxRequests`
(what a polling sign-in sends to one transport; 60 attempts in the code).
`Notifying` is both servers in `requests` and none in `service`, which passes
with the first one too, in twice the time. Three tasks are the least for a start, a
stop that overtakes it and a timer; two starts the least for one that outlives
its generation beside a newer one; three commands the least that add, remove and
add again. The invariants are proved without bounds. Deadlock is not checked:
an instance that has used up its commands stops.

`AppFairness` is weak fairness of each task's steps and of the exit notices:
what is queued on an actor runs, what is in a pipe is read, a download ends.
Timers need not fire. `ServerFairness` adds that a server answers each request
or exits: nothing in the code bounds its silence. `StopEnds` and
`EveryRequestIsSettled` fail without it, although `stop()` has a timeout of ten
seconds: its task group returns only when the request has (`CopilotService.swift:129-138`).
With `OneOutcomePerRequest`, `EveryRequestIsSettled` makes the refinement of
`RequestOutcomes!Spec` complete.

### iCloud sync

| Run | Instance | Shows |
|---|---|---|
| `sync` | two Macs, a connection both have and a group yet to be added, two edits, one failure or restart anywhere | types, nothing is missed, and the Macs end in step with the zone |
| `lostmark` | the same, with edits during a push | see the next section |

Bounds: `MaxEdits` (2 here: edits are numbered from 2) and `MaxFailures`.
Two edits are the least that conflict or are a deletion against an edit, on one
record or on two; one failure separates a push from its acknowledgement, a
fetch from its application, and a token from its changes. `NothingIsMissed` is
proved without these bounds. `Slots = {1}`: one sync at a time on each Mac. The
code lets a timer start a second one (`TimerFires` has no guard), and two pulls
may then store their tokens out of order. `EditsWhile` leaves out `zone`,
`push` and `landed`: the last two are what `lostmark` shows, and an edit at
`zone` is marked before the push collects its records and adds nothing but
states.

`Fairness` is weak, of the steps of a sync and of `Foreground`: a sync that is
under way goes on and the zone answers, and each Mac is used again. Without the
last an idle Mac need never pull: the code does not poll, and the handler for
remote notifications has no caller. `Converges` says `<>[]`: with the user's
edits bounded, it is what remains once they stop.

## What the violations show

* `leak` (`DisconnectedIsClosed`): disconnect while the monitor is inside its
  reconnect: the driver closed is the one the session had before, and the new
  one goes with the session without being closed. What that means is up to its
  plugin: PostgreSQL, MySQL, Redis and MongoDB close the handle in a `deinit`,
  when the driver is released; MSSQL and Oracle have none, and the connection
  stays open.
* `removed` (`ServerStopsWhenRemoved`): remove the provider while `start()`
  awaits: the transport is still a local variable of `start()`, `stop()` finds
  nothing to stop, `start()` returns at its guard on the generation, and the
  server runs on with nobody to stop it.
* `lostmark` (`NothingIsMissed`): edit while a push is under way: the edit is
  marked, no timer is started since a sync is under way, and the mark is cleared
  with those of the push. The edit never leaves the Mac, and the next change of
  the record from another Mac replaces it.

## Failures kept out of the runs

The passing runs leave out interactions that break what they show. Each of
these is seen by changing one cfg and running it again:

| Cfg | Change | Fails | Scenario |
|---|---|---|---|
| `DataChanges_undo` | `EditColumns = {1, 2}` | `RedoTakesBackUndo` | edit two columns, undo and redo the second: the grid shows it, no UPDATE writes it |
| `DataChanges_undo` | `Base <- TwoRows`, `EditColumns = {1}`, `Commands = {"edit", "delete"}` | `DeletesPickTheRow` | change the key of a row to that of another and delete it: the DELETE names the other row |
| `DataChanges_undo` | `Commands = {"duplicate", "deleteNew"}` | `InsertsAreTheNewRows` | duplicate a row twice, delete the first copy: the values of the second stay under its old number and its INSERT is not sent |
| `DataChanges_save` | `PrimaryKeyColumns = {1}`, `EditColumns = {2}`, `Commands = {"edit", "delete", "undo"}` | `UpdatesAreTheDifference` | edit a row, delete it, undo the deletion: the grid shows the edit and no UPDATE is pending |
| `DataChanges_save` | `PrimaryKeyColumns = {}`, `EditColumns = {2}`, `Commands = {"edit", "undo"}` | `UpdatesAreTheDifference` | edit a cell, edit it back, undo: the UPDATE made anew compares with the edited row and picks none |
| `Connections_race` | `Operations = {"ensure", "wake"}`, `MaxStarts = 2` | `OneMonitor` | a second recovery takes the monitor out and awaits its end, and a connect, finding none, starts another |
| `Copilot_service` | `SPECIFICATION AppSpec` | `StopEnds` | the server hangs on the shutdown request |

## Proofs

### Data changes

For every table, every set of values and columns and any number of rows and
commands, `UndoProofs` proves

```
TypesCorrect, ChangeIndexIsExact, MarksAlwaysMatchChanges,
ModifiedAlwaysMatchesUpdates, NewRowsAlwaysFollowLoaded, EachIsSentOnceInOrder:
  ASSUME UndoFits  PROVE  Spec => []P      UndoFits == ~ {"undo", "deleteNew"} \subseteq Commands
```

The only assumptions are the named ones of the modules (the base rows have a
value per column, the constants are subsets of what they select from, and `nil`
for the saved values of an insertion is not a row of values) and the hypothesis
that an instance does not have both undo and the deletion of new rows: it has
every other command, or every command but undo and redo. The hypothesis is
needed: with both, `NewRowsFollowLoaded`, `ChangeIndexExact` and
`ModifiedMatchesUpdates` fail, in the way said above.

**The inductive invariant** of the commands (`DataChangeProofs`) is

```
IInv == /\ GridInv(tableRows)          full rows, and at least the loaded ones
        /\ Consistent(pending)
        /\ NewRowsLast(pending, Len(Base), Len(tableRows))
Consistent(p) == Indexed(p) /\ MarksMatch(p) /\ ModifiedMatches(p)
Indexed(p)    == p is well typed and IndexExact(p)
```

None of its parts is inductive alone. `IndexExact` needs that an append finds
no change under its key, which for a deletion or an insertion is `MarksMatch`;
`ModifiedMatches` needs `IndexExact` for the cell change it edits to be the
one under the row's key; all three survive a renumbering only because the
renumbering is one-to-one on the rows with a change, which is `NewRowsLast`
(updates and deletes are below the removed rows, inserts are not removed twice).

**The argument** goes bottom-up: lemmas on partial functions, on counting, and
on `KeepIn` and `ForEach`; for each operator of `PendingChanges`, which changes
it leaves and that it keeps `Consistent` (`AppendChange`,
`RemoveChangeAt`, `DropCell`, `MergeUpdateCell`, `UpdateInsertedCell`,
`RecordCellChange`, `RecordRowDeletion`, `RecordRowInsertion`,
`UndoRowDeletion`, `UndoBatchRowInsertion`); for each action, that it keeps
`IInv`; `NextKeeps` puts the actions together, and the temporal step is `PTL`.

**Statements.** `SaveProofs` shows that `IInv` implies `EachSentOnceInOrder`
(`SaveSendsInOrder`). `GenerateStatements` is a loop, here a recursive function, and what
it computes needs an induction along the changes. The induction theorems of the
library take an operator, which the provers cannot instantiate; `Induct` states
the principle for sets instead (a set of naturals with 0 and the successor of
each of its members has every natural, because `<` is well founded), and
`Collects` and `Gathers` are the sets it is used for. The result is `SentBy`:
the statements of a kind are exactly those of the changes that need one.

**Saves.** `SaveProofs` lifts that to the grid for the commands, `UndoProofs`
for undo and redo as well, with the hypotheses that each property needs:

| Theorem | Commands left out | Inductive invariant beside `IInv` |
|---|---|---|
| `NoUpdateIsIdle` | with undo: inspector edits and deletions of new rows | `SoundCells`: no recorded cell has its old value as the new one |
| `UpdatesWriteTheShown` | inspector edits; with undo: deletions of new rows | `ShownCells`: the new value of a recorded cell is what the grid shows |
| `DeletesPickTheRightRow` | edits of the key columns; with undo: inspector edits and deletions of new rows | `KeysKept`: loaded rows and recorded deletions have the key that was loaded |
| `InsertsWriteTheNewRows` | inspector edits, deletions of new rows | `StoredValues`: the stored values of a new row are those shown |
| `UpdatesAreExactlyTheDifference` | as `SimpleEdits` says; no `Null` in a loaded primary key | `DifferenceInv` |
| `DiscardRestoresTheGrid` (an action property) | as `SimpleEdits` says | `DifferenceInv`, and the undo stack a sequence |

`DifferenceInv` has three parts: a recorded old value is the loaded one
(`FromBase`), a cell shown differently from what was loaded is recorded
(`DifferencesRecorded`), and no deleted row has an update
(`DeletedNotUpdated`). `SimpleEdits` leaves out undo, inspector edits, the
context menu's Undo Delete, and discards in an instance with deletions of
loaded rows.

Each hypothesis keeps out a command that really breaks the property. The
inspector records a change that the grid does not show. An edited key is in the
original row of a deletion. Deleting a new row leaves the stored values of those
above it under their old numbers. Undo Delete brings a row back whose update
the deletion has dropped, so a cell is shown that no UPDATE writes. For the same
reason a discard after an edit and a deletion has nothing to put the edited
value back from (`MainContentCoordinator+Discard.swift:73`). A row whose key is
`NULL` gets no UPDATE. With undo, the inspector breaks more: its undo writes one
old value into several rows. And an undo can re-create an UPDATE whose original
row is the edited one, so `UpdatesAreTheDifference` fails with it.

**Undo and redo.** A replay decides by the state it finds (is there an update
for the row, is the row new, is it deleted), not by what its action recorded. So
that it does the right thing depends on the stack: the action on top must fit
the grid that is shown, and the one below it must fit the grid that the replay
will leave. `IInv` says nothing of the stacks, and is not kept by an arbitrary
action on top of one. The invariant of `UndoProofs` is

```
UndoInv == /\ InStep(pending, tableRows)
           /\ Chained("undo", undoStack, Now, Start)
           /\ Chained("redo", redoStack, Now, States)
```

`InStep` is `IInv` with the four invariants of the table (the value ones only
where the inspector does not edit), that recorded updates have the loaded key,
and, where the context menu does not take back marks of deletion, that no row
marked deleted has an update. `Now` is the state (`StateOf`) of the grid shown:
its rows and the rows marked deleted (of the rows only their number where the
inspector edits). `Chained` says that there is a state for each position of a
stack, the top one `Now`, such that each group leads from the state above it to
the one below (`GroupActs`): a cell edit finds its new value and leaves its
previous one, an insertion takes the last row out or puts it back, a deletion
takes the marks of its rows away or sets them. The direction says which: on the
undo stack an insertion takes its row out, on the redo stack it puts it back.
The undo stack ends in `Start`, the grid as it was loaded (after a discard,
which clears both stacks, only its number of rows is known).

The argument has one lemma for each kind of action (`CellEditReplayed` and its
like: a replay that fits keeps `InStep`, arrives at the state the action leads
to, and registers an action that leads back), `GroupReplayed` for the one or two
actions of a group, `ChainPop` and `ChainPush` for what `Undo` and `Redo` do
with the stacks, and one lemma for each command, that the group it registers
leads from the new grid back to the old (`CommandKeepsUndo`). The bottom of the
chain gives one more theorem:

```
UndoingAllShowsTheDatabase:
  ASSUME Commands \cap {"sidebar", "discard", "deleteNew"} = {}
  PROVE  Spec => []UndoAllShowsDatabase
```

With an empty undo stack the chain is one state, that of the grid and that of
`Start`: every row shows what was loaded, and there is no row more. A discard
is left out since it clears the stacks without putting every value back.

The chain also says what a redo does:

```
RedoAlwaysTakesBackUndo:
  ASSUME Commands \cap {"sidebar", "deleteNew", "undoDelete"} = {},
         KeyColumns \cap EditColumns = {},
         \A c, d \in EditColumns : c = d
  PROVE  Spec => []RedoTakesBackUndo
```

The group on top leads from `Now` to the state below, and what its replay
registers leads back, so after both the grid and the marks of deletion are those
of before (`GroupRedone`). The pending changes are not: an undo may drop an
update that the redo makes anew at the end of the list, with another original
row. What a save sends is the same nevertheless (`SameSent`): the inserts follow
from the grid, the deletes from the marks and the loaded keys, and the updates
from the grid and the rows updated, once it is known that these are the same
rows (`ActionRedone`) and that each update has the one column that is edited.
With a second column it has not: `revertUpdateCell` finds the update of the
first cell and nothing in it to revert, so the second is shown but not sent
(`EditColumns = {1, 2}` above). An edited key would be in the WHERE clause of
the update made anew. The three commands register no undo or one that does not
lead back.

### Connections

`ConnectionProofs` proves, for any number of connections, tasks, drivers,
tunnels, deaths and retries, and with every operation allowed at any time
(nothing is asked of `Operations`, `Alone` and `AtRest`),

```
ConnectionTypesCorrect, AtMostOneRecovery, CurrentIsAlwaysActive:  Spec => []P
```

from the named assumptions of `SSHTunnels` and `ConnectionSessions` alone: the
limits are natural numbers, there is at least one retry, `NoConnection` is not
a connection. So the exclusions by which the runs keep known failures away are
not needed for these: they hold in the instance of `leak` too.

**The inductive invariant** is

```
IInv == TypeOK /\ OneRecovery /\ CurrentIsActive /\ NoSessionNoDriver
          /\ every task at "opening" has a driver
```

`NoSessionNoDriver` (a connection without a session has no driver) is what
lets `connectToSession` make a connection current when it finds a driver; the
last part is what makes a driver that opens one of the connection's.
`OneRecovery` is inductive because it says both that there is one recovery and
that the mark is there exactly as long: the guard of `handleSSHTunnelDied`
looks at the mark only.

**The argument.** What the invariant knows of a task is its *role* (inside a
recovery, about to leave `disconnectSession`, or neither). Lemmas say what each
way of changing `tasks` does to the roles (`PcSet`, `EndedIs`, `TaskAdded`,
`StopHealthMonitorIs`, `StartMonitorIs`, `ReturnedIs`); 28 of the actions
change none and keep the invariant by `QuietStep`; the other ten enter or
leave a recovery (`RecoveryBegins`, `RecoveryReturns`) or remove a session
(`NextIsActive`, `CloseSessionKeeps`).

**What every step does.** `MonitorProofs` begins with a table: under `Ready`,
each action is one of some twenty kinds of step of one task for one connection
(`ConnectionStep`, `MonitorStep`), described by what they do to the session,
the monitors, the open drivers and the other tasks. That is proved once per
action, and all that follows is proved from the table.

**Without an exclusion**, that is with operations that overlap in any way,
`MonitorProofs` proves

```
MonitorsAreLive:           Spec => []MonitorsLive
ConnectingAlwaysWorkedOn:  Spec => []ConnectingIsWorkedOn
```

by the invariant `LiveInv == IInv /\ MonitorsLive /\ Worked`. `MonitorsLive`
says that the task `healthMonitors` names for a connection is a monitor of that
connection that has not been cancelled, so a number is never given to a second
task while the table holds it, and an operation that awaits the monitor it has
stopped awaits one that ends. `Worked` is `ConnectingIsWorkedOn` with a task
that counts only if it will set the status or remove the session: a task that
has done so no longer does, so it is the stronger of the two and inductive.

**Where operations do not overlap**, `DriverProofs` proves

```
OneMonitorAtATime:                ASSUME OneByOne                          PROVE Spec => []OneMonitor
OpenDriversAlwaysHeld:            ASSUME OneByOne, DisconnectsAtRest       PROVE Spec => []OpenDriversAreHeld
DisconnectedAlwaysClosed:         ASSUME OneByOne, DisconnectsAtRest       PROVE Spec => []DisconnectedIsClosed
ConnectedAlwaysOpen:              ASSUME OneByOne, ReconnectsUnmonitored   PROVE Spec => []ConnectedIsOpen
```

for any number of connections, operations, deaths, retries and drivers. The
monitors ping, fail and reconnect at any time beside the operations. The
hypotheses are about `Operations`, `Alone` and `AtRest`, that is about the user
and the network, as in the runs:

* `OneByOne`: a disconnect, a reconnect for a switch and the death of a tunnel
  come when nothing but a monitor runs for their connection. A call of
  `ensureConnected` may come at any time where no tunnel is recovered, since
  `OnceTask` and the session's driver keep it from the rest; where tunnels are
  recovered it too comes alone. The system may wake at any time where nothing
  closes a session. Other connections do what they like meanwhile. It is needed:
  a connect during a recovery starts a second monitor or overwrites a driver.
* `DisconnectsAtRest`: a disconnect does not overlap the reconnect of the
  monitor, whose driver would be lost (`leak`). `disconnectSession` first awaits
  the close of the tunnel, and a monitor may begin to reconnect meanwhile, so no
  connection is both tunnelled and monitored.
* `ReconnectsUnmonitored`: where sessions are reconnected for a switch there
  are no monitors. While `reconnectSession` awaits the end of one, that monitor
  may still show its session as connected, and the driver is closed next.

The constants of `monitored` satisfy `OneByOne` and `DisconnectsAtRest`, those
of `recovery` (in which nothing is disconnected or reconnected for a switch) all
three. A death beside a connect (`race`) is outside of `OneByOne`.

**The inductive invariant** behind them is

```
SessionInv == /\ LiveInv
              /\ AloneAtWork /\ CalledAside /\ OneLeads /\ InstallsOne /\ Unrecovered /\ MonitorsFit
              /\ MonitorsAside /\ SessionsFit
              /\ ConnectedHasDriver /\ OnlyOffered /\ EnsuresAlone
```

The second line says who is at work. `OneByOne` only says how operations begin;
`AloneAtWork` and `CalledAside` say that none comes beside another later, which
for a recovery rests on `OneRecovery` (the mark is read when it is taken up, not
when it is called) and on `EnsuresAlone`: a call of `ensureConnected` that is
under way has found no driver, and nothing wakes a session that is not
connected. `OneLeads` is `OnceTask`: of the calls for a connection one connects
and the others wait. Then `MonitorsFit` holds: a monitor is the table's, or has
been cancelled and is awaited by the one task at work. The third line says what
each task relies on: `connectToSession` connects a session without a driver, a
reconnect and a monitor replace a driver that is closed (`SessionsFit`), and no
operation makes a driver beside a monitor (`MonitorsAside`).

`OpenDriversAlwaysHeld` adds `ClosingFits`, by which the driver that
`disconnectSession` read before its first await is the session's when it closes
it, and `OpenFits`, the property with a task that counts only if it has opened
the driver and will install it. `ConnectedAlwaysOpen` adds `ConnectedFits`: what
a task knows of the status of its session, above all that a monitor shows its
session as not connected from a failed ping to the new driver.

### Copilot

`CopilotProofs` proves, for any number of tasks, starts, commands and requests
and whatever the servers do,

```
TypeCorrect, PendingAlwaysLive, StartingAlwaysWorkedOn, ErrorAlwaysRetried,
RefinesOutcomes:  Spec => []P   (RefinesOutcomes: Spec => OneOutcomePerRequest)
```

from the named assumptions of the modules. **The inductive invariant** is

```
IInv == TypeOK /\ TasksFit /\ TimersFit /\ ProcessesFit /\ PendingFits
          /\ StartingFits /\ ErrorIsRetried
```

`PendingIsLive` alone is not inductive: a response must find the one
continuation of its caller, so the pending entries and the waiting callers have
to correspond one to one (`PendingFits`), which a new request keeps because its
id is new and a task asks nothing while it waits (`TasksFit`). `ErrorIsRetried`
needs that the timer handle names a sleeping timer (`TimersFit`), since a
cancellation ends whatever the handle names. Each action of the service moves
one task and may cancel timers; that is proved once per action (`ServiceMove`),
and the parts about tasks and requests follow from the move. The refinement
uses `IInv` in every step: a step of `RequestOutcomes` or a stutter
(`StepRefines`).

### iCloud sync

`SyncProofs` proves `TypeCorrect` for every instance, any number of syncs at
once included, and

```
NothingEverMissed == ASSUME QuietPushes PROVE Spec => []NothingIsMissed
```

for any number of Macs, records, edits and failures. `QuietPushes` says that one
sync runs at a time and that the user does not edit while its push is under way
(`zone`, `pull` and `fetched` are allowed). It is needed: `lostmark` is its
failure. **The inductive invariant** is

```
IInv == TypeOK /\ AllCreated /\ DeletedIsGone /\ Underway /\ AllAccounted
```

`AllAccounted` is `NothingIsMissed` with a mark counting only if a push will
carry it, and no token ahead of the zone. `Underway` is what makes clearing the
marks safe: a push carries what is marked now, and once it has landed each of
those records is equal to the zone's or will be pulled; and what makes the token
safe: a fetch has everything the zone had changed up to the token it brings. A
device that takes no step keeps its part because the zone only moves on
(`ApartKeeps`).

### Only model-checked

* `UpdatesAreTheDifference` and `DiscardRestores` with undo, which breaks the
  first (see above).
* The commands outside the hypotheses of the table above, one by one: where a
  run of `edits` or `undo` allows them, TLC checks what holds there.
* `OneMonitor` where a tunnel dies beside a connect (`race`), which it does only
  because the instance has one death.
* Liveness, out of the prover's reach: `OperationsEnd`, `StartEnds`, `StopEnds`,
  `EveryRequestIsSettled` (the liveness half of the refinement) and `Converges`.

## Not modelled

In the modelled components: multi-cell paste (a loop of `commitCellEdit`),
sorting by the client, `undoInsertRow` (no caller), the throw of `generateSQL`
for an update it could not write (a primary key value is never `NULL` in the
instances), tab snapshots (`restore`, `snapshot`), which belong to
the module `TabSession` of the plan; `disconnectAll` (disconnects in sequence), the connection
test, the password prompt of a reconnect, and the drivers' own state.

Of Copilot: document synchronisation, conversations and tools, notifications to
the server, the requests a server makes, reading the bytes of the pipe, and the
download of the binary. Of the sync: the account, the licence, enabling it and
its toggles, settings records, records kept local, passwords in the keychain,
the batches of 400 records, the pruning of tombstones after 30 days, that
deleting a group empties the group of its connections, and the iOS coordinator.

Other components are listed with their status in
`PROJECT.json`: text algorithms (autocomplete, formatting, SQL parsing) are
pure functions that unit tests reach, drivers, export and import are I/O,
views and vendored packages hold no logic of their own that the properties tell
apart.

## Plan

1. `PendingChanges`, `SQLStatements`, `DataChangeManager` with properties and
   proofs. Done.
2. `SSHTunnels`, `ConnectionSessions` with properties, and the proofs with and
   without an exclusion. Done. Left: `disconnectAll`, and an abstract
   specification (a connection is a resource that is open only while a session
   holds it).
3. `RequestOutcomes`, `LSPTransport`, `CopilotService` with properties, proofs
   and the refinement. Done. Left: document synchronisation.
4. `CloudSync` with properties and the proof that nothing is missed. Done. Left:
   two syncs at once on one Mac, the account change and enabling.
5. `TabSession`: tabs with snapshots over an abstract pending set, one undo
   manager, the asynchronous save. Abstract specification: an edit is pending,
   saved or discarded by the user.
6. `MCPSessions`: capacity and idle cleanup, and a theorem on the bound that
   does hold. Query generations.

Theorems to add on the way: the grid half of `RedoTakesBackUndo` with several
columns edited, that each action keeps the first old value of a cell,
`OneMonitor` with a single death beside a connect, and the inductive invariants
of the modules 5 and 6.
